SPECIFICATION Spec
CONSTANTS
    Handlers = {h1, h2}
    Tokens = {1, 2}
INVARIANTS OpensOnce SentReady
PROPERTIES LoneRequestEnds
CHECK_DEADLOCK FALSE
