------------------------------ MODULE MCNetCheck ------------------------------
\* NetCheck for TLC: a sequence of targets cannot be written in a .cfg.
EXTENDS NetCheck

CONSTANTS h1, a1, a2

OneHost == <<h1>>

===============================================================================
