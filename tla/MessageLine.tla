----------------------------- MODULE MessageLine -----------------------------
(***************************************************************************)
(* What the centre's controller promises to whoever reads eventChan: a     *)
(* line of words, each a message and the info it is told with.  What has   *)
(* joined the line stays in it, unchanged and in its order, until the      *)
(* reader takes it, and what the reader has taken stays as it is until the *)
(* reader is done with it.  That the words are kept in objects which are   *)
(* used again and again is nothing a reader could notice.                  *)
(***************************************************************************)
EXTENDS Naturals, Sequences

VARIABLES
    line,     \* the words that wait, in order
    reading   \* the word the reader works on, or none

vars == <<line, reading>>

Init == line = <<>> /\ reading = <<>>

\* A word joins the line at its end.
Join ==
    /\ Len(line') = Len(line) + 1
    /\ line' = Append(line, line'[Len(line')])
    /\ UNCHANGED reading

\* The reader, with nothing else to read, takes the first.
TakeFirst ==
    /\ reading = <<>> /\ line # <<>>
    /\ reading' = <<Head(line)>>
    /\ line' = Tail(line)

\* The reader is done with its word.
Done ==
    /\ reading # <<>>
    /\ reading' = <<>>
    /\ UNCHANGED line

Next == Join \/ TakeFirst \/ Done

Spec == Init /\ [][Next]_vars

===============================================================================
