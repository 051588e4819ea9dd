--------------------------- MODULE DocumentStore ----------------------------
(***************************************************************************)
(* What micad's settings store promises: the documents change together or  *)
(* not at all.  A save that answers "saved" took effect, one that answers  *)
(* "failed" did not, and a save cut short by power loss did or did not.    *)
(* Once a load or a save has ended before its flush nothing is promised    *)
(* until the machine starts again.                                         *)
(***************************************************************************)
CONSTANTS Contents,  \* the values the documents may have together
          None       \* no save is under way

VARIABLES value,    \* what a load returns
          pending,  \* the value being saved, or None
          said,     \* the answer of the last save: "saved", "failed", "silent"
          loose     \* a load or a save ended before its flush

vars == <<value, pending, said, loose>>

Init ==
  /\ value \in Contents
  /\ pending = None
  /\ said = "silent"
  /\ loose = FALSE

Begin(v) ==
  /\ pending = None
  /\ pending' = v
  /\ said' = "silent"
  /\ UNCHANGED value

Saved ==
  /\ pending # None
  /\ value' = pending
  /\ pending' = None
  /\ said' = "saved"

Failed ==
  /\ pending # None
  /\ pending' = None
  /\ said' = "failed"
  /\ UNCHANGED value

\* micad dies or power is lost: a save under way is decided one way or the other.
Ended ==
  /\ value' = value \/ (pending # None /\ value' = pending)
  /\ pending' = None
  /\ said' = "silent"

Kept ==
  /\ ~loose /\ ~loose'
  /\ \/ \E v \in Contents : Begin(v)
     \/ Saved
     \/ Failed
     \/ Ended

\* A load or a save ends before its flush, and what follows it.
Loose ==
  /\ loose'
  /\ value' \in Contents
  /\ pending' \in Contents \cup {None}

\* The machine starts again with one consistent value.
Settled ==
  /\ loose /\ ~loose'
  /\ value' \in Contents
  /\ pending' = None
  /\ said' = "silent"

Next == Kept \/ Loose \/ Settled

Spec == Init /\ [][Next]_vars
=============================================================================
