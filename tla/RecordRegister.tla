--------------------------- MODULE RecordRegister ---------------------------
(***************************************************************************)
(* What the boot records promise to the code above them: a register whose  *)
(* writes happen completely or not at all, and which remembers at most one *)
(* earlier value.  A medium fault may take the newest copy away, and the   *)
(* register then answers with the earlier value; it may also take the      *)
(* earlier value away.  It never takes both, and a read always answers.    *)
(***************************************************************************)
CONSTANTS Lists,  \* the record lists a writer may save
          None    \* no earlier value is held

VARIABLES value,     \* what a read of the boot records returns
          previous   \* the value an older sound copy still holds, or None

vars == <<value, previous>>

Init ==
  /\ value \in Lists
  /\ previous \in Lists \cup {None}

\* A save: the register takes v. The value it replaces stays readable behind
\* it, unless the store keeps only one copy.
Write(v) ==
  /\ value' = v
  /\ previous' \in {value, None}

\* The older copy is lost: overwritten by an interrupted save, or decayed.
Forget ==
  /\ previous' = None
  /\ UNCHANGED value

\* The newest copy is lost and the older one answers in its place.
Revert ==
  /\ previous # None
  /\ value' = previous
  /\ previous' = None

Next ==
  \/ \E v \in Lists : Write(v)
  \/ Forget
  \/ Revert

Spec == Init /\ [][Next]_vars
=============================================================================
