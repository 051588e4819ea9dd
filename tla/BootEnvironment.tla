-------------------------- MODULE BootEnvironment ---------------------------
(***************************************************************************)
(* The boot records of a FIT board (crates/mica-deploy/src/fit_env.rs):    *)
(* two redundant copies of one environment, each with a checksum and a     *)
(* wrapping flag byte.  A save overwrites the inactive copy with the next  *)
(* flag, flushes, and reads the environment back; a reader takes the copy  *)
(* U-Boot's rule takes.  micaboot saves by the same rule when it spends a  *)
(* boot attempt, so a Save below is any of the two writers.                *)
(*                                                                         *)
(* On a partition an interrupted write leaves a copy whose checksum fails; *)
(* on UBI the volume update is atomic.  Save allows both.                  *)
(***************************************************************************)
EXTENDS Integers, Sequences

CONSTANTS Lists,    \* the record lists the callers offer to save
          FlagMax,  \* the largest flag: 255, a u8
          None

ASSUME FlagAssumption == FlagMax \in Nat /\ FlagMax >= 2
ASSUME NoneAssumption == None \notin Lists

(***************************************************************************)
(* parse_records: one or two records, of descending generation and         *)
(* distinct ids, each with a counter of 0..3 attempts or none.  render     *)
(* parses what it wrote, so nothing else is ever saved: an empty list      *)
(* renders as a row without fields, which the parser refuses.              *)
(***************************************************************************)
WellFormed(list) ==
  /\ Len(list) \in 1..2
  /\ \A i, j \in 1..Len(list) : i < j =>
       /\ list[i].generation > list[j].generation
       /\ list[i].id # list[j].id
  /\ \A i \in 1..Len(list) :
       /\ list[i].generation > 0
       /\ list[i].tries \in 0..3 \/ list[i].tries = None

Saved == {list \in Lists : WellFormed(list)}

VARIABLES copies,   \* the two copies: valid (checksum), flag, records
          pc,       \* where the writer is
          env       \* the writer's in-memory Environment: slot, flag, records

vars == <<copies, pc, env>>

Slots == {0, 1}
Flags == 0..FlagMax

\* flag.wrapping_add(1).
WrappingSucc(flag) == IF flag = FlagMax THEN 0 ELSE flag + 1

\* env_check_redund: the only valid copy, else the one with the later flag.
Active ==
  LET a == copies[0].flag
      b == copies[1].flag
      second == \/ a = FlagMax /\ b = 0
                \/ b > a /\ ~(b = FlagMax /\ a = 0)
  IN IF ~copies[1].valid THEN 0
     ELSE IF ~copies[0].valid THEN 1
     ELSE IF second THEN 1 ELSE 0

\* Environment::load succeeds: there is a valid copy.
Loads == \E slot \in Slots : copies[slot].valid

Copy(valid, flag, records) == [valid |-> valid, flag |-> flag, records |-> records]

\* The copies once the checksum of one no longer holds.
Torn(slot) ==
  [copies EXCEPT ![slot] = Copy(FALSE, copies[slot].flag, copies[slot].records)]

\* A new device's image carries the same list in both copies, or in one.
Init ==
  /\ \E list \in Saved, flag \in Flags, both \in BOOLEAN :
       copies = [slot \in Slots |->
                   IF slot = 0 THEN Copy(TRUE, WrappingSucc(flag), list)
                   ELSE Copy(both, flag, list)]
  /\ pc = "idle"
  /\ env = [slot |-> 0, flag |-> 0, records |-> copies[0].records]

\* Faulty variant: overwrites the active copy in place.
SaveInPlace(list) ==
  /\ pc = "idle"
  /\ Loads
  /\ WellFormed(list)
  /\ env' = [slot |-> 1 - Active, flag |-> copies[Active].flag, records |-> list]
  /\ pc' = "writing"
  /\ copies' = Torn(Active)

\* Faulty variant: the new records are written under the old flag first.
SaveSplit(list) ==
  /\ pc = "idle"
  /\ Loads
  /\ WellFormed(list)
  /\ env' = [slot |-> Active, flag |-> copies[Active].flag, records |-> list]
  /\ pc' = "writing"
  /\ copies' = [copies EXCEPT ![1 - Active] = Copy(TRUE, @.flag, list)]

(***************************************************************************)
(* save: the caller has loaded the environment and changed its records.    *)
(* encode refuses a list that does not parse before a byte is written.     *)
(* On a partition the first bytes reach the inactive copy, whose checksum  *)
(* no longer holds; a UBI volume keeps its old content until the commit.   *)
(***************************************************************************)
Save(list) ==
  /\ pc = "idle"
  /\ Loads
  /\ WellFormed(list)
  /\ env' = [slot |-> Active, flag |-> copies[Active].flag, records |-> list]
  /\ pc' = "writing"
  /\ copies' \in {copies, Torn(1 - Active)}

\* write_all and sync_all: the inactive copy holds the list and the next flag.
Commit ==
  /\ pc = "writing"
  /\ copies' = [copies EXCEPT
       ![1 - env.slot] = Copy(TRUE, WrappingSucc(env.flag), env.records)]
  /\ pc' = "written"
  /\ UNCHANGED env

\* The environment read back is the one written.
ReadBackOk ==
  /\ Loads
  /\ Active = 1 - env.slot
  /\ copies[Active].flag = WrappingSucc(env.flag)
  /\ copies[Active].records = env.records

\* The read-back and its verdict, "ok" or "boot environment read-back mismatch".
ReadBack ==
  /\ pc = "written"
  /\ pc' = IF ReadBackOk THEN "idle" ELSE "mismatch"
  /\ UNCHANGED <<copies, env>>

\* Power is lost: the writer is gone, the copies are as they are.
Crash ==
  /\ pc # "idle"
  /\ pc' = "idle"
  /\ UNCHANGED <<copies, env>>

\* A copy of two sound ones becomes unreadable between saves.
Decay(slot) ==
  /\ pc = "idle"
  /\ copies[slot].valid /\ copies[1 - slot].valid
  /\ copies' = Torn(slot)
  /\ UNCHANGED <<pc, env>>

Next ==
  \/ \E list \in Lists : Save(list)
  \/ Commit
  \/ ReadBack
  \/ Crash
  \/ \E slot \in Slots : Decay(slot)

Spec == Init /\ [][Next]_vars

-----------------------------------------------------------------------------
(* Properties *)

\* The copies hold only lists that parse, and the writer is at a known step.
TypeOK ==
  /\ copies \in [Slots -> [valid : BOOLEAN, flag : Flags, records : Saved]]
  /\ pc \in {"idle", "writing", "written", "mismatch"}
  /\ env \in [slot : Slots, flag : Flags, records : Saved]

\* Whatever is interrupted, a reader finds a valid copy, so neither mica-deploy
\* nor micaboot is ever left without boot records.
AlwaysLoads == Loads

\* The read-back of a completed save never refuses it: the flag rule, wrap
\* included, always prefers the copy just written (fit_env.rs `save`).
ReadBackAgrees == pc = "written" => ReadBackOk

\* The flags of two valid copies are neighbours, so the wrap cases of
\* env_check_redund are the only ones it must tell apart; the copy a save is
\* about to replace is never the active one.
FlagsAdjacent ==
  /\ (\A slot \in Slots : copies[slot].valid) =>
       \E slot \in Slots : copies[slot].flag = WrappingSucc(copies[1 - slot].flag)
  /\ pc = "writing" => /\ copies[env.slot].valid
                       /\ copies[env.slot].flag = env.flag
                       /\ Active = env.slot

\* The environment implements the register the deployment store relies on: a
\* save is atomic, an interruption keeps the old records, and only a decayed
\* copy brings the previous records back.
Register == INSTANCE RecordRegister WITH
  Lists <- Saved,
  value <- copies[Active].records,
  previous <- IF copies[1 - Active].valid THEN copies[1 - Active].records ELSE None

ImplementsRegister == Register!Spec

\* The promises of the redundant copies together: readable copies of the right
\* shape, flags that tell which is newer, and a save that reads back.
EnvironmentSafe == TypeOK /\ AlwaysLoads /\ FlagsAdjacent /\ ReadBackAgrees

=============================================================================
