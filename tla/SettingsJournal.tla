-------------------------- MODULE SettingsJournal ---------------------------
(***************************************************************************)
(* The undo journal of micad's settings store                              *)
(* (crates/micad-settings/src/transaction.rs, store.rs): a save writes the *)
(* previous text of every changed document to a journal on STATE, replaces *)
(* the documents one by one, and removes the journal; a load or the next   *)
(* save that finds a journal first puts the previous texts back.           *)
(*                                                                         *)
(* A replacement is a rename followed by a flush of the directory, a       *)
(* removal an unlink followed by the same flush.  What was renamed or      *)
(* unlinked is seen at once, and survives power loss only once its         *)
(* directory was flushed; until then either content may survive.           *)
(***************************************************************************)
EXTENDS Integers, FiniteSets

CONSTANTS
  Docs,        \* the documents
  StateDocs,   \* those on STATE, beside the journal; the others are on DATA
  Position,    \* the order in which a save takes the documents
  Texts,       \* what a document may hold
  Journal,     \* the journal's file
  None         \* no file

ASSUME JournalAssumption ==
  /\ Journal \notin Docs /\ StateDocs \subseteq Docs
  /\ None \notin Texts \cup UNION {[docs -> Texts \cup {None}] : docs \in SUBSET Docs}
  /\ Position \in [Docs -> Nat]
  /\ \A d, e \in Docs : d # e => Position[d] # Position[e]

Files == Docs \cup {Journal}

Content == Texts \cup {None}

Contents == [Docs -> Content]

VARIABLES
  disk,   \* what a reader of each file sees now
  maybe,  \* what each file may hold after power loss
  held,   \* the settings micad holds in memory, None before it has loaded
  said,   \* the answer of the last save
  pc,     \* the step of the load or the save under way, or "idle"
  job,    \* what the load or the save holds in memory
  cut     \* history: since the machine started, a load or a save ended with
          \* a file replaced or removed and its directory not flushed

vars == <<disk, maybe, held, said, pc, job, cut>>

\* then: what a recovery is for; before, target: the documents a save finds
\* and is to leave; todo: the documents still to restore or to write.
NoJob == [then |-> "load", before |-> None, target |-> None, todo |-> {}, file |-> None]

\* What the documents hold once a journal that is there has been undone.
Logical ==
  [d \in Docs |-> IF disk[Journal] # None /\ d \in DOMAIN disk[Journal]
                  THEN disk[Journal][d] ELSE disk[d]]

Init ==
  /\ \E docs \in Contents :
       disk = [f \in Files |-> IF f = Journal THEN None ELSE docs[f]]
  /\ maybe = [f \in Files |-> {disk[f]}]
  /\ held = None
  /\ said = "silent"
  /\ pc = "idle"
  /\ job = NoJob
  /\ cut = FALSE

-----------------------------------------------------------------------------
(* Files *)

\* A file replaced or removed, as seen at once.
Put(f, text) ==
  /\ disk' = [disk EXCEPT ![f] = text]
  /\ maybe' = [maybe EXCEPT ![f] = @ \cup {text}]

OnState(f) == f \in StateDocs \cup {Journal}

Unflushed == \E f \in Files : maybe[f] # {disk[f]}

\* The directory of f flushed: every file in it stays as it is seen.
Flush(f) ==
  /\ maybe' = [g \in Files |-> IF OnState(g) = OnState(f) THEN {disk[g]} ELSE maybe[g]]
  /\ UNCHANGED disk

IsFirst(d, docs) == \A e \in docs : Position[d] <= Position[e]
IsLast(d, docs) == \A e \in docs : Position[d] >= Position[e]

-----------------------------------------------------------------------------
(* recover *)

\* recover begins, for a load, a save, or the rollback of a failed save.
\* Without a journal there is nothing to do.
Recover(now, next) ==
  IF disk[Journal] = None
  THEN pc' = next /\ job' = now
  ELSE pc' = "recover" /\ job' = [now EXCEPT !.todo = DOMAIN disk[Journal]]

\* One document of the journal, in the reverse of the order of the save. One
\* that reads as its previous text is passed over.
RecoverDocument ==
  /\ pc = "recover"
  /\ \E d \in job.todo :
       /\ IsLast(d, job.todo)
       /\ IF disk[d] = disk[Journal][d]
          THEN /\ job' = [job EXCEPT !.todo = @ \ {d}]
               /\ UNCHANGED <<disk, maybe, pc>>
          ELSE /\ Put(d, disk[Journal][d])
               /\ job' = [job EXCEPT !.todo = @ \ {d}, !.file = d]
               /\ pc' = "recover.sync"
  /\ UNCHANGED <<held, said, cut>>

RecoverSync ==
  /\ pc = "recover.sync"
  /\ Flush(job.file)
  /\ pc' = "recover"
  /\ UNCHANGED <<held, said, job, cut>>

\* Every document is back: the journal goes.
RecoverForget ==
  /\ pc = "recover" /\ job.todo = {}
  /\ Put(Journal, None)
  /\ pc' = "forget.sync"
  /\ UNCHANGED <<held, said, job, cut>>

RecoverDone ==
  /\ pc = "forget.sync"
  /\ Flush(Journal)
  /\ pc' = CASE job.then = "load" -> "read"
             [] job.then = "save" -> "changes"
             [] job.then = "fail" -> "fail"
  /\ UNCHANGED <<held, said, job, cut>>

-----------------------------------------------------------------------------
(* Store::load *)

Load ==
  /\ pc = "idle"
  /\ Recover(NoJob, "read")
  /\ UNCHANGED <<disk, maybe, held, said, cut>>

Read ==
  /\ pc = "read"
  /\ held' = [d \in Docs |-> disk[d]]
  /\ pc' = "idle"
  /\ job' = NoJob
  /\ UNCHANGED <<disk, maybe, said, cut>>

-----------------------------------------------------------------------------
(* Store::save *)

\* The writer saves a changed copy of the settings it holds.
Save(target) ==
  /\ pc = "idle"
  /\ held # None
  /\ said' = "silent"
  /\ Recover([then |-> "save", before |-> Logical, target |-> target, todo |-> {}, file |-> None],
             "changes")
  /\ UNCHANGED <<disk, maybe, held, cut>>

Changed == {d \in Docs : disk[d] # job.target[d]}

\* The answer of a save: micad keeps the new settings only if it was saved.
Answer(answer) ==
  /\ said' = answer
  /\ held' = IF answer = "saved" THEN job.target ELSE held
  /\ pc' = "idle"
  /\ job' = NoJob

SaveNothing ==
  /\ pc = "changes" /\ Changed = {}
  /\ Answer("saved")
  /\ UNCHANGED <<disk, maybe, cut>>

\* Faulty variant: the documents are replaced before the journal is flushed.
SaveJournalUnsynced ==
  /\ pc = "changes" /\ Changed # {}
  /\ Put(Journal, [d \in Changed |-> disk[d]])
  /\ job' = [job EXCEPT !.todo = Changed]
  /\ pc' = "write"
  /\ UNCHANGED <<held, said, cut>>

\* The previous texts of the changed documents are journaled.
SaveJournal ==
  /\ pc = "changes" /\ Changed # {}
  /\ Put(Journal, [d \in Changed |-> disk[d]])
  /\ job' = [job EXCEPT !.todo = Changed]
  /\ pc' = "journal.sync"
  /\ UNCHANGED <<held, said, cut>>

SaveJournalSync ==
  /\ pc = "journal.sync"
  /\ Flush(Journal)
  /\ pc' = "write"
  /\ UNCHANGED <<held, said, job, cut>>

SaveDocument ==
  /\ pc = "write"
  /\ \E d \in job.todo :
       /\ IsFirst(d, job.todo)
       /\ Put(d, job.target[d])
       /\ job' = [job EXCEPT !.todo = @ \ {d}, !.file = d]
  /\ pc' = "write.sync"
  /\ UNCHANGED <<held, said, cut>>

SaveDocumentSync ==
  /\ pc = "write.sync"
  /\ Flush(job.file)
  /\ pc' = "write"
  /\ UNCHANGED <<held, said, job, cut>>

\* The commit: the journal is removed.
SaveCommit ==
  /\ pc = "write" /\ job.todo = {}
  /\ Put(Journal, None)
  /\ job' = [job EXCEPT !.file = Journal]
  /\ pc' = "commit.sync"
  /\ UNCHANGED <<held, said, cut>>

SaveDone ==
  /\ pc = "commit.sync"
  /\ Flush(Journal)
  /\ Answer("saved")
  /\ UNCHANGED cut

-----------------------------------------------------------------------------
(* Failures *)

\* A step of the commit fails: its rename or unlink, or the flush after it.
SaveFails ==
  /\ pc \in {"write", "write.sync", "commit.sync"}
  /\ pc' = "failed"
  /\ UNCHANGED <<disk, maybe, held, said, job, cut>>

\* Faulty variant: the journal whose removal could not be flushed stays away.
FailJournalSkipped ==
  /\ pc = "failed" /\ disk[Journal] = None
  /\ pc' = "fail"
  /\ UNCHANGED <<disk, maybe, held, said, job, cut>>

\* The journal whose removal could not be flushed is put back.
FailJournal ==
  /\ pc = "failed" /\ disk[Journal] = None
  /\ Put(Journal, [d \in {e \in Docs : job.before[e] # job.target[e]} |-> job.before[d]])
  /\ pc' = "failed.sync"
  /\ UNCHANGED <<held, said, job, cut>>

FailJournalSync ==
  /\ pc = "failed.sync"
  /\ Flush(Journal)
  /\ pc' = "failed"
  /\ UNCHANGED <<held, said, job, cut>>

FailRecover ==
  /\ pc = "failed" /\ disk[Journal] # None
  /\ Recover([job EXCEPT !.then = "fail"], "fail")
  /\ UNCHANGED <<disk, maybe, held, said, cut>>

FailDone ==
  /\ pc = "fail"
  /\ Answer("failed")
  /\ UNCHANGED <<disk, maybe, cut>>

\* The load or the save gives up and answers an error at once: in a recovery,
\* before the journal is durable, or when the journal cannot be put back.
GiveUp ==
  /\ pc \in {"recover", "changes", "failed",
            "recover.sync", "forget.sync", "journal.sync", "failed.sync"}
  /\ cut' = (cut \/ Unflushed)
  /\ IF job.target # None THEN Answer("failed")
     ELSE pc' = "idle" /\ job' = NoJob /\ UNCHANGED <<held, said>>
  /\ UNCHANGED <<disk, maybe>>

\* micad dies and is started again: nothing is flushed, and the files stay as
\* they are seen.
Killed ==
  /\ pc # "idle"
  /\ cut' = (cut \/ Unflushed)
  /\ held' = None
  /\ said' = "silent"
  /\ pc' = "idle"
  /\ job' = NoJob
  /\ UNCHANGED <<disk, maybe>>

\* Power is lost: of each file one of the contents it may hold survives.
Crash ==
  /\ \E survivors \in {s \in [Files -> UNION {maybe[f] : f \in Files}] :
                         \A f \in Files : s[f] \in maybe[f]} :
       /\ disk' = survivors
       /\ maybe' = [f \in Files |-> {survivors[f]}]
  /\ held' = None
  /\ said' = "silent"
  /\ pc' = "idle"
  /\ job' = NoJob
  /\ cut' = FALSE

-----------------------------------------------------------------------------
Next ==
  \/ RecoverDocument \/ RecoverSync \/ RecoverForget \/ RecoverDone
  \/ Load \/ Read
  \/ \E target \in Contents : Save(target)
  \/ SaveNothing \/ SaveJournal \/ SaveJournalSync
  \/ SaveDocument \/ SaveDocumentSync \/ SaveCommit \/ SaveDone
  \/ SaveFails \/ FailJournal \/ FailJournalSync \/ FailRecover \/ FailDone
  \/ GiveUp
  \/ Killed \/ Crash

Spec == Init /\ [][Next]_vars

-----------------------------------------------------------------------------
(* Properties *)

Undo == {None} \cup UNION {[docs -> Content] : docs \in SUBSET Docs}

Steps == {"idle", "recover", "recover.sync", "forget.sync", "read", "changes",
          "journal.sync", "write", "write.sync", "commit.sync", "failed",
          "failed.sync", "fail"}

\* The files hold texts, the journal the previous texts of some documents, and
\* the file as it is seen may survive.
TypeOK ==
  /\ \A d \in Docs : maybe[d] \subseteq Content
  /\ maybe[Journal] \subseteq Undo
  /\ \A f \in Files : disk[f] \in maybe[f]
  /\ held \in Contents \cup {None}
  /\ said \in {"silent", "saved", "failed"}
  /\ pc \in Steps
  /\ job.then \in {"load", "save", "fail"}
  /\ job.before \in Contents \cup {None} /\ job.target \in Contents \cup {None}
  /\ cut \in BOOLEAN
  /\ job.todo \subseteq Docs /\ job.file \in Files \cup {None}

\* The settings micad holds are the stored ones whenever nothing is under way,
\* after a failed save too, unless something was cut short before a flush.
HeldIsStored == (pc = "idle" /\ held # None /\ ~cut) => held = Logical

\* The documents change together or not at all, whatever fails or is cut short
\* by power loss; nothing is promised between an unfinished flush and the next
\* start of the machine.
Store == INSTANCE DocumentStore WITH
  value <- IF job.target # None THEN job.before ELSE Logical,
  pending <- job.target,
  loose <- cut

SavesAtomically == Store!Spec

\* "The single writer removes the journal only after every replacement is
\* durable" (store.rs, Store::save).
DurableBeforeForgotten ==
  disk[Journal] = None => \A d \in Docs : maybe[d] = {disk[d]}

\* The same where every load and save so far has finished its flushes.
DurableUnlessCut == cut \/ DurableBeforeForgotten

\* What micad holds is what is stored, and what it forgot how to undo is
\* durable, through failing writes, a killed micad and power loss.
JournalSafe == TypeOK /\ HeldIsStored /\ DurableUnlessCut

=============================================================================
