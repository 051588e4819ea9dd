---------------------------- MODULE MicadProofs ------------------------------
(***************************************************************************)
(* micad's settings and what its reconcilers make of them, for any         *)
(* documents and texts, requests, peers, radios, devices, calls, service   *)
(* kinds and configurations: the settings store, the routes that write the *)
(* settings, and the reconcilers of networks, services, Wi-Fi and          *)
(* Bluetooth.  None of the properties is inductive; each section states    *)
(* the invariant that is, and why.                                         *)
(***************************************************************************)
EXTENDS SettingsJournal, SettingsRoutes, MCNetwork, FiniteSetTheorems, SequenceTheorems,
        WellFoundedInduction, TLAPS

(***************************************************************************)
(* The settings store. What the store stands for is one value throughout a *)
(* phase, which is also what makes each step one of DocumentStore or none. *)
(***************************************************************************)

\* The undo texts a save from b to t journals.
Diff(b, t) == {d \in Docs : b[d] # t[d]}
\* The previous text of each document it changes.
UndoOf(b, t) == [d \in Diff(b, t) |-> b[d]]

\* The documents are v, and durable.
Still(v) == \A d \in Docs : disk[d] = v[d] /\ maybe[d] = {v[d]}

\* What the store stands for: what a save found, or what a load would return.
Val == IF job.target # None THEN job.before ELSE Logical

\* A recovery to v: the journal is durable and puts v back; what it has not
\* passed yet and reads as its previous text is durable.
Recovering(v) ==
  /\ maybe[Journal] = {disk[Journal]}
  /\ \A d \in Docs \ DOMAIN disk[Journal] : disk[d] = v[d] /\ maybe[d] = {v[d]}
  /\ \A d \in DOMAIN disk[Journal] : disk[Journal][d] = v[d]
  /\ \A d \in DOMAIN disk[Journal] \ job.todo :
       disk[d] = v[d] /\ (maybe[d] = {v[d]} \/ (pc = "recover.sync" /\ d = job.file))
  /\ \A d \in job.todo : disk[d] = v[d] => maybe[d] = {v[d]}

\* The documents are back, and the journal may survive or not.
Forgetting(v) ==
  /\ disk[Journal] = None /\ Still(v)
  /\ \A j \in maybe[Journal] : j # None => \A d \in DOMAIN j : j[d] = v[d]

\* Nothing is under way, and nothing is left to flush.
Quiet(v) == disk[Journal] = None /\ maybe[Journal] = {None} /\ Still(v)

\* The journal is written, and may yet be lost.
Journaling(b, t) ==
  /\ disk[Journal] = UndoOf(b, t) /\ maybe[Journal] = {None, UndoOf(b, t)}
  /\ Still(b) /\ job.todo = Diff(b, t)

\* The documents before the save's place are new and durable, the last one
\* perhaps not yet, and the others are as they were.
Writing(b, t) ==
  /\ disk[Journal] = UndoOf(b, t) /\ maybe[Journal] = {UndoOf(b, t)}
  /\ job.todo \subseteq Diff(b, t)
  /\ \A d \in Docs : disk[d] = IF d \in job.todo THEN b[d] ELSE t[d]
  /\ \A d \in Docs : \/ maybe[d] = {disk[d]}
                     \/ pc = "write.sync" /\ d = job.file /\ d \in Diff(b, t) \ job.todo

\* The journal is removed, and may yet survive.
Committing(b, t) == disk[Journal] = None /\ maybe[Journal] = {None, UndoOf(b, t)} /\ Still(t)

\* A save failed before its commit: the journal is durable, and a document that
\* reads as before is durable.
Failing(b, t) ==
  /\ disk[Journal] = UndoOf(b, t) /\ maybe[Journal] = {UndoOf(b, t)}
  /\ \A d \in Docs \ Diff(b, t) : disk[d] = b[d] /\ maybe[d] = {b[d]}
  /\ \A d \in Diff(b, t) : disk[d] = b[d] => maybe[d] = {b[d]}

\* The journal is put back, and may yet be lost.
Restoring(b, t) == disk[Journal] = UndoOf(b, t) /\ maybe[Journal] = {None, UndoOf(b, t)} /\ Still(t)

\* What each step may count on, unless something was cut short before.
Phase(v, t) ==
  /\ pc = "idle" => Logical = v /\ \A f \in Files : maybe[f] = {disk[f]}
  /\ pc \in {"recover", "recover.sync"} => Recovering(v)
  /\ pc = "forget.sync" => Forgetting(v)
  /\ pc \in {"read", "changes", "fail"} => Quiet(v)
  /\ pc = "journal.sync" => Journaling(v, t)
  /\ pc \in {"write", "write.sync"} => Writing(v, t)
  /\ pc = "commit.sync" => Committing(v, t)
  /\ pc = "failed" => Committing(v, t) \/ Failing(v, t)
  /\ pc = "failed.sync" => Restoring(v, t)

\* Types, and what a step says of the job whatever was cut short.
JobOK ==
  /\ job \in [then : {"load", "save", "fail"}, before : Contents \cup {None}, target : Contents \cup {None},
              todo : SUBSET Docs, file : Files \cup {None}]
  /\ job.target # None => job.before \in Contents
  /\ job.then = "load" <=> job.target = None
  /\ pc = "idle" => job = NoJob
  /\ pc = "read" => job.target = None
  /\ pc \notin {"idle", "recover", "recover.sync", "forget.sync", "read"} => job.target # None
  /\ pc \in {"recover", "recover.sync"} => disk[Journal] # None /\ job.todo \subseteq DOMAIN disk[Journal]

\* What the disk holds, and what it may come to hold after a power cut.
DiskOK ==
  /\ disk = [f \in Files |-> disk[f]] /\ maybe = [f \in Files |-> maybe[f]]
  /\ \A d \in Docs : maybe[d] \subseteq Content
  /\ maybe[Journal] \subseteq Undo
  /\ \A f \in Files : disk[f] \in maybe[f]

\* Types of the rest.
RestOK ==
  /\ held \in Contents \cup {None}
  /\ said \in {"silent", "saved", "failed"}
  /\ pc \in Steps /\ cut \in BOOLEAN

\* The inductive invariant: unless a recovery was cut short, what the store stands for
\* is one value, and the disk is what the phase of the work on it says.
JournalInv ==
  /\ DiskOK /\ JobOK /\ RestOK
  /\ ~cut => \E v \in Contents, t \in Contents \cup {None} :
                 v = Val /\ t = job.target /\ Phase(v, t) /\ (held # None => held = v)

-----------------------------------------------------------------------------
(* Contents and undo texts.                                                *)

\* Texts of documents make a journal, and no journal is the absence of one.
LEMMA UndoHas ==
  ASSUME NEW D \in SUBSET Docs, NEW j \in [D -> Content]
  PROVE  j \in Undo /\ j # None
  BY JournalAssumption DEF Undo, Content

\* A journal holds texts of some of the documents.
LEMMA UndoIs ==
  ASSUME NEW j \in Undo, j # None
  PROVE  DOMAIN j \in SUBSET Docs /\ j \in [DOMAIN j -> Content]
  BY DEF Undo

\* The contents of the documents are not the absence of a file.
LEMMA ContentsAreSome == None \notin Contents
  BY UndoHas DEF Contents

\* What a save journals is a journal.
LEMMA UndoOfIs ==
  ASSUME NEW b \in Contents, NEW t \in Contents
  PROVE  /\ UndoOf(b, t) \in Undo /\ UndoOf(b, t) # None
         /\ DOMAIN UndoOf(b, t) = Diff(b, t)
         /\ \A d \in Diff(b, t) : UndoOf(b, t)[d] = b[d]
  BY UndoHas DEF UndoOf, Diff, Contents

\* What documents and a journal come to once the journal is undone.
LogicalOf(dk) ==
  [d \in Docs |-> IF dk[Journal] # None /\ d \in DOMAIN dk[Journal] THEN dk[Journal][d] ELSE dk[d]]

\* When that is v,
LEMMA LogicalIs ==
  ASSUME NEW dk, NEW v \in Contents,
         \A d \in Docs : IF dk[Journal] # None /\ d \in DOMAIN dk[Journal] THEN dk[Journal][d] = v[d] ELSE dk[d] = v[d]
  PROVE  LogicalOf(dk) = v
BY DEF LogicalOf, Contents

\* it is what a load returns here and after the step,
LEMMA LogicalHere == Logical = LogicalOf(disk) /\ Logical' = LogicalOf(disk')
BY DEF Logical, LogicalOf

\* and it is contents of the documents.
LEMMA LogicalIsContents == ASSUME DiskOK PROVE Logical \in Contents
  BY UndoIs DEF DiskOK, Files, Logical, Contents

-----------------------------------------------------------------------------
(* Types.                                                                  *)

\* Writing a file, flushing one and losing power keep the disk typed.
LEMMA PutTypes ==
  ASSUME DiskOK, NEW f \in Files, NEW text, Put(f, text),
         f \in Docs => text \in Content, f = Journal => text \in Undo
  PROVE  /\ DiskOK'
         /\ disk'[f] = text /\ maybe'[f] = maybe[f] \cup {text}
         /\ \A g \in Files \ {f} : disk'[g] = disk[g] /\ maybe'[g] = maybe[g]
  BY JournalAssumption DEF DiskOK, Put, Files, Undo, Content

LEMMA FlushTypes ==
  ASSUME DiskOK, NEW f, Flush(f)
  PROVE  /\ DiskOK' /\ disk' = disk
         /\ \A g \in Files : maybe'[g] = IF OnState(g) = OnState(f) THEN {disk[g]} ELSE maybe[g]
  BY DEF Flush, DiskOK, Files, Undo, Content

LEMMA SameTypes == ASSUME DiskOK, UNCHANGED <<disk, maybe>> PROVE DiskOK'
BY DEF DiskOK, Undo, Content, Files

LEMMA CrashTypes ==
  ASSUME DiskOK, Crash
  PROVE  /\ DiskOK'
         /\ \A f \in Files : disk'[f] \in maybe[f] /\ maybe'[f] = {disk'[f]}
         /\ job' = NoJob /\ pc' = "idle" /\ held' = None /\ said' = "silent" /\ cut' = FALSE
<1>1. PICK s \in [Files -> UNION {maybe[f] : f \in Files}] :
        /\ \A f \in Files : s[f] \in maybe[f]
        /\ disk' = s /\ maybe' = [f \in Files |-> {s[f]}]
  BY DEF Crash
<1>2. \A f \in Files : disk'[f] \in maybe[f] /\ maybe'[f] = {disk'[f]}
  BY <1>1
<1>3. disk' = [f \in Files |-> disk'[f]] /\ maybe' = [f \in Files |-> maybe'[f]]
  BY <1>1
<1>4. \A d \in Docs : maybe'[d] \subseteq Content
  BY <1>2 DEF DiskOK, Files
<1>5. maybe'[Journal] \subseteq Undo
  BY <1>2 DEF DiskOK, Files
<1> QED BY <1>2, <1>3, <1>4, <1>5 DEF DiskOK, Undo, Content, Files, Crash

\* The typed part of the invariant.
Typed == DiskOK /\ JobOK /\ RestOK

\* The job as a record of its fields, and where it is.
LEMMA JobFields ==
  ASSUME JobOK
  PROVE  /\ job = [then |-> job.then, before |-> job.before, target |-> job.target, todo |-> job.todo, file |-> job.file]
         /\ job.then \in {"load", "save", "fail"} /\ job.before \in Contents \cup {None}
         /\ job.target \in Contents \cup {None} /\ job.todo \in SUBSET Docs /\ job.file \in Files \cup {None}
BY DEF JobOK

\* No job is a job.
LEMMA NoJobTypes ==
  ASSUME job' = NoJob, pc' = "idle"
  PROVE  JobOK'
BY DEF JobOK, NoJob, Contents, Content, Files

\* What a document and the journal read as.
LEMMA DocumentSeen == ASSUME DiskOK, NEW d \in Docs PROVE disk[d] \in Content /\ d \in Files /\ d # Journal
BY JournalAssumption DEF DiskOK, Files

LEMMA JournalSeen ==
  ASSUME DiskOK, disk[Journal] # None
  PROVE  /\ DOMAIN disk[Journal] \in SUBSET Docs
         /\ \A d \in DOMAIN disk[Journal] : disk[Journal][d] \in Content
  BY UndoIs DEF DiskOK, Files

\* The job moves within one load or save.
LEMMA JobMoves ==
  ASSUME JobOK, NEW todo \in SUBSET Docs, NEW file \in Files \cup {None},
         job' = [then |-> job.then, before |-> job.before, target |-> job.target, todo |-> todo, file |-> file],
         pc' \notin {"idle", "read"},
         pc' \notin {"recover", "recover.sync", "forget.sync"} => job.target # None,
         pc' \in {"recover", "recover.sync"} => disk'[Journal] # None /\ todo \subseteq DOMAIN disk'[Journal]
  PROVE  JobOK'
BY DEF JobOK, NoJob, Contents, Content, Files

\* Each action keeps the types.
LEMMA RecoverDocumentTypes ==
  ASSUME Typed, RecoverDocument
  PROVE  /\ Typed'
         /\ UNCHANGED <<held, said, cut, job.then, job.before, job.target>>
         /\ \E d \in job.todo :
              /\ d \in Docs /\ job'.todo = job.todo \ {d}
              /\ \/ /\ disk[d] = disk[Journal][d]
                    /\ UNCHANGED <<disk, maybe, pc>>
                 \/ /\ disk[d] # disk[Journal][d]
                    /\ pc' = "recover.sync" /\ job'.file = d
                    /\ disk'[d] = disk[Journal][d]
                    /\ \A g \in Files \ {d} : disk'[g] = disk[g] /\ maybe'[g] = maybe[g]
<1> USE DEF Typed
<1>1. PICK d \in job.todo :
        IF disk[d] = disk[Journal][d]
        THEN job' = [job EXCEPT !.todo = @ \ {d}] /\ UNCHANGED <<disk, maybe, pc>>
        ELSE /\ Put(d, disk[Journal][d])
             /\ job' = [job EXCEPT !.todo = @ \ {d}, !.file = d]
             /\ pc' = "recover.sync"
  BY DEF RecoverDocument
<1>2. pc = "recover" /\ UNCHANGED <<held, said, cut>>
  BY DEF RecoverDocument
<1>3. disk[Journal] # None /\ job.todo \subseteq DOMAIN disk[Journal]
  BY <1>2 DEF JobOK
<1>4. d \in Docs /\ disk[Journal][d] \in Content /\ d # Journal /\ d \in Files /\ Journal \in Files
  BY <1>3, JobFields, JournalSeen, DocumentSeen DEF Files
<1>5. ASSUME disk[d] = disk[Journal][d]
      PROVE  /\ Typed' /\ UNCHANGED <<job.then, job.before, job.target>>
             /\ job'.todo = job.todo \ {d} /\ UNCHANGED <<disk, maybe, pc>>
  BY <1>1, <1>5, JobFields, <1>2, <1>3, JobMoves, SameTypes DEF RestOK, Contents, Content
<1>6. ASSUME disk[d] # disk[Journal][d]
      PROVE  /\ Typed' /\ UNCHANGED <<job.then, job.before, job.target>>
             /\ job'.todo = job.todo \ {d} /\ job'.file = d
             /\ disk'[d] = disk[Journal][d]
             /\ \A g \in Files \ {d} : disk'[g] = disk[g] /\ maybe'[g] = maybe[g]
             /\ pc' = "recover.sync"
  <2>1. Put(d, disk[Journal][d]) /\ pc' = "recover.sync"
    BY <1>1, <1>6
  <2>2. job' = [job EXCEPT !.todo = @ \ {d}, !.file = d]
    BY <1>1, <1>6
  <2>3. job' = [then |-> job.then, before |-> job.before, target |-> job.target, todo |-> job.todo \ {d}, file |-> d]
    BY <2>2, JobFields
  <2>4. /\ DiskOK' /\ disk'[d] = disk[Journal][d]
        /\ \A g \in Files \ {d} : disk'[g] = disk[g] /\ maybe'[g] = maybe[g]
    BY <1>4, <2>1, PutTypes
  <2>5. disk'[Journal] = disk[Journal]
    BY <1>4, <2>4
  <2>6. JobOK'
    BY <1>3, <1>4, <2>1, <2>3, <2>5, JobFields, JobMoves
  <2> QED BY <1>2, <2>1, <2>3, <2>4, <2>6 DEF RestOK, Contents, Content, Steps
<1> QED BY <1>2, <1>4, <1>5, <1>6

LEMMA SyncTypes ==
  ASSUME Typed, RecoverSync \/ SaveJournalSync \/ SaveDocumentSync \/ FailJournalSync
  PROVE  Typed' /\ disk' = disk
  BY FlushTypes DEF Typed, RecoverSync, SaveJournalSync, SaveDocumentSync, FailJournalSync, JobOK, NoJob,
     Contents, Content, Files, RestOK, Steps

LEMMA PutJournalTypes ==
  ASSUME Typed, RecoverForget \/ SaveCommit
  PROVE  /\ Typed' /\ UNCHANGED <<held, said, cut, job.then, job.before, job.target, job.todo>>
         /\ disk'[Journal] = None /\ maybe'[Journal] = maybe[Journal] \cup {None}
         /\ \A d \in Docs : disk'[d] = disk[d] /\ maybe'[d] = maybe[d]
<1> USE DEF Typed
<1>1. Put(Journal, None) /\ UNCHANGED <<held, said, cut>>
  BY DEF RecoverForget, SaveCommit
<1>2. None \in Undo /\ Journal \in Files /\ Journal \notin Docs
  BY JournalAssumption DEF Undo, Files
<1>3. /\ DiskOK' /\ disk'[Journal] = None /\ maybe'[Journal] = maybe[Journal] \cup {None}
      /\ \A g \in Files \ {Journal} : disk'[g] = disk[g] /\ maybe'[g] = maybe[g]
  BY <1>1, <1>2, PutTypes
<1>4. \A d \in Docs : disk'[d] = disk[d] /\ maybe'[d] = maybe[d]
  BY <1>2, <1>3 DEF Files
<1>5. ASSUME RecoverForget PROVE JobOK' /\ UNCHANGED job /\ pc' = "forget.sync"
  BY <1>5 DEF RecoverForget, JobOK, NoJob, Contents, Content, Files
<1>6. ASSUME SaveCommit PROVE JobOK' /\ pc' = "commit.sync" /\ UNCHANGED <<job.then, job.before, job.target, job.todo>>
  BY <1>6, JobFields, <1>2, JobMoves DEF SaveCommit, JobOK
<1> QED BY <1>1, <1>3, <1>4, <1>5, <1>6 DEF RestOK, Contents, Content, Steps

LEMMA RecoverDoneTypes ==
  ASSUME Typed, RecoverDone
  PROVE  /\ Typed' /\ disk' = disk /\ UNCHANGED <<held, said, job, cut>>
         /\ pc' \in {"read", "changes", "fail"} /\ (pc' = "read" <=> job.target = None)
         /\ \A g \in Files : maybe'[g] = IF OnState(g) THEN {disk[g]} ELSE maybe[g]
  BY FlushTypes DEF Typed, RecoverDone, OnState, JobOK, NoJob, Contents, Content, Files, RestOK, Steps

\* A recovery begins, or is passed over.
LEMMA RecoverTypes ==
  ASSUME Typed, NEW then \in {"load", "save", "fail"}, NEW before \in Contents \cup {None},
         NEW target \in Contents \cup {None}, NEW todo \in SUBSET Docs, NEW file \in Files \cup {None},
         NEW now, now = [then |-> then, before |-> before, target |-> target, todo |-> todo, file |-> file],
         target # None => before \in Contents, then = "load" <=> target = None,
         NEW next \in Steps, next = "read" => target = None,
         next \notin {"idle", "recover", "recover.sync"},
         next \notin {"forget.sync", "read"} => target # None,
         Recover(now, next), UNCHANGED disk
  PROVE  /\ JobOK' /\ job'.then = then /\ job'.before = before /\ job'.target = target
         /\ disk[Journal] = None => pc' = next
         /\ disk[Journal] # None => pc' = "recover" /\ job'.todo = DOMAIN disk[Journal]
  BY JournalSeen DEF Recover, JobOK, NoJob, Contents, Content, Files, Typed

LEMMA LoadTypes ==
  ASSUME Typed, Load
  PROVE  /\ Typed' /\ UNCHANGED <<disk, maybe, held, said, cut>> /\ job'.target = None
         /\ pc = "idle" /\ job.target = None
         /\ disk[Journal] = None => pc' = "read"
         /\ disk[Journal] # None => pc' = "recover" /\ job'.todo = DOMAIN disk[Journal]
  BY RecoverTypes, SameTypes DEF Load, NoJob, Steps, Typed, JobOK, RestOK, Contents, Content

LEMMA SaveTypes ==
  ASSUME Typed, NEW target \in Contents, Save(target)
  PROVE  /\ Typed' /\ UNCHANGED <<disk, maybe, held, cut>> /\ said' = "silent"
         /\ job'.target = target /\ job'.before = Logical /\ target # None
         /\ pc = "idle" /\ job.target = None
         /\ disk[Journal] = None => pc' = "changes"
         /\ disk[Journal] # None => pc' = "recover" /\ job'.todo = DOMAIN disk[Journal]
<1> DEFINE now == [then |-> "save", before |-> Logical, target |-> target, todo |-> {}, file |-> None]
<1>1. Recover(now, "changes") /\ pc = "idle" /\ UNCHANGED <<disk, maybe, held, cut>> /\ said' = "silent"
  BY DEF Save
<1>2. now = [then |-> "save", before |-> Logical, target |-> target, todo |-> {}, file |-> None]
  OBVIOUS
<1>3. Logical \in Contents /\ target # None
  BY LogicalIsContents, ContentsAreSome DEF Typed
<1> HIDE DEF now
<1>4. /\ JobOK' /\ job'.target = target /\ job'.before = Logical
      /\ disk[Journal] = None => pc' = "changes"
      /\ disk[Journal] # None => pc' = "recover" /\ job'.todo = DOMAIN disk[Journal]
  BY <1>1, <1>2, <1>3, RecoverTypes DEF Steps
<1>5. job.target = None
  BY <1>1 DEF Typed, JobOK, NoJob
<1> QED BY <1>1, <1>3, <1>4, <1>5, SameTypes DEF Typed, RestOK, Contents, Content, Steps

LEMMA FailRecoverTypes ==
  ASSUME Typed, FailRecover
  PROVE  /\ Typed' /\ UNCHANGED <<disk, maybe, held, said, cut>>
         /\ job'.target = job.target /\ job'.before = job.before /\ job.target # None
         /\ pc = "failed" /\ disk[Journal] # None
         /\ pc' = "recover" /\ job'.todo = DOMAIN disk[Journal]
<1> DEFINE now == [job EXCEPT !.then = "fail"]
<1>1. Recover(now, "fail") /\ pc = "failed" /\ UNCHANGED <<disk, maybe, held, said, cut>> /\ disk[Journal] # None
  BY DEF FailRecover
<1>2. now = [then |-> "fail", before |-> job.before, target |-> job.target, todo |-> job.todo, file |-> job.file]
  BY JobFields DEF Typed
<1>3. job.target # None /\ job.before \in Contents
  BY <1>1 DEF Typed, JobOK
<1> HIDE DEF now
<1>4. /\ JobOK' /\ job'.target = job.target /\ job'.before = job.before
      /\ pc' = "recover" /\ job'.todo = DOMAIN disk[Journal]
  BY <1>1, <1>2, <1>3, JobFields, RecoverTypes DEF Typed, Steps
<1> QED BY <1>1, <1>3, <1>4, SameTypes DEF Typed, RestOK, Contents, Content, Steps

LEMMA SaveJournalTypes ==
  ASSUME Typed, SaveJournal
  PROVE  /\ Typed' /\ UNCHANGED <<held, said, cut, job.then, job.before, job.target>>
         /\ job.target # None /\ pc = "changes" /\ pc' = "journal.sync" /\ job'.todo = Changed
         /\ disk'[Journal] = [d \in Changed |-> disk[d]]
         /\ maybe'[Journal] = maybe[Journal] \cup {[d \in Changed |-> disk[d]]}
         /\ \A d \in Docs : disk'[d] = disk[d] /\ maybe'[d] = maybe[d]
<1> USE DEF Typed
<1> DEFINE undo == [d \in Changed |-> disk[d]]
<1>1. Put(Journal, undo) /\ UNCHANGED <<held, said, cut>> /\ pc = "changes" /\ pc' = "journal.sync"
      /\ job' = [job EXCEPT !.todo = Changed]
  BY DEF SaveJournal
<1>2. Changed \in SUBSET Docs
  BY DEF Changed
<1>3. undo \in [Changed -> Content]
  BY <1>2, DocumentSeen
<1>4. undo \in Undo
  BY <1>2, <1>3, UndoHas
<1> HIDE DEF undo
<1>5. Journal \in Files /\ Journal \notin Docs
  BY JournalAssumption DEF Files
<1>6. /\ DiskOK' /\ disk'[Journal] = undo /\ maybe'[Journal] = maybe[Journal] \cup {undo}
      /\ \A g \in Files \ {Journal} : disk'[g] = disk[g] /\ maybe'[g] = maybe[g]
  BY <1>1, <1>4, <1>5, PutTypes
<1>7. \A d \in Docs : disk'[d] = disk[d] /\ maybe'[d] = maybe[d]
  BY <1>5, <1>6 DEF Files
<1>8. job' = [then |-> job.then, before |-> job.before, target |-> job.target, todo |-> Changed, file |-> job.file]
  BY <1>1, JobFields
<1>9. job.target # None
  BY <1>1 DEF JobOK
<1>10. JobOK'
  BY <1>1, <1>2, <1>8, <1>9, JobFields, JobMoves
<1>11. disk'[Journal] = [d \in Changed |-> disk[d]]
       /\ maybe'[Journal] = maybe[Journal] \cup {[d \in Changed |-> disk[d]]}
  BY <1>6 DEF undo
<1>12. RestOK'
  BY <1>1 DEF RestOK, Contents, Content, Steps
<1> QED BY <1>1, <1>6, <1>7, <1>8, <1>9, <1>10, <1>11, <1>12

LEMMA SaveDocumentTypes ==
  ASSUME Typed, SaveDocument
  PROVE  /\ Typed' /\ UNCHANGED <<held, said, cut, job.then, job.before, job.target>>
         /\ job.target # None /\ pc = "write" /\ pc' = "write.sync"
         /\ \E d \in job.todo :
              /\ d \in Docs /\ job'.todo = job.todo \ {d} /\ job'.file = d
              /\ disk'[d] = job.target[d]
              /\ \A g \in Files \ {d} : disk'[g] = disk[g] /\ maybe'[g] = maybe[g]
<1> USE DEF Typed
<1>1. PICK d \in job.todo : Put(d, job.target[d]) /\ job' = [job EXCEPT !.todo = @ \ {d}, !.file = d]
  BY DEF SaveDocument
<1>2. pc = "write" /\ pc' = "write.sync" /\ UNCHANGED <<held, said, cut>>
  BY DEF SaveDocument
<1>3. job.target # None
  BY <1>2 DEF JobOK
<1>4. d \in Docs /\ d \in Files /\ d # Journal /\ job.target[d] \in Content
  BY <1>3, JobFields, DocumentSeen DEF Contents
<1>5. /\ DiskOK' /\ disk'[d] = job.target[d]
      /\ \A g \in Files \ {d} : disk'[g] = disk[g] /\ maybe'[g] = maybe[g]
  BY <1>1, <1>4, PutTypes
<1>6. job' = [then |-> job.then, before |-> job.before, target |-> job.target, todo |-> job.todo \ {d}, file |-> d]
  BY <1>1, JobFields
<1>7. JobOK'
  BY <1>2, <1>3, <1>4, <1>6, JobFields, JobMoves
<1>8. RestOK'
  BY <1>2 DEF RestOK, Contents, Content, Steps
<1>9. UNCHANGED <<job.then, job.before, job.target>> /\ job'.todo = job.todo \ {d} /\ job'.file = d
  BY <1>6
<1> QED BY <1>2, <1>3, <1>4, <1>5, <1>7, <1>8, <1>9

LEMMA FailJournalTypes ==
  ASSUME Typed, FailJournal
  PROVE  /\ Typed' /\ UNCHANGED <<held, said, cut, job>>
         /\ job.target # None /\ pc = "failed" /\ pc' = "failed.sync" /\ disk[Journal] = None
         /\ disk'[Journal] = UndoOf(job.before, job.target)
         /\ maybe'[Journal] = maybe[Journal] \cup {UndoOf(job.before, job.target)}
         /\ \A d \in Docs : disk'[d] = disk[d] /\ maybe'[d] = maybe[d]
<1> USE DEF Typed
<1> DEFINE undo == UndoOf(job.before, job.target)
<1>1. Put(Journal, undo) /\ UNCHANGED <<held, said, cut, job>> /\ pc = "failed" /\ pc' = "failed.sync" /\ disk[Journal] = None
  BY DEF FailJournal, UndoOf, Diff
<1>2. job.target # None /\ job.target \in Contents /\ job.before \in Contents
  BY <1>1, JobFields DEF JobOK
<1>3. undo \in Undo
  BY <1>2, UndoOfIs
<1> HIDE DEF undo
<1>4. Journal \in Files /\ Journal \notin Docs
  BY JournalAssumption DEF Files
<1>5. /\ DiskOK' /\ disk'[Journal] = undo /\ maybe'[Journal] = maybe[Journal] \cup {undo}
      /\ \A g \in Files \ {Journal} : disk'[g] = disk[g] /\ maybe'[g] = maybe[g]
  BY <1>1, <1>3, <1>4, PutTypes
<1>6. \A d \in Docs : disk'[d] = disk[d] /\ maybe'[d] = maybe[d]
  BY <1>4, <1>5 DEF Files
<1>7. JobOK'
  BY <1>1, <1>2 DEF JobOK, NoJob, Contents, Content, Files
<1>8. RestOK'
  BY <1>1 DEF RestOK, Contents, Content, Steps
<1> QED BY <1>1, <1>2, <1>5, <1>6, <1>7, <1>8 DEF undo

LEMMA SaveFailsTypes ==
  ASSUME Typed, SaveFails
  PROVE  /\ Typed' /\ UNCHANGED <<disk, maybe, held, said, cut, job>>
         /\ pc \in {"write", "write.sync", "commit.sync"} /\ pc' = "failed" /\ job.target # None
  BY SameTypes DEF Typed, SaveFails, JobOK, NoJob, Contents, Content, Files, RestOK, Steps

\* A load or a save ends.
LEMMA EndTypes ==
  ASSUME Typed, Read \/ SaveNothing \/ SaveDone \/ FailDone \/ GiveUp \/ Killed
  PROVE  Typed' /\ job' = NoJob /\ pc' = "idle" /\ disk' = disk
<1> USE DEF Typed
<1>1. job' = NoJob /\ pc' = "idle"
  BY DEF Read, SaveNothing, SaveDone, FailDone, GiveUp, Killed, Answer
<1>2. DiskOK' /\ disk' = disk
  BY FlushTypes, SameTypes DEF SaveDone, Read, SaveNothing, FailDone, GiveUp, Killed
<1>3. JobOK'
  BY <1>1, NoJobTypes
<1>4. held' \in Contents \cup {None}
  BY DocumentSeen DEF Read, Contents, SaveNothing, SaveDone, Answer, JobOK, RestOK, FailDone, GiveUp, Killed
<1>5. said' \in {"silent", "saved", "failed"}
  BY DEF Read, SaveNothing, SaveDone, FailDone, GiveUp, Killed, Answer, RestOK
<1>6. cut' \in BOOLEAN
  BY DEF Read, SaveNothing, SaveDone, FailDone, GiveUp, Killed, RestOK
<1>7. RestOK'
  BY <1>1, <1>4, <1>5, <1>6 DEF RestOK, Contents, Content, Steps
<1> QED BY <1>1, <1>2, <1>3, <1>7

LEMMA TypesStep ==
  ASSUME Typed, [Next]_vars
  PROVE  Typed'
<1>1. CASE UNCHANGED vars
  BY <1>1, SameTypes DEF vars, Typed, JobOK, RestOK, NoJob, Contents, Content, Files
<1>2. CASE Crash
  BY <1>2, CrashTypes, NoJobTypes DEF Typed, RestOK, Contents, Content, Steps
<1> QED BY <1>1, <1>2, RecoverDocumentTypes, SyncTypes, PutJournalTypes, RecoverDoneTypes, LoadTypes, SaveTypes,
          FailRecoverTypes, SaveJournalTypes, SaveDocumentTypes, FailJournalTypes, SaveFailsTypes, EndTypes DEF Next

-----------------------------------------------------------------------------
(* The steps of a load or a save that do not end it.                       *)

LEMMA TargetIsContents == ASSUME Typed, job.target # None PROVE job.target \in Contents /\ Val = job.before
BY DEF Typed, JobOK, Val

\* Neither changes while the job stays,
LEMMA ValMoves ==
  ASSUME NEW v, v = Val, job'.target = job.target, job'.before = job.before, job.target = None => Logical' = v
  PROVE  Val' = v
BY DEF Val

\* A recovery that began brings v back.
LEMMA RecoveringIs ==
  ASSUME NEW v \in Contents, Recovering(v)', disk'[Journal] # None
  PROVE  Logical' = v
  BY LogicalIs, LogicalHere DEF Recovering

\* and settled documents stay so.
LEMMA StillIs ==
  ASSUME NEW v \in Contents, \A d \in Docs : disk'[d] = v[d], disk'[Journal] = None
  PROVE  Logical' = v
  BY LogicalIs, LogicalHere

\* Each step keeps the phase it is in, or enters the next one with what that one counts
\* on.
LEMMA RecoverDocumentMoves ==
  ASSUME Typed, NEW v \in Contents, v = Val, NEW t, t = job.target, Phase(v, t), RecoverDocument
  PROVE  Phase(v, t)' /\ Val' = v /\ job'.target = t
<1>1. Typed' /\ UNCHANGED <<job.then, job.before, job.target>>
  BY RecoverDocumentTypes
<1>2. PICK d \in job.todo :
              /\ d \in Docs /\ job'.todo = job.todo \ {d}
              /\ \/ /\ disk[d] = disk[Journal][d]
                    /\ UNCHANGED <<disk, maybe, pc>>
                 \/ /\ disk[d] # disk[Journal][d]
                    /\ pc' = "recover.sync" /\ job'.file = d
                    /\ disk'[d] = disk[Journal][d]
                    /\ \A g \in Files \ {d} : disk'[g] = disk[g] /\ maybe'[g] = maybe[g]
  BY RecoverDocumentTypes
<1>3. pc = "recover" /\ Recovering(v)
  BY DEF RecoverDocument, Phase
<1>4. disk[Journal] # None /\ job.todo \subseteq DOMAIN disk[Journal] /\ DOMAIN disk[Journal] \subseteq Docs
  BY <1>3, JournalSeen DEF Typed, JobOK
<1>5. d # Journal /\ Journal \in Files /\ Docs \subseteq Files
  BY JournalAssumption, <1>2 DEF Files
<1>6. Recovering(v)' /\ pc' \in {"recover", "recover.sync"} /\ disk'[Journal] = disk[Journal]
  BY <1>3, <1>4, <1>2, <1>5 DEF Recovering
<1>7. Logical' = v
  BY <1>4, <1>6, RecoveringIs
<1> QED BY <1>1, <1>6, <1>7, ValMoves DEF Phase

LEMMA RecoverSyncMoves ==
  ASSUME Typed, NEW v \in Contents, v = Val, NEW t, t = job.target, Phase(v, t), RecoverSync
  PROVE  Phase(v, t)' /\ Val' = v /\ job'.target = t
<1>1. pc = "recover.sync" /\ pc' = "recover" /\ UNCHANGED job /\ Recovering(v)
  BY DEF RecoverSync, Phase
<1>2. disk' = disk /\ \A g \in Files : maybe'[g] = IF OnState(g) = OnState(job.file) THEN {disk[g]} ELSE maybe[g]
  BY FlushTypes DEF RecoverSync, Typed
<1>3. disk[Journal] # None /\ job.todo \subseteq DOMAIN disk[Journal] /\ DOMAIN disk[Journal] \subseteq Docs
  BY <1>1, JournalSeen DEF Typed, JobOK
<1>4. Journal \in Files /\ Docs \subseteq Files
  BY DEF Files
<1>5. \A f \in Files : maybe[f] = {disk[f]} \/ f = job.file => maybe'[f] = {disk[f]}
  BY <1>2
<1>6. Recovering(v)'
  BY <1>1, <1>2, <1>3, <1>4, <1>5 DEF Recovering
<1>7. Logical' = v
  BY <1>2, <1>3, <1>6, RecoveringIs
<1> QED BY <1>1, <1>6, <1>7, ValMoves DEF Phase

LEMMA RecoverForgetMoves ==
  ASSUME Typed, NEW v \in Contents, v = Val, NEW t, t = job.target, Phase(v, t), RecoverForget
  PROVE  Phase(v, t)' /\ Val' = v /\ job'.target = t
  BY PutJournalTypes, StillIs, ValMoves DEF RecoverForget, Phase, Recovering, Forgetting, Still

LEMMA RecoverDoneMoves ==
  ASSUME Typed, NEW v \in Contents, v = Val, NEW t, t = job.target, Phase(v, t), RecoverDone
  PROVE  Phase(v, t)' /\ Val' = v /\ job'.target = t
<1>1. /\ disk' = disk /\ UNCHANGED <<held, said, job, cut>>
      /\ pc' \in {"read", "changes", "fail"}
      /\ \A g \in Files : maybe'[g] = IF OnState(g) THEN {disk[g]} ELSE maybe[g]
  BY RecoverDoneTypes
<1>2. Forgetting(v)
  BY DEF RecoverDone, Phase
<1>3. Journal \in Files /\ Docs \subseteq Files /\ OnState(Journal)
  BY DEF Files, OnState
<1>4. Quiet(v)'
  BY <1>1, <1>2, <1>3 DEF Quiet, Forgetting, Still
<1>5. Logical' = v
  BY <1>4, StillIs DEF Quiet, Still
<1> QED BY <1>1, <1>4, <1>5, ValMoves DEF Phase

\* What a load or a save finds.
LEMMA Begins ==
  ASSUME Typed, NEW v \in Contents, v = Logical, \A f \in Files : maybe[f] = {disk[f]},
         UNCHANGED <<disk, maybe>>
  PROVE  /\ disk[Journal] = None => Quiet(v)'
         /\ disk[Journal] # None /\ job'.todo = DOMAIN disk[Journal] => Recovering(v)'
  BY JournalSeen DEF Files, Logical, Quiet, Still, Typed, Recovering

LEMMA LoadMoves ==
  ASSUME Typed, NEW v \in Contents, v = Val, NEW t, t = job.target, Phase(v, t), Load
  PROVE  Phase(v, t)' /\ Val' = v /\ job'.target = t
  BY LoadTypes, Begins DEF Phase, Val, Logical

LEMMA SaveMoves ==
  ASSUME Typed, NEW v \in Contents, v = Val, Phase(v, job.target), NEW target \in Contents, Save(target)
  PROVE  Phase(v, target)' /\ Val' = v /\ job'.target = target
  BY SaveTypes, Begins DEF Phase, Val

LEMMA SaveJournalMoves ==
  ASSUME Typed, NEW v \in Contents, v = Val, NEW t, t = job.target, Phase(v, t), SaveJournal
  PROVE  Phase(v, t)' /\ Val' = v /\ job'.target = t
<1>1. /\ UNCHANGED <<job.before, job.target>> /\ job.target # None
      /\ pc = "changes" /\ pc' = "journal.sync" /\ job'.todo = Changed
      /\ disk'[Journal] = [d \in Changed |-> disk[d]]
      /\ maybe'[Journal] = maybe[Journal] \cup {[d \in Changed |-> disk[d]]}
      /\ \A d \in Docs : disk'[d] = disk[d] /\ maybe'[d] = maybe[d]
  BY SaveJournalTypes
<1>2. Quiet(v)
  BY <1>1 DEF Phase
<1>3. Changed = Diff(v, t)
  BY <1>2 DEF Changed, Diff, Quiet, Still
<1>4. [d \in Changed |-> disk[d]] = UndoOf(v, t)
  BY <1>2, <1>3 DEF UndoOf, Quiet, Still, Diff
<1>5. Journaling(v, t)'
  BY <1>1, <1>2, <1>3, <1>4 DEF Journaling, Quiet, Still, UndoOf, Diff
<1> QED BY <1>1, <1>5, ValMoves DEF Phase

LEMMA SaveJournalSyncMoves ==
  ASSUME Typed, NEW v \in Contents, v = Val, NEW t, t = job.target, Phase(v, t), SaveJournalSync
  PROVE  Phase(v, t)' /\ Val' = v /\ job'.target = t
<1>1. pc = "journal.sync" /\ pc' = "write" /\ UNCHANGED job /\ Journaling(v, t)
  BY DEF SaveJournalSync, Phase
<1>2. disk' = disk /\ \A g \in Files : maybe'[g] = IF OnState(g) = OnState(Journal) THEN {disk[g]} ELSE maybe[g]
  BY FlushTypes DEF SaveJournalSync, Typed
<1>3. job.target # None
  BY <1>1 DEF Typed, JobOK
<1>4. Journal \in Files /\ Docs \subseteq Files
  BY DEF Files
<1>5. maybe'[Journal] = {disk[Journal]} /\ \A d \in Docs : disk[d] = v[d] /\ maybe'[d] = {v[d]}
  BY <1>1, <1>2, <1>4 DEF Journaling, Still
<1>6. \A d \in Docs : d \notin Diff(v, t) => v[d] = t[d]
  BY DEF Diff
<1>7. \A d \in Docs : disk'[d] = IF d \in job'.todo THEN v[d] ELSE t[d]
  BY <1>1, <1>2, <1>5, <1>6 DEF Journaling
<1>8. \A d \in Docs : maybe'[d] = {disk'[d]}
  BY <1>2, <1>5
<1>9. job'.todo \subseteq Diff(v, t) /\ disk'[Journal] = UndoOf(v, t) /\ maybe'[Journal] = {UndoOf(v, t)}
  BY <1>1, <1>2, <1>5 DEF Journaling
<1>10. Writing(v, t)'
  BY <1>7, <1>8, <1>9 DEF Writing, UndoOf, Diff
<1> QED BY <1>1, <1>3, <1>10, ValMoves DEF Phase

LEMMA SaveDocumentMoves ==
  ASSUME Typed, NEW v \in Contents, v = Val, NEW t, t = job.target, Phase(v, t), SaveDocument
  PROVE  Phase(v, t)' /\ Val' = v /\ job'.target = t
<1>1. UNCHANGED <<job.before, job.target>> /\ job.target # None /\ pc = "write" /\ pc' = "write.sync"
  BY SaveDocumentTypes
<1>2. PICK d \in job.todo :
              /\ d \in Docs /\ job'.todo = job.todo \ {d} /\ job'.file = d
              /\ disk'[d] = t[d]
              /\ \A g \in Files \ {d} : disk'[g] = disk[g] /\ maybe'[g] = maybe[g]
  BY SaveDocumentTypes
<1>3. Writing(v, t)
  BY <1>1 DEF Phase
<1>4. d # Journal /\ Journal \in Files /\ Docs \subseteq Files
  BY JournalAssumption, <1>2 DEF Files
<1>5. disk'[Journal] = disk[Journal] /\ maybe'[Journal] = maybe[Journal]
  BY <1>2, <1>4
<1>6. \A e \in Docs \ {d} : disk'[e] = disk[e] /\ maybe'[e] = maybe[e]
  BY <1>2, <1>4
<1>7. \A e \in Docs : disk'[e] = IF e \in job'.todo THEN v[e] ELSE t[e]
  BY <1>2, <1>3, <1>6 DEF Writing
<1>8. \A e \in Docs : \/ maybe'[e] = {disk'[e]}
                      \/ pc' = "write.sync" /\ e = job'.file /\ e \in Diff(v, t) \ job'.todo
  BY <1>1, <1>2, <1>3, <1>6 DEF Writing
<1>9. job'.todo \subseteq Diff(v, t) /\ disk'[Journal] = UndoOf(v, t) /\ maybe'[Journal] = {UndoOf(v, t)}
  BY <1>2, <1>3, <1>5 DEF Writing
<1>10. Writing(v, t)'
  BY <1>7, <1>8, <1>9 DEF Writing, UndoOf, Diff
<1> QED BY <1>1, <1>10, ValMoves DEF Phase

LEMMA SaveDocumentSyncMoves ==
  ASSUME Typed, NEW v \in Contents, v = Val, NEW t, t = job.target, Phase(v, t), SaveDocumentSync
  PROVE  Phase(v, t)' /\ Val' = v /\ job'.target = t
<1>1. pc = "write.sync" /\ pc' = "write" /\ UNCHANGED job /\ Writing(v, t)
  BY DEF SaveDocumentSync, Phase
<1>2. disk' = disk /\ \A g \in Files : maybe'[g] = IF OnState(g) = OnState(job.file) THEN {disk[g]} ELSE maybe[g]
  BY FlushTypes DEF SaveDocumentSync, Typed
<1>3. job.target # None
  BY <1>1 DEF Typed, JobOK
<1>4. Journal \in Files /\ Docs \subseteq Files
  BY DEF Files
<1>5. \A f \in Files : maybe[f] = {disk[f]} \/ f = job.file => maybe'[f] = {disk[f]}
  BY <1>2
<1>6. \A d \in Docs : maybe'[d] = {disk'[d]}
  BY <1>1, <1>2, <1>4, <1>5 DEF Writing
<1>7. maybe'[Journal] = {UndoOf(v, t)}
  BY <1>1, <1>4, <1>5 DEF Writing
<1>8. Writing(v, t)'
  BY <1>1, <1>2, <1>6, <1>7 DEF Writing, UndoOf, Diff
<1> QED BY <1>1, <1>3, <1>8, ValMoves DEF Phase

LEMMA SaveCommitMoves ==
  ASSUME Typed, NEW v \in Contents, v = Val, NEW t, t = job.target, Phase(v, t), SaveCommit
  PROVE  Phase(v, t)' /\ Val' = v /\ job'.target = t
<1>1. /\ UNCHANGED <<job.before, job.target>>
      /\ disk'[Journal] = None /\ maybe'[Journal] = maybe[Journal] \cup {None}
      /\ \A d \in Docs : disk'[d] = disk[d] /\ maybe'[d] = maybe[d]
  BY PutJournalTypes
<1>2. pc = "write" /\ pc' = "commit.sync" /\ job.todo = {} /\ Writing(v, t)
  BY DEF SaveCommit, Phase
<1>3. job.target # None
  BY <1>2 DEF Typed, JobOK
<1>4. \A d \in Docs : disk'[d] = t[d] /\ maybe'[d] = {t[d]}
  BY <1>1, <1>2 DEF Writing
<1>5. maybe'[Journal] = {None, UndoOf(v, t)}
  BY <1>1, <1>2 DEF Writing
<1>6. Committing(v, t)'
  BY <1>1, <1>4, <1>5 DEF Committing, Still, UndoOf, Diff
<1> QED BY <1>1, <1>2, <1>3, <1>6, ValMoves DEF Phase

LEMMA SaveFailsMoves ==
  ASSUME Typed, NEW v \in Contents, v = Val, NEW t, t = job.target, Phase(v, t), SaveFails
  PROVE  Phase(v, t)' /\ Val' = v /\ job'.target = t
<1>1. /\ UNCHANGED <<disk, maybe, job>> /\ job.target # None /\ pc' = "failed"
      /\ pc \in {"write", "write.sync", "commit.sync"}
  BY SaveFailsTypes
<1>2. CASE pc = "commit.sync"
  BY <1>1, <1>2, ValMoves DEF Phase, Committing, Still, UndoOf, Diff
<1>3. CASE pc # "commit.sync"
  BY <1>1, <1>3, ValMoves DEF Phase, Writing, Diff, Failing, UndoOf
<1> QED BY <1>2, <1>3

LEMMA FailJournalMoves ==
  ASSUME Typed, NEW v \in Contents, v = Val, NEW t, t = job.target, Phase(v, t), FailJournal
  PROVE  Phase(v, t)' /\ Val' = v /\ job'.target = t
<1>1. /\ UNCHANGED job /\ job.target # None /\ pc = "failed" /\ pc' = "failed.sync" /\ disk[Journal] = None
      /\ disk'[Journal] = UndoOf(job.before, t)
      /\ maybe'[Journal] = maybe[Journal] \cup {UndoOf(job.before, t)}
      /\ \A d \in Docs : disk'[d] = disk[d] /\ maybe'[d] = maybe[d]
  BY FailJournalTypes
<1>2. v = job.before /\ t \in Contents
  BY <1>1, TargetIsContents
<1>3. Committing(v, t)
  BY <1>2, UndoOfIs, <1>1 DEF Phase, Failing
<1>4. Restoring(v, t)'
  BY <1>1, <1>2, <1>3 DEF Restoring, Committing, Still, UndoOf, Diff
<1> QED BY <1>1, <1>4, ValMoves DEF Phase

LEMMA FailJournalSyncMoves ==
  ASSUME Typed, NEW v \in Contents, v = Val, NEW t, t = job.target, Phase(v, t), FailJournalSync
  PROVE  Phase(v, t)' /\ Val' = v /\ job'.target = t
<1>1. pc = "failed.sync" /\ pc' = "failed" /\ UNCHANGED job /\ Restoring(v, t)
  BY DEF FailJournalSync, Phase
<1>2. disk' = disk /\ \A g \in Files : maybe'[g] = IF OnState(g) = OnState(Journal) THEN {disk[g]} ELSE maybe[g]
  BY FlushTypes DEF FailJournalSync, Typed
<1>3. job.target # None
  BY <1>1 DEF Typed, JobOK
<1>4. Journal \in Files /\ Docs \subseteq Files
  BY DEF Files
<1>5. maybe'[Journal] = {UndoOf(v, t)} /\ disk'[Journal] = UndoOf(v, t)
  BY <1>1, <1>2, <1>4 DEF Restoring
<1>6. \A d \in Docs : disk'[d] = t[d] /\ maybe'[d] = {t[d]}
  BY <1>1, <1>2, <1>4 DEF Restoring, Still
<1>7. Failing(v, t)'
  BY <1>5, <1>6 DEF Failing, UndoOf, Diff
<1> QED BY <1>1, <1>3, <1>7, ValMoves DEF Phase

LEMMA FailRecoverMoves ==
  ASSUME Typed, NEW v \in Contents, v = Val, NEW t, t = job.target, Phase(v, t), FailRecover
  PROVE  Phase(v, t)' /\ Val' = v /\ job'.target = t
  BY FailRecoverTypes, TargetIsContents, UndoOfIs, ValMoves DEF Phase, Committing, Failing, Recovering

-----------------------------------------------------------------------------
(* What survives a power cut, and the ends of a load or a save.            *)

\* A durable journal over documents that are old or new comes to what was before,
LEMMA UndoneIs ==
  ASSUME NEW dk, NEW v \in Contents, NEW t \in Contents, dk[Journal] = UndoOf(v, t),
         \A d \in Docs \ Diff(v, t) : dk[d] = v[d]
  PROVE  LogicalOf(dk) = v
  BY UndoOfIs, LogicalIs

\* and documents without one to themselves.
LEMMA PlainIs ==
  ASSUME NEW dk, NEW v \in Contents, dk[Journal] = None, \A d \in Docs : dk[d] = v[d]
  PROVE  LogicalOf(dk) = v
  BY LogicalIs

\* Whatever survives of the files comes to what a save found, or to what it was to leave.
LEMMA Survivors ==
  ASSUME Typed, NEW v \in Contents, v = Val, NEW t, t = job.target, Phase(v, t),
         NEW dk, \A f \in Files : dk[f] \in maybe[f]
  PROVE  \/ LogicalOf(dk) = v
         \/ t # None /\ LogicalOf(dk) = t
<1>1. Journal \in Files /\ Docs \subseteq Files
  BY DEF Files
<1>2. ASSUME t # None PROVE t \in Contents
  BY <1>2, TargetIsContents
<1>3. ASSUME pc = "idle" PROVE LogicalOf(dk) = v
  BY <1>3, <1>1, LogicalHere DEF Phase, LogicalOf
<1>4. ASSUME pc \in {"recover", "recover.sync"} PROVE LogicalOf(dk) = v
  BY <1>4, <1>1, LogicalIs DEF Phase, Typed, JobOK, Recovering
<1>5. ASSUME pc \in {"forget.sync", "read", "changes", "fail"} PROVE LogicalOf(dk) = v
  BY <1>1, <1>5, LogicalIs DEF Phase, Forgetting, Quiet, Still
<1>6. ASSUME pc \notin {"idle", "recover", "recover.sync", "forget.sync", "read"} PROVE t # None
  BY <1>6 DEF Typed, JobOK
<1>7. ASSUME pc = "journal.sync" PROVE LogicalOf(dk) = v
  BY <1>1, <1>7, <1>2, <1>6, PlainIs, UndoneIs DEF Phase, Journaling, Still
<1>8. ASSUME pc \in {"write", "write.sync"} PROVE LogicalOf(dk) = v
  BY <1>8, <1>1, <1>2, <1>6, UndoneIs DEF Phase, Writing, Diff
<1>9. ASSUME Committing(v, t) \/ Restoring(v, t), t # None PROVE LogicalOf(dk) = v \/ LogicalOf(dk) = t
  BY <1>1, <1>9, <1>2, PlainIs, UndoneIs DEF Committing, Restoring, Still, Diff
<1>10. ASSUME Failing(v, t), t # None PROVE LogicalOf(dk) = v
  BY <1>1, <1>10, <1>2, UndoneIs DEF Failing
<1>11. pc \in Steps
  BY DEF Typed, RestOK
<1>12. ASSUME pc \in {"commit.sync", "failed", "failed.sync"} PROVE LogicalOf(dk) = v \/ LogicalOf(dk) = t
  BY <1>6, <1>9, <1>10, <1>12 DEF Phase
<1> QED BY <1>3, <1>4, <1>5, <1>6, <1>7, <1>8, <1>11, <1>12 DEF Steps

\* A save that gave up with everything flushed left the documents as it found them.
LEMMA GiveUpKeeps ==
  ASSUME Typed, NEW v \in Contents, v = Val, NEW t, t = job.target, Phase(v, t), GiveUp, ~Unflushed
  PROVE  Logical = v
<1>1. \A f \in Files : maybe[f] = {disk[f]}
  BY DEF Unflushed
<1>2. Journal \in Files /\ Docs \subseteq Files
  BY DEF Files
<1>3. pc \in {"recover", "changes", "failed", "recover.sync", "forget.sync", "journal.sync", "failed.sync"}
  BY DEF GiveUp
<1>4. ASSUME pc \in {"failed", "failed.sync", "journal.sync"} PROVE t # None /\ t \in Contents /\ UndoOf(v, t) # None
  BY <1>4, TargetIsContents, UndoOfIs DEF Typed, JobOK
<1>5. ASSUME pc \in {"failed", "failed.sync"} PROVE Failing(v, t)
  BY <1>1, <1>2, <1>4, <1>5 DEF Phase, Committing, Restoring
<1>6. CASE pc \in {"failed", "failed.sync"}
  BY <1>5, <1>6, <1>4, UndoneIs, LogicalHere DEF Failing
<1>7. CASE pc = "journal.sync"
  BY <1>1, <1>2, <1>4, <1>7 DEF Phase, Journaling
<1>8. CASE pc \in {"recover", "recover.sync"}
  BY <1>8, LogicalIs, LogicalHere DEF Phase, Typed, JobOK, Recovering
<1>9. CASE pc \in {"changes", "forget.sync"}
  BY <1>9, PlainIs, LogicalHere DEF Phase, Quiet, Forgetting, Still
<1> QED BY <1>3, <1>6, <1>7, <1>8, <1>9

\* Work that ends leaves everything flushed.
LEMMA IdlePhase ==
  ASSUME NEW w, Logical' = w, job' = NoJob, pc' = "idle", \A f \in Files : maybe'[f] = {disk'[f]}
  PROVE  w = Val' /\ job'.target = None /\ Phase(w, None)'
BY DEF Val, NoJob, Phase

\* The steps that neither begin nor end a load or a save.
Moves ==
  \/ RecoverDocument \/ RecoverSync \/ RecoverForget \/ RecoverDone \/ Load
  \/ SaveJournal \/ SaveJournalSync \/ SaveDocument \/ SaveDocumentSync \/ SaveCommit
  \/ SaveFails \/ FailJournal \/ FailJournalSync \/ FailRecover

\* None of them changes what the store stands for.
LEMMA MovesKeep ==
  ASSUME Typed, NEW v \in Contents, v = Val, NEW t, t = job.target, Phase(v, t), Moves
  PROVE  Phase(v, t)' /\ Val' = v /\ job'.target = t /\ UNCHANGED <<held, said, cut>>
<1>1. UNCHANGED <<held, said, cut>>
  BY DEF Moves, RecoverDocument, RecoverSync, RecoverForget, RecoverDone, Load, SaveJournal, SaveJournalSync,
         SaveDocument, SaveDocumentSync, SaveCommit, SaveFails, FailJournal, FailJournalSync, FailRecover
<1> QED BY <1>1, RecoverDocumentMoves, RecoverSyncMoves, RecoverForgetMoves, RecoverDoneMoves, LoadMoves,
           SaveJournalMoves, SaveJournalSyncMoves, SaveDocumentMoves, SaveDocumentSyncMoves, SaveCommitMoves,
           SaveFailsMoves, FailJournalMoves, FailJournalSyncMoves, FailRecoverMoves DEF Moves

\* Without a journal and with the documents at rest, nothing is left to flush.
LEMMA QuietFlushed ==
  ASSUME NEW v, Quiet(v)
  PROVE  \A f \in Files : maybe[f] = {disk[f]}
BY DEF Quiet, Still, Files

\* Where each end of a load or a save leaves the store.
LEMMA EndsKeep ==
  ASSUME Typed, NEW v \in Contents, v = Val, NEW t, t = job.target, Phase(v, t),
         Read \/ SaveNothing \/ SaveDone \/ FailDone
  PROVE  /\ job' = NoJob /\ pc' = "idle" /\ \A f \in Files : maybe'[f] = {disk'[f]}
         /\ Read => Logical' = v /\ held' = v /\ said' = said /\ t = None
         /\ SaveNothing \/ SaveDone => Logical' = t /\ held' = t /\ said' = "saved" /\ t \in Contents /\ t # None
         /\ FailDone => Logical' = v /\ held' = held /\ said' = "failed" /\ t # None
<1>1. job' = NoJob /\ pc' = "idle" /\ disk' = disk
  BY EndTypes
<1>2. ASSUME Read PROVE Logical' = v /\ held' = v /\ said' = said /\ t = None /\ \A f \in Files : maybe'[f] = {disk'[f]}
  BY <1>2, StillIs, QuietFlushed DEF Read, Phase, Quiet, Still, Contents, Typed, JobOK
<1>3. ASSUME FailDone PROVE Logical' = v /\ held' = held /\ said' = "failed" /\ t # None /\ \A f \in Files : maybe'[f] = {disk'[f]}
  BY <1>3, StillIs, QuietFlushed DEF FailDone, Answer, Phase, Quiet, Still, Typed, JobOK
<1>4. ASSUME SaveNothing PROVE /\ Logical' = t /\ held' = t /\ said' = "saved" /\ t \in Contents /\ t # None
                               /\ \A f \in Files : maybe'[f] = {disk'[f]}
  BY <1>4, TargetIsContents, StillIs, QuietFlushed DEF SaveNothing, Answer, Phase, Typed, JobOK, Quiet,
     Still, Changed
<1>5. ASSUME SaveDone PROVE /\ Logical' = t /\ held' = t /\ said' = "saved" /\ t \in Contents /\ t # None
                            /\ \A f \in Files : maybe'[f] = {disk'[f]}
  BY <1>5, FlushTypes, TargetIsContents, <1>1, StillIs DEF SaveDone, Answer, Phase, Typed, JobOK,
     Committing, Still, Files
<1> QED BY <1>1, <1>2, <1>3, <1>4, <1>5

\* What the store stands for changes with an answered save, a kill or a power cut, and not
\* otherwise.
LEMMA StepKeeps ==
  ASSUME Typed, NEW v \in Contents, v = Val, NEW t \in Contents \cup {None}, t = job.target, Phase(v, t),
         held # None => held = v, Next, ~cut, ~cut'
  PROVE  /\ \E w \in Contents, u \in Contents \cup {None} :
              w = Val' /\ u = job'.target /\ Phase(w, u)' /\ (held' # None => held' = w)
         /\ Store!Next \/ UNCHANGED Store!vars
<1> DEFINE Goal == \E w \in Contents, u \in Contents \cup {None} :
                     w = Val' /\ u = job'.target /\ Phase(w, u)' /\ (held' # None => held' = w)
<1>0. UNCHANGED cut
  BY TypesStep DEF Typed, RestOK
<1>1. ASSUME Moves PROVE Goal /\ UNCHANGED Store!vars
  BY <1>1, MovesKeep DEF Store!vars, Val
<1>2. ASSUME NEW target \in Contents, Save(target) PROVE Goal /\ Store!Next
  BY <1>2, SaveMoves, SaveTypes DEF Store!Begin, Val, Store!Next, Store!Kept
<1>3. ASSUME Read PROVE Goal /\ UNCHANGED Store!vars
  BY <1>3, EndsKeep, IdlePhase, <1>0 DEF Store!vars, Val
<1>4. ASSUME SaveNothing \/ SaveDone PROVE Goal /\ Store!Next
  BY <1>4, EndsKeep, IdlePhase DEF Store!Saved, Val, Store!Next, Store!Kept
<1>5. ASSUME FailDone PROVE Goal /\ Store!Next
  BY <1>5, EndsKeep, IdlePhase DEF Store!Failed, Val, Store!Next, Store!Kept
<1>6. ASSUME GiveUp PROVE Goal /\ (Store!Next \/ UNCHANGED Store!vars)
  BY <1>6, GiveUpKeeps, IdlePhase, <1>0 DEF GiveUp, Answer, Logical, Unflushed, Store!Failed, Val,
     Store!Next, Store!Kept, Store!vars
<1>7. ASSUME Killed \/ Crash PROVE Goal /\ Store!Next
  <2>1. /\ \A f \in Files : disk'[f] \in maybe[f] /\ maybe'[f] = {disk'[f]}
        /\ job' = NoJob /\ pc' = "idle" /\ held' = None /\ said' = "silent"
    BY CrashTypes, <1>7 DEF Typed, Killed, Unflushed
  <2>2. LogicalOf(disk') = v \/ (t # None /\ LogicalOf(disk') = t)
    BY <2>1, Survivors
  <2>3. PICK w \in Contents : Logical' = w /\ (w = v \/ (t # None /\ w = t))
    BY <2>2, LogicalHere
  <2>4. w = Val' /\ job'.target = None /\ Phase(w, None)'
    BY <2>1, <2>3, IdlePhase
  <2>5. Store!Ended
    BY <2>1, <2>3, <2>4 DEF Store!Ended, Val
  <2> QED BY <2>1, <2>4, <2>5 DEF Store!Next, Store!Kept
<1> QED BY <1>1, <1>2, <1>3, <1>4, <1>5, <1>6, <1>7 DEF Next, Moves

\* A step that leaves something unflushed, or follows one: nothing is promised but documents,
\* until power is lost and the machine starts again.
LEMMA LooseKeeps ==
  ASSUME Typed, Typed', Next, cut \/ cut'
  PROVE  /\ Store!Next
         /\ ~cut' => \E w \in Contents, u \in Contents \cup {None} :
                       w = Val' /\ u = job'.target /\ Phase(w, u)' /\ (held' # None => held' = w)
<1>1. Val' \in Contents /\ job'.target \in Contents \cup {None}
  BY UndoIs DEF Typed, DiskOK, Files, Undo, Content, Logical, Contents, JobOK, Val
<1>2. CASE cut'
  BY <1>1, <1>2 DEF Store!Next, Store!Loose, Val
<1>3. CASE ~cut'
  <2>1. Crash
    <3>1. cut = TRUE /\ cut' = FALSE
      BY <1>3 DEF Typed, RestOK
    <3>2. ASSUME RecoverDocument \/ RecoverSync \/ RecoverForget \/ RecoverDone \/ Load \/ Read PROVE FALSE
      BY <3>1, <3>2 DEF RecoverDocument, RecoverSync, RecoverForget, RecoverDone, Load, Read
    <3>3. ASSUME NEW target, Save(target) PROVE FALSE
      BY <3>1, <3>3 DEF Save
    <3>4. ASSUME \/ SaveNothing \/ SaveJournal \/ SaveJournalSync \/ SaveDocument \/ SaveDocumentSync \/ SaveCommit
                 \/ SaveDone \/ SaveFails \/ FailJournal \/ FailJournalSync \/ FailRecover \/ FailDone
          PROVE  FALSE
      BY <3>1, <3>4 DEF SaveNothing, SaveJournal, SaveJournalSync, SaveDocument, SaveDocumentSync, SaveCommit, SaveDone,
         SaveFails, FailJournal, FailJournalSync, FailRecover, FailDone
    <3>5. ASSUME GiveUp \/ Killed PROVE FALSE
      BY <3>5, <3>1 DEF GiveUp, Killed
    <3> QED BY <3>2, <3>3, <3>4, <3>5 DEF Next
  <2>2. /\ \A f \in Files : maybe'[f] = {disk'[f]}
        /\ job' = NoJob /\ pc' = "idle" /\ held' = None /\ said' = "silent"
    BY <2>1, CrashTypes DEF Typed
  <2>3. PICK w : w = Logical'
    OBVIOUS
  <2>4. w = Val' /\ job'.target = None /\ Phase(w, None)'
    BY <2>2, <2>3, IdlePhase
  <2>5. Store!Settled
    BY <1>1, <1>3, <2>2, <2>4 DEF Store!Settled, Val
  <2> QED BY <1>1, <2>2, <2>4, <2>5 DEF Store!Next
<1> QED BY <1>2, <1>3

-----------------------------------------------------------------------------
\* The store starts with whatever documents there are.
LEMMA InvInit == Init => JournalInv /\ Store!Init
<1> SUFFICES ASSUME Init PROVE JournalInv /\ Store!Init
  OBVIOUS
<1>1. PICK docs \in Contents : disk = [f \in Files |-> IF f = Journal THEN None ELSE docs[f]]
  BY DEF Init
<1>2. /\ maybe = [f \in Files |-> {disk[f]}] /\ held = None /\ said = "silent" /\ pc = "idle" /\ job = NoJob /\ cut = FALSE
  BY DEF Init
<1>3. Journal \in Files /\ Docs \subseteq Files /\ Journal \notin Docs
  BY JournalAssumption DEF Files
<1>4. disk[Journal] = None /\ \A d \in Docs : disk[d] = docs[d]
  BY <1>1, <1>3
<1>5. \A f \in Files : maybe[f] = {disk[f]}
  BY <1>2
<1>6. DiskOK
  BY <1>1, <1>2, <1>3, <1>4, <1>5 DEF Contents, Undo, DiskOK
<1>7. JobOK /\ RestOK
  BY <1>2 DEF JobOK, RestOK, NoJob, Steps
<1>8. Logical \in Contents
  BY <1>6, LogicalIsContents
<1>9. Val = Logical /\ job.target = None
  BY <1>2 DEF Val, NoJob
<1>10. \E v \in Contents, t \in Contents \cup {None} : v = Val /\ t = job.target /\ Phase(v, t) /\ (held # None => held = v)
  BY <1>8, <1>2, <1>5, <1>9 DEF Phase
<1>11. Store!Init
  BY <1>2, <1>8, <1>9 DEF Store!Init, Val
<1> QED BY <1>6, <1>7, <1>10, <1>11 DEF JournalInv

\* Every step keeps the invariant.
LEMMA InvStep ==
  ASSUME JournalInv, [Next]_vars
  PROVE  JournalInv' /\ (Store!Next \/ UNCHANGED Store!vars)
<1>1. Typed /\ Typed'
  BY TypesStep DEF JournalInv, Typed
<1>2. ASSUME UNCHANGED vars PROVE JournalInv' /\ UNCHANGED Store!vars
  <2>1. UNCHANGED <<disk, maybe, held, said, pc, job, cut>>
    BY <1>2 DEF vars
  <2>2. Logical' = Logical
    BY <2>1 DEF Logical
  <2>3. UNCHANGED Store!vars
    BY <2>1, <2>2 DEF Store!vars
  <2>4. Val' = Val
    BY <2>1, <2>2 DEF Val
  <2>5. ASSUME NEW v, NEW t, Phase(v, t) PROVE Phase(v, t)'
    BY <2>1, <2>2, <2>5 DEF Phase, Recovering, Forgetting, Quiet, Journaling, Writing, Committing, Failing, Restoring,
                            Still, UndoOf, Diff
  <2>6. ~cut' => \E v \in Contents, t \in Contents \cup {None} :
                   v = Val' /\ t = job'.target /\ Phase(v, t)' /\ (held' # None => held' = v)
    BY <2>1, <2>4, <2>5 DEF JournalInv
  <2> QED BY <1>1, <2>3, <2>6 DEF JournalInv, Typed, Contents, Content
<1>3. ASSUME Next PROVE JournalInv' /\ (Store!Next \/ UNCHANGED Store!vars)
  BY <1>1, <1>3, LooseKeeps, StepKeeps DEF JournalInv, Typed, Contents, Content
<1> QED BY <1>2, <1>3

\* The invariant says what is promised.
LEMMA InvSafe == JournalInv => JournalSafe
<1> SUFFICES ASSUME JournalInv PROVE JournalSafe
  OBVIOUS
<1>1. TypeOK
  BY JobFields DEF JournalInv, DiskOK, RestOK, TypeOK
<1>2. ASSUME ~cut PROVE HeldIsStored /\ DurableBeforeForgotten
  <2>1. PICK v \in Contents, t \in Contents \cup {None} : v = Val /\ t = job.target /\ Phase(v, t) /\ (held # None => held = v)
    BY <1>2 DEF JournalInv
  <2>2. HeldIsStored
    BY <2>1 DEF HeldIsStored, Phase
  <2>3. ASSUME disk[Journal] = None, NEW d \in Docs PROVE maybe[d] = {disk[d]}
    <3>1. pc \in Steps /\ d \in Files
      BY DEF JournalInv, RestOK, Files
    <3>2. CASE pc \in {"idle", "read", "changes", "fail", "forget.sync", "commit.sync"}
      BY <2>1, <3>1, <3>2 DEF Phase, Quiet, Forgetting, Committing, Still
    <3>3. CASE pc \in {"recover", "recover.sync"}
      BY <2>3, <3>3 DEF JournalInv, JobOK
    <3>4. CASE pc \in {"journal.sync", "write", "write.sync", "failed", "failed.sync"}
      BY <2>1, <3>4, UndoOfIs, <2>3 DEF JournalInv, JobOK, Phase, Journaling, Writing, Failing, Restoring,
         Committing, Still
    <3> QED BY <3>1, <3>2, <3>3, <3>4 DEF Steps
  <2> QED BY <2>2, <2>3 DEF DurableBeforeForgotten
<1>3. cut \/ ~cut
  OBVIOUS
<1> QED BY <1>1, <1>2, <1>3 DEF JournalSafe, HeldIsStored, DurableUnlessCut

\* The invariant holds throughout.
LEMMA Inductive == Spec => []JournalInv
<1>1. Init => JournalInv
  BY InvInit
<1>2. JournalInv /\ [Next]_vars => JournalInv'
  BY InvStep
<1> QED BY <1>1, <1>2, PTL DEF Spec

\* What micad holds is what a load would find, and the journal is gone only when every
\* document it could put back is durable, whichever write or flush fails and wherever
\* micad is killed or power is lost, unless since the machine started a load or a save
\* ended before its last flush (Store::save, recover), for any documents, any split
\* over the two file systems and any texts.
THEOREM JournalIsSafe == Spec => []JournalSafe
BY Inductive, InvSafe, PTL

\* To whoever loads them, the documents of a save change together or not at all: every
\* step of the journalled store is one of DocumentStore or none, through the same
\* failures and with the same exception (save_documents, recover), for any documents
\* and texts.
THEOREM SavesAreAtomic == Spec => SavesAtomically
<1>1. Init => Store!Init
  BY InvInit
<1>2. JournalInv /\ [Next]_vars => [Store!Next]_(Store!vars)
  BY InvStep
<1> QED BY <1>1, <1>2, Inductive, PTL DEF Spec, SavesAtomically, Store!Spec

(***************************************************************************)
(* The settings routes.  Every list of keys on its way obeys the limit, as *)
(* nobody holds it to it again; the records and the listeners are held to  *)
(* their rules by every write that changes what the rules are about, so a  *)
(* tree that obeys them goes to one that does, write by write.             *)
(***************************************************************************)
KeyList(list) == list \in [RtNames -> Nat] /\ Cardinality(Present(list)) <= RtMaxKeys
KeyWrite(w) == w.path = "keys" => w.at = Whole /\ KeyList(w.value)
WritesOK(ws) == Len(ws) \in Nat /\ \A i \in 1..Len(ws) : KeyWrite(ws[i])
CallsOK(calls) == \E c, d : WritesOK(c) /\ WritesOK(d) /\ (calls = <<c>> \/ calls = <<c, d>>)

NamesApart(t) ==
  /\ \A m, n \in Present(t.records) : m # n => t.records[m] # t.records[n]
  /\ \A n \in Present(t.records) : t.records[n] # t.hostname
TreeOK(t) ==
  /\ t = [x \in DOMAIN t |-> t[x]] /\ "keys" \in DOMAIN t
  /\ KeyList(t.keys) /\ NamesApart(t) /\ ValidListeners(t)

Handlers(A, B, C, D) == [pc : A, calls : B, checked : C, patch : D]
Formed(q) == \E A, B, C, D : q \in Handlers(A, B, C, D)
RequestOK(q) == Formed(q) /\ (q.pc # "free" => CallsOK(q.calls))

RtInv ==
  /\ TreeOK(tree)
  /\ rtReqs = [r \in RtRequests |-> rtReqs[r]]
  /\ \A r \in RtRequests : RequestOK(rtReqs[r])

\* A handler with some of its fields replaced.
LEMMA WithPlace ==
  ASSUME NEW q, Formed(q), NEW at
  PROVE  Formed([q EXCEPT !.pc = at]) /\ [q EXCEPT !.pc = at].calls = q.calls
  <1>1. PICK A, B, C, D : q \in Handlers(A, B, C, D)
    BY DEF Formed
  <1> DEFINE p == [q EXCEPT !.pc = at]
  <1>2. p \in Handlers(A \cup {at}, B, C, D) /\ p.calls = q.calls
    BY <1>1 DEF Handlers
  <1> HIDE DEF p
  <1>3. Formed(p) /\ p.calls = q.calls
    BY <1>2 DEF Formed
  <1> QED BY <1>3 DEF p

LEMMA WithList ==
  ASSUME NEW q, Formed(q), NEW calls
  PROVE  Formed([q EXCEPT !.calls = calls]) /\ [q EXCEPT !.calls = calls].calls = calls
  <1>1. PICK A, B, C, D : q \in Handlers(A, B, C, D)
    BY DEF Formed
  <1> DEFINE p == [q EXCEPT !.calls = calls]
  <1>2. p \in Handlers(A, B \cup {calls}, C, D) /\ p.calls = calls
    BY <1>1 DEF Handlers
  <1> HIDE DEF p
  <1>3. Formed(p) /\ p.calls = calls
    BY <1>2 DEF Formed
  <1> QED BY <1>3 DEF p

LEMMA WithChecked ==
  ASSUME NEW q, Formed(q), NEW at, NEW checked
  PROVE  Formed([q EXCEPT !.pc = at, !.checked = checked]) /\ [q EXCEPT !.pc = at, !.checked = checked].calls = q.calls
  <1>1. PICK A, B, C, D : q \in Handlers(A, B, C, D)
    BY DEF Formed
  <1> DEFINE p == [q EXCEPT !.pc = at, !.checked = checked]
  <1>2. p \in Handlers(A \cup {at}, B, C \cup {checked}, D) /\ p.calls = q.calls
    BY <1>1 DEF Handlers
  <1> HIDE DEF p
  <1>3. Formed(p) /\ p.calls = q.calls
    BY <1>2 DEF Formed
  <1> QED BY <1>3 DEF p

LEMMA WithCalls ==
  ASSUME NEW q, Formed(q), NEW at, NEW calls
  PROVE  Formed([q EXCEPT !.pc = at, !.calls = calls]) /\ [q EXCEPT !.pc = at, !.calls = calls].calls = calls
  <1>1. PICK A, B, C, D : q \in Handlers(A, B, C, D)
    BY DEF Formed
  <1> DEFINE p == [q EXCEPT !.pc = at, !.calls = calls]
  <1>2. p \in Handlers(A \cup {at}, B \cup {calls}, C, D) /\ p.calls = calls
    BY <1>1 DEF Handlers
  <1> HIDE DEF p
  <1>3. Formed(p) /\ p.calls = calls
    BY <1>2 DEF Formed
  <1> QED BY <1>3 DEF p

LEMMA WithPatch ==
  ASSUME NEW q, Formed(q), NEW at, NEW calls
  PROVE  Formed([q EXCEPT !.pc = at, !.patch = TRUE, !.calls = calls]) /\ [q EXCEPT !.pc = at, !.patch = TRUE, !.calls = calls].calls = calls
  <1>1. PICK A, B, C, D : q \in Handlers(A, B, C, D)
    BY DEF Formed
  <1> DEFINE p == [q EXCEPT !.pc = at, !.patch = TRUE, !.calls = calls]
  <1>2. p \in Handlers(A \cup {at}, B \cup {calls}, C, D \cup {TRUE}) /\ p.calls = calls
    BY <1>1 DEF Handlers
  <1> HIDE DEF p
  <1>3. Formed(p) /\ p.calls = calls
    BY <1>2 DEF Formed
  <1> QED BY <1>3 DEF p

LEMMA WithNext ==
  ASSUME NEW q, Formed(q), NEW at, NEW calls
  PROVE  Formed([q EXCEPT !.pc = at, !.checked = {}, !.calls = calls]) /\ [q EXCEPT !.pc = at, !.checked = {}, !.calls = calls].calls = calls
  <1>1. PICK A, B, C, D : q \in Handlers(A, B, C, D)
    BY DEF Formed
  <1> DEFINE p == [q EXCEPT !.pc = at, !.checked = {}, !.calls = calls]
  <1>2. p \in Handlers(A \cup {at}, B \cup {calls}, C \cup {{}}, D) /\ p.calls = calls
    BY <1>1 DEF Handlers
  <1> HIDE DEF p
  <1>3. Formed(p) /\ p.calls = calls
    BY <1>2 DEF Formed
  <1> QED BY <1>3 DEF p

LEMMA LeastOf ==
  ASSUME NEW S \in SUBSET Nat, S # {}
  PROVE  \E m \in S : \A n \in S : m <= n
  <1> DEFINE Less == {ss \in Nat \X Nat : ss[1] < ss[2]}
  <1>1. IsWellFoundedOn(Less, Nat)
    BY NatLessThanWellFounded, Zenon DEF OpToRel
  <1> HIDE DEF Less
  <1>2. PICK m \in S : \A n \in S : ~ (<<n, m>> \in Less)
    BY <1>1, WFMin
  <1>3. \A n \in S : ~ (n < m)
    BY <1>2 DEF Less
  <1> QED BY <1>3

\* One write, held to the rules.
LEMMA PlacedOK ==
  ASSUME NEW t, TreeOK(t), NEW w, KeyWrite(w), SettingsSet(t, w).ok
  PROVE  TreeOK(SettingsSet(t, w).tree)
  <1> DEFINE n == Placed(t, w)
  <1>1. SettingsSet(t, w).tree = n /\ HeldToRules(t, n)
    BY DEF SettingsSet
  <1>2. n = [x \in DOMAIN n |-> n[x]] /\ "keys" \in DOMAIN n /\ KeyList(n.keys)
    BY DEF Placed, TreeOK, KeyWrite
  <1> HIDE DEF n
  <1>3. NamesApart(n)
    BY <1>1 DEF ValidDns, NamesApart, HeldToRules, DnsOf, TreeOK
  <1>4. ValidListeners(n)
    BY <1>1 DEF ListenersOf, ValidListeners, TreeOK, HeldToRules
  <1> QED BY <1>1, <1>2, <1>3, <1>4 DEF TreeOK

\* The writes of one call, one after the other.
LEMMA CandidateOK ==
  ASSUME NEW t, TreeOK(t), NEW ws, WritesOK(ws), Candidate(t, ws).ok
  PROVE  TreeOK(Candidate(t, ws).tree)
  <1> DEFINE first == [ok |-> TRUE, tree |-> t]
             next(a, i) == IF a.ok THEN SettingsSet(a.tree, ws[i]) ELSE a
             Is(f, n) == f = [i \in 0..n |-> IF i = 0 THEN first ELSE next(f[i - 1], i)]
  <1>1. \A n \in Nat : \E f : Is(f, n)
    <2> DEFINE B == {n \in Nat : ~ \E f : Is(f, n)}
    <2> SUFFICES ASSUME B # {} PROVE FALSE
      OBVIOUS
    <2>1. PICK m \in B : \A n \in B : m <= n
      BY LeastOf
    <2>2. m # 0
      <3> DEFINE f == [i \in 0..0 |-> first]
      <3>1. Is(f, 0)
        OBVIOUS
      <3> QED BY <3>1
    <2>3. m \in Nat /\ m - 1 \in Nat /\ m - 1 \notin B
      <3>1. m \in Nat
        BY <2>1
      <3> HIDE DEF B
      <3> QED BY <2>1, <2>2, <3>1
    <2>4. PICK g : Is(g, m - 1)
      BY <2>3
    <2> DEFINE f == [i \in 0..m |-> IF i = 0 THEN first ELSE next(g[i - 1], i)]
    <2> HIDE DEF first, next
    <2>5. \A i \in 0..(m - 1) : f[i] = g[i]
      BY <2>2, <2>3, <2>4
    <2>6. Is(f, m)
      <3>1. ASSUME NEW i \in 1..m PROVE f[i - 1] = g[i - 1]
        <4>1. i - 1 \in 0..(m - 1)
          BY <2>3
        <4> HIDE DEF f
        <4> QED BY <2>5, <4>1
      <3>2. f = [i \in 0..m |-> IF i = 0 THEN first ELSE next(f[i - 1], i)]
        <4>1. ASSUME NEW i \in 0..m
              PROVE  f[i] = IF i = 0 THEN first ELSE next(f[i - 1], i)
          <5>1. CASE i = 0
            BY <5>1
          <5>2. CASE i # 0
            <6>1. f[i] = next(g[i - 1], i)
              BY <5>2
            <6>2. i \in 1..m
              BY <2>3, <5>2
            <6> HIDE DEF f
            <6> QED BY <3>1, <5>2, <6>1, <6>2
          <5> QED BY <5>1, <5>2
        <4>2. f = [i \in 0..m |-> f[i]]
          OBVIOUS
        <4> HIDE DEF f
        <4> QED BY <4>1, <4>2
      <3> HIDE DEF f
      <3> QED BY <3>2
    <2> QED BY <2>6
  <1> DEFINE n == Len(ws)
             c == CHOOSE f : Is(f, n)
  <1>2. n \in Nat /\ Candidate(t, ws) = c[n]
    BY DEF WritesOK, Candidate
  <1>3. Is(c, n)
    <2> HIDE DEF Is
    <2> QED BY <1>1, <1>2
  <1>4. c[0] = first /\ \A i \in 1..n : c[i] = next(c[i - 1], i)
    <2> HIDE DEF first, next, c
    <2> QED BY <1>2, <1>3
  <1> HIDE DEF c, Is, n
  <1>5. \A i \in 0..n : c[i].ok => TreeOK(c[i].tree)
    <2> DEFINE B == {i \in 0..n : ~(c[i].ok => TreeOK(c[i].tree))}
    <2> SUFFICES ASSUME B # {} PROVE FALSE
      OBVIOUS
    <2>1. PICK m \in B : \A i \in B : m <= i
      <3>1. B \in SUBSET Nat
        BY <1>2
      <3> HIDE DEF B
      <3> QED BY <3>1, LeastOf
    <2>2. m # 0
      BY <1>4
    <2>3. m \in 1..n /\ m - 1 \in 0..n /\ m - 1 \notin B
      BY <1>2, <2>1, <2>2
    <2>4. c[m - 1].ok => TreeOK(c[m - 1].tree)
      BY <2>3
    <2>5. c[m] = next(c[m - 1], m)
      BY <1>4, <2>3
    <2>6. KeyWrite(ws[m])
      BY <2>3 DEF WritesOK, n
    <2>7. c[m].ok => TreeOK(c[m].tree)
      BY <2>4, <2>5, <2>6, PlacedOK
    <2> QED BY <2>1, <2>7
  <1> QED BY <1>2, <1>5

LEMMA CallsAre ==
  ASSUME NEW calls, CallsOK(calls)
  PROVE  /\ WritesOK(Head(calls)) /\ CallsOK(<<Head(calls)>>)
         /\ Len(calls) > 1 => CallsOK(Tail(calls))
  <1>1. PICK c, d : WritesOK(c) /\ WritesOK(d) /\ (calls = <<c>> \/ calls = <<c, d>>)
    BY DEF CallsOK
  <1>2. Head(calls) = c /\ (Len(calls) > 1 => Tail(calls) = <<d>>)
    <2>1. CASE calls = <<c>>
      BY <2>1
    <2>2. CASE calls = <<c, d>>
      BY <2>2
    <2> QED BY <1>1, <2>1, <2>2
  <1>3. CallsOK(<<c>>) /\ CallsOK(<<d>>)
    BY <1>1 DEF CallsOK
  <1> QED BY <1>1, <1>2, <1>3

LEMMA RtFreeIs == RequestOK(RtFree) /\ RtFree.pc = "free" /\ Formed(RtFree)
  BY DEF Handlers, RtFree, RequestOK, Formed

LEMMA RtStart == RtInit => RtInv
  <1> SUFFICES ASSUME RtInit PROVE RtInv
    OBVIOUS
  <1>1. tree = DefaultTree /\ NoEntries \in [RtNames -> Nat] /\ Present(NoEntries) = {}
    BY DEF RtInit, NoEntries, Present
  <1>2. tree.keys = NoEntries /\ tree.records = NoEntries /\ tree.webPort = 3 /\ tree.ssh = TRUE
        /\ tree.mqtt = FALSE /\ tree = [x \in DOMAIN tree |-> tree[x]] /\ "keys" \in DOMAIN tree
    BY <1>1 DEF DefaultTree
  <1>3. KeyList(tree.keys)
    BY <1>1, <1>2, RtAssumption, FS_EmptySet DEF KeyList
  <1>4. NamesApart(tree)
    BY <1>1, <1>2 DEF NamesApart
  <1>5. ValidListeners(tree)
    BY <1>2 DEF ValidListeners
  <1>6. TreeOK(tree)
    BY <1>2, <1>3, <1>4, <1>5 DEF TreeOK
  <1>7. rtReqs = [r \in RtRequests |-> rtReqs[r]] /\ \A r \in RtRequests : RequestOK(rtReqs[r])
    BY RtFreeIs DEF RtInit
  <1> QED BY <1>6, <1>7 DEF RtInv

\* A step of one request.
LEMMA OneRequest ==
  ASSUME RtInv, NEW r \in RtRequests, NEW q, RequestOK(q), rtReqs' = [rtReqs EXCEPT ![r] = q],
         tree' = tree \/ TreeOK(tree')
  PROVE  RtInv'
  <1>1. TreeOK(tree')
    BY DEF RtInv
  <1>2. rtReqs = [s \in RtRequests |-> rtReqs[s]] /\ \A s \in RtRequests : RequestOK(rtReqs[s])
    BY DEF RtInv
  <1>3. rtReqs' = [s \in RtRequests |-> rtReqs'[s]] /\ \A s \in RtRequests : rtReqs'[s] = q \/ rtReqs'[s] = rtReqs[s]
    BY <1>2
  <1>4. \A s \in RtRequests : RequestOK(rtReqs'[s])
    BY <1>2, <1>3
  <1>5. TreeOK(tree') => TreeOK(tree)'
    BY DEF TreeOK, KeyList, NamesApart, ValidListeners, Present
  <1>6. \A s \in RtRequests : RequestOK(rtReqs'[s]) => RequestOK(rtReqs[s])'
    BY DEF RequestOK, Formed, Handlers, CallsOK, WritesOK, KeyWrite, KeyList, Present
  <1>7. RtInv!2' /\ (RtInv!3)'
    BY <1>3, <1>4, <1>6
  <1> QED BY <1>1, <1>5, <1>7 DEF RtInv

LEMMA AnsweredStep ==
  ASSUME RtInv, NEW r \in RtRequests, Answered(r), tree' = tree \/ TreeOK(tree')
  PROVE  RtInv'
  BY RtFreeIs, OneRequest DEF Answered

LEMMA SendsStep ==
  ASSUME RtInv, NEW r \in RtRequests, NEW calls, Sends(r, calls), CallsOK(calls)
  PROVE  RtInv'
  <1> DEFINE q == [RtFree EXCEPT !.pc = "call", !.calls = calls]
  <1>1. rtReqs' = [rtReqs EXCEPT ![r] = q] /\ tree' = tree
    BY DEF Sends
  <1>2. Formed(q) /\ q.calls = calls
    BY RtFreeIs, WithCalls
  <1> HIDE DEF q
  <1>3. RequestOK(q)
    BY <1>2 DEF RequestOK
  <1> QED BY <1>1, <1>3, OneRequest

\* The calls the routes send: writes of the keys obey the limit, and the others are not of
\* the keys.
LEMMA OneOK ==
  ASSUME NEW w, KeyWrite(w)
  PROVE  CallsOK(One(w))
  <1>1. WritesOK(<<w>>)
    BY DEF WritesOK
  <1> QED BY <1>1 DEF CallsOK, One

LEMMA OtherOK ==
  ASSUME NEW path, path # "keys", NEW at, NEW value
  PROVE  KeyWrite(W(path, at, value)) /\ CallsOK(One(W(path, at, value)))
  BY OneOK DEF W, KeyWrite

LEMMA ManyOK ==
  ASSUME NEW v, NEW w, NEW x, KeyWrite(v), KeyWrite(w), KeyWrite(x)
  PROVE  CallsOK(<<<<v, w>>>>) /\ CallsOK(<<<<v, w, x>>>>) /\ CallsOK(<<<<v>>, <<w>>>>)
  <1>1. WritesOK(<<v>>) /\ WritesOK(<<w>>) /\ WritesOK(<<v, w>>) /\ WritesOK(<<v, w, x>>)
    BY DEF WritesOK
  <1> QED BY <1>1 DEF CallsOK

LEMMA KeyAdded == ASSUME RtInv, NEW r \in RtRequests, AddKey(r) PROVE RtInv'
  <1>1. PICK n \in RtNames : tree.keys[n] = 0 /\ WriteKeys(r, [tree.keys EXCEPT ![n] = 1])
    BY DEF AddKey
  <1> DEFINE list == [tree.keys EXCEPT ![n] = 1]
  <1>2. tree.keys \in [RtNames -> Nat]
    BY DEF RtInv, TreeOK, KeyList
  <1>3. list \in [RtNames -> Nat] /\ Present(list) = Present(tree.keys) \cup {n} /\ n \notin Present(tree.keys)
    BY <1>1, <1>2 DEF Present
  <1>4. IsFiniteSet(Present(tree.keys))
    BY RtAssumption, FS_Subset DEF Present
  <1>5. Cardinality(Present(list)) = Cardinality(Present(tree.keys)) + 1 /\ Cardinality(Present(tree.keys)) \in Nat
    BY <1>3, <1>4, FS_AddElement, FS_CardinalityType
  <1>6. KeyList(list)
    BY <1>3, <1>5, RtAssumption DEF KeyList, AddKey
  <1>7. Sends(r, One(W("keys", Whole, list)))
    BY <1>1 DEF WriteKeys
  <1> HIDE DEF list
  <1>8. KeyWrite(W("keys", Whole, list))
    BY <1>6 DEF KeyWrite, W
  <1> QED BY <1>7, <1>8, OneOK, SendsStep

LEMMA KeyRemoved == ASSUME RtInv, NEW r \in RtRequests, RemoveKey(r) PROVE RtInv'
  <1>1. PICK n \in RtNames : WriteKeys(r, [tree.keys EXCEPT ![n] = 0])
    BY DEF RemoveKey
  <1> DEFINE list == [tree.keys EXCEPT ![n] = 0]
  <1>2. tree.keys \in [RtNames -> Nat] /\ Cardinality(Present(tree.keys)) <= RtMaxKeys
    BY DEF RtInv, TreeOK, KeyList
  <1>3. list \in [RtNames -> Nat] /\ Present(list) \subseteq Present(tree.keys)
    BY <1>1, <1>2 DEF Present
  <1>4. IsFiniteSet(Present(tree.keys))
    BY RtAssumption, FS_Subset DEF Present
  <1>5. /\ Cardinality(Present(list)) <= Cardinality(Present(tree.keys))
        /\ Cardinality(Present(tree.keys)) \in Nat /\ Cardinality(Present(list)) \in Nat
    BY <1>3, <1>4, FS_Subset, FS_CardinalityType
  <1>6. KeyList(list)
    BY <1>2, <1>3, <1>5, RtAssumption DEF KeyList
  <1>7. Sends(r, One(W("keys", Whole, list)))
    BY <1>1 DEF WriteKeys
  <1> HIDE DEF list
  <1>8. KeyWrite(W("keys", Whole, list))
    BY <1>6 DEF KeyWrite, W
  <1> QED BY <1>7, <1>8, OneOK, SendsStep

\* The routes of one path.
LEMMA OnePathStep ==
  ASSUME RtInv, NEW r \in RtRequests,
         \/ AddNetwork(r) \/ ReplaceNetwork(r) \/ RemoveNetwork(r)
         \/ ProjectWrite(r) \/ ProjectRemove(r) \/ UnitWrite(r) \/ UnitRemove(r)
         \/ GlobalWrite(r) \/ AddressWrite(r) \/ WebWrite(r)
  PROVE  RtInv'
  BY OtherOK, SendsStep DEF AddNetwork, ReplaceNetwork, RemoveNetwork, WriteNetworks, ProjectWrite,
     ProjectRemove, UnitWrite, UnitRemove, GlobalWrite, AddressWrite, WebWrite

LEMMA WritableIs ==
  ASSUME NEW w \in WritableSettings
  PROVE  w[1] # "keys"
  BY DEF WritableSettings

LEMMA SettingsWriteStep == ASSUME RtInv, NEW r \in RtRequests, SettingsWrite(r) PROVE RtInv'
  BY WritableIs, OtherOK, SendsStep DEF SettingsWrite

LEMMA PatchStep == ASSUME RtInv, NEW r \in RtRequests, SettingsPatch(r) PROVE RtInv'
  <1>1. PICK v \in WritableSettings, w \in WritableSettings :
          rtReqs' = [rtReqs EXCEPT
            ![r] = [RtFree EXCEPT !.pc = "call", !.patch = TRUE,
                      !.calls = <<<<W(v[1], Whole, v[2]), W(w[1], Whole, w[2])>>>>]]
    BY DEF SettingsPatch
  <1> DEFINE calls == <<<<W(v[1], Whole, v[2]), W(w[1], Whole, w[2])>>>>
             q == [RtFree EXCEPT !.pc = "call", !.patch = TRUE, !.calls = calls]
  <1>2. CallsOK(calls)
    BY WritableIs, OtherOK, ManyOK
  <1> HIDE DEF calls
  <1>3. Formed(q) /\ q.calls = calls
    BY RtFreeIs, WithPatch
  <1>4. rtReqs' = [rtReqs EXCEPT ![r] = q] /\ tree' = tree
    BY <1>1 DEF SettingsPatch, calls
  <1> HIDE DEF q
  <1>5. RequestOK(q)
    BY <1>2, <1>3 DEF RequestOK
  <1> QED BY <1>4, <1>5, OneRequest

LEMMA ManyPathsStep ==
  ASSUME RtInv, NEW r \in RtRequests,
         MqttWrite(r) \/ ClientWrite(r) \/ AccessPointWrite(r) \/ RoleWrite(r)
  PROVE  RtInv'
  <1>1. CASE MqttWrite(r)
    <2>1. PICK f \in Flags, p \in Ports : Sends(r, <<<<W("mqtt", Whole, f), W("mqttPort", Whole, p)>>>>)
      BY <1>1 DEF MqttWrite
    <2>2. KeyWrite(W("mqtt", Whole, f)) /\ KeyWrite(W("mqttPort", Whole, p))
      BY OtherOK
    <2> QED BY <2>1, <2>2, ManyOK, SendsStep
  <1>2. CASE ClientWrite(r)
    <2>1. PICK i \in 1..2, f \in Flags : Sends(r, <<<<W("interface", Whole, i)>>, <<W("station", Whole, f)>>>>)
      BY <1>2 DEF ClientWrite
    <2>2. KeyWrite(W("interface", Whole, i)) /\ KeyWrite(W("station", Whole, f))
      BY OtherOK
    <2> QED BY <2>1, <2>2, ManyOK, SendsStep
  <1>3. ASSUME NEW mode, NEW psk
        PROVE  \E v, w : /\ StoredAccessPoint(mode, psk) = <<v, w>> /\ KeyWrite(v) /\ KeyWrite(w)
    BY OtherOK DEF StoredAccessPoint
  <1>4. CASE AccessPointWrite(r)
    <2>1. PICK mode \in {"off", "provisioning", "always"}, psk \in 0..2 : Sends(r, <<StoredAccessPoint(mode, psk)>>)
      BY <1>4 DEF AccessPointWrite
    <2>2. PICK v, w : StoredAccessPoint(mode, psk) = <<v, w>> /\ KeyWrite(v) /\ KeyWrite(w)
      BY <1>3
    <2> QED BY <2>1, <2>2, ManyOK, SendsStep
  <1>5. CASE RoleWrite(r)
    <2>1. CASE \E start \in {"provisioning", "always"}, psk \in 0..2 :
                 Sends(r, <<<<W("station", Whole, FALSE)>> \o StoredAccessPoint(start, psk)>>)
      <3>1. PICK start \in {"provisioning", "always"}, psk \in 0..2 :
              Sends(r, <<<<W("station", Whole, FALSE)>> \o StoredAccessPoint(start, psk)>>)
        BY <2>1
      <3>2. PICK v, w : StoredAccessPoint(start, psk) = <<v, w>> /\ KeyWrite(v) /\ KeyWrite(w)
        BY <1>3
      <3> DEFINE u == W("station", Whole, FALSE)
      <3>3. KeyWrite(u)
        BY OtherOK
      <3> HIDE DEF u
      <3>4. WritesOK(<<u>> \o <<v, w>>)
        BY <3>2, <3>3 DEF WritesOK
      <3>5. CallsOK(<<<<u>> \o <<v, w>>>>)
        BY <3>4 DEF CallsOK
      <3>6. Sends(r, <<<<u>> \o <<v, w>>>>)
        BY <3>1, <3>2 DEF u
      <3> QED BY <3>5, <3>6, SendsStep
    <2>2. CASE \E f \in Flags : Sends(r, <<<<W("station", Whole, f), W("apMode", Whole, "off")>>>>)
      <3>1. PICK f \in Flags : Sends(r, <<<<W("station", Whole, f), W("apMode", Whole, "off")>>>>)
        BY <2>2
      <3>2. KeyWrite(W("station", Whole, f)) /\ KeyWrite(W("apMode", Whole, "off"))
        BY OtherOK
      <3> QED BY <3>1, <3>2, ManyOK, SendsStep
    <2> QED BY <1>5, <2>1, <2>2 DEF RoleWrite
  <1> QED BY <1>1, <1>2, <1>4, <1>5

LEMMA RecordsStep ==
  ASSUME RtInv, NEW r \in RtRequests, AddRecord(r) \/ ReplaceRecord(r) \/ RemoveRecord(r)
  PROVE  RtInv'
  <1>1. \E list : SendsRecords(r, list)
    BY DEF AddRecord, ReplaceRecord, RemoveRecord
  <1>2. PICK list : SendsRecords(r, list)
    BY <1>1
  <1> DEFINE calls == One(W("records", Whole, list))
             q == [RtFree EXCEPT !.pc = "host", !.calls = calls]
  <1>3. CallsOK(calls)
    BY OtherOK
  <1>4. rtReqs' = [rtReqs EXCEPT ![r] = q] /\ tree' = tree
    BY <1>2 DEF SendsRecords
  <1> HIDE DEF calls
  <1>5. Formed(q) /\ q.calls = calls
    BY RtFreeIs, WithCalls
  <1> HIDE DEF q
  <1> QED BY <1>3, <1>4, <1>5, OneRequest DEF RequestOK

\* A request that goes on with its calls.
LEMMA OnStep ==
  ASSUME RtInv, NEW r \in RtRequests, rtReqs[r].pc # "free", tree' = tree,
         NEW q, rtReqs' = [rtReqs EXCEPT ![r] = q], Formed(q), q.calls = rtReqs[r].calls
  PROVE  RtInv'
  BY OneRequest DEF RtInv, RequestOK

LEMMA HostReadStep == ASSUME RtInv, NEW r \in RtRequests, WriteRecords(r) PROVE RtInv'
  <1>1. rtReqs[r].pc = "host" /\ tree' = tree
    BY DEF WriteRecords
  <1>2. CASE Answered(r)
    BY <1>1, <1>2, AnsweredStep
  <1>3. CASE rtReqs' = [rtReqs EXCEPT ![r].pc = "call"]
    <2> DEFINE q == [rtReqs[r] EXCEPT !.pc = "call"]
    <2>1. rtReqs' = [rtReqs EXCEPT ![r] = q]
      BY <1>3
    <2>2. Formed(rtReqs[r])
      BY DEF RtInv, RequestOK
    <2>3. Formed(q) /\ q.calls = rtReqs[r].calls
      BY <2>2, WithPlace
    <2> HIDE DEF q
    <2> QED BY <1>1, <2>1, <2>3, OnStep
  <1> QED BY <1>2, <1>3 DEF WriteRecords

LEMMA CheckedStep == ASSUME RtInv, NEW r \in RtRequests, CheckWrittenProjects(r) PROVE RtInv'
  <1>1. rtReqs[r].pc = "call" /\ tree' = tree
    BY DEF CheckWrittenProjects
  <1>2. PICK texts : rtReqs' = [rtReqs EXCEPT ![r].pc = "write", ![r].checked = texts]
    BY DEF CheckWrittenProjects
  <1> DEFINE q == [rtReqs[r] EXCEPT !.pc = "write", !.checked = texts]
  <1>3. Formed(rtReqs[r]) /\ rtReqs = [s \in RtRequests |-> rtReqs[s]]
    BY DEF RtInv, RequestOK
  <1>4. rtReqs' = [rtReqs EXCEPT ![r] = q]
    BY <1>2, <1>3
  <1>5. Formed(q) /\ q.calls = rtReqs[r].calls
    BY <1>3, WithChecked
  <1> HIDE DEF q
  <1> QED BY <1>1, <1>4, <1>5, OnStep

LEMMA FailedStep == ASSUME RtInv, NEW r \in RtRequests, CallFails(r) PROVE RtInv'
  <1>1. rtReqs[r].pc # "free" /\ tree' = tree
    BY DEF CallFails
  <1>2. CASE Answered(r)
    BY <1>1, <1>2, AnsweredStep
  <1>3. CASE rtReqs' = [rtReqs EXCEPT ![r].calls = <<Head(@)>>]
    <2> DEFINE calls == <<Head(rtReqs[r].calls)>>
               q == [rtReqs[r] EXCEPT !.calls = calls]
    <2>1. rtReqs' = [rtReqs EXCEPT ![r] = q]
      BY <1>3
    <2>2. Formed(rtReqs[r]) /\ CallsOK(calls)
      BY <1>1, CallsAre DEF RtInv, RequestOK
    <2> HIDE DEF calls
    <2>3. Formed(q) /\ q.calls = calls
      BY <2>2, WithList
    <2>4. RequestOK(q)
      BY <2>2, <2>3 DEF RequestOK
    <2> HIDE DEF q
    <2> QED BY <1>1, <2>1, <2>4, OneRequest
  <1> QED BY <1>2, <1>3 DEF CallFails

LEMMA PersistedStep == ASSUME RtInv, NEW r \in RtRequests, Persisted(r) PROVE RtInv'
  <1> DEFINE q == rtReqs[r]
             candidate == Candidate(tree, Head(q.calls))
  <1>1. q.pc = "write" /\ (tree' = tree \/ (candidate.ok /\ tree' = candidate.tree))
    BY DEF Persisted
  <1>2. Formed(q) /\ CallsOK(q.calls)
    BY <1>1 DEF RtInv, RequestOK
  <1>3. tree' = tree \/ TreeOK(tree')
    BY <1>1, <1>2, CallsAre, CandidateOK DEF RtInv
  <1>4. \/ Answered(r)
        \/ /\ Len(q.calls) > 1
           /\ rtReqs' = [rtReqs EXCEPT ![r] = [q EXCEPT !.pc = "call", !.checked = {}, !.calls = Tail(@)]]
    BY DEF Persisted
  <1>5. CASE Answered(r)
    BY <1>3, <1>5, AnsweredStep
  <1>6. CASE /\ Len(q.calls) > 1
             /\ rtReqs' = [rtReqs EXCEPT ![r] = [q EXCEPT !.pc = "call", !.checked = {}, !.calls = Tail(@)]]
    <2> DEFINE calls == Tail(q.calls)
               p == [q EXCEPT !.pc = "call", !.checked = {}, !.calls = calls]
    <2>1. rtReqs' = [rtReqs EXCEPT ![r] = p] /\ CallsOK(calls)
      BY <1>2, <1>6, CallsAre
    <2> HIDE DEF calls, q
    <2>2. Formed(p) /\ p.calls = calls
      BY <1>2, WithNext
    <2>3. RequestOK(p)
      BY <2>1, <2>2 DEF RequestOK
    <2> HIDE DEF p
    <2> QED BY <1>3, <2>1, <2>3, OneRequest
  <1> QED BY <1>4, <1>5, <1>6

LEMMA RtQuiet == ASSUME RtInv, tree' = tree, rtReqs' = rtReqs PROVE RtInv'
  <1>1. TreeOK(tree) => TreeOK(tree)'
    BY DEF TreeOK, KeyList, NamesApart, ValidListeners, Present
  <1>2. ASSUME NEW s \in RtRequests, RequestOK(rtReqs[s]) PROVE RequestOK(rtReqs[s])'
    BY <1>2 DEF RequestOK, Formed, Handlers, CallsOK, WritesOK, KeyWrite, KeyList, Present
  <1> QED BY <1>1, <1>2 DEF RtInv

LEMMA RtKeeps == ASSUME RtInv, [RtNext]_rtVars PROVE RtInv'
  <1>1. CASE UNCHANGED rtVars
    BY <1>1, RtQuiet DEF rtVars
  <1>2. CASE WifiHeld
    BY <1>2, RtQuiet DEF WifiHeld
  <1>3. CASE \E r \in RtRequests : RtStep(r)
    <2>1. PICK r \in RtRequests : RtStep(r)
      BY <1>3
    <2>2. CASE CheckRefuses(r)
      BY <2>2, AnsweredStep DEF CheckRefuses
    <2> QED BY <2>1, <2>2, OnePathStep, KeyAdded, KeyRemoved, RecordsStep, HostReadStep, SettingsWriteStep,
               PatchStep, ManyPathsStep, CheckedStep, PersistedStep, FailedStep DEF RtStep
  <1> QED BY <1>1, <1>2, <1>3 DEF RtNext

\* ListsSound and PortsDistinct: whatever requests of resources.rs, dns.rs and settings.rs
\* race, the stored lists keep their limit and their names apart and no two enabled
\* listeners have one port, for any requests, identities and limit.
THEOREM RoutesAreSafe == RtSpec => []RoutesSafe
  <1>1. RtInv => RoutesSafe
    BY DEF RtInv, TreeOK, RoutesSafe, ListsSound, PortsDistinct, KeyList, NamesApart
  <1>2. RtInv /\ [RtNext]_rtVars => RtInv'
    BY RtKeeps
  <1> QED BY RtStart, <1>1, <1>2, PTL DEF RtSpec

(***************************************************************************)
(* The network apply.                                                      *)
(***************************************************************************)
NetPcs == {"idle", "read", "psks", "files", "devices", "reload", "settle", "retain", "reload_back",
           "delete_old"}
Netdevs == Nat \X BOOLEAN
NetUnit == [port : Nat, network : Nat, netdev : Netdevs]
NetDevice == [netdev : Netdevs, psk : Nat, key : Nat, stale : BOOLEAN]
NetJobs == [pc : NetPcs, attempted : NetMaps \cup {NoMap}, map : NetMaps \cup {NoMap}, before : NetUnit,
            rekeyed : BOOLEAN, rotation : BOOLEAN]

NuTypes ==
  /\ netWant \in NetMaps /\ netApplied \in NetMaps \cup {NoMap}
  /\ netUnits \in NetUnit /\ pskFile \in Nat /\ keyFile \in Nat
  /\ tunnel \in NetDevice /\ netDue \in BOOLEAN
  /\ netJob \in NetJobs
  /\ nuUsed \in [writes : Nat, faults : Nat, keys : Nat]

\* The apply under way and the files it replaces.
NetJobInv ==
  /\ netJob.pc = "idle" => netJob = NoNetJob
  /\ netJob.pc \in {"psks", "files", "devices", "reload", "settle", "retain"} =>
       netJob.map \in NetMaps /\ (~netDue => netJob.map = netWant)
  /\ netJob.pc \in {"files", "devices", "reload", "settle", "retain"} => pskFile = netJob.map.wg.psk
  /\ netJob.pc \in {"devices", "reload", "settle", "retain"} => netUnits = UnitsOf(netJob.map)
  /\ netJob.pc \in {"settle", "retain"} /\ tunnel = NoDevice => netUnits.netdev = NoNetdev

\* A device that was not to be deleted is the one its files declare: by its .netdev, by the
\* pre-shared key unless that was just replaced, and by the private key unless that was
\* just rotated.
Sound == tunnel # NoDevice /\ ~tunnel.stale
DeviceOfFiles ==
  Sound => LET u == IF netJob.pc = "devices" THEN netJob.before ELSE netUnits
           IN u.netdev # NoNetdev /\ tunnel.netdev = u.netdev
DevicePsk ==
  Sound /\ ~(netJob.pc \in {"files", "devices"} /\ netJob.rekeyed) =>
    tunnel.psk = (IF tunnel.netdev[2] THEN pskFile ELSE 0)
DeviceKey == Sound /\ netJob.pc # "delete_old" => tunnel.key = keyFile

\* The files a rollback would put back name keys too.
KeysKeptBack ==
  netJob.pc \in {"devices", "reload", "settle"} /\ netJob.before.netdev # NoNetdev => keyFile # 0

\* A key is rotated under a device that runs.
RotationInv ==
  netJob.pc = "delete_old" /\ netEnd = "applied" /\ ~netDue /\ ~tunnel.stale => tunnel # NoDevice

NuInv ==
  /\ NuTypes /\ NetJobInv /\ DeviceOfFiles /\ DevicePsk /\ DeviceKey /\ KeysKeptBack /\ RotationInv
  /\ TunnelSafe

LEMMA NoNetdevIs == NoNetdev = <<0, FALSE>> /\ NoNetdev \in Netdevs
  BY DEF NoNetdev, Netdev, NoTunnel, Netdevs

LEMMA MapIs ==
  ASSUME NEW m \in NetMaps
  PROVE  /\ m.wg.psk \in Nat /\ UnitsOf(m) \in NetUnit /\ UnitsOf(m).netdev = Netdev(m.wg)
         /\ Netdev(m.wg) = NoNetdev <=> m.wg = NoTunnel
         /\ Netdev(m.wg)[2] <=> m.wg.psk # 0
         /\ m.port \in Nat
  <1>1. m.port \in Nat
    BY DEF NetMaps, Bad
  <1>2. m.wg \in {NoTunnel} \cup [text : 1..2, psk : 0..2]
    BY DEF NetMaps
  <1>3. CASE m.wg = NoTunnel
    <2>1. m.wg.text = 0 /\ m.wg.psk = 0
      BY <1>3 DEF NoTunnel
    <2>2. Netdev(m.wg) = <<0, FALSE>>
      BY <2>1 DEF Netdev
    <2> QED BY <1>1, <1>3, <2>1, <2>2, NoNetdevIs DEF UnitsOf, NetUnit, Netdevs
  <1>4. CASE m.wg \in [text : 1..2, psk : 0..2]
    <2>1. m.wg.text \in 1..2 /\ m.wg.psk \in 0..2
      BY <1>4
    <2>2. Netdev(m.wg) \in Netdevs /\ Netdev(m.wg) # NoNetdev /\ (Netdev(m.wg)[2] <=> m.wg.psk # 0)
      <3> DEFINE b == m.wg.psk # 0
                 n == m.wg.text
      <3>1. Netdev(m.wg) = <<n, b>> /\ b \in BOOLEAN /\ n \in Nat /\ n # 0
        BY <2>1 DEF Netdev
      <3> HIDE DEF b, n
      <3>2. <<n, b>> \in Netdevs /\ <<n, b>>[2] = b /\ <<n, b>>[1] = n
        BY <3>1 DEF Netdevs
      <3>3. NoNetdev[1] = 0
        BY NoNetdevIs
      <3>4. Netdev(m.wg)[2] <=> m.wg.psk # 0
        BY <3>1, <3>2 DEF b
      <3> QED BY <3>1, <3>2, <3>3, <3>4
    <2>3. m.wg # NoTunnel
      BY <2>1 DEF NoTunnel
    <2> QED BY <1>1, <2>1, <2>2, <2>3 DEF UnitsOf, NetUnit
  <1> QED BY <1>2, <1>3, <1>4

LEMMA NoDeviceIs == NoDevice \in NetDevice /\ ~NoDevice.stale /\ NoDevice.netdev = NoNetdev
  BY NoNetdevIs DEF NoDevice, NetDevice, Netdevs

LEMMA BuiltIs ==
  ASSUME NEW u \in NetUnit, NEW p \in Nat, NEW k \in Nat
  PROVE  /\ Built(u, p, k) \in NetDevice /\ ~Built(u, p, k).stale
         /\ Built(u, p, k) = NoDevice <=> u.netdev = NoNetdev
         /\ u.netdev # NoNetdev => /\ Built(u, p, k).netdev = u.netdev /\ Built(u, p, k).key = k
                                   /\ Built(u, p, k).psk = (IF u.netdev[2] THEN p ELSE 0)
  <1>1. CASE u.netdev = NoNetdev
    BY <1>1, NoDeviceIs DEF Built
  <1>2. CASE u.netdev # NoNetdev
    <2>1. u.netdev \in Netdevs
      BY DEF NetUnit
    <2> DEFINE s == IF u.netdev[2] THEN p ELSE 0
    <2>2. s \in Nat
      OBVIOUS
    <2>3. Built(u, p, k) = [netdev |-> u.netdev, psk |-> s, key |-> k, stale |-> FALSE]
      BY <1>2 DEF Built
    <2> HIDE DEF s
    <2>4. /\ Built(u, p, k) \in NetDevice /\ ~Built(u, p, k).stale
          /\ Built(u, p, k).netdev = u.netdev /\ Built(u, p, k).key = k /\ Built(u, p, k).psk = s
      BY <2>1, <2>2, <2>3 DEF NetDevice
    <2>5. Built(u, p, k) # NoDevice
      BY <1>2, <2>4, NoDeviceIs
    <2> QED BY <1>2, <2>4, <2>5 DEF s
  <1> QED BY <1>1, <1>2

LEMMA StaleIs ==
  ASSUME NEW t \in NetDevice
  PROVE  /\ Stale(t) \in NetDevice /\ (Stale(t) = NoDevice <=> t = NoDevice)
         /\ t # NoDevice => Stale(t).stale
  BY NoDeviceIs DEF Stale, NetDevice

LEMMA NoNetJobIs ==
  /\ NoNetJob \in NetJobs /\ NoNetJob.pc = "idle" /\ ~NoNetJob.rekeyed /\ ~NoNetJob.rotation
  <1>1. UnitsOf(NoMap) \in NetUnit
    BY DEF UnitsOf, NoMap, NetUnit, Netdev, Netdevs
  <1> HIDE DEF NoMap
  <1> QED BY <1>1 DEF NoNetJob, NetJobs, NetPcs

LEMMA NetGoes ==
  ASSUME NuTypes, NEW at \in NetPcs, NetJobGoes(at)
  PROVE  /\ netJob' \in NetJobs /\ netJob'.pc = at /\ netJob'.attempted = netJob.attempted
         /\ netJob'.map = netJob.map /\ netJob'.before = netJob.before
         /\ netJob'.rekeyed = netJob.rekeyed /\ netJob'.rotation = netJob.rotation
  BY DEF NuTypes, NetJobGoes, NetJobs

\* The apply's lock is free: what is left of the invariant is about the device.
LEMMA NetIdle ==
  ASSUME netJob' = NoNetJob
  PROVE  NetJobInv' /\ KeysKeptBack' /\ RotationInv'
  BY NoNetJobIs DEF NetJobInv, KeysKeptBack, RotationInv

LEMMA NuStart == NuInit => NuInv
  <1> SUFFICES ASSUME NuInit PROVE NuInv
    OBVIOUS
  <1> DEFINE m == [port |-> 1, wg |-> NoTunnel]
             n == [port |-> 0, wg |-> NoTunnel]
  <1>1. m \in NetMaps /\ n \in NetMaps /\ n.wg = NoTunnel
    BY DEF NetMaps, Bad
  <1> HIDE DEF m, n
  <1>2. netUnits \in NetUnit /\ netUnits.netdev = NoNetdev /\ netWant \in NetMaps
    BY <1>1, MapIs DEF NuInit, m, n
  <1>3. NuTypes
    BY <1>2, NoNetJobIs, NoDeviceIs DEF NuInit, NuTypes
  <1>4. NetJobInv /\ KeysKeptBack /\ RotationInv
    BY NoNetJobIs DEF NuInit, NetJobInv, KeysKeptBack, RotationInv
  <1>5. DeviceOfFiles /\ DevicePsk /\ DeviceKey
    BY DEF NuInit, DeviceOfFiles, DevicePsk, DeviceKey, Sound
  <1>6. TunnelSafe
    BY <1>2 DEF NuInit, TunnelSafe, TunnelAsStored, KeysKept, NetQuiet
  <1> QED BY <1>3, <1>4, <1>5, <1>6 DEF NuInv

\* The settings are written, the lock is taken.
LEMMA NetWriteStep == ASSUME NuInv, NetWrite PROVE NuInv'
  BY DEF NetWrite, NuInv, NuTypes, NetJobInv, DeviceOfFiles, DevicePsk, DeviceKey, KeysKeptBack,
     RotationInv, Sound, TunnelSafe, TunnelAsStored, KeysKept, NetQuiet

LEMMA TakeStep == ASSUME NuInv, TakeApplyLock PROVE NuInv'
  <1>0. NuTypes
    BY DEF NuInv
  <1>1. /\ netWant' = netWant /\ netDue' = FALSE /\ netApplied' = netApplied /\ netUnits' = netUnits
        /\ pskFile' = pskFile /\ keyFile' = keyFile /\ tunnel' = tunnel /\ netEnd' = netEnd
        /\ nuUsed' = nuUsed /\ netJob = NoNetJob
    BY DEF TakeApplyLock
  <1>2. netJob' \in NetJobs /\ netJob'.pc = "read"
    BY <1>0, NoNetJobIs DEF TakeApplyLock, NetJobs, NetPcs, NuTypes
  <1>3. NuTypes' /\ NetJobInv'
    BY <1>0, <1>1, <1>2 DEF NuTypes, NetJobInv
  <1>4. DeviceOfFiles' /\ DevicePsk' /\ DeviceKey' /\ KeysKeptBack' /\ RotationInv'
    BY <1>1, <1>2, NoNetJobIs DEF NuInv, DeviceOfFiles, DevicePsk, DeviceKey, KeysKeptBack, RotationInv, Sound
  <1>5. TunnelSafe'
    BY <1>1, <1>2, NoNetJobIs DEF NuInv, TunnelSafe, TunnelAsStored, KeysKept, NetQuiet
  <1> QED BY <1>3, <1>4, <1>5 DEF NuInv

LEMMA RotateStep == ASSUME NuInv, RotateKey PROVE NuInv'
  <1>0. NuTypes
    BY DEF NuInv
  <1>1. /\ netWant' = netWant /\ netDue' = netDue /\ netApplied' = netApplied /\ netUnits' = netUnits
        /\ pskFile' = pskFile /\ tunnel' = tunnel /\ netEnd' = netEnd
        /\ netJob = NoNetJob /\ netWant.wg # NoTunnel
    BY DEF RotateKey
  <1>2. netJob' \in NetJobs /\ netJob'.pc = "delete_old"
    BY <1>0, NoNetJobIs DEF RotateKey, NetJobs, NetPcs
  <1>3. keyFile' \in Nat /\ keyFile' # 0 /\ nuUsed' \in [writes : Nat, faults : Nat, keys : Nat]
    <2>1. nuUsed.keys \in Nat /\ nuUsed.writes \in Nat /\ keyFile' = nuUsed.keys + 1
          /\ nuUsed' = [nuUsed EXCEPT !.writes = nuUsed.writes + 1, !.keys = nuUsed.keys + 1]
      BY <1>0 DEF RotateKey, NuTypes
    <2>2. keyFile' \in Nat /\ keyFile' # 0
      BY <2>1
    <2>3. nuUsed' \in [writes : Nat, faults : Nat, keys : Nat]
      <3> DEFINE w == nuUsed.writes + 1
                 k == nuUsed.keys + 1
      <3>1. w \in Nat /\ k \in Nat
        BY <2>1
      <3>2. nuUsed' = [nuUsed EXCEPT !.writes = w, !.keys = k]
        BY <2>1
      <3>3. nuUsed \in [writes : Nat, faults : Nat, keys : Nat]
        BY <1>0 DEF NuTypes
      <3> HIDE DEF w, k
      <3> QED BY <3>1, <3>2, <3>3
    <2> QED BY <2>2, <2>3
  <1>4. NuTypes' /\ NetJobInv'
    BY <1>0, <1>1, <1>2, <1>3 DEF NuTypes, NetJobInv
  <1>5. DeviceOfFiles' /\ DevicePsk' /\ DeviceKey' /\ KeysKeptBack'
    BY <1>1, <1>2, NoNetJobIs DEF NuInv, DeviceOfFiles, DevicePsk, DeviceKey, KeysKeptBack, Sound
  <1>6. RotationInv'
    <2> SUFFICES ASSUME netEnd = "applied", ~netDue, ~tunnel.stale PROVE tunnel # NoDevice
      BY <1>1 DEF RotationInv
    <2> DEFINE m == [port |-> 0, wg |-> netWant.wg]
    <2>1. m \in NetMaps /\ m.wg = netWant.wg
      BY <1>0 DEF NuTypes, NetMaps, Bad
    <2>2. tunnel = Built(UnitsOf(m), netWant.wg.psk, keyFile)
      BY <1>1 DEF NuInv, TunnelSafe, TunnelAsStored, NetQuiet, RunsOn
    <2> HIDE DEF m
    <2>3. UnitsOf(m) \in NetUnit /\ UnitsOf(m).netdev # NoNetdev /\ netWant.wg.psk \in Nat
      BY <1>1, <2>1, MapIs
    <2> QED BY <1>0, <2>2, <2>3, BuiltIs DEF NuTypes
  <1>7. TunnelSafe'
    BY <1>1, <1>2, <1>3, NoNetJobIs DEF NuInv, TunnelSafe, TunnelAsStored, KeysKept, NetQuiet
  <1> QED BY <1>4, <1>5, <1>6, <1>7 DEF NuInv

\* The old device goes, or is left with the old key and known to be.
LEMMA DeleteOldStep == ASSUME NuInv, DeleteOld \/ DeleteOldFails PROVE NuInv'
  <1>0. NuTypes
    BY DEF NuInv
  <1>1. /\ netWant' = netWant /\ netDue' = netDue /\ netApplied' = netApplied /\ netUnits' = netUnits
        /\ pskFile' = pskFile /\ keyFile' = keyFile /\ netEnd' = netEnd /\ netJob.pc = "delete_old"
    BY DEF DeleteOld, DeleteOldFails
  <1>2. nuUsed' \in [writes : Nat, faults : Nat, keys : Nat]
    BY <1>0 DEF DeleteOld, DeleteOldFails, NuTypes, NuFaulty
  <1>3. CASE DeleteOld
    <2>1. netJob' \in NetJobs /\ netJob'.pc = "read" /\ tunnel' = NoDevice
      BY <1>0, <1>3, NetGoes DEF DeleteOld, NetPcs
    <2>2. NuTypes' /\ NetJobInv'
      BY <1>0, <1>1, <1>2, <2>1, NoDeviceIs DEF NuTypes, NetJobInv
    <2>3. DeviceOfFiles' /\ DevicePsk' /\ DeviceKey' /\ KeysKeptBack' /\ RotationInv'
      BY <2>1 DEF DeviceOfFiles, DevicePsk, DeviceKey, KeysKeptBack, RotationInv, Sound
    <2>4. TunnelSafe'
      BY <1>1, <2>1, NoNetJobIs DEF NuInv, TunnelSafe, TunnelAsStored, KeysKept, NetQuiet
    <2> QED BY <2>2, <2>3, <2>4 DEF NuInv
  <1>4. CASE DeleteOldFails
    <2>1. netJob' = NoNetJob /\ tunnel' = Stale(tunnel)
      BY <1>4 DEF DeleteOldFails
    <2>2. /\ tunnel' \in NetDevice /\ (tunnel' = NoDevice <=> tunnel = NoDevice)
          /\ tunnel # NoDevice => tunnel'.stale
      BY <1>0, <2>1, StaleIs DEF NuTypes
    <2>3. NuTypes'
      BY <1>0, <1>1, <1>2, <2>1, <2>2, NoNetJobIs DEF NuTypes
    <2>4. DeviceOfFiles' /\ DevicePsk' /\ DeviceKey'
      BY <2>2 DEF DeviceOfFiles, DevicePsk, DeviceKey, Sound
    <2>5. TunnelSafe'
      BY <1>1, <2>2, NoDeviceIs DEF NuInv, RotationInv, TunnelAsStored, NetQuiet, TunnelSafe, KeysKept
    <2> QED BY <2>1, <2>3, <2>4, <2>5, NetIdle DEF NuInv
  <1> QED BY <1>3, <1>4

\* The end of an apply, whatever it was.
LEMMA EndIs ==
  ASSUME NuTypes, NEW how, EndApply(how), netJob.map \in NetMaps \/ how # "applied"
  PROVE  /\ netJob' = NoNetJob /\ netEnd' = how /\ netWant' \in NetMaps
         /\ netApplied' \in NetMaps \cup {NoMap}
         /\ how # "rolled_back" => netWant' = netWant
  <1> DEFINE restores == /\ how = "rolled_back" /\ ~netJob.rotation
                         /\ netApplied # NoMap /\ netWant = netJob.attempted
  <1>1. /\ netJob' = NoNetJob /\ netEnd' = how
        /\ netApplied' = (IF how = "applied" THEN netJob.map ELSE netApplied)
        /\ netWant' = (IF restores THEN netApplied ELSE netWant)
    BY DEF EndApply
  <1> QED BY <1>1 DEF NuTypes

\* An apply that ends without success leaves the device as its files say.
LEMMA EndsBadly ==
  ASSUME NuInv, NEW how, EndApply(how), how \in {"failed", "rolled_back"},
         netUnits' \in NetUnit, pskFile' = pskFile, keyFile' = keyFile, tunnel' \in NetDevice,
         netDue' = netDue, nuUsed' \in [writes : Nat, faults : Nat, keys : Nat],
         netUnits'.netdev # NoNetdev => keyFile # 0,
         Sound' => /\ netUnits'.netdev # NoNetdev /\ tunnel'.netdev = netUnits'.netdev
                   /\ tunnel'.psk = (IF tunnel'.netdev[2] THEN pskFile ELSE 0)
                   /\ tunnel'.key = keyFile
  PROVE  NuInv'
  BY EndIs, NoNetJobIs, NetIdle DEF NuInv, NuTypes, DeviceOfFiles, DevicePsk, DeviceKey, TunnelSafe,
     TunnelAsStored, KeysKept

LEMMA FaultIs ==
  ASSUME NuTypes, NuFaulty
  PROVE  nuUsed' \in [writes : Nat, faults : Nat, keys : Nat]
  BY DEF NuFaulty, NuTypes

LEMMA ReadStep == ASSUME NuInv, ReadAndValidate PROVE NuInv'
  <1>0. NuTypes /\ KeysKept
    BY DEF NuInv, TunnelSafe
  <1>1. /\ netDue' = netDue /\ netUnits' = netUnits /\ pskFile' = pskFile /\ keyFile' = keyFile
        /\ tunnel' = tunnel /\ nuUsed' = nuUsed /\ netJob.pc = "read"
    BY DEF ReadAndValidate
  <1>2. CASE EndApply("failed")
    BY <1>0, <1>1, <1>2, EndsBadly
       DEF NuInv, NuTypes, DeviceOfFiles, DevicePsk, DeviceKey, Sound, KeysKept
  <1>3. CASE /\ netJob' = [netJob EXCEPT !.pc = "psks", !.map = netWant]
             /\ UNCHANGED <<netWant, netApplied, netEnd>>
    <2>1. netJob' \in NetJobs /\ netJob'.pc = "psks" /\ netJob'.map = netWant
      BY <1>0, <1>3 DEF NuTypes, NetJobs, NetPcs
    <2>2. NuTypes' /\ NetJobInv'
      BY <1>0, <1>1, <1>3, <2>1 DEF NuTypes, NetJobInv
    <2>3. DeviceOfFiles' /\ DevicePsk' /\ DeviceKey' /\ KeysKeptBack' /\ RotationInv'
      BY <1>1, <1>3, <2>1
         DEF NuInv, DeviceOfFiles, DevicePsk, DeviceKey, KeysKeptBack, RotationInv, Sound
    <2>4. TunnelSafe'
      BY <1>0, <1>1, <2>1, NoNetJobIs DEF TunnelSafe, TunnelAsStored, KeysKept, NetQuiet
    <2> QED BY <2>2, <2>3, <2>4 DEF NuInv
  <1> QED BY <1>2, <1>3 DEF ReadAndValidate

LEMMA PsksStep == ASSUME NuInv, SyncPsks PROVE NuInv'
  <1>0. NuTypes /\ KeysKept /\ NetJobInv
    BY DEF NuInv, TunnelSafe
  <1>1. /\ netDue' = netDue /\ netUnits' = netUnits /\ keyFile' = keyFile /\ netWant' = netWant
        /\ netApplied' = netApplied /\ netEnd' = netEnd
        /\ tunnel' = tunnel /\ nuUsed' = nuUsed /\ netJob.pc = "psks" /\ pskFile' = netJob.map.wg.psk
    BY DEF SyncPsks
  <1>2. netJob.map \in NetMaps /\ pskFile' \in Nat
    BY <1>0, <1>1, MapIs DEF NetJobInv
  <1> DEFINE b == pskFile # netJob.map.wg.psk
  <1>3. netJob' = [netJob EXCEPT !.pc = "files", !.rekeyed = b] /\ b \in BOOLEAN
    BY DEF SyncPsks
  <1> HIDE DEF b
  <1>4. /\ netJob' \in NetJobs /\ netJob'.pc = "files" /\ netJob'.map = netJob.map
        /\ netJob'.rekeyed = b
    BY <1>0, <1>3 DEF NuTypes, NetJobs, NetPcs
  <1>5. NuTypes' /\ NetJobInv'
    BY <1>0, <1>1, <1>2, <1>4 DEF NuTypes, NetJobInv
  <1>6. DeviceOfFiles' /\ DeviceKey' /\ KeysKeptBack' /\ RotationInv'
    BY <1>1, <1>4 DEF NuInv, DeviceOfFiles, DeviceKey, KeysKeptBack, RotationInv, Sound
  <1>7. DevicePsk'
    BY <1>1, <1>4 DEF NuInv, DevicePsk, Sound, b
  <1>8. TunnelSafe'
    BY <1>0, <1>1, <1>4, NoNetJobIs DEF TunnelSafe, TunnelAsStored, KeysKept, NetQuiet
  <1> QED BY <1>5, <1>6, <1>7, <1>8 DEF NuInv

LEMMA FilesStep == ASSUME NuInv, ReplaceFiles PROVE NuInv'
  <1>0. NuTypes /\ KeysKept /\ NetJobInv
    BY DEF NuInv, TunnelSafe
  <1>1. /\ netDue' = netDue /\ netWant' = netWant /\ pskFile' = pskFile
        /\ netApplied' = netApplied /\ netEnd' = netEnd
        /\ tunnel' = tunnel /\ netJob.pc = "files" /\ netUnits' = UnitsOf(netJob.map)
        /\ keyFile' = EnsureKey(netJob.map.wg)
    BY DEF ReplaceFiles
  <1>2. /\ netJob.map \in NetMaps /\ netUnits' \in NetUnit
        /\ netUnits'.netdev # NoNetdev => netJob.map.wg # NoTunnel
    BY <1>0, <1>1, MapIs DEF NetJobInv
  <1>3. /\ netJob' \in NetJobs /\ netJob'.pc = "devices" /\ netJob'.map = netJob.map
        /\ netJob'.rekeyed = netJob.rekeyed /\ netJob'.before = netUnits
    BY <1>0 DEF ReplaceFiles, NuTypes, NetJobs, NetPcs
  <1>4. /\ keyFile' \in Nat /\ (keyFile # 0 => keyFile' = keyFile)
        /\ netJob.map.wg # NoTunnel => keyFile' # 0
    BY <1>0, <1>1 DEF NuTypes, EnsureKey
  <1>5. nuUsed' \in [writes : Nat, faults : Nat, keys : Nat]
    <2> DEFINE k == IF keyFile' # keyFile THEN nuUsed.keys + 1 ELSE nuUsed.keys
    <2>1. nuUsed' = [nuUsed EXCEPT !.keys = k] /\ k \in Nat
      BY <1>0 DEF ReplaceFiles, NuTypes
    <2> HIDE DEF k
    <2> QED BY <1>0, <2>1 DEF NuTypes
  <1>6. NuTypes' /\ NetJobInv'
    BY <1>0, <1>1, <1>2, <1>3, <1>4, <1>5 DEF NuTypes, NetJobInv
  <1>7. DeviceOfFiles' /\ DevicePsk' /\ RotationInv'
    BY <1>1, <1>3 DEF NuInv, DeviceOfFiles, DevicePsk, RotationInv, Sound
  <1>8. DeviceKey'
    BY <1>0, <1>1, <1>3, <1>4 DEF NuInv, DeviceKey, DeviceOfFiles, Sound, KeysKept
  <1>9. KeysKeptBack'
    BY <1>0, <1>3, <1>4 DEF KeysKeptBack, KeysKept
  <1>10. TunnelSafe'
    BY <1>2, <1>3, <1>4, NoNetJobIs DEF TunnelSafe, TunnelAsStored, KeysKept, NetQuiet
  <1> QED BY <1>6, <1>7, <1>8, <1>9, <1>10 DEF NuInv

LEMMA FilesFailStep == ASSUME NuInv, ReplaceFilesFails PROVE NuInv'
  <1>0. NuTypes /\ KeysKept /\ NetJobInv
    BY DEF NuInv, TunnelSafe
  <1>1. /\ netDue' = netDue /\ pskFile' = pskFile /\ keyFile' = keyFile /\ EndApply("failed")
        /\ tunnel' = (IF netJob.rekeyed THEN Stale(tunnel) ELSE tunnel)
        /\ netJob.pc = "files" /\ netUnits' = [netUnits EXCEPT !.port = netJob.map.port]
    BY DEF ReplaceFilesFails
  <1>2. netUnits' \in NetUnit /\ netUnits'.netdev = netUnits.netdev
    BY <1>0, <1>1, MapIs DEF NetJobInv, NuTypes, NetUnit
  <1>3. nuUsed' \in [writes : Nat, faults : Nat, keys : Nat]
    BY <1>0, FaultIs DEF ReplaceFilesFails
  <1>4. /\ tunnel' \in NetDevice
        /\ Sound' => tunnel' = tunnel /\ Sound /\ ~netJob.rekeyed
    BY <1>0, <1>1, StaleIs DEF NuTypes, Sound
  <1>5. Sound' => /\ netUnits'.netdev # NoNetdev /\ tunnel'.netdev = netUnits'.netdev
                  /\ tunnel'.psk = (IF tunnel'.netdev[2] THEN pskFile ELSE 0)
                  /\ tunnel'.key = keyFile
    BY <1>1, <1>2, <1>4 DEF NuInv, DeviceOfFiles, DevicePsk, DeviceKey
  <1> QED BY <1>0, <1>1, <1>2, <1>3, <1>4, <1>5, EndsBadly DEF KeysKept

\* A device is kept when neither its .netdev nor its pre-shared key changed.
LEMMA DevicesKeepStep == ASSUME NuInv, DeleteDevices \/ DeleteFails PROVE NuInv'
  <1>0. NuTypes /\ KeysKept /\ NetJobInv
    BY DEF NuInv, TunnelSafe
  <1>1. /\ netDue' = netDue /\ netWant' = netWant /\ pskFile' = pskFile /\ keyFile' = keyFile
        /\ netApplied' = netApplied /\ netEnd' = netEnd /\ netUnits' = netUnits
        /\ netJob.pc = "devices" /\ NetJobGoes("reload")
    BY DEF DeleteDevices, DeleteFails
  <1>2. /\ netJob' \in NetJobs /\ netJob'.pc = "reload" /\ netJob'.map = netJob.map
        /\ netJob'.before = netJob.before
    BY <1>0, <1>1, NetGoes DEF NetPcs
  <1>3. nuUsed' \in [writes : Nat, faults : Nat, keys : Nat]
    BY <1>0, FaultIs DEF DeleteDevices, DeleteFails, NuTypes
  <1>4. /\ tunnel' \in NetDevice
        /\ Sound' => tunnel' = tunnel /\ Sound /\ ~ToDelete
    BY <1>0, NoDeviceIs, StaleIs DEF DeleteDevices, NuTypes, Sound, DeleteFails
  <1>5. NuTypes' /\ NetJobInv'
    BY <1>0, <1>1, <1>2, <1>3, <1>4 DEF NuTypes, NetJobInv
  <1>6. Sound' => netJob.before.netdev = netUnits.netdev /\ ~netJob.rekeyed
    BY <1>1, <1>4 DEF NuInv, DeviceOfFiles, ToDelete
  <1>7. DeviceOfFiles' /\ DevicePsk' /\ DeviceKey'
    BY <1>1, <1>2, <1>4, <1>6 DEF NuInv, DeviceOfFiles, DevicePsk, DeviceKey
  <1>8. KeysKeptBack' /\ RotationInv'
    BY <1>1, <1>2 DEF NuInv, KeysKeptBack, RotationInv
  <1>9. TunnelSafe'
    BY <1>0, <1>1, <1>2, NoNetJobIs DEF TunnelSafe, TunnelAsStored, KeysKept, NetQuiet
  <1> QED BY <1>5, <1>7, <1>8, <1>9 DEF NuInv

\* networkd builds what is missing from the files as they are.
LEMMA ReloadBuilds ==
  ASSUME NuInv, netJob.pc \in {"reload", "reload_back"}, netUnits' = netUnits, pskFile' = pskFile,
         keyFile' = keyFile,
         tunnel' = (IF tunnel = NoDevice THEN Built(netUnits, pskFile, keyFile) ELSE tunnel)
  PROVE  /\ tunnel' \in NetDevice
         /\ tunnel' = NoDevice => netUnits.netdev = NoNetdev
         /\ Sound' => /\ netUnits.netdev # NoNetdev /\ tunnel'.netdev = netUnits.netdev
                      /\ tunnel'.psk = (IF tunnel'.netdev[2] THEN pskFile ELSE 0)
                      /\ tunnel'.key = keyFile
  <1>0. NuTypes
    BY DEF NuInv
  <1>1. CASE tunnel = NoDevice
    <2> DEFINE b == Built(netUnits, pskFile, keyFile)
    <2>1. /\ b \in NetDevice /\ (b = NoDevice <=> netUnits.netdev = NoNetdev)
          /\ netUnits.netdev # NoNetdev => /\ b.netdev = netUnits.netdev /\ b.key = keyFile
                                           /\ b.psk = (IF netUnits.netdev[2] THEN pskFile ELSE 0)
      BY <1>0, BuiltIs DEF NuTypes
    <2>2. tunnel' = b
      BY <1>1
    <2> HIDE DEF b
    <2> QED BY <2>1, <2>2 DEF Sound
  <1>2. CASE tunnel # NoDevice
    BY <1>0, <1>2 DEF NuInv, NuTypes, DeviceOfFiles, DevicePsk, DeviceKey, Sound
  <1> QED BY <1>1, <1>2

LEMMA ReloadStep == ASSUME NuInv, Reload PROVE NuInv'
  <1>0. NuTypes /\ KeysKept /\ NetJobInv
    BY DEF NuInv, TunnelSafe
  <1>1. /\ netDue' = netDue /\ netWant' = netWant /\ pskFile' = pskFile /\ keyFile' = keyFile
        /\ netApplied' = netApplied /\ netEnd' = netEnd /\ netUnits' = netUnits /\ nuUsed' = nuUsed
        /\ netJob.pc = "reload" /\ NetJobGoes("settle")
        /\ tunnel' = (IF tunnel = NoDevice THEN Built(netUnits, pskFile, keyFile) ELSE tunnel)
    BY DEF Reload
  <1>2. /\ netJob' \in NetJobs /\ netJob'.pc = "settle" /\ netJob'.map = netJob.map
        /\ netJob'.before = netJob.before
    BY <1>0, <1>1, NetGoes DEF NetPcs
  <1>3. /\ tunnel' \in NetDevice
        /\ tunnel' = NoDevice => netUnits.netdev = NoNetdev
        /\ Sound' => /\ netUnits.netdev # NoNetdev /\ tunnel'.netdev = netUnits.netdev
                     /\ tunnel'.psk = (IF tunnel'.netdev[2] THEN pskFile ELSE 0)
                     /\ tunnel'.key = keyFile
    BY <1>1, ReloadBuilds
  <1>4. NuTypes' /\ NetJobInv'
    BY <1>0, <1>1, <1>2, <1>3 DEF NuTypes, NetJobInv
  <1>5. DeviceOfFiles' /\ DevicePsk' /\ DeviceKey'
    BY <1>1, <1>2, <1>3 DEF DeviceOfFiles, DevicePsk, DeviceKey
  <1>6. KeysKeptBack' /\ RotationInv'
    BY <1>1, <1>2 DEF NuInv, KeysKeptBack, RotationInv
  <1>7. TunnelSafe'
    BY <1>0, <1>1, <1>2, NoNetJobIs DEF TunnelSafe, TunnelAsStored, KeysKept, NetQuiet
  <1> QED BY <1>4, <1>5, <1>6, <1>7 DEF NuInv

LEMMA ReloadEndStep == ASSUME NuInv, ReloadFails \/ ReloadBack PROVE NuInv'
  BY FaultIs, ReloadBuilds, EndsBadly DEF NuInv, TunnelSafe, ReloadFails, ReloadBack, NuTypes,
     DeviceOfFiles, DevicePsk, DeviceKey, Sound, KeysKept

LEMMA SettledStep == ASSUME NuInv, Settled PROVE NuInv'
  <1>0. NuTypes /\ KeysKept /\ NetJobInv
    BY DEF NuInv, TunnelSafe
  <1>1. /\ netDue' = netDue /\ netWant' = netWant /\ pskFile' = pskFile /\ keyFile' = keyFile
        /\ netApplied' = netApplied /\ netEnd' = netEnd /\ netUnits' = netUnits /\ nuUsed' = nuUsed
        /\ netJob.pc = "settle" /\ NetJobGoes("retain") /\ tunnel' = tunnel
    BY DEF Settled
  <1>2. netJob' \in NetJobs /\ netJob'.pc = "retain" /\ netJob'.map = netJob.map
    BY <1>0, <1>1, NetGoes DEF NetPcs
  <1>3. NuTypes' /\ NetJobInv'
    BY <1>0, <1>1, <1>2 DEF NuTypes, NetJobInv
  <1>4. DeviceOfFiles' /\ DevicePsk' /\ DeviceKey' /\ KeysKeptBack' /\ RotationInv'
    BY <1>1, <1>2 DEF NuInv, DeviceOfFiles, DevicePsk, DeviceKey, Sound, KeysKeptBack, RotationInv
  <1>5. TunnelSafe'
    BY <1>0, <1>1, <1>2, NoNetJobIs DEF TunnelSafe, TunnelAsStored, KeysKept, NetQuiet
  <1> QED BY <1>3, <1>4, <1>5 DEF NuInv

LEMMA SettleFailStep == ASSUME NuInv, SettleFails PROVE NuInv'
  <1>0. NuTypes /\ NetJobInv
    BY DEF NuInv
  <1>1. /\ netDue' = netDue /\ netWant' = netWant /\ pskFile' = pskFile /\ keyFile' = keyFile
        /\ netApplied' = netApplied /\ netEnd' = netEnd /\ netUnits' = netJob.before
        /\ netJob.pc = "settle" /\ NetJobGoes("reload_back")
        /\ tunnel' = (IF netUnits.netdev # netJob.before.netdev THEN NoDevice ELSE tunnel)
    BY DEF SettleFails
  <1>2. netJob' \in NetJobs /\ netJob'.pc = "reload_back"
    BY <1>0, <1>1, NetGoes DEF NetPcs
  <1>3. nuUsed' \in [writes : Nat, faults : Nat, keys : Nat]
    BY <1>0, FaultIs DEF SettleFails
  <1>4. netUnits' \in NetUnit /\ tunnel' \in NetDevice
    BY <1>0, <1>1, NoDeviceIs DEF NuTypes, NetJobs
  <1>5. NuTypes' /\ NetJobInv'
    BY <1>0, <1>1, <1>2, <1>3, <1>4 DEF NuTypes, NetJobInv
  <1>6. DeviceOfFiles' /\ DevicePsk' /\ DeviceKey' /\ KeysKeptBack' /\ RotationInv'
    BY <1>1, <1>2 DEF NuInv, DeviceOfFiles, DevicePsk, DeviceKey, Sound, KeysKeptBack, RotationInv
  <1>7. TunnelSafe'
    BY <1>1, <1>2, NoNetJobIs DEF NuInv, KeysKeptBack, TunnelSafe, TunnelAsStored, KeysKept, NetQuiet
  <1> QED BY <1>5, <1>6, <1>7 DEF NuInv

\* The apply has succeeded: the device is the one of the map it applied, which is the
\* stored one unless a write waits.
LEMMA RetainStep == ASSUME NuInv, RetainKeys PROVE NuInv'
  <1>0. NuTypes /\ KeysKept /\ NetJobInv
    BY DEF NuInv, TunnelSafe
  <1>1. /\ netDue' = netDue /\ pskFile' = pskFile /\ keyFile' = KeysRetained(netJob.map)
        /\ netUnits' = netUnits /\ nuUsed' = nuUsed
        /\ netJob.pc = "retain" /\ EndApply("applied") /\ tunnel' = tunnel
    BY DEF RetainKeys
  <1>2. /\ netJob.map \in NetMaps /\ (~netDue => netJob.map = netWant) /\ pskFile = netJob.map.wg.psk
        /\ netUnits = UnitsOf(netJob.map) /\ (tunnel = NoDevice => netUnits.netdev = NoNetdev)
    BY <1>0, <1>1 DEF NetJobInv
  <1>3. /\ netJob' = NoNetJob /\ netEnd' = "applied" /\ netWant' = netWant /\ netWant' \in NetMaps
        /\ netApplied' \in NetMaps \cup {NoMap}
    BY <1>0, <1>1, <1>2, EndIs
  <1>4. /\ keyFile' \in Nat /\ netUnits \in NetUnit
        /\ netUnits.netdev # NoNetdev <=> netJob.map.wg # NoTunnel
        /\ netUnits.netdev # NoNetdev => keyFile' = keyFile /\ keyFile # 0
        /\ netUnits.netdev = Netdev(netJob.map.wg)
    BY <1>0, <1>1, <1>2, MapIs DEF KeysRetained, NuTypes, KeysKept
  <1>5. NuTypes'
    BY <1>0, <1>1, <1>3, <1>4, NoNetJobIs DEF NuTypes
  <1>6. DeviceOfFiles' /\ DevicePsk' /\ DeviceKey'
    BY <1>1, <1>3, <1>4, NoNetJobIs DEF NuInv, DeviceOfFiles, DevicePsk, DeviceKey, Sound
  <1>7. KeysKept'
    BY <1>1, <1>4 DEF KeysKept
  <1>8. TunnelAsStored'
    <2> SUFFICES ASSUME ~netDue, ~tunnel.stale PROVE RunsOn(netWant.wg)'
      BY <1>1, <1>3 DEF TunnelAsStored, NetQuiet
    <2> DEFINE m == [port |-> 0, wg |-> netWant.wg]
               b == Built(UnitsOf(m), netWant.wg.psk, keyFile')
    <2>1. m \in NetMaps /\ m.wg = netWant.wg
      BY <1>3 DEF NetMaps, Bad
    <2> HIDE DEF m
    <2>2. UnitsOf(m) \in NetUnit /\ UnitsOf(m).netdev = Netdev(netWant.wg) /\ netWant.wg.psk \in Nat
      BY <2>1, MapIs
    <2>3. UnitsOf(m).netdev = netUnits.netdev
      BY <1>2, <1>4, <2>2
    <2>4. /\ b \in NetDevice /\ ~b.stale
          /\ b = NoDevice <=> netUnits.netdev = NoNetdev
          /\ netUnits.netdev # NoNetdev => /\ b.netdev = netUnits.netdev /\ b.key = keyFile'
                                           /\ b.psk = (IF netUnits.netdev[2] THEN netWant.wg.psk ELSE 0)
      BY <1>4, <2>2, <2>3, BuiltIs
    <2>5. RunsOn(netWant.wg)' <=> tunnel = b
      BY <1>1, <1>3 DEF RunsOn, m
    <2> HIDE DEF b
    <2>6. CASE tunnel = NoDevice
      BY <1>2, <2>4, <2>5, <2>6
    <2>7. CASE tunnel # NoDevice
      BY <1>1, <2>7, <1>0, <1>2, <1>4, <2>4, <2>5 DEF NuInv, DeviceOfFiles, DevicePsk, DeviceKey, Sound,
         NuTypes, NetDevice
    <2> QED BY <2>6, <2>7
  <1> QED BY <1>3, <1>5, <1>6, <1>7, <1>8, NetIdle DEF NuInv, TunnelSafe

LEMMA NetStartsStep == ASSUME NuInv, NetRestart \/ NetBoot PROVE NuInv'
  <1>0. NuTypes /\ KeysKept
    BY DEF NuInv, TunnelSafe
  <1>1. /\ netJob' = NoNetJob /\ netApplied' = NoMap /\ netDue' = TRUE /\ netWant' = netWant
        /\ netUnits' = netUnits /\ keyFile' = keyFile /\ pskFile' \in Nat
    BY <1>0 DEF NetRestart, NetBoot, NuTypes
  <1>2. nuUsed' \in [writes : Nat, faults : Nat, keys : Nat]
    BY <1>0, FaultIs DEF NetRestart, NetBoot
  <1>3. /\ tunnel' \in NetDevice
        /\ Sound' => /\ netUnits.netdev # NoNetdev /\ tunnel'.netdev = netUnits.netdev
                     /\ tunnel'.psk = (IF tunnel'.netdev[2] THEN pskFile' ELSE 0)
                     /\ tunnel'.key = keyFile
    <2>1. CASE NetRestart
      BY <1>0, <2>1, StaleIs DEF NetRestart, NuTypes, Sound, NuInv, DeviceOfFiles, DevicePsk, DeviceKey
    <2>2. CASE NetBoot
      <3> DEFINE b == Built(netUnits, 0, keyFile)
      <3>1. /\ b \in NetDevice /\ (b = NoDevice <=> netUnits.netdev = NoNetdev)
            /\ netUnits.netdev # NoNetdev => /\ b.netdev = netUnits.netdev /\ b.key = keyFile
                                             /\ b.psk = (IF netUnits.netdev[2] THEN 0 ELSE 0)
        BY <1>0, BuiltIs DEF NuTypes
      <3>2. tunnel' = b /\ pskFile' = 0
        BY <2>2 DEF NetBoot
      <3> HIDE DEF b
      <3> QED BY <3>1, <3>2 DEF Sound
    <2> QED BY <2>1, <2>2
  <1>4. NuTypes'
    BY <1>0, <1>1, <1>2, <1>3, NoNetJobIs DEF NuTypes
  <1>5. DeviceOfFiles' /\ DevicePsk' /\ DeviceKey'
    BY <1>1, <1>3, NoNetJobIs DEF DeviceOfFiles, DevicePsk, DeviceKey
  <1>6. TunnelSafe'
    BY <1>0, <1>1 DEF TunnelSafe, TunnelAsStored, KeysKept, NetQuiet
  <1> QED BY <1>1, <1>4, <1>5, <1>6, NetIdle DEF NuInv

LEMMA NuKeeps == ASSUME NuInv, [NuNext]_nuVars PROVE NuInv'
  <1>1. CASE NuNext
    BY <1>1, NetWriteStep, TakeStep, RotateStep, DeleteOldStep, ReadStep, PsksStep, FilesStep,
       FilesFailStep, DevicesKeepStep, ReloadStep, ReloadEndStep, SettledStep, SettleFailStep,
       RetainStep, NetStartsStep DEF NuNext
  <1>2. CASE UNCHANGED nuVars
    <2>1. NuTypes' /\ NetJobInv' /\ DeviceOfFiles' /\ DevicePsk' /\ DeviceKey'
      BY <1>2 DEF nuVars, NuInv, NuTypes, NetJobInv, DeviceOfFiles, DevicePsk, DeviceKey, Sound
    <2>2. KeysKeptBack' /\ RotationInv' /\ TunnelSafe'
      BY <1>2 DEF nuVars, NuInv, KeysKeptBack, RotationInv, TunnelSafe, TunnelAsStored, KeysKept,
                  NetQuiet, RunsOn
    <2> QED BY <2>1, <2>2 DEF NuInv
  <1> QED BY <1>1, <1>2

(***************************************************************************)
(* The network routes.                                                     *)
(***************************************************************************)
PeerRecs == [key : NrPeers, psk : NrPeers \cup {NoKey, Redacted}]
IfaceKinds == {"absent", "physical", "vlan", "bridge", "wireguard"}
IfaceEntries == [kind : IfaceKinds, addr : {"none", "dhcp", "net1"}, parent : {"", "eth0"},
                 ports : SUBSET Ifaces, peers : Seq(PeerRecs), parses : BOOLEAN]
IfaceMaps == [Ifaces -> IfaceEntries]
NrHandlers == [pc : {"free", "idle", "judge", "write"}, op : {"", "map", "iface", "remove", "peers"}, name : Ifaces \cup {""},
               map : IfaceMaps \cup {NoNetwork}, carried : SUBSET Ifaces, alone : BOOLEAN]

\* No peer of the list has the secret of another, and none has the sentinel.
OwnKeys(peers) == \A k \in DOMAIN peers : peers[k].psk \in {NoKey, peers[k].key}
OwnMap(map) == \A i \in Ifaces : OwnSecrets(map[i].peers)
KeptMap(map) == \A i \in Ifaces : OwnKeys(map[i].peers)

\* Every map that is stored, applied or running has the secrets it should; a map on its way
\* may have the sentinel, until it is judged.
NrInv ==
  /\ nrStored \in IfaceMaps /\ KeptMap(nrStored)
  /\ nrRunning \in IfaceMaps /\ KeptMap(nrRunning) /\ ValidateNetwork(nrRunning)
  /\ nrApply # NoNetwork => nrApply \in IfaceMaps /\ KeptMap(nrApply)
  /\ nrReqs \in [NrRequests -> NrHandlers]
  /\ \A r \in NrRequests : nrReqs[r].pc # "free" =>
       /\ nrReqs[r].map \in IfaceMaps /\ OwnMap(nrReqs[r].map)
       /\ nrReqs[r].pc = "write" \/ nrReqs[r].op = "peers" => KeptMap(nrReqs[r].map)
       /\ nrReqs[r].op = "iface" => nrReqs[r].name \in Ifaces

\* The entries that declare nothing of a tunnel.
LEMMA PlainEntryIs ==
  /\ Plain \in IfaceEntries /\ Plain.peers = << >>
  /\ Absent \in IfaceEntries /\ Absent.peers = << >>
  <1>1. << >> \in Seq(PeerRecs)
    OBVIOUS
  <1>2. Plain \in IfaceEntries /\ Plain.peers = << >>
    BY <1>1 DEF Plain, IfaceEntries, IfaceKinds
  <1> QED BY <1>2 DEF Absent, IfaceEntries, IfaceKinds

LEMMA NoPeersOwn == OwnKeys(<< >>) /\ OwnSecrets(<< >>)
  BY DEF OwnKeys, OwnSecrets

\* A restored list is the list with some of its sentinels replaced by the secret its own
\* peer has.
LEMMA RestoreKeeps ==
  ASSUME NEW peers \in Seq(PeerRecs), NEW stored \in Seq(PeerRecs),
         OwnSecrets(peers), OwnKeys(stored)
  PROVE  /\ RestorePresharedKeys(peers, stored) \in Seq(PeerRecs)
         /\ OwnSecrets(RestorePresharedKeys(peers, stored))
  <1> DEFINE rest == RestorePresharedKeys(peers, stored)
             kept(k) == {n \in DOMAIN stored : stored[n].key = peers[k].key /\ stored[n].psk # NoKey}
             least(k) == CHOOSE n \in kept(k) : \A j \in kept(k) : n <= j
  <1>1. /\ DOMAIN rest = DOMAIN peers
        /\ \A k \in DOMAIN peers :
             rest[k] = IF peers[k].psk = Redacted /\ kept(k) # {}
                       THEN [peers[k] EXCEPT !.psk = stored[least(k)].psk] ELSE peers[k]
    BY DEF RestorePresharedKeys
  <1>2. ASSUME NEW k \in DOMAIN peers
        PROVE  rest[k] \in PeerRecs /\ rest[k].psk \in {NoKey, Redacted, rest[k].key}
    <2>1. peers[k] \in PeerRecs /\ peers[k].psk \in {NoKey, Redacted, peers[k].key}
      BY DEF OwnSecrets
    <2>2. CASE peers[k].psk = Redacted /\ kept(k) # {}
      <3>1. kept(k) \in SUBSET Nat
        OBVIOUS
      <3>2. least(k) \in kept(k)
        BY <2>2, <3>1, LeastOf
      <3> DEFINE m == least(k)
      <3>3. m \in DOMAIN stored /\ stored[m].key = peers[k].key
        BY <3>2
      <3>4. rest[k] = [peers[k] EXCEPT !.psk = stored[m].psk]
        BY <1>1, <2>2
      <3> HIDE DEF m, least, kept, rest
      <3>5. stored[m] \in PeerRecs /\ stored[m].psk \in {NoKey, stored[m].key}
        BY <3>3 DEF OwnKeys
      <3> QED BY <2>1, <3>3, <3>4, <3>5 DEF PeerRecs
    <2>3. CASE ~(peers[k].psk = Redacted /\ kept(k) # {})
      BY <1>1, <2>3, <2>1
    <2> QED BY <2>2, <2>3
  <1>3. rest \in Seq(PeerRecs)
    <2>1. rest = [k \in 1..Len(peers) |-> rest[k]]
      BY DEF RestorePresharedKeys
    <2> HIDE DEF rest
    <2> QED BY <1>1, <1>2, <2>1
  <1> QED BY <1>1, <1>2, <1>3 DEF OwnSecrets

\* A map whose entries are its own and that the rules accept has no sentinel left.
LEMMA JudgedIsKept ==
  ASSUME NEW map \in IfaceMaps, OwnMap(map), RelationalOK(map)
  PROVE  KeptMap(map)
  BY PlainEntryIs, NoPeersOwn DEF KeptMap, RelationalOK, Declared, PeersValid, OwnMap, OwnSecrets, OwnKeys

LEMMA KeptIsOwn == ASSUME NEW map, KeptMap(map) PROVE OwnMap(map)
  BY DEF KeptMap, OwnMap, OwnKeys, OwnSecrets

\* Restoring a map, and taking over the parents of its VLANs.
LEMMA RestoredIs ==
  ASSUME NrInv, NEW map \in IfaceMaps, OwnMap(map), NEW names
  PROVE  RestoredMap(map, names) \in IfaceMaps /\ OwnMap(RestoredMap(map, names))
  <1> DEFINE m == RestoredMap(map, names)
  <1>1. ASSUME NEW i \in Ifaces PROVE m[i] \in IfaceEntries /\ OwnSecrets(m[i].peers)
    <2> DEFINE ps == RestorePresharedKeys(map[i].peers, nrStored[i].peers)
    <2>1. map[i] \in IfaceEntries /\ nrStored[i] \in IfaceEntries
      BY DEF NrInv, IfaceMaps
    <2>2. map[i].peers \in Seq(PeerRecs) /\ nrStored[i].peers \in Seq(PeerRecs)
      BY <2>1 DEF IfaceEntries
    <2>3. OwnSecrets(map[i].peers) /\ OwnKeys(nrStored[i].peers)
      BY DEF OwnMap, NrInv, KeptMap
    <2>4. ps \in Seq(PeerRecs) /\ OwnSecrets(ps)
      BY <2>2, <2>3, RestoreKeeps
    <2>5. m[i] = [map[i] EXCEPT !.peers = ps] \/ m[i] = map[i]
      BY DEF RestoredMap
    <2> HIDE DEF ps, m
    <2> QED BY <2>1, <2>3, <2>4, <2>5 DEF IfaceEntries
  <1>2. m = [i \in Ifaces |-> m[i]]
    BY DEF RestoredMap
  <1>3. m \in IfaceMaps /\ OwnMap(m)
    <2> HIDE DEF m
    <2> QED BY <1>1, <1>2 DEF IfaceMaps, OwnMap
  <1> QED BY <1>3

LEMMA AdoptedIs ==
  ASSUME NEW map \in IfaceMaps, OwnMap(map), NEW m \in AdoptVlanParents(map)
  PROVE  m \in IfaceMaps /\ OwnMap(m)
  <1>1. CASE m = map
    BY <1>1
  <1>2. CASE m = [i \in Ifaces |-> IF i \in Orphans(map) THEN [Plain EXCEPT !.addr = "dhcp"] ELSE map[i]]
    <2> DEFINE e == [Plain EXCEPT !.addr = "dhcp"]
    <2>1. e \in IfaceEntries /\ e.peers = << >>
      BY PlainEntryIs DEF IfaceEntries, IfaceKinds
    <2>2. m = [i \in Ifaces |-> IF i \in Orphans(map) THEN e ELSE map[i]]
      BY <1>2
    <2> HIDE DEF e
    <2> QED BY <2>1, <2>2, NoPeersOwn DEF IfaceMaps, OwnMap
  <1> QED BY <1>1, <1>2 DEF AdoptVlanParents

\* What a body may carry.
LEMMA BodyIs ==
  ASSUME NEW i \in Ifaces, NEW e \in Bodies(i) \cup {Absent}
  PROVE  e \in IfaceEntries /\ OwnSecrets(e.peers)
  <1>1. CASE e = Absent
    BY <1>1, PlainEntryIs, NoPeersOwn
  <1>2. CASE i = "eth0" /\ e \in Bodies(i)
    <2>1. \/ \E a \in {"none", "dhcp", "net1"} : e = [Plain EXCEPT !.addr = a]
          \/ e = [Plain EXCEPT !.addr = "net1", !.parses = FALSE]
      BY <1>2 DEF Bodies
    <2>2. e.peers = << >> /\ e \in IfaceEntries
      BY <2>1, PlainEntryIs DEF IfaceEntries
    <2> QED BY <2>2, NoPeersOwn
  <1>3. CASE i = "eth0.1" /\ e \in Bodies(i)
    <2>1. PICK a \in {"dhcp", "net1"} : e = [Plain EXCEPT !.kind = "vlan", !.parent = "eth0", !.addr = a]
      BY <1>3 DEF Bodies
    <2>2. e.peers = << >> /\ e \in IfaceEntries
      BY <2>1, PlainEntryIs DEF IfaceEntries, IfaceKinds
    <2> QED BY <2>2, NoPeersOwn
  <1>4. CASE i = "br0" /\ e \in Bodies(i)
    <2>1. e = [Plain EXCEPT !.kind = "bridge", !.ports = {"eth0"}]
      BY <1>4 DEF Bodies
    <2>2. {"eth0"} \in SUBSET Ifaces
      BY DEF Ifaces
    <2>3. e.peers = << >> /\ e \in IfaceEntries
      BY <2>1, <2>2, PlainEntryIs DEF IfaceEntries, IfaceKinds
    <2> QED BY <2>3, NoPeersOwn
  <1>5. CASE i = "wg0" /\ e \in Bodies(i)
    <2>1. \/ \E ps \in PeerLists : OwnSecrets(ps) /\ e = [Plain EXCEPT !.kind = "wireguard", !.peers = ps]
          \/ \E p \in NrPeers : e = [Plain EXCEPT !.peers = <<Peer(p, NoKey)>>]
      BY <1>5 DEF Bodies
    <2>2. CASE \E ps \in PeerLists : OwnSecrets(ps) /\ e = [Plain EXCEPT !.kind = "wireguard", !.peers = ps]
      <3>1. PICK ps \in PeerLists : OwnSecrets(ps) /\ e = [Plain EXCEPT !.kind = "wireguard", !.peers = ps]
        BY <2>2
      <3>2. ps \in Seq(PeerRecs)
        <4>1. \A p \in NrPeers, psk \in NrPeers \cup {NoKey, Redacted} : Peer(p, psk) \in PeerRecs
          BY DEF PeerRecs, Peer
        <4>2. \/ ps = << >>
              \/ \E p \in NrPeers, psk \in {NoKey, Redacted} \cup NrPeers : ps = <<Peer(p, psk)>>
              \/ \E p, q \in NrPeers : ps = <<Peer(p, Redacted), Peer(q, q)>>
          BY DEF PeerLists
        <4>3. \A x, y \in PeerRecs : <<x>> \in Seq(PeerRecs) /\ <<x, y>> \in Seq(PeerRecs)
          OBVIOUS
        <4>4. CASE ps = << >>
          BY <4>4
        <4>5. CASE \E p \in NrPeers, psk \in {NoKey, Redacted} \cup NrPeers : ps = <<Peer(p, psk)>>
          BY <4>1, <4>3, <4>5
        <4>6. CASE \E p, q \in NrPeers : ps = <<Peer(p, Redacted), Peer(q, q)>>
          BY <4>6, <4>1, <4>3
        <4> QED BY <4>2, <4>4, <4>5, <4>6
      <3> QED BY <3>1, <3>2, PlainEntryIs DEF IfaceEntries, IfaceKinds
    <2>3. CASE \E p \in NrPeers : e = [Plain EXCEPT !.peers = <<Peer(p, NoKey)>>]
      <3>1. PICK p \in NrPeers : e = [Plain EXCEPT !.peers = <<Peer(p, NoKey)>>]
        BY <2>3
      <3> DEFINE ps == <<Peer(p, NoKey)>>
      <3>2. ps \in Seq(PeerRecs) /\ OwnSecrets(ps)
        BY DEF PeerRecs, Peer, OwnSecrets
      <3>3. e = [Plain EXCEPT !.peers = ps]
        BY <3>1
      <3> HIDE DEF ps
      <3> QED BY <3>2, <3>3, PlainEntryIs DEF IfaceEntries, IfaceKinds
    <2> QED BY <2>1, <2>2, <2>3
  <1> QED BY <1>1, <1>2, <1>3, <1>4, <1>5 DEF Ifaces

\* What a read shows.
LEMMA ShownIs ==
  ASSUME NEW map \in IfaceMaps
  PROVE  Shown(map) \in IfaceMaps /\ OwnMap(Shown(map))
  <1> DEFINE m == Shown(map)
  <1>1. ASSUME NEW i \in Ifaces PROVE m[i] \in IfaceEntries /\ OwnSecrets(m[i].peers)
    <2> DEFINE old == map[i].peers
               ps == [k \in DOMAIN old |-> Peer(old[k].key, IF old[k].psk = NoKey THEN NoKey ELSE Redacted)]
    <2>1. map[i] \in IfaceEntries /\ old \in Seq(PeerRecs)
      BY DEF IfaceMaps, IfaceEntries
    <2>2. m[i] = [map[i] EXCEPT !.peers = ps]
      BY DEF Shown
    <2>3. \A k \in DOMAIN old : old[k] \in PeerRecs
      BY <2>1
    <2> HIDE DEF old
    <2>4. \A k \in DOMAIN old : ps[k] \in PeerRecs /\ ps[k].psk \in {NoKey, Redacted}
      BY <2>3 DEF PeerRecs, Peer
    <2>5. ps = [k \in 1..Len(old) |-> ps[k]] /\ DOMAIN ps = DOMAIN old /\ DOMAIN old = 1..Len(old) /\ Len(old) \in Nat
      BY <2>1
    <2>6. ps \in Seq(PeerRecs) /\ OwnSecrets(ps)
      <3> HIDE DEF ps
      <3> QED BY <2>4, <2>5 DEF OwnSecrets
    <2> HIDE DEF ps, m
    <2> QED BY <2>1, <2>2, <2>6 DEF IfaceEntries
  <1>2. m = [i \in Ifaces |-> m[i]]
    BY DEF Shown
  <1>3. m \in IfaceMaps /\ OwnMap(m)
    <2> HIDE DEF m
    <2> QED BY <1>1, <1>2 DEF IfaceMaps, OwnMap
  <1> QED BY <1>3

LEMMA NrStart == NrInit => NrInv
  <1> SUFFICES ASSUME NrInit PROVE NrInv
    OBVIOUS
  <1>1. nrStored \in IfaceMaps /\ KeptMap(nrStored) /\ nrRunning = nrStored
    BY PlainEntryIs, NoPeersOwn DEF NrInit, IfaceMaps, KeptMap
  <1>2. ValidateNetwork(nrRunning)
    BY DEF NrInit, Declared, ValidateNetwork, RelationalOK, OwnRules, Topology
  <1>3. nrReqs \in [NrRequests -> NrHandlers] /\ \A r \in NrRequests : nrReqs[r].pc = "free"
    BY DEF NrInit, NrFree, NrHandlers, Ifaces
  <1> QED BY <1>1, <1>2, <1>3 DEF NrInv, NrInit

\* A handler that begins.
LEMMA HandlerBegins ==
  ASSUME NrInv, NEW r \in NrRequests, NEW req, NrBegins(r, req),
         req \in NrHandlers, req.map \in IfaceMaps, OwnMap(req.map), req.pc = "idle",
         req.op = "peers" => KeptMap(req.map), req.op = "iface" => req.name \in Ifaces
  PROVE  NrInv'
  <1>1. nrStored' = nrStored /\ nrRunning' = nrRunning /\ nrApply' = nrApply
    BY DEF NrBegins
  <1>2. ASSUME NEW q \in NrRequests
        PROVE  /\ nrReqs'[q] \in NrHandlers
               /\ \/ /\ nrReqs'[q].pc = req.pc /\ nrReqs'[q].op = req.op
                     /\ nrReqs'[q].map = req.map /\ nrReqs'[q].name = req.name
                  \/ /\ nrReqs'[q].pc = nrReqs[q].pc /\ nrReqs'[q].op = nrReqs[q].op
                     /\ nrReqs'[q].map = nrReqs[q].map /\ nrReqs'[q].name = nrReqs[q].name
    <2>0. nrReqs[q] \in NrHandlers
      BY DEF NrInv
    <2>1. CASE q = r
      <3> DEFINE b == \A s \in NrRequests : nrReqs[s] = NrFree
      <3>1. nrReqs'[q] = [req EXCEPT !.alone = b] /\ b \in BOOLEAN
        BY <2>1 DEF NrBegins
      <3> HIDE DEF b
      <3> QED BY <3>1 DEF NrHandlers
    <2>2. CASE q # r
      <3> DEFINE b == (nrReqs[q] = NrFree)
      <3>1. nrReqs'[q] = [nrReqs[q] EXCEPT !.alone = b] /\ b \in BOOLEAN
        BY <2>2 DEF NrBegins
      <3> HIDE DEF b
      <3> QED BY <2>0, <3>1 DEF NrHandlers
    <2> QED BY <2>1, <2>2
  <1>3. nrReqs' \in [NrRequests -> NrHandlers]
    BY <1>2 DEF NrBegins
  <1>4. \A q \in NrRequests : nrReqs'[q].pc # "free" =>
          /\ nrReqs'[q].map \in IfaceMaps /\ OwnMap(nrReqs'[q].map)
          /\ nrReqs'[q].pc = "write" \/ nrReqs'[q].op = "peers" => KeptMap(nrReqs'[q].map)
          /\ nrReqs'[q].op = "iface" => nrReqs'[q].name \in Ifaces
    BY <1>2 DEF NrInv
  <1>5. nrStored' \in IfaceMaps /\ KeptMap(nrStored')
    BY <1>1 DEF NrInv
  <1>6. nrRunning' \in IfaceMaps /\ KeptMap(nrRunning') /\ ValidateNetwork(nrRunning')
    BY <1>1 DEF NrInv
  <1>7. nrApply' # NoNetwork => nrApply' \in IfaceMaps /\ KeptMap(nrApply')
    BY <1>1 DEF NrInv
  <1>8. KeptMap(nrStored)' /\ KeptMap(nrRunning)' /\ ValidateNetwork(nrRunning)' /\ (nrApply' # NoNetwork => KeptMap(nrApply)')
    BY <1>5, <1>6, <1>7 DEF KeptMap, ValidateNetwork, RelationalOK, OwnRules, Topology, Declared, PeersValid, OwnKeys
  <1>9. \A q \in NrRequests : (OwnMap(nrReqs[q].map)' <=> OwnMap(nrReqs'[q].map))
                              /\ (KeptMap(nrReqs[q].map)' <=> KeptMap(nrReqs'[q].map))
    BY DEF OwnMap, KeptMap, OwnSecrets, OwnKeys
  <1> QED BY <1>3, <1>4, <1>5, <1>6, <1>7, <1>8, <1>9 DEF NrInv

\* NrInv with the maps it is about as parameters.
GoodMap(map) == map \in IfaceMaps /\ KeptMap(map)
GoodReq(q) == /\ q \in NrHandlers
              /\ q.pc # "free" => /\ q.map \in IfaceMaps /\ OwnMap(q.map)
                                  /\ q.pc = "write" \/ q.op = "peers" => KeptMap(q.map)
                                  /\ q.op = "iface" => q.name \in Ifaces

LEMMA InvParts ==
  NrInv <=> /\ GoodMap(nrStored)
            /\ GoodMap(nrRunning) /\ ValidateNetwork(nrRunning)
            /\ nrApply # NoNetwork => GoodMap(nrApply)
            /\ nrReqs \in [NrRequests -> NrHandlers]
            /\ \A r \in NrRequests : GoodReq(nrReqs[r])
  BY DEF NrInv, GoodMap, GoodReq

LEMMA FreeIs == GoodReq(NrFree) /\ NrFree.pc = "free" /\ NrFree \in NrHandlers
  BY DEF GoodReq, NrFree, NrHandlers, Ifaces

\* The steps of one handler between its reads and its write.
LEMMA RequestStep ==
  ASSUME NrInv, NEW r \in NrRequests, NEW q, GoodReq(q),
         nrReqs' = [nrReqs EXCEPT ![r] = q],
         nrRunning' = nrRunning, nrApply' = nrApply,
         nrStored' = nrStored \/ (nrStored' \in IfaceMaps /\ KeptMap(nrStored'))
  PROVE  NrInv'
  <1>1. GoodMap(nrStored) /\ GoodMap(nrRunning) /\ ValidateNetwork(nrRunning)
        /\ (nrApply # NoNetwork => GoodMap(nrApply))
        /\ nrReqs \in [NrRequests -> NrHandlers] /\ \A s \in NrRequests : GoodReq(nrReqs[s])
    BY InvParts
  <1>2. nrReqs' \in [NrRequests -> NrHandlers] /\ \A s \in NrRequests : nrReqs'[s] = q \/ nrReqs'[s] = nrReqs[s]
    BY <1>1 DEF GoodReq
  <1>3. \A s \in NrRequests : GoodReq(nrReqs'[s])
    BY <1>1, <1>2
  <1>4. GoodMap(nrStored')
    BY <1>1 DEF GoodMap
  <1>5. GoodMap(nrRunning') /\ ValidateNetwork(nrRunning') /\ (nrApply' # NoNetwork => GoodMap(nrApply'))
    BY <1>1
  <1>6. (GoodMap(nrStored') => GoodMap(nrStored)') /\ (GoodMap(nrRunning') => GoodMap(nrRunning)')
        /\ (GoodMap(nrApply') => GoodMap(nrApply)')
    BY DEF GoodMap, KeptMap, OwnKeys
  <1>7. ValidateNetwork(nrRunning') => ValidateNetwork(nrRunning)'
    BY DEF ValidateNetwork, RelationalOK, OwnRules, Topology, Declared, PeersValid
  <1>8. \A s \in NrRequests : GoodReq(nrReqs'[s]) => GoodReq(nrReqs[s])'
    BY DEF GoodReq, OwnMap, KeptMap, OwnSecrets, OwnKeys
  <1>9. InvParts!2'
    BY <1>2, <1>3, <1>4, <1>5, <1>6, <1>7, <1>8
  <1> QED BY <1>9, InvParts, PTL

LEMMA AnswerStep ==
  ASSUME NrInv, NEW r \in NrRequests, NrAnswers(r), nrRunning' = nrRunning, nrApply' = nrApply,
         nrStored' = nrStored \/ (nrStored' \in IfaceMaps /\ KeptMap(nrStored'))
  PROVE  NrInv'
  BY FreeIs, RequestStep DEF NrAnswers

LEMMA RequestIs ==
  ASSUME NrInv, NEW r \in NrRequests
  PROVE  nrReqs[r] \in NrHandlers /\ GoodReq(nrReqs[r]) /\ GoodMap(nrStored) /\ nrReqs \in [NrRequests -> NrHandlers]
  BY InvParts

LEMMA IdleStep ==
  ASSUME NrInv, NEW r \in NrRequests, CheckNetworkIdle(r)
  PROVE  NrInv'
  <1>1. nrRunning' = nrRunning /\ nrApply' = nrApply /\ nrStored' = nrStored /\ nrReqs[r].pc = "idle"
    BY DEF CheckNetworkIdle
  <1>2. CASE NrAnswers(r)
    BY <1>1, <1>2, AnswerStep
  <1>3. CASE NrGoes(r, IF nrReqs[r].op = "peers" THEN "write" ELSE "judge")
    <2> DEFINE p == IF nrReqs[r].op = "peers" THEN "write" ELSE "judge"
               q == [nrReqs[r] EXCEPT !.pc = p]
    <2>1. nrReqs' = [nrReqs EXCEPT ![r] = q]
      BY <1>3, RequestIs DEF NrGoes
    <2>2. p \in {"judge", "write"} /\ (p = "write" => nrReqs[r].op = "peers")
      OBVIOUS
    <2>3. GoodReq(q)
      <3> HIDE DEF p
      <3>1. q \in NrHandlers /\ q.pc = p /\ q.op = nrReqs[r].op /\ q.map = nrReqs[r].map
            /\ q.name = nrReqs[r].name
        BY <2>2, RequestIs DEF NrHandlers
      <3> HIDE DEF q
      <3> QED BY <1>1, <2>2, <3>1, RequestIs DEF GoodReq
    <2> HIDE DEF q, p
    <2> QED BY <1>1, <2>1, <2>3, RequestStep
  <1> QED BY <1>2, <1>3 DEF CheckNetworkIdle

LEMMA SendStep ==
  ASSUME NrInv, NEW r \in NrRequests, NEW map \in IfaceMaps, NEW carried \in SUBSET Ifaces,
         OwnMap(map), RelationalOK(map), NrSends(r, map, carried), nrReqs[r].pc = "judge",
         nrRunning' = nrRunning, nrApply' = nrApply, nrStored' = nrStored
  PROVE  NrInv'
  <1> DEFINE q == [nrReqs[r] EXCEPT !.pc = "write", !.map = map, !.carried = carried]
  <1>1. nrReqs' = [nrReqs EXCEPT ![r] = q]
    BY RequestIs DEF NrSends
  <1>2. q \in NrHandlers /\ q.map = map /\ q.op = nrReqs[r].op /\ q.name = nrReqs[r].name
    BY RequestIs DEF NrHandlers
  <1>3. KeptMap(map)
    BY JudgedIsKept
  <1> HIDE DEF q
  <1>4. GoodReq(q)
    BY <1>2, <1>3, RequestIs DEF GoodReq
  <1> QED BY <1>1, <1>4, RequestStep

LEMMA JudgeMapStep == ASSUME NrInv, NEW r \in NrRequests, JudgeMap(r) PROVE NrInv'
  <1>1. nrRunning' = nrRunning /\ nrApply' = nrApply /\ nrStored' = nrStored /\ nrReqs[r].pc = "judge"
    BY DEF JudgeMap, NrJudged
  <1>2. nrReqs[r].map \in IfaceMaps /\ OwnMap(nrReqs[r].map)
    BY <1>1, RequestIs DEF GoodReq
  <1>3. PICK map \in AdoptVlanParents(RestoredMap(nrReqs[r].map, Declared(nrReqs[r].map))) :
          IF MapOK(map, Declared(map)) THEN NrSends(r, map, Ifaces) ELSE NrAnswers(r)
    BY DEF JudgeMap
  <1>4. map \in IfaceMaps /\ OwnMap(map)
    <2> DEFINE m == RestoredMap(nrReqs[r].map, Declared(nrReqs[r].map))
    <2>1. m \in IfaceMaps /\ OwnMap(m)
      BY <1>2, RestoredIs
    <2>2. map \in AdoptVlanParents(m)
      OBVIOUS
    <2> HIDE DEF m
    <2> QED BY <2>1, <2>2, AdoptedIs
  <1>5. CASE MapOK(map, Declared(map))
    BY <1>1, <1>3, <1>4, <1>5, SendStep DEF MapOK
  <1>6. CASE ~MapOK(map, Declared(map))
    BY <1>1, <1>3, <1>6, AnswerStep
  <1> QED BY <1>5, <1>6

LEMMA PlacedIs ==
  ASSUME NEW map \in IfaceMaps, OwnMap(map), NEW e \in IfaceEntries, OwnSecrets(e.peers), NEW i \in Ifaces
  PROVE  [map EXCEPT ![i] = e] \in IfaceMaps /\ OwnMap([map EXCEPT ![i] = e])
  BY DEF IfaceMaps, OwnMap

LEMMA JudgeIfaceStep == ASSUME NrInv, NEW r \in NrRequests, JudgeIface(r) PROVE NrInv'
  <1> DEFINE i == nrReqs[r].name
             placed == [nrStored EXCEPT ![i] = nrReqs[r].map[i]]
             carried(map) == {i} \cup (Declared(map) \ Declared(placed))
  <1>1. nrRunning' = nrRunning /\ nrApply' = nrApply /\ nrStored' = nrStored /\ nrReqs[r].pc = "judge"
        /\ nrReqs[r].op = "iface"
    BY DEF JudgeIface, NrJudged
  <1>a. i \in Ifaces
    BY <1>1, RequestIs DEF GoodReq
  <1>2. nrReqs[r].map \in IfaceMaps /\ OwnMap(nrReqs[r].map)
    BY <1>1, RequestIs DEF GoodReq
  <1>3. PICK map \in AdoptVlanParents(RestoredMap(placed, {i})) :
          IF MapOK(map, carried(map)) THEN NrSends(r, map, carried(map)) ELSE NrAnswers(r)
    BY DEF JudgeIface
  <1>4. placed \in IfaceMaps /\ OwnMap(placed)
    BY <1>2, <1>a, RequestIs, KeptIsOwn, PlacedIs DEF IfaceMaps, OwnMap, GoodMap
  <1>5. map \in IfaceMaps /\ OwnMap(map)
    <2> DEFINE m == RestoredMap(placed, {i})
    <2> HIDE DEF placed
    <2>1. m \in IfaceMaps /\ OwnMap(m)
      BY <1>4, RestoredIs
    <2>2. map \in AdoptVlanParents(m)
      OBVIOUS
    <2> HIDE DEF m
    <2> QED BY <2>1, <2>2, AdoptedIs
  <1>6. carried(map) \in SUBSET Ifaces
    BY <1>a DEF Declared
  <1> DEFINE c == carried(map)
  <1> HIDE DEF carried, placed
  <1>7. CASE MapOK(map, c)
    BY <1>3, <1>6, <1>7, <1>1, <1>5, SendStep DEF MapOK
  <1>8. CASE ~MapOK(map, c)
    BY <1>1, <1>3, <1>8, AnswerStep
  <1> QED BY <1>7, <1>8

LEMMA JudgeRemoveStep == ASSUME NrInv, NEW r \in NrRequests, JudgeRemove(r) PROVE NrInv'
  <1> DEFINE q == nrReqs[r]
             ok == ReferencesTo(q.map, q.name) = {} /\ RelationalOK(q.map)
  <1>1. nrRunning' = nrRunning /\ nrApply' = nrApply /\ nrStored' = nrStored /\ q.pc = "judge"
    BY DEF JudgeRemove, NrJudged
  <1>2. q.map \in IfaceMaps /\ OwnMap(q.map)
    BY <1>1, RequestIs DEF GoodReq
  <1>3. IF ok THEN NrSends(r, q.map, Ifaces) ELSE NrAnswers(r)
    BY DEF JudgeRemove
  <1>4. CASE ok
    <2>1. NrSends(r, q.map, Ifaces) /\ RelationalOK(q.map)
      BY <1>3, <1>4
    <2>2. nrReqs[r].pc = "judge"
      BY <1>1
    <2> HIDE DEF q
    <2> QED BY <1>1, <1>2, <2>1, <2>2, SendStep
  <1>5. CASE ~ok
    BY <1>1, <1>3, <1>5, AnswerStep
  <1> QED BY <1>4, <1>5
LEMMA LandStep == ASSUME NrInv, NEW r \in NrRequests, WriteLands(r) PROVE NrInv'
  <1> DEFINE q == nrReqs[r]
             old == IF nrStored["wg0"] = Absent THEN Plain ELSE nrStored["wg0"]
  <1>1. nrRunning' = nrRunning /\ nrApply' = nrApply /\ q.pc = "write" /\ NrAnswers(r)
    BY DEF WriteLands
  <1>2. q.map \in IfaceMaps /\ KeptMap(q.map)
    BY <1>1, RequestIs DEF GoodReq
  <1>3. nrStored \in IfaceMaps /\ KeptMap(nrStored) /\ "wg0" \in Ifaces
    BY RequestIs DEF GoodMap, Ifaces
  <1>4. nrStored' \in IfaceMaps /\ KeptMap(nrStored')
    <2>1. CASE q.op = "peers"
      <3> DEFINE e == [old EXCEPT !.peers = q.map["wg0"].peers]
      <3>1. nrStored' = [nrStored EXCEPT !["wg0"] = e]
        BY <2>1 DEF WriteLands
      <3>2. old \in IfaceEntries
        BY <1>3, PlainEntryIs DEF IfaceMaps
      <3>3. q.map["wg0"] \in IfaceEntries /\ OwnKeys(q.map["wg0"].peers)
        BY <1>2, <1>3 DEF IfaceMaps, KeptMap
      <3>4. q.map["wg0"].peers \in Seq(PeerRecs)
        BY <3>3 DEF IfaceEntries
      <3> HIDE DEF old, q
      <3>5. e \in IfaceEntries /\ OwnKeys(e.peers)
        BY <3>2, <3>3, <3>4 DEF IfaceEntries
      <3> HIDE DEF e
      <3> QED BY <1>3, <3>1, <3>5 DEF IfaceMaps, KeptMap
    <2>2. CASE q.op # "peers"
      <3>1. nrStored' = [i \in Ifaces |-> IF i \in q.carried THEN q.map[i] ELSE nrStored[i]]
        BY <2>2 DEF WriteLands
      <3> HIDE DEF q
      <3> QED BY <1>2, <1>3, <3>1 DEF IfaceMaps, KeptMap
    <2> QED BY <2>1, <2>2
  <1> QED BY <1>1, <1>4, AnswerStep

LEMMA CallFailsStep == ASSUME NrInv, NEW r \in NrRequests, NrCallFails(r) PROVE NrInv'
  BY AnswerStep DEF NrCallFails

LEMMA MapBegins == ASSUME NrInv, NEW r \in NrRequests, NetworkWrite(r) PROVE NrInv'
  <1>0. PICK i \in Ifaces : \E e \in Bodies(i) \cup {Absent} :
          NrBegins(r, [NrFree EXCEPT !.pc = "idle", !.op = "map", !.map = [Shown(nrStored) EXCEPT ![i] = e]])
    BY DEF NetworkWrite
  <1>1. PICK e \in Bodies(i) \cup {Absent} :
          NrBegins(r, [NrFree EXCEPT !.pc = "idle", !.op = "map", !.map = [Shown(nrStored) EXCEPT ![i] = e]])
    BY <1>0
  <1> DEFINE map == [Shown(nrStored) EXCEPT ![i] = e]
             req == [NrFree EXCEPT !.pc = "idle", !.op = "map", !.map = map]
  <1>2. map \in IfaceMaps /\ OwnMap(map)
    BY RequestIs, ShownIs, BodyIs, PlacedIs DEF GoodMap
  <1>3. NrBegins(r, req)
    BY <1>1
  <1> HIDE DEF map
  <1>4. req \in NrHandlers /\ req.map = map /\ req.pc = "idle" /\ req.op = "map"
    BY <1>2, FreeIs DEF NrHandlers
  <1> HIDE DEF req
  <1> QED BY <1>2, <1>3, <1>4, HandlerBegins

LEMMA IfaceBegins == ASSUME NrInv, NEW r \in NrRequests, IfaceWrite(r) PROVE NrInv'
  <1>0. PICK i \in Ifaces : \E e \in Bodies(i) :
          NrBegins(r, [NrFree EXCEPT !.pc = "idle", !.op = "iface", !.name = i,
                               !.map = [j \in Ifaces |-> IF j = i THEN e ELSE Absent]])
    BY DEF IfaceWrite
  <1>1. PICK e \in Bodies(i) :
          NrBegins(r, [NrFree EXCEPT !.pc = "idle", !.op = "iface", !.name = i,
                               !.map = [j \in Ifaces |-> IF j = i THEN e ELSE Absent]])
    BY <1>0
  <1> DEFINE map == [j \in Ifaces |-> IF j = i THEN e ELSE Absent]
             req == [NrFree EXCEPT !.pc = "idle", !.op = "iface", !.name = i, !.map = map]
  <1>2. map \in IfaceMaps /\ OwnMap(map)
    BY BodyIs, PlainEntryIs, NoPeersOwn DEF IfaceMaps, OwnMap
  <1>3. NrBegins(r, req)
    BY <1>1
  <1> HIDE DEF map
  <1>4. req \in NrHandlers /\ req.map = map /\ req.pc = "idle" /\ req.op = "iface" /\ req.name = i
    BY <1>2, FreeIs DEF NrHandlers
  <1> HIDE DEF req
  <1> QED BY <1>2, <1>3, <1>4, HandlerBegins

LEMMA RemoveBegins == ASSUME NrInv, NEW r \in NrRequests, IfaceRemove(r) PROVE NrInv'
  <1>1. PICK i \in Declared(nrStored) :
          NrBegins(r, [NrFree EXCEPT !.pc = "idle", !.op = "remove", !.name = i,
                               !.map = [nrStored EXCEPT ![i] = Absent]])
    BY DEF IfaceRemove
  <1> DEFINE map == [nrStored EXCEPT ![i] = Absent]
             req == [NrFree EXCEPT !.pc = "idle", !.op = "remove", !.name = i, !.map = map]
  <1>a. i \in Ifaces
    BY DEF Declared
  <1>2. map \in IfaceMaps /\ OwnMap(map)
    BY RequestIs, KeptIsOwn, <1>a, PlainEntryIs, NoPeersOwn, PlacedIs DEF GoodMap
  <1>3. NrBegins(r, req)
    BY <1>1
  <1> HIDE DEF map
  <1>4. req \in NrHandlers /\ req.map = map /\ req.pc = "idle" /\ req.op = "remove"
    BY <1>2, <1>a, FreeIs DEF NrHandlers
  <1> HIDE DEF req
  <1> QED BY <1>2, <1>3, <1>4, HandlerBegins

LEMMA PeersBegin ==
  ASSUME NrInv, NEW r \in NrRequests, NEW peers \in Seq(PeerRecs), OwnKeys(peers), TunnelPeers(r, peers)
  PROVE  NrInv'
  <1> DEFINE e == [nrStored["wg0"] EXCEPT !.peers = peers]
             map == [nrStored EXCEPT !["wg0"].peers = peers]
             req == [NrFree EXCEPT !.pc = "idle", !.op = "peers", !.name = "wg0", !.map = map]
  <1>1. nrStored \in IfaceMaps /\ KeptMap(nrStored) /\ "wg0" \in Ifaces
    BY RequestIs DEF GoodMap, Ifaces
  <1>2. map \in IfaceMaps /\ KeptMap(map)
    <2>1. nrStored["wg0"] \in IfaceEntries
      BY <1>1 DEF IfaceMaps
    <2>2. e \in IfaceEntries /\ e.peers = peers
      BY <2>1 DEF IfaceEntries
    <2>3. map = [nrStored EXCEPT !["wg0"] = e]
      BY <1>1 DEF IfaceMaps
    <2> HIDE DEF e, map
    <2> QED BY <1>1, <2>2, <2>3 DEF IfaceMaps, KeptMap
  <1>3. NrBegins(r, req)
    BY DEF TunnelPeers
  <1> HIDE DEF map
  <1>4. req \in NrHandlers /\ req.map = map /\ req.pc = "idle" /\ req.op = "peers"
    BY <1>1, <1>2, FreeIs DEF NrHandlers
  <1> HIDE DEF req
  <1> QED BY <1>2, <1>3, <1>4, KeptIsOwn, HandlerBegins

LEMMA AddBegins == ASSUME NrInv, NEW r \in NrRequests, PeersAdd(r) PROVE NrInv'
  <1> DEFINE old == nrStored["wg0"].peers
  <1>1. PICK p \in NrPeers, keyed \in BOOLEAN :
          TunnelPeers(r, Append(old, Peer(p, IF keyed THEN p ELSE NoKey)))
    BY DEF PeersAdd
  <1>2. old \in Seq(PeerRecs) /\ OwnKeys(old)
    BY RequestIs DEF GoodMap, IfaceMaps, IfaceEntries, KeptMap, Ifaces
  <1> DEFINE x == Peer(p, IF keyed THEN p ELSE NoKey)
             s == Append(old, x)
  <1>3. x \in PeerRecs /\ x.psk \in {NoKey, x.key}
    BY DEF Peer, PeerRecs
  <1>4. TunnelPeers(r, s)
    BY <1>1
  <1> HIDE DEF x, old
  <1>5. s \in Seq(PeerRecs) /\ OwnKeys(s)
    BY <1>2, <1>3 DEF OwnKeys
  <1> HIDE DEF s
  <1> QED BY <1>4, <1>5, PeersBegin

LEMMA RemovedIs ==
  ASSUME NEW s \in Seq(PeerRecs), NEW k \in DOMAIN s, OwnKeys(s)
  PROVE  RemoveAt(s, k) \in Seq(PeerRecs) /\ OwnKeys(RemoveAt(s, k))
  <1> DEFINE a == SubSeq(s, 1, k - 1)
             b == SubSeq(s, k + 1, Len(s))
  <1>0. k \in 1..Len(s) /\ Len(s) \in Nat
    OBVIOUS
  <1>1. /\ a \in Seq(PeerRecs) /\ Len(a) = k - 1
        /\ \A i \in 1..(k - 1) : a[i] = s[i]
    BY <1>0
  <1>2. /\ b \in Seq(PeerRecs) /\ Len(b) = Len(s) - k
        /\ \A i \in 1..(Len(s) - k) : b[i] = s[k + i]
    BY <1>0
  <1>3. RemoveAt(s, k) = a \o b
    BY DEF RemoveAt
  <1> HIDE DEF a, b
  <1>4. OwnKeys(a) /\ OwnKeys(b)
    <2>1. OwnKeys(a)
      BY <1>0, <1>1 DEF OwnKeys
    <2>2. ASSUME NEW i \in DOMAIN b PROVE b[i].psk \in {NoKey, b[i].key}
      <3>1. i \in 1..(Len(s) - k) /\ k + i \in 1..Len(s)
        BY <1>0, <1>2
      <3>2. b[i] = s[k + i] /\ k + i \in DOMAIN s
        BY <1>0, <1>2, <3>1
      <3> QED BY <3>2 DEF OwnKeys
    <2> QED BY <2>1, <2>2 DEF OwnKeys
  <1>5. a \o b \in Seq(PeerRecs) /\ OwnKeys(a \o b)
    BY <1>1, <1>2, <1>4 DEF OwnKeys
  <1> QED BY <1>3, <1>5

LEMMA RemovalBegins == ASSUME NrInv, NEW r \in NrRequests, PeersRemove(r) PROVE NrInv'
  <1> DEFINE old == nrStored["wg0"].peers
  <1>1. PICK k \in DOMAIN old : TunnelPeers(r, RemoveAt(old, k))
    BY DEF PeersRemove
  <1>2. old \in Seq(PeerRecs) /\ OwnKeys(old)
    BY RequestIs DEF GoodMap, IfaceMaps, IfaceEntries, KeptMap, Ifaces
  <1> HIDE DEF old
  <1> QED BY <1>1, <1>2, RemovedIs, PeersBegin

\* The reconciler's steps.
LEMMA ApplyStep ==
  ASSUME NrInv, nrReqs' = nrReqs,
         GoodMap(nrStored'), GoodMap(nrRunning'), ValidateNetwork(nrRunning'),
         nrApply' # NoNetwork => GoodMap(nrApply')
  PROVE  NrInv'
  <1>1. nrReqs' \in [NrRequests -> NrHandlers] /\ \A s \in NrRequests : GoodReq(nrReqs'[s])
    BY InvParts
  <1>2. (GoodMap(nrStored') => GoodMap(nrStored)') /\ (GoodMap(nrRunning') => GoodMap(nrRunning)')
        /\ (GoodMap(nrApply') => GoodMap(nrApply)')
    BY DEF GoodMap, KeptMap, OwnKeys
  <1>3. ValidateNetwork(nrRunning') => ValidateNetwork(nrRunning)'
    BY DEF ValidateNetwork, RelationalOK, OwnRules, Topology, Declared, PeersValid
  <1>4. \A s \in NrRequests : GoodReq(nrReqs'[s]) => GoodReq(nrReqs[s])'
    BY DEF GoodReq, OwnMap, KeptMap, OwnSecrets, OwnKeys
  <1>5. InvParts!2'
    BY <1>1, <1>2, <1>3, <1>4
  <1> QED BY <1>5, InvParts, PTL

LEMMA ReconcilerSteps ==
  ASSUME NrInv, StartNetworkApply \/ NetworkRefused \/ NetworkApplied
  PROVE  NrInv'
  BY InvParts, ApplyStep DEF StartNetworkApply, NetworkRefused, NetworkApplied

\* Every step of the routes and of the reconciler.
LEMMA NrKeeps == NrInv /\ [NrNext]_nrVars => NrInv'
  <1> SUFFICES ASSUME NrInv, [NrNext]_nrVars PROVE NrInv'
    OBVIOUS
  <1>1. CASE UNCHANGED nrVars
    BY <1>1, InvParts, ApplyStep DEF nrVars
  <1>2. CASE StartNetworkApply \/ NetworkRefused \/ NetworkApplied
    BY <1>2, ReconcilerSteps
  <1>3. CASE \E r \in NrRequests : NrStep(r)
    BY <1>3, MapBegins, IfaceBegins, RemoveBegins, AddBegins, RemovalBegins, IdleStep, JudgeMapStep,
       JudgeIfaceStep, JudgeRemoveStep, LandStep, CallFailsStep DEF NrStep
  <1> QED BY <1>1, <1>2, <1>3 DEF NrNext

LEMMA NrSafe == NrInv => NetworksSafe
  BY DEF NrInv, NetworksSafe, SecretsStayWithPeers, RunningIsSound, ValidateNetwork, KeptMap, OwnKeys, Declared

(***************************************************************************)
(* The services.                                                           *)
(***************************************************************************)
\* What may be left of an apply, by what it is an apply of.
SwitchedOn == {<<"render", "run">>, <<"run">>, << >>}
SwitchedOff == {<<"render", "halt">>, <<"halt">>, << >>}
BrokerOn == {<<"render", "enable", "runOrWarn">>, <<"enable", "runOrWarn">>, <<"runOrWarn">>, << >>}
BrokerOff == {<<"render", "halt", "disable">>, <<"halt", "disable">>, <<"disable">>, << >>}
ContainersOn == {<<"enable", "launch", "ready", "members">>, <<"launch", "ready", "members">>,
                 <<"ready", "members">>, <<"members">>, << >>}
ContainersOff == {<<"drain", "halt", "disable">>, <<"halt", "disable">>, <<"disable">>, << >>}
Resolver == {<<"render", "reload">>, <<"reload">>, << >>}
Interfaces == {<<"down", "render", "up">>, <<"render", "up">>, <<"up">>, << >>}
UserOn == {<<"render", "enable", "act">>, <<"enable", "act">>, <<"act">>, << >>}
UserOff == {<<"render", "disable", "act">>, <<"disable", "act">>, <<"act">>, << >>}
UserGone == {<<"remove">>, << >>}

SvcLists == SwitchedOn \cup SwitchedOff \cup BrokerOn \cup BrokerOff \cup ContainersOn
            \cup ContainersOff \cup Resolver \cup Interfaces \cup UserOn \cup UserOff \cup UserGone

Places(k, on, cfg) ==
  CASE k \in {"sshd", "web"} -> IF on THEN SwitchedOn ELSE SwitchedOff
    [] k = "time" -> SwitchedOn
    [] k = "mqtt" -> IF on THEN BrokerOn ELSE BrokerOff
    [] k = "container" -> IF on THEN ContainersOn ELSE ContainersOff
    [] k = "dns" -> Resolver
    [] k = "ifupdown" -> Interfaces
    [] OTHER -> IF cfg = NoCfg THEN UserGone ELSE IF on THEN UserOn ELSE UserOff

\* The file is still to be written, and the unit has been brought where it is to be.
Unrendered == {<<"render", "run">>, <<"render", "halt">>, <<"render", "enable", "runOrWarn">>,
               <<"render", "halt", "disable">>, <<"render", "reload">>, <<"down", "render", "up">>,
               <<"render", "up">>, <<"render", "enable", "act">>, <<"render", "disable", "act">>}
Acted == {<< >>, <<"disable">>, <<"ready", "members">>, <<"members">>}

SvcJobs == [begun : BOOLEAN, steps : SvcLists, on : BOOLEAN, cfg : SvcCfgs \cup {NoCfg},
            changed : BOOLEAN, started : BOOLEAN, late : BOOLEAN]

SvcCopy == [on |-> svcJob.on, cfg |-> svcJob.cfg]

SvcJobInv ==
  /\ svcJob \in SvcJobs
  /\ ~svcJob.begun => svcJob = NoSvcJob
  /\ svcJob.begun => svcJob.steps \in Places(svcKind, svcJob.on, svcJob.cfg) /\ SvcCopy \in Wants
  /\ svcJob.begun /\ ~svcWaiting => svcJob.on = want.on /\ svcJob.cfg = want.cfg
  /\ svcJob.steps \in Unrendered => ~svcJob.changed
  /\ svcJob.begun /\ svcKind # "container" /\ svcJob.cfg # NoCfg /\ svcJob.steps \notin Unrendered
       => unitFile = svcJob.cfg

\* With nothing failed since the unit was seen to start, it runs on the file that is there,
\* unless the apply under way has changed that and not come to the restart.
RunsFile ==
  svcKind # "container" /\ ~missed /\ UnitActive /\ ~svcJob.changed => unit.runs = unitFile

\* The resolver and the network run; the network is down only within an apply.
AlwaysUp ==
  /\ svcKind = "dns" => UnitActive
  /\ svcKind = "ifupdown" /\ ~missed /\ svcJob.steps \notin {<<"render", "up">>, <<"up">>} => UnitActive

\* The record of a user's service.
RecordTrue ==
  svcKind = "user" => /\ ~missed => (noted = "on" <=> UnitActive)
                      /\ noted = "on" => unitFile # NoCfg

JobAgrees ==
  /\ (svcJob.on \/ svcKind \in AlwaysOn) <=> UnitActive
  /\ UnitActive /\ svcKind # "container" => unit.runs = svcJob.cfg
Reached == svcJob.begun /\ ~missed /\ svcJob.steps \in Acted => JobAgrees

Drained == svcKind = "container" /\ svcJob.steps = <<"halt", "disable">> /\ UnitActive
             => ~svcMembers \/ svcJob.late

SvcInv == SvcTypeOK /\ SvcJobInv /\ RunsFile /\ AlwaysUp /\ RecordTrue /\ Reached /\ Drained /\ Converged

LEMMA PlacesListed ==
  ASSUME NEW k, NEW on \in BOOLEAN, NEW cfg, NEW s \in Places(k, on, cfg)
  PROVE  s \in SvcLists
  BY DEF Places, SvcLists

LEMMA ListTails ==
  /\ Tail(<<"render", "run">>) = <<"run">>
  /\ Tail(<<"run">>) = << >>
  /\ Tail(<<"render", "halt">>) = <<"halt">>
  /\ Tail(<<"halt">>) = << >>
  /\ Tail(<<"render", "enable", "runOrWarn">>) = <<"enable", "runOrWarn">>
  /\ Tail(<<"enable", "runOrWarn">>) = <<"runOrWarn">>
  /\ Tail(<<"runOrWarn">>) = << >>
  /\ Tail(<<"render", "halt", "disable">>) = <<"halt", "disable">>
  /\ Tail(<<"halt", "disable">>) = <<"disable">>
  /\ Tail(<<"disable">>) = << >>
  /\ Tail(<<"enable", "launch", "ready", "members">>) = <<"launch", "ready", "members">>
  /\ Tail(<<"launch", "ready", "members">>) = <<"ready", "members">>
  /\ Tail(<<"ready", "members">>) = <<"members">>
  /\ Tail(<<"members">>) = << >>
  /\ Tail(<<"drain", "halt", "disable">>) = <<"halt", "disable">>
  /\ Tail(<<"render", "reload">>) = <<"reload">>
  /\ Tail(<<"reload">>) = << >>
  /\ Tail(<<"down", "render", "up">>) = <<"render", "up">>
  /\ Tail(<<"render", "up">>) = <<"up">>
  /\ Tail(<<"up">>) = << >>
  /\ Tail(<<"render", "enable", "act">>) = <<"enable", "act">>
  /\ Tail(<<"enable", "act">>) = <<"act">>
  /\ Tail(<<"act">>) = << >>
  /\ Tail(<<"render", "disable", "act">>) = <<"disable", "act">>
  /\ Tail(<<"disable", "act">>) = <<"act">>
  /\ Tail(<<"remove">>) = << >>
  OBVIOUS

LEMMA ListFirsts ==
  /\ Head(<<"render", "run">>) = "render"
  /\ Head(<<"run">>) = "run"
  /\ Head(<<"render", "halt">>) = "render"
  /\ Head(<<"halt">>) = "halt"
  /\ Head(<<"render", "enable", "runOrWarn">>) = "render"
  /\ Head(<<"enable", "runOrWarn">>) = "enable"
  /\ Head(<<"runOrWarn">>) = "runOrWarn"
  /\ Head(<<"render", "halt", "disable">>) = "render"
  /\ Head(<<"halt", "disable">>) = "halt"
  /\ Head(<<"disable">>) = "disable"
  /\ Head(<<"enable", "launch", "ready", "members">>) = "enable"
  /\ Head(<<"launch", "ready", "members">>) = "launch"
  /\ Head(<<"ready", "members">>) = "ready"
  /\ Head(<<"members">>) = "members"
  /\ Head(<<"drain", "halt", "disable">>) = "drain"
  /\ Head(<<"render", "reload">>) = "render"
  /\ Head(<<"reload">>) = "reload"
  /\ Head(<<"down", "render", "up">>) = "down"
  /\ Head(<<"render", "up">>) = "render"
  /\ Head(<<"up">>) = "up"
  /\ Head(<<"render", "enable", "act">>) = "render"
  /\ Head(<<"enable", "act">>) = "enable"
  /\ Head(<<"act">>) = "act"
  /\ Head(<<"render", "disable", "act">>) = "render"
  /\ Head(<<"disable", "act">>) = "disable"
  /\ Head(<<"remove">>) = "remove"
  OBVIOUS

LEMMA PlacesTail ==
  ASSUME NEW k, NEW on \in BOOLEAN, NEW cfg, NEW s \in Places(k, on, cfg), s # << >>
  PROVE  Tail(s) \in Places(k, on, cfg)
  BY ListTails DEF SwitchedOn, SwitchedOff, BrokerOn, BrokerOff, ContainersOn, ContainersOff, Resolver,
     Interfaces, UserOn, UserOff, UserGone, Places

\* Which services have a step, and what is left after it.
LEMMA PlaceHeads ==
  ASSUME NEW k, NEW on \in BOOLEAN, NEW cfg, NEW s \in Places(k, on, cfg), s # << >>
  PROVE  /\ Head(s) = "render" => k # "container" /\ (k \notin {"sshd", "web", "time", "mqtt", "dns", "ifupdown"} => cfg # NoCfg)
         /\ Head(s) = "run" => k \in {"sshd", "web", "time"} /\ (on \/ k = "time")
         /\ Head(s) = "runOrWarn" => k = "mqtt" /\ on
         /\ Head(s) = "halt" => k \in {"sshd", "web", "mqtt", "container"} /\ ~on
         /\ Head(s) = "reload" => k = "dns"
         /\ Head(s) \in {"down", "up"} => k = "ifupdown"
         /\ Head(s) \in {"launch", "ready", "members"} => k = "container" /\ on
         /\ Head(s) = "drain" => k = "container" /\ ~on
         /\ Head(s) \in {"act", "remove"} => k \notin {"sshd", "web", "time", "mqtt", "dns", "ifupdown", "container"}
         /\ Head(s) = "act" => cfg # NoCfg
         /\ Head(s) = "remove" => cfg = NoCfg
         /\ Head(s) \in {"enable", "disable"} => k \notin {"sshd", "web", "time", "dns", "ifupdown"}
         /\ Head(s) = "enable" => on
         /\ Head(s) = "disable" => ~on
  BY DEF Places, SwitchedOn, SwitchedOff, BrokerOn, BrokerOff, ContainersOn, ContainersOff, Resolver,
     Interfaces, UserGone, UserOn, UserOff

LEMMA ListsByHead ==
  ASSUME NEW s \in SvcLists, s # << >>
  PROVE  /\ Head(s) = "render" => s \in {<<"render", "run">>, <<"render", "halt">>, <<"render", "enable", "runOrWarn">>, <<"render", "halt", "disable">>, <<"render", "reload">>, <<"render", "up">>, <<"render", "enable", "act">>, <<"render", "disable", "act">>}
         /\ Head(s) = "run" => s \in {<<"run">>}
         /\ Head(s) = "halt" => s \in {<<"halt">>, <<"halt", "disable">>}
         /\ Head(s) = "enable" => s \in {<<"enable", "runOrWarn">>, <<"enable", "launch", "ready", "members">>, <<"enable", "act">>}
         /\ Head(s) = "runOrWarn" => s \in {<<"runOrWarn">>}
         /\ Head(s) = "disable" => s \in {<<"disable">>, <<"disable", "act">>}
         /\ Head(s) = "launch" => s \in {<<"launch", "ready", "members">>}
         /\ Head(s) = "ready" => s \in {<<"ready", "members">>}
         /\ Head(s) = "members" => s \in {<<"members">>}
         /\ Head(s) = "drain" => s \in {<<"drain", "halt", "disable">>}
         /\ Head(s) = "reload" => s \in {<<"reload">>}
         /\ Head(s) = "down" => s \in {<<"down", "render", "up">>}
         /\ Head(s) = "up" => s \in {<<"up">>}
         /\ Head(s) = "act" => s \in {<<"act">>}
         /\ Head(s) = "remove" => s \in {<<"remove">>}
  BY ListFirsts
     DEF SvcLists, SwitchedOn, SwitchedOff, BrokerOn, BrokerOff, ContainersOn, ContainersOff,
         Resolver, Interfaces, UserOn, UserOff, UserGone

LEMMA NotUnrendered ==
  /\ << >> \notin Unrendered /\ <<"run">> \notin Unrendered /\ <<"runOrWarn">> \notin Unrendered
  /\ <<"halt">> \notin Unrendered /\ <<"halt", "disable">> \notin Unrendered /\ <<"disable">> \notin Unrendered
  /\ <<"reload">> \notin Unrendered /\ <<"up">> \notin Unrendered /\ <<"act">> \notin Unrendered
  /\ <<"remove">> \notin Unrendered /\ <<"disable", "act">> \notin Unrendered
  /\ <<"ready", "members">> \notin Unrendered /\ <<"members">> \notin Unrendered
  /\ <<"launch", "ready", "members">> \notin Unrendered
  /\ <<"render", "up">> \in Unrendered /\ <<"down", "render", "up">> \in Unrendered
  BY DEF Unrendered

LEMMA NotActed ==
  /\ << >> \in Acted /\ <<"disable">> \in Acted /\ <<"ready", "members">> \in Acted /\ <<"members">> \in Acted
  /\ <<"halt", "disable">> \notin Acted /\ <<"runOrWarn">> \notin Acted /\ <<"act">> \notin Acted
  /\ <<"launch", "ready", "members">> \notin Acted /\ <<"render", "up">> \notin Acted
  /\ \A s \in Acted : s \notin Unrendered /\ s \notin {<<"render", "up">>, <<"up">>, <<"halt", "disable">>}
  BY DEF Acted, Unrendered

LEMMA ListHeads ==
  ASSUME NEW s \in SvcLists, s # << >>
  PROVE  /\ Head(s) = "render" => s \in Unrendered /\ Tail(s) \notin Unrendered \cup Acted
         /\ Head(s) = "run" => s = <<"run">> /\ Tail(s) = << >>
         /\ Head(s) = "runOrWarn" => s = <<"runOrWarn">> /\ Tail(s) = << >>
         /\ Head(s) = "halt" => s \in {<<"halt">>, <<"halt", "disable">>} /\ Tail(s) \in {<< >>, <<"disable">>}
         /\ Head(s) = "reload" => s = <<"reload">> /\ Tail(s) = << >>
         /\ Head(s) = "down" => s = <<"down", "render", "up">> /\ Tail(s) = <<"render", "up">>
         /\ Head(s) = "up" => s = <<"up">> /\ Tail(s) = << >>
         /\ Head(s) = "act" => s = <<"act">> /\ Tail(s) = << >>
         /\ Head(s) = "remove" => s = <<"remove">> /\ Tail(s) = << >>
         /\ Head(s) = "launch" => s = <<"launch", "ready", "members">> /\ Tail(s) = <<"ready", "members">>
         /\ Head(s) = "ready" => s = <<"ready", "members">> /\ Tail(s) = <<"members">>
         /\ Head(s) = "members" => s = <<"members">> /\ Tail(s) = << >>
         /\ Head(s) = "drain" => s = <<"drain", "halt", "disable">> /\ Tail(s) = <<"halt", "disable">>
         /\ Head(s) = "enable" => Tail(s) \in {<<"runOrWarn">>, <<"launch", "ready", "members">>, <<"act">>}
                                  /\ s \notin Unrendered
         /\ Head(s) = "disable" => \/ s = <<"disable">> /\ Tail(s) = << >>
                                   \/ s = <<"disable", "act">> /\ Tail(s) = <<"act">>
  <1>1. Head(s) = "render" => s \in Unrendered /\ Tail(s) \notin Unrendered \cup Acted
    <2> SUFFICES ASSUME Head(s) = "render" PROVE s \in Unrendered /\ Tail(s) \notin Unrendered \cup Acted
      OBVIOUS
    <2>1. s \in Unrendered \ {<<"down", "render", "up">>}
      BY ListsByHead DEF Unrendered
    <2>2. Tail(s) \in {<<"run">>, <<"halt">>, <<"enable", "runOrWarn">>, <<"halt", "disable">>,
                       <<"reload">>, <<"up">>, <<"enable", "act">>, <<"disable", "act">>}
      BY <2>1, ListTails DEF Unrendered
    <2>3. Tail(s) \notin Unrendered
      BY <2>2 DEF Unrendered
    <2>4. Tail(s) \notin Acted
      BY <2>2 DEF Acted
    <2> QED BY <2>1, <2>3, <2>4
  <1>2. Head(s) = "enable" => /\ Tail(s) \in {<<"runOrWarn">>, <<"launch", "ready", "members">>, <<"act">>}
                              /\ s \notin Unrendered
    <2> SUFFICES ASSUME Head(s) = "enable"
                 PROVE  /\ Tail(s) \in {<<"runOrWarn">>, <<"launch", "ready", "members">>, <<"act">>}
                        /\ s \notin Unrendered
      OBVIOUS
    <2>1. s \in {<<"enable", "runOrWarn">>, <<"enable", "launch", "ready", "members">>, <<"enable", "act">>}
      BY ListsByHead
    <2>2. s \notin Unrendered
      BY <2>1 DEF Unrendered
    <2> QED BY <2>1, <2>2, ListTails
  <1>3. Head(s) = "disable" => \/ s = <<"disable">> /\ Tail(s) = << >>
                               \/ s = <<"disable", "act">> /\ Tail(s) = <<"act">>
    BY ListsByHead, ListTails
  <1>4. Head(s) = "halt" => s \in {<<"halt">>, <<"halt", "disable">>} /\ Tail(s) \in {<< >>, <<"disable">>}
    BY ListsByHead, ListTails
  <1> QED BY <1>1, <1>2, <1>3, <1>4, ListsByHead, ListTails

LEMMA BrokerLists ==
  /\ <<"render">> \o <<"enable", "runOrWarn">> = <<"render", "enable", "runOrWarn">>
  /\ <<"render">> \o <<"halt", "disable">> = <<"render", "halt", "disable">>
  <1> DEFINE S == {"render", "enable", "runOrWarn", "halt", "disable"}
  <1>1. ASSUME NEW a \in S, NEW b \in S PROVE <<"render">> \o <<a, b>> = <<"render", a, b>>
    <2> DEFINE s == <<"render">>
               t == <<a, b>>
               u == s \o t
    <2>1. s \in Seq(S) /\ t \in Seq(S) /\ Len(s) = 1 /\ Len(t) = 2 /\ s[1] = "render" /\ t[1] = a /\ t[2] = b
      BY <1>1
    <2> HIDE DEF s, t
    <2>2. /\ u \in Seq(S) /\ Len(u) = 1 + 2
          /\ \A i \in 1 .. 1 + 2 : u[i] = IF i <= 1 THEN s[i] ELSE t[i - 1]
      BY <2>1, ConcatProperties
    <2> HIDE DEF u
    <2>3. Len(u) = 3 /\ u[1] = "render" /\ u[2] = a /\ u[3] = b
      BY <2>1, <2>2
    <2>4. <<"render", a, b>> \in Seq(S) /\ Len(<<"render", a, b>>) = 3
      BY <1>1
    <2>5. \A i \in 1..Len(u) : u[i] = <<"render", a, b>>[i]
      BY <2>3
    <2>6. u = <<"render", a, b>>
      BY <2>2, <2>3, <2>4, <2>5, SeqEqual
    <2> QED BY <2>6 DEF u, s, t
  <1> QED BY <1>1

\* The whole list an apply begins with.
LEMMA StepsPlaced ==
  ASSUME svcKind \in SvcKinds, NEW w, w.on \in BOOLEAN
  PROVE  StepsOf(w) \in Places(svcKind, w.on, w.cfg)
  <1>1. CASE svcKind \in {"sshd", "web", "time"}
    BY <1>1 DEF StepsOf, Places, SshdApply, WebApply, TimeApply, SwitchedOn, SwitchedOff
  <1>2. CASE svcKind = "mqtt"
    BY <1>2, BrokerLists DEF StepsOf, Places, MqttApply, BrokerOn, BrokerOff
  <1>3. CASE svcKind = "container"
    BY <1>3 DEF StepsOf, Places, ContainerApply, ContainersOn, ContainersOff
  <1>4. CASE svcKind \in {"dns", "ifupdown"}
    BY <1>4 DEF StepsOf, Places, DnsApply, IfupdownApply, Resolver, Interfaces
  <1>5. CASE svcKind = "user"
    BY <1>5 DEF StepsOf, Places, UserUnitApply, UserOn, UserOff, UserGone
  <1> QED BY <1>1, <1>2, <1>3, <1>4, <1>5, ServiceAssumption

LEMMA NoSvcJobIs ==
  /\ NoSvcJob \in SvcJobs /\ ~NoSvcJob.begun /\ NoSvcJob.steps = << >> /\ ~NoSvcJob.changed
  /\ << >> \in SvcLists
  BY DEF NoSvcJob, SvcJobs, SvcLists, SwitchedOn

LEMMA SvcFields ==
  ASSUME SvcTypeOK, SvcJobInv
  PROVE  /\ svcKind \in {"sshd", "web", "time", "mqtt", "container", "dns", "ifupdown", "user"}
         /\ svcJob.begun \in BOOLEAN /\ svcJob.steps \in SvcLists /\ svcJob.on \in BOOLEAN
         /\ svcJob.cfg \in SvcCfgs \cup {NoCfg} /\ svcJob.changed \in BOOLEAN
         /\ svcJob.started \in BOOLEAN
         /\ unit.state \in {"inactive", "active", "failed"} /\ unit.runs \in SvcCfgs \cup {NoCfg}
         /\ svcJob.steps # << >> => svcJob.begun
         /\ svcJob.begun /\ svcJob.cfg = NoCfg => svcKind = "user" /\ ~svcJob.on
  <1>1. svcJob \in SvcJobs /\ unit \in [state : {"inactive", "active", "failed"}, runs : SvcCfgs \cup {NoCfg}]
    BY DEF SvcTypeOK, SvcJobInv
  <1>2. svcJob.steps # << >> => svcJob.begun
    BY NoSvcJobIs DEF SvcJobInv
  <1>3. svcJob.begun /\ svcJob.cfg = NoCfg => svcKind = "user" /\ ~svcJob.on
    <2> SUFFICES ASSUME svcJob.begun, svcJob.cfg = NoCfg PROVE svcKind = "user" /\ ~svcJob.on
      OBVIOUS
    <2> DEFINE x == SvcCopy
    <2>1. x \in Wants /\ x.cfg = NoCfg /\ x.on = svcJob.on
      BY DEF SvcJobInv, SvcCopy
    <2> HIDE DEF x
    <2>2. x \notin [on : BOOLEAN, cfg : SvcCfgs]
      BY <2>1, ServiceAssumption
    <2>3. svcKind = "user" /\ x = [on |-> FALSE, cfg |-> NoCfg]
      BY <2>1, <2>2 DEF Wants
    <2> QED BY <2>1, <2>3
  <1> QED BY <1>1, <1>2, <1>3, ServiceAssumption DEF SvcTypeOK, SvcJobs

LEMMA UnitsTyped ==
  ASSUME SvcTypeOK
  PROVE  /\ UnitStopped \in [state : {"inactive", "active", "failed"}, runs : SvcCfgs \cup {NoCfg}]
         /\ UnitStarted \in [state : {"inactive", "active", "failed"}, runs : SvcCfgs \cup {NoCfg}]
         /\ UnitStopped.state = "inactive" /\ UnitStarted.state = "active" /\ UnitStarted.runs = unitFile
  BY DEF SvcTypeOK, UnitStopped, UnitStarted

LEMMA SvcStart == SvcInit => SvcInv
  <1> SUFFICES ASSUME SvcInit PROVE SvcInv
    OBVIOUS
  <1>1. /\ unit \in [state : {"inactive", "active", "failed"}, runs : SvcCfgs \cup {NoCfg}]
        /\ unit.runs = NoCfg /\ (UnitActive <=> svcKind \in {"dns", "ifupdown"})
    BY DEF SvcInit, UnitStopped, UnitActive
  <1>2. SvcTypeOK
    BY <1>1 DEF SvcInit, SvcTypeOK, Wants
  <1>3. SvcJobInv
    BY NoSvcJobIs, NotUnrendered DEF SvcInit, SvcJobInv
  <1>4. RunsFile /\ AlwaysUp /\ RecordTrue
    BY <1>1 DEF SvcInit, RunsFile, AlwaysUp, RecordTrue
  <1> QED BY <1>2, <1>3, <1>4, NoSvcJobIs DEF SvcInit, SvcInv, Reached, Drained, Converged, SvcRest

\* An apply that failed, or was cut.
LEMMA CutShort ==
  ASSUME SvcInv, svcJob' = NoSvcJob, missed' = TRUE, SvcTypeOK', svcKind' = svcKind,
         svcKind = "dns" => unit'.state = "active",
         svcKind = "user" /\ noted' = "on" => unitFile' # NoCfg
  PROVE  SvcInv'
  BY NoSvcJobIs, NotUnrendered DEF SvcJobInv, AlwaysUp, UnitActive, Drained, SvcInv, RunsFile, RecordTrue,
     Reached, Converged

\* A step of an apply that goes on.
Went(t) ==
  /\ svcJob' \in SvcJobs /\ svcJob'.begun /\ svcJob'.steps = t
  /\ svcJob'.on = svcJob.on /\ svcJob'.cfg = svcJob.cfg

LEMMA OnwardIs ==
  ASSUME SvcInv, svcJob.steps # << >>, SvcOnward
  PROVE  /\ Went(Tail(svcJob.steps)) /\ svcJob'.changed = svcJob.changed
         /\ svcJob'.started = svcJob.started
         /\ Tail(svcJob.steps) \in Places(svcKind, svcJob.on, svcJob.cfg)
  <1> DEFINE t == Tail(svcJob.steps)
  <1>1. svcJob \in SvcJobs /\ svcJob.begun
    BY SvcFields DEF SvcInv, SvcJobInv
  <1>2. t \in Places(svcKind, svcJob.on, svcJob.cfg) /\ t \in SvcLists
    BY <1>1, PlacesTail, PlacesListed, SvcFields DEF SvcInv, SvcJobInv
  <1>3. svcJob' = [svcJob EXCEPT !.steps = t]
    BY DEF SvcOnward
  <1> HIDE DEF t
  <1> QED BY <1>1, <1>2, <1>3 DEF SvcJobs, Went, t

LEMMA GoesOn ==
  ASSUME SvcInv, svcJob.begun, NEW t \in Places(svcKind, svcJob.on, svcJob.cfg), Went(t), SvcQuiet,
         t \in Unrendered => ~svcJob'.changed,
         svcKind # "container" /\ svcJob.cfg # NoCfg /\ t \notin Unrendered => unitFile' = svcJob.cfg
  PROVE  SvcJobInv' /\ Converged'
  BY NoSvcJobIs DEF Went, SvcCopy, SvcQuiet, Wants, SvcInv, SvcJobInv, Converged, SvcRest

\* The head of what is left, and whose step it is.
LEMMA SvcAt ==
  ASSUME SvcInv, NEW x, SvcStep(x)
  PROVE  /\ svcJob.steps # << >> /\ svcJob.begun /\ Head(svcJob.steps) = x
         /\ svcJob.steps \in SvcLists /\ svcJob.steps \in Places(svcKind, svcJob.on, svcJob.cfg)
         /\ svcJob.on \in BOOLEAN
  BY SvcFields DEF SvcInv, SvcStep, SvcJobInv

LEMMA RecordKept ==
  ASSUME SvcTypeOK, KeepRecord
  PROVE  noted' \in {"none", "off", "on"} /\ (noted' = "on" <=> noted = "on")
  BY DEF SvcTypeOK, KeepRecord

LEMMA RenderStep == ASSUME SvcInv, RenderFile PROVE SvcInv'
  <1>0. SvcTypeOK /\ SvcJobInv /\ RunsFile /\ AlwaysUp /\ RecordTrue
    BY DEF SvcInv
  <1>1. /\ svcJob.steps # << >> /\ svcJob.begun /\ Head(svcJob.steps) = "render"
        /\ svcJob.steps \in SvcLists /\ svcJob.steps \in Places(svcKind, svcJob.on, svcJob.cfg)
        /\ svcJob.on \in BOOLEAN
    BY SvcAt DEF RenderFile
  <1> DEFINE t == Tail(svcJob.steps)
  <1>2. svcJob.steps \in Unrendered /\ t \notin Unrendered \cup Acted
    BY <1>1, ListHeads
  <1>3. svcKind # "container" /\ svcJob.cfg # NoCfg
    BY <1>0, <1>1, PlaceHeads, SvcFields
  <1>4. /\ listed' = listed /\ svcMembers' = svcMembers /\ SvcQuiet /\ unit' = unit
        /\ svcKind' = svcKind /\ want' = want /\ svcWaiting' = svcWaiting /\ svcRetrying' = svcRetrying
        /\ noted' \in {"none", "off", "on"} /\ (noted' = "on" <=> noted = "on")
    BY <1>0, RecordKept DEF RenderFile, SvcQuiet
  <1>5. CASE SvcFails
    <2>1. SvcTypeOK' /\ unitFile' \in {unitFile, svcJob.cfg}
      BY <1>0, <1>4, <1>5, SvcFields DEF SvcTypeOK, SvcFails, RenderFile, Wants
    <2> QED BY <1>0, <1>3, <1>4, <1>5, <2>1, CutShort DEF SvcFails, AlwaysUp, RecordTrue, UnitActive
  <1>6. CASE /\ unitFile' = svcJob.cfg
             /\ svcJob' = [svcJob EXCEPT !.steps = Tail(@), !.changed = unitFile # svcJob.cfg]
             /\ UNCHANGED <<unit, svcOutcome, missed, svcUsed>>
    <2>1. t \in Places(svcKind, svcJob.on, svcJob.cfg) /\ t \in SvcLists
      BY <1>1, PlacesTail, PlacesListed
    <2> DEFINE c == unitFile # svcJob.cfg
    <2>2. svcJob' = [svcJob EXCEPT !.steps = t, !.changed = c] /\ c \in BOOLEAN
      BY <1>6
    <2>3. svcJob \in SvcJobs /\ ~svcJob.changed
      BY <1>0, <1>2 DEF SvcJobInv
    <2> HIDE DEF t, c
    <2>4. Went(t) /\ svcJob'.changed = c
      BY <1>1, <2>1, <2>2, <2>3 DEF Went, SvcJobs
    <2>5. SvcJobInv' /\ Converged'
      BY <1>1, <1>2, <1>4, <1>6, <2>1, <2>4, GoesOn
    <2>6. SvcTypeOK'
      BY <1>0, <1>4, <1>6, SvcFields DEF SvcTypeOK, Wants
    <2>7. RunsFile'
      BY <1>0, <1>4, <1>6, <2>3, <2>4 DEF RunsFile, UnitActive, c
    <2>8. AlwaysUp'
      <3>1. svcKind = "ifupdown" /\ t \notin {<<"render", "up">>, <<"up">>} =>
              svcJob.steps \notin {<<"render", "up">>, <<"up">>}
        BY <1>1, ListTails, ListFirsts DEF t
      <3> QED BY <1>0, <1>4, <1>6, <2>4, <3>1 DEF AlwaysUp, UnitActive, Went
    <2>9. RecordTrue'
      BY <1>0, <1>3, <1>4, <1>6 DEF RecordTrue, UnitActive
    <2>10. Reached' /\ Drained'
      BY <1>2, <1>3, <1>4, <2>4 DEF Reached, Drained, Went, t
    <2> QED BY <2>5, <2>6, <2>7, <2>8, <2>9, <2>10 DEF SvcInv
  <1> QED BY <1>5, <1>6 DEF RenderFile

\* A step after which the unit is where it is to be.
LEMMA Arrives ==
  ASSUME SvcInv, svcJob.begun, NEW t \in Acted, t \in Places(svcKind, svcJob.on, svcJob.cfg), Went(t),
         SvcQuiet, SvcTypeOK',
         svcKind # "container" /\ svcJob.cfg # NoCfg => unitFile' = svcJob.cfg,
         missed' \/ JobAgrees',
         svcKind = "dns" => UnitActive',
         svcKind = "user" => RecordTrue'
  PROVE  SvcInv'
  BY NotActed, GoesOn, SvcFields DEF SvcQuiet, JobAgrees, Went, SvcInv, AlwaysOn, RunsFile, AlwaysUp,
     Reached, Drained, RecordTrue

\* A step that leaves the unit alone.
LEMMA Passes ==
  ASSUME SvcInv, svcJob.begun, NEW t \in Places(svcKind, svcJob.on, svcJob.cfg), t \notin Acted \cup Unrendered,
         Went(t), svcJob'.changed = svcJob.changed, SvcQuiet, SvcTypeOK', svcJob.steps \notin Unrendered,
         svcKind # "ifupdown", unit' = unit, missed' = missed, unitFile' = unitFile,
         noted' = "on" <=> noted = "on", Drained'
  PROVE  SvcInv'
  BY GoesOn DEF SvcQuiet, SvcInv, SvcJobInv, RunsFile, AlwaysUp, RecordTrue, UnitActive, Reached, Went

\* A call to the service manager and what it leaves of the types.
LEMMA CallTyped ==
  ASSUME SvcInv, NEW x \in [state : {"inactive", "active", "failed"}, runs : SvcCfgs \cup {NoCfg}],
         unit' \in {unit, x}, SvcQuiet,
         unitFile' = unitFile, listed' \in BOOLEAN, svcMembers' \in BOOLEAN, missed' \in BOOLEAN,
         noted' \in {"none", "off", "on"}, svcOutcome' \in {svcOutcome, "failed"}
  PROVE  SvcTypeOK'
  BY DEF SvcInv, SvcTypeOK, SvcQuiet, Wants

\* A call that failed, whether it was carried out or not.
LEMMA CallFailed ==
  ASSUME SvcInv, NEW x \in [state : {"inactive", "active", "failed"}, runs : SvcCfgs \cup {NoCfg}],
         unit' \in {unit, x}, SvcFails, SvcQuiet, svcKind = "dns" => x.state = "active",
         unitFile' = unitFile, listed' \in BOOLEAN, svcMembers' \in BOOLEAN,
         noted' \in {"none", "off", "on"}, noted' = "on" <=> noted = "on"
  PROVE  SvcInv'
  BY CallTyped, CutShort DEF SvcFails, SvcQuiet, SvcInv, AlwaysUp, UnitActive, RecordTrue

\* The steps that start, restart, reload or stop the unit, for the services of the image.
LEMMA UnitStep ==
  ASSUME SvcInv, RunUnit \/ RunOrWarn \/ HaltUnit \/ ReloadDns \/ IfUp
  PROVE  SvcInv'
  <1>0. SvcTypeOK /\ SvcJobInv /\ RunsFile /\ AlwaysUp
    BY DEF SvcInv
  <1>1. PICK x \in {"run", "runOrWarn", "halt", "reload", "up"} : SvcStep(x)
    BY DEF RunUnit, RunOrWarn, HaltUnit, ReloadDns, IfUp
  <1>2. /\ svcJob.steps # << >> /\ svcJob.begun /\ Head(svcJob.steps) = x
        /\ svcJob.steps \in SvcLists /\ svcJob.steps \in Places(svcKind, svcJob.on, svcJob.cfg)
        /\ svcJob.on \in BOOLEAN
    BY <1>1, SvcAt
  <1> DEFINE t == Tail(svcJob.steps)
             Wanted == svcJob.on \/ svcKind \in AlwaysOn
             after == IF Wanted THEN UnitStarted ELSE UnitStopped
  <1>3. t \in Acted /\ svcJob.steps \notin Unrendered
    BY <1>2, ListHeads, NotActed, NotUnrendered
  <1>4. /\ (svcKind # "user" /\ svcKind # "container") \/ x = "halt"
        /\ svcKind # "user"
        /\ (x = "halt" <=> ~Wanted)
        /\ (svcKind = "dns" <=> x = "reload")
        /\ svcJob.cfg # NoCfg
    BY <1>0, <1>2, PlaceHeads, SvcFields DEF AlwaysOn
  <1>5. /\ unitFile' = unitFile /\ listed' = listed /\ noted' = noted /\ svcMembers' = svcMembers
        /\ SvcQuiet /\ svcKind' = svcKind
    BY DEF RunUnit, RunOrWarn, HaltUnit, ReloadDns, IfUp, SvcQuiet
  <1>6. svcKind # "container" => unitFile = svcJob.cfg
    BY <1>0, <1>2, <1>3, <1>4 DEF SvcJobInv
  <1>7. after \in [state : {"inactive", "active", "failed"}, runs : SvcCfgs \cup {NoCfg}]
    BY <1>0, UnitsTyped
  <1>8. /\ after.state = (IF Wanted THEN "active" ELSE "inactive")
        /\ Wanted => after.runs = unitFile
    BY <1>0, UnitsTyped
  <1>9. \/ unit' \in {unit, after} /\ SvcFails
        \/ SvcOnward /\ svcOutcome' = svcOutcome /\ missed' = TRUE /\ unit' = unit /\ svcKind # "dns"
        \/ SvcOnward /\ svcOutcome' = svcOutcome /\ unit' = after /\ missed' = (missed /\ after = unit)
        \/ /\ SvcOnward /\ svcOutcome' = svcOutcome /\ unit' = unit /\ missed' = missed
           /\ \/ Wanted /\ UnitActive /\ ~svcJob.changed
              \/ ~Wanted /\ ~UnitActive
    BY <1>2, <1>4, <1>0 DEF RunUnit, RunOrWarn, HaltUnit, ReloadDns, IfUp, SvcStep, SvcNothing, UnitCall,
       UnitCallOrWarn, AlwaysUp
  <1> HIDE DEF after
  <1>10. CASE unit' \in {unit, after} /\ SvcFails
    BY <1>0, <1>4, <1>5, <1>7, <1>8, <1>10, CallFailed DEF AlwaysOn, SvcTypeOK
  <1>11. CASE SvcOnward /\ ~(unit' \in {unit, after} /\ SvcFails)
    <2>1. Went(t) /\ t \in Places(svcKind, svcJob.on, svcJob.cfg)
      BY <1>2, <1>11, OnwardIs
    <2>2. svcOutcome' = svcOutcome /\ missed' \in BOOLEAN /\ unit' \in {unit, after}
      BY <1>0, <1>9, <1>11 DEF SvcTypeOK
    <2>3. SvcTypeOK'
      BY <1>0, <1>5, <1>7, <2>2, CallTyped DEF SvcTypeOK
    <2>4. missed' \/ JobAgrees'
      BY <1>5, <2>1, <1>6, <1>8, <1>0, <1>9, <1>11, <2>2 DEF JobAgrees, Went, UnitActive, RunsFile
    <2>5. svcKind = "dns" => UnitActive'
      BY <1>0, <1>4, <1>5, <1>8, <2>2 DEF AlwaysUp, UnitActive
    <2> HIDE DEF t
    <2> QED BY <1>2, <1>3, <1>4, <1>5, <1>6, <2>1, <2>3, <2>4, <2>5, Arrives
  <1> QED BY <1>9, <1>10, <1>11

\* The list of the units a boot starts, and the containers' steps that leave the unit alone.
LEMMA ListStep ==
  ASSUME SvcInv, EnableUnit \/ DisableUnit \/ ServiceReady \/ StartMembers \/ DrainMembers
  PROVE  SvcInv'
  <1>0. SvcTypeOK /\ SvcJobInv /\ RunsFile /\ AlwaysUp /\ RecordTrue /\ Reached /\ Drained
    BY DEF SvcInv
  <1>1. PICK x \in {"enable", "disable", "ready", "members", "drain"} : SvcStep(x)
    BY DEF EnableUnit, DisableUnit, ServiceReady, StartMembers, DrainMembers
  <1>2. /\ svcJob.steps # << >> /\ svcJob.begun /\ Head(svcJob.steps) = x
        /\ svcJob.steps \in SvcLists /\ svcJob.steps \in Places(svcKind, svcJob.on, svcJob.cfg)
        /\ svcJob.on \in BOOLEAN
    BY <1>1, SvcAt
  <1> DEFINE t == Tail(svcJob.steps)
  <1>3. /\ svcKind \in {"mqtt", "container", "user"}
        /\ x \in {"ready", "members", "drain"} => svcKind = "container"
    BY <1>0, <1>2, PlaceHeads, SvcFields
  <1>4. /\ unitFile' = unitFile /\ unit' = unit /\ SvcQuiet /\ svcKind' = svcKind
        /\ noted' \in {"none", "off", "on"} /\ (noted' = "on" <=> noted = "on")
    BY <1>0, RecordKept DEF EnableUnit, DisableUnit, ServiceReady, StartMembers, DrainMembers, SvcQuiet,
                            SvcNothing, SvcTypeOK
  <1>5. listed' \in BOOLEAN
    BY <1>0 DEF EnableUnit, DisableUnit, ServiceReady, StartMembers, DrainMembers, SvcTypeOK
  <1>6. svcMembers' \in BOOLEAN /\ (svcMembers' = svcMembers \/ x \in {"members", "drain"})
    BY <1>0, <1>2, SvcFields
       DEF EnableUnit, DisableUnit, ServiceReady, StartMembers, DrainMembers, SvcTypeOK, SvcStep
  <1>7. /\ unit \in [state : {"inactive", "active", "failed"}, runs : SvcCfgs \cup {NoCfg}]
        /\ svcKind # "dns"
    BY <1>0, <1>3 DEF SvcTypeOK
  <1>8. CASE SvcFails
    BY <1>4, <1>5, <1>6, <1>7, <1>8, CallFailed
  <1>9. CASE SvcNothing
    <2>1. /\ Went(t) /\ svcJob'.changed = svcJob.changed
          /\ t \in Places(svcKind, svcJob.on, svcJob.cfg)
      BY <1>2, <1>9, OnwardIs DEF SvcNothing
    <2>2. missed' = missed /\ svcOutcome' = svcOutcome
      BY <1>9 DEF SvcNothing
    <2>3. SvcTypeOK'
      BY <1>0, <1>4, <1>5, <1>6, <1>7, <2>2, CallTyped DEF SvcTypeOK
    <2>4. CASE svcJob.steps \in Acted
      <3>1. t \in Acted /\ svcJob.steps \notin Unrendered
        BY <1>2, <2>4, ListTails, NotActed DEF Acted
      <3>2. missed' \/ JobAgrees'
        BY <1>0, <1>2, <1>4, <2>1, <2>2, <2>4 DEF Reached, JobAgrees, Went, UnitActive
      <3>3. svcKind = "user" => RecordTrue'
        BY <1>0, <1>4, <2>2 DEF RecordTrue, UnitActive
      <3>4. svcKind # "container" /\ svcJob.cfg # NoCfg => unitFile' = svcJob.cfg
        BY <1>0, <1>2, <1>4, <3>1 DEF SvcJobInv
      <3> HIDE DEF t
      <3> QED BY <1>2, <1>4, <1>7, <2>1, <2>3, <3>1, <3>2, <3>3, <3>4, Arrives
    <2>5. CASE svcJob.steps \notin Acted
      <3>1. svcJob.steps \notin Unrendered /\ t \notin Acted \cup Unrendered
        <4>1. CASE x = "enable"
          BY <1>2, <4>1, ListHeads, NotActed, NotUnrendered
        <4>2. CASE x = "disable"
          BY <1>2, <2>5, <4>2, ListHeads, NotActed, NotUnrendered
        <4>3. CASE x = "drain"
          <5>1. svcJob.steps = <<"drain", "halt", "disable">> /\ t = <<"halt", "disable">>
            BY <1>2, <4>3, ListHeads
          <5>2. <<"drain", "halt", "disable">> \notin Unrendered
            BY DEF Unrendered
          <5> QED BY <5>1, <5>2, NotActed, NotUnrendered
        <4>4. CASE x \in {"ready", "members"}
          BY <1>2, <2>5, <4>4, ListHeads, NotActed
        <4> QED BY <4>1, <4>2, <4>3, <4>4
      <3>2. Drained'
        <4> SUFFICES ASSUME svcKind = "container", t = <<"halt", "disable">>, UnitActive PROVE ~svcMembers'
          BY <1>4, <2>1 DEF Drained, Went, UnitActive
        <4>1. x = "drain"
          <5>1. x \notin {"ready", "members"}
            BY <1>2, <2>5, ListHeads, NotActed
          <5>2. x # "enable"
            BY <1>2, ListHeads
          <5>3. x # "disable"
            <6>1. <<"halt", "disable">> \notin {<< >>, <<"act">>}
              OBVIOUS
            <6> QED BY <1>2, <6>1, ListHeads
          <5> QED BY <5>1, <5>2, <5>3
        <4>2. DrainMembers
          BY <1>2, <4>1 DEF EnableUnit, DisableUnit, ServiceReady, StartMembers, DrainMembers, SvcStep
        <4>3. ~SvcFails
          BY <2>1, NoSvcJobIs DEF SvcFails, Went
        <4> QED BY <4>2, <4>3 DEF DrainMembers
      <3> HIDE DEF t
      <3> QED BY <1>2, <1>3, <1>4, <2>1, <2>2, <2>3, <3>1, <3>2, Passes
    <2> QED BY <2>4, <2>5
  <1> QED BY <1>8, <1>9 DEF EnableUnit, DisableUnit, ServiceReady, StartMembers, DrainMembers

LEMMA LaunchStep == ASSUME SvcInv, LaunchService PROVE SvcInv'
  <1>0. SvcTypeOK /\ SvcJobInv
    BY DEF SvcInv
  <1>1. /\ svcJob.steps # << >> /\ svcJob.begun /\ Head(svcJob.steps) = "launch"
        /\ svcJob.steps \in SvcLists /\ svcJob.steps \in Places(svcKind, svcJob.on, svcJob.cfg)
        /\ svcJob.on \in BOOLEAN
    BY SvcAt DEF LaunchService
  <1> DEFINE t == Tail(svcJob.steps)
  <1>2. svcKind = "container" /\ svcJob.on /\ t = <<"ready", "members">> /\ t \in Acted
        /\ t \in Places(svcKind, svcJob.on, svcJob.cfg) /\ t \in SvcLists
    <2>1. svcKind = "container" /\ svcJob.on
      BY <1>1, PlaceHeads
    <2>2. t = <<"ready", "members">>
      BY <1>1, ListHeads
    <2>3. t \in Places(svcKind, svcJob.on, svcJob.cfg)
      BY <1>1, PlacesTail
    <2>4. t \in SvcLists
      BY <1>1, <2>3, PlacesListed
    <2> QED BY <2>1, <2>2, <2>3, <2>4, NotActed
  <1>3. /\ unitFile' = unitFile /\ listed' = listed /\ noted' = noted /\ svcMembers' = svcMembers
        /\ SvcQuiet /\ svcKind' = svcKind
    BY DEF LaunchService, SvcQuiet
  <1>4. /\ UnitStarted \in [state : {"inactive", "active", "failed"}, runs : SvcCfgs \cup {NoCfg}]
        /\ UnitStarted.state = "active"
    BY <1>0, UnitsTyped
  <1>5. CASE unit' \in {unit, UnitStarted} /\ SvcFails
    BY <1>0, <1>2, <1>3, <1>4, <1>5, CallFailed DEF SvcTypeOK
  <1>6. CASE /\ unit' \in {unit, UnitStarted} /\ unit'.state = "active" /\ Went(t)
             /\ svcOutcome' = svcOutcome /\ missed' = missed
    <2>1. SvcTypeOK'
      BY <1>0, <1>3, <1>4, <1>6, CallTyped DEF SvcTypeOK
    <2>2. JobAgrees'
      BY <1>2, <1>3, <1>6 DEF JobAgrees, Went, UnitActive
    <2> HIDE DEF t
    <2> QED BY <1>1, <1>2, <1>3, <1>6, <2>1, <2>2, Arrives
  <1>7. CASE UnitActive /\ SvcNothing
    BY <1>1, <1>6, <1>7, OnwardIs DEF SvcNothing, UnitActive
  <1>8. CASE /\ unit' = UnitStarted
             /\ svcJob' = [svcJob EXCEPT !.steps = Tail(@), !.started = TRUE]
             /\ UNCHANGED <<svcOutcome, svcUsed, missed>>
    <2>1. svcJob \in SvcJobs /\ svcJob' = [svcJob EXCEPT !.steps = t, !.started = TRUE]
      BY <1>0, <1>8 DEF SvcJobInv
    <2>2. Went(t)
      <3> HIDE DEF t
      <3> QED BY <1>1, <1>2, <2>1 DEF Went, SvcJobs
    <2> QED BY <1>4, <1>6, <1>8, <2>2
  <1> QED BY <1>5, <1>7, <1>8 DEF LaunchService

LEMMA IfDownStep == ASSUME SvcInv, IfDown PROVE SvcInv'
  <1>0. SvcTypeOK /\ SvcJobInv /\ RunsFile /\ AlwaysUp
    BY DEF SvcInv
  <1>1. /\ svcJob.steps # << >> /\ svcJob.begun /\ Head(svcJob.steps) = "down"
        /\ svcJob.steps \in SvcLists /\ svcJob.steps \in Places(svcKind, svcJob.on, svcJob.cfg)
        /\ svcJob.on \in BOOLEAN
    BY SvcAt DEF IfDown
  <1>2. /\ svcKind = "ifupdown" /\ svcJob.steps = <<"down", "render", "up">>
        /\ Tail(svcJob.steps) = <<"render", "up">>
    BY <1>1, PlaceHeads, ListHeads
  <1>3. /\ unitFile' = unitFile /\ listed' = listed /\ noted' = noted /\ svcMembers' = svcMembers
        /\ SvcQuiet /\ svcKind' = svcKind
    BY DEF IfDown, SvcQuiet
  <1>4. svcJob \in SvcJobs /\ ~svcJob.changed
    BY <1>0, <1>2, NotUnrendered DEF SvcJobInv
  <1>5. CASE /\ unitFile = svcJob.cfg /\ svcJob' = [svcJob EXCEPT !.steps = << >>]
             /\ UNCHANGED <<unit, svcOutcome, missed, svcUsed>>
    <2>1. Went(<< >>)
      BY <1>1, <1>4, <1>5, NoSvcJobIs DEF Went, SvcJobs
    <2>2. << >> \in Places(svcKind, svcJob.on, svcJob.cfg) /\ << >> \in Acted
      BY <1>2, NotActed DEF Places, Interfaces
    <2>3. SvcTypeOK'
      BY <1>0, <1>3, <1>5, CallTyped DEF SvcTypeOK
    <2>4. missed' \/ JobAgrees'
      BY <1>2, <1>0, <1>3, <1>4, <1>5, <2>1 DEF JobAgrees, Went, RunsFile, AlwaysUp, UnitActive, AlwaysOn
    <2> QED BY <1>1, <1>2, <1>3, <1>5, <2>1, <2>2, <2>3, <2>4, Arrives
  <1>6. CASE UnitCallOrWarn(UnitStopped)
    <2>1. /\ Went(<<"render", "up">>) /\ svcJob'.changed = svcJob.changed
          /\ <<"render", "up">> \in Places(svcKind, svcJob.on, svcJob.cfg)
      BY <1>1, <1>2, <1>6, OnwardIs DEF UnitCallOrWarn
    <2>2. /\ unit' \in {unit, UnitStopped} /\ missed' \in BOOLEAN /\ svcOutcome' = svcOutcome
          /\ missed' \/ unit' = UnitStopped
      BY <1>0, <1>6 DEF UnitCallOrWarn, SvcTypeOK
    <2>3. SvcTypeOK'
      BY <1>0, <1>3, <2>2, UnitsTyped, CallTyped DEF SvcTypeOK
    <2>4. SvcJobInv' /\ Converged'
      BY <1>1, <1>3, <1>4, <2>1, GoesOn, NotUnrendered
    <2>5. RunsFile'
      BY <1>0, <2>2, UnitsTyped DEF RunsFile, UnitActive
    <2>6. AlwaysUp' /\ Drained' /\ RecordTrue'
      BY <1>2, <1>3, <2>1 DEF AlwaysUp, Went, Drained, RecordTrue
    <2>7. Reached'
      BY <2>1, NotActed DEF Reached, Went
    <2> QED BY <2>3, <2>4, <2>5, <2>6, <2>7 DEF SvcInv
  <1> QED BY <1>5, <1>6 DEF IfDown

LEMMA ActStep == ASSUME SvcInv, ActUnit PROVE SvcInv'
  <1>0. SvcTypeOK /\ SvcJobInv /\ RunsFile /\ RecordTrue
    BY DEF SvcInv
  <1>1. /\ svcJob.steps # << >> /\ svcJob.begun /\ Head(svcJob.steps) = "act"
        /\ svcJob.steps \in SvcLists /\ svcJob.steps \in Places(svcKind, svcJob.on, svcJob.cfg)
        /\ svcJob.on \in BOOLEAN
    BY SvcAt DEF ActUnit
  <1>2. svcJob.steps = <<"act">> /\ Tail(svcJob.steps) = << >>
    BY <1>1, ListHeads
  <1>3. svcKind = "user" /\ svcJob.cfg # NoCfg
    BY <1>0, <1>1, PlaceHeads, SvcFields
  <1>4. unitFile = svcJob.cfg
    BY <1>0, <1>1, <1>2, <1>3, NotUnrendered DEF SvcJobInv
  <1>5. /\ unitFile' = unitFile /\ listed' = listed /\ svcMembers' = svcMembers
        /\ SvcQuiet /\ svcKind' = svcKind
    BY DEF ActUnit, SvcQuiet
  <1> DEFINE after == IF ~svcJob.on THEN UnitStopped
                      ELSE IF noted # "on" /\ UnitActive THEN unit ELSE UnitStarted
  <1>6. /\ after \in [state : {"inactive", "active", "failed"}, runs : SvcCfgs \cup {NoCfg}]
        /\ after.state = (IF svcJob.on THEN "active" ELSE "inactive")
        /\ svcJob.on => after.runs = unitFile \/ (noted # "on" /\ after = unit)
    BY <1>0, UnitsTyped DEF SvcTypeOK, UnitActive
  <1>7. \/ unit' \in {unit, after} /\ SvcFails
        \/ SvcOnward /\ svcOutcome' = svcOutcome /\ unit' = after /\ missed' = (missed /\ after = unit)
        \/ /\ SvcOnward /\ svcOutcome' = svcOutcome /\ unit' = unit /\ missed' = missed
           /\ (svcJob.on <=> noted = "on") /\ (svcJob.on => ~svcJob.changed)
    BY DEF ActUnit, SvcNothing, UnitCall
  <1> HIDE DEF after
  <1>8. CASE unit' \in {unit, after} /\ SvcFails
    BY <1>0, <1>8, RecordKept, <1>3, <1>5, <1>6, CallFailed DEF ActUnit, SvcFails, SvcTypeOK
  <1>9. CASE SvcOnward /\ ~(unit' \in {unit, after} /\ SvcFails)
    <2>1. Went(<< >>) /\ << >> \in Places(svcKind, svcJob.on, svcJob.cfg)
      BY <1>1, <1>2, <1>9, OnwardIs
    <2>2. svcOutcome' = svcOutcome /\ missed' \in BOOLEAN /\ unit' \in {unit, after}
      BY <1>0, <1>7, <1>9 DEF SvcTypeOK
    <2>3. noted' = (IF svcJob.on THEN "on" ELSE "off")
      BY <2>1, NoSvcJobIs DEF ActUnit, Went
    <2>4. SvcTypeOK'
      BY <1>0, <1>5, <1>6, <2>2, <2>3, CallTyped DEF SvcTypeOK
    <2>5. ~missed' => /\ unit'.state = "active" <=> svcJob.on
                      /\ unit'.state = "active" => unit'.runs = svcJob.cfg
      BY <1>0, <1>3, <1>6, <1>4, <1>7, <1>9 DEF RecordTrue, UnitActive, RunsFile
    <2>6. missed' \/ JobAgrees'
      BY <1>3, <1>5, <2>1, <2>5 DEF JobAgrees, Went, UnitActive, AlwaysOn
    <2>7. RecordTrue'
      BY <1>3, <1>4, <1>5, <2>3, <2>5 DEF RecordTrue, UnitActive
    <2> QED BY <1>1, <1>3, <1>4, <1>5, <2>1, <2>4, <2>6, <2>7, NotActed, Arrives
  <1> QED BY <1>7, <1>8, <1>9

LEMMA RemoveStep == ASSUME SvcInv, RemoveUnit PROVE SvcInv'
  <1>0. SvcTypeOK /\ SvcJobInv /\ RunsFile /\ RecordTrue
    BY DEF SvcInv
  <1>1. /\ svcJob.steps # << >> /\ svcJob.begun /\ Head(svcJob.steps) = "remove"
        /\ svcJob.steps \in SvcLists /\ svcJob.steps \in Places(svcKind, svcJob.on, svcJob.cfg)
        /\ svcJob.on \in BOOLEAN
    BY SvcAt DEF RemoveUnit
  <1>2. svcJob.steps = <<"remove">> /\ Tail(svcJob.steps) = << >>
    BY <1>1, ListHeads
  <1>3. svcKind = "user" /\ svcJob.cfg = NoCfg
    BY <1>0, <1>1, PlaceHeads, SvcFields
  <1>4. ~svcJob.on
    BY <1>0, <1>1, <1>3, SvcFields
  <1>5. svcMembers' = svcMembers /\ SvcQuiet /\ svcKind' = svcKind
    BY DEF RemoveUnit, SvcQuiet
  <1>6. /\ UnitStopped \in [state : {"inactive", "active", "failed"}, runs : SvcCfgs \cup {NoCfg}]
        /\ UnitStopped.state = "inactive"
    BY <1>0, UnitsTyped
  <1>7. CASE unit' \in {unit, UnitStopped} /\ SvcFails /\ UNCHANGED <<unitFile, listed, noted>>
    BY <1>0, <1>3, <1>5, <1>6, <1>7, CallFailed DEF SvcTypeOK
  <1>8. ASSUME SvcOnward, svcOutcome' = svcOutcome, missed' \in BOOLEAN, unit' \in {unit, UnitStopped},
               noted' = "none", unitFile' \in {unitFile, NoCfg}, listed' \in {listed, FALSE},
               ~missed' => unit'.state # "active"
        PROVE  SvcInv'
    <2>1. Went(<< >>) /\ << >> \in Places(svcKind, svcJob.on, svcJob.cfg)
      BY <1>1, <1>2, <1>8, OnwardIs
    <2>2. SvcTypeOK'
      BY <1>0, <1>5, <1>6, <1>8 DEF SvcTypeOK, SvcQuiet, Wants
    <2>3. missed' \/ JobAgrees'
      BY <1>3, <1>4, <1>5, <1>8, <2>1 DEF JobAgrees, Went, UnitActive, AlwaysOn
    <2>4. RecordTrue'
      BY <1>8 DEF RecordTrue, UnitActive
    <2> QED BY <1>1, <1>3, <1>5, <2>1, <2>2, <2>3, <2>4, NotActed, Arrives
  <1>9. CASE /\ noted = "none" \/ unitFile = NoCfg
             /\ noted' = "none" /\ SvcNothing /\ UNCHANGED <<unitFile, listed>>
    BY <1>0, <1>3, <1>9, <1>8 DEF RecordTrue, UnitActive, SvcNothing, SvcTypeOK
  <1>10. CASE UnitCallOrWarn(UnitStopped) /\ unitFile' = NoCfg /\ listed' = FALSE /\ noted' = "none"
    BY <1>0, <1>10, <1>6, <1>8 DEF UnitCallOrWarn, SvcTypeOK
  <1> QED BY <1>7, <1>9, <1>10 DEF RemoveUnit

\* The end of an apply that succeeded: what it reached is what was asked for, if nothing
\* was written since.
LEMMA FinishStep == ASSUME SvcInv, SvcFinish PROVE SvcInv'
  <1>0. SvcTypeOK /\ SvcJobInv /\ RunsFile /\ AlwaysUp /\ RecordTrue /\ Reached
    BY DEF SvcInv
  <1>1. /\ svcJob.begun /\ svcJob.steps = << >> /\ svcJob' = NoSvcJob /\ svcOutcome' = "ok"
        /\ svcRetrying' = FALSE /\ svcKind' = svcKind /\ want' = want /\ unitFile' = unitFile
        /\ unit' = unit /\ listed' = listed /\ noted' = noted /\ svcMembers' = svcMembers
        /\ svcWaiting' = svcWaiting /\ missed' = missed
    BY <1>0 DEF SvcFinish, SvcJobInv
  <1>2. SvcTypeOK'
    BY <1>0, <1>1 DEF SvcTypeOK, Wants
  <1>3. SvcJobInv'
    BY <1>1, NoSvcJobIs, NotUnrendered DEF SvcJobInv
  <1>4. ~missed => JobAgrees
    BY <1>0, <1>1, NotActed DEF Reached
  <1>5. RunsFile'
    BY <1>1, <1>4, <1>0, SvcFields, NotUnrendered DEF RunsFile, UnitActive, JobAgrees, AlwaysOn, SvcJobInv
  <1>6. AlwaysUp'
    BY <1>0, <1>1, <1>4 DEF AlwaysUp, UnitActive, JobAgrees, AlwaysOn
  <1>7. RecordTrue' /\ Reached' /\ Drained'
    BY <1>0, <1>1, NoSvcJobIs DEF RecordTrue, Reached, Drained, UnitActive
  <1>8. Converged'
    BY <1>1, <1>0, <1>4 DEF Converged, SvcRest, SvcJobInv, Agrees, JobAgrees, SvcWanted, UnitActive
  <1> QED BY <1>2, <1>3, <1>5, <1>6, <1>7, <1>8 DEF SvcInv

\* The settings are written, an apply begins, the retries end.
LEMMA AskStep ==
  ASSUME SvcInv, SvcWrite \/ WorkerApply \/ DeferredRun \/ DeferredEnd
  PROVE  SvcInv'
  <1>0. SvcTypeOK /\ SvcJobInv /\ RunsFile /\ AlwaysUp /\ RecordTrue /\ Reached /\ Drained /\ Converged
    BY DEF SvcInv
  <1>1. /\ svcKind' = svcKind /\ unitFile' = unitFile /\ unit' = unit /\ listed' = listed
        /\ noted' = noted /\ svcMembers' = svcMembers /\ svcOutcome' = svcOutcome /\ missed' = missed
        /\ Wants' = Wants
    BY DEF SvcWrite, WorkerApply, DeferredRun, DeferredEnd, SvcBegin, Wants
  <1>2. SvcTypeOK'
    <2>1. want' \in Wants /\ svcWaiting' \in BOOLEAN /\ svcRetrying' \in BOOLEAN
      BY <1>0 DEF SvcWrite, WorkerApply, DeferredRun, DeferredEnd, SvcBegin, SvcTypeOK
    <2> QED BY <1>0, <1>1, <2>1 DEF SvcTypeOK
  <1>3. CASE SvcWrite \/ DeferredEnd
    <2>1. /\ svcJob' = svcJob
          /\ \/ svcWaiting' = TRUE
             \/ want' = want /\ svcWaiting' = svcWaiting /\ svcOutcome = "failed"
      BY <1>3 DEF SvcWrite, DeferredEnd
    <2>2. SvcJobInv'
      BY <1>0, <1>1, <2>1 DEF SvcJobInv, SvcCopy
    <2>3. RunsFile' /\ AlwaysUp' /\ RecordTrue' /\ Reached' /\ Drained'
      BY <1>0, <1>1, <2>1 DEF RunsFile, AlwaysUp, RecordTrue, Reached, Drained, UnitActive, JobAgrees
    <2>4. Converged'
      BY <1>1, <2>1 DEF Converged, SvcRest
    <2> QED BY <1>2, <2>2, <2>3, <2>4 DEF SvcInv
  <1>4. CASE WorkerApply \/ DeferredRun
    <2>1. /\ want' = want /\ svcJob = NoSvcJob
          /\ svcJob' = [NoSvcJob EXCEPT !.begun = TRUE, !.steps = StepsOf(want),
                                        !.on = want.on, !.cfg = want.cfg]
      BY <1>4 DEF WorkerApply, DeferredRun, SvcBegin
    <2> DEFINE l == StepsOf(want)
    <2>2. want.on \in BOOLEAN /\ want.cfg \in SvcCfgs \cup {NoCfg} /\ want \in Wants
          /\ want = [on |-> want.on, cfg |-> want.cfg]
      <3>1. want \in Wants
        BY <1>0 DEF SvcTypeOK
      <3>2. want \in [on : BOOLEAN, cfg : SvcCfgs] \/ want = [on |-> FALSE, cfg |-> NoCfg]
        BY <3>1 DEF Wants
      <3>3. CASE want \in [on : BOOLEAN, cfg : SvcCfgs]
        BY <3>1, <3>3
      <3>4. CASE want = [on |-> FALSE, cfg |-> NoCfg]
        BY <3>1, <3>4
      <3> QED BY <3>2, <3>3, <3>4
    <2>3. l \in Places(svcKind, want.on, want.cfg)
      BY <1>0, <2>2, StepsPlaced DEF SvcTypeOK
    <2>4. l \in SvcLists
      BY <2>2, <2>3, PlacesListed
    <2> HIDE DEF l
    <2>5. /\ svcJob' \in SvcJobs /\ svcJob'.begun /\ svcJob'.steps = l /\ svcJob'.on = want.on
          /\ svcJob'.cfg = want.cfg /\ ~svcJob'.changed
      BY <2>1, <2>2, <2>4, NoSvcJobIs DEF SvcJobs, l
    <2>6. l \in Unrendered \/ svcKind = "container" \/ want.cfg = NoCfg
      BY BrokerLists, <1>0, SvcFields DEF l, StepsOf, SshdApply, WebApply, TimeApply, Unrendered, MqttApply,
         DnsApply, IfupdownApply, UserUnitApply
    <2>7. l \notin Acted /\ (svcKind = "container" => l # <<"halt", "disable">>)
          /\ (svcKind = "ifupdown" => l \notin {<<"render", "up">>, <<"up">>})
      BY NotActed, <2>2, ServiceAssumption, <2>6 DEF l, StepsOf, ContainerApply, Acted, IfupdownApply,
         UserUnitApply, Wants
    <2>8. SvcJobInv'
      BY <2>2, <2>5, <1>1, <2>1, <2>3, <2>6 DEF SvcCopy, SvcJobInv
    <2>9. RunsFile' /\ AlwaysUp' /\ RecordTrue'
      BY <2>1, NoSvcJobIs, <1>0, <1>1, <2>5, <2>7 DEF RunsFile, AlwaysUp, RecordTrue, UnitActive
    <2>10. Reached' /\ Drained'
      BY <1>1, <2>5, <2>7 DEF Reached, Drained
    <2>11. Converged'
      BY <2>5, NoSvcJobIs DEF Converged, SvcRest
    <2> QED BY <1>2, <2>8, <2>9, <2>10, <2>11 DEF SvcInv
  <1> QED BY <1>3, <1>4

LEMMA DownStep == ASSUME SvcInv, SvcCrash \/ SvcDies \/ SvcPowerCut PROVE SvcInv'
  <1>0. SvcTypeOK /\ SvcJobInv /\ RunsFile /\ AlwaysUp /\ RecordTrue /\ Reached /\ Drained
    BY DEF SvcInv
  <1>1. CASE SvcCrash
    <2>1. /\ UnitActive /\ svcKind \notin {"dns", "ifupdown"} /\ missed' = TRUE
          /\ unit' = [state |-> "failed", runs |-> NoCfg]
          /\ svcKind' = svcKind /\ want' = want /\ unitFile' = unitFile /\ listed' = listed
          /\ noted' = noted /\ svcMembers' = svcMembers /\ svcJob' = svcJob
          /\ svcWaiting' = svcWaiting /\ svcRetrying' = svcRetrying /\ svcOutcome' = svcOutcome
      BY <1>1 DEF SvcCrash
    <2>2. ~UnitActive'
      BY <2>1 DEF UnitActive
    <2>3. SvcTypeOK' /\ SvcJobInv'
      BY <1>0, <2>1 DEF SvcTypeOK, SvcJobInv, Wants, SvcCopy
    <2> QED BY <1>0, <2>1, <2>2, <2>3
            DEF SvcInv, RunsFile, AlwaysUp, RecordTrue, Reached, Drained, Converged
  <1>2. CASE SvcDies \/ SvcPowerCut
    BY <1>2, <1>0, UnitsTyped, CutShort DEF SvcDies, SvcPowerCut, AlwaysOn, SvcTypeOK, Wants, AlwaysUp,
       UnitActive, RecordTrue
  <1> QED BY <1>1, <1>2

LEMMA ContainerActsStep == ASSUME SvcInv, ContainerActs PROVE SvcInv'
  <1>0. SvcTypeOK /\ SvcJobInv /\ RunsFile /\ AlwaysUp /\ RecordTrue /\ Reached /\ Drained
    BY DEF SvcInv
  <1>1. /\ UnitActive /\ svcKind = "container" /\ unit' = unit /\ missed' = missed
        /\ svcKind' = svcKind /\ want' = want /\ unitFile' = unitFile /\ listed' = listed
        /\ noted' = noted /\ svcMembers' = ~svcMembers
        /\ svcWaiting' = svcWaiting /\ svcRetrying' = svcRetrying /\ svcOutcome' = svcOutcome
    BY DEF ContainerActs
  <1>2. SvcTypeOK'
    BY <1>0, <1>1 DEF SvcTypeOK, Wants
  <1>3. CASE svcJob' = svcJob
    <2>1. SvcJobInv'
      BY <1>0, <1>1, <1>3 DEF SvcJobInv, Wants, SvcCopy
    <2>2. Drained'
      BY <1>0, <1>1, <1>3 DEF ContainerActs, Drained, UnitActive
    <2> QED BY <1>0, <1>1, <1>2, <1>3, <2>1, <2>2 DEF SvcInv, RunsFile, AlwaysUp, RecordTrue, Reached, JobAgrees,
               Converged, SvcRest, Agrees, SvcWanted, UnitActive
  <1>4. CASE svcJob.steps = <<"halt", "disable">> /\ svcJob' = [svcJob EXCEPT !.late = TRUE]
    <2>1. svcJob \in SvcJobs /\ svcJob.begun
      BY <1>0, <1>4, SvcFields DEF SvcJobInv
    <2>2. /\ svcJob' \in SvcJobs /\ svcJob'.begun = svcJob.begun /\ svcJob'.steps = svcJob.steps
          /\ svcJob'.on = svcJob.on /\ svcJob'.cfg = svcJob.cfg /\ svcJob'.changed = svcJob.changed
          /\ svcJob'.late
      BY <1>4, <2>1 DEF SvcJobs
    <2>3. SvcJobInv'
      BY <1>0, <1>1, <2>1, <2>2 DEF SvcJobInv, SvcCopy, Wants
    <2> QED BY <1>0, <1>1, <1>2, <2>1, <2>2, <2>3, NoSvcJobIs DEF SvcInv, RunsFile, AlwaysUp, RecordTrue, Reached,
               JobAgrees, Converged, SvcRest, Drained, UnitActive
  <1> QED BY <1>3, <1>4 DEF ContainerActs

LEMMA SvcKeeps == ASSUME SvcInv, [SvcNext]_svcVars PROVE SvcInv'
  <1>1. CASE SvcNext
    BY <1>1, AskStep, RenderStep, UnitStep, ListStep, LaunchStep, IfDownStep, ActStep, RemoveStep,
       FinishStep, DownStep, ContainerActsStep DEF SvcNext
  <1>2. CASE UNCHANGED svcVars
    <2>1. SvcTypeOK' /\ SvcJobInv' /\ Converged'
      BY <1>2 DEF svcVars, SvcInv, SvcTypeOK, SvcJobInv, Converged, Wants, SvcCopy, SvcRest, Agrees,
                  SvcWanted, UnitActive
    <2>2. RunsFile' /\ AlwaysUp' /\ RecordTrue' /\ Reached' /\ Drained'
      BY <1>2 DEF svcVars, SvcInv, RunsFile, AlwaysUp, RecordTrue, Reached, Drained, UnitActive,
                  JobAgrees
    <2> QED BY <2>1, <2>2 DEF SvcInv
  <1> QED BY <1>1, <1>2

\* Only the halt of a drained apply stops the container service.
LEMMA DrainKeeps ==
  ASSUME SvcInv, SvcNext, svcKind = "container", UnitActive, unit'.state = "inactive"
  PROVE  ~svcMembers' \/ svcJob.late
  <1>0. SvcTypeOK /\ SvcJobInv /\ Drained
    BY DEF SvcInv
  <1>1. unit' # unit /\ unit' # UnitStarted
    BY <1>0, UnitsTyped DEF UnitActive
  <1>2. ASSUME NEW x, SvcStep(x), x \in {"reload", "down", "up", "act", "remove"} PROVE FALSE
    BY <1>0, <1>2, SvcAt, PlaceHeads, SvcFields
  <1>3. HaltUnit \/ SvcPowerCut
    <2>1. ~(SvcWrite \/ WorkerApply \/ DeferredRun \/ DeferredEnd \/ RenderFile \/ EnableUnit
             \/ DisableUnit \/ ServiceReady \/ StartMembers \/ DrainMembers \/ SvcFinish \/ SvcDies
             \/ ContainerActs)
      BY <1>1 DEF SvcWrite, WorkerApply, DeferredRun, DeferredEnd, SvcBegin, RenderFile, EnableUnit,
                  DisableUnit, ServiceReady, StartMembers, DrainMembers, SvcFinish, SvcDies, SvcNothing,
                  ContainerActs
    <2>2. ~(RunUnit \/ RunOrWarn \/ LaunchService)
      BY <1>1 DEF RunUnit, RunOrWarn, LaunchService, UnitCall, UnitCallOrWarn, SvcNothing
    <2>3. ~(ReloadDns \/ IfDown \/ IfUp \/ ActUnit \/ RemoveUnit)
      BY <1>2 DEF ReloadDns, IfDown, IfUp, ActUnit, RemoveUnit
    <2>4. ~SvcCrash
      BY DEF SvcCrash
    <2> QED BY <2>1, <2>2, <2>3, <2>4 DEF SvcNext
  <1>4. CASE HaltUnit
    BY <1>4, SvcAt, ListHeads, <1>0 DEF HaltUnit, ContainersOn, ContainersOff, Places, Drained
  <1> QED BY <1>3, <1>4 DEF SvcPowerCut

(***************************************************************************)
(* Bluetooth and Wi-Fi.                                                    *)
(***************************************************************************)
\* What a call of the bus carries at each of its places.
BtAts == {"idle", "opening", "closing", "draining", "shutting", "declare", "unpair", "apply", "sweep"}
BtCall == [at : BtAts, peer : Peers \cup {"none"}, opening : 0..MaxOpenings, trust : SUBSET Peers]

Opening == {c \in BtCalls : CallIs(c, "opening")}

BtTypes ==
  /\ window \in 0..MaxOpenings /\ openings \in 0..MaxOpenings
  /\ timers \subseteq 1..MaxOpenings
  /\ adapter \in BOOLEAN
  /\ asked \in [Peers -> {"no", "looked", "waits"}] /\ answers \in [Peers -> {"none", "no", "yes"}]
  /\ pendingPairs \subseteq Peers
  /\ declared \subseteq Peers /\ paired \subseteq Peers
  /\ btLock \in BtCalls \cup {"free"}
  /\ btCalls \in [BtCalls -> BtCall]
  /\ \A c \in BtCalls : CallIs(c, "declare") => btCalls[c].peer \in Peers

\* Windows about to be opened are within the bound too.
OpeningsBounded == openings + Cardinality(Opening) <= MaxOpenings

PendingWaits == \A p \in pendingPairs : asked[p] = "waits"

\* An adapter that is open has a window, or somebody who will open one or close it.
AdapterHeld ==
  adapter => window # 0 \/ \E c \in BtCalls : btCalls[c].at \in {"opening", "draining", "shutting"}

BtInv == BtTypes /\ OpeningsBounded /\ PendingWaits /\ AdapterHeld

-----------------------------------------------------------------------------
(* Bluetooth. *)

LEMMA BtStart == BtInit => BtInv
  <1> SUFFICES ASSUME BtInit PROVE BtInv
    OBVIOUS
  <1>1. IdleCall \in BtCall /\ IdleCall.at = "idle"
    BY BluetoothAssumption DEF IdleCall, BtCall, BtAts
  <1>2. BtTypes
    <2>1. btCalls \in [BtCalls -> BtCall] /\ \A c \in BtCalls : ~CallIs(c, "declare")
      BY <1>1 DEF BtInit, CallIs
    <2>2. window \in 0..MaxOpenings /\ openings \in 0..MaxOpenings /\ timers \subseteq 1..MaxOpenings
      BY BluetoothAssumption DEF BtInit
    <2>3. /\ asked \in [Peers -> {"no", "looked", "waits"}]
          /\ answers \in [Peers -> {"none", "no", "yes"}]
      BY DEF BtInit
    <2> QED BY <2>1, <2>2, <2>3, Zenon DEF BtInit, BtTypes
  <1>3. Opening = {}
    BY <1>1 DEF BtInit, Opening, CallIs
  <1>4. OpeningsBounded
    BY <1>3, FS_EmptySet, BluetoothAssumption DEF BtInit, OpeningsBounded
  <1> QED BY <1>2, <1>4 DEF BtInv, BtInit, PendingWaits, AdapterHeld

\* A call, after it went on, ended or began something.
LEMMA Goes ==
  ASSUME BtTypes, NEW c \in BtCalls, NEW at \in BtAts, CallGoes(c, at)
  PROVE  /\ btCalls' \in [BtCalls -> BtCall]
         /\ btCalls'[c].at = at /\ btCalls'[c].peer = btCalls[c].peer
         /\ \A d \in BtCalls \ {c} : btCalls'[d] = btCalls[d]
  <1>1. btCalls[c] \in BtCall
    BY DEF BtTypes
  <1> DEFINE x == [btCalls[c] EXCEPT !.at = at]
  <1>2. x \in BtCall /\ x.at = at /\ x.peer = btCalls[c].peer
    BY <1>1 DEF BtCall
  <1>3. btCalls' = [btCalls EXCEPT ![c] = x]
    BY DEF CallGoes
  <1> HIDE DEF x
  <1> QED BY <1>2, <1>3 DEF BtTypes

LEMMA Becomes ==
  ASSUME BtTypes, NEW c \in BtCalls, NEW x \in BtCall, btCalls' = [btCalls EXCEPT ![c] = x]
  PROVE  /\ btCalls' \in [BtCalls -> BtCall]
         /\ btCalls'[c] = x
         /\ \A d \in BtCalls \ {c} : btCalls'[d] = btCalls[d]
  BY DEF BtTypes

LEMMA IdleIs == IdleCall \in BtCall /\ IdleCall.at = "idle"
  BY BluetoothAssumption DEF IdleCall, BtCall, BtAts

\* Every step of a call leaves the others where they are; an opening that was not begun
\* is one that was there.
LEMMA OpeningIs ==
  ASSUME BtTypes
  PROVE  IsFiniteSet(Opening) /\ Cardinality(Opening) \in Nat
  BY BluetoothAssumption, FS_Subset, FS_CardinalityType DEF Opening

LEMMA NoneBegun ==
  ASSUME BtTypes, OpeningsBounded, openings' = openings, Opening' \subseteq Opening
  PROVE  OpeningsBounded'
  BY OpeningIs, FS_Subset, FS_CardinalityType, BluetoothAssumption DEF OpeningsBounded, BtTypes

\* A step of one call c that is not an opening: what becomes of the invariant.
LEMMA CallKeeps ==
  ASSUME BtInv, NEW c \in BtCalls, btCalls' \in [BtCalls -> BtCall],
         \A d \in BtCalls \ {c} : btCalls'[d] = btCalls[d],
         btCalls'[c].at # "opening", openings' = openings,
         btCalls[c].at \notin {"opening", "draining", "shutting"}
           \/ btCalls'[c].at \in {"draining", "shutting"} \/ ~adapter',
         window' = window \/ btCalls'[c].at = "draining",
         adapter' => adapter
  PROVE  OpeningsBounded' /\ AdapterHeld'
  BY NoneBegun DEF Opening, CallIs, BtInv, AdapterHeld, BtTypes, BtCall

LEMMA OpenAdapterStep == ASSUME BtInv, NEW c \in BtCalls, OpenAdapter(c) PROVE BtInv'
  <1>1. /\ btCalls' \in [BtCalls -> BtCall] /\ btCalls'[c].at = "opening"
        /\ \A d \in BtCalls \ {c} : btCalls'[d] = btCalls[d]
    BY Goes DEF OpenAdapter, BtInv, BtAts
  <1>2. Opening' = Opening \cup {c} /\ c \notin Opening
    BY <1>1 DEF OpenAdapter, Opening, CallIs, CallIdle
  <1>3. IsFiniteSet(Opening) /\ Cardinality(Opening) \in Nat
    BY OpeningIs DEF BtInv
  <1>4. Cardinality(Opening') = Cardinality(Opening) + 1
    BY <1>2, <1>3, FS_AddElement
  <1>5. openings + Cardinality(Opening) < MaxOpenings /\ openings' = openings
    BY DEF OpenAdapter, Opening
  <1>6. OpeningsBounded'
    BY <1>3, <1>4, <1>5, BluetoothAssumption DEF OpeningsBounded, BtInv, BtTypes
  <1>7. BtTypes'
    BY <1>1 DEF OpenAdapter, BtInv, BtTypes, CallIs, btDevices
  <1>8. AdapterHeld'
    BY <1>1 DEF AdapterHeld
  <1>9. PendingWaits'
    BY DEF OpenAdapter, BtInv, PendingWaits
  <1> QED BY <1>6, <1>7, <1>8, <1>9 DEF BtInv

LEMMA OpenWindowStep == ASSUME BtInv, NEW c \in BtCalls, OpenWindow(c) PROVE BtInv'
  <1>1. /\ btCalls' \in [BtCalls -> BtCall] /\ btCalls'[c].at = "idle"
        /\ \A d \in BtCalls \ {c} : btCalls'[d] = btCalls[d]
    BY Becomes, IdleIs DEF OpenWindow, BtInv, CallEnds
  <1>2. Opening' = Opening \ {c} /\ c \in Opening
    BY <1>1 DEF OpenWindow, Opening, CallIs
  <1>3. IsFiniteSet(Opening) /\ Cardinality(Opening) \in Nat
    BY OpeningIs DEF BtInv
  <1>4. Cardinality(Opening') = Cardinality(Opening) - 1 /\ Cardinality(Opening') \in Nat
    BY <1>2, <1>3, FS_RemoveElement, FS_CardinalityType
  <1>5. OpeningsBounded' /\ openings' \in 1..MaxOpenings
    BY <1>3, <1>4, BluetoothAssumption DEF OpenWindow, OpeningsBounded, BtInv, BtTypes
  <1>6. BtTypes'
    BY <1>1, <1>5 DEF OpenWindow, BtInv, BtTypes, CallIs, btDevices
  <1>7. AdapterHeld'
    BY <1>5 DEF AdapterHeld, OpenWindow
  <1>8. PendingWaits'
    BY DEF OpenWindow, BtInv, PendingWaits
  <1> QED BY <1>5, <1>6, <1>7, <1>8 DEF BtInv

\* The steps that only move a call, or close the window, its requests and the adapter.
LEMMA ClosingStep ==
  ASSUME BtInv, NEW c \in BtCalls,
         CloseBegins(c) \/ CloseWindow(c) \/ DrainPending(c) \/ CloseAdapter(c) \/ Register(c)
  PROVE  BtInv'
  <1>0. BtTypes
    BY DEF BtInv
  <1>1. CASE CloseBegins(c) \/ CloseWindow(c) \/ DrainPending(c) \/ Register(c)
    <2>1. PICK at \in {"closing", "draining", "shutting"} :
             /\ CallGoes(c, at) /\ openings' = openings /\ adapter' = adapter
             /\ window' = window \/ at = "draining"
             /\ btCalls[c].at \notin {"opening", "draining", "shutting"} \/ at \in {"draining", "shutting"}
      BY <1>1 DEF CloseBegins, CloseWindow, DrainPending, Register, btAgent, CallIs, CallIdle
    <2>2. /\ btCalls' \in [BtCalls -> BtCall] /\ btCalls'[c].at = at
          /\ \A d \in BtCalls \ {c} : btCalls'[d] = btCalls[d]
      BY <1>0, <2>1, Goes DEF BtAts
    <2>4. OpeningsBounded' /\ AdapterHeld'
      BY <2>1, <2>2, CallKeeps
    <2>5. BtTypes'
      <3>1. /\ window' \in {0, window} /\ timers' = timers /\ asked' = asked
            /\ declared' = declared /\ paired' = paired /\ btLock' = btLock
        BY <1>1 DEF CloseBegins, CloseWindow, DrainPending, Register, btAgent, btDevices
      <3>2. pendingPairs' \subseteq Peers /\ answers' \in [Peers -> {"none", "no", "yes"}]
        BY <1>0, <1>1 DEF CloseBegins, CloseWindow, DrainPending, Register, btAgent, BtTypes
      <3> QED BY <1>0, <2>1, <2>2, <3>1, <3>2, BluetoothAssumption DEF BtTypes, CallIs
    <2>6. PendingWaits'
      BY <1>1 DEF CloseBegins, CloseWindow, DrainPending, Register, btAgent, BtInv, PendingWaits
    <2> QED BY <2>4, <2>5, <2>6 DEF BtInv
  <1>2. CASE CloseAdapter(c)
    BY <1>0, <1>2, Becomes, IdleIs, CallKeeps DEF CloseAdapter, CallEnds, btDevices, BtTypes, CallIs, BtInv,
       PendingWaits
  <1> QED BY <1>1, <1>2

LEMMA ExpireLookStep == ASSUME BtInv, NEW c \in BtCalls, ExpireLook(c) PROVE BtInv'
  <1>0. BtTypes
    BY DEF BtInv
  <1>1. PICK t \in timers :
           /\ CallIdle(c) /\ timers' = timers \ {t}
           /\ IF window = t THEN btCalls' = [btCalls EXCEPT ![c] =
                                    [IdleCall EXCEPT !.at = "closing", !.opening = t]]
                            ELSE UNCHANGED btCalls
           /\ UNCHANGED <<window, openings, adapter, pendingPairs, asked, answers, btDevices>>
    BY DEF ExpireLook
  <1> DEFINE x == [IdleCall EXCEPT !.at = "closing", !.opening = t]
  <1>2. x \in BtCall /\ x.at = "closing"
    <2>1. t \in 0..MaxOpenings
      BY <1>0, BluetoothAssumption DEF BtTypes
    <2> QED BY <2>1, IdleIs DEF BtCall, BtAts
  <1> HIDE DEF x
  <1>3. /\ btCalls' \in [BtCalls -> BtCall] /\ btCalls'[c].at \in {"idle", "closing"}
        /\ \A d \in BtCalls \ {c} : btCalls'[d] = btCalls[d]
    BY <1>1, <1>0, <1>2, Becomes DEF x, BtTypes, CallIdle
  <1>4. OpeningsBounded' /\ AdapterHeld'
    BY <1>1, <1>3, CallKeeps DEF CallIdle
  <1>5. BtTypes' /\ PendingWaits'
    BY <1>0, <1>1, <1>3 DEF btDevices, BtTypes, CallIs, BtInv, PendingWaits
  <1> QED BY <1>4, <1>5 DEF BtInv

\* The calls that pair, answer, remove and reconcile leave the window alone.
LEMMA DevicesStep ==
  ASSUME BtInv, NEW c \in BtCalls,
         \/ Declare(c) \/ Unpair(c) \/ ApplyCopies(c) \/ WorkerCopies(c) \/ ReconcileDevices(c)
         \/ \E p \in Peers : AnswerPairing(c, p) \/ Pair(c, p) \/ Undeclare(c, p)
  PROVE  BtInv'
  <1>0. BtTypes /\ btCalls[c] \in BtCall
    BY DEF BtInv, BtTypes
  <1>1. /\ window' = window /\ openings' = openings /\ adapter' = adapter /\ timers' = timers
        /\ asked' = asked
    BY DEF Declare, Unpair, ApplyCopies, WorkerCopies, ReconcileDevices, AnswerPairing, Pair,
           Undeclare, btAgent
  <1> DEFINE Moved == /\ btCalls' \in [BtCalls -> BtCall]
                      /\ btCalls'[c].at \in {"idle", "declare", "unpair", "apply", "sweep"}
                      /\ btCalls'[c].at = "declare" => btCalls'[c].peer \in Peers
                      /\ \A d \in BtCalls \ {c} : btCalls'[d] = btCalls[d]
  <1>2. Moved
    <2>1. CASE Declare(c) \/ Unpair(c)
      BY <2>1, <1>0, Goes DEF Declare, Unpair, BtAts
    <2>2. CASE ApplyCopies(c) \/ WorkerCopies(c)
      <3> DEFINE x == [btCalls[c] EXCEPT !.at = "sweep", !.trust = declared]
      <3>1. x \in BtCall /\ x.at = "sweep"
        BY <1>0 DEF BtCall, BtAts, BtTypes
      <3>2. btCalls' = [btCalls EXCEPT ![c] = x]
        BY <1>0, <2>2 DEF ApplyCopies, WorkerCopies, BtTypes, BtCall
      <3> HIDE DEF x
      <3> QED BY <1>0, <3>1, <3>2, Becomes
    <2>3. CASE ReconcileDevices(c)
      BY <1>0, <2>3, Becomes, IdleIs DEF ReconcileDevices, CallEnds
    <2>4. ASSUME NEW p \in Peers, AnswerPairing(c, p) \/ Pair(c, p) \/ Undeclare(c, p)
          PROVE  Moved
      <3>1. CASE btCalls' = btCalls
        BY <1>0, <2>4, <3>1 DEF BtTypes, AnswerPairing, Pair, Undeclare, CallIdle
      <3>2. CASE btCalls' = [btCalls EXCEPT ![c] = [IdleCall EXCEPT !.at = "declare", !.peer = p]]
        <4> DEFINE x == [IdleCall EXCEPT !.at = "declare", !.peer = p]
        <4>1. x \in BtCall /\ x.at = "declare" /\ x.peer = p
          BY IdleIs DEF BtCall, BtAts
        <4>2. btCalls' = [btCalls EXCEPT ![c] = x]
          BY <3>2
        <4> HIDE DEF x
        <4> QED BY <1>0, <4>1, <4>2, Becomes
      <3>3. CASE btCalls' = [btCalls EXCEPT ![c] = [IdleCall EXCEPT !.at = "unpair", !.peer = p]]
        <4> DEFINE x == [IdleCall EXCEPT !.at = "unpair", !.peer = p]
        <4>1. x \in BtCall /\ x.at = "unpair" /\ x.peer = p
          BY IdleIs DEF BtCall, BtAts
        <4>2. btCalls' = [btCalls EXCEPT ![c] = x]
          BY <3>3
        <4> HIDE DEF x
        <4> QED BY <1>0, <4>1, <4>2, Becomes
      <3> QED BY <2>4, <3>1, <3>2, <3>3, Zenon DEF AnswerPairing, Pair, Undeclare
    <2> QED BY <2>1, <2>2, <2>3, <2>4
  <1>3. btCalls[c].at \notin {"opening", "draining", "shutting"}
    BY DEF Declare, Unpair, ApplyCopies, WorkerCopies, ReconcileDevices, AnswerPairing, Pair,
           Undeclare, CallIs, CallIdle
  <1>4. OpeningsBounded' /\ AdapterHeld'
    BY <1>1, <1>2, <1>3, CallKeeps
  <1>5. pendingPairs' \subseteq pendingPairs /\ answers' \in [Peers -> {"none", "no", "yes"}]
    BY <1>0 DEF Declare, Unpair, ApplyCopies, WorkerCopies, ReconcileDevices, AnswerPairing, Pair,
           Undeclare, btAgent, BtTypes
  <1>6. declared' \subseteq Peers /\ paired' \subseteq Peers /\ btLock' \in BtCalls \cup {"free"}
    BY <1>0 DEF Declare, Unpair, ApplyCopies, WorkerCopies, ReconcileDevices, btDevices, BtTypes, CallIs,
       AnswerPairing, Pair, Undeclare
  <1>7. BtTypes'
    BY <1>0, <1>1, <1>2, <1>5, <1>6 DEF BtTypes, CallIs
  <1>8. PendingWaits'
    BY <1>1, <1>5 DEF BtInv, PendingWaits
  <1> QED BY <1>4, <1>7, <1>8 DEF BtInv

LEMMA ConfirmStep ==
  ASSUME BtInv, NEW p \in Peers, ConfirmLook(p) \/ ConfirmWaits(p) \/ ConfirmEnds(p)
  PROVE  BtInv'
  <1>1. /\ btCalls' = btCalls /\ window' = window /\ openings' = openings /\ adapter' = adapter
        /\ timers' = timers /\ declared' = declared /\ btLock' = btLock
    BY DEF ConfirmLook, ConfirmWaits, ConfirmEnds, btDevices
  <1>2. OpeningsBounded' /\ AdapterHeld'
    BY <1>1 DEF BtInv, OpeningsBounded, AdapterHeld, Opening, CallIs
  <1>3. BtTypes'
    BY <1>1 DEF BtInv, BtTypes, ConfirmLook, ConfirmWaits, ConfirmEnds, btDevices, CallIs
  <1>4. PendingWaits'
    BY DEF BtInv, BtTypes, PendingWaits, ConfirmLook, ConfirmWaits, ConfirmEnds
  <1> QED BY <1>2, <1>3, <1>4 DEF BtInv

LEMMA BtStep == BtInv /\ [BtNext]_btVars => BtInv'
  <1> SUFFICES ASSUME BtInv, [BtNext]_btVars PROVE BtInv'
    OBVIOUS
  <1>1. CASE UNCHANGED btVars
    BY <1>1 DEF btVars, BtInv, BtTypes, OpeningsBounded, Opening, CallIs, PendingWaits, AdapterHeld
  <1>2. ASSUME NEW c \in BtCalls, OpenAdapter(c) \/ OpenWindow(c) PROVE BtInv'
    BY <1>2, OpenAdapterStep, OpenWindowStep
  <1>3. CASE BtNext
    BY <1>2, <1>3, ClosingStep, ExpireLookStep, DevicesStep, ConfirmStep DEF BtNext
  <1> QED BY <1>1, <1>3

LEMMA BtSafe == BtInv => BtTypeOK /\ NoWindowNotDiscoverable
  BY DEF BtInv, BtTypes, BtTypeOK, PendingWaits, AdapterHeld, NoWindowNotDiscoverable, WindowSettled

\* Only a removal takes a device from the trust list.
LEMMA TrustStep ==
  ASSUME BtInv, [BtNext]_btVars
  PROVE  \A p \in declared \ declared' :
            \E c \in BtCalls : CallIs(c, "idle") /\ btCalls'[c].at = "unpair" /\ btCalls'[c].peer = p
  <1> SUFFICES ASSUME NEW q \in declared \ declared'
               PROVE  \E c \in BtCalls : /\ CallIs(c, "idle") /\ btCalls'[c].at = "unpair"
                                         /\ btCalls'[c].peer = q
    OBVIOUS
  <1>1. PICK c \in BtCalls, p \in Peers : Undeclare(c, p)
    <2>1. BtNext
      BY DEF btVars
    <2>2. ASSUME NEW c \in BtCalls,
                 \/ OpenAdapter(c) \/ OpenWindow(c) \/ CloseBegins(c) \/ CloseWindow(c)
                 \/ DrainPending(c) \/ CloseAdapter(c) \/ ExpireLook(c) \/ Register(c)
                 \/ Unpair(c) \/ ApplyCopies(c) \/ WorkerCopies(c) \/ ReconcileDevices(c)
          PROVE  declared' = declared
      BY <2>2 DEF OpenAdapter, OpenWindow, CloseBegins, CloseWindow, DrainPending, CloseAdapter,
                  ExpireLook, Register, Unpair, ApplyCopies, WorkerCopies, ReconcileDevices, btDevices
    <2>3. ASSUME NEW c \in BtCalls, Declare(c) PROVE declared \subseteq declared'
      BY <2>3 DEF Declare
    <2>4. ASSUME NEW c \in BtCalls, NEW p \in Peers, AnswerPairing(c, p) \/ Pair(c, p)
          PROVE  declared' = declared
      BY <2>4 DEF AnswerPairing, Pair
    <2>5. ASSUME NEW p \in Peers, ConfirmLook(p) \/ ConfirmWaits(p) \/ ConfirmEnds(p)
          PROVE  declared' = declared
      BY <2>5 DEF ConfirmLook, ConfirmWaits, ConfirmEnds, btDevices
    <2> QED BY <2>1, <2>2, <2>3, <2>4, <2>5 DEF BtNext
  <1>2. p = q /\ CallIs(c, "idle")
    BY <1>1 DEF Undeclare, CallIdle, CallIs
  <1> DEFINE x == [IdleCall EXCEPT !.at = "unpair", !.peer = p]
  <1>3. x \in BtCall /\ x.at = "unpair" /\ x.peer = p
    BY IdleIs DEF BtCall, BtAts
  <1>4. btCalls' = [btCalls EXCEPT ![c] = x]
    BY <1>1 DEF Undeclare
  <1> HIDE DEF x
  <1> QED BY <1>2, <1>3, <1>4, Becomes DEF BtInv

-----------------------------------------------------------------------------
(* The radios. *)

\* What is left of an apply of both roles and of the station's alone.
W4 == <<"stopAp", "station", "ap", "acs">>
W3 == <<"station", "ap", "acs">>
W2 == <<"ap", "acs">>
W1 == <<"acs">>
P2 == <<"stopAp", "station">>
P1 == <<"station">>
WifSteps == {W4, W3, W2, W1, << >>, P2, P1}
WifJobs == [steps : WifSteps, client : Role, ap : Role, failed : BOOLEAN, full : BOOLEAN,
            startup : BOOLEAN]

WifTypes ==
  /\ WifTypeOK
  /\ wifJob \in WifJobs
  /\ wifWaiting \in BOOLEAN /\ wifRetrying \in {"station", "both", "no"}
  /\ moved \in BOOLEAN /\ clashed \in BOOLEAN /\ shaken \in BOOLEAN

\* The apply under way: what may be left of it, that it is of the settings unless they
\* were written since, and that no scan runs beside it.
JobInv ==
  /\ wifJob.full => wifJob.steps \notin {P2, P1}
  /\ ~wifJob.full /\ wifJob # NoWifJob =>
       wifJob.steps \in {P2, P1, << >>} /\ wifRetrying = "both"
  /\ wifJob # NoWifJob => wifJob.full \/ wifJob.startup
  /\ wifJob # NoWifJob /\ ~wifWaiting => wifJob.client = wifi.client /\ wifJob.ap = wifi.ap
  /\ wifJob.steps # << >> => wifJob # NoWifJob
  /\ pause # "none" => wifJob = NoWifJob
  /\ wifJob.failed => shaken

\* With no interface renamed, everything is on the two that the settings name.
RadPut ==
  ~moved =>
    /\ station \subseteq {wifi.client.at} /\ hostapd \subseteq {wifi.ap.at}
    /\ boots \subseteq {<<"station", wifi.client.at>>, <<"ap", wifi.ap.at>>}
    /\ pause \in {"none", wifi.ap.at}
    /\ wifJob # NoWifJob => wifJob.client.at = wifi.client.at /\ wifJob.ap.at = wifi.ap.at

\* With no clash since hostapd last stopped, neither the settings nor the copy an apply
\* works from puts both roles on one radio.
NoConflict == ~clashed => ~Conflicts(wifi) /\ ~Conflicts(wifJob)

\* What the steps done so far have reached.
StationDone ==
  /\ station = (IF wifJob.client.on THEN {wifJob.client.at} ELSE {})
  /\ <<"station", wifJob.client.at>> \in boots <=> wifJob.client.on
ApDone ==
  /\ hostapd = (IF wifJob.ap.on THEN {wifJob.ap.at} ELSE {})
  /\ <<"ap", wifJob.ap.at>> \in boots <=> wifJob.ap.on
Undisturbed == ~moved /\ ~clashed /\ ~shaken
Going == wifJob # NoWifJob /\ ~moved /\ ~wifJob.failed /\ wifJob.full
BeforeStation ==
  wifJob.steps \in {W3, P1} /\ Undisturbed /\ wifJob.client.on => wifJob.client.at \notin hostapd
AfterStation == Going /\ wifJob.steps \in {W2, W1, << >>} => StationDone
AfterAp == Going /\ ~Conflicts(wifJob) /\ wifJob.steps \in {W1, << >>} => ApDone

\* The access point with the one a scan has paused.
Up == hostapd \cup ({pause} \ {"none"})
RestInv ==
  wifJob = NoWifJob /\ ~wifWaiting /\ wifRetrying = "no" /\ wifOutcome = "ok" /\ Undisturbed =>
    /\ station = (IF wifi.client.on THEN {wifi.client.at} ELSE {})
    /\ Up = (IF wifi.ap.on THEN {wifi.ap.at} ELSE {})
    /\ boots = ({"station"} \X station) \cup ({"ap"} \X Up)

OneRole == Undisturbed => station \cap Up = {}

WifInv ==
  /\ WifTypes /\ JobInv /\ RadPut /\ NoConflict
  /\ BeforeStation /\ AfterStation /\ AfterAp /\ OneRole /\ RestInv

LEMMA LastTwo ==
  ASSUME NEW S, NEW s \in Seq(S), NEW m \in Nat, NEW n \in Nat, m >= 1, n = m + 1, Len(s) = n
  PROVE  SubSeq(s, m, n) = <<s[m], s[n]>>
  <1> DEFINE t == SubSeq(s, m, n)
  <1>1. m \in Int /\ n \in Int /\ \A i \in m..n : s[i] \in S
    OBVIOUS
  <1>2. /\ t \in Seq(S)
        /\ Len(t) = (IF m <= n THEN n - m + 1 ELSE 0)
        /\ \A i \in 1..(n - m + 1) : t[i] = s[m + i - 1]
    BY <1>1, SubSeqProperties
  <1> HIDE DEF t
  <1>3. Len(t) = 2 /\ t[1] = s[m] /\ t[2] = s[n]
    BY <1>2
  <1>4. <<s[m], s[n]>> \in Seq(S) /\ Len(<<s[m], s[n]>>) = 2
    BY <1>1
  <1>5. \A i \in 1..Len(t) : t[i] = <<s[m], s[n]>>[i]
    BY <1>3
  <1> QED BY <1>2, <1>3, <1>4, <1>5, SeqEqual DEF t

LEMMA StepsApart ==
  /\ W4 # W3 /\ W4 # W2 /\ W4 # W1 /\ W4 # << >> /\ W4 # P2 /\ W4 # P1
  /\ W3 # W2 /\ W3 # W1 /\ W3 # << >> /\ W3 # P2 /\ W3 # P1
  /\ W2 # W1 /\ W2 # << >> /\ W2 # P2 /\ W2 # P1
  /\ W1 # << >> /\ W1 # P2 /\ W1 # P1 /\ P2 # << >> /\ P2 # P1 /\ P1 # << >>
  BY DEF W4, W3, W2, W1, P2, P1

LEMMA StepsHeads ==
  ASSUME NEW s \in WifSteps, s # << >>
  PROVE  /\ Head(s) = "stopAp" => s \in {W4, P2}
         /\ Head(s) = "station" => s \in {W3, P1}
         /\ Head(s) = "ap" => s = W2
         /\ Head(s) = "acs" => s = W1
  BY DEF WifSteps, W4, W3, W2, W1, P2, P1

LEMMA StepsTails ==
  /\ Tail(W4) = W3 /\ Tail(W3) = W2 /\ Tail(W2) = W1 /\ Tail(W1) = << >>
  /\ Tail(P2) = P1 /\ Tail(P1) = << >>
  /\ Len(W4) = 4 /\ Len(W3) = 3 /\ Len(W2) = 2 /\ Len(W1) = 1 /\ Len(P2) = 2 /\ Len(P1) = 1
  BY DEF W4, W3, W2, W1, P2, P1

LEMMA StepsSkipped ==
  /\ SubSeq(W4, 2 + 1, Len(W4)) = W2 /\ SubSeq(W3, 1 + 1, Len(W3)) = W2
  /\ SubSeq(W2, 2 + 1, Len(W2)) = << >> /\ SubSeq(W1, 1 + 1, Len(W1)) = << >>
  /\ SubSeq(P2, 2 + 1, Len(P2)) = << >> /\ SubSeq(P1, 1 + 1, Len(P1)) = << >>
  <1>1. /\ W4 \in Seq({"stopAp", "station", "ap", "acs"}) /\ Len(W4) = 4
        /\ W4[3] = "ap" /\ W4[4] = "acs" /\ W2 = <<"ap", "acs">>
    BY DEF W4, W2
  <1>2. /\ W3 \in Seq({"stopAp", "station", "ap", "acs"}) /\ Len(W3) = 3
        /\ W3[2] = "ap" /\ W3[3] = "acs" /\ W2 = <<"ap", "acs">>
    BY DEF W3, W2
  <1>3. SubSeq(W4, 3, 4) = W2
    BY <1>1, LastTwo
  <1>4. SubSeq(W3, 2, 3) = <<W3[2], W3[3]>>
    <2>1. 2 \in Nat /\ 3 \in Nat /\ 2 >= 1 /\ 3 = 2 + 1
      OBVIOUS
    <2> QED BY <1>2, <2>1, LastTwo, Zenon
  <1>5. SubSeq(W3, 2, 3) = W2
    BY <1>2, <1>4
  <1>6. \A s : SubSeq(s, 3, 2) = << >> /\ SubSeq(s, 2, 1) = << >>
    BY SubSeqEmpty
  <1> QED BY <1>1, <1>2, <1>3, <1>5, <1>6, StepsTails

LEMMA NoJobIs ==
  /\ NoWifJob \in WifJobs /\ NoWifJob.steps = << >> /\ ~NoWifJob.full /\ ~NoWifJob.failed
  /\ ~NoWifJob.startup /\ ~NoWifJob.client.on /\ ~NoWifJob.ap.on
  BY RadioAssumption DEF NoWifJob, WifJobs, WifSteps, Role

\* The fields of what the settings say.
LEMMA WifFields ==
  ASSUME WifTypes
  PROVE  /\ wifi.client \in Role /\ wifi.ap \in Role
         /\ wifi.client.on \in BOOLEAN /\ wifi.ap.on \in BOOLEAN
         /\ wifi.client.at \in Radios /\ wifi.ap.at \in Radios
         /\ wifJob.steps \in WifSteps /\ wifJob.client \in Role /\ wifJob.ap \in Role
         /\ wifJob.client.on \in BOOLEAN /\ wifJob.ap.on \in BOOLEAN
         /\ wifJob.client.at \in Radios /\ wifJob.ap.at \in Radios
         /\ wifJob.failed \in BOOLEAN /\ wifJob.full \in BOOLEAN /\ wifJob.startup \in BOOLEAN
  BY DEF WifTypes, WifTypeOK, WifJobs, Role

LEMMA WifStart == WifInit => WifInv
  <1> SUFFICES ASSUME WifInit PROVE WifInv
    OBVIOUS
  <1>1. WifTypes
    BY NoJobIs, RadioAssumption DEF WifInit, Conflicts, WifTypes, WifTypeOK
  <1>2. wifRetrying # "no"
    BY DEF WifInit
  <1>3. NoConflict
    BY NoJobIs DEF WifInit, NoConflict, Conflicts
  <1>4. JobInv
    BY NoJobIs, StepsApart DEF WifInit, JobInv
  <1> QED BY <1>1, <1>2, <1>3, <1>4, NoJobIs, StepsApart
          DEF WifInit, WifInv, RadPut, BeforeStation, AfterStation, AfterAp, Going, OneRole, RestInv

\* A step of the apply: the copy of the settings it works from stays, and it is not over.
Proceeds(t) ==
  /\ wifJob' \in WifJobs /\ wifJob'.steps = t
  /\ wifJob'.client = wifJob.client /\ wifJob'.ap = wifJob.ap
  /\ wifJob'.full = wifJob.full /\ wifJob'.startup = wifJob.startup

LEMMA NextIs ==
  ASSUME WifTypes, NextWifi, wifJob.steps \in WifSteps \ {<< >>}
  PROVE  Proceeds(Tail(wifJob.steps)) /\ wifJob'.failed = wifJob.failed
  <1> DEFINE t == Tail(wifJob.steps)
  <1>1. t \in WifSteps
    BY StepsTails DEF WifSteps
  <1>2. wifJob' = [wifJob EXCEPT !.steps = t]
    BY DEF NextWifi
  <1> HIDE DEF t
  <1> QED BY <1>1, <1>2 DEF WifTypes, WifJobs, Proceeds, t

LEMMA SkipIs ==
  ASSUME WifTypes, NEW n \in {1, 2}, SkipWifi(n),
         SubSeq(wifJob.steps, n + 1, Len(wifJob.steps)) \in WifSteps
  PROVE  /\ Proceeds(SubSeq(wifJob.steps, n + 1, Len(wifJob.steps)))
         /\ wifJob'.failed = TRUE /\ shaken' = TRUE
  <1> DEFINE t == SubSeq(wifJob.steps, n + 1, Len(wifJob.steps))
  <1>1. wifJob' = [wifJob EXCEPT !.steps = t, !.failed = TRUE] /\ t \in WifSteps
    BY DEF SkipWifi
  <1>2. shaken' = TRUE
    BY DEF SkipWifi
  <1> HIDE DEF t
  <1>3. /\ wifJob' \in WifJobs /\ wifJob'.steps = t /\ wifJob'.failed = TRUE
        /\ wifJob'.client = wifJob.client /\ wifJob'.ap = wifJob.ap
        /\ wifJob'.full = wifJob.full /\ wifJob'.startup = wifJob.startup
    BY <1>1 DEF WifTypes, WifJobs
  <1> QED BY <1>2, <1>3 DEF Proceeds, t

\* What holds of the job after any step of the apply.
LEMMA JobGoesOn ==
  ASSUME WifInv, wifJob # NoWifJob, wifJob.steps # << >>, NEW t \in {W3, W2, W1, P1, << >>}, Proceeds(t),
         t = P1 => ~wifJob.full,
         t \in {W3, W2, W1} => wifJob.full,
         wifi' = wifi, wifWaiting' = wifWaiting, wifRetrying' = wifRetrying, pause' = pause,
         moved' = moved, wifJob'.failed => shaken'
  PROVE  JobInv' /\ wifJob' # NoWifJob /\ RestInv' /\ pause = "none"
         /\ (Conflicts(wifJob') <=> Conflicts(wifJob))
  BY NoJobIs, StepsApart DEF WifInv, JobInv, Proceeds, RestInv, Conflicts

\* stop_access_point leaves the radio to a station that is about to start.
LEMMA StopStep == ASSUME WifInv, StopAccessPoint PROVE WifInv'
  <1>0. WifTypes /\ JobInv /\ RadPut /\ NoConflict /\ OneRole
    BY DEF WifInv
  <1>1. wifJob.steps \in {W4, P2} /\ wifJob.steps # << >> /\ wifJob # NoWifJob
    BY <1>0, WifFields, StepsHeads DEF StopAccessPoint, AtWifi, JobInv
  <1>2. /\ wifi' = wifi /\ station' = station /\ boots' = boots /\ wifWaiting' = wifWaiting
        /\ wifRetrying' = wifRetrying /\ bootScan' = bootScan /\ pause' = pause
        /\ wifOutcome' = wifOutcome /\ moved' = moved /\ clashed' = clashed
    BY DEF StopAccessPoint
  <1>3. hostapd' \subseteq hostapd
    BY DEF StopAccessPoint
  <1>4. \/ /\ NextWifi /\ shaken' = shaken
           /\ wifJob.client.on /\ ~wifJob.ap.on /\ wifJob.ap.at = wifJob.client.at
                /\ wifJob.client.at \notin station => wifJob.ap.at \notin hostapd'
        \/ SkipWifi(2)
    BY DEF StopAccessPoint
  <1>5. CASE /\ NextWifi /\ shaken' = shaken
             /\ wifJob.client.on /\ ~wifJob.ap.on /\ wifJob.ap.at = wifJob.client.at
                  /\ wifJob.client.at \notin station => wifJob.ap.at \notin hostapd'
    <2> DEFINE t == IF wifJob.steps = W4 THEN W3 ELSE P1
    <2>1. Proceeds(t) /\ wifJob'.failed = wifJob.failed
      BY <1>0, <1>1, <1>5, NextIs, StepsTails, StepsApart DEF WifSteps
    <2>2. t \in {W3, P1} /\ (t = P1 => ~wifJob.full) /\ (t = W3 => wifJob.full)
      BY <1>0, <1>1, StepsApart, WifFields DEF JobInv
    <2> HIDE DEF t
    <2>3. JobInv' /\ wifJob' # NoWifJob /\ RestInv' /\ pause = "none"
          /\ (Conflicts(wifJob') <=> Conflicts(wifJob))
      BY <1>0, <1>1, <1>2, <1>5, <2>1, <2>2, JobGoesOn, StepsApart DEF JobInv
    <2>4. WifTypes'
      BY <1>0, <1>2, <1>3, <1>5, <2>1 DEF WifTypes, WifTypeOK, Proceeds
    <2>5. RadPut' /\ NoConflict'
      BY <1>0, <1>1, <1>2, <1>3, <2>1, <2>3 DEF RadPut, NoConflict, Conflicts, Proceeds
    <2>6. OneRole'
      BY <1>0, <1>2, <1>3, <1>5 DEF OneRole, Undisturbed, Up
    <2>7. BeforeStation'
      <3> SUFFICES ASSUME Undisturbed, wifJob.client.on PROVE wifJob.client.at \notin hostapd'
        BY <1>2, <1>5, <2>1 DEF BeforeStation, Undisturbed, Proceeds
      <3>1. ~wifJob.ap.on \/ wifJob.ap.at # wifJob.client.at
        BY <1>0, WifFields DEF NoConflict, Conflicts, Undisturbed
      <3>2. hostapd \subseteq {wifJob.ap.at}
        BY <1>0, <1>1 DEF RadPut, Undisturbed
      <3>3. CASE wifJob.client.at \in station
        BY <1>0, <1>3, <3>3 DEF OneRole, Up
      <3> QED BY <1>3, <1>5, <3>1, <3>2, <3>3
    <2>8. AfterStation' /\ AfterAp'
      BY <2>1, <2>2, StepsApart DEF AfterStation, AfterAp, Proceeds
    <2> QED BY <2>3, <2>4, <2>5, <2>6, <2>7, <2>8 DEF WifInv
  <1>6. CASE SkipWifi(2)
    <2> DEFINE t == IF wifJob.steps = W4 THEN W2 ELSE << >>
    <2>1. Proceeds(t) /\ wifJob'.failed = TRUE /\ shaken' = TRUE
      <3>1. SubSeq(wifJob.steps, 2 + 1, Len(wifJob.steps)) = t
        BY <1>1, StepsSkipped
      <3>2. t \in WifSteps
        BY DEF WifSteps
      <3> HIDE DEF t
      <3> QED BY <1>0, <1>6, <3>1, <3>2, SkipIs
    <2>2. t \in {W2, << >>} /\ (t = W2 => wifJob.full)
      BY <1>0, <1>1, StepsApart, WifFields DEF JobInv
    <2> HIDE DEF t
    <2>3. JobInv' /\ wifJob' # NoWifJob /\ RestInv' /\ pause = "none"
          /\ (Conflicts(wifJob') <=> Conflicts(wifJob))
      BY <1>0, <1>1, <1>2, <2>1, <2>2, JobGoesOn, StepsApart
    <2>4. WifTypes'
      BY <1>0, <1>2, <1>3, <2>1 DEF WifTypes, WifTypeOK, Proceeds
    <2>5. RadPut' /\ NoConflict'
      BY <1>0, <1>1, <1>2, <1>3, <2>1, <2>3 DEF RadPut, NoConflict, Conflicts, Proceeds
    <2> QED BY <2>1, <2>3, <2>4, <2>5
            DEF WifInv, OneRole, Undisturbed, BeforeStation, AfterStation, AfterAp, Going
  <1> QED BY <1>4, <1>5, <1>6

\* The station's units are set on its own radio, so that what it leaves is as the copy
\* says; a station that starts does so on a radio the access point is not on.
LEMMA StationStep == ASSUME WifInv, ApplyStation PROVE WifInv'
  <1>0. WifTypes /\ JobInv /\ RadPut /\ NoConflict /\ OneRole /\ BeforeStation
    BY DEF WifInv
  <1> DEFINE r == wifJob.client.at
  <1>1. wifJob.steps \in {W3, P1} /\ wifJob.steps # << >> /\ wifJob # NoWifJob
    BY <1>0, WifFields, StepsHeads DEF ApplyStation, AtWifi, JobInv
  <1>2. /\ wifi' = wifi /\ hostapd' = hostapd /\ wifWaiting' = wifWaiting
        /\ wifRetrying' = wifRetrying /\ bootScan' = bootScan /\ pause' = pause
        /\ wifOutcome' = wifOutcome /\ moved' = moved /\ clashed' = clashed
    BY DEF ApplyStation
  <1>3. /\ station' \in {station, station \cup {r}, station \ {r}}
        /\ boots' \in {boots, boots \cup {<<"station", r>>}, boots \ {<<"station", r>>}}
        /\ ~wifJob.client.on => station' \subseteq station
    BY DEF ApplyStation, Taking
  <1>4. \/ /\ NextWifi /\ shaken' = shaken
           /\ station' = (IF wifJob.client.on THEN station \cup {r} ELSE station \ {r})
           /\ boots' = (IF wifJob.client.on THEN boots \cup {<<"station", r>>}
                                             ELSE boots \ {<<"station", r>>})
        \/ SkipWifi(1)
    BY DEF ApplyStation, Taking
  <1> DEFINE t == IF wifJob.steps = W3 THEN W2 ELSE << >>
  <1>5. t \in {W2, << >>} /\ (t = W2 => wifJob.full) /\ (t = << >> => ~wifJob.full)
    BY <1>0, <1>1, StepsApart, WifFields DEF JobInv
  <1>6. /\ Proceeds(t)
        /\ \/ NextWifi /\ wifJob'.failed = wifJob.failed /\ shaken' = shaken
           \/ wifJob'.failed = TRUE /\ shaken' = TRUE
    <2>1. CASE NextWifi /\ shaken' = shaken
      BY <1>0, <1>1, <2>1, NextIs, StepsTails, StepsApart DEF WifSteps
    <2>2. CASE SkipWifi(1)
      <3>1. SubSeq(wifJob.steps, 1 + 1, Len(wifJob.steps)) = t
        BY <1>1, StepsSkipped
      <3>2. t \in WifSteps
        BY DEF WifSteps
      <3> HIDE DEF t
      <3> QED BY <1>0, <2>2, <3>1, <3>2, SkipIs
    <2> QED BY <1>4, <2>1, <2>2
  <1> HIDE DEF t
  <1>7. JobInv' /\ wifJob' # NoWifJob /\ RestInv' /\ pause = "none"
        /\ (Conflicts(wifJob') <=> Conflicts(wifJob))
    BY <1>0, <1>1, <1>2, <1>5, <1>6, JobGoesOn, StepsApart DEF JobInv
  <1>8. WifTypes'
    <2>1. r \in Radios
      BY <1>0, WifFields
    <2>2. shaken' \in BOOLEAN /\ wifJob' \in WifJobs
      BY <1>0, <1>6 DEF WifTypes, Proceeds
    <2>3. station' \subseteq Radios /\ boots' \subseteq ({"station", "ap"} \X Radios)
      BY <1>0, <1>3, <2>1 DEF WifTypes, WifTypeOK
    <2> QED BY <1>0, <1>2, <2>2, <2>3 DEF WifTypes, WifTypeOK
  <1>9. RadPut' /\ NoConflict'
    BY <1>0, <1>1, <1>2, <1>3, <1>6, <1>7 DEF RadPut, Proceeds, NoConflict
  <1>10. OneRole'
    BY <1>2, <1>6, <1>7, RadioAssumption, <1>0, <1>1, <1>3 DEF OneRole, Undisturbed, Up, BeforeStation
  <1>11. BeforeStation' /\ AfterAp'
    BY <1>5, <1>6, StepsApart DEF BeforeStation, AfterAp, Going, Proceeds
  <1>12. AfterStation'
    <2> SUFFICES ASSUME Going', wifJob'.steps \in {W2, W1, << >>} PROVE StationDone'
      BY DEF AfterStation
    <2>1. /\ station' = (IF wifJob.client.on THEN station \cup {r} ELSE station \ {r})
          /\ boots' = (IF wifJob.client.on THEN boots \cup {<<"station", r>>}
                                             ELSE boots \ {<<"station", r>>})
      BY <1>0, <1>4, <1>5, <1>6, SkipIs DEF Going, SkipWifi, WifTypes, WifJobs
    <2>2. station \subseteq {r}
      BY <1>0, <1>1, <1>2 DEF RadPut, Going
    <2>3. wifJob'.client = wifJob.client
      BY <1>6 DEF Proceeds
    <2> QED BY <2>1, <2>2, <2>3 DEF StationDone
  <1> QED BY <1>7, <1>8, <1>9, <1>10, <1>11, <1>12 DEF WifInv

\* The access point starts on a radio that the copy does not give to the station, which by
\* then is where the copy says; a conflict is one of a tree that clashed.
LEMMA AccessPointStep == ASSUME WifInv, ApplyAccessPoint PROVE WifInv'
  <1>0. WifTypes /\ JobInv /\ RadPut /\ NoConflict /\ OneRole /\ AfterStation
    BY DEF WifInv
  <1> DEFINE r == wifJob.ap.at
  <1>1. wifJob.steps = W2 /\ wifJob.steps # << >> /\ wifJob # NoWifJob /\ wifJob.full
    BY <1>0, WifFields, StepsHeads, StepsApart DEF ApplyAccessPoint, AtWifi, JobInv
  <1>2. /\ wifi' = wifi /\ station' = station /\ wifWaiting' = wifWaiting
        /\ wifRetrying' = wifRetrying /\ bootScan' = bootScan /\ pause' = pause
        /\ wifOutcome' = wifOutcome /\ moved' = moved
    BY DEF ApplyAccessPoint
  <1>3. /\ hostapd' \in {hostapd, hostapd \cup {r}, hostapd \ {r}}
        /\ boots' \in {boots, boots \cup {<<"ap", r>>}, boots \ {<<"ap", r>>}}
        /\ ~wifJob.ap.on \/ Conflicts(wifJob) => hostapd' \subseteq hostapd
    BY DEF ApplyAccessPoint, Taking
  <1>4. \/ Conflicts(wifJob) /\ wifJob' = [wifJob EXCEPT !.steps = << >>] /\ shaken' = shaken
        \/ /\ ~Conflicts(wifJob) /\ NextWifi /\ shaken' = shaken
           /\ hostapd' = (IF wifJob.ap.on THEN hostapd \cup {r} ELSE hostapd \ {r})
           /\ boots' = (IF wifJob.ap.on THEN boots \cup {<<"ap", r>>} ELSE boots \ {<<"ap", r>>})
        \/ ~Conflicts(wifJob) /\ SkipWifi(2)
    BY DEF ApplyAccessPoint, Taking
  <1>5. \/ clashed' = clashed
        \/ /\ ~Conflicts(wifJob) /\ ~wifJob.ap.on
           /\ clashed' = (clashed /\ (hostapd' # {} \/ Conflicts(wifi)))
    BY DEF ApplyAccessPoint
  <1> DEFINE t == wifJob'.steps
  <1>6. /\ Proceeds(t) /\ t \in {W1, << >>}
        /\ \/ wifJob'.failed = wifJob.failed /\ shaken' = shaken
           \/ wifJob'.failed = TRUE /\ shaken' = TRUE
    BY <1>0, <1>1, NextIs, StepsTails, StepsSkipped, SkipIs, <1>4 DEF WifTypes, WifJobs, Proceeds, WifSteps
  <1> HIDE DEF t
  <1>7. JobInv' /\ wifJob' # NoWifJob /\ RestInv' /\ pause = "none"
        /\ (Conflicts(wifJob') <=> Conflicts(wifJob))
    BY <1>0, <1>1, <1>2, <1>6, JobGoesOn, StepsApart DEF JobInv
  <1>8. WifTypes'
    <2>1. r \in Radios
      BY <1>0, WifFields
    <2>2. shaken' \in BOOLEAN /\ wifJob' \in WifJobs
      BY <1>0, <1>6 DEF WifTypes, Proceeds
    <2>3. hostapd' \subseteq Radios /\ boots' \subseteq ({"station", "ap"} \X Radios)
      BY <1>0, <1>3, <2>1 DEF WifTypes, WifTypeOK
    <2>4. clashed' \in BOOLEAN
      BY <1>0, <1>5 DEF WifTypes
    <2> QED BY <1>0, <1>2, <2>2, <2>3, <2>4 DEF WifTypes, WifTypeOK
  <1>9. RadPut'
    BY <1>0, <1>1, <1>2, <1>3, <1>6, <1>7 DEF RadPut, Proceeds
  <1>10. NoConflict'
    BY <1>2, <1>7, <1>0, <1>5 DEF NoConflict, WifTypes
  <1>11. OneRole'
    <2> SUFFICES ASSUME Undisturbed' PROVE station' \cap Up' = {}
      BY DEF OneRole
    <2>1. ~moved /\ ~shaken /\ Up' = hostapd'
      BY <1>0, <1>2, <1>6, <1>7, RadioAssumption DEF Undisturbed, Up
    <2>2. CASE ~clashed
      <3>1. station \cap hostapd = {}
        BY <1>0, <2>1, <2>2 DEF OneRole, Up, Undisturbed
      <3>2. Going
        BY <1>0, <1>1, <2>1 DEF Going, JobInv
      <3>3. StationDone
        BY <1>0, <1>1, <3>2 DEF AfterStation
      <3>4. wifJob.ap.on => r \notin station
        BY <1>0, <2>2, <3>3, WifFields DEF NoConflict, Conflicts, StationDone
      <3> QED BY <1>2, <1>3, <2>1, <3>1, <3>4
    <2>3. CASE clashed
      BY <1>2, <1>5, <2>1, <2>3 DEF Undisturbed
    <2> QED BY <2>2, <2>3
  <1>12. BeforeStation'
    BY <1>6, StepsApart DEF BeforeStation, t
  <1>13. AfterStation'
    BY <1>0, <1>1, <1>2, <1>6, <1>3 DEF AfterStation, Going, Proceeds, WifTypes, WifJobs, StationDone
  <1>14. AfterAp'
    BY <1>7, <1>0, <1>4, <1>1, <1>2, <1>6 DEF AfterAp, Going, SkipWifi, WifTypes, WifJobs, RadPut, Proceeds,
       ApDone
  <1> QED BY <1>7, <1>8, <1>9, <1>10, <1>11, <1>12, <1>13, <1>14 DEF WifInv

LEMMA AcsStep == ASSUME WifInv, AwaitAcs PROVE WifInv'
  <1>0. WifTypes /\ JobInv /\ RadPut /\ NoConflict /\ OneRole /\ AfterStation /\ AfterAp
    BY DEF WifInv
  <1>1. wifJob.steps = W1 /\ wifJob.steps # << >> /\ wifJob # NoWifJob /\ wifJob.full
    BY <1>0, WifFields, StepsHeads, StepsApart DEF AwaitAcs, AtWifi, JobInv
  <1>2. /\ wifi' = wifi /\ station' = station /\ wifWaiting' = wifWaiting /\ hostapd' = hostapd
        /\ boots' = boots /\ clashed' = clashed
        /\ wifRetrying' = wifRetrying /\ bootScan' = bootScan /\ pause' = pause
        /\ wifOutcome' = wifOutcome /\ moved' = moved
    BY DEF AwaitAcs, wifUnits
  <1>3. (NextWifi /\ shaken' = shaken) \/ SkipWifi(1)
    BY DEF AwaitAcs
  <1>4. /\ Proceeds(<< >>)
        /\ \/ wifJob'.failed = wifJob.failed /\ shaken' = shaken
           \/ wifJob'.failed = TRUE /\ shaken' = TRUE
    BY <1>0, <1>1, NextIs, StepsTails, StepsSkipped, SkipIs, <1>3 DEF WifSteps
  <1>5. JobInv' /\ wifJob' # NoWifJob /\ RestInv' /\ pause = "none"
        /\ (Conflicts(wifJob') <=> Conflicts(wifJob))
    BY <1>0, <1>1, <1>2, <1>4, JobGoesOn, StepsApart DEF JobInv
  <1>6. WifTypes'
    BY <1>0, <1>4, <1>2 DEF WifTypes, Proceeds, WifTypeOK
  <1>7. RadPut' /\ NoConflict'
    BY <1>0, <1>1, <1>2, <1>4, <1>5 DEF RadPut, Proceeds, NoConflict
  <1>8. OneRole' /\ BeforeStation'
    BY <1>4, StepsApart, <1>0, <1>2 DEF BeforeStation, Proceeds, OneRole, Up, Undisturbed
  <1>9. Going' => Going
    BY <1>0, <1>1, <1>2, <1>4 DEF Going, Proceeds
  <1>10. AfterStation' /\ AfterAp'
    BY <1>4, <1>0, <1>1, <1>2, <1>9, <1>5 DEF Proceeds, AfterStation, StationDone, AfterAp, ApDone
  <1> QED BY <1>5, <1>6, <1>7, <1>8, <1>10 DEF WifInv

\* A full apply that ended well, of the settings as they are, leaves the radios at rest.
LEMMA EndStep == ASSUME WifInv, EndWifi PROVE WifInv'
  <1>0. WifTypes /\ JobInv /\ RadPut /\ NoConflict /\ OneRole /\ AfterStation /\ AfterAp
    BY DEF WifInv
  <1>1. /\ wifJob # NoWifJob /\ wifJob.steps = << >> /\ wifJob' = NoWifJob
        /\ wifOutcome' = (IF wifJob.failed THEN "failed" ELSE "ok")
        /\ wifRetrying' = (IF wifJob.startup /\ wifJob.full /\ ~wifJob.failed THEN "no" ELSE wifRetrying)
        /\ shaken' = (shaken /\ (wifJob.failed \/ ~wifJob.full))
        /\ wifi' = wifi /\ station' = station /\ wifWaiting' = wifWaiting /\ hostapd' = hostapd
        /\ boots' = boots /\ clashed' = clashed /\ bootScan' = bootScan /\ pause' = pause
        /\ moved' = moved
    BY DEF EndWifi, wifUnits
  <1>2. pause = "none"
    BY <1>0, <1>1, WifFields DEF JobInv, WifTypes, WifTypeOK
  <1>3. WifTypes'
    BY <1>0, <1>1, NoJobIs DEF WifTypes, WifTypeOK
  <1>4. JobInv'
    BY <1>1, NoJobIs, StepsApart DEF JobInv
  <1>5. RadPut' /\ NoConflict'
    BY <1>0, <1>1, NoJobIs DEF RadPut, NoConflict, Conflicts
  <1>6. BeforeStation' /\ AfterStation' /\ AfterAp'
    BY <1>1, NoJobIs, StepsApart DEF BeforeStation, AfterStation, AfterAp, Going
  <1>7. ASSUME ~moved, ~clashed, ~wifJob.failed, wifJob.full
        PROVE  StationDone /\ ApDone /\ (~wifJob.client.on \/ ~wifJob.ap.on \/ wifJob.client.at # wifJob.ap.at)
    BY <1>1, <1>7, <1>0, WifFields DEF Going, NoConflict, AfterStation, AfterAp, Conflicts
  <1>8. OneRole'
    BY <1>1, <1>2, RadioAssumption, <1>0, WifFields, <1>7 DEF OneRole, Up, Undisturbed, StationDone, ApDone
  <1>9. RestInv'
    BY <1>1, <1>2, RadioAssumption, <1>0, <1>7 DEF Up, RestInv, Undisturbed, JobInv, RadPut, StationDone,
       ApDone
  <1> QED BY <1>3, <1>4, <1>5, <1>6, <1>8, <1>9 DEF WifInv

\* An apply begins with a copy of the settings, nobody else holding the lock.
LEMMA BeginStep == ASSUME WifInv, ApplyWritten \/ ApplyDeferred PROVE WifInv'
  <1>0. WifTypes /\ JobInv /\ RadPut /\ NoConflict /\ OneRole
    BY DEF WifInv
  <1>1. PICK s \in {W4, P2}, u \in BOOLEAN :
           /\ BeginWifi(s, u)
           /\ s = P2 => u /\ wifRetrying' = "both"
           /\ wifRetrying' \in {wifRetrying, "both"}
           /\ wifWaiting' \in BOOLEAN
    BY <1>0 DEF ApplyWritten, ApplyDeferred, W4, P2, WifTypes
  <1>2. /\ wifi' = wifi /\ station' = station /\ hostapd' = hostapd /\ shaken' = shaken
        /\ boots' = boots /\ clashed' = clashed /\ bootScan' = bootScan /\ pause' = pause
        /\ moved' = moved /\ wifOutcome' = wifOutcome
        /\ wifJob = NoWifJob /\ pause = "none"
    BY <1>1 DEF BeginWifi, wifUnits, Unlocked
  <1>3. /\ wifJob' \in WifJobs /\ wifJob'.steps = s /\ wifJob'.client = wifi.client
        /\ wifJob'.ap = wifi.ap /\ wifJob'.failed = FALSE /\ wifJob'.full = (s = W4)
        /\ wifJob'.startup = u
    <2> DEFINE f == Len(s) > 2
    <2>1. f = (s = W4) /\ f \in BOOLEAN
      BY StepsTails, StepsApart
    <2>2. wifJob' = [steps |-> s, client |-> wifi.client, ap |-> wifi.ap, failed |-> FALSE,
                     full |-> f, startup |-> u]
      BY <1>1 DEF BeginWifi
    <2>3. wifi.client \in Role /\ wifi.ap \in Role /\ s \in WifSteps
      BY <1>0, WifFields DEF WifSteps
    <2> HIDE DEF f
    <2> QED BY <2>1, <2>2, <2>3 DEF WifJobs
  <1>4. s # << >> /\ wifJob' # NoWifJob /\ s \notin {W3, P1, W2, W1}
    BY <1>3, NoJobIs, StepsApart
  <1>5. WifTypes'
    BY <1>0, <1>1, <1>2, <1>3 DEF WifTypes, WifTypeOK
  <1>6. JobInv'
    BY <1>1, <1>2, <1>3, <1>4, StepsApart DEF JobInv
  <1>7. RadPut' /\ NoConflict'
    BY <1>0, <1>2, <1>3 DEF RadPut, NoConflict, Conflicts
  <1>8. OneRole'
    BY <1>0, <1>2 DEF OneRole, Up, Undisturbed
  <1>9. BeforeStation' /\ AfterStation' /\ AfterAp' /\ RestInv'
    BY <1>3, <1>4 DEF BeforeStation, AfterStation, AfterAp, RestInv
  <1> QED BY <1>5, <1>6, <1>7, <1>8, <1>9 DEF WifInv

LEMMA GivenUpStep == ASSUME WifInv, ApplyGivenUp \/ BootScanEnds PROVE WifInv'
  <1>0. WifTypes /\ JobInv /\ RadPut /\ NoConflict /\ OneRole /\ RestInv
    BY DEF WifInv
  <1>1. /\ wifi' = wifi /\ station' = station /\ hostapd' = hostapd /\ shaken' = shaken
        /\ boots' = boots /\ clashed' = clashed /\ pause' = pause /\ wifJob' = wifJob
        /\ moved' = moved /\ wifOutcome' = wifOutcome /\ wifWaiting' = wifWaiting
    BY DEF ApplyGivenUp, BootScanEnds, wifUnits
  <1>2. /\ bootScan' \in {bootScan, "done"}
        /\ \/ wifRetrying' = wifRetrying
           \/ wifRetrying' = "no" /\ wifJob = NoWifJob /\ wifOutcome = "failed"
    BY DEF ApplyGivenUp, BootScanEnds, Unlocked
  <1>3. WifTypes'
    BY <1>0, <1>1, <1>2 DEF WifTypes, WifTypeOK
  <1>4. JobInv' /\ RestInv'
    BY <1>0, <1>1, <1>2 DEF JobInv, RestInv, Undisturbed, Up
  <1>5. RadPut' /\ NoConflict' /\ OneRole' /\ BeforeStation'
    BY <1>1 DEF WifInv, RadPut, NoConflict, Conflicts, OneRole, Up, Undisturbed, BeforeStation
  <1>6. AfterStation' /\ AfterAp'
    BY <1>1 DEF WifInv, AfterStation, AfterAp, Going, StationDone, ApDone, Conflicts
  <1> QED BY <1>3, <1>4, <1>5, <1>6 DEF WifInv

\* A write leaves the apply under way on its copy, and the next one waiting.
LEMMA WriteStep == ASSUME WifInv, WriteWifi PROVE WifInv'
  <1>0. WifTypes /\ JobInv /\ RadPut /\ NoConflict /\ OneRole
    BY DEF WifInv
  <1>1. /\ station' = station /\ hostapd' = hostapd /\ shaken' = shaken
        /\ boots' = boots /\ pause' = pause /\ wifJob' = wifJob /\ wifRetrying' = wifRetrying
        /\ wifOutcome' = wifOutcome /\ bootScan' = bootScan /\ wifWaiting' = TRUE
        /\ clashed' = (clashed \/ Conflicts(wifi'))
    BY DEF WriteWifi, wifUnits
  <1>2. PICK c \in Role, a \in Role :
           /\ wifi' = [client |-> c, ap |-> a]
           /\ moved' = (moved \/ c.at # wifi.client.at \/ a.at # wifi.ap.at)
    BY DEF WriteWifi
  <1>3. wifi' \in [client : Role, ap : Role] /\ wifi'.client = c /\ wifi'.ap = a
    BY <1>2
  <1>4. clashed' \in BOOLEAN /\ moved' \in BOOLEAN
    BY <1>0, <1>1, <1>2 DEF WifTypes
  <1>5. WifTypes'
    BY <1>0, <1>1, <1>3, <1>4 DEF WifTypes, WifTypeOK
  <1>6. JobInv' /\ RestInv'
    BY <1>0, <1>1 DEF JobInv, RestInv
  <1>7. ~moved' => ~moved /\ wifi'.client.at = wifi.client.at /\ wifi'.ap.at = wifi.ap.at
    BY <1>2, <1>3
  <1>8. RadPut'
    BY <1>0, <1>1, <1>7 DEF RadPut
  <1>9. ~clashed' => ~clashed /\ ~Conflicts(wifi')
    BY <1>1
  <1>10. NoConflict'
    BY <1>0, <1>1, <1>9 DEF NoConflict
  <1>11. Undisturbed' => Undisturbed
    BY <1>1, <1>7, <1>9 DEF Undisturbed
  <1>12. OneRole' /\ BeforeStation'
    BY <1>1, <1>11 DEF WifInv, OneRole, Up, BeforeStation
  <1>13. AfterStation' /\ AfterAp'
    BY <1>1, <1>7 DEF WifInv, AfterStation, AfterAp, Going, StationDone, ApDone, Conflicts
  <1> QED BY <1>5, <1>6, <1>8, <1>10, <1>12, <1>13 DEF WifInv

\* A scan takes the access point down and up again under the lock.
LEMMA ScanStep == ASSUME WifInv, PauseAccessPoint \/ ResumeAccessPoint PROVE WifInv'
  <1>0. WifTypes /\ JobInv /\ RadPut /\ NoConflict /\ OneRole /\ RestInv
    BY DEF WifInv
  <1>1. /\ wifi' = wifi /\ station' = station /\ boots' = boots /\ wifJob' = wifJob
        /\ wifWaiting' = wifWaiting /\ wifRetrying' = wifRetrying /\ bootScan' = bootScan
        /\ wifOutcome' = wifOutcome /\ moved' = moved /\ clashed' = clashed
        /\ wifJob = NoWifJob
    BY <1>0 DEF PauseAccessPoint, ResumeAccessPoint, Unlocked, JobInv
  <1>2. /\ shaken' \in BOOLEAN
        /\ hostapd' \subseteq Up /\ hostapd' \subseteq Radios
        /\ pause' \in {"none", wifi.ap.at} /\ pause' \in {"none"} \cup hostapd
        /\ Undisturbed' => Undisturbed /\ Up' = Up
    <2>1. CASE PauseAccessPoint
      BY <1>0, <2>1, WifFields, RadioAssumption, <1>1 DEF PauseAccessPoint, Unlocked, Up, Undisturbed,
         WifTypes, WifTypeOK
    <2>2. CASE ResumeAccessPoint
      <3>1. pause \in Radios /\ pause # "none" /\ pause' = "none"
        BY <1>0, <2>2 DEF ResumeAccessPoint, WifTypes, WifTypeOK
      <3>2. \/ hostapd' = hostapd \cup {pause} /\ shaken' = shaken
            \/ hostapd' = hostapd /\ shaken' = TRUE
        BY <2>2 DEF ResumeAccessPoint, Taking
      <3>3. shaken \in BOOLEAN /\ hostapd \subseteq Radios
        BY <1>0 DEF WifTypes, WifTypeOK
      <3>4. Up = hostapd \cup {pause} /\ Up' = hostapd'
        BY <3>1 DEF Up
      <3>5. Undisturbed' => Undisturbed /\ hostapd' = hostapd \cup {pause}
        BY <1>1, <3>2 DEF Undisturbed
      <3>6. shaken' \in BOOLEAN /\ hostapd' \subseteq Up /\ hostapd' \subseteq Radios
        BY <3>1, <3>2, <3>3, <3>4
      <3> QED BY <3>1, <3>4, <3>5, <3>6
    <2> QED BY <2>1, <2>2
  <1>3. WifTypes'
    BY <1>0, <1>1, <1>2, WifFields DEF WifTypes, WifTypeOK
  <1>4. JobInv'
    BY <1>0, <1>1, NoJobIs DEF JobInv
  <1>5. RadPut' /\ NoConflict'
    BY <1>0, <1>1, <1>2 DEF RadPut, Up, NoConflict, Conflicts
  <1>6. OneRole' /\ RestInv'
    BY <1>0, <1>1, <1>2 DEF OneRole, RestInv
  <1>7. BeforeStation' /\ AfterStation' /\ AfterAp'
    BY <1>1, NoJobIs, StepsApart DEF BeforeStation, AfterStation, AfterAp, Going
  <1> QED BY <1>3, <1>4, <1>5, <1>6, <1>7 DEF WifInv

\* micad starts again: nothing is known of the radios until an apply of both succeeds.
LEMMA StartsStep == ASSUME WifInv, WifMicadDies \/ WifPowerCut PROVE WifInv'
  <1>0. WifTypes /\ JobInv /\ RadPut /\ NoConflict
    BY DEF WifInv
  <1>1. /\ wifJob' = NoWifJob /\ pause' = "none" /\ wifWaiting' = FALSE
        /\ bootScan' \in {"none", "runs"} /\ wifRetrying' \in {"station", "both"}
        /\ wifOutcome' = "none" /\ shaken' = TRUE
        /\ wifi' = wifi /\ moved' = moved /\ clashed' = clashed
    BY DEF WifMicadDies, WifPowerCut, MicadStarts
  <1>2. /\ boots' = boots
        /\ \/ station' = station /\ hostapd' = hostapd
           \/ /\ station' = {r \in Radios : <<"station", r>> \in boots}
              /\ hostapd' = {r \in Radios : <<"ap", r>> \in boots}
    BY DEF WifMicadDies, WifPowerCut, wifUnits
  <1>3. WifTypes'
    BY <1>0, <1>2, <1>1, NoJobIs DEF WifTypes, WifTypeOK
  <1>4. JobInv'
    BY <1>1, NoJobIs, StepsApart DEF JobInv
  <1>5. RadPut'
    BY <1>0, <1>1, <1>2 DEF RadPut
  <1>6. NoConflict'
    BY <1>0, <1>1, NoJobIs DEF NoConflict, Conflicts
  <1>7. OneRole' /\ RestInv'
    BY <1>1 DEF OneRole, RestInv, Undisturbed
  <1>8. BeforeStation' /\ AfterStation' /\ AfterAp'
    BY <1>1, NoJobIs, StepsApart DEF BeforeStation, AfterStation, AfterAp, Going
  <1> QED BY <1>3, <1>4, <1>5, <1>6, <1>7, <1>8 DEF WifInv

LEMMA WifStep == ASSUME WifInv, [WifNext]_wifVars PROVE WifInv'
  <1>1. CASE WifNext
    BY <1>1, StopStep, StationStep, AccessPointStep, AcsStep, EndStep, BeginStep, GivenUpStep,
       WriteStep, ScanStep, StartsStep DEF WifNext
  <1>2. CASE UNCHANGED wifVars
    <2>1. WifTypes' /\ JobInv' /\ RadPut' /\ NoConflict'
      BY <1>2 DEF wifVars, WifInv, WifTypes, WifTypeOK, JobInv, RadPut, NoConflict, Conflicts
    <2>2. BeforeStation' /\ OneRole' /\ RestInv'
      BY <1>2 DEF wifVars, WifInv, BeforeStation, OneRole, RestInv, Undisturbed, Up
    <2>3. AfterStation' /\ AfterAp'
      BY <1>2 DEF wifVars, WifInv, AfterStation, AfterAp, Going, StationDone, ApDone, Conflicts
    <2> QED BY <2>1, <2>2, <2>3 DEF WifInv
  <1> QED BY <1>1, <1>2

LEMMA WifSafe == WifInv => RadioSafe
  BY DEF WifInv, WifTypes, OneRole, Up, OneRoleAtATime, Undisturbed, RadioConverged, WifRest, Unlocked,
     RestInv, RadioSafe

(***************************************************************************)
(* The reconcilers side by side.                                           *)
(***************************************************************************)
networkVars == <<nuVars, nrVars, svcVars, wifVars, btVars, rgVars, part>>

\* A step of the whole is a step of each part, or leaves the part alone.
LEMMA StepOfEach ==
  ASSUME [NetworkNext]_networkVars
  PROVE  [NuNext]_nuVars /\ [NrNext]_nrVars /\ [SvcNext]_svcVars /\ [WifNext]_wifVars /\ [BtNext]_btVars
  BY DEF NetworkNext, networkVars

\* WifiRadio!RadioSafe, BtTypeOK and NoWindowNotDiscoverable: wifi.rs gives the radio one
\* role and comes to the one that was asked for, and agent.rs leaves nothing discoverable
\* outside a pairing window, for any radios, devices and calls.
THEOREM RadiosAreSafe == NetworkSpec => []RadiosSafe
  <1>1. NetworkInit => WifInv /\ BtInv
    BY WifStart, BtStart DEF NetworkInit
  <1>2. WifInv /\ BtInv /\ [NetworkNext]_networkVars => (WifInv /\ BtInv)'
    BY StepOfEach, WifStep, BtStep
  <1>3. WifInv /\ BtInv => RadiosSafe
    BY WifSafe, BtSafe DEF RadiosSafe
  <1> QED BY <1>1, <1>2, <1>3, PTL DEF NetworkSpec, networkVars

\* ServiceUnits!ServicesSafe: what a reconciler of a service recorded is what runs, whatever
\* step of an apply failed and however settings were written meanwhile, for any kinds and
\* configurations.
THEOREM ServicesAreSafe == NetworkSpec => []ServicesSafe
  <1>1. NetworkInit => SvcInv
    BY SvcStart DEF NetworkInit
  <1>2. SvcInv /\ [NetworkNext]_networkVars => SvcInv'
    BY StepOfEach, SvcKeeps
  <1>3. SvcInv => ServicesSafe
    BY DEF SvcInv, ServicesSafe
  <1> QED BY <1>1, <1>2, <1>3, PTL DEF NetworkSpec, networkVars

\* TunnelSafe and NetworksSafe: networkd's files and the tunnel are those of the settings
\* with the keys they keep, no edit gives a peer the secret of another, and the map that
\* runs was sound, for any requests and peers.
THEOREM NetworkIsSafe == NetworkSpec => []NetworkSafe
  <1>1. NetworkInit => NuInv /\ NrInv
    BY NuStart, NrStart DEF NetworkInit
  <1>2. NuInv /\ NrInv /\ [NetworkNext]_networkVars => (NuInv /\ NrInv)'
    BY StepOfEach, NuKeeps, NrKeeps
  <1>3. NuInv /\ NrInv => NetworkSafe
    BY NrSafe DEF NetworkSafe, NuInv
  <1> QED BY <1>1, <1>2, <1>3, PTL DEF NetworkSpec, networkVars

\* ContainersDrained and TrustListKept: container.rs stops its service only with no
\* container left but one an operator started since the drain, and bluetooth.rs takes a device from the trust list only when its removal
\* was asked for, at every step.
THEOREM NothingIsLeftBehind == NetworkSpec => NothingLeftBehind
  <1>1. NetworkInit => SvcInv /\ BtInv
    BY SvcStart, BtStart DEF NetworkInit
  <1>2. SvcInv /\ BtInv /\ [NetworkNext]_networkVars => (SvcInv /\ BtInv)'
    BY StepOfEach, SvcKeeps, BtStep
  <1>3. SvcInv /\ [NetworkNext]_networkVars =>
          [svcKind = "container" /\ UnitActive /\ unit'.state = "inactive"
             => ~svcMembers' \/ svcJob.late]_svcVars
    BY StepOfEach, DrainKeeps
  <1>4. BtInv /\ [NetworkNext]_networkVars =>
          [\A p \in declared \ declared' :
             \E c \in BtCalls : CallIs(c, "idle") /\ btCalls'[c].at = "unpair" /\ btCalls'[c].peer = p]_btVars
    BY StepOfEach, TrustStep
  <1> QED BY <1>1, <1>2, <1>3, <1>4, PTL
          DEF NetworkSpec, NothingLeftBehind, ContainersDrained, TrustListKept, networkVars
=============================================================================
