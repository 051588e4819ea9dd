----------------------------- MODULE TaskMirror -----------------------------
(***************************************************************************)
(* How a task's transitions reach a client of the HTTP API: micad stores   *)
(* the task list in its live state and emits TaskChanged                   *)
(* (publish_task_transition, crates/micad/src/bus/apply.rs), and mica-apid *)
(* keeps a mirror of the records (crates/mica-apid/src/task_registry.rs,   *)
(* bus_client.rs, routes/mod.rs) that it fills from reads when it misses.  *)
(*                                                                         *)
(* A task is its status.  The queue is reduced to it: ApplyQueue models    *)
(* its jobs.  micad keeps a bounded history, mostly of tasks that are not  *)
(* in Tasks: whether it is full is left open, and what a new task makes it *)
(* drop is a step of its own.  What the mirror's own bound drops is asked  *)
(* of micad again, as any miss is, and not modelled.                       *)
(***************************************************************************)
EXTENDS Integers, Sequences

CONSTANTS
  Tasks,
  Calls,       \* bus calls that queue an apply, each once
  MirrorReaders,     \* requests for a task or for the list
  MirrorLapses,   \* bound on the subscriptions lost
  MirrorRestarts, \* bound on micad's restarts
  Worker,      \* the apply worker, as a publisher
  All          \* what a request for the list asks for

ASSUME MirrorAssumption ==
  /\ MirrorLapses \in Nat /\ MirrorRestarts \in Nat
  /\ Worker \notin Calls /\ All \notin Tasks

Publishers == Calls \cup {Worker}

VARIABLES
  status,     \* micad's record of each task; "evicted": no longer kept;
              \* "gone": of a micad that ended
  live,       \* the live-state "tasks" list
  pubs,       \* where each publisher is: its task, what it says, its list
  restarts,
  mirrorWire,       \* TaskChanged signals on their way
  mirrorWatcher,    \* where watch_tasks is
  since,      \* the restarts its subscription has seen
  mirrorLapses,
  mirrorSynchronised, loaded, mirrorGeneration, tasks, stale,  \* the registry
  mirrorReaders

micad == <<status, live, pubs, restarts>>
bus == <<mirrorWire, mirrorWatcher, since, mirrorLapses>>
registry == <<mirrorSynchronised, loaded, mirrorGeneration, tasks, stale>>
mirrorVars == <<micad, bus, registry, mirrorReaders>>

Nothing == [t \in Tasks |-> "absent"]

NoPub == [at |-> "idle", task |-> All, says |-> "absent", list |-> Nothing]

NoMirrorRead == [at |-> "idle", task |-> All, stale |-> "absent", mirrorGeneration |-> 0,
           got |-> Nothing]

MirrorInit ==
  /\ status = Nothing /\ live = Nothing /\ restarts = 0
  /\ pubs = [p \in Publishers |-> NoPub]
  /\ mirrorWire = << >> /\ mirrorWatcher = "dialling" /\ since = 0 /\ mirrorLapses = 0
  /\ mirrorSynchronised = FALSE /\ loaded = FALSE /\ mirrorGeneration = 0
  /\ tasks = Nothing /\ stale = Nothing
  /\ mirrorReaders = [r \in MirrorReaders |-> NoMirrorRead]

-----------------------------------------------------------------------------
(* micad *)

\* The tasks micad has a record of.
Recorded == {t \in Tasks : status[t] \in {"queued", "running", "finished"}}

RecordList == [t \in Tasks |-> IF t \in Recorded THEN status[t] ELSE "absent"]

\* A record changes under the queue's lock; what will be said of it is a copy.
Transition(p, t, says) ==
  /\ status' = [status EXCEPT ![t] = says]
  /\ pubs' = [pubs EXCEPT ![p] = [NoPub EXCEPT !.at = "list", !.task = t, !.says = says]]
  /\ UNCHANGED <<live, restarts, bus, registry, mirrorReaders>>

\* A write is queued as a task, or folds into one still queued.
Queue(c, t) ==
  /\ pubs[c].at = "idle"
  /\ status[t] \in {"absent", "queued"}
  /\ Transition(c, t, "queued")

\* A new task makes a full history drop a finished record; its own publication
\* may have stored the list without it.
Evict(t) ==
  /\ status[t] = "finished"
  /\ status' = [status EXCEPT ![t] = "evicted"]
  /\ live' \in {live, RecordList'}
  /\ UNCHANGED <<pubs, restarts, bus, registry, mirrorReaders>>

Start(t) ==
  /\ pubs[Worker].at = "idle"
  /\ status[t] = "queued"
  /\ Transition(Worker, t, "running")

Finish ==
  /\ pubs[Worker].at = "applying"
  /\ Transition(Worker, pubs[Worker].task, "finished")

\* publish_task_transition: the list is taken under the queue's lock ...
TakeList(p) ==
  /\ pubs[p].at = "list"
  /\ pubs' = [pubs EXCEPT ![p].at = "store", ![p].list = RecordList]
  /\ UNCHANGED <<status, live, restarts, bus, registry, mirrorReaders>>

\* ... stored under the tree's ...
StoreList(p) ==
  /\ pubs[p].at = "store"
  /\ live' = pubs[p].list
  /\ pubs' = [pubs EXCEPT ![p].at = "signal", ![p].list = Nothing]
  /\ UNCHANGED <<status, restarts, bus, registry, mirrorReaders>>

MirrorSubscribed == mirrorWatcher \in {"matched", "live"}

\* ... and the record signalled; the worker goes on to apply what it started.
EmitTaskChanged(p) ==
  LET next == IF p # Worker THEN "done"
              ELSE IF pubs[p].says = "running" THEN "applying" ELSE "idle"
  IN
  /\ pubs[p].at = "signal"
  /\ mirrorWire' = IF MirrorSubscribed THEN Append(mirrorWire, <<pubs[p].task, pubs[p].says>>) ELSE mirrorWire
  /\ pubs' = [pubs EXCEPT ![p] = [NoPub EXCEPT
       !.at = next, !.task = IF next = "applying" THEN pubs[p].task ELSE All]]
  /\ UNCHANGED <<status, live, restarts, mirrorWatcher, since, mirrorLapses, registry, mirrorReaders>>

\* micad restarts: the queue was in memory, and no id is used again.
MicadRestarts ==
  /\ restarts < MirrorRestarts
  /\ restarts' = restarts + 1
  /\ status' = [t \in Tasks |-> IF status[t] = "absent" THEN "absent" ELSE "gone"]
  /\ live' = Nothing
  /\ pubs' = [p \in Publishers |-> [NoPub EXCEPT
                 !.at = IF p = Worker \/ pubs[p].at = "idle" THEN "idle" ELSE "done"]]
  /\ UNCHANGED <<bus, registry, mirrorReaders>>

-----------------------------------------------------------------------------
(* The registry: each a single hold of its lock *)

\* No signal and no change of the subscription since the mirrorGeneration was taken.
Mutable(taken) == mirrorSynchronised /\ mirrorGeneration = taken

\* fill.
FillTask(taken, t, got) ==
  /\ tasks' = IF Mutable(taken) THEN [tasks EXCEPT ![t] = got] ELSE tasks
  /\ stale' = IF Mutable(taken) THEN [stale EXCEPT ![t] = "absent"] ELSE stale
  /\ UNCHANGED <<mirrorSynchronised, loaded, mirrorGeneration>>

\* fill_list.
FillList(taken, list) ==
  /\ tasks' = IF Mutable(taken) THEN list ELSE tasks
  /\ stale' = IF Mutable(taken)
              THEN [t \in Tasks |-> IF list[t] # "absent" THEN "absent" ELSE stale[t]]
              ELSE stale
  /\ loaded' = (loaded \/ Mutable(taken))
  /\ UNCHANGED <<mirrorSynchronised, mirrorGeneration>>

-----------------------------------------------------------------------------
(* watch_tasks *)

MirrorWatchMatch ==
  /\ mirrorWatcher = "dialling"
  /\ mirrorWatcher' = "matched"
  /\ since' = restarts
  /\ UNCHANGED <<micad, mirrorWire, mirrorLapses, registry, mirrorReaders>>

\* subscribed.
MirrorWatchSubscribed ==
  /\ mirrorWatcher = "matched"
  /\ mirrorWatcher' = "live"
  /\ mirrorSynchronised' = TRUE /\ loaded' = FALSE /\ mirrorGeneration' = mirrorGeneration + 1
  /\ tasks' = Nothing
  /\ UNCHANGED <<micad, mirrorWire, since, mirrorLapses, stale, mirrorReaders>>

\* update.
WatcherUpdate ==
  /\ mirrorWatcher = "live" /\ mirrorWire # << >>
  /\ mirrorWire' = Tail(mirrorWire)
  /\ mirrorGeneration' = mirrorGeneration + 1
  /\ tasks' = [tasks EXCEPT ![Head(mirrorWire)[1]] = Head(mirrorWire)[2]]
  /\ stale' = [stale EXCEPT ![Head(mirrorWire)[1]] = "absent"]
  /\ UNCHANGED <<micad, mirrorWatcher, since, mirrorLapses, mirrorSynchronised, loaded, mirrorReaders>>

\* The stream ends, with what was on it.
MirrorWatchEnds ==
  /\ MirrorSubscribed /\ mirrorLapses < MirrorLapses
  /\ mirrorWatcher' = "ended"
  /\ mirrorWire' = << >>
  /\ mirrorLapses' = mirrorLapses + 1
  /\ UNCHANGED <<micad, since, registry, mirrorReaders>>

\* lapsed: what was mirrored is kept aside.
MirrorWatchLapsed ==
  /\ mirrorWatcher = "ended"
  /\ mirrorWatcher' = "dialling"
  /\ mirrorSynchronised' = FALSE /\ loaded' = FALSE /\ mirrorGeneration' = mirrorGeneration + 1
  /\ tasks' = Nothing
  /\ stale' = [t \in Tasks |-> IF tasks[t] # "absent" THEN tasks[t] ELSE stale[t]]
  /\ UNCHANGED <<micad, mirrorWire, since, mirrorLapses, mirrorReaders>>

-----------------------------------------------------------------------------
(* task_record and task_records; a hit changes nothing *)

GetTask(r, t) ==
  /\ mirrorReaders[r].at = "idle"
  /\ ~mirrorSynchronised \/ tasks[t] = "absent"
  /\ mirrorReaders' = [mirrorReaders EXCEPT ![r] = [NoMirrorRead EXCEPT !.at = "missed", !.task = t]]
  /\ UNCHANGED <<micad, bus, registry>>

GetList(r) ==
  /\ mirrorReaders[r].at = "idle"
  /\ ~(mirrorSynchronised /\ loaded)
  /\ mirrorReaders' = [mirrorReaders EXCEPT ![r] = [NoMirrorRead EXCEPT !.at = "stale"]]
  /\ UNCHANGED <<micad, bus, registry>>

SampleStale(r) ==
  /\ mirrorReaders[r].at = "missed"
  /\ mirrorReaders' = [mirrorReaders EXCEPT ![r].at = "stale", ![r].stale = stale[mirrorReaders[r].task]]
  /\ UNCHANGED <<micad, bus, registry>>

SampleGeneration(r) ==
  /\ mirrorReaders[r].at = "stale"
  /\ mirrorReaders' = [mirrorReaders EXCEPT ![r].at = "sampled", ![r].mirrorGeneration = mirrorGeneration]
  /\ UNCHANGED <<micad, bus, registry>>

\* Faulty variant: the mirror's word is taken before micad is asked.
AnswerOfMirror(task, had) ==
  IF had \in {"queued", "running"} THEN "interrupted"
  ELSE IF task \in Recorded THEN status[task] ELSE had

\* What a request answers: micad's record, else what the mirror had, as
\* interrupted if it was not finished, else not found.
AnswerOf(task, had) ==
  IF task \in Recorded THEN status[task]
  ELSE IF had \in {"queued", "running"} THEN "interrupted" ELSE had

ReadTask(r) ==
  LET t == mirrorReaders[r].task
      answer == AnswerOf(t, mirrorReaders[r].stale)
  IN
  /\ mirrorReaders[r].at = "sampled" /\ t # All
  /\ mirrorReaders' = [mirrorReaders EXCEPT ![r] =
       IF answer = "absent" THEN NoMirrorRead
       ELSE [@ EXCEPT !.at = "read", !.got = [Nothing EXCEPT ![t] = answer]]]
  /\ UNCHANGED <<micad, bus, registry>>

ReadList(r) ==
  /\ mirrorReaders[r].at = "sampled" /\ mirrorReaders[r].task = All
  /\ mirrorReaders' = [mirrorReaders EXCEPT ![r].at = "read", ![r].got = live]
  /\ UNCHANGED <<micad, bus, registry>>

Answer(r) ==
  LET t == mirrorReaders[r].task
      taken == mirrorReaders[r].mirrorGeneration
  IN
  /\ mirrorReaders[r].at = "read"
  /\ IF t = All THEN FillList(taken, mirrorReaders[r].got)
     ELSE FillTask(taken, t, mirrorReaders[r].got[t])
  /\ mirrorReaders' = [mirrorReaders EXCEPT ![r] = NoMirrorRead]
  /\ UNCHANGED <<micad, bus>>

-----------------------------------------------------------------------------
MicadSteps ==
  \/ \E c \in Calls, t \in Tasks : Queue(c, t)
  \/ \E t \in Tasks : Start(t) \/ Evict(t)
  \/ Finish
  \/ \E p \in Publishers : TakeList(p) \/ StoreList(p) \/ EmitTaskChanged(p)
  \/ MicadRestarts

MirrorWatchSteps ==
  MirrorWatchMatch \/ MirrorWatchSubscribed \/ WatcherUpdate \/ MirrorWatchEnds \/ MirrorWatchLapsed

MirrorReaderSteps(r) ==
  \/ \E t \in Tasks : GetTask(r, t)
  \/ GetList(r) \/ SampleStale(r) \/ SampleGeneration(r)
  \/ ReadTask(r) \/ ReadList(r) \/ Answer(r)

MirrorNext == MicadSteps \/ MirrorWatchSteps \/ \E r \in MirrorReaders : MirrorReaderSteps(r)

MirrorSpec == MirrorInit /\ [][MirrorNext]_mirrorVars

-----------------------------------------------------------------------------
(* Properties *)

Statuses == {"absent", "queued", "running", "finished"}

\* Statuses, lists and mirrors of the shapes the code keeps.
MirrorTypeOK ==
  /\ status \in [Tasks -> Statuses \cup {"evicted", "gone"}]
  /\ live \in [Tasks -> Statuses]
  /\ tasks \in [Tasks -> Statuses \cup {"interrupted"}]
  /\ stale \in [Tasks -> Statuses \cup {"interrupted"}]
  /\ ~mirrorSynchronised => tasks = Nothing /\ ~loaded

\* What a_lapse_never_serves_a_stale_running_record (task_registry.rs) tests of
\* one lapse: under a subscription made to this micad, no task of an earlier one is
\* served as queued or running, whatever reads and signals were under way across
\* the restart.  A subscription that outlives its micad is excepted: the stream does
\* not end with micad, and until it does the mirror keeps the earlier one's tasks.
EarlierTaskNotActive ==
  (mirrorWatcher = "live" /\ since = restarts) =>
    \A t \in Tasks : status[t] = "gone" => tasks[t] \notin {"queued", "running"}

\* A task is served as interrupted only when micad, asked, has no record of it any
\* more: the micad that ran it is gone, or it finished and the bounded history
\* dropped it (the answer's "restarted or rolled over", task_record).
InterruptedIsDropped ==
  \A t \in Tasks : tasks[t] = "interrupted" => status[t] \in {"evicted", "gone"}

\* Nothing of an earlier micad is served as active under a newer subscription, and
\* nothing micad has a record of as interrupted.
MirrorSafe == MirrorTypeOK /\ EarlierTaskNotActive /\ InterruptedIsDropped

=============================================================================
