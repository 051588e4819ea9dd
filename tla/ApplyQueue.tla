----------------------------- MODULE ApplyQueue -----------------------------
(***************************************************************************)
(* micad's settings writes and the queue that applies them                 *)
(* (crates/micad/src/apply_queue.rs, bus/apply.rs, bus/interface.rs,       *)
(* bus/apps.rs): bus calls persist a write and queue an apply of its path, *)
(* one worker applies the jobs, an app flow runs its task beside them, and *)
(* a network apply that does not come up is rolled back and its stored map *)
(* taken back.  The queue's mutex and the settings' lock are held for one  *)
(* action each; everything between them interleaves.  Publishing a task's  *)
(* transitions reads the queue and is left to TaskMirror.                  *)
(*                                                                         *)
(* A dot-path is the set of settings under it, so one subsumes another     *)
(* when it includes it, and two overlap when they share a setting.         *)
(***************************************************************************)
EXTENDS Integers, Sequences, FiniteSets, SequencesExt

CONSTANTS
  Calls,       \* bus calls, each of one write
  Keys,        \* the settings: the root path
  Network,     \* those under "network"
  Paths,       \* the dot-paths a call may write
  MaxTasks,    \* MAX_TASKS: 128
  AppFlows,    \* bound on the app flows begun
  None

ASSUME QueueAssumption ==
  /\ Network \subseteq Keys
  /\ Paths \subseteq (SUBSET Keys) \ {{}}
  /\ \A p, q \in Paths \cup {Keys, Network} : p \cap q \in {{}, p, q}
  /\ MaxTasks \in Nat /\ MaxTasks >= 2
  /\ AppFlows \in Nat
  /\ None \notin Calls
  /\ None \notin [Network -> Calls \cup {None}]

VARIABLES
  settings,  \* the stored tree: per key the call that last wrote it, or None
  tried,     \* per key the value last handed to its reconciler
  applied,   \* applied_network: the map of the last network apply that came up
  files,     \* the network map whose units are in place
  undone,    \* live state: the last network apply was rolled back
  unsaved,   \* ... and its map could not be stored again
  pending,   \* the queued jobs: id and path
  records,   \* the task records: id -> path, status
  order,     \* their ids, oldest first
  nextId,
  permit,    \* the queue's Notify holds a permit
  calls,     \* where each bus call is
  worker,    \* where the apply worker is
  app        \* where the app flow is

queue == <<pending, records, order, nextId>>
network == <<applied, files, undone, unsaved>>
vars == <<settings, tried, network, queue, permit, calls, worker, app>>

NetworkOf(tree) == [k \in Network |-> tree[k]]

NoWorker == [at |-> "none", id |-> 0, path |-> {}, attempted |-> None,
             applied |-> None, tree |-> None]

\* The startup apply brought the stored network up, or it failed.
Init ==
  /\ settings = [k \in Keys |-> None]
  /\ tried = settings
  /\ applied \in {NetworkOf(settings), None}
  /\ files = NetworkOf(settings)
  /\ undone = FALSE /\ unsaved = FALSE
  /\ pending = << >> /\ order = << >> /\ nextId = 0
  /\ records = [id \in {} |-> None]
  /\ permit = FALSE
  /\ calls = [c \in Calls |-> [at |-> "start", path |-> {}]]
  /\ worker = NoWorker
  /\ app = [at |-> "idle", id |-> 0, flows |-> 0]

-----------------------------------------------------------------------------
(* The queue *)

Terminal(id) == records[id].status = "finished"

\* The oldest finished record, dropped at the bound: the ids that stay.
Evicted ==
  LET finished == {i \in 1..Len(order) : Terminal(order[i])}
      oldest == CHOOSE i \in finished : \A j \in finished : i <= j
  IN IF Cardinality(DOMAIN records) >= MaxTasks /\ finished # {}
     THEN RemoveAt(order, oldest) ELSE order

\* A new record, after the eviction.
Record(path) ==
  /\ nextId' = nextId + 1
  /\ order' = Append(Evicted, nextId')
  /\ records' = [id \in ToSet(order') |->
       IF id = nextId' THEN [path |-> path, status |-> "queued"] ELSE records[id]]

\* The job at i and its record take a path that covers more.
Widen(i, path) ==
  /\ pending' = [pending EXCEPT ![i].path = path]
  /\ records' = [records EXCEPT ![pending[i].id].path = path]
  /\ UNCHANGED <<order, nextId>>

Overlapping(path) == {i \in 1..Len(pending) : pending[i].path \cap path # {}}

\* Faulty variant: a write folds into an overlapping job without widening it.
EnqueueUnwidened(path) ==
  LET full == Cardinality(DOMAIN records) >= MaxTasks
      allActive == \A id \in DOMAIN records : ~Terminal(id)
  IN IF Overlapping(path) # {} THEN UNCHANGED queue
     ELSE IF full /\ allActive /\ pending # << >> THEN Widen(1, Keys)
     ELSE /\ Record(path)
          /\ pending' = Append(pending, [id |-> nextId', path |-> path])

\* A job that overlaps takes the wider path; a full table with nothing
\* finished folds into its oldest job, broadened to the root.
Enqueue(path) ==
  LET first == CHOOSE i \in Overlapping(path) : \A j \in Overlapping(path) : i <= j
      full == Cardinality(DOMAIN records) >= MaxTasks
      allActive == \A id \in DOMAIN records : ~Terminal(id)
  IN IF Overlapping(path) # {} THEN Widen(first, pending[first].path \cup path)
     ELSE IF full /\ allActive /\ pending # << >> THEN Widen(1, Keys)
     ELSE /\ Record(path)
          /\ pending' = Append(pending, [id |-> nextId', path |-> path])

SetStatus(id, status) ==
  /\ records' = [records EXCEPT ![id].status = status]
  /\ UNCHANGED <<pending, order, nextId>>

-----------------------------------------------------------------------------
(* SetSettings *)

\* persist_settings: validated, saved and taken as the tree, under its lock.
Persist(c, path) ==
  /\ calls[c].at = "start"
  /\ settings' = [k \in Keys |-> IF k \in path THEN c ELSE settings[k]]
  /\ calls' = [calls EXCEPT ![c].at = "persisted", ![c].path = path]
  /\ UNCHANGED <<tried, network, queue, permit, worker, app>>

\* SettingsChanged cannot be emitted: the call fails there.
EmitFail(c) ==
  /\ calls[c].at = "persisted"
  /\ calls' = [calls EXCEPT ![c].at = "failed", ![c].path = {}]
  /\ UNCHANGED <<settings, tried, network, queue, permit, worker, app>>

\* Faulty variant: nobody is woken.
EnqueueApplyUnwoken(c) ==
  /\ calls[c].at = "persisted"
  /\ Enqueue(calls[c].path)
  /\ calls' = [calls EXCEPT ![c].at = "done", ![c].path = {}]
  /\ worker' = IF worker.at = "none" THEN [worker EXCEPT !.at = "next"] ELSE worker
  /\ UNCHANGED <<settings, tried, network, permit, app>>

\* enqueue_apply: the worker is there before the job; a fold wakes nobody.
EnqueueApply(c) ==
  /\ calls[c].at = "persisted"
  /\ Enqueue(calls[c].path)
  /\ calls' = [calls EXCEPT ![c].at = IF nextId' # nextId THEN "wake" ELSE "done",
                            ![c].path = {}]
  /\ worker' = IF worker.at = "none" THEN [worker EXCEPT !.at = "next"] ELSE worker
  /\ UNCHANGED <<settings, tried, network, permit, app>>

Wake(c) ==
  /\ calls[c].at = "wake"
  /\ permit' = TRUE
  /\ calls' = [calls EXCEPT ![c].at = "done"]
  /\ UNCHANGED <<settings, tried, network, queue, worker, app>>

-----------------------------------------------------------------------------
(* run_apply_worker *)

WorkerNext ==
  /\ worker.at = "next" /\ pending # << >>
  /\ worker' = [worker EXCEPT !.at = "start", !.id = Head(pending).id,
                              !.path = Head(pending).path]
  /\ pending' = Tail(pending)
  /\ UNCHANGED <<settings, tried, network, records, order, nextId, permit, calls, app>>

WorkerWait ==
  /\ worker.at = "next" /\ pending = << >>
  /\ worker' = [worker EXCEPT !.at = "waiting"]
  /\ UNCHANGED <<settings, tried, network, queue, permit, calls, app>>

WorkerWoken ==
  /\ worker.at = "waiting" /\ permit
  /\ permit' = FALSE
  /\ worker' = [worker EXCEPT !.at = "next"]
  /\ UNCHANGED <<settings, tried, network, queue, calls, app>>

WorkerStart ==
  /\ worker.at = "start"
  /\ SetStatus(worker.id, "running")
  /\ worker' = [worker EXCEPT !.at = "remember"]
  /\ UNCHANGED <<settings, tried, network, permit, calls, app>>

\* Under the apply lock: the maps a rollback will need.
WorkerRemember ==
  /\ worker.at = "remember"
  /\ worker' = [worker EXCEPT !.at = "clone", !.applied = applied,
                              !.attempted = NetworkOf(settings)]
  /\ UNCHANGED <<settings, tried, network, queue, permit, calls, app>>

\* reconcile_subtree's immutable copy of the settings.
WorkerClone ==
  /\ worker.at = "clone"
  /\ worker' = [worker EXCEPT !.at = "apply", !.tree = settings]
  /\ UNCHANGED <<settings, tried, network, queue, permit, calls, app>>

\* A path that reaches the network hands its reconciler the whole map.
Reached(path) ==
  path \cup (IF path \cap Network # {} THEN Network ELSE {})

\* The network reconciler: the new units are in place and came up, or the
\* previous ones are back, or the reload failed over the new ones.  The
\* startup apply was its first, so every later one waits for the links.
NetworkOutcome(tree) ==
  /\ \/ files' = tree /\ applied' = tree /\ undone' = FALSE
     \/ files' = files /\ applied' = applied /\ undone' = TRUE
        /\ tree # files
     \/ files' = tree /\ applied' = applied /\ undone' = FALSE
  /\ unsaved' = FALSE

WorkerApply ==
  /\ worker.at = "apply"
  /\ tried' = [k \in Keys |-> IF k \in Reached(worker.path) THEN worker.tree[k] ELSE tried[k]]
  /\ IF worker.path \cap Network # {}
     THEN NetworkOutcome(NetworkOf(worker.tree))
     ELSE UNCHANGED network
  /\ worker' = [worker EXCEPT !.at = "restore", !.tree = None]
  /\ UNCHANGED <<settings, queue, permit, calls, app>>

\* Faulty variant: a write that landed since is not looked for.
WorkerRestoreBlind ==
  LET restores == worker.path \cap Network # {} /\ worker.applied # None /\ undone
  IN
  /\ worker.at = "restore"
  /\ settings' = [k \in Keys |-> IF restores /\ k \in Network
                                 THEN worker.applied[k] ELSE settings[k]]
  /\ worker' = [worker EXCEPT !.at = "finish", !.attempted = None, !.applied = None]
  /\ UNCHANGED <<tried, network, queue, permit, calls, app>>

\* restore_network: a map that was rolled back is taken back, unless a write
\* landed since.  A save that fails is only logged.
WorkerRestore ==
  LET restores == /\ worker.path \cap Network # {} /\ worker.applied # None
                  /\ undone /\ NetworkOf(settings) = worker.attempted
  IN
  /\ worker.at = "restore"
  /\ \/ /\ settings' = [k \in Keys |-> IF restores /\ k \in Network
                                       THEN worker.applied[k] ELSE settings[k]]
        /\ UNCHANGED unsaved
     \/ restores /\ unsaved' = TRUE /\ UNCHANGED settings
  /\ worker' = [worker EXCEPT !.at = "finish", !.attempted = None, !.applied = None]
  /\ UNCHANGED <<tried, applied, files, undone, queue, permit, calls, app>>

WorkerFinish ==
  /\ worker.at = "finish"
  /\ SetStatus(worker.id, "finished")
  /\ worker' = [worker EXCEPT !.at = "next", !.id = 0, !.path = {}]
  /\ UNCHANGED <<settings, tried, network, permit, calls, app>>

WorkerSteps ==
  \/ WorkerNext \/ WorkerWait \/ WorkerWoken \/ WorkerStart
  \/ WorkerRemember \/ WorkerClone \/ WorkerApply \/ WorkerRestore \/ WorkerFinish

-----------------------------------------------------------------------------
(* app_task: one app flow at a time, as a task of its own *)

AppOpen ==
  /\ app.at = "idle" /\ app.flows < AppFlows
  /\ Record({})
  /\ app' = [app EXCEPT !.at = "opened", !.id = nextId', !.flows = @ + 1]
  /\ UNCHANGED <<settings, tried, network, pending, permit, calls, worker>>

AppStart ==
  /\ app.at = "opened"
  /\ SetStatus(app.id, "running")
  /\ app' = [app EXCEPT !.at = "running"]
  /\ UNCHANGED <<settings, tried, network, permit, calls, worker>>

AppFinish ==
  /\ app.at = "running"
  /\ SetStatus(app.id, "finished")
  /\ app' = [app EXCEPT !.at = "idle", !.id = 0]
  /\ UNCHANGED <<settings, tried, network, permit, calls, worker>>

AppSteps == AppOpen \/ AppStart \/ AppFinish

-----------------------------------------------------------------------------
CallSteps(c) ==
  \/ \E path \in Paths : Persist(c, path)
  \/ EmitFail(c) \/ EnqueueApply(c) \/ Wake(c)

QueueQuiet ==
  /\ \A c \in Calls : calls[c].at \in {"start", "done", "failed"}
  /\ worker.at \in {"none", "waiting"} /\ ~permit
  /\ app.at = "idle"

\* Every write is made and applied and every flow has ended.
Finished ==
  /\ QueueQuiet
  /\ \A c \in Calls : calls[c].at # "start"
  /\ app.flows = AppFlows
  /\ UNCHANGED vars

Next ==
  \/ \E c \in Calls : CallSteps(c)
  \/ WorkerSteps
  \/ AppSteps
  \/ Finished

Spec == Init /\ [][Next]_vars

\* The runtime polls every task that is ready; calls and flows end.
FairSpec ==
  /\ Spec
  /\ \A c \in Calls : WF_vars(calls[c].at # "start" /\ CallSteps(c))
  /\ WF_vars(WorkerSteps)
  /\ WF_vars(app.at # "idle" /\ AppSteps)

-----------------------------------------------------------------------------
(* Properties *)

Statuses == {"queued", "running", "finished"}

\* Values, paths and statuses of the shapes the code stores.
TypeOK ==
  /\ settings \in [Keys -> Calls \cup {None}] /\ tried \in [Keys -> Calls \cup {None}]
  /\ files \in [Network -> Calls \cup {None}]
  /\ applied \in [Network -> Calls \cup {None}] \cup {None}
  /\ undone \in BOOLEAN /\ unsaved \in BOOLEAN /\ permit \in BOOLEAN
  /\ \A id \in DOMAIN records :
       id \in 1..nextId /\ records[id].path \subseteq Keys /\ records[id].status \in Statuses
  /\ \A i \in 1..Len(pending) : pending[i].path \subseteq Keys

\* Every job and flow not yet finished has its task record, a pending job's of
\* its path and still queued: what the two `expect`s of enqueue rely on, and
\* start and finish, while records are evicted.
ActiveRecorded ==
  /\ \A i \in 1..Len(pending) :
       /\ pending[i].id \in DOMAIN records
       /\ records[pending[i].id] = [path |-> pending[i].path, status |-> "queued"]
  /\ \A id \in {worker.id, app.id} \ {0} : id \in DOMAIN records /\ ~Terminal(id)
  /\ ToSet(order) = DOMAIN records /\ IsInjective(order)

\* The task table outgrows MAX_TASKS only by app flows: each may open over a full
\* table of active records, and what is dropped for a new record is one record, so
\* the table does not shrink again.  A record still active is never dropped.
TableBounded == Cardinality(DOMAIN records) <= MaxTasks + app.flows

\* The setting was written by a call that failed before it queued its apply.
Unqueued(k) == settings[k] \in Calls /\ calls[settings[k]].at = "failed"

\* When nothing is under way every stored setting was handed to its reconciler,
\* or is one a rollback brought back: no write is lost between persisting,
\* folding, broadening and applying once its SettingsChanged is emitted.
AppliedWhenQuiet ==
  QueueQuiet => \A k \in Keys :
    \/ settings[k] = tried[k]
    \/ applied # None /\ k \in Network /\ settings[k] = applied[k]
    \/ Unqueued(k)

\* "so the stored map is the one running": after a rolled-back network apply,
\* with nothing under way, the stored map is the one whose units are in place,
\* if those came up and the save of restore_network, whose failure is only
\* logged, did not fail.
StoredMapRuns ==
  (QueueQuiet /\ undone /\ ~unsaved /\ applied = files /\ \A k \in Network : ~Unqueued(k))
  => NetworkOf(settings) = files

\* "A write that landed since is newer than both, and stays" (restore_network):
\* the worker takes back only settings it tried, whatever landed while the
\* apply ran.
NewerWriteStays ==
  [][worker.at = "restore" /\ worker'.at = "finish" =>
       \A k \in Keys : settings'[k] # settings[k] => tried[k] = settings[k]]_vars

\* Every stored setting is handed to its reconciler, written over, or the one
\* a rollback brought back, unless its call failed to emit it: no wakeup is lost
\* between the enqueue, its fold and a worker about to wait.
WritesApplied ==
  \A c \in Calls, k \in Keys :
    settings[k] = c ~> (\/ tried[k] = c
                        \/ settings[k] # c
                        \/ calls[c].at = "failed"
                        \/ applied # None /\ k \in Network /\ applied[k] = c)

\* Jobs keep their records while records are evicted, the table outgrows its
\* bound by app flows only, no queued write is lost, and the stored network is
\* the one that runs after a rollback.
QueueSafe == TypeOK /\ ActiveRecorded /\ TableBounded /\ AppliedWhenQuiet /\ StoredMapRuns

=============================================================================
