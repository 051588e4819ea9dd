---- MODULE StorageRelease ----
(***************************************************************************)
(* The end of a shutdown: PID 1 of the exit ramdisk releases the storage   *)
(* and asks the kernel for the terminal action                             *)
(* (crates/mica-deploy/src/boot/shutdown.rs and boot/shutdown/: release,   *)
(* snapshot, supervisor, system, worker; bin/mica-runkit/shutdown.rs).     *)
(* Each operation is a worker process run within a deadline; the supervisor*)
(* feeds the watchdog while it waits, and stops feeding it at the deadline *)
(* of the shutdown, so that the hardware ends what the program cannot.     *)
(* Time is in seconds.                                                     *)
(***************************************************************************)
EXTENDS Integers, FiniteSets

CONSTANTS
    RelMounts,     \* the mounts, beside the memory filesystems of the ramdisk
    RelParent,     \* the mount each is mounted on; itself when it is on the ramdisk
    RelDevice,     \* the block device of each mount
    RelLoops,      \* the loop devices
    RelBacking,    \* the device with the file behind each loop
    RelMaps,       \* the verity mappings
    RelSlave,      \* the loop under each mapping
    WatchdogTime,  \* the timeout of the watchdog
    RelLimits,     \* the timeouts systemd may pass on
    RelClock,      \* bound: how long the clock runs
    RelFaults      \* bound: workers refused or stuck, foreign changes, lost log lines

ASSUME RelAssumption ==
    /\ WatchdogTime \in Nat /\ 20 <= WatchdogTime /\ WatchdogTime <= 86400
    /\ RelLimits \subseteq Nat \ (0..2)
    /\ RelParent \in [RelMounts -> RelMounts]
    /\ RelSlave \in [RelMaps -> RelLoops]

VARIABLES
    mounted,       \* the mounts that are there
    movedOut,      \* the mounts moved to /backing on the ramdisk
    looped,        \* the loops that are attached
    mapped,        \* the mappings that are there
    dirty,         \* pages wait to be written
    users,         \* processes other than PID 1 and the worker run
    rel,           \* where the release is
    tried,         \* the operations tried in this pass
    chosen,        \* the one tried last
    pass,
    clock,
    fed,           \* when the watchdog was fed last
    budget,        \* [deadline, cleanup] of the shutdown
    opEnd,         \* the deadline of the worker that runs
    poisoned,      \* a worker was left unreaped, or a log line was lost
    device,        \* "on", "gone" by the terminal action, "reset" by the watchdog
    relUsed

relStorage == <<mounted, movedOut, looped, mapped, dirty>>
relTime == <<clock, fed, budget>>
relVars == <<mounted, movedOut, looped, mapped, dirty, users, rel, tried, chosen, pass, clock, fed,
             budget, opEnd, poisoned, device, relUsed>>

MaxPasses == 12

----------------------------------------------------------------------------
(* What a scan shows.                                                      *)

ParentOf(m) == IF m \in movedOut THEN m ELSE RelParent[m]
Leaf(m) == ~\E n \in mounted \ {m} : ParentOf(n) = m
MountedDevice(d) == \E m \in mounted : RelDevice[m] = d
LoopHeld(l) == \E v \in mapped : RelSlave[v] = l

\* Snapshot::empty.
Empty == ~users /\ ~dirty /\ mounted = {} /\ mapped = {} /\ looped = {}

\* Snapshot::candidates: a leaf that holds the file of a loop is moved out of the
\* way, once; any other leaf is unmounted; a mapping or a loop goes when nothing is
\* mounted from it and nothing holds it.
BackingInUse(m) == \E l \in looped : RelBacking[l] = RelDevice[m]

\* A loop goes while a mapping still reads from it.
CandidatesUnheld ==
    {<<"move", m>> : m \in {x \in mounted \ movedOut : Leaf(x) /\ BackingInUse(x)}}
    \union {<<"unmount", m>> : m \in {x \in mounted : Leaf(x) /\ ~BackingInUse(x)}}
    \union {<<"unmap", v>> : v \in {x \in mapped : ~MountedDevice(x)}}
    \union {<<"detach", l>> : l \in {x \in looped : ~MountedDevice(x)}}

Candidates ==
    {<<"move", m>> : m \in {x \in mounted \ movedOut : Leaf(x) /\ BackingInUse(x)}}
    \union {<<"unmount", m>> : m \in {x \in mounted : Leaf(x) /\ ~BackingInUse(x)}}
    \union {<<"unmap", v>> : v \in {x \in mapped : ~MountedDevice(x)}}
    \union {<<"detach", l>> : l \in {x \in looped : ~MountedDevice(x) /\ ~LoopHeld(x)}}

----------------------------------------------------------------------------
(* The supervisor.                                                         *)

AtStep(s) == device = "on" /\ rel = s
InCleanup == clock < budget.cleanup
Least(i, j) == IF i <= j THEN i ELSE j

\* Budget::new: ten seconds before the watchdog would fire, at most a minute; the
\* cleanup ends two seconds earlier.  limit_shutdown takes systemd's limit.
BudgetOf(now, watchdog, limit) ==
    LET deadline == now + Least(watchdog - 10, 60)
    IN  [deadline |-> Least(deadline, now + limit),
         cleanup |-> Least(deadline, now + limit) - 2]

\* arm, then the budget.  The watchdog is the one the startup record names.
Arm ==
    \E limit \in RelLimits :
        /\ AtStep("start")
        /\ fed' = clock
        /\ budget' = BudgetOf(clock, WatchdogTime, limit)
        /\ rel' = "make private"
        /\ UNCHANGED <<relStorage, users, tried, chosen, pass, clock, opEnd, poisoned, device, relUsed>>

\* operation_deadline and Supervisor::run: a worker starts only with more than a
\* second left of its five, and never after an unreaped one.
OperationDeadline == Least(clock + 5, budget.cleanup)
MayRun == InCleanup /\ ~poisoned /\ clock + 1 < OperationDeadline

Runs(from, to) ==
    /\ AtStep(from) /\ MayRun
    /\ rel' = to
    /\ opEnd' = OperationDeadline

\* No time is left, or a worker was left unreaped.
CannotRun ==
    /\ rel \in {"make private", "quiesce", "first scan", "scan", "sync mount", "operate",
                "final sync", "final scan", "sync"}
    /\ device = "on" /\ ~MayRun
    /\ rel' = "failing"
    /\ UNCHANGED <<relStorage, users, tried, chosen, pass, relTime, opEnd, poisoned, device, relUsed>>

\* A worker that fails, or is stopped at its deadline.  Only an operation on the
\* storage is tried again; any other failure ends the release.
WorkerFails ==
    /\ AtStep("operate") \/ (rel \in {"make private", "quiesce", "first scan", "scan",
                                     "sync mount", "final sync", "final scan", "sync"}
                            /\ device = "on")
    /\ MayRun /\ relUsed < RelFaults
    /\ relUsed' = relUsed + 1
    /\ rel' = IF rel = "operate" THEN "scan" ELSE "failing"
    /\ UNCHANGED <<relStorage, users, tried, chosen, pass, relTime, opEnd, poisoned, device>>

\* A worker that hangs: killed at its deadline, and perhaps never reaped.
WorkerHangs ==
    /\ rel \in {"scan", "operate", "sync mount", "final sync"} /\ device = "on"
    /\ MayRun /\ relUsed < RelFaults
    /\ relUsed' = relUsed + 1
    /\ opEnd' = OperationDeadline
    /\ rel' = IF rel = "operate" THEN "hung operation" ELSE "hung"
    /\ UNCHANGED <<relStorage, users, tried, chosen, pass, relTime, poisoned, device>>

HungEnds ==
    /\ rel \in {"hung", "hung operation"} /\ device = "on" /\ clock >= opEnd - 1
    /\ \/ /\ clock < opEnd
          /\ rel' = IF rel = "hung operation" THEN "scan" ELSE "failing"
          /\ UNCHANGED poisoned
       \/ /\ clock >= opEnd
          /\ poisoned' = TRUE
          /\ rel' = IF rel = "hung operation" THEN "scan" ELSE "failing"
    /\ UNCHANGED <<relStorage, users, tried, chosen, pass, relTime, opEnd, device, relUsed>>

\* A line of the log that is lost poisons the supervisor.
EventLost ==
    /\ rel \in {"scan", "operate"} /\ device = "on" /\ relUsed < RelFaults
    /\ relUsed' = relUsed + 1
    /\ poisoned' = TRUE
    /\ UNCHANGED <<relStorage, users, rel, tried, chosen, pass, relTime, opEnd, device>>

----------------------------------------------------------------------------
(* release.                                                                *)

MakePrivate ==
    /\ Runs("make private", "quiesce")
    /\ UNCHANGED <<relStorage, users, tried, chosen, pass, relTime, poisoned, device, relUsed>>

\* Every process is told to end, and 250 ms later killed.
Quiesce ==
    /\ Runs("quiesce", "first scan")
    /\ users' = FALSE
    /\ UNCHANGED <<relStorage, tried, chosen, pass, relTime, poisoned, device, relUsed>>

\* A scan: what is not the record's own is refused, a process that runs too.
FirstScan ==
    /\ Runs("first scan", IF users THEN "failing" ELSE "scan")
    /\ UNCHANGED <<relStorage, users, tried, chosen, pass, relTime, poisoned, device, relUsed>>

\* The next operation is the first candidate not tried in this pass; without one
\* the pass ends, with a sync when pages are dirty.
ScanStorage ==
    /\ \/ /\ Empty
          /\ Runs("scan", "final sync")
          /\ UNCHANGED <<tried, pass>>
       \/ /\ ~Empty /\ \E c \in Candidates : c \notin tried
          /\ Runs("scan", "choose")
          /\ UNCHANGED <<tried, pass>>
       \/ /\ ~Empty /\ Candidates \subseteq tried
          /\ pass < MaxPasses
          /\ Runs("scan", IF dirty THEN "sync" ELSE "scan")
          /\ tried' = {} /\ pass' = pass + 1
       \/ /\ ~Empty /\ Candidates \subseteq tried /\ pass = MaxPasses
          /\ Runs("scan", "failing")
          /\ UNCHANGED <<tried, pass>>
    /\ UNCHANGED <<relStorage, users, chosen, relTime, poisoned, device, relUsed>>

SyncPages ==
    /\ Runs("sync", "scan")
    /\ dirty' = FALSE
    /\ UNCHANGED <<mounted, movedOut, looped, mapped, users, tried, chosen, pass, relTime, poisoned,
                   device, relUsed>>

\* The pages of a mount are written before it is unmounted.
Choose(c) ==
    /\ AtStep("choose") /\ c \in Candidates \ tried
    /\ tried' = tried \union {c} /\ chosen' = c
    /\ rel' = IF c[1] = "unmount" THEN "sync mount" ELSE "operate"
    /\ UNCHANGED <<relStorage, users, pass, relTime, opEnd, poisoned, device, relUsed>>

SyncMount ==
    /\ Runs("sync mount", "operate")
    /\ UNCHANGED <<relStorage, users, tried, chosen, pass, relTime, poisoned, device, relUsed>>

\* The operation chosen last.  The worker checks that what it is asked to remove is
\* still what the scan showed; the kernel refuses what is in use.
Operate ==
    LET c == chosen IN
    /\ Runs("operate", "scan")
    /\ movedOut' = IF c[1] = "move" THEN movedOut \union {c[2]}
                   ELSE IF c[1] = "unmount" THEN movedOut \ {c[2]} ELSE movedOut
    /\ mounted' = IF c[1] = "unmount" THEN mounted \ {c[2]} ELSE mounted
    /\ mapped' = IF c[1] = "unmap" THEN mapped \ {c[2]} ELSE mapped
    /\ looped' = IF c[1] = "detach" THEN looped \ {c[2]} ELSE looped
    /\ dirty' \in IF c[1] = "unmount" THEN {dirty, TRUE} ELSE {dirty}
    /\ UNCHANGED <<users, tried, chosen, pass, relTime, poisoned, device, relUsed>>

FinalSync ==
    /\ Runs("final sync", "final scan")
    /\ UNCHANGED <<relStorage, users, tried, chosen, pass, relTime, poisoned, device, relUsed>>

FinalScan ==
    /\ Runs("final scan", IF Empty THEN "released" ELSE "failing")
    /\ UNCHANGED <<relStorage, users, tried, chosen, pass, relTime, poisoned, device, relUsed>>

\* terminal: only a release gives the right to it.
Terminal ==
    /\ AtStep("released")
    /\ IF ~poisoned /\ InCleanup THEN device' = "gone" /\ UNCHANGED rel
                                 ELSE rel' = "failing" /\ UNCHANGED device
    /\ UNCHANGED <<relStorage, users, tried, chosen, pass, relTime, opEnd, poisoned, relUsed>>

\* failure: the watchdog is fed for two seconds more at most, and then left alone.
Fail ==
    /\ AtStep("failing")
    /\ rel' = "parking"
    /\ opEnd' = Least(clock + 2, budget.deadline)
    /\ UNCHANGED <<relStorage, users, tried, chosen, pass, relTime, poisoned, device, relUsed>>

Park ==
    /\ AtStep("parking") /\ clock >= opEnd
    /\ rel' = "parked"
    /\ UNCHANGED <<relStorage, users, tried, chosen, pass, relTime, opEnd, poisoned, device, relUsed>>

----------------------------------------------------------------------------
(* Time.                                                                   *)

\* kick, in every turn of the loop that waits: not past the deadline.
Feeds == rel \notin {"start", "parked"} /\ clock' < budget.deadline

Tick ==
    /\ device = "on" /\ rel # "start" /\ clock < RelClock
    /\ clock' = clock + 1
    /\ fed' = IF Feeds THEN clock' ELSE fed
    /\ device' = IF clock' - fed' >= WatchdogTime THEN "reset" ELSE "on"
    /\ UNCHANGED <<relStorage, users, rel, tried, chosen, pass, budget, opEnd, poisoned, relUsed>>

RelInit ==
    /\ mounted = RelMounts /\ movedOut = {} /\ looped = RelLoops /\ mapped = RelMaps
    /\ dirty \in BOOLEAN /\ users = TRUE
    /\ rel = "start" /\ tried = {} /\ chosen = << >> /\ pass = 1
    /\ clock = 0 /\ fed = 0 /\ budget = [deadline |-> 0, cleanup |-> 0] /\ opEnd = 0
    /\ poisoned = FALSE /\ device = "on" /\ relUsed = 0

RelSteps ==
    \/ Arm \/ CannotRun \/ WorkerFails \/ WorkerHangs \/ HungEnds \/ EventLost \/ MakePrivate
    \/ Quiesce \/ FirstScan \/ ScanStorage \/ SyncPages \/ SyncMount \/ FinalSync \/ FinalScan
    \/ Terminal \/ Fail \/ Park
    \/ \E c \in ({"move", "unmount"} \X RelMounts) \union ({"unmap"} \X RelMaps)
                \union ({"detach"} \X RelLoops) : Choose(c)
    \/ Operate
RelNext == RelSteps \/ Tick

\* Time passes, whatever the program does.
RelFairness == WF_relVars(Tick)
RelSpec == RelInit /\ [][RelNext]_relVars /\ RelFairness

----------------------------------------------------------------------------
(* The properties.                                                         *)

RelTypeOK ==
    /\ mounted \subseteq RelMounts /\ movedOut \subseteq mounted
    /\ looped \subseteq RelLoops /\ mapped \subseteq RelMaps
    /\ pass \in 1..MaxPasses /\ fed <= clock /\ device \in {"on", "gone", "reset"}

\* The terminal action comes after everything is released and written, whatever was
\* refused on the way (release, Supervisor::terminal).
ReleasedFirst == device = "gone" => Empty

\* A mapping outlives what is mounted from it, a loop its mapping, and the filesystem
\* with a loop's file the loop: storage goes in the order of its dependencies
\* (Snapshot::candidates).
ReleasedInOrder ==
    /\ \A m \in mounted : ParentOf(m) = m \/ ParentOf(m) \in mounted
    /\ \A m \in mounted : RelDevice[m] \in RelMaps => RelDevice[m] \in mapped
    /\ \A m \in mounted : RelDevice[m] \in RelLoops => RelDevice[m] \in looped
    /\ \A v \in mapped : RelSlave[v] \in looped
    /\ \A l \in looped : RelBacking[l] \in {RelDevice[m] : m \in RelMounts}
                           => MountedDevice(RelBacking[l])

\* The release gives up only for a fault or for want of time: the candidates lead to
\* empty storage within the passes, however mounts, loops and mappings depend on one
\* another (release).
NotStuck ==
    rel \in {"failing", "parking", "parked"} => relUsed > 0 \/ clock + 1 >= budget.cleanup

\* Every shutdown ends, by the terminal action or by the watchdog: a release that
\* hangs or fails is not fed past its deadline (Supervisor::kick, Supervisor::failure).
ShutdownEnds == (rel # "start") ~> (device # "on")

\* A shutdown releases the storage from the leaves up, and ends with nothing still
\* in use.
ReleaseSafe == RelTypeOK /\ ReleasedFirst /\ ReleasedInOrder

=============================================================================
