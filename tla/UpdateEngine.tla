---------------------------- MODULE UpdateEngine ----------------------------
(***************************************************************************)
(* micad's update engine (crates/micad/src/update_lifecycle/,              *)
(* update_auto.rs, bus/power.rs, bus/served.rs): one slot for checks,      *)
(* fetches, imports and discards, an install beside it, the automatic      *)
(* driver, the operator's requests, and mica-deploy under all of them.     *)
(*                                                                         *)
(* The source offers one item on each line: a core set, a system.          *)
(* mica-deploy is what Deployments promises of it: what is installed is    *)
(* pending until its boot is confirmed or fails.  Every command is a step. *)
(* Time is choice: whether a check is due, the window is open, the clock   *)
(* believed, a health report blocking.  InstallLatestUpdate is not a       *)
(* process of its own: it is a check, a fetch and an install requested in  *)
(* turn, each admitted by itself.                                          *)
(***************************************************************************)
EXTENDS Integers, FiniteSets

CONSTANTS
  Sets,        \* the core sets
  Systems,     \* the system deployments
  Generation,  \* an item's generation on its line
  Policies,    \* the operator's documents: mode, network, reboot
  Budget,      \* source.maxBytes: the items the workspace holds
  Events,      \* bound on what comes from outside, all told: commands that
               \* fail of themselves, the source's changes, the operator's
               \* requests, and the ends of micad that no request made
  None

Items == Sets \cup Systems

Lines == {"core", "system"}

ASSUME EngineAssumption ==
  /\ Sets \cap Systems = {} /\ None \notin Items
  /\ Generation \in [Items -> Nat \ {0}]
  /\ Policies \subseteq [mode : {"off", "check", "auto"},
                         network : {"online", "metered", "offline"},
                         reboot : {"manual", "window"}]
  /\ {Budget, Events} \subseteq Nat

VARIABLES
  offered,   \* what the source names on each line
  held,      \* mica-deploy: per line the generation a new item must be above
  pending,   \* the item installed and not yet confirmed, or None
  trial,     \* it is booted
  verified,  \* the items staged in the workspace's verified/
  policy,    \* the operator's document
  machine,   \* what the lifecycle's mutex guards, the slot aside
  slot,      \* the operation under way: what, for whom, where it is, on what
  install,   \* the install the flag is set for
  clears,    \* a call of installed() is on its way, to clear the machine
  result,    \* update.install: its status
  driver,    \* the automatic driver: its stage, and where its pass is
  going,     \* a reboot passed the gate and is on its way
  left,      \* the events left
  history    \* for the properties: items that failed, items named of late,
             \* whether what was last installed was rejected by the operator

native == <<held, pending, trial, verified>>
tasks == <<install, clears, result>>
engine == <<machine, slot, tasks, driver, going>>
vars == <<offered, native, policy, engine, left, history>>

Line(i) == IF i \in Sets THEN "core" ELSE "system"

ItemsOf(line) == IF line = "core" THEN Sets ELSE Systems

NoMachine == [available |-> None, descriptor |-> None, fault |-> "none"]

NoSlot == [kind |-> "none", by |-> "none", at |-> "idle", item |-> None]

NoInstall == [at |-> "none", item |-> None]

Resting == [stage |-> "Idle", at |-> "rest", item |-> None, doc |-> "none"]

Init ==
  /\ offered \in [Lines -> Items \cup {None}]
  /\ \A line \in Lines : offered[line] \in ItemsOf(line) \cup {None}
  /\ held = [line \in Lines |-> 0]
  /\ pending = None /\ trial = FALSE /\ verified = {}
  /\ policy \in Policies
  /\ machine = NoMachine /\ slot = NoSlot
  /\ install = NoInstall /\ clears = FALSE /\ result = "none"
  /\ driver = Resting /\ going = FALSE
  /\ left = Events
  /\ history = [rejected |-> {}, named |-> {}, declined |-> FALSE]

Event == left > 0 /\ left' = left - 1

-----------------------------------------------------------------------------
(* mica-deploy, and the source it reads *)

\* set-check and check: the line's item, above what the device holds on it.
\* A set's floor is the set confirmed, a system's what was ever installed.
Newer(line) == offered[line] # None /\ Generation[offered[line]] > held[line]

\* validate and set_validate, with the workspace's room: i may be staged.
Stageable(i) ==
  /\ IF i \in Sets THEN pending = None ELSE pending \notin Systems
  /\ Generation[i] > held[Line(i)]
  /\ i \in verified \/ Cardinality(verified) < Budget

\* install and set-install: their own refusals.
Installable(i) ==
  /\ i \in verified
  /\ pending = None
  /\ Generation[i] > held[Line(i)]

\* A command fails of itself, or for the lock another one holds.
Fails(locked) == (locked /\ UNCHANGED left) \/ Event

\* The source changes what it names on a line.
Publish(line, i) ==
  /\ i # offered[line]
  /\ Event
  /\ offered' = [offered EXCEPT ![line] = i]
  /\ history' = [history EXCEPT !.named = @ \cup {i}]
  /\ UNCHANGED <<native, policy, engine>>

\* micad ends: the lifecycle, the driver and every task start anew.
Afresh ==
  /\ machine' = NoMachine /\ slot' = NoSlot
  /\ install' = NoInstall /\ clears' = FALSE /\ result' = "none"
  /\ driver' = Resting /\ going' = FALSE

\* micad is killed, or power is lost and the machine boots what is pending.
Restart(boots) ==
  /\ Event
  /\ Afresh
  /\ trial' = (trial \/ (boots /\ pending # None))
  /\ UNCHANGED <<offered, held, pending, verified, policy, history>>

\* The reboot a request asked for.
Reboot ==
  /\ going
  /\ Afresh
  /\ trial' = (pending # None)
  /\ UNCHANGED <<offered, held, pending, verified, policy, left, history>>

\* The verdicts on what is on trial: the boot health gate's two, the first of
\* them an operator's too (request_deployment_action).
Confirm ==
  /\ trial
  /\ held' = [held EXCEPT ![Line(pending)] = Generation[pending]]
  /\ pending' = None /\ trial' = FALSE
  /\ UNCHANGED <<offered, verified, policy, engine, left, history>>

FailTrial ==
  /\ trial
  /\ history' = [history EXCEPT !.rejected = @ \cup {pending}]
  /\ pending' = None /\ trial' = FALSE
  /\ Afresh
  /\ UNCHANGED <<offered, held, verified, policy, left>>

-----------------------------------------------------------------------------
(* The slot: acquisition.rs *)

Installing == install.at # "none"

CheckRefused == policy.network = "offline"

FetchRefused == policy.network # "online"

BeginAnyway(kind, by, at, i) ==
  /\ ~Installing
  /\ slot' = [kind |-> kind, by |-> by, at |-> at, item |-> i]
  /\ machine' = [machine EXCEPT !.fault = "none"]

\* begin: the slot is taken, unless an install or an operation runs.
Begin(kind, by, at, i) ==
  /\ ~Installing /\ slot = NoSlot
  /\ slot' = [kind |-> kind, by |-> by, at |-> at, item |-> i]
  /\ machine' = [machine EXCEPT !.fault = "none"]

BeginCheck(by) == ~CheckRefused /\ Begin("check", by, "probe", None)

BeginFetch(by) == ~FetchRefused /\ Begin("fetch", by, "probe", None)

BeginImport(by, i) == Begin("import", by, "probe", i)

BeginDiscard(by) ==
  machine.descriptor # None /\ Begin("discard", by, "discard", None)

At(kinds, at) == slot.kind \in kinds /\ slot.at = at

MoveOn(at, i) == slot' = [slot EXCEPT !.at = at, !.item = i]

Command == UNCHANGED <<offered, held, pending, trial, policy, machine, tasks,
                       driver, going, history>>

Fail(at) == Fails(Installing) /\ MoveOn(at, None) /\ UNCHANGED verified

Probe ==
  /\ slot.at = "probe"
  /\ \/ /\ MoveOn(IF slot.kind = "import" THEN "import" ELSE "core", slot.item)
        /\ UNCHANGED <<verified, left>>
     \/ Fail("unready")
     \/ Fail("failed")
  /\ Command

\* run_check: a core line that selects nothing, or that fails, goes on.
CheckCore ==
  /\ At({"check"}, "core")
  /\ \/ /\ IF Newer("core") THEN MoveOn("done", offered.core)
                           ELSE MoveOn("product", None)
        /\ UNCHANGED <<verified, left>>
     \/ Fail("product")
  /\ Command

CheckProduct ==
  /\ At({"check"}, "product")
  /\ \/ /\ IF Newer("system") THEN MoveOn("done", offered.system)
                             ELSE MoveOn("none", None)
        /\ UNCHANGED <<verified, left>>
     \/ Fail("failed")
  /\ Command

\* A command that stages i, then goes on at `next'.
Stage(i, next) ==
  /\ IF Stageable(i) THEN verified' = verified \cup {i} /\ MoveOn(next, i)
                     ELSE verified' = verified /\ MoveOn("failed", None)
  /\ UNCHANGED left

\* run_fetch: a core set that cannot be staged fails the whole fetch.
FetchCore ==
  /\ At({"fetch"}, "core")
  /\ \/ Newer("core") /\ Stage(offered.core, "done")
     \/ ~Newer("core") /\ MoveOn("product", None) /\ UNCHANGED <<verified, left>>
     \/ Fail("failed")
  /\ Command

FetchProduct ==
  /\ At({"fetch"}, "product")
  /\ \/ Newer("system") /\ Stage(offered.system, "pair")
     \/ ~Newer("system") /\ MoveOn("none", None) /\ UNCHANGED <<verified, left>>
     \/ Fail("failed")
  /\ Command

\* The channel's latest set for the new root, when there is one to take.
FetchPair ==
  /\ At({"fetch"}, "pair")
  /\ \/ verified' = verified
     \/ /\ Newer("core") /\ Stageable(offered.core)
        /\ verified' = verified \cup {offered.core}
  /\ MoveOn("done", slot.item)
  /\ UNCHANGED left /\ Command

Import ==
  /\ At({"import"}, "import")
  /\ Stage(slot.item, "done") \/ Fail("failed")
  /\ Command

\* discard removes the files one by one, and may stop anywhere.
Discard ==
  /\ At({"discard"}, "discard")
  /\ \/ verified' = {} /\ MoveOn("done", None) /\ UNCHANGED left
     \/ /\ Fails(Installing) /\ MoveOn("failed", None)
        /\ verified' \in SUBSET verified
  /\ Command

\* settle_check, settle_fetch and the end of discard_descriptor.
Settled ==
  LET done == IF slot.kind = "check" THEN [machine EXCEPT !.available = slot.item]
                                     ELSE [machine EXCEPT !.descriptor = slot.item]
  IN CASE slot.kind = "discard" ->
            [NoMachine EXCEPT !.fault = IF slot.at = "done" THEN "none" ELSE "failed"]
       [] slot.kind # "discard" /\ slot.at = "done" -> done
       [] slot.kind # "discard" /\ slot.at = "none" -> [machine EXCEPT !.available = None]
       [] OTHER -> [machine EXCEPT !.fault = slot.at]

-----------------------------------------------------------------------------
(* The install, and the gate of a reboot: bus/power.rs *)

\* request_install, past the maintenance window.
StartInstall(i) ==
  /\ i \in verified
  /\ ~Installing
  /\ install' = [at |-> "running", item |-> i]
  /\ result' = "running"

\* mica-deploy's install ends.  A system's raises its line's floor at once.
InstallEnds ==
  /\ install.at = "running"
  /\ \/ /\ Installable(install.item)
        /\ pending' = install.item
        /\ held' = IF install.item \in Sets THEN held
                   ELSE [held EXCEPT !.system = Generation[install.item]]
        /\ install' = [install EXCEPT !.at = "done"]
        /\ history' = [history EXCEPT !.declined = FALSE]
        /\ UNCHANGED left
     \/ /\ (~Installable(install.item) /\ UNCHANGED left) \/ Fails(slot # NoSlot)
        /\ install' = [install EXCEPT !.at = "failed"]
        /\ UNCHANGED <<held, pending, history>>
  /\ UNCHANGED <<offered, trial, verified, policy, machine, slot, clears, result,
                 driver, going>>

\* The status is read, the outcome recorded and the flag cleared; a status
\* that did not answer means installed() is not called.  Bound: one such
\* call is on its way at a time.
InstallRecorded ==
  /\ install.at \in {"done", "failed"} /\ ~clears
  /\ result' = install.at
  /\ install' = NoInstall
  /\ \/ clears' = (pending # None) /\ UNCHANGED left
     \/ Event /\ UNCHANGED clears
  /\ UNCHANGED <<offered, native, policy, machine, slot, driver, going, history>>

\* installed(): whatever is staged by now is forgotten.
InstallNoted ==
  /\ clears
  /\ clears' = FALSE
  /\ machine' = [machine EXCEPT !.descriptor = None, !.available = None]
  /\ UNCHANGED <<offered, native, policy, slot, install, result, driver, going,
                 left, history>>

\* request_reboot, past the health reports: an install in flight refuses it.
PassGate == ~Installing /\ going' = TRUE

\* render_entry: the state of update.lifecycle.
Rendered ==
  CASE Installing -> "installing"
    [] ~Installing /\ slot # NoSlot -> slot.kind
    [] ~Installing /\ slot = NoSlot /\ machine.fault # "none" -> machine.fault
    [] OTHER -> IF machine.descriptor # None THEN "ready"
                ELSE IF pending = None THEN "idle"
                ELSE IF trial THEN "validating" ELSE "reboot-required"

\* UpdateFacts.reboot_pending: a candidate, or the state shown.
RebootIsPending == pending \in Systems \/ Rendered = "reboot-required"

-----------------------------------------------------------------------------
(* The automatic driver: update_auto.rs *)

RestAt(stage) == [Resting EXCEPT !.stage = stage]

Goes(at) == driver' = [driver EXCEPT !.at = at]

DriverAfterTrusting ==
  CASE driver.at = "checking" -> [driver EXCEPT !.at = "choose"]
    [] driver.at = "fetching" -> [driver EXCEPT !.at = "staged"]
    [] driver.at = "rechecking" /\ slot.at = "done" -> [driver EXCEPT !.at = "install"]
    [] driver.at = "rechecking" /\ slot.at = "none" -> [driver EXCEPT !.at = "discard"]
    [] OTHER -> RestAt(driver.stage)

\* What the driver does with the outcome it awaited.
DriverAfter ==
  CASE driver.at = "checking" -> [driver EXCEPT !.at = "choose"]
    [] driver.at = "fetching" -> [driver EXCEPT !.at = "staged"]
    [] driver.at = "rechecking" /\ slot.at = "done" /\ slot.item = driver.item ->
         [driver EXCEPT !.at = "install"]
    [] driver.at = "rechecking" /\ slot.at = "none" -> [driver EXCEPT !.at = "discard"]
    [] OTHER -> RestAt(driver.stage)

Settle ==
  /\ slot.at \in {"done", "none", "unready", "failed"}
  /\ machine' = Settled
  /\ slot' = NoSlot
  /\ driver' = IF slot.by = "driver" THEN DriverAfter ELSE driver
  /\ UNCHANGED <<offered, native, policy, tasks, going, left, history>>

Pass == UNCHANGED <<offered, native, policy, tasks, going, left, history>>

Tick(mode) == driver.at = "rest" /\ policy.mode = mode

\* Off: what the driver owed is dropped.
TickOff ==
  /\ Tick("off") /\ driver.stage # "Idle"
  /\ driver' = Resting
  /\ UNCHANGED <<machine, slot>> /\ Pass

TickCheck ==
  /\ Tick("check")
  /\ BeginCheck("driver") /\ Goes("checkonly")
  /\ Pass

\* drive, from Idle: check_if_due; a check not due or refused is passed over.
TickDue ==
  /\ Tick("auto") /\ driver.stage = "Idle"
  /\ BeginCheck("driver") /\ Goes("checking")
  /\ Pass

TickNotDue ==
  /\ Tick("auto") /\ driver.stage = "Idle"
  /\ Goes("choose")
  /\ UNCHANGED <<machine, slot>> /\ Pass

\* await_install, whoever's install the status is of; or the reboot owed.
TickAwait ==
  /\ Tick("auto")
  /\ \/ driver.stage = "RebootPending"
     \/ driver.stage = "Installing" /\ result # "running"
  /\ driver' = IF driver.stage = "RebootPending" \/ result = "done"
               THEN [RestAt("RebootPending") EXCEPT !.at = "reboot", !.doc = policy.reboot]
               ELSE Resting
  /\ UNCHANGED <<machine, slot>> /\ Pass

UnstagedOnly == machine.available # None /\ machine.descriptor = None

\* Step 2: fetch what the check named, unless it is what is staged.
Unstaged == machine.available # None /\ machine.available # machine.descriptor

Choose ==
  /\ driver.at = "choose"
  /\ \/ Unstaged /\ BeginFetch("driver") /\ Goes("fetching")
     \/ /\ Unstaged /\ (FetchRefused \/ Installing \/ slot # NoSlot)
        /\ driver' = Resting /\ UNCHANGED <<machine, slot>>
     \/ ~Unstaged /\ Goes("staged") /\ UNCHANGED <<machine, slot>>
  /\ Pass

ReadStaged ==
  /\ driver.at = "staged"
  /\ driver' = IF machine.descriptor = None THEN Resting
               ELSE [driver EXCEPT !.at = "hold", !.item = machine.descriptor]
  /\ UNCHANGED <<machine, slot>> /\ Pass

\* Step 3: the clock, the window, the facts, then the catalog again.
Recheck ==
  /\ driver.at = "hold" /\ ~RebootIsPending
  /\ BeginCheck("driver") /\ Goes("rechecking")
  /\ history' = [history EXCEPT !.named = {offered.core, offered.system}]
  /\ UNCHANGED <<offered, native, policy, tasks, going, left>>

DriverInstall ==
  /\ driver.at = "install"
  /\ StartInstall(driver.item)
  /\ driver' = RestAt("Installing")
  /\ UNCHANGED <<offered, native, policy, machine, slot, clears, going, left, history>>

\* The pass ends for a clock, a window, a fact or a refusal.
Deferred ==
  /\ driver.at \in {"hold", "install"}
  /\ driver' = Resting
  /\ UNCHANGED <<machine, slot>> /\ Pass

DiscardStaged ==
  /\ driver.at = "discard"
  /\ \/ BeginDiscard("driver") /\ Goes("discarding")
     \/ /\ machine.descriptor = None \/ Installing \/ slot # NoSlot
        /\ driver' = Resting /\ UNCHANGED <<machine, slot>>
  /\ Pass

\* Step 4: under the policy the tick read, in its window, past the gate.
DriverReboot ==
  /\ driver.at = "reboot" /\ driver.doc = "window"
  /\ PassGate
  /\ driver' = Resting
  /\ UNCHANGED <<offered, native, policy, machine, slot, tasks, left, history>>

NoReboot ==
  /\ driver.at = "reboot"
  /\ driver' = RestAt(IF driver.doc = "window" THEN "RebootPending" ELSE "Idle")
  /\ UNCHANGED <<machine, slot>> /\ Pass

-----------------------------------------------------------------------------
(* The operator's requests: bus/interface.rs *)

Requested == Event /\ UNCHANGED <<offered, native, driver, history>>

RequestOperation ==
  /\ \/ BeginCheck("operator")
     \/ BeginFetch("operator")
     \/ \E i \in Items : BeginImport("operator", i)
  /\ Requested /\ UNCHANGED <<policy, tasks, going>>

RequestInstall(i) ==
  /\ StartInstall(i)
  /\ Requested /\ UNCHANGED <<policy, machine, slot, clears, going>>

RequestReboot ==
  /\ ~going /\ PassGate
  /\ Requested /\ UNCHANGED <<policy, machine, slot, tasks>>

\* request_deployment_action with "reject": the pending system gives up its
\* tries and its candidacy, booted or not.  A set has no entry to reject, and
\* what else may be rejected or rolled back is not pending.  The flag of an
\* install is read before the command runs, so it guards nothing here, and
\* nobody tells the driver.
RejectPending ==
  /\ pending \in Systems
  /\ Event
  /\ pending' = None /\ trial' = FALSE
  /\ history' = [history EXCEPT !.rejected = @ \cup {pending}, !.declined = TRUE]
  /\ UNCHANGED <<offered, held, verified, policy, engine>>

WriteConfig(p) ==
  /\ p # policy /\ policy' = p
  /\ Requested /\ UNCHANGED engine

-----------------------------------------------------------------------------
Commands ==
  \/ Probe \/ CheckCore \/ CheckProduct \/ FetchCore \/ FetchProduct \/ FetchPair
  \/ Import \/ Discard \/ Settle

Installs == InstallEnds \/ InstallRecorded \/ InstallNoted

PassSteps == Choose \/ ReadStaged \/ Deferred \/ DiscardStaged \/ NoReboot

Driver ==
  \/ TickOff \/ TickCheck \/ TickDue \/ TickNotDue \/ TickAwait
  \/ Recheck \/ DriverInstall \/ DriverReboot \/ PassSteps

Operator ==
  \/ RequestOperation \/ RequestReboot \/ RejectPending
  \/ \E i \in Items : RequestInstall(i)
  \/ \E p \in Policies : WriteConfig(p)

Outside ==
  \/ \E line \in Lines : \E i \in ItemsOf(line) \cup {None} : Publish(line, i)
  \/ \E boots \in BOOLEAN : Restart(boots)
  \/ Reboot \/ Confirm \/ FailTrial

Next == Commands \/ Installs \/ Driver \/ Operator \/ Outside

Spec == Init /\ [][Next]_vars

\* Commands end (each is run against a deadline), the driver's task goes on,
\* and a boot on trial is judged.  A check falls due again and again, and
\* the window is open at a later pass if it was shut at this one, with no
\* health report in the way of the reboot it is for.
FairSpec ==
  /\ Spec
  /\ WF_vars(Commands) /\ WF_vars(Installs)
  /\ WF_vars(PassSteps) /\ WF_vars(TickAwait)
  /\ SF_vars(TickDue) /\ SF_vars(Recheck) /\ SF_vars(DriverInstall)
  /\ SF_vars(DriverReboot)
  /\ WF_vars(Reboot) /\ WF_vars(Confirm \/ FailTrial)

-----------------------------------------------------------------------------
TypeOK ==
  /\ offered \in [Lines -> Items \cup {None}]
  /\ held \in [Lines -> Nat]
  /\ pending \in Items \cup {None} /\ trial \in BOOLEAN /\ (trial => pending # None)
  /\ verified \subseteq Items /\ Cardinality(verified) <= Budget
  /\ policy \in Policies
  /\ machine \in [available : Items \cup {None}, descriptor : Items \cup {None},
                  fault : {"none", "unready", "failed"}]
  /\ slot.kind \in {"none", "check", "fetch", "import", "discard"}
  /\ slot.by \in {"none", "driver", "operator"}
  /\ slot.item \in Items \cup {None}
  /\ install \in [at : {"none", "running", "done", "failed"}, item : Items \cup {None}]
  /\ result \in {"none", "running", "done", "failed"}
  /\ clears \in BOOLEAN /\ going \in BOOLEAN
  /\ driver.stage \in {"Idle", "Installing", "RebootPending"}
  /\ driver.item \in Items \cup {None}

\* The driver awaits an operation exactly while the slot holds one of its own:
\* no other request takes the slot under it, and none settles to it in its
\* place (begin, check_now, fetch_now).
AwaitsItsOwn ==
  driver.at \in {"checkonly", "checking", "fetching", "rechecking", "discarding"}
    <=> slot.by = "driver"

\* The descriptor the lifecycle shows as ready is in verified/, whatever
\* failed half-way, but while a discard is removing it
\* (discard_descriptor, settle_fetch).
StagedOnDisk ==
  machine.descriptor # None =>
    machine.descriptor \in verified \/ slot.kind = "discard"

\* The driver installs only what the source named at some moment since its
\* recheck began, however long ago it was staged and whoever staged
\* something else meanwhile (install_if_allowed).
InstallsOnlyNamed ==
  [][driver.at = "install" /\ driver'.stage = "Installing"
       => install'.item \in history.named]_vars

\* The driver reboots the machine only for something installed that has not
\* been booted: never for an install that failed, nor again for one already
\* booted (await_install, reboot_if_allowed).  reboot_if_allowed reads no
\* facts, so an operator's reject in between does not stop it: the reboot is
\* then for what the operator declined.
RebootsIntoPending ==
  [][driver.at = "reboot" /\ driver' = Resting /\ driver.doc = "window"
       => ~trial /\ (pending # None \/ history.declined)]_vars

\* An automatic, online device does not leave a newer release untaken for
\* ever with nothing pending (drive: "lets the pass move on when the
\* publisher released something newer").
OfferTaken ==
  []<>~( /\ policy.mode = "auto" /\ policy.network = "online"
         /\ pending = None
         /\ \E line \in Lines : Newer(line) )

\* The engine's books through failed commands, restarts and requests of an
\* operator in between: the driver awaits its own operation and no other, and
\* what is shown as ready to install is on disk.
EngineSafe == TypeOK /\ AwaitsItsOwn /\ StagedOnDisk

\* What the driver does to the device by itself: it installs what the source
\* named, and it reboots into what it installed.
DriverPromises == InstallsOnlyNamed /\ RebootsIntoPending

\* Nothing whose trial failed is installed again (update_auto.rs: "Native
\* failed IDs and generation floors prevent reinstalling rejected releases").
RejectedNotReinstalled == pending \notin history.rejected

-----------------------------------------------------------------------------
(* The instance that is checked: every item of its first generation; an      *)
(* operator who lets the device update itself with or without its reboot,    *)
(* who only has it check over a metered link, or who turns it off.           *)
FirstGeneration == [i \in Items |-> 1]

Document(mode, network, reboot) ==
  [mode |-> mode, network |-> network, reboot |-> reboot]

OperatorsDocuments ==
  {Document("auto", "online", "window"), Document("auto", "online", "manual"),
   Document("check", "metered", "manual"), Document("off", "offline", "manual")}
=============================================================================
