------------------------ MODULE UpdateEngineProofs -------------------------
(***************************************************************************)
(* The update engine, for any items, generations, policies and workspace,  *)
(* through every interleaving of the driver, the operator, the acquisition *)
(* slot, the detached install, restarts and reboots. EngineSafe is not     *)
(* inductive: the invariant adds what an operation in the slot carries at  *)
(* each of its steps, where in a pass the driver may be, what it has       *)
(* rechecked by then, and that an install remembered as done by anyone is  *)
(* pending and not yet booted.                                             *)
(***************************************************************************)
EXTENDS UpdateEngine, FiniteSetTheorems, TLAPS

\* An item or none, what the slot, the install and the driver may be at.
Maybe == Items \cup {None}
Kinds == {"none", "check", "fetch", "import", "discard"}
Requesters == {"none", "driver", "operator"}
SlotAts == {"idle", "probe", "core", "product", "pair", "import", "discard",
            "done", "none", "unready", "failed"}
Awaiting == {"checkonly", "checking", "fetching", "rechecking", "discarding"}
DriverAts == Awaiting \cup {"rest", "choose", "staged", "hold", "install", "discard", "reboot"}
Stages == {"Idle", "Installing", "RebootPending"}
Outcomes == {"none", "running", "done", "failed"}
Machine == [available : Maybe, descriptor : Maybe, fault : {"none", "unready", "failed"}]
Slot == [kind : Kinds, by : Requesters, at : SlotAts, item : Maybe]
Install == [at : Outcomes, item : Maybe]
DriverState == [stage : Stages, at : DriverAts, item : Maybe, doc : {"none", "manual", "window"}]
History == [rejected : SUBSET Items, named : SUBSET Maybe, declined : BOOLEAN]

\* What the variables hold.
EngTypes ==
  /\ offered \in [Lines -> Maybe] /\ held \in [Lines -> Nat]
  /\ pending \in Maybe /\ trial \in BOOLEAN /\ (trial => pending # None)
  /\ verified \subseteq Items /\ IsFiniteSet(verified) /\ Cardinality(verified) <= Budget
  /\ policy \in Policies
  /\ machine \in Machine /\ slot \in Slot
  /\ install \in Install /\ result \in Outcomes /\ clears \in BOOLEAN
  /\ driver \in DriverState /\ going \in BOOLEAN
  /\ left \in Nat /\ history \in History

\* An operation has a kind and a requester; what a fetch or an import names as staged
\* is in verified/, and an import has an item to stage.
SlotInv ==
  /\ slot = NoSlot \/ (slot.kind # "none" /\ slot.by # "none")
  /\ slot.kind \in {"fetch", "import"} /\ slot.at \in {"pair", "done"} => slot.item \in verified
  /\ slot.kind = "import" /\ slot.at \in {"probe", "import"} => slot.item \in Items

\* A pass runs from an idle driver, and what it has rechecked is what the source names.
DriverInv ==
  /\ driver.at \notin {"rest", "reboot", "checkonly"} => driver.stage = "Idle"
  /\ driver.at = "reboot" => driver.stage = "RebootPending"
  /\ driver.at = "rechecking" =>
       /\ slot.kind = "check"
       /\ offered["core"] \in history.named /\ offered["system"] \in history.named
       /\ slot.at = "done" => slot.item \in history.named
  /\ driver.at = "install" => driver.item \in history.named

\* An install that ended well is not yet booted, and pending unless the operator declined
\* it, for as long as anything remembers it.
DoneInv ==
  install.at = "done" \/ result = "done" \/ driver.stage = "RebootPending"
    => ~trial /\ (pending # None \/ history.declined)

EngInv == EngTypes /\ SlotInv /\ AwaitsItsOwn /\ StagedOnDisk /\ DriverInv /\ DoneInv

--------------------------------------------------------------------------------
(* The records, field by field. *)

LEMMA NoSlotIs == NoSlot \in Slot /\ NoSlot.kind = "none" /\ NoSlot.by = "none" /\ NoSlot.at = "idle"
  BY DEF NoSlot, Slot, Kinds, Requesters, SlotAts, Maybe

LEMMA NoMachineIs == NoMachine \in Machine /\ NoMachine.descriptor = None
  BY DEF NoMachine, Machine, Maybe

LEMMA NoInstallIs == NoInstall \in Install /\ NoInstall.at = "none"
  BY DEF NoInstall, Install, Outcomes, Maybe

LEMMA RestAtIs ==
  ASSUME NEW s \in Stages, NEW d, d = RestAt(s)
  PROVE  d \in DriverState /\ d.stage = s /\ d.at = "rest"
  BY DEF RestAt, Resting, DriverState, DriverAts, Awaiting, Stages, Maybe

LEMMA RestingIs == Resting \in DriverState /\ Resting.stage = "Idle" /\ Resting.at = "rest"
  BY DEF Resting, DriverState, DriverAts, Awaiting, Stages, Maybe

\* Adding an item to what is staged.
LEMMA StagedFits ==
  ASSUME EngTypes, NEW i \in Items, i \in verified \/ Cardinality(verified) < Budget
  PROVE  /\ verified \cup {i} \subseteq Items /\ IsFiniteSet(verified \cup {i})
         /\ Cardinality(verified \cup {i}) <= Budget
  <1>1. /\ IsFiniteSet(verified \cup {i}) /\ Cardinality(verified) \in Nat
        /\ Cardinality(verified \cup {i}) =
             IF i \in verified THEN Cardinality(verified) ELSE Cardinality(verified) + 1
    BY FS_AddElement, FS_CardinalityType DEF EngTypes
  <1>2. Budget \in Nat
    BY EngineAssumption
  <1> QED BY <1>1, <1>2 DEF EngTypes

\* Removing some.
LEMMA RemovedFits ==
  ASSUME EngTypes, NEW v \in SUBSET verified
  PROVE  v \subseteq Items /\ IsFiniteSet(v) /\ Cardinality(v) <= Budget
  BY FS_Subset, FS_CardinalityType, EngineAssumption DEF EngTypes

\* An event, or none.
LEMMA EventIs == EngTypes /\ (Event \/ UNCHANGED left) => left' \in Nat
  BY DEF EngTypes, Event

--------------------------------------------------------------------------------
(* A command of mica-deploy ends, and the operation in the slot moves on. *)

LEMMA MoveKeeps ==
  ASSUME EngInv, Command, NEW a \in SlotAts, NEW i \in Maybe, MoveOn(a, i),
         slot # NoSlot, left' \in Nat,
         verified' \subseteq Items, IsFiniteSet(verified'), Cardinality(verified') <= Budget,
         slot.kind # "discard" => verified \subseteq verified',
         slot.kind \in {"fetch", "import"} /\ a \in {"pair", "done"} => i \in verified',
         slot.kind = "import" /\ a \in {"probe", "import"} => i \in Items,
         slot.kind = "check" /\ driver.at = "rechecking" /\ a = "done" => i \in history.named
  PROVE  EngInv'
  <1>1. /\ slot' \in Slot /\ slot'.kind = slot.kind /\ slot'.by = slot.by
        /\ slot'.at = a /\ slot'.item = i
    BY DEF EngInv, EngTypes, MoveOn, Slot
  <1>2. UNCHANGED <<offered, held, pending, trial, policy, machine, install, clears, result,
                    driver, going, history>>
    BY DEF Command, tasks
  <1>3. EngTypes'
    BY <1>1, <1>2 DEF EngInv, EngTypes
  <1>4. SlotInv'
    BY <1>1, NoSlotIs DEF EngInv, SlotInv
  <1>5. AwaitsItsOwn' /\ StagedOnDisk'
    BY <1>1, <1>2 DEF EngInv, AwaitsItsOwn, StagedOnDisk
  <1>6. DriverInv'
    BY <1>1, <1>2 DEF EngInv, DriverInv
  <1>7. DoneInv'
    BY <1>2 DEF EngInv, DoneInv
  <1> QED BY <1>3, <1>4, <1>5, <1>6, <1>7 DEF EngInv

\* A command that fails leaves the operation at a failure, with nothing named.
LEMMA FailKeeps ==
  ASSUME EngInv, Command, NEW a \in SlotAts \ {"pair", "done", "probe", "import"}, Fail(a),
         slot # NoSlot
  PROVE  EngInv'
  BY EventIs, MoveKeeps DEF Fail, Fails, EngInv, Maybe, EngTypes

LEMMA SlotBusy == slot.at # "idle" => slot # NoSlot
  BY NoSlotIs

LEMMA ProbeStep == EngInv /\ Probe => EngInv'
  BY SlotBusy, FailKeeps, MoveKeeps DEF Probe, EngInv, EngTypes, SlotAts, Slot, SlotInv

\* What a line offers when it offers something newer.
LEMMA NewerIs ==
  ASSUME EngTypes, NEW line \in Lines, Newer(line)
  PROVE  offered[line] \in Items
  BY DEF EngTypes, Newer, Maybe

LEMMA CheckCoreStep == EngInv /\ CheckCore => EngInv'
  BY SlotBusy, FailKeeps, MoveKeeps DEF CheckCore, At, SlotAts, EngInv, EngTypes, Lines, Maybe, DriverInv

LEMMA CheckProductStep == EngInv /\ CheckProduct => EngInv'
  BY SlotBusy, FailKeeps, MoveKeeps DEF CheckProduct, At, SlotAts, EngInv, EngTypes, Lines, Maybe, DriverInv

\* Staging an item of a fetch or an import.
LEMMA StageKeeps ==
  ASSUME EngInv, Command, slot.kind \in {"fetch", "import"}, slot # NoSlot,
         NEW i \in Items, NEW next \in {"done", "pair"}, Stage(i, next)
  PROVE  EngInv'
  BY StagedFits, MoveKeeps DEF Stage, EngInv, EngTypes, Maybe, Stageable, SlotAts

LEMMA FetchCoreStep == EngInv /\ FetchCore => EngInv'
  BY SlotBusy, FailKeeps, NewerIs, StageKeeps, MoveKeeps DEF FetchCore, At, Maybe, SlotAts, EngInv, Lines,
     EngTypes

LEMMA FetchProductStep == EngInv /\ FetchProduct => EngInv'
  BY SlotBusy, FailKeeps, NewerIs, StageKeeps, MoveKeeps DEF FetchProduct, At, Maybe, SlotAts, EngInv,
     Lines, EngTypes

LEMMA FetchPairStep == EngInv /\ FetchPair => EngInv'
  BY SlotBusy, NewerIs, StagedFits, MoveKeeps DEF FetchPair, At, EngInv, SlotInv, EngTypes, Maybe, Lines,
     Stageable, SlotAts

LEMMA ImportStep == EngInv /\ Import => EngInv'
  BY SlotBusy, FailKeeps, StageKeeps DEF Import, At, SlotAts, EngInv, SlotInv

LEMMA DiscardStep == EngInv /\ Discard => EngInv'
  BY SlotBusy, EventIs, RemovedFits, MoveKeeps DEF Discard, At, Maybe, Fails, EngInv, SlotAts

--------------------------------------------------------------------------------
(* The operation settles, and the driver's pass goes on. *)

LEMMA SettledIs ==
  ASSUME EngInv, slot.at \in {"done", "none", "unready", "failed"}, NEW m, m = Settled
  PROVE  /\ m \in Machine
         /\ m.descriptor # None => m.descriptor \in verified
  <1>1. machine \in Machine /\ slot \in Slot /\ slot.item \in Maybe
    BY DEF EngInv, EngTypes, Slot
  <1>2. slot.kind # "discard" => (machine.descriptor # None => machine.descriptor \in verified)
    BY DEF EngInv, StagedOnDisk
  <1>3. CASE slot.kind = "discard"
    <2>1. m = [NoMachine EXCEPT !.fault = IF slot.at = "done" THEN "none" ELSE "failed"]
      BY <1>3 DEF Settled
    <2> HIDE DEF NoMachine
    <2>2. m \in Machine /\ m.descriptor = None
      BY <2>1, NoMachineIs DEF Machine
    <2> QED BY <2>2
  <1>4. CASE slot.kind # "discard" /\ slot.at = "done"
    BY <1>4, <1>1, <1>2, NoSlotIs DEF Settled, Machine, EngInv, SlotInv, Slot, Kinds
  <1>5. CASE slot.kind # "discard" /\ slot.at = "none"
    BY <1>5, <1>1, <1>2 DEF Settled, Machine, Maybe
  <1>6. CASE slot.kind # "discard" /\ slot.at \in {"unready", "failed"}
    BY <1>6, <1>1, <1>2 DEF Settled, Machine
  <1> QED BY <1>3, <1>4, <1>5, <1>6

LEMMA DriverAfterIs ==
  ASSUME EngInv, slot.by = "driver", NEW d, d = DriverAfter
  PROVE  /\ d \in DriverState /\ d.at \notin Awaiting \cup {"reboot"}
         /\ d.at # "rest" => d.stage = "Idle"
         /\ d.stage = driver.stage
         /\ d.at = "install" => d.item \in history.named
  <1>1. driver \in DriverState /\ driver.at \in Awaiting /\ driver.stage \in Stages
    BY DEF EngInv, EngTypes, AwaitsItsOwn, Awaiting, DriverState
  <1> DEFINE Good(x) == /\ x \in DriverState /\ x.at \notin Awaiting \cup {"reboot"}
                        /\ x.at # "rest" => x.stage = "Idle"
                        /\ x.stage = driver.stage
                        /\ x.at = "install" => x.item \in history.named
  <1>2. ASSUME NEW a \in {"choose", "staged", "install", "discard"}, NEW x,
               x = [driver EXCEPT !.at = a], driver.stage = "Idle",
               a = "install" => driver.item \in history.named
        PROVE Good(x)
    BY <1>1, <1>2 DEF DriverState, DriverAts, Awaiting
  <1>3. ASSUME NEW x, x = RestAt(driver.stage) PROVE Good(x)
    BY <1>1, <1>3, RestAtIs DEF Awaiting
  <1>4. driver.at \in {"checking", "fetching", "rechecking"} => driver.stage = "Idle"
    BY DEF EngInv, DriverInv
  <1> HIDE DEF Good
  <1>5. CASE driver.at = "checking"
    BY <1>5, <1>2, <1>4 DEF DriverAfter, Good
  <1>6. CASE driver.at = "fetching"
    BY <1>6, <1>2, <1>4 DEF DriverAfter, Good
  <1>7. CASE driver.at = "rechecking" /\ slot.at = "done" /\ slot.item = driver.item
    BY <1>7, <1>2, <1>4 DEF DriverAfter, EngInv, DriverInv, Good
  <1>8. CASE driver.at = "rechecking" /\ slot.at = "none"
    BY <1>8, <1>2, <1>4 DEF DriverAfter, Good
  <1>9. CASE /\ driver.at \notin {"checking", "fetching"}
             /\ ~(driver.at = "rechecking" /\ slot.at = "done" /\ slot.item = driver.item)
             /\ ~(driver.at = "rechecking" /\ slot.at = "none")
    BY <1>9, <1>3 DEF DriverAfter, Good
  <1> QED BY <1>5, <1>6, <1>7, <1>8, <1>9

LEMMA SettleStep == EngInv /\ Settle => EngInv'
  BY SettledIs, DriverAfterIs, NoSlotIs DEF Settle, native, tasks, Awaiting, EngInv, EngTypes, AwaitsItsOwn,
     DriverInv, SlotInv, StagedOnDisk, DoneInv

--------------------------------------------------------------------------------
(* The slot is taken. *)

LEMMA BeginIs ==
  ASSUME EngInv, NEW kind \in Kinds \ {"none"}, NEW by \in {"driver", "operator"},
         NEW at \in {"probe", "discard"}, NEW i \in Maybe, Begin(kind, by, at, i),
         kind = "import" => i \in Items
  PROVE  /\ slot = NoSlot /\ slot' \in Slot /\ machine' \in Machine
         /\ slot'.kind = kind /\ slot'.by = by /\ slot'.at = at /\ slot'.item = i
         /\ machine'.descriptor = machine.descriptor
         /\ driver.at \notin Awaiting
  BY NoSlotIs DEF Begin, EngInv, EngTypes, Machine, Slot, Requesters, SlotAts, AwaitsItsOwn, Awaiting

\* The driver or an operator begins an operation; the driver then awaits it.
LEMMA BeginKeeps ==
  ASSUME EngInv, NEW kind \in Kinds \ {"none"}, NEW by \in {"driver", "operator"},
         NEW at \in {"probe", "discard"}, NEW i \in Maybe, Begin(kind, by, at, i),
         kind = "import" => i \in Items,
         UNCHANGED <<offered, held, pending, trial, verified, policy, install, clears, result,
                     going>>,
         left' \in Nat, history' \in History, history'.declined = history.declined,
         driver' \in DriverState, driver'.stage = driver.stage,
         by = "operator" => driver' = driver /\ history' = history,
         by = "driver" => /\ driver'.at \in Awaiting
                          /\ driver'.at # "checkonly" => driver.stage = "Idle"
                          /\ driver'.at = "rechecking" =>
                               /\ kind = "check" /\ at = "probe"
                               /\ offered["core"] \in history'.named
                               /\ offered["system"] \in history'.named
  PROVE  EngInv'
  BY BeginIs, NoSlotIs DEF EngInv, EngTypes, SlotInv, AwaitsItsOwn, Awaiting, StagedOnDisk, DriverInv,
     DoneInv

\* The driver's own steps move its pass and leave what it keeps with it alone.
LEMMA GoesIs ==
  ASSUME EngTypes, NEW a \in DriverAts, Goes(a)
  PROVE  driver' \in DriverState /\ driver'.at = a /\ driver'.stage = driver.stage
         /\ driver'.item = driver.item
  BY DEF EngTypes, Goes, DriverState

\* The driver moves on by itself, without an operation.
LEMMA DriverKeeps ==
  ASSUME EngInv, UNCHANGED <<machine, slot>>, Pass, driver' \in DriverState,
         driver.at \notin Awaiting, driver'.at \notin Awaiting,
         driver'.at \notin {"rest", "reboot"} => driver'.stage = "Idle",
         driver'.at = "reboot" => driver'.stage = "RebootPending",
         driver'.at # "install",
         driver'.stage = "RebootPending" => driver.stage = "RebootPending" \/ result = "done"
  PROVE  EngInv'
  BY DEF Pass, native, tasks, EngInv, EngTypes, SlotInv, StagedOnDisk, AwaitsItsOwn, Awaiting, DriverInv,
     DoneInv

--------------------------------------------------------------------------------
(* The driver's ticks and passes. *)

LEMMA PassIs ==
  ASSUME EngTypes, Pass
  PROVE  /\ UNCHANGED <<offered, held, pending, trial, verified, policy, install, clears,
                        result, going, left, history>>
         /\ left' \in Nat /\ history' \in History
  BY DEF Pass, native, tasks, EngTypes

LEMMA DriverBegins ==
  ASSUME EngInv, Pass, NEW kind \in {"check", "fetch", "discard"}, NEW at \in {"probe", "discard"},
         Begin(kind, "driver", at, None), NEW a \in Awaiting \ {"rechecking"}, Goes(a),
         a # "checkonly" => driver.stage = "Idle"
  PROVE  EngInv'
  BY GoesIs, PassIs, BeginKeeps DEF DriverAts, Maybe, Kinds, EngInv

\* The driver rests, at any stage it was at or at idle.
LEMMA RestsKeeps ==
  ASSUME EngInv, UNCHANGED <<machine, slot>>, Pass, driver' = Resting, driver.at \notin Awaiting
  PROVE  EngInv'
  BY DriverKeeps, RestingIs DEF Awaiting

LEMMA TickOffStep == EngInv /\ TickOff => EngInv'
  BY RestsKeeps DEF TickOff, Tick, Awaiting

LEMMA TickCheckStep == EngInv /\ TickCheck => EngInv'
  BY DriverBegins DEF TickCheck, BeginCheck, Awaiting

LEMMA TickDueStep == EngInv /\ TickDue => EngInv'
  BY DriverBegins DEF TickDue, BeginCheck, Awaiting

LEMMA TickNotDueStep == EngInv /\ TickNotDue => EngInv'
  BY GoesIs, DriverKeeps DEF TickNotDue, EngInv, DriverAts, Tick, Awaiting

LEMMA TickAwaitStep == EngInv /\ TickAwait => EngInv'
  <1> SUFFICES ASSUME EngInv, TickAwait PROVE EngInv'
    OBVIOUS
  <1>1. UNCHANGED <<machine, slot>> /\ Pass /\ driver.at = "rest"
    BY DEF TickAwait, Tick
  <1>2. CASE driver.stage = "RebootPending" \/ result = "done"
    <2>1. driver' = [RestAt("RebootPending") EXCEPT !.at = "reboot", !.doc = policy.reboot]
      BY <1>2 DEF TickAwait
    <2>2. policy.reboot \in {"manual", "window"}
      BY EngineAssumption DEF EngInv, EngTypes
    <2>3. RestAt("RebootPending") \in DriverState /\ RestAt("RebootPending").stage = "RebootPending"
      BY RestAtIs DEF Stages
    <2> HIDE DEF RestAt
    <2>4. driver' \in DriverState /\ driver'.at = "reboot" /\ driver'.stage = "RebootPending"
      BY <2>1, <2>2, <2>3 DEF DriverState, DriverAts
    <2> QED BY <1>1, <1>2, <2>4, DriverKeeps DEF Awaiting
  <1>3. CASE ~(driver.stage = "RebootPending" \/ result = "done")
    BY <1>3, <1>1, RestsKeeps DEF TickAwait, Awaiting
  <1> QED BY <1>2, <1>3

LEMMA ChooseStep == EngInv /\ Choose => EngInv'
  BY DriverBegins, RestsKeeps, GoesIs, DriverKeeps DEF Choose, EngInv, DriverInv, BeginFetch, Awaiting,
     DriverAts

LEMMA ReadStagedStep == EngInv /\ ReadStaged => EngInv'
  BY RestsKeeps, DriverKeeps DEF ReadStaged, EngInv, DriverInv, Awaiting, EngTypes, Machine, DriverState,
     DriverAts

LEMMA RecheckStep == EngInv /\ Recheck => EngInv'
  <1> SUFFICES ASSUME EngInv, Recheck PROVE EngInv'
    OBVIOUS
  <1>1. /\ Begin("check", "driver", "probe", None) /\ Goes("rechecking")
        /\ driver.at = "hold" /\ driver.stage = "Idle"
    BY DEF Recheck, BeginCheck, EngInv, DriverInv
  <1>2. history' = [history EXCEPT !.named = {offered["core"], offered["system"]}]
        /\ UNCHANGED <<offered, held, pending, trial, verified, policy, install, clears, result,
                       going, left>>
    BY DEF Recheck, native, tasks
  <1>3. /\ history' \in History /\ history'.declined = history.declined
        /\ offered["core"] \in history'.named /\ offered["system"] \in history'.named
    BY <1>2 DEF EngInv, EngTypes, Lines, History
  <1>4. driver' \in DriverState /\ driver'.at = "rechecking" /\ driver'.stage = driver.stage
    BY <1>1, GoesIs DEF EngInv, DriverAts, Awaiting
  <1>5. left' \in Nat /\ None \in Maybe
    BY <1>2 DEF EngInv, EngTypes, Maybe
  <1> QED BY <1>1, <1>2, <1>3, <1>4, <1>5, BeginKeeps DEF Kinds, Awaiting

LEMMA DeferredStep == EngInv /\ Deferred => EngInv'
  BY RestsKeeps DEF Deferred, Awaiting

LEMMA DiscardStagedStep == EngInv /\ DiscardStaged => EngInv'
  BY DriverBegins, RestsKeeps DEF DiscardStaged, EngInv, DriverInv, BeginDiscard, Awaiting

LEMMA NoRebootStep == EngInv /\ NoReboot => EngInv'
  BY RestAtIs, DriverKeeps DEF NoReboot, EngInv, DriverInv, Stages, Awaiting

\* An install is started by the driver or by an operator.
LEMMA StartInstallIs ==
  ASSUME EngTypes, NEW i, StartInstall(i)
  PROVE  install' \in Install /\ install'.at = "running" /\ install'.item = i /\ result' = "running"
  BY DEF EngTypes, StartInstall, Install, Outcomes, Maybe

LEMMA DriverInstallStep == EngInv /\ DriverInstall => EngInv'
  BY StartInstallIs, RestAtIs DEF DriverInstall, EngInv, Stages, native, EngTypes, Outcomes, SlotInv,
     StagedOnDisk, AwaitsItsOwn, DriverInv, DoneInv

LEMMA DriverRebootStep == EngInv /\ DriverReboot => EngInv'
  BY RestingIs DEF DriverReboot, PassGate, native, tasks, EngInv, EngTypes, SlotInv, StagedOnDisk,
     AwaitsItsOwn, DriverInv, DoneInv

--------------------------------------------------------------------------------
(* The install, and the operator. *)

\* A step that leaves the slot, the machine and the driver alone.
LEMMA AsideKeeps ==
  ASSUME EngInv, EngTypes', UNCHANGED <<verified, offered, machine, slot, driver>>,
         history'.named = history.named, DoneInv'
  PROVE  EngInv'
  BY DEF EngInv, SlotInv, AwaitsItsOwn, StagedOnDisk, DriverInv

LEMMA InstallEndsStep == EngInv /\ InstallEnds => EngInv'
  <1> SUFFICES ASSUME EngInv, InstallEnds PROVE EngInv'
    OBVIOUS
  <1>1. history' \in History /\ history'.named = history.named
    BY DEF InstallEnds, EngInv, EngTypes, History
  <1>2. EngTypes'
    BY <1>1, EngineAssumption, EventIs DEF InstallEnds, EngInv, EngTypes, Installable, Lines, Install,
       Outcomes, Maybe, Fails
  <1>3. DoneInv'
    <2>1. CASE Installable(install.item) /\ pending' = install.item
      BY <2>1, EngineAssumption DEF Installable, EngInv, EngTypes, InstallEnds, DoneInv
    <2>2. CASE UNCHANGED <<pending, history>> /\ install' = [install EXCEPT !.at = "failed"]
      BY <2>2 DEF InstallEnds, EngInv, EngTypes, Install, DoneInv
    <2> QED BY <2>1, <2>2 DEF InstallEnds
  <1> QED BY <1>1, <1>2, <1>3, AsideKeeps DEF InstallEnds

LEMMA InstallRecordedStep == EngInv /\ InstallRecorded => EngInv'
  <1> SUFFICES ASSUME EngInv, InstallRecorded PROVE EngInv'
    OBVIOUS
  <1>1. UNCHANGED <<offered, held, pending, trial, verified, policy, machine, slot, driver, going,
                    history>>
    BY DEF InstallRecorded, native
  <1>2. /\ install' = NoInstall /\ result' = install.at /\ install.at \in Outcomes
    BY DEF InstallRecorded, Outcomes
  <1>3. left' \in Nat
    BY EventIs DEF InstallRecorded, EngInv
  <1>4. clears' \in BOOLEAN
    BY DEF EngInv, EngTypes, InstallRecorded
  <1>5. EngTypes'
    BY <1>1, <1>2, <1>3, <1>4, NoInstallIs DEF EngInv, EngTypes
  <1>6. DoneInv'
    BY <1>1, <1>2, NoInstallIs DEF EngInv, DoneInv
  <1> QED BY <1>1, <1>5, <1>6, AsideKeeps

LEMMA InstallNotedStep == EngInv /\ InstallNoted => EngInv'
  <1> SUFFICES ASSUME EngInv, InstallNoted PROVE EngInv'
    OBVIOUS
  <1>1. UNCHANGED <<offered, held, pending, trial, verified, policy, slot, install, result, driver,
                    going, left, history>> /\ clears' = FALSE
    BY DEF InstallNoted, native
  <1>2. machine' \in Machine /\ machine'.descriptor = None
    BY DEF InstallNoted, EngInv, EngTypes, Machine, Maybe
  <1>3. EngTypes'
    BY <1>1, <1>2 DEF EngInv, EngTypes
  <1>4. SlotInv' /\ AwaitsItsOwn' /\ DriverInv' /\ DoneInv'
    BY <1>1 DEF EngInv, SlotInv, AwaitsItsOwn, DriverInv, DoneInv
  <1>5. StagedOnDisk'
    BY <1>2 DEF StagedOnDisk
  <1> QED BY <1>3, <1>4, <1>5 DEF EngInv

LEMMA RequestedIs ==
  ASSUME EngTypes, Requested
  PROVE  /\ left' \in Nat
         /\ UNCHANGED <<offered, held, pending, trial, verified, driver, history>>
  BY EventIs DEF Requested, native

LEMMA RequestOperationStep == EngInv /\ RequestOperation => EngInv'
  BY RequestedIs, BeginKeeps DEF RequestOperation, EngInv, tasks, EngTypes, Maybe, BeginCheck, Kinds,
     BeginFetch, BeginImport

LEMMA RequestInstallStep ==
  ASSUME NEW i \in Items
  PROVE  EngInv /\ RequestInstall(i) => EngInv'
  BY RequestedIs, StartInstallIs, AsideKeeps DEF RequestInstall, EngInv, EngTypes, Outcomes, DoneInv

LEMMA RequestRebootStep == EngInv /\ RequestReboot => EngInv'
  BY RequestedIs, AsideKeeps DEF RequestReboot, PassGate, EngInv, tasks, EngTypes, DoneInv

LEMMA RejectPendingStep == EngInv /\ RejectPending => EngInv'
  <1> SUFFICES ASSUME EngInv, RejectPending PROVE EngInv'
    OBVIOUS
  <1>1. UNCHANGED <<offered, held, verified, policy, machine, slot, install, clears, result, driver,
                    going>> /\ pending' = None /\ trial' = FALSE /\ left' \in Nat
    BY EventIs DEF RejectPending, engine, tasks, EngInv
  <1>2. history' \in History /\ history'.named = history.named /\ history'.declined = TRUE
    BY DEF RejectPending, EngInv, EngTypes, History, Items
  <1>3. EngTypes' /\ DoneInv'
    BY <1>1, <1>2 DEF EngInv, EngTypes, DoneInv, Maybe
  <1> QED BY <1>1, <1>2, <1>3, AsideKeeps

LEMMA WriteConfigStep ==
  ASSUME NEW p \in Policies
  PROVE  EngInv /\ WriteConfig(p) => EngInv'
  BY RequestedIs, AsideKeeps DEF WriteConfig, EngInv, engine, tasks, EngTypes, DoneInv

--------------------------------------------------------------------------------
(* The source, the ends of micad, and the verdicts on a trial. *)

LEMMA PublishStep ==
  ASSUME NEW line \in Lines, NEW i \in ItemsOf(line) \cup {None}
  PROVE  EngInv /\ Publish(line, i) => EngInv'
  <1> SUFFICES ASSUME EngInv, Publish(line, i) PROVE EngInv'
    OBVIOUS
  <1>1. /\ offered' = [offered EXCEPT ![line] = i]
        /\ history' = [history EXCEPT !.named = @ \cup {i}]
        /\ UNCHANGED <<held, pending, trial, verified, policy, machine, slot, install, clears,
                       result, driver, going>>
    BY DEF Publish, native, engine, tasks
  <1>2. i \in Maybe /\ left' \in Nat
    BY EventIs DEF ItemsOf, Maybe, Items, Publish, EngInv
  <1>3. offered' \in [Lines -> Maybe] /\ \A l \in Lines : offered'[l] \in {i, offered[l]}
    BY <1>1, <1>2 DEF EngInv, EngTypes
  <1>4. history' \in History /\ history'.named = history.named \cup {i}
    BY <1>1, <1>2 DEF EngInv, EngTypes, History
  <1>5. EngTypes'
    BY <1>1, <1>2, <1>3, <1>4 DEF EngInv, EngTypes
  <1>6. SlotInv' /\ AwaitsItsOwn' /\ StagedOnDisk' /\ DoneInv'
    BY <1>1 DEF EngInv, SlotInv, AwaitsItsOwn, StagedOnDisk, DoneInv
  <1>7. DriverInv'
    BY <1>1, <1>3, <1>4 DEF Lines, EngInv, DriverInv
  <1> QED BY <1>5, <1>6, <1>7 DEF EngInv

\* Everything of micad's starts anew.
LEMMA AfreshKeeps ==
  ASSUME Afresh, offered' \in [Lines -> Maybe], held' \in [Lines -> Nat], pending' \in Maybe,
         trial' \in BOOLEAN, trial' => pending' # None,
         verified' \subseteq Items, IsFiniteSet(verified'), Cardinality(verified') <= Budget,
         policy' \in Policies, left' \in Nat, history' \in History
  PROVE  EngInv'
  BY NoMachineIs, NoSlotIs, NoInstallIs, RestingIs DEF Afresh, EngTypes, Outcomes, SlotInv, AwaitsItsOwn,
     StagedOnDisk, DriverInv, DoneInv, EngInv

LEMMA RestartStep ==
  ASSUME NEW boots \in BOOLEAN
  PROVE  EngInv /\ Restart(boots) => EngInv'
  BY EventIs, AfreshKeeps DEF Restart, EngInv, EngTypes

LEMMA RebootStep == EngInv /\ Reboot => EngInv'
  BY AfreshKeeps DEF Reboot, EngInv, EngTypes

LEMMA ConfirmStep == EngInv /\ Confirm => EngInv'
  BY EngineAssumption, AsideKeeps DEF Confirm, engine, tasks, EngInv, EngTypes, Maybe, DoneInv

LEMMA FailTrialStep == EngInv /\ FailTrial => EngInv'
  BY AfreshKeeps DEF FailTrial, EngInv, EngTypes, Maybe, History

LEMMA EngStart == Init => EngInv
  <1> SUFFICES ASSUME Init PROVE EngInv
    OBVIOUS
  <1>1. /\ machine = NoMachine /\ slot = NoSlot /\ install = NoInstall /\ clears = FALSE
        /\ result = "none" /\ driver = Resting /\ going = FALSE
        /\ pending = None /\ trial = FALSE /\ verified = {}
    BY DEF Init
  <1>2. IsFiniteSet(verified) /\ Cardinality(verified) <= Budget
    BY <1>1, FS_EmptySet, EngineAssumption
  <1>3. offered \in [Lines -> Maybe] /\ held \in [Lines -> Nat] /\ left \in Nat
        /\ policy \in Policies /\ history \in History
    BY EngineAssumption DEF Init, Maybe, History
  <1>4. EngTypes
    BY <1>1, <1>2, <1>3, NoMachineIs, NoSlotIs, NoInstallIs, RestingIs DEF EngTypes, Outcomes, Maybe
  <1>5. SlotInv /\ AwaitsItsOwn /\ StagedOnDisk
    BY <1>1, NoMachineIs, NoSlotIs, RestingIs DEF SlotInv, AwaitsItsOwn, StagedOnDisk
  <1>6. DriverInv /\ DoneInv
    BY <1>1, NoInstallIs, RestingIs DEF DriverInv, DoneInv
  <1> QED BY <1>4, <1>5, <1>6 DEF EngInv

LEMMA EngStep == EngInv /\ [Next]_vars => EngInv'
  <1> SUFFICES ASSUME EngInv, [Next]_vars PROVE EngInv'
    OBVIOUS
  <1>1. CASE Commands
    BY <1>1, ProbeStep, CheckCoreStep, CheckProductStep, FetchCoreStep, FetchProductStep,
       FetchPairStep, ImportStep, DiscardStep, SettleStep DEF Commands
  <1>2. CASE Installs
    BY <1>2, InstallEndsStep, InstallRecordedStep, InstallNotedStep DEF Installs
  <1>3. CASE Driver
    BY <1>3, TickOffStep, TickCheckStep, TickDueStep, TickNotDueStep, TickAwaitStep, RecheckStep,
       DriverInstallStep, DriverRebootStep, ChooseStep, ReadStagedStep, DeferredStep,
       DiscardStagedStep, NoRebootStep DEF Driver, PassSteps
  <1>4. CASE Operator
    BY <1>4, RequestOperationStep, RequestRebootStep, RejectPendingStep, RequestInstallStep,
       WriteConfigStep
       DEF Operator
  <1>5. CASE Outside
    BY <1>5, PublishStep, RestartStep, RebootStep, ConfirmStep, FailTrialStep DEF Outside
  <1>6. CASE UNCHANGED vars
    BY <1>6, AsideKeeps DEF vars, native, engine, tasks, EngInv, EngTypes, DoneInv
  <1> QED BY <1>1, <1>2, <1>3, <1>4, <1>5, <1>6 DEF Next

LEMMA EngImplies == EngInv => EngineSafe
  BY DEF EngInv, EngTypes, Slot, Kinds, Requesters, DriverState, Stages, Maybe, TypeOK, Machine, Install,
     Outcomes, EngineSafe

\* However commands fail, micad restarts, the source changes its mind and an operator
\* requests something in between: the driver awaits its own operation and no other, and
\* what is shown as ready to install is in verified/ (begin, settle_check, settle_fetch,
\* discard_descriptor, update_auto::drive), for any items, generations, policies and
\* workspace.
THEOREM EngineIsSafe == Spec => []EngineSafe
  BY EngStart, EngStep, EngImplies, PTL DEF Spec

--------------------------------------------------------------------------------
\* A step that is not the driver's leaves the driver alone, settles what it awaits, or
\* starts micad anew.
LEMMA OthersLeaveDriver ==
  ASSUME EngInv, Next, ~Driver, driver.at \notin Awaiting
  PROVE  driver' = driver \/ Afresh
  <1>1. CASE Commands
    <2>1. CASE Settle
      BY <2>1 DEF EngInv, AwaitsItsOwn, Awaiting, Settle
    <2>2. CASE ~Settle
      BY <1>1, <2>2 DEF Commands, Probe, CheckCore, CheckProduct, FetchCore, FetchProduct, FetchPair,
         Import, Discard, Command
    <2> QED BY <2>1, <2>2
  <1>2. CASE Installs
    BY <1>2 DEF Installs, InstallEnds, InstallRecorded, InstallNoted
  <1>3. CASE Operator
    BY <1>3 DEF Operator, RequestOperation, RequestReboot, RequestInstall, RejectPending, engine,
       WriteConfig, Requested
  <1>4. CASE Outside
    BY <1>4 DEF Publish, engine, Restart, Reboot, Confirm, FailTrial, Outside
  <1> QED BY <1>1, <1>2, <1>3, <1>4 DEF Next

\* The driver's own steps, from the two places the promises are about.
LEMMA DriverFromInstall ==
  ASSUME driver.at = "install", Driver
  PROVE  DriverInstall \/ driver' = Resting
  BY DEF Driver, PassSteps, TickOff, TickCheck, TickDue, TickNotDue, TickAwait, Tick, Recheck,
         DriverReboot, Choose, ReadStaged, Deferred, DiscardStaged, NoReboot

LEMMA NamedStep ==
  ASSUME EngInv, [Next]_vars
  PROVE  [driver.at = "install" /\ driver'.stage = "Installing"
            => install'.item \in history.named]_vars
  BY RestingIs, OthersLeaveDriver, DriverFromInstall, StartInstallIs DEF EngInv, DriverInv, Awaiting,
     Afresh, DriverInstall

LEMMA PendingStep ==
  ASSUME EngInv
  PROVE  driver.at = "reboot" => ~trial /\ (pending # None \/ history.declined)
  BY DEF EngInv, DriverInv, DoneInv

\* The driver installs only what the source named since its recheck began, however long
\* ago it was staged and whoever staged something else meanwhile, and it reboots the
\* machine only for something installed and not yet booted, which is pending unless the
\* operator rejected it in between (update_auto.rs: install_if_allowed, await_install,
\* reboot_if_allowed), for any items, generations, policies and workspace.
THEOREM DriverKeepsItsPromises == Spec => DriverPromises
  <1>1. EngInv /\ [Next]_vars
          => [driver.at = "install" /\ driver'.stage = "Installing"
                => install'.item \in history.named]_vars
    BY NamedStep
  <1>2. EngInv /\ [Next]_vars
          => [driver.at = "reboot" /\ driver' = Resting /\ driver.doc = "window"
                => ~trial /\ (pending # None \/ history.declined)]_vars
    BY PendingStep
  <1> QED BY <1>1, <1>2, EngStart, EngStep, PTL
          DEF Spec, DriverPromises, InstallsOnlyNamed, RebootsIntoPending
====
