---------------------------- MODULE Deployments -----------------------------
(***************************************************************************)
(* A device's deployments and core sets over its whole life: mica-deploy's *)
(* operations under the DATA transaction lock, the loader and the runkit's *)
(* boot, and power lost between any two durable steps.                     *)
(*                                                                         *)
(* One action is one durable step.  An operation's checks and its first    *)
(* durable step are one action, since the lock is held and nothing is      *)
(* written before; each later step is an action of its own, at the value   *)
(* of pc named after it.                                                   *)
(*                                                                         *)
(*   SYSTEM  descriptors, objects (roots and kernels), the set state,      *)
(*           the sets' envelopes and components                            *)
(*   DATA    deployments.json (state), set-trial.json (trial)              *)
(*   boot    records, the entries the loader reads; on FIT boards stale is *)
(*           the other redundant copy (RecordRegister)                     *)
(***************************************************************************)
EXTENDS DeploymentRules

CONSTANTS
  Backend,       \* "uefi", or "fit" for FIT records on a partition or UBI
  Factory,       \* the deployment the image ships
  FactorySet,    \* the core set the image ships
  ObjectsOf,     \* the roots and kernels a deployment names
  ComponentsOf   \* the components a set names

ASSUME DeviceAssumption ==
  /\ Backend \in {"uefi", "fit"}
  /\ Factory \in Deployments /\ FactorySet \in Sets
  /\ <<FactorySet, Factory>> \in Runs
  /\ DOMAIN ObjectsOf = Deployments /\ DOMAIN ComponentsOf = Sets

VARIABLES
  records, stale, state, sets, trial,
  descriptors, objects, envelopes, components,
  pc,      \* "off", the step of the boot or the operation, or "idle"
  booted,  \* the boot receipt's deployment, None when off
  core,    \* /run/mica/core.json: the set composed
  job,     \* what the operation under way holds in memory
  history  \* what happened, for the properties: no action reads it

durable == <<records, stale, state, sets, trial,
             descriptors, objects, envelopes, components>>
onSystem == <<descriptors, objects, envelopes, components>>
vars == <<durable, pc, booted, core, job, history>>

NoCore == [set |-> None, pending |-> FALSE, paired |-> FALSE]

NoJob == [state |-> NoState, deployment |-> None, set |-> None,
          writable |-> FALSE, over |-> FALSE, drop |-> {}]

(***************************************************************************)
(* history: the deployments DATA ever recorded as failed, the set each was *)
(* last confirmed with, and since the last installation the counted        *)
(* launches of each deployment and the boots of a set alone on trial;      *)
(* mixed, that a set alone was installed by a deployment not yet           *)
(* confirmed; crossed, that a settlement bound the deployment a pending    *)
(* set came with to another set; decayed, that a copy of the records did;  *)
(* unbound, that a set alone was installed and a binding dropped that only *)
(* the older copy of the records has a use for.                            *)
(***************************************************************************)
NoHistory == [failed |-> {},
              confirmedWith |-> [d \in Deployments |-> None],
              launches |-> [d \in Deployments |-> 0],
              trialBoots |-> 0,
              mixed |-> FALSE, crossed |-> FALSE, decayed |-> FALSE, unbound |-> FALSE]

\* A boot counted in the history, up to one more than is allowed.
Counted(n, allowed) == IF n > allowed THEN n ELSE n + 1

\* A device as it leaves the factory: one confirmed entry, its set, no DATA.
Init ==
  /\ records = [d \in {Factory} |-> None]
  /\ stale \in IF Backend = "fit" THEN {records, None} ELSE {None}
  /\ state = NoState
  /\ sets = [current |-> FactorySet, pending |-> None, pair |-> None, bound |-> [d \in {} |-> None]]
  /\ trial = NoTrial
  /\ descriptors = {Factory}
  /\ objects = ObjectsOf[Factory]
  /\ envelopes = {FactorySet}
  /\ components = ComponentsOf[FactorySet]
  /\ pc = "off"
  /\ booted = None
  /\ core = NoCore
  /\ job = NoJob
  /\ history = NoHistory

-----------------------------------------------------------------------------
(* Boot records *)

\* Faulty variant: the save goes back over the newest copy.
SaveRecordsInPlace(list) ==
  /\ records' = list
  /\ UNCHANGED stale

\* set_tries and save_records: one commit; FIT keeps the list it replaces in
\* the other copy.
SaveRecords(list) ==
  /\ records' = list
  /\ stale' = IF Backend = "fit" THEN records ELSE None

\* save_state.
SaveState(st) ==
  /\ state' = st
  /\ history' = [history EXCEPT !.failed = @ \cup Failed(st)]

\* retain_entries on FIT saves a second time, so that both copies forget.
AfterRetain(again, next) == IF Backend = "fit" THEN again ELSE next

\* validate_receipt: a FIT receipt must match a record.
ReceiptOk == Backend = "uefi" \/ booted \in DOMAIN records

-----------------------------------------------------------------------------
(* Boot: the loader (external), then the runkit as PID 1 *)

\* Faulty variant: launches without spending an attempt.
LoadUnspent ==
  LET usable == {d \in DOMAIN records : Usable(records, d)}
  IN
  /\ pc = "off"
  /\ usable # {}
  /\ booted' = Newest(usable)
  /\ pc' = "init"
  /\ UNCHANGED <<records, stale, history, state, sets, trial, onSystem, core, job>>

\* The loader takes the newest usable entry and spends an attempt of it before
\* it launches anything.
Load ==
  LET usable == {d \in DOMAIN records : Usable(records, d)}
      d == Newest(usable)
  IN
  /\ pc = "off"
  /\ usable # {}
  /\ IF records[d] = None
     THEN UNCHANGED <<records, stale, history>>
     ELSE /\ SaveRecords([records EXCEPT ![d] = @ - 1])
          /\ history' = [history EXCEPT !.launches[d] = Counted(@, Attempts)]
  /\ booted' = d
  /\ pc' = "init"
  /\ UNCHANGED <<state, sets, trial, onSystem, core, job>>

\* The set is on SYSTEM whole and selects on the root of d.
SetUsable(s, d) ==
  /\ s \in envelopes /\ ComponentsOf[s] \subseteq components
  /\ <<s, d>> \in Runs

\* What the runkit composes over d, with or without spending a boot of a set
\* alone (an unspendable one is passed over).
Composed(d, tried) ==
  LET usable(s) == SetUsable(s, d)
  IN Composition(sets, tried, d, usable)

\* The deployment verifies and the runkit composes its set; one boot of a set
\* alone is spent first, and a set that cannot be spent is not tried.
Compose(spends) ==
  LET tried == IF spends THEN trial ELSE NoTrial
      found == Composed(booted, tried)
      alone == found.pending /\ ~found.paired
  IN
  /\ pc = "init"
  /\ booted \in descriptors /\ ObjectsOf[booted] \subseteq objects
  /\ SetStateOk(sets) /\ found.ok
  /\ trial' = IF spends THEN SpentTrial(sets, trial, booted) ELSE trial
  /\ core' = [set |-> found.set, pending |-> found.pending, paired |-> found.paired]
  /\ history' = IF alone THEN [history EXCEPT !.trialBoots = Counted(@, TrialAttempts)]
                ELSE history
  /\ pc' = "composed"
  /\ UNCHANGED <<records, stale, state, sets, onSystem, booted, job>>

\* The root starts: the running system may now run operations.
Start ==
  /\ pc = "composed"
  /\ pc' = "idle"
  /\ UNCHANGED <<durable, booted, core, job, history>>

\* The machine stops: what is not durable is gone.
PowerOff ==
  /\ pc' = "off"
  /\ booted' = None
  /\ core' = NoCore
  /\ job' = NoJob

\* The boot is refused before the root runs. A set alone on trial is the set's
\* failure; otherwise a confirmed deployment is retired if another can boot.
BootFails ==
  /\ pc \in {"init", "composed"}
  /\ IF ~(core.pending /\ ~core.paired) /\ Retires(records, booted)
     THEN SaveRecords([records EXCEPT ![booted] = 0])
     ELSE UNCHANGED <<records, stale>>
  /\ PowerOff
  /\ UNCHANGED <<state, sets, trial, onSystem, history>>

\* Power is lost or the machine reboots; a save of the records under way may
\* have torn the copy it was writing.
Crash ==
  /\ pc # "off"
  /\ PowerOff
  /\ stale' \in {stale, None}
  /\ UNCHANGED <<records, state, sets, trial, onSystem, history>>

\* The newest copy of the records decays while the device is off, once.
Decay ==
  /\ pc = "off" /\ stale # None /\ ~history.decayed
  /\ records' = stale
  /\ stale' = None
  /\ history' = [history EXCEPT !.decayed = TRUE]
  /\ UNCHANGED <<state, sets, trial, onSystem, pc, booted, core, job>>

-----------------------------------------------------------------------------
(* confirm, which the health gate runs in a healthy boot *)

\* The refusals, then the uncounted entry: the durable confirmation fact.
\* Whether SYSTEM is made writable for the sets is decided here, before.
Confirm ==
  /\ pc = "idle"
  /\ SetStateOk(sets)
  /\ ConfirmOk(records, state, booted)
  /\ job' = [NoJob EXCEPT
       !.state = ConfirmedState(records, state, booted),
       !.writable = Settlement(sets, trial, records, booted, core.set) # sets]
  /\ IF records[booted] = None THEN UNCHANGED <<records, stale>>
     ELSE SaveRecords([records EXCEPT ![booted] = None])
  /\ pc' = "confirm.state"
  /\ UNCHANGED <<state, sets, trial, onSystem, booted, core, history>>

ConfirmState ==
  /\ pc = "confirm.state"
  /\ SaveState(job.state)
  /\ pc' = "confirm.retain"
  /\ UNCHANGED <<records, stale, sets, trial, onSystem, booted, core, job>>

ConfirmRetain ==
  /\ pc = "confirm.retain"
  /\ SaveRecords(Restrict(records, DOMAIN records \cap Retained(job.state)))
  /\ pc' = AfterRetain("confirm.again", "settle")
  /\ UNCHANGED <<state, sets, trial, onSystem, booted, core, job, history>>

ConfirmAgain ==
  /\ pc = "confirm.again"
  /\ SaveRecords(records)
  /\ pc' = "settle"
  /\ UNCHANGED <<state, sets, trial, onSystem, booted, core, job, history>>

\* settle_sets: one write moves the sets and the bindings together.  It fails
\* when SYSTEM was not made writable for it.
Settle ==
  LET settled == Settlement(sets, trial, records, booted, core.set)
      kind == SettlementKind(sets, trial, records, booted, core.set)
  IN
  /\ pc = "settle"
  /\ SetStateOk(sets)
  /\ settled # sets => job.writable
  /\ sets' = settled
  /\ history' = [history EXCEPT !.confirmedWith[booted] = core.set,
                                !.crossed = @ \/ Paired(sets) \in DOMAIN settled.bound]
  /\ IF settled = sets THEN pc' = "idle" /\ job' = NoJob
     ELSE /\ pc' = "settle.trial"
          /\ job' = [job EXCEPT !.over = kind # "unchanged",
                                !.drop = NamedSets(sets) \ NamedSets(settled)]
  /\ UNCHANGED <<records, stale, state, trial, onSystem, booted, core>>

\* end_trial, when the pending set was committed or dropped.
SettleTrial ==
  /\ pc = "settle.trial"
  /\ trial' = IF job.over THEN NoTrial ELSE trial
  /\ pc' = "settle.release"
  /\ UNCHANGED <<records, stale, state, sets, onSystem, booted, core, job, history>>

\* The envelope of a set nothing names any more.
SettleEnvelope(s) ==
  /\ pc = "settle.release"
  /\ s \in job.drop
  /\ envelopes' = envelopes \ {s}
  /\ job' = [job EXCEPT !.drop = @ \ {s}]
  /\ UNCHANGED <<records, stale, state, sets, trial, descriptors, objects,
                 components, pc, booted, core, history>>

\* The components the sets the state names need (held_components).
HeldComponents == UNION {ComponentsOf[s] : s \in NamedSets(sets)}

\* release_unreferenced.
SettleComponents ==
  /\ pc = "settle.release"
  /\ job.drop = {}
  /\ NamedSets(sets) \subseteq envelopes
  /\ components' = components \cap HeldComponents
  /\ pc' = "idle"
  /\ job' = NoJob
  /\ UNCHANGED <<records, stale, state, sets, trial, descriptors, objects,
                 envelopes, booted, core, history>>

-----------------------------------------------------------------------------
(* fail-boot, reject and rollback *)

\* The health gate's other verdict; the reboot that follows is a Crash.
FailBoot ==
  /\ pc = "idle"
  /\ ~(core.pending /\ ~core.paired)
  /\ ReceiptOk
  /\ Retires(records, booted)
  /\ SaveRecords([records EXCEPT ![booted] = 0])
  /\ UNCHANGED <<state, sets, trial, onSystem, pc, booted, core, job, history>>

\* reject: the entry is spent first, then DATA says so.
RejectEntry(d) ==
  /\ RejectOk(records, state, d)
  /\ IF records[d] = 0 THEN UNCHANGED <<records, stale>>
     ELSE SaveRecords([records EXCEPT ![d] = 0])
  /\ job' = [NoJob EXCEPT !.state = RejectedState(records, state, d)]
  /\ pc' = "reject.state"
  /\ UNCHANGED <<state, sets, trial, onSystem, booted, core, history>>

Reject(d) ==
  /\ pc = "idle"
  /\ RejectEntry(d)

Rollback ==
  /\ pc = "idle"
  /\ ReceiptOk
  /\ RollbackOk(records, state, booted)
  /\ RejectEntry(booted)

RejectState ==
  /\ pc = "reject.state"
  /\ SaveState(job.state)
  /\ pc' = "idle"
  /\ job' = NoJob
  /\ UNCHANGED <<records, stale, sets, trial, onSystem, booted, core>>

-----------------------------------------------------------------------------
(* install: a new deployment, alone or paired with a core set *)

\* The refusals, in the order of the code, before anything is written.
InstallOk(d, latest, choice) ==
  LET effective == EffectiveState(records, state) IN
  /\ EffectiveOk(records, state)
  /\ d \notin DOMAIN records \cup Failed(effective)
  /\ effective.candidate = None
  /\ SetStateOk(sets)
  /\ choice \in CoreChoices(sets, d, latest)
  /\ sets.current \in envelopes
  /\ ReceiptOk
  /\ effective.current = booted
  /\ booted \in DOMAIN records /\ records[booted] = None
  /\ booted \notin Failed(effective)
  /\ Generation[d] > effective.highest
  /\ \A e \in DOMAIN records : Generation[d] > Generation[e]
  /\ booted \in descriptors

\* Old B becomes unbootable before any new byte is written.
Install(d, latest, choice) ==
  /\ pc = "idle"
  /\ InstallOk(d, latest, choice)
  /\ SaveRecords(Restrict(records, {booted}))
  /\ job' = [NoJob EXCEPT
       !.state = [EffectiveState(records, state) EXCEPT
                    !.fallback = None, !.candidate = None],
       !.deployment = d,
       !.set = choice]
  /\ pc' = AfterRetain("install.again", "install.state")
  /\ UNCHANGED <<state, sets, trial, onSystem, booted, core, history>>

InstallAgain ==
  /\ pc = "install.again"
  /\ SaveRecords(records)
  /\ pc' = "install.state"
  /\ UNCHANGED <<state, sets, trial, onSystem, booted, core, job, history>>

InstallState ==
  /\ pc = "install.state"
  /\ SaveState(job.state)
  /\ pc' = "install.collect"
  /\ UNCHANGED <<records, stale, sets, trial, onSystem, booted, core, job>>

\* Collection::apply removes objects before descriptors; the incoming
\* deployment's objects stay, its descriptor is written again.
InstallCollect ==
  /\ pc = "install.collect"
  /\ objects' = objects \cap (ObjectsOf[booted] \cup ObjectsOf[job.deployment])
  /\ pc' = "install.forget"
  /\ UNCHANGED <<records, stale, state, sets, trial, descriptors, envelopes,
                 components, booted, core, job, history>>

InstallForget ==
  /\ pc = "install.forget"
  /\ descriptors' = descriptors \cap {booted}
  /\ pc' = "install.objects"
  /\ UNCHANGED <<records, stale, state, sets, trial, objects, envelopes,
                 components, booted, core, job, history>>

InstallObjects ==
  /\ pc = "install.objects"
  /\ objects' = objects \cup ObjectsOf[job.deployment]
  /\ pc' = "install.descriptor"
  /\ UNCHANGED <<records, stale, state, sets, trial, descriptors, envelopes,
                 components, booted, core, job, history>>

InstallDescriptor ==
  /\ pc = "install.descriptor"
  /\ descriptors' = descriptors \cup {job.deployment}
  /\ pc' = IF job.set = None THEN "install.sets" ELSE "install.components"
  /\ UNCHANGED <<records, stale, state, sets, trial, objects, envelopes,
                 components, booted, core, job, history>>

\* publish_set: the components, then the envelope that names them.
PublishComponents(from, to, s) ==
  /\ pc = from
  /\ components' = components \cup ComponentsOf[s]
  /\ pc' = to
  /\ UNCHANGED <<records, stale, state, sets, trial, descriptors, objects,
                 envelopes, booted, core, history>>

PublishEnvelope(from, to) ==
  /\ pc = from
  /\ envelopes' = envelopes \cup {job.set}
  /\ pc' = to
  /\ UNCHANGED <<records, stale, state, sets, trial, descriptors, objects,
                 components, booted, core, job, history>>

InstallComponents ==
  /\ PublishComponents("install.components", "install.envelope", job.set)
  /\ UNCHANGED job

InstallEnvelope == PublishEnvelope("install.envelope", "install.sets")

\* The new deployment's set is named before its entry exists.
InstallSets ==
  /\ pc = "install.sets"
  /\ sets' = [sets EXCEPT
       !.pair = IF job.set = None THEN None ELSE job.deployment,
       !.pending = IF job.set = None THEN @ ELSE job.set,
       !.bound = Restrict(@, DOMAIN @ \cap {booted})]
  /\ pc' = "install.entry"
  /\ UNCHANGED <<records, stale, state, trial, onSystem, booted, core, job, history>>

\* The entry is the activation commit.
InstallEntry ==
  /\ pc = "install.entry"
  /\ SaveRecords(Merge([d \in {job.deployment} |-> Attempts], records))
  /\ history' = [history EXCEPT !.launches[job.deployment] = 0]
  /\ pc' = "install.done"
  /\ UNCHANGED <<state, sets, trial, onSystem, booted, core, job>>

InstallDone ==
  /\ pc = "install.done"
  /\ SaveState([job.state EXCEPT !.highest = Generation[job.deployment],
                                 !.candidate = job.deployment])
  /\ pc' = "idle"
  /\ job' = NoJob
  /\ UNCHANGED <<records, stale, sets, trial, onSystem, booted, core>>

-----------------------------------------------------------------------------
(* set-install: a core set alone, on a trial of its own *)

InstallSetOk(s) ==
  /\ EffectiveOk(records, state)
  /\ EffectiveState(records, state).candidate = None
  /\ SetStateOk(sets)
  /\ sets.pending = None
  /\ sets.current # s
  /\ sets.current # None =>
       /\ sets.current \in envelopes
       /\ \/ Channel[sets.current] # Channel[s]
          \/ SetGeneration[s] > SetGeneration[sets.current]
  /\ <<s, booted>> \in Runs

InstallSet(s) ==
  /\ InstallSetOk(s)
  /\ PublishComponents("idle", "set.envelope", s)
  /\ job' = [NoJob EXCEPT !.set = s]

SetEnvelope == PublishEnvelope("set.envelope", "set.trial")

\* The trial first: a pending set with no trial is never tried.
SetTrial ==
  /\ pc = "set.trial"
  /\ trial' = [id |-> job.set, left |-> TrialAttempts]
  /\ history' = [history EXCEPT !.trialBoots = 0,
                                !.mixed = @ \/ records[booted] # None]
  /\ pc' = "set.state"
  /\ UNCHANGED <<records, stale, state, sets, onSystem, booted, core, job>>

SetPending ==
  LET retained == RetainedDeployments(records, None) IN
  /\ pc = "set.state"
  /\ sets' = [sets EXCEPT
       !.pair = None,
       !.pending = job.set,
       !.bound = Restrict(@, DOMAIN @ \cap retained)]
  /\ history' = [history EXCEPT !.unbound =
       @ \/ (stale # None /\ \E d \in DOMAIN sets.bound \ retained : Usable(stale, d))]
  /\ pc' = "idle"
  /\ job' = NoJob
  /\ UNCHANGED <<records, stale, state, trial, onSystem, booted, core>>

-----------------------------------------------------------------------------
(* gc *)

\* Every deployment a collection keeps: the running one, what the state names
\* and every entry.
Kept ==
  LET effective == EffectiveState(records, state)
  IN {booted} \cup Retained(effective) \cup DOMAIN records

\* collect: the records are saved again, twice on FIT, before anything goes.
Gc ==
  /\ pc = "idle"
  /\ EffectiveOk(records, state)
  /\ ReceiptOk
  /\ Kept \subseteq descriptors
  /\ IF Backend = "fit" THEN SaveRecords(records) ELSE UNCHANGED <<records, stale>>
  /\ job' = [NoJob EXCEPT !.drop = descriptors \ Kept]
  /\ pc' = AfterRetain("gc.again", "gc.collect")
  /\ UNCHANGED <<state, sets, trial, onSystem, booted, core, history>>

GcAgain ==
  /\ pc = "gc.again"
  /\ SaveRecords(records)
  /\ pc' = "gc.collect"
  /\ UNCHANGED <<state, sets, trial, onSystem, booted, core, job, history>>

GcCollect ==
  /\ pc = "gc.collect"
  /\ objects' = objects \cap UNION {ObjectsOf[d] : d \in descriptors \ job.drop}
  /\ pc' = "gc.forget"
  /\ UNCHANGED <<records, stale, state, sets, trial, descriptors, envelopes,
                 components, booted, core, job, history>>

GcForget ==
  /\ pc = "gc.forget"
  /\ descriptors' = descriptors \ job.drop
  /\ pc' = "idle"
  /\ job' = NoJob
  /\ UNCHANGED <<records, stale, state, sets, trial, objects, envelopes,
                 components, booted, core, history>>

\* An operation fails in the middle (I/O, space): the command returns an
\* error, what was committed stays, and the system runs on.
Abort ==
  /\ pc \notin {"off", "init", "composed", "idle"}
  /\ pc' = "idle"
  /\ job' = NoJob
  /\ UNCHANGED <<durable, booted, core, history>>

-----------------------------------------------------------------------------
ConfirmSteps ==
  \/ Confirm \/ ConfirmState \/ ConfirmRetain \/ ConfirmAgain
  \/ Settle \/ SettleTrial \/ SettleComponents
  \/ \E s \in Sets : SettleEnvelope(s)

InstallSteps ==
  \/ \E d \in Deployments, latest, choice \in Sets \cup {None} :
       Install(d, latest, choice)
  \/ InstallAgain \/ InstallState \/ InstallCollect \/ InstallForget
  \/ InstallObjects \/ InstallDescriptor \/ InstallComponents
  \/ InstallEnvelope \/ InstallSets \/ InstallEntry \/ InstallDone

SetSteps ==
  \/ \E s \in Sets : InstallSet(s)
  \/ SetEnvelope \/ SetTrial \/ SetPending

OperatorSteps ==
  \/ FailBoot \/ Rollback \/ RejectState
  \/ \E d \in Deployments : Reject(d)
  \/ Gc \/ GcAgain \/ GcCollect \/ GcForget

BootSteps ==
  \/ Load
  \/ \E spends \in BOOLEAN : Compose(spends)
  \/ Start
  \/ BootFails

Next ==
  \/ BootSteps \/ ConfirmSteps \/ InstallSteps \/ SetSteps \/ OperatorSteps
  \/ Abort \/ Crash \/ Decay

Spec == Init /\ [][Next]_vars

(***************************************************************************)
(* Fairness: the loader and the runkit run; an operation under way ends;   *)
(* and the boot health gate (external) gives its verdict on every boot     *)
(* that stays up, however busy the store is: it confirms, or it reboots.   *)
(***************************************************************************)
\* An operation holds the transaction lock: a second one is refused.
Operation == pc \notin {"off", "init", "composed", "idle"}

HealthVerdict == pc = "idle" /\ (Confirm \/ Crash)

FairSpec ==
  /\ Spec
  /\ WF_vars(BootSteps)
  /\ WF_vars(Operation /\ Next)
  /\ SF_vars(HealthVerdict)

-----------------------------------------------------------------------------
(* What micad reads of the store while no operation is under way, what it    *)
(* tells the operator of it and which requests it passes on.                 *)

\* describe and sets_status load what they name: mica-deploy status answers
\* only when every entry's descriptor and every named set is on SYSTEM.
Described == DOMAIN records \subseteq descriptors

SetsDescribed == SetStateOk(sets) /\ NamedSets(sets) \subseteq envelopes

\* Status: the receipt's deployment, the effective state, the entries with the
\* attempts left, the held sets and what the runkit composed.
Status == [boot |-> booted, state |-> EffectiveState(records, state),
           deployments |-> records,
           current |-> sets.current, pending |-> sets.pending, composed |-> core.set]

\* Status::parse accepts it: generations tell the deployments apart, the running
\* one is there and the state names no other.
Parses(status) ==
  /\ \A d, e \in DOMAIN status.deployments : Generation[d] = Generation[e] => d = e
  /\ status.boot \in DOMAIN status.deployments
  /\ Retained(status.state) \subseteq DOMAIN status.deployments

StatusServed == EffectiveOk(records, state) /\ Described /\ SetsDescribed /\ Parses(Status)

\* CoreStatus::phase, for a pending set.
CorePhase(status) ==
  IF status.composed = status.pending THEN "validating" ELSE "reboot-required"

\* Status::phase.
Phase(status) ==
  LET running == status.boot
      st == status.state
  IN CASE status.pending # None -> CorePhase(status)
       [] status.pending = None /\ running \in Failed(st) -> "reboot-required"
       [] status.pending = None /\ running \notin Failed(st) /\ st.candidate # None ->
            IF st.candidate = running THEN "validating" ELSE "reboot-required"
       [] OTHER ->
            IF st.current # running THEN "validating"
            ELSE IF Generation[running] < st.highest /\ Failed(st) # {} THEN "rolled-back"
            ELSE "succeeded"

\* Option::None is none of the reasons.
ASSUME RefusalAssumption ==
  None \notin {"candidate_pending", "running_not_confirmed", "no_usable_fallback"}

\* Status::rollback: the reason it is refused, or None.
RollbackRefused(status) ==
  LET running == status.boot
      st == status.state
      usable == Usable(status.deployments, st.fallback)
  IN IF st.candidate # None THEN "candidate_pending"
     ELSE IF st.current # running \/ running \in Failed(st) THEN "running_not_confirmed"
     ELSE IF st.fallback \in Failed(st) \cup {None, running} \/ ~usable
       THEN "no_usable_fallback"
     ELSE None

\* request_deployment_action: confirm and rollback must name the running one.
ActionPasses(action, d) == StatusServed /\ (action # "reject" => d = booted)

\* POST update/rollback goes through: the verdict permits it and micad passes
\* the running deployment on.
RollbackAsked == RollbackRefused(Status) = None /\ ActionPasses("rollback", booted)

-----------------------------------------------------------------------------
(* Properties *)

Pcs == {"off", "init", "composed", "idle",
        "confirm.state", "confirm.retain", "confirm.again",
        "settle", "settle.trial", "settle.release", "reject.state",
        "install.again", "install.state", "install.collect", "install.forget",
        "install.objects", "install.descriptor", "install.components",
        "install.envelope", "install.sets", "install.entry", "install.done",
        "set.envelope", "set.trial", "set.state",
        "gc.again", "gc.collect", "gc.forget"}

Tries == 0..Attempts \cup {None}

IsRecords(list) ==
  /\ DOMAIN list \subseteq Deployments
  /\ Cardinality(DOMAIN list) \in 1..2
  /\ \A d \in DOMAIN list : list[d] \in Tries

IsState(st) ==
  /\ st.highest \in Nat
  /\ {st.current, st.fallback, st.candidate} \subseteq Deployments \cup {None}
  /\ Failed(st) \subseteq Deployments /\ Len(st.failed) <= MaxFailed

\* One or two boot entries at any time, the state, the set state and the trial
\* of the shape their readers accept.
TypeOK ==
  /\ IsRecords(records)
  /\ stale # None => IsRecords(stale)
  /\ IsState(state) /\ IsState(job.state)
  /\ {sets.current, sets.pending} \subseteq Sets \cup {None}
  /\ sets.pair \in Deployments \cup {None}
  /\ DOMAIN sets.bound \subseteq Deployments /\ Range(sets.bound) \subseteq Sets
  /\ trial.id \in Sets \cup {None} /\ trial.left \in 0..TrialAttempts
  /\ descriptors \subseteq Deployments /\ envelopes \subseteq Sets
  /\ pc \in Pcs
  /\ booted \in Deployments \cup {None} /\ (booted = None <=> pc = "off")

\* The descriptor and the objects of d are on SYSTEM.
Stored(d) == d \in descriptors /\ ObjectsOf[d] \subseteq objects

\* The set the runkit must compose over d is there whole and runs on its root.
\* Which set that is may be wrong once a binding was dropped (mixed) or given
\* (crossed) that d needs.
Composes(d) ==
  history.mixed \/ history.crossed \/ (Composed(d, trial).ok /\ Composed(d, NoTrial).ok)

\* The store asks of the boot records what RecordRegister promises and no more:
\* BootEnvironment, which implements the register, can stand in its place.
Register == INSTANCE RecordRegister WITH
  Lists <- UNION {[ds -> Tries] : ds \in {ds \in SUBSET Deployments :
                                            Cardinality(ds) \in 1..2}},
  value <- records,
  previous <- stale

RecordsAreRegister == Register!Spec

\* Every entry the loader could take - now, or after the newer copy of the
\* records decays - names a deployment the runkit can boot, whatever operation
\* was interrupted and wherever.  On FIT "both redundant copies must forget
\* retired records" (deployments.rs retain_entries) before what they need goes,
\* also when an operation ends between the two saves; only set-install drops a
\* binding without a look at the older copy (unbound).
EntriesBoot ==
  /\ \A d \in DOMAIN records : Usable(records, d) =>
       Stored(d) /\ ((history.decayed /\ history.unbound) \/ Composes(d))
  /\ (stale # None /\ ~history.decayed) =>
       \A d \in DOMAIN stale : Usable(stale, d) => Stored(d) /\ (history.unbound \/ Composes(d))

HasConfirmed(list) == \E d \in DOMAIN list : list[d] = None

\* No interruption and no operation costs the device its last confirmed entry:
\* only a verdict on that entry does (the health gate's, the runkit's or the
\* operator's), taken while another entry has a boot left, or the loss of the
\* copy of the records that had it.
ConfirmedKept ==
  [][HasConfirmed(records) /\ ~HasConfirmed(records') /\ ~(history'.decayed /\ ~history.decayed) =>
       \E d \in DOMAIN records \cap DOMAIN records' :
         /\ records[d] = None /\ records'[d] = 0
         /\ OtherUsable(records', d)]_vars

\* The readers never refuse what the writers left: the confirmed deployment
\* has an entry, the pending set is not the current one, at most two are
\* bound, and every set the state names can be loaded.
StateReadable ==
  /\ EffectiveOk(records, state)
  /\ SetStateOk(sets)
  /\ Cardinality(DOMAIN sets.bound) <= 2
  /\ NamedSets(sets) \subseteq envelopes

\* A boot that is not a trial composes the set its deployment was last
\* confirmed with: "a failed trial boots the previous deployment with the set
\* it ran" (docs/mica-core.md 6.2).
BootsConfirmedSet ==
  (pc = "composed" /\ ~core.pending) =>
     history.confirmedWith[booted] \in {None, core.set}

\* The same on a device that never installs a set alone by a deployment not yet
\* confirmed, never confirms an older boot while a pair waits for its own, and
\* does not boot from an older copy of the records whose binding is gone.
BootsConfirmedSetApart ==
  \/ history.mixed \/ history.crossed \/ (history.decayed /\ history.unbound)
  \/ BootsConfirmedSet

\* Per installation a deployment is launched on trial at most Attempts times and
\* a set alone composed at most TrialAttempts times, whatever is interrupted:
\* an attempt is spent before the boot it pays for and never given back.
TrialsBounded ==
  /\ \A d \in Deployments : history.launches[d] <= Attempts
  /\ history.trialBoots <= TrialAttempts

\* settle_sets writes SYSTEM only when sets_need_settling, asked before
\* confirm changed the records, had it mounted writable.  Excused are records
\* that came back with an entry DATA knows a verdict on: confirm drops it, and
\* the next confirmation settles its binding.
SettleWritable ==
  /\ pc = "settle" /\ ~history.decayed
  /\ Settlement(sets, trial, records, booted, core.set) # sets
  => job.writable

\* A deployment DATA recorded as failed never has a boot again, even once the
\* bounded list of failed ids has forgotten it: then the generation floor
\* refuses it.
RejectedNeverReturns ==
  \A d \in history.failed : ~Usable(records, d)

\* What settlement says of a boot of the pending set: "a pending set booted
\* becomes current" (deployments/sets.rs settlement).
PendingBootedBecomesCurrent ==
  [][pc = "settle" /\ core.set # None /\ core.set = sets.pending /\ sets' # sets
       => sets'.current = core.set]_vars

\* A trial that has begun ends: once a deployment with attempts left is booted,
\* it is confirmed, rejected or replaced, or its attempts run out, even if
\* every boot of it is interrupted.
TrialEnds ==
  \A d \in Deployments :
    LET onTrial == d \in DOMAIN records /\ records[d] \notin {None, 0}
    IN (booted = d /\ onTrial) ~> ~onTrial

\* With no operation under way micad can read the store, however the last one
\* ended; the rollback it offers is one mica-deploy then accepts, and it offers
\* every such one ("The native backend revalidates this operation under its
\* transaction lock", update_api/deployment.rs); and what it says of the running
\* deployment is what the loader will do: a settled one boots again, one that
\* awaits a reboot does not.  The loss of the newer copy of the records on FIT is
\* excepted: then DATA knows verdicts that the records have forgotten.
ReportsHold ==
  (pc = "idle" /\ ~history.decayed) =>
    LET next == Newest({d \in DOMAIN records : Usable(records, d)})
        phase == Phase(Status)
    IN
    /\ StatusServed
    /\ RollbackAsked <=> /\ ReceiptOk /\ RollbackOk(records, state, booted)
                         /\ RejectOk(records, state, booted)
    /\ phase \in {"succeeded", "rolled-back"} => next = booted
    /\ (phase = "reboot-required" /\ sets.pending = None) => next # booted

\* What the store holds through every interruption, also when the newer copy of
\* the boot records is lost with it: every entry boots, its readers accept the
\* state, what a settlement has to write can be written and micad's reports hold.
EntriesSafe == TypeOK /\ EntriesBoot /\ StateReadable /\ SettleWritable /\ ReportsHold

\* What an interruption, a failing operation or a rejected release may never do
\* to the store: leave an entry that does not boot, a state that its readers
\* refuse, a boot with another set than its own, a trial that goes on past its
\* attempts or a rejected release that comes back.  The last two are said of a
\* device that lost no copy of its records: the older copy of a FIT board gives
\* back the attempt, and the entry, that the newer one had spent.
StoreSafe ==
  /\ EntriesSafe /\ BootsConfirmedSetApart
  /\ history.decayed \/ (TrialsBounded /\ RejectedNeverReturns)

=============================================================================
