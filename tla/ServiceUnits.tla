---- MODULE ServiceUnits ----
(***************************************************************************)
(* The reconcilers of micad that converge a service of the system to its   *)
(* settings (crates/micad/src/reconciler, user_units.rs): sshd, the web    *)
(* console, the time client, the MQTT broker, the container service, the   *)
(* resolver, ifupdown and a service the user declared.  Each renders a     *)
(* file from the settings and then asks the service manager to start,      *)
(* restart or stop the unit that reads it.  All of them run under micad's  *)
(* one apply lock, on a copy of the settings taken when the apply begins,  *)
(* so one apply at a time is what the model has.                           *)
(*                                                                         *)
(* An apply is the list of steps its reconciler goes through; every call   *)
(* to the service manager may fail, or time out after it took effect, and  *)
(* micad may die between two steps.                                        *)
(***************************************************************************)
EXTENDS Integers, Sequences

CONSTANTS
    SvcKinds,     \* the reconcilers an instance has; one of them is run
    SvcCfgs,      \* what the settings can make the rendered file say
    NoCfg,        \* no file rendered, nothing running
    SvcWrites,    \* bound: how often the settings are written
    SvcFaults     \* bound: failed calls, deaths, crashes of the unit, power cuts

\* The eight reconcilers that are modelled; no file says what no file is.
ASSUME ServiceAssumption ==
    /\ SvcKinds \subseteq {"sshd", "web", "time", "mqtt", "container", "dns", "ifupdown", "user"}
    /\ NoCfg \notin SvcCfgs

VARIABLES
    svcKind,      \* which reconciler this is
    want,         \* the settings: whether the service is on, what its file says
    unitFile,     \* the rendered file
    unit,         \* the unit: its state, and the file it was started with
    listed,       \* the unit is in the list of units the next boot starts
    noted,        \* a user's service in micad's record: "none", or "off" or "on"
    svcMembers,   \* the containers of the declared projects run
    svcJob,       \* the apply under way
    svcWaiting,   \* a written setting has not been applied yet
    svcRetrying,  \* the startup apply has not succeeded yet
    svcOutcome,   \* what the last apply reported
    missed,       \* something failed since the unit was last seen to start
    svcUsed       \* how much of the bounds is used

svcVars == <<svcKind, want, unitFile, unit, listed, noted, svcMembers, svcJob, svcWaiting,
             svcRetrying, svcOutcome, missed, svcUsed>>

NoSvcJob == [begun |-> FALSE, steps |-> << >>, on |-> FALSE, cfg |-> NoCfg,
             changed |-> FALSE, started |-> FALSE, late |-> FALSE]

UnitActive == unit.state = "active"
UnitStopped == [state |-> "inactive", runs |-> NoCfg]

----------------------------------------------------------------------------
(* What each reconciler does, in order.                                    *)

\* The unit runs while its setting is on; "run" restarts it for a changed file,
\* clears a failed one, and starts a stopped one.
SshdApply(on) == <<"render", IF on THEN "run" ELSE "halt">>

WebApply(on) == <<"render", IF on THEN "run" ELSE "halt">>

\* The time client always runs.
TimeApply == <<"render", "run">>

\* The broker is put on the list before it is started, and a refused start is
\* only logged.
MqttApply(on) ==
    <<"render">> \o IF on THEN <<"enable", "runOrWarn">> ELSE <<"halt", "disable">>

\* The containers are started only when this apply started the service, and are
\* stopped before the service is.
ContainerApply(on) ==
    IF on THEN <<"enable", "launch", "ready", "members">>
          ELSE <<"drain", "halt", "disable">>

\* The resolver reads the file it is restarted for.
DnsApply == <<"render", "reload">>

\* ifdown, the new file, ifup: nothing when the file already says it.
IfupdownApply == <<"down", "render", "up">>

\* A user's service: installed, linked, then started, restarted or stopped by
\* what the record says it was.  One that is declared no more, and that the
\* record names, is removed.
UserUnitApply(w) ==
    IF w.cfg = NoCfg THEN <<"remove">>
    ELSE <<"render", IF w.on THEN "enable" ELSE "disable", "act">>

StepsOf(w) ==
    CASE svcKind = "sshd"      -> SshdApply(w.on)
      [] svcKind = "web"       -> WebApply(w.on)
      [] svcKind = "time"      -> TimeApply
      [] svcKind = "mqtt"      -> MqttApply(w.on)
      [] svcKind = "container" -> ContainerApply(w.on)
      [] svcKind = "dns"       -> DnsApply
      [] svcKind = "ifupdown"  -> IfupdownApply
      [] OTHER                 -> UserUnitApply(w)

\* What the settings can say: only a user's service can be declared no more.
Wants == [on : BOOLEAN, cfg : SvcCfgs]
         \union IF svcKind = "user" THEN {[on |-> FALSE, cfg |-> NoCfg]} ELSE {}

\* The kinds whose service has no switch of its own.
AlwaysOn == {"time", "dns", "ifupdown"}
SvcWanted == want.on \/ svcKind \in AlwaysOn

----------------------------------------------------------------------------
(* The settings and the applies.                                           *)

\* A write stores the settings and leaves their apply to the worker.
SvcWrite ==
    /\ svcUsed.writes < SvcWrites
    /\ want' \in Wants \ {want}
    /\ svcWaiting' = TRUE
    /\ svcUsed' = [svcUsed EXCEPT !.writes = @ + 1]
    /\ UNCHANGED <<svcKind, unitFile, unit, listed, noted, svcMembers, svcJob, svcRetrying,
                   svcOutcome, missed>>

\* The apply begins: the settings are copied.
SvcBegin ==
    /\ svcJob = NoSvcJob
    /\ svcJob' = [NoSvcJob EXCEPT !.begun = TRUE, !.steps = StepsOf(want),
                                  !.on = want.on, !.cfg = want.cfg]
    /\ UNCHANGED <<svcKind, want, unitFile, unit, listed, noted, svcMembers, svcOutcome, missed,
                   svcUsed>>

\* The queue's worker applies what was written.
WorkerApply == svcWaiting /\ svcWaiting' = FALSE /\ SvcBegin /\ UNCHANGED svcRetrying

\* The startup apply of a reconciler that starts services, and its retries.
DeferredRun == svcRetrying /\ SvcBegin /\ UNCHANGED <<svcWaiting, svcRetrying>>

\* The retries stop after five minutes.
DeferredEnd ==
    /\ svcRetrying /\ svcJob = NoSvcJob /\ svcOutcome = "failed"
    /\ svcRetrying' = FALSE
    /\ UNCHANGED <<svcKind, want, unitFile, unit, listed, noted, svcMembers, svcJob, svcWaiting,
                   svcOutcome, missed, svcUsed>>

----------------------------------------------------------------------------
(* One step of the apply.                                                  *)

SvcStep(s) == svcJob.steps # << >> /\ Head(svcJob.steps) = s
SvcOnward == svcJob' = [svcJob EXCEPT !.steps = Tail(@)]

\* The rest of the system stays as it is in a step.
SvcQuiet == UNCHANGED <<svcKind, want, svcWaiting, svcRetrying>>

SvcFaultLeft == svcUsed.faults < SvcFaults
SvcSpendFault == svcUsed' = [svcUsed EXCEPT !.faults = @ + 1]

\* The apply ends with an error.  A file already changed is not changed again
\* by the next apply, which then finds nothing to restart the unit for.
SvcFails ==
    /\ SvcFaultLeft /\ SvcSpendFault
    /\ svcJob' = NoSvcJob
    /\ svcOutcome' = "failed"
    /\ missed' = TRUE

\* A call to the service manager (five seconds each): it is carried out, it is
\* refused, or it is carried out and its answer does not come in time.
UnitCall(after) ==
    \/ unit' = after /\ SvcOnward /\ UNCHANGED <<svcOutcome, svcUsed>>
       /\ missed' = (missed /\ after = unit)
    \/ unit' \in {unit, after} /\ SvcFails

\* A call whose error is only logged.
UnitCallOrWarn(after) ==
    /\ SvcOnward
    /\ UNCHANGED svcOutcome
    /\ \/ unit' = after /\ UNCHANGED svcUsed /\ missed' = (missed /\ after = unit)
       \/ SvcFaultLeft /\ SvcSpendFault /\ UNCHANGED unit /\ missed' = TRUE

UnitStarted == [state |-> "active", runs |-> unitFile]

SvcNothing == SvcOnward /\ UNCHANGED <<unit, svcOutcome, missed, svcUsed>>

\* A user's service that could not be applied keeps its record, and one that had
\* none is recorded as not running.
KeepRecord ==
    noted' = IF svcKind = "user" /\ svcJob' = NoSvcJob /\ noted = "none" THEN "off" ELSE noted

\* What was rendered is not compared with what was there.
RenderFileBlind ==
    /\ SvcStep("render")
    /\ \/ /\ unitFile' = svcJob.cfg
          /\ svcJob' = [svcJob EXCEPT !.steps = Tail(@)]
          /\ UNCHANGED <<unit, svcOutcome, missed, svcUsed>>
       \/ UNCHANGED <<unitFile, unit>> /\ SvcFails
    /\ KeepRecord
    /\ UNCHANGED <<listed, svcMembers>>
    /\ SvcQuiet

\* The file is replaced when it differs; the change is what a restart waits for.
RenderFile ==
    /\ SvcStep("render")
    /\ \/ /\ unitFile' = svcJob.cfg
          /\ svcJob' = [svcJob EXCEPT !.steps = Tail(@), !.changed = unitFile # svcJob.cfg]
          /\ UNCHANGED <<unit, svcOutcome, missed, svcUsed>>
       \/ UNCHANGED <<unitFile, unit>> /\ SvcFails
    /\ KeepRecord
    /\ UNCHANGED <<listed, svcMembers>>
    /\ SvcQuiet

\* apply_unit and converge_unit.
RunUnit ==
    /\ SvcStep("run")
    /\ IF UnitActive /\ ~svcJob.changed THEN SvcNothing ELSE UnitCall(UnitStarted)
    /\ UNCHANGED <<unitFile, listed, noted, svcMembers>>
    /\ SvcQuiet

RunOrWarn ==
    /\ SvcStep("runOrWarn")
    /\ \/ UnitActive /\ svcJob.changed /\ UnitCall(UnitStarted)
       \/ UnitActive /\ ~svcJob.changed /\ SvcNothing
       \/ ~UnitActive /\ UnitCallOrWarn(UnitStarted)
    /\ UNCHANGED <<unitFile, listed, noted, svcMembers>>
    /\ SvcQuiet

\* The unit is stopped if it runs.
HaltUnit ==
    /\ SvcStep("halt")
    /\ IF UnitActive THEN UnitCall(UnitStopped) ELSE SvcNothing
    /\ UNCHANGED <<unitFile, listed, noted, svcMembers>>
    /\ SvcQuiet

\* The resolver is restarted, its rebuild run, for a changed file only.
ReloadDns ==
    /\ SvcStep("reload")
    /\ IF svcJob.changed THEN UnitCall(UnitStarted) ELSE SvcNothing
    /\ UNCHANGED <<unitFile, listed, noted, svcMembers>>
    /\ SvcQuiet

\* ifdown -a takes the network down while the old file still says what is up;
\* its failure is only logged.  Nothing is done for a file that already agrees.
IfDown ==
    /\ SvcStep("down")
    /\ IF unitFile = svcJob.cfg
       THEN /\ svcJob' = [svcJob EXCEPT !.steps = << >>]
            /\ UNCHANGED <<unit, svcOutcome, missed, svcUsed>>
       ELSE UnitCallOrWarn(UnitStopped)
    /\ UNCHANGED <<unitFile, listed, noted, svcMembers>>
    /\ SvcQuiet

IfUp ==
    /\ SvcStep("up")
    /\ UnitCall(UnitStarted)
    /\ UNCHANGED <<unitFile, listed, noted, svcMembers>>
    /\ SvcQuiet

\* The list of the units a boot starts.  For a user's service it is the link.
\* A changed text is unlinked before it is linked again.
EnableUnit ==
    /\ SvcStep("enable")
    /\ \/ listed' = TRUE /\ SvcNothing
       \/ UNCHANGED unit /\ SvcFails
          /\ listed' \in {listed} \union IF svcKind = "user" /\ svcJob.changed THEN {FALSE} ELSE {}
    /\ KeepRecord
    /\ UNCHANGED <<unitFile, svcMembers>>
    /\ SvcQuiet

DisableUnit ==
    /\ SvcStep("disable")
    /\ \/ listed' = FALSE /\ SvcNothing
       \/ UNCHANGED <<listed, unit>> /\ SvcFails
    /\ KeepRecord
    /\ UNCHANGED <<unitFile, svcMembers>>
    /\ SvcQuiet

\* A user's service is started when the record says it did not run, restarted
\* for a changed text, stopped when the record says it ran.  A start of a unit
\* that runs already changes nothing.  The record then says what was reached.
ActUnit ==
    /\ SvcStep("act")
    /\ \/ svcJob.on /\ noted = "on" /\ ~svcJob.changed /\ SvcNothing
       \/ ~svcJob.on /\ noted # "on" /\ SvcNothing
       \/ svcJob.on /\ noted = "on" /\ svcJob.changed /\ UnitCall(UnitStarted)
       \/ svcJob.on /\ noted # "on" /\ UnitCall(IF UnitActive THEN unit ELSE UnitStarted)
       \/ ~svcJob.on /\ noted = "on" /\ UnitCall(UnitStopped)
    /\ IF svcJob' = NoSvcJob THEN KeepRecord ELSE noted' = IF svcJob.on THEN "on" ELSE "off"
    /\ UNCHANGED <<unitFile, listed, svcMembers>>
    /\ SvcQuiet

\* The removal: a stop that fails is only logged; the tool then unlinks the
\* service and deletes its text.  A service the record does not name is left.
RemoveUnit ==
    /\ SvcStep("remove")
    /\ \/ /\ noted = "none" \/ unitFile = NoCfg
          /\ noted' = "none"
          /\ SvcNothing
          /\ UNCHANGED <<unitFile, listed>>
       \/ /\ noted # "none" /\ unitFile # NoCfg
          /\ \/ /\ UnitCallOrWarn(UnitStopped)
                /\ unitFile' = NoCfg /\ listed' = FALSE /\ noted' = "none"
             \/ unit' \in {unit, UnitStopped} /\ SvcFails /\ UNCHANGED <<unitFile, listed, noted>>
    /\ UNCHANGED svcMembers
    /\ SvcQuiet

----------------------------------------------------------------------------
(* The container service.                                                  *)

\* run_service: remembers whether this apply started it.
LaunchService ==
    /\ SvcStep("launch")
    /\ \/ UnitActive /\ SvcNothing
       \/ /\ ~UnitActive
          /\ \/ /\ unit' = UnitStarted
                /\ svcJob' = [svcJob EXCEPT !.steps = Tail(@), !.started = TRUE]
                /\ UNCHANGED <<svcOutcome, svcUsed, missed>>
             \/ unit' \in {unit, UnitStarted} /\ SvcFails
    /\ UNCHANGED <<unitFile, listed, noted, svcMembers>>
    /\ SvcQuiet

\* The service answers within its time, or the apply fails with it running.
ServiceReady ==
    /\ SvcStep("ready")
    /\ \/ SvcNothing
       \/ UNCHANGED unit /\ SvcFails
    /\ UNCHANGED <<unitFile, listed, noted, svcMembers>>
    /\ SvcQuiet

\* The projects are declared; their containers are started when the service was.
StartMembers ==
    /\ SvcStep("members")
    /\ \/ svcMembers' = (svcMembers \/ svcJob.started) /\ SvcNothing
       \/ UNCHANGED <<svcMembers, unit>> /\ SvcFails
    /\ UNCHANGED <<unitFile, listed, noted>>
    /\ SvcQuiet

\* The containers are asked to stop and waited for; one that does not stop in
\* time fails the apply with the service still running.
DrainMembers ==
    /\ SvcStep("drain")
    /\ \/ svcMembers' = (svcMembers /\ ~UnitActive) /\ SvcNothing
       \/ UnitActive /\ svcMembers' \in {svcMembers, FALSE} /\ UNCHANGED unit /\ SvcFails
    /\ UNCHANGED <<unitFile, listed, noted>>
    /\ SvcQuiet

\* container_action: an operator starts or stops the containers, with no apply
\* lock.  A start may fall between the drain's last look and the stop.
ContainerActs ==
    /\ svcKind = "container" /\ UnitActive
    /\ svcMembers' = ~svcMembers
    /\ svcJob' = IF svcMembers' /\ svcJob.steps = <<"halt", "disable">>
                 THEN [svcJob EXCEPT !.late = TRUE] ELSE svcJob
    /\ UNCHANGED <<svcKind, want, unitFile, unit, listed, noted, svcWaiting, svcRetrying, svcOutcome,
                   missed, svcUsed>>

----------------------------------------------------------------------------
(* The end of an apply, and what goes wrong around it.                     *)

SvcFinish ==
    /\ svcJob # NoSvcJob /\ svcJob.steps = << >>
    /\ svcJob' = NoSvcJob
    /\ svcOutcome' = "ok"
    /\ svcRetrying' = FALSE
    /\ UNCHANGED <<svcKind, want, unitFile, unit, listed, noted, svcMembers, svcWaiting, missed,
                   svcUsed>>

\* The process of the service ends by itself.
SvcCrash ==
    /\ SvcFaultLeft /\ UnitActive /\ svcKind \notin {"dns", "ifupdown"}
    /\ SvcSpendFault
    /\ unit' = [state |-> "failed", runs |-> NoCfg]
    /\ missed' = TRUE
    /\ UNCHANGED <<svcKind, want, unitFile, listed, noted, svcMembers, svcJob, svcWaiting, svcRetrying,
                   svcOutcome>>

\* micad dies: the apply under way is lost, and so are the queued ones; the next
\* micad applies everything at its startup.
SvcDies ==
    /\ SvcFaultLeft
    /\ SvcSpendFault
    /\ svcJob' = NoSvcJob
    /\ svcWaiting' = FALSE /\ svcRetrying' = TRUE
    /\ svcOutcome' = "none"
    /\ missed' = TRUE
    /\ UNCHANGED <<svcKind, want, unitFile, unit, listed, noted, svcMembers>>

\* The power is cut.  The files are on the disk; the units that are listed, and
\* the resolver and the network, are started by the boot with the files it finds.
SvcPowerCut ==
    /\ SvcFaultLeft
    /\ SvcSpendFault
    /\ unit' = IF listed \/ svcKind \in AlwaysOn \ {"time"} THEN UnitStarted ELSE UnitStopped
    /\ svcMembers' = FALSE
    /\ svcJob' = NoSvcJob
    /\ svcWaiting' = FALSE /\ svcRetrying' = TRUE
    /\ svcOutcome' = "none"
    /\ missed' = TRUE
    /\ UNCHANGED <<svcKind, want, unitFile, listed, noted>>

SvcInit ==
    /\ svcKind \in SvcKinds
    /\ want \in [on : BOOLEAN, cfg : SvcCfgs]
    /\ unitFile = NoCfg
    /\ unit = IF svcKind \in {"dns", "ifupdown"} THEN [state |-> "active", runs |-> NoCfg]
              ELSE UnitStopped
    /\ listed = FALSE /\ noted = "none" /\ svcMembers = FALSE
    /\ svcJob = NoSvcJob
    /\ svcWaiting = FALSE /\ svcRetrying = TRUE
    /\ svcOutcome = "none"
    /\ missed = FALSE
    /\ svcUsed = [writes |-> 0, faults |-> 0]

SvcNext ==
    \/ SvcWrite \/ WorkerApply \/ DeferredRun \/ DeferredEnd
    \/ RenderFile \/ RunUnit \/ RunOrWarn \/ HaltUnit \/ ReloadDns \/ IfDown \/ IfUp
    \/ EnableUnit \/ DisableUnit \/ ActUnit \/ RemoveUnit
    \/ LaunchService \/ ServiceReady \/ StartMembers \/ DrainMembers \/ ContainerActs
    \/ SvcFinish \/ SvcCrash \/ SvcDies \/ SvcPowerCut

----------------------------------------------------------------------------
(* Properties.                                                             *)

SvcTypeOK ==
    /\ svcKind \in SvcKinds
    /\ want \in Wants
    /\ unitFile \in SvcCfgs \union {NoCfg}
    /\ unit \in [state : {"inactive", "active", "failed"}, runs : SvcCfgs \union {NoCfg}]
    /\ listed \in BOOLEAN /\ svcMembers \in BOOLEAN /\ missed \in BOOLEAN
    /\ noted \in {"none", "off", "on"}
    /\ svcWaiting \in BOOLEAN /\ svcRetrying \in BOOLEAN
    /\ svcOutcome \in {"none", "ok", "failed"}

\* Nothing is being applied and nothing waits to be.
SvcRest == svcJob = NoSvcJob /\ ~svcWaiting /\ ~svcRetrying

\* The unit is what the settings say it is.
Agrees ==
    /\ SvcWanted <=> UnitActive
    /\ UnitActive /\ svcKind # "container" => unit.runs = want.cfg

\* At rest, when the last apply succeeded and nothing failed since the unit was
\* last seen to start, the unit runs exactly when its settings say so and it
\* was started with the file they render (write_config_if_changed and the
\* restart that its answer decides).
Converged == SvcRest /\ svcOutcome = "ok" /\ ~missed => Agrees

\* The containers stop before their service does: micad leaves them running
\* under a service it stopped only when an operator started them after the
\* drain's last look, which no lock keeps out (turn_off, drain and
\* container_action).
ContainersDrained == [][
    svcKind = "container" /\ UnitActive /\ unit'.state = "inactive"
        => ~svcMembers' \/ svcJob.late]_svcVars

\* What the documentation says of a reconciler: it converges the system to its
\* subtree, and a failed startup apply is tried again.  At rest after a
\* successful apply, a unit that runs was started with the file the settings
\* render.
ConvergesToSettings ==
    SvcRest /\ svcOutcome = "ok" /\ SvcWanted /\ UnitActive /\ svcKind # "container"
        => unit.runs = want.cfg

\* The services through failed, late and cut applies: well formed, and at rest
\* what the last good apply asked for (reconciler/*.rs, user_units.rs).
ServicesSafe == SvcTypeOK /\ Converged

====
