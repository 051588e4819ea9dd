---- MODULE DeviceStart ----
(***************************************************************************)
(* A boot up to the serving daemon, and the resets that a boot carries     *)
(* out.  The runkit erases DATA for a staged factory reset before anything *)
(* else reads it (mica-deploy factory_reset.rs); micad then reads its      *)
(* settings, maps a recovery intent of the kernel command line, carries out*)
(* a staged reset tier, imports a provisioning document, provisions the    *)
(* device, adds the ports of the board and records the reset               *)
(* (micad lib.rs, recovery.rs, reset.rs, provisioning_doc, provisioning.rs,*)
(* board_defaults.rs, factory_reset.rs).  The power may go, micad may die  *)
(* and a write may fail between any two of the steps.  A save of the       *)
(* settings is one step: SettingsJournal shows that it is atomic.          *)
(***************************************************************************)
EXTENDS Naturals, FiniteSets

CONSTANTS
    BoardPorts,    \* the ports the image's defaults declare
    DevActions,    \* what the board declares: [intent, mechanism, tier], tier "none" for presence only
    DevIntents,    \* what the kernel command line may carry: an intent, NoIntent or "malformed"
    NoIntent,
    Papers,        \* the provisioning documents: [digest, valid, admin, id], id 0 for none
    NoPaper,
    BadDirs,       \* the directories of DATA with an entry that cannot be removed
    DevCuts,       \* bound: power cuts and deaths of micad
    DevFails,      \* bound: failed writes and missed keepalives
    DevOps         \* bound: what the operator does

\* A document says whether it names an administrator, and which identity it gives.
ASSUME PaperAssumption == \A p \in Papers : p.admin \in BOOLEAN /\ p.id \in Nat

VARIABLES
    disk,          \* what is stored: [st: the STATE document, cf: the configuration documents]
    mem,           \* the tree micad holds
    appData,       \* the directories with application data
    seedsRec,      \* the record of the image's app seeds is there
    portsRec,      \* the record of the ports once added
    request,       \* META: the staged factory reset: "none", "staged", "unreadable"
    doneRec,       \* META: the completed reset, by number
    doneCopy,      \* STATE: its copy
    tops,          \* the directories of DATA
    phase,         \* where the boot is
    todo,          \* the directories a reset still has to clear
    cmdline,       \* the intent this boot was given
    paper,         \* the document on the staging medium
    presence,      \* the presence marker of /run stands
    asking,        \* a factory reset request: "idle", "checked", "verified"
    installing,    \* an update installs
    failures,      \* wrong passwords since the last right one
    throttled,
    rebootDue,
    minted,        \* identifiers drawn so far
    removed,       \* history: the ports the operator took out since they were added
    keySet,        \* history: the operator set the access point's key since the last erase
    unstored,      \* history: a tier is carried out that could not be stored, or in the place
                   \* of a staged reset of the configuration, since the last such reset
    wiped,         \* history: the directories erased by a reset that is not finished
    devUsed

devStored == <<disk, appData, seedsRec, portsRec, doneCopy>>
devMeta == <<request, doneRec>>
devRun == <<presence, asking, installing, failures, throttled, rebootDue>>
devPast == <<removed, wiped, keySet, unstored>>
devBoot == <<cmdline, paper>>
devVars == <<disk, mem, appData, seedsRec, portsRec, request, doneRec, doneCopy, tops, phase, todo,
             cmdline, paper, presence, asking, installing, failures, throttled, rebootDue, minted,
             removed, wiped, keySet, unstored, devUsed>>

----------------------------------------------------------------------------
(* What is stored.  The identity, the claim and a staged tier are on STATE;*)
(* the access point's key and the ports are in the configuration documents.*)

Skeleton == {"state", "mica", "srv"}
Tops == Skeleton \union {"other"}
AppAreas == {"units", "accounts", "apps", "containers", "user"}
Tiers == {"configuration", "application-data"}
FreeFailures == 3

NoState == [claimed |-> FALSE, id |-> 0, complete |-> FALSE, paper |-> NoPaper, reset |-> "none"]
NoConf == [site |-> FALSE, psk |-> FALSE, ports |-> {}]
NoTree == [st |-> NoState, cf |-> NoConf]

DevInit ==
    /\ disk = NoTree /\ mem = NoTree
    /\ appData = {} /\ seedsRec = FALSE /\ portsRec = {}
    /\ request = "none" /\ doneRec = 0 /\ doneCopy = 0
    /\ tops = Tops /\ phase = "off" /\ todo = {}
    /\ cmdline = NoIntent /\ paper = NoPaper
    /\ presence = FALSE /\ asking = "idle" /\ installing = FALSE
    /\ failures = 0 /\ throttled = FALSE /\ rebootDue = FALSE
    /\ minted = 0 /\ removed = {} /\ wiped = {} /\ keySet = FALSE /\ unstored = FALSE
    /\ devUsed = [cuts |-> 0, fails |-> 0, ops |-> 0]

Cut == devUsed.cuts < DevCuts /\ devUsed' = [devUsed EXCEPT !.cuts = @ + 1]
Fault == devUsed.fails < DevFails /\ devUsed' = [devUsed EXCEPT !.fails = @ + 1]
Operated == devUsed.ops < DevOps /\ devUsed' = [devUsed EXCEPT !.ops = @ + 1]

Steps(from, to) == phase = from /\ phase' = to

\* Store::save and the tree in hand, which is replaced once the save returned.
Saves(tree) == disk' = tree /\ mem' = tree

----------------------------------------------------------------------------
(* The runkit: the factory reset.                                          *)

PowerOn ==
    /\ Steps("off", "runkit")
    /\ cmdline' \in DevIntents
    /\ paper' \in Papers \union {NoPaper}
    /\ presence' = FALSE
    /\ asking' = "idle" /\ installing' = FALSE /\ rebootDue' = FALSE
    /\ failures' = 0 /\ throttled' = FALSE
    /\ UNCHANGED <<devStored, mem, devMeta, tops, todo, minted, devPast, devUsed>>

\* apply: no request; one that cannot be read is set aside; else the erase starts.
CheckRequest ==
    /\ phase = "runkit"
    /\ request' = IF request = "unreadable" THEN "none" ELSE request
    /\ IF request = "staged"
       THEN phase' = "erase" /\ todo' = tops
       ELSE phase' = "load" /\ todo' = {}
    /\ UNCHANGED <<devStored, mem, doneRec, tops, devBoot, devRun, minted, devPast, devUsed>>

\* Erase::clear on one entry of DATA but meta/.  What cannot be removed stays, with the
\* directory around it, and the erase goes on.
EraseTop(d) ==
    /\ phase = "erase" /\ d \in todo
    /\ todo' = todo \ {d}
    /\ tops' = IF d \in BadDirs THEN tops ELSE tops \ {d}
    /\ wiped' = wiped \union {d}
    /\ IF d = "state"
       THEN /\ disk' = [disk EXCEPT !.st = NoState]
            /\ seedsRec' = FALSE /\ portsRec' = {} /\ doneCopy' = 0
            /\ appData' = appData \ {"units", "accounts"}
       ELSE /\ disk' = IF d = "mica" THEN [disk EXCEPT !.cf = NoConf] ELSE disk
            /\ appData' = CASE d = "mica" -> appData \ {"apps", "containers"}
                            [] d = "srv" -> appData \ {"user"}
                            [] OTHER -> appData
            /\ UNCHANGED <<seedsRec, portsRec, doneCopy>>
    /\ UNCHANGED <<mem, devMeta, phase, devBoot, devRun, minted, removed, keySet, unstored, devUsed>>

\* The erase stops and the boot goes on.
KeepaliveIgnored ==
    /\ Steps("erase", "load") /\ Fault
    /\ UNCHANGED <<devStored, mem, devMeta, tops, todo, devBoot, devRun, minted, devPast>>

\* keepalive's error stops the erase, and the boot is refused with the request in place.
KeepaliveFails ==
    /\ Steps("erase", "refused") /\ todo # {} /\ Fault
    /\ UNCHANGED <<devStored, mem, devMeta, tops, todo, devBoot, devRun, minted, devPast>>

\* The factory layout, in order: each directory is made, which fails when it is still there.
Earlier(d) == CASE d = "state" -> {} [] d = "mica" -> {"state"} [] OTHER -> {"state", "mica"}

MakeLayout ==
    LET made == {d \in Skeleton : (Earlier(d) \union {d}) \intersect tops = {}}
    IN  /\ phase = "erase" /\ todo = {}
        /\ tops' = tops \union made
        /\ phase' = IF made = Skeleton THEN "erased" ELSE "refused"
        /\ UNCHANGED <<devStored, mem, devMeta, todo, devBoot, devRun, minted, devPast, devUsed>>

WriteDone ==
    /\ Steps("erased", "done written")
    /\ doneRec' = doneRec + 1
    /\ UNCHANGED <<devStored, mem, request, tops, todo, devBoot, devRun, minted, devPast, devUsed>>

RemoveRequest ==
    /\ Steps("done written", "load")
    /\ request' = "none"
    /\ wiped' = {} /\ removed' = {} /\ keySet' = FALSE /\ unstored' = FALSE
    /\ UNCHANGED <<devStored, mem, doneRec, tops, todo, devBoot, devRun, minted, devUsed>>

\* A boot that was refused ends, and the next one starts over.
BootRefused ==
    /\ Steps("refused", "off")
    /\ UNCHANGED <<devStored, mem, devMeta, tops, todo, devBoot, devRun, minted, devPast, devUsed>>

----------------------------------------------------------------------------
(* micad: the recovery intent of the command line.                         *)

LoadTree ==
    /\ Steps("load", "intent")
    /\ mem' = disk
    /\ UNCHANGED <<devStored, devMeta, tops, todo, devBoot, devRun, minted, devPast, devUsed>>

\* intent_from_cmdline: a parameter without a value, or given twice, is no intent.
Intent == IF cmdline = "malformed" THEN NoIntent ELSE cmdline

\* Declaration::parse, action_from and refuse_collisions: an action without one of its
\* four values, or two that share an intent or a mechanism, make the whole declaration
\* unreadable.
Readable(acts) ==
    \A a, b \in acts :
        /\ a.tier \in Tiers \union {"none"}
        /\ a # b => a.intent # b.intent /\ a.mechanism # b.mechanism

\* map_intent: an unreadable declaration maps nothing.
MapIntent(intent) ==
    IF Readable(DevActions) THEN {a \in DevActions : a.intent = intent} ELSE {}

\* apply_boot_intent with no intent, a malformed one, or one the board does not declare.
NoBootIntent ==
    /\ Steps("intent", "reset")
    /\ MapIntent(Intent) = {}
    /\ UNCHANGED <<devStored, mem, devMeta, tops, todo, devBoot, devRun, minted, devPast, devUsed>>

\* write_assertion, then stage_tier: the tree in hand changes before the save.
ApplyBootIntent ==
    \E a \in MapIntent(Intent) :
        LET staged == [mem EXCEPT !.st.reset = a.tier]
        IN  /\ Steps("intent", "reset")
            /\ presence' = TRUE
            /\ IF a.tier = "none"
               THEN UNCHANGED <<disk, mem, unstored, devUsed>>
               ELSE /\ mem' = staged
                    /\ \/ /\ disk' = staged
                          /\ unstored' = (unstored \/ (mem.st.reset = "configuration" /\ mem # staged))
                          /\ UNCHANGED devUsed
                       \/ disk' = disk /\ unstored' = TRUE /\ Fault
            /\ UNCHANGED <<appData, seedsRec, portsRec, doneCopy, devMeta, tops, todo, devBoot,
                           asking, installing, failures, throttled, rebootDue, minted, removed, wiped, keySet>>

\* The marker cannot be written: the boot goes on, and nothing is asserted.
AssertionFails ==
    /\ Steps("intent", "reset") /\ Fault
    /\ MapIntent(Intent) # {}
    /\ UNCHANGED <<devStored, mem, devMeta, tops, todo, devBoot, devRun, minted, devPast>>

----------------------------------------------------------------------------
(* micad: a staged tier.                                                   *)

TargetsOf(tier) ==
    IF tier = "configuration" THEN {"config"} ELSE AppAreas

NoStagedReset ==
    /\ Steps("reset", "paper")
    /\ mem.st.reset = "none"
    /\ UNCHANGED <<devStored, mem, devMeta, tops, todo, devBoot, devRun, minted, devPast, devUsed>>

\* apply_pending up to the first removal: the roots, the transaction lock, the
\* preflight, and no dockerd.
StartReset ==
    /\ Steps("reset", "clear")
    /\ mem.st.reset # "none"
    /\ todo' = TargetsOf(mem.st.reset)
    /\ UNCHANGED <<devStored, mem, devMeta, tops, devBoot, devRun, minted, devPast, devUsed>>

\* clear_application_state goes through the directories in order.
Place == [config |-> 1, units |-> 1, accounts |-> 2, apps |-> 3, containers |-> 4, user |-> 5]

\* clear_contents on one of the directories of the tier.
ClearTarget(d) ==
    /\ phase = "clear" /\ d \in todo
    /\ \A e \in todo : Place[d] <= Place[e]
    /\ todo' = todo \ {d}
    /\ disk' = IF d = "config" THEN [disk EXCEPT !.cf = NoConf] ELSE disk
    /\ appData' = appData \ {d}
    /\ UNCHANGED <<mem, seedsRec, portsRec, doneCopy, devMeta, tops, phase, devBoot, devRun, minted,
                   devPast, devUsed>>

\* The records of what was seeded from the image go with what was seeded.
RemoveRecords ==
    /\ Steps("clear", "cleared") /\ todo = {}
    /\ IF mem.st.reset = "configuration"
       THEN portsRec' = {} /\ UNCHANGED seedsRec
       ELSE seedsRec' = FALSE /\ UNCHANGED portsRec
    /\ UNCHANGED <<disk, mem, appData, doneCopy, devMeta, tops, todo, devBoot, devRun, minted,
                   devPast, devUsed>>

\* reseeded_settings: everything at its default but the identity, to be provisioned
\* again, the credentials, and the access point's key.
ReseededSettings(tree) ==
    [st |-> [tree.st EXCEPT !.complete = FALSE], cf |-> [NoConf EXCEPT !.psk = tree.cf.psk]]

\* The commit of the reset, from the tree in hand.
CommitReset ==
    LET after == IF mem.st.reset = "configuration" THEN ReseededSettings(mem) ELSE mem
    IN  /\ Steps("cleared", "paper")
        /\ Saves([after EXCEPT !.st.reset = "none"])
        /\ removed' = IF mem.st.reset = "configuration" THEN {} ELSE removed
        /\ unstored' = (unstored /\ mem.st.reset # "configuration")
        /\ UNCHANGED <<appData, seedsRec, portsRec, doneCopy, devMeta, tops, todo, devBoot, devRun,
                       minted, wiped, keySet, devUsed>>

\* A check or a removal fails: micad exits, and is started again.
ResetFails ==
    /\ phase \in {"reset", "clear", "cleared"} /\ Fault
    /\ mem.st.reset # "none"
    /\ phase' = "load"
    /\ UNCHANGED <<devStored, mem, devMeta, tops, todo, devBoot, devRun, minted, devPast>>

----------------------------------------------------------------------------
(* micad: the provisioning document, the provisioning and the board's ports.*)

\* read_document, parse_document and validate: one key that is unknown or has a bad value
\* rejects the document.
Rejected == ~paper.valid

\* apply_into: the sections of the document, onto a copy of the tree.
ApplyInto(tree) ==
    [tree EXCEPT !.st.paper = paper.digest,
                 !.st.claimed = @ \/ paper.admin,
                 !.st.id = IF paper.id # 0 THEN paper.id ELSE @]

\* A document is taken by a claimed device too.
TakenUngated == paper # NoPaper /\ ~Rejected /\ mem.st.paper # paper.digest

\* Neither the document applied before, nor any on a claimed device.
TakenPaper == paper # NoPaper /\ ~Rejected /\ mem.st.paper # paper.digest /\ ~mem.st.claimed

\* import.  The outcome is recorded too; the record decides nothing.
Import ==
    /\ Steps("paper", "provision")
    /\ IF TakenPaper THEN Saves(ApplyInto(mem)) ELSE UNCHANGED <<disk, mem>>
    /\ UNCHANGED <<appData, seedsRec, portsRec, doneCopy, devMeta, tops, todo, devBoot, devRun,
                   minted, devPast, devUsed>>

\* The document could not be recorded: the next boot retries.
ImportFails ==
    /\ Steps("paper", "provision") /\ Fault
    /\ paper # NoPaper
    /\ UNCHANGED <<devStored, mem, devMeta, tops, todo, devBoot, devRun, minted, devPast>>

\* ensure_identity: only what is missing is minted.
Identity(tree) == IF tree.st.id = 0 THEN minted + 1 ELSE tree.st.id

\* ensure_provisioned, once after each reset.
EnsureProvisioned ==
    /\ Steps("provision", "ports")
    /\ IF mem.st.complete
       THEN UNCHANGED <<disk, mem, minted>>
       ELSE /\ Saves([mem EXCEPT !.st.complete = TRUE, !.st.id = Identity(mem)])
            /\ minted' = IF mem.st.id = 0 THEN minted + 1 ELSE minted
    /\ UNCHANGED <<appData, seedsRec, portsRec, doneCopy, devMeta, tops, todo, devBoot, devRun,
                   devPast, devUsed>>

\* An unwritable STATE ends micad, which is started again.
ProvisioningFails ==
    /\ Steps("provision", "load") /\ Fault
    /\ ~mem.st.complete
    /\ UNCHANGED <<devStored, mem, devMeta, tops, todo, devBoot, devRun, minted, devPast>>

\* board_defaults::seed: the ports not recorded join the tree ...
SeedPorts ==
    /\ Steps("ports", "ports added")
    /\ Saves([mem EXCEPT !.cf.ports = @ \union (BoardPorts \ portsRec)])
    /\ UNCHANGED <<appData, seedsRec, portsRec, doneCopy, devMeta, tops, todo, devBoot, devRun,
                   minted, devPast, devUsed>>

\* ... and are recorded once they are saved.
RecordPorts ==
    /\ Steps("ports added", "record")
    /\ portsRec' = portsRec \union BoardPorts
    /\ removed' = removed \ (BoardPorts \ portsRec)
    /\ UNCHANGED <<disk, mem, appData, seedsRec, doneCopy, devMeta, tops, todo, devBoot, devRun,
                   minted, wiped, keySet, unstored, devUsed>>

\* A write fails, or the ports do not fit the tree: the next boot retries.
SeedPortsFails ==
    /\ phase \in {"ports", "ports added"} /\ Fault
    /\ phase' = "record"
    /\ UNCHANGED <<devStored, mem, devMeta, tops, todo, devBoot, devRun, minted, devPast>>

\* FactoryReset::first_boot: a completed reset not yet recorded is recorded on STATE.
FirstBoot ==
    /\ Steps("record", "up")
    /\ doneCopy' = doneRec
    /\ UNCHANGED <<disk, mem, appData, seedsRec, portsRec, devMeta, tops, todo, devBoot, devRun,
                   minted, devPast, devUsed>>

FirstBootFails ==
    /\ Steps("record", "up") /\ Fault
    /\ doneCopy # doneRec
    /\ UNCHANGED <<devStored, mem, devMeta, tops, todo, devBoot, devRun, minted, devPast>>

----------------------------------------------------------------------------
(* The serving daemon.                                                     *)

\* A write of the operator: the claim, the access point's key, a setting, a port taken
\* out, a staged tier (api_v1_reset).
Writes(tree) ==
    /\ phase = "up" /\ Operated
    /\ tree # mem
    /\ Saves(tree)
    /\ UNCHANGED <<appData, seedsRec, portsRec, doneCopy, devMeta, tops, phase, todo, devBoot, devRun,
                   minted, wiped, unstored>>

Claim == Writes([mem EXCEPT !.st.claimed = TRUE]) /\ UNCHANGED <<removed, keySet>>
SetKey == Writes([mem EXCEPT !.cf.psk = TRUE]) /\ keySet' = TRUE /\ UNCHANGED removed
Configure == Writes([mem EXCEPT !.cf.site = TRUE]) /\ UNCHANGED <<removed, keySet>>
TakePortOut(p) ==
    Writes([mem EXCEPT !.cf.ports = @ \ {p}]) /\ removed' = removed \union {p} /\ UNCHANGED keySet
StageTier(t) == Writes([mem EXCEPT !.st.reset = t]) /\ UNCHANGED <<removed, keySet>>

\* Applications fill their directories.
UseApps ==
    /\ phase = "up" /\ Operated
    /\ appData # AppAreas
    /\ appData' = AppAreas /\ seedsRec' = TRUE
    /\ UNCHANGED <<disk, mem, portsRec, doneCopy, devMeta, tops, phase, todo, devBoot, devRun, minted,
                   devPast>>

\* An install takes the flag and drops it when it ends (request_install).
Installs ==
    /\ phase = "up"
    /\ installing' = ~installing
    /\ ~installing => Operated
    /\ installing => UNCHANGED devUsed
    /\ UNCHANGED <<devStored, mem, devMeta, tops, phase, todo, devBoot, presence, asking, failures,
                   throttled, rebootDue, minted, devPast>>

\* request_factory_reset: the refusals and the throttle ...
CheckFactoryReset ==
    /\ phase = "up" /\ asking = "idle"
    /\ mem.st.claimed /\ ~installing /\ ~throttled
    /\ asking' = "checked"
    /\ UNCHANGED <<devStored, mem, devMeta, tops, phase, todo, devBoot, presence, installing,
                   failures, throttled, rebootDue, minted, devPast, devUsed>>

\* ... the password, verified off the executor: a wrong one costs a wait after three ...
WrongPassword ==
    /\ phase = "up" /\ asking = "checked"
    /\ asking' = "idle"
    /\ failures' = IF failures > FreeFailures THEN failures ELSE failures + 1
    /\ throttled' = (failures + 1 > FreeFailures)
    /\ UNCHANGED <<devStored, mem, devMeta, tops, phase, todo, devBoot, presence, installing,
                   rebootDue, minted, devPast, devUsed>>

ThrottleEnds ==
    /\ throttled /\ throttled' = FALSE
    /\ UNCHANGED <<devStored, mem, devMeta, tops, phase, todo, devBoot, presence, asking, installing,
                   failures, rebootDue, minted, devPast, devUsed>>

\* ... and the request, with a reboot that follows.
StageFactoryReset ==
    /\ phase = "up" /\ asking = "checked" /\ Operated
    /\ asking' = "idle" /\ failures' = 0 /\ throttled' = FALSE
    /\ request' = "staged" /\ rebootDue' = TRUE
    /\ UNCHANGED <<devStored, mem, doneRec, tops, phase, todo, devBoot, presence, installing, minted,
                   devPast>>

\* mica-deploy factory-reset, as root on the device.
StageByCli ==
    /\ phase = "up" /\ Operated
    /\ request' = "staged"
    /\ UNCHANGED <<devStored, mem, doneRec, tops, phase, todo, devBoot, devRun, minted, devPast>>

\* The file of the request is damaged while the device runs.
RequestDamaged ==
    /\ phase = "up" /\ request = "staged" /\ Fault
    /\ request' = "unreadable"
    /\ UNCHANGED <<devStored, mem, doneRec, tops, phase, todo, devBoot, devRun, minted, devPast>>

\* An ordered reboot, by the operator or the one that is due.
Reboots ==
    /\ Steps("up", "off")
    /\ rebootDue \/ request # "none" \/ mem.st.reset # "none"
    /\ UNCHANGED <<devStored, mem, devMeta, tops, todo, devBoot, devRun, minted, devPast, devUsed>>

DevPowerCut ==
    /\ phase # "off" /\ Cut
    /\ phase' = "off"
    /\ UNCHANGED <<devStored, mem, devMeta, tops, todo, devBoot, devRun, minted, devPast>>

\* micad dies and is started again within the boot: /run and the command line stay.
MicadRestarts ==
    /\ phase \notin {"off", "runkit", "erase", "erased", "done written", "refused", "load"} /\ Cut
    /\ phase' = "load"
    /\ asking' = "idle" /\ installing' = FALSE /\ rebootDue' = FALSE
    /\ failures' = 0 /\ throttled' = FALSE
    /\ UNCHANGED <<devStored, mem, devMeta, tops, todo, devBoot, presence, minted, devPast>>

RunkitStep ==
    \/ PowerOn \/ CheckRequest \/ (\E d \in Tops : EraseTop(d)) \/ KeepaliveFails
    \/ MakeLayout \/ WriteDone \/ RemoveRequest \/ BootRefused

StartStep ==
    \/ LoadTree \/ NoBootIntent \/ ApplyBootIntent \/ AssertionFails
    \/ NoStagedReset \/ StartReset \/ (\E d \in AppAreas \union {"config"} : ClearTarget(d))
    \/ RemoveRecords \/ CommitReset \/ ResetFails
    \/ Import \/ ImportFails \/ EnsureProvisioned \/ ProvisioningFails
    \/ SeedPorts \/ RecordPorts \/ SeedPortsFails \/ FirstBoot \/ FirstBootFails

ServeStep ==
    \/ Claim \/ SetKey \/ Configure \/ UseApps \/ Installs
    \/ (\E p \in BoardPorts : TakePortOut(p)) \/ (\E t \in Tiers : StageTier(t))
    \/ CheckFactoryReset \/ WrongPassword \/ ThrottleEnds \/ StageFactoryReset \/ StageByCli
    \/ RequestDamaged \/ Reboots

DevNext == RunkitStep \/ StartStep \/ ServeStep \/ DevPowerCut \/ MicadRestarts

DevSpec == DevInit /\ [][DevNext]_devVars

----------------------------------------------------------------------------
(* Properties.                                                             *)

Serving == phase \notin {"off", "runkit", "erase", "erased", "done written", "refused"}

\* The shape of the state, and: nothing of micad runs over a DATA that a factory reset
\* has erased in part.  An erase that was cut, or stopped by the watchdog, is finished by
\* a later boot before anything else reads DATA (factory_reset.rs apply, the order its
\* comment gives).
NeverHalfErased ==
    /\ disk.st.reset \in Tiers \union {"none"} /\ disk.cf.ports \subseteq BoardPorts
    /\ Serving => wiped = {}

\* A claimed device keeps its identity and its claim through every start, restart, power
\* cut and reset tier; only the erase of a factory reset takes them, and only a device
\* claimed by a document before it had an identity is given one
\* (reset.rs reseeded_settings, import.rs the claim gate).
ClaimAndIdentityKept ==
    [][disk.st.claimed /\ phase # "erase"
        => disk'.st.claimed /\ disk.st.id \in {0, disk'.st.id}]_devVars

\* A staged tier is forgotten only once everything it takes is gone, however often the
\* start that carries it out was cut: the configuration with the record of the board's
\* ports, or the application data with the record of the seeds (reset.rs apply_pending).
\* The tier is the one in hand: an intent of this boot takes the place of a staged one.
TierCarriedOutWhole ==
    [][disk.st.reset # "none" /\ disk'.st.reset = "none" /\ phase # "erase"
        => IF mem.st.reset = "configuration"
           THEN ~disk'.cf.site /\ disk'.cf.ports = {} /\ portsRec' = {}
           ELSE appData' = {} /\ ~seedsRec']_devVars

\* On a serving device a port that counts as added is in the tree, unless the operator
\* took it out: no cut between the save and the record, and no reset, leaves the device
\* without a port that it will never add again (board_defaults.rs seed).  Left aside are a
\* tier carried out from a tree that could not be stored (StagedOrNothing), and a tier of
\* the command line that takes the place of a reset of the configuration, which may have
\* been cut between the documents and the record of the ports (recovery.rs stage_tier).
RecordedPortsAdded ==
    phase = "up" /\ ~unstored => portsRec \ removed \subseteq disk.cf.ports

\* A recovery action that could not be carried out leaves a normal boot: a tier that
\* could not be stored is not carried out (recovery.rs stage_tier, the message of lib.rs).
StagedOrNothing ==
    phase \in {"clear", "cleared"} => disk.st.reset = mem.st.reset

\* An entry that cannot be removed does not stop the device from booting
\* (factory_reset.rs apply).
BadEntryStillBoots ==
    phase = "refused" => todo # {}

\* The access point's key that the operator set outlives a configuration reset
\* (reset.rs reseeded_settings).
ApKeyKept ==
    phase = "up" /\ keySet => disk.cf.psk

\* Nothing serves over a DATA that was erased in part, and no port is recorded
\* as added that is not there.
StartSafe == NeverHalfErased /\ RecordedPortsAdded

\* What no start, restart or cut takes back: a claim and its identity, and a
\* staged tier before all of it is carried out.
StartPromises == ClaimAndIdentityKept /\ TierCarriedOutWhole

=============================================================================
