---- MODULE UiBundles ----
(***************************************************************************)
(* The store of console bundles under /mica/ui and the requests that       *)
(* change it (crates/mica-apid/src/bundle.rs, bundle/{install,tree,types}, *)
(* routes/{ui,ui_upload}.rs, startup.rs; crates/mica-ui-bundle).  A request*)
(* holds the selection lock while its blocking task runs; a client that    *)
(* goes away drops the request and its lock, and not the task.  apid may   *)
(* be killed, and the device may lose power, between any two steps.        *)
(***************************************************************************)
EXTENDS Integers, FiniteSets

CONSTANTS
    UiGens,        \* the generation numbers, 1..n
    UiPackages,    \* package -> [apis, sound]: the API versions it declares, and whether the
                   \* archive and its manifest keep the package contract
    UiImages,      \* the API versions the images of the device serve, one set each
    UiRequests,
    UiRetained,    \* the most generations an upload may add to (32)
    UiOps,         \* bound: requests, and trees staged by hand
    UiCuts,        \* bound: kills and power cuts
    UiDrops        \* bound: clients that go away

ASSUME UiAssumption ==
    /\ UiGens \subseteq Nat \ {0}
    /\ {"start", "none"} \cap UiRequests = {}

VARIABLES
    uiTree,        \* generation -> the tree of bundles/<generation>
    uiStaging,     \* generation -> the tree of .staging-<generation>
    uiRecord,      \* generation -> the tree its record has the digest of
    uiCurrent,     \* what the link current points at; 0 when there is none
    uiServed,      \* the API versions this image serves
    uiUp,          \* start-up is over and apid serves
    uiLock,        \* the request that holds ui_selection
    uiReqs,        \* request -> what it asks for, and whether its client is there
    uiTasks,       \* request -> its blocking task; the start-up's is "start"
    uiChosen,      \* the generations a PUT selected or a person staged
    uiUsed

uiStore == <<uiTree, uiStaging, uiRecord, uiCurrent>>
uiVars == <<uiTree, uiStaging, uiRecord, uiCurrent, uiServed, uiUp, uiLock, uiReqs, uiTasks, uiChosen, uiUsed>>

(* A tree: the package it was unpacked from, how much of it there is, and  *)
(* whether a power cut would spare it.                                     *)
NoTree == [pkg |-> "none", part |-> "none", synced |-> TRUE]
TreeOf(p, part, synced) == [pkg |-> p, part |-> part, synced |-> synced]
SameDigest(t, u) == t.pkg = u.pkg /\ t.part = u.part

UiTaskers == UiRequests \cup {"start"}
NoTask == [op |-> "none", at |-> "none", gen |-> 0, pkg |-> "none"]
UiFree == [op |-> "none", gen |-> 0, pkg |-> "none", client |-> TRUE]

UiInit ==
    /\ uiTree = [g \in UiGens |-> NoTree]
    /\ uiStaging = [g \in UiGens |-> NoTree]
    /\ uiRecord = [g \in UiGens |-> NoTree]
    /\ uiCurrent = 0
    /\ uiServed \in UiImages
    /\ uiUp = FALSE
    /\ uiLock = "none"
    /\ uiReqs = [r \in UiRequests |-> UiFree]
    /\ uiTasks = [t \in UiTaskers |-> IF t = "start" THEN [NoTask EXCEPT !.op = "start", !.at = "staged"] ELSE NoTask]
    /\ uiChosen = {}
    /\ uiUsed = [op |-> 0, cut |-> 0, drop |-> 0]

----------------------------------------------------------------------------
(* What a tree is good for.                                                *)

Generations == {g \in UiGens : uiTree[g] # NoTree}

(* The part that is there decides: the entries come in order, so half a    *)
(* tree has its index and not its manifest.                                *)
ValidTree(t) == t.part \in {"half", "whole"}
ManifestThere(t) == t.part = "whole"

CheckCompat(t) == ManifestThere(t) => UiPackages[t.pkg].apis \cap uiServed # {}

InspectGeneration(g) ==
    /\ g \in Generations /\ ValidTree(uiTree[g])
    /\ uiRecord[g] # NoTree /\ SameDigest(uiRecord[g], uiTree[g])
    /\ CheckCompat(uiTree[g])

NextGeneration == 1 + (IF Generations = {} THEN 0 ELSE CHOOSE g \in Generations : \A h \in Generations : h <= g)

----------------------------------------------------------------------------
(* Requests.                                                               *)

UiCount(k) == uiUsed' = [uiUsed EXCEPT ![k] = @ + 1]

UiAsk(r, op, g, p) ==
    /\ uiUp /\ uiReqs[r] = UiFree /\ uiTasks[r] = NoTask
    /\ uiUsed.op < UiOps /\ UiCount("op")
    /\ uiReqs' = [uiReqs EXCEPT ![r] = [op |-> op, gen |-> g, pkg |-> p, client |-> TRUE]]
    /\ UNCHANGED <<uiStore, uiServed, uiUp, uiLock, uiTasks, uiChosen>>

(* An upload is read into the staging directory and inspected before it    *)
(* waits for the lock; what is not a package is refused there.             *)
InspectArchive(p) == UiPackages[p].sound

Upload(r, p) == InspectArchive(p) /\ UiAsk(r, "upload", 0, p)
Activate(r, g) == UiAsk(r, "activate", g, "none")
Delete(r, g) == UiAsk(r, "delete", g, "none")
Deactivate(r) == UiAsk(r, "deactivate", 0, "none")

Locked(r) ==
    /\ uiReqs[r].op # "none" /\ uiReqs[r].client /\ uiTasks[r] = NoTask /\ uiLock = "none"
    /\ uiLock' = r
    /\ uiTasks' = [uiTasks EXCEPT ![r] =
           [op |-> uiReqs[r].op, at |-> "begun", gen |-> uiReqs[r].gen, pkg |-> uiReqs[r].pkg]]
    /\ UNCHANGED <<uiStore, uiServed, uiUp, uiReqs, uiChosen, uiUsed>>

(* The client goes away: the request is dropped where it awaits, with the  *)
(* lock if it has it.                                                      *)
Dropped(r) ==
    /\ uiReqs[r].op # "none" /\ uiUsed.drop < UiDrops /\ UiCount("drop")
    /\ uiReqs' = [uiReqs EXCEPT ![r] = UiFree]
    /\ uiLock' = IF uiLock = r THEN "none" ELSE uiLock
    /\ UNCHANGED <<uiStore, uiServed, uiUp, uiTasks, uiChosen>>

TaskAt(t, op, at) == uiTasks[t].op = op /\ uiTasks[t].at = at
Goes(t, at) == uiTasks' = [uiTasks EXCEPT ![t].at = at] /\ UNCHANGED <<uiLock, uiReqs>>

(* The task is over: the request answers, and its guard goes with it.      *)
Over(t) ==
    /\ uiTasks' = [uiTasks EXCEPT ![t] = NoTask]
    /\ uiReqs' = IF t \in UiRequests THEN [uiReqs EXCEPT ![t] = UiFree] ELSE uiReqs
    /\ uiLock' = IF uiLock = t THEN "none" ELSE uiLock

----------------------------------------------------------------------------
(* An upload: extracted into .staging-<next>, validated, installed.        *)

Extract(t) ==
    /\ TaskAt(t, "upload", "begun")
    /\ LET g == NextGeneration
       IN  /\ g \in UiGens
           /\ IF uiStaging[g] # NoTree
              THEN uiStaging' = [uiStaging EXCEPT ![g] = NoTree] /\ Over(t)
              ELSE /\ \E part \in {"part", "half"} :
                          uiStaging' = [uiStaging EXCEPT ![g] = TreeOf(uiTasks[t].pkg, part, FALSE)]
                   /\ uiTasks' = [uiTasks EXCEPT ![t].gen = g, ![t].at = "extracting"]
                   /\ UNCHANGED <<uiLock, uiReqs>>
    /\ UNCHANGED <<uiTree, uiRecord, uiCurrent, uiServed, uiUp, uiChosen, uiUsed>>

Extracted(t) ==
    /\ TaskAt(t, "upload", "extracting")
    /\ IF uiStaging[uiTasks[t].gen] = NoTree
       THEN Over(t) /\ UNCHANGED uiStaging
       ELSE /\ uiStaging' = [uiStaging EXCEPT ![uiTasks[t].gen] = TreeOf(uiTasks[t].pkg, "whole", FALSE)]
            /\ Goes(t, "staged")
    /\ UNCHANGED <<uiTree, uiRecord, uiCurrent, uiServed, uiUp, uiChosen, uiUsed>>

(* The checks of install_staged; an upload is also held to what is there.  *)
UiRefused(t, g) ==
    \/ uiTree[g] # NoTree
    \/ ~ValidTree(uiStaging[g])
    \/ ~CheckCompat(uiStaging[g])
    \/ /\ uiTasks[t].op = "upload"
       /\ \/ Cardinality(Generations) >= UiRetained
          \/ \E h \in Generations : uiTree[h].pkg = uiStaging[g].pkg /\ ManifestThere(uiTree[h])

InstallStaged(t) ==
    /\ uiTasks[t].at = "staged" /\ uiTasks[t].gen # 0
    /\ LET g == uiTasks[t].gen
       IN  IF UiRefused(t, g)
           THEN /\ uiStaging' = IF uiTasks[t].op = "upload" THEN [uiStaging EXCEPT ![g] = NoTree] ELSE uiStaging
                /\ IF t = "start" THEN Goes(t, "recheck") ELSE Over(t)
           ELSE /\ uiStaging' = [uiStaging EXCEPT ![g].synced = TRUE]
                /\ Goes(t, "synced")
    /\ UNCHANGED <<uiTree, uiRecord, uiCurrent, uiServed, uiUp, uiChosen, uiUsed>>

Renamed(t) ==
    /\ uiTasks[t].at = "synced"
    /\ LET g == uiTasks[t].gen
       IN  IF uiStaging[g] = NoTree
           THEN (IF t = "start" THEN Goes(t, "recheck") ELSE Over(t)) /\ UNCHANGED <<uiTree, uiStaging>>
           ELSE /\ uiTree' = [uiTree EXCEPT ![g] = uiStaging[g]]
                /\ uiStaging' = [uiStaging EXCEPT ![g] = NoTree]
                /\ Goes(t, "renamed")
    /\ UNCHANGED <<uiRecord, uiCurrent, uiServed, uiUp, uiChosen, uiUsed>>

WriteRecord(t) ==
    /\ uiTasks[t].at = "renamed"
    /\ uiRecord' = [uiRecord EXCEPT ![uiTasks[t].gen] = [uiTree[uiTasks[t].gen] EXCEPT !.synced = TRUE]]
    /\ IF t = "start" THEN Goes(t, "point") ELSE Over(t)
    /\ UNCHANGED <<uiTree, uiStaging, uiCurrent, uiServed, uiUp, uiChosen, uiUsed>>

----------------------------------------------------------------------------
(* Selecting, deselecting and deleting a generation.                       *)

SelectGeneration(t) ==
    /\ TaskAt(t, "activate", "begun")
    /\ IF InspectGeneration(uiTasks[t].gen) /\ uiCurrent # uiTasks[t].gen THEN Goes(t, "point") ELSE Over(t)
    /\ UNCHANGED <<uiStore, uiServed, uiUp, uiChosen, uiUsed>>

PointCurrentAt(t) ==
    /\ uiTasks[t].at = "point"
    /\ uiCurrent' = uiTasks[t].gen
    /\ uiChosen' = IF t = "start" THEN uiChosen ELSE uiChosen \cup {uiTasks[t].gen}
    /\ IF t = "start" THEN Goes(t, "recheck") ELSE Over(t)
    /\ UNCHANGED <<uiTree, uiStaging, uiRecord, uiServed, uiUp, uiUsed>>

RemoveCurrent(t) ==
    /\ TaskAt(t, "deactivate", "begun")
    /\ uiCurrent' = 0
    /\ Over(t)
    /\ UNCHANGED <<uiTree, uiStaging, uiRecord, uiServed, uiUp, uiChosen, uiUsed>>

\* Mutant: the generation may be deleted while it is served
DeleteBeginsBlind(t) ==
    /\ TaskAt(t, "delete", "begun")
    /\ IF uiTree[uiTasks[t].gen] = NoTree THEN Over(t) ELSE Goes(t, "trash")
    /\ UNCHANGED <<uiStore, uiServed, uiUp, uiChosen, uiUsed>>

DeleteBegins(t) ==
    /\ TaskAt(t, "delete", "begun")
    /\ IF uiCurrent = uiTasks[t].gen \/ uiTree[uiTasks[t].gen] = NoTree THEN Over(t) ELSE Goes(t, "trash")
    /\ UNCHANGED <<uiStore, uiServed, uiUp, uiChosen, uiUsed>>

Trashed(t) ==
    /\ TaskAt(t, "delete", "trash")
    /\ uiTree' = [uiTree EXCEPT ![uiTasks[t].gen] = NoTree]
    /\ uiChosen' = uiChosen \ {uiTasks[t].gen}
    /\ Goes(t, "unrecord")
    /\ UNCHANGED <<uiStaging, uiRecord, uiCurrent, uiServed, uiUp, uiUsed>>

RemoveRecord(t) ==
    /\ TaskAt(t, "delete", "unrecord")
    /\ uiRecord' = [uiRecord EXCEPT ![uiTasks[t].gen] = NoTree]
    /\ Over(t)
    /\ UNCHANGED <<uiTree, uiStaging, uiCurrent, uiServed, uiUp, uiChosen, uiUsed>>

----------------------------------------------------------------------------
(* Start-up: the newest staged tree is installed and selected, and then the*)
(* selected one is checked again.                                          *)

PickUpStaged ==
    /\ TaskAt("start", "start", "staged") /\ uiTasks["start"].gen = 0
    /\ LET staged == {g \in UiGens : uiStaging[g] # NoTree}
       IN  \/ staged = {} /\ Goes("start", "recheck")
           \/ \E g \in staged :
                 /\ \A h \in staged : h <= g
                 /\ uiTasks' = [uiTasks EXCEPT !["start"].gen = g]
                 /\ UNCHANGED <<uiLock, uiReqs>>
    /\ UNCHANGED <<uiStore, uiServed, uiUp, uiChosen, uiUsed>>

RecheckActive ==
    /\ TaskAt("start", "start", "recheck")
    /\ LET corrupt == uiRecord[uiCurrent] # NoTree /\ ~SameDigest(uiRecord[uiCurrent], uiTree[uiCurrent])
       IN  uiCurrent' = IF uiCurrent # 0 /\ (corrupt \/ ~CheckCompat(uiTree[uiCurrent])) THEN 0 ELSE uiCurrent
    /\ Over("start")
    /\ uiUp' = TRUE
    /\ UNCHANGED <<uiTree, uiStaging, uiRecord, uiServed, uiChosen, uiUsed>>

(* A tree put there by a person, for the next start.                       *)
StageByHand(g, p) ==
    /\ uiUp /\ uiStaging[g] = NoTree /\ uiTree[g] = NoTree
    /\ uiUsed.op < UiOps /\ UiCount("op")
    /\ uiStaging' = [uiStaging EXCEPT ![g] = TreeOf(p, "whole", TRUE)]
    /\ uiChosen' = uiChosen \cup {g}
    /\ UNCHANGED <<uiTree, uiRecord, uiCurrent, uiServed, uiUp, uiLock, uiReqs, uiTasks>>

----------------------------------------------------------------------------
(* apid ends and starts again, maybe in another image; a power cut tears   *)
(* what was not synced.                                                    *)

Torn(t) == IF t.synced THEN {t} ELSE {t, [t EXCEPT !.part = "torn", !.synced = TRUE]}

UiStarts(cut) ==
    /\ uiUsed.cut < UiCuts /\ UiCount("cut")
    /\ IF cut
       THEN \E g, h \in UiGens : \E s \in Torn(uiStaging[g]), b \in Torn(uiTree[h]) :
                uiStaging' = [uiStaging EXCEPT ![g] = s] /\ uiTree' = [uiTree EXCEPT ![h] = b]
       ELSE UNCHANGED <<uiStaging, uiTree>>
    /\ uiServed' \in UiImages
    /\ uiUp' = FALSE
    /\ uiLock' = "none"
    /\ uiReqs' = [r \in UiRequests |-> UiFree]
    /\ uiTasks' = [t \in UiTaskers |-> IF t = "start" THEN [NoTask EXCEPT !.op = "start", !.at = "staged"] ELSE NoTask]
    /\ UNCHANGED <<uiRecord, uiCurrent, uiChosen>>

UiNext ==
    \/ \E r \in UiRequests :
        \/ \E p \in DOMAIN UiPackages : Upload(r, p)
        \/ \E g \in UiGens : Activate(r, g) \/ Delete(r, g)
        \/ Deactivate(r) \/ Locked(r) \/ Dropped(r)
    \/ \E t \in UiTaskers :
        \/ Extract(t) \/ Extracted(t) \/ InstallStaged(t) \/ Renamed(t) \/ WriteRecord(t)
        \/ SelectGeneration(t) \/ PointCurrentAt(t) \/ RemoveCurrent(t)
        \/ DeleteBegins(t) \/ Trashed(t) \/ RemoveRecord(t)
    \/ PickUpStaged \/ RecheckActive
    \/ \E g \in UiGens, p \in DOMAIN UiPackages : StageByHand(g, p)
    \/ \E cut \in BOOLEAN : UiStarts(cut)

UiSpec == UiInit /\ [][UiNext]_uiVars

----------------------------------------------------------------------------
(* Properties.                                                             *)

\* The console that is served is a tree that is there, with the digest recorded for it, through
\* every crash, cut and deletion (bundle/install.rs install_staged, activate, delete).  A client
\* that hangs up is left out: the guard its request drops no longer covers the work still running
\* for it (routes/ui.rs), and a deletion can then pass another request's activation.
ServedIsRecorded ==
    uiUsed.drop = 0 /\ uiCurrent # 0 => /\ uiTree[uiCurrent] # NoTree
                                        /\ SameDigest(uiRecord[uiCurrent], uiTree[uiCurrent])

\* A console is served only after somebody chose it: a PUT selected its generation, or a person
\* staged the tree on the device (docs/mica-core.md: "installed as a generation and activated
\* explicitly").
ActivatedExplicitly == uiCurrent # 0 => uiCurrent \in uiChosen

====
