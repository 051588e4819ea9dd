---- MODULE Acquisition ----
(***************************************************************************)
(* The workspace /mica/updates and what fills it: checking a source,       *)
(* fetching a release by delta or whole, importing an archive, and the     *)
(* by-hand update of mica-deploy (crates/mica-deploy/src/acquisition.rs,   *)
(* acquisition/{transfer,sets}.rs, catalog.rs, chunks.rs and the commands  *)
(* of bin/mica-deploy.rs).  One command runs at a time, under the storage  *)
(* lock; it may be killed, and the device may lose power, between any two  *)
(* steps.  The bytes of an object are its length and whether they are the  *)
(* ones its digest names; lengths are in abstract units.                   *)
(***************************************************************************)
EXTENDS Integers, FiniteSets
LOCAL INSTANCE FiniteSetsExt

CONSTANTS
    AcqReleases,   \* release -> [kind, gen, objects, image, needs]: what a source can publish;
                   \* image is the core release a system release names, or "none"; needs is the
                   \* system generation a core release selects on
    AcqEnvelope,   \* core release -> the object that is its signed envelope
    AcqSize,       \* object -> its length
    AcqBudget,     \* max_bytes of the workspace
    AcqHead,       \* the length of a catalog, and of a descriptor
    AcqChunk,      \* the length of a chunk on its way, its index included
    AcqSources,    \* the update roots a command may name
    AcqIndexes,    \* what indexes an origin may serve: a subset of {"none", "right", "wrong"}
    AcqRanges,     \* the origins that honour Range, and those that do not: a subset of BOOLEAN
    AcqFaults,     \* bound: cut transfers, wrong bytes, kills, power cuts
    AcqOps         \* bound: discards and imports by hand, and manifests published

VARIABLES
    downloads,     \* object -> its .partial
    assembly,      \* object -> the length of its .assembly, and of the chunk and index a kill left with it
    verified,      \* object -> its file under verified/objects
    descriptors,   \* the releases with a descriptor under verified/
    checkpoint,    \* catalog.json: [source, revision, digest]
    inStore,       \* the objects of the deployment store
    newest,        \* kind -> the highest generation installed
    waiting,       \* [rel, core]: the release that waits for its reboot, and the core set with it
    acqJob,        \* the command that runs
    origin,        \* [indexes, ranges, revision]: what the origin serves
    acqUsed

acqFiles == <<downloads, assembly, verified, descriptors>>
acqStore == <<inStore, newest, waiting>>
acqVars == <<downloads, assembly, verified, descriptors, checkpoint, inStore, newest, waiting, acqJob,
             origin, acqUsed>>

AcqObjects == DOMAIN AcqSize
LineKinds == {"system", "core"}

(* A command: the line it is on, where it is in it, the release it         *)
(* acquires, the objects it still misses, the one in work, whether the     *)
(* origin may have an index, the objects an archive brought beside the     *)
(* ones its descriptor names, and the system release that is ready while   *)
(* its core set is looked for.                                             *)
AcqIdle == [cmd |-> "none", kind |-> "system", at |-> "idle", rel |-> "none", todo |-> {}, obj |-> "none",
            indexed |-> TRUE, extras |-> {}, pair |-> "none"]

NoneWaits == [rel |-> "none", core |-> "none"]

(* A file: how much of it there is, whether it is what it should be, and   *)
(* whether a power cut would spare it.                                     *)
NoFile == [len |-> 0, good |-> TRUE, synced |-> TRUE]
Complete(o, f) == f.len = AcqSize[o] /\ f.good

AcqInit ==
    /\ downloads = [o \in AcqObjects |-> NoFile]
    /\ assembly = [o \in AcqObjects |-> 0]
    /\ verified = [o \in AcqObjects |-> NoFile]
    /\ descriptors = {}
    /\ checkpoint = [source |-> "none", revision |-> 0, digest |-> "none"]
    /\ inStore = {}
    /\ newest = [k \in LineKinds |-> 0]
    /\ waiting = NoneWaits
    /\ acqJob = AcqIdle
    /\ origin \in [indexes: AcqIndexes, ranges: AcqRanges, revision: {1}]
    /\ acqUsed = [fault |-> 0, op |-> 0]

----------------------------------------------------------------------------
(* The budget: every file under the root counts, whoever left it there.    *)

WorkspaceFiles ==
    LET of(o) == downloads[o].len + assembly[o] + verified[o].len
    IN  MapThenSumSet(of, AcqObjects) + AcqHead * Cardinality(descriptors)
            + (IF acqJob.at = "assembling" THEN AcqChunk ELSE 0)

(* Of the room on DATA itself a command asks too: NoRoom, among the faults.*)
Reserves(bytes) == WorkspaceFiles + bytes <= AcqBudget

ReserveMissing(objects) ==
    LET more(o) == AcqSize[o] - downloads[o].len
    IN  Reserves(MapThenSumSet(more, objects) + AcqHead)

----------------------------------------------------------------------------
(* A release and what of it is missing.                                    *)

AcqGen(r) == AcqReleases[r].gen
ImageOf(r) == AcqReleases[r].image

(* An object in the verified store that is not what its name says fails    *)
(* the command.                                                            *)
SoundObjects(objects) == \A o \in objects \ inStore : verified[o] # NoFile => Complete(o, verified[o])
MissingOf(r) == {o \in AcqReleases[r].objects \ inStore : verified[o] = NoFile}

(* The image's set is fetched too when it is newer than the one that runs. *)
NewerImageSet(r) == ImageOf(r) # "none" /\ newest["core"] > 0 /\ newest["core"] < AcqGen(ImageOf(r))
Absent(r) == IF verified[AcqEnvelope[r]] = NoFile THEN {AcqEnvelope[r]} ELSE {}

ValidateRelease(r) == waiting = NoneWaits /\ AcqGen(r) > newest[AcqReleases[r].kind]

----------------------------------------------------------------------------
(* The catalog.                                                            *)

(* What the line of a kind says at a revision: the latest release.         *)
Published(k, revision) ==
    LET line == {r \in DOMAIN AcqReleases : AcqReleases[r].kind = k /\ AcqGen(r) <= revision}
    IN  IF line = {} THEN "none" ELSE CHOOSE r \in line : \A q \in line : AcqGen(q) <= AcqGen(r)

(* A mirror may serve an old manifest, or another one under a number.      *)
Manifests(source) ==
    {[source |-> source, revision |-> n, digest |-> d] : n \in 1 .. origin.revision, d \in {"one", "two"}}

ReadManifest(m) ==
    checkpoint.source = m.source =>
        /\ m.revision >= checkpoint.revision
        /\ m.revision = checkpoint.revision => m.digest = checkpoint.digest

(* A core set that does not select on the root waits for a system: the     *)
(* root that runs, or, beside a release that is ready, that release's.     *)
RootGeneration == IF acqJob.pair = "none" THEN newest["system"] ELSE AcqGen(acqJob.pair)
Selects(r) == AcqReleases[r].needs <= RootGeneration

Selected(k, m) ==
    LET r == Published(k, m.revision)
    IN  IF r # "none" /\ AcqGen(r) > newest[k] /\ (k = "core" => Selects(r)) THEN r ELSE "none"

----------------------------------------------------------------------------
(* Steps of a command.                                                     *)

AcqFault == acqUsed.fault < AcqFaults /\ acqUsed' = [acqUsed EXCEPT !.fault = @ + 1]
NoAcqFault == UNCHANGED acqUsed
AcqAt(step) == acqJob.at = step
Becomes(job) == acqJob' = job

(* A failure ends the command, unless it only looked for the core set of a *)
(* system that is ready: that one is installed without it.                 *)
InstallPair(core) == acqJob' = [AcqIdle EXCEPT !.cmd = "update", !.at = "install", !.rel = acqJob.pair, !.pair = core]
AcqEnds == IF acqJob.pair # "none" /\ acqJob.at # "install" THEN InstallPair("none") ELSE acqJob' = AcqIdle

(* check and set_check: of an update, the core line first.  A core line    *)
(* that cannot be read never blocks the system's.                          *)
AcqBegins(cmd, k) ==
    /\ AcqAt("idle")
    /\ Becomes([AcqIdle EXCEPT !.cmd = cmd, !.kind = k, !.at = "checking"])
    /\ UNCHANGED <<acqFiles, checkpoint, acqStore, origin, acqUsed>>

GoesOn ==
    IF acqJob.cmd = "update" /\ acqJob.kind = "core" /\ acqJob.pair = "none"
    THEN Becomes([AcqIdle EXCEPT !.cmd = "update", !.at = "checking"])
    ELSE AcqEnds

CheckFails ==
    /\ AcqAt("checking")
    /\ \/ ~Reserves(AcqHead) /\ NoAcqFault
       \/ AcqFault
    /\ GoesOn
    /\ UNCHANGED <<acqFiles, checkpoint, acqStore, origin>>

Check(m) ==
    /\ AcqAt("checking")
    /\ Reserves(AcqHead)
    /\ \/ m.digest = "one" /\ m.revision = origin.revision /\ NoAcqFault
       \/ AcqFault
    /\ IF ReadManifest(m)
       THEN /\ checkpoint' = m
            /\ IF Selected(acqJob.kind, m) # "none"
               THEN Becomes([acqJob EXCEPT !.at = "selected", !.rel = Selected(acqJob.kind, m)])
               ELSE GoesOn
       ELSE GoesOn /\ UNCHANGED checkpoint
    /\ UNCHANGED <<acqFiles, acqStore, origin>>

(* fetch and set_fetch: what is missing, if it fits.                       *)
Fetch ==
    /\ AcqAt("selected")
    /\ IF /\ ValidateRelease(acqJob.rel)
          /\ SoundObjects(AcqReleases[acqJob.rel].objects)
          /\ ReserveMissing(MissingOf(acqJob.rel))
       THEN Becomes([acqJob EXCEPT !.at = "objects", !.todo = MissingOf(acqJob.rel)])
       ELSE AcqEnds
    /\ UNCHANGED <<acqFiles, checkpoint, acqStore, origin, acqUsed>>

(* DATA has too few free blocks or inodes for what is missing.             *)
NoRoom ==
    /\ AcqAt("selected") \/ (AcqAt("objects") /\ acqJob.todo = {} /\ NewerImageSet(acqJob.rel))
    /\ AcqFault /\ AcqEnds
    /\ UNCHANGED <<acqFiles, checkpoint, acqStore, origin>>

(* fetch_objects, one object after the other in the order of the digests,  *)
(* which can be any; a partial file is resumed, and the first index the    *)
(* origin does not serve is the last one asked for.                        *)
TakeObject(o) ==
    /\ AcqAt("objects") /\ o \in acqJob.todo
    /\ Becomes([acqJob EXCEPT !.obj = o, !.at =
           IF downloads[o].len = 0 /\ acqJob.indexed THEN "delta"
           ELSE IF downloads[o].len < AcqSize[o] THEN "whole" ELSE "promote"])
    /\ UNCHANGED <<acqFiles, checkpoint, acqStore, origin, acqUsed>>

NoDelta ==
    /\ Becomes([acqJob EXCEPT !.at = "whole", !.indexed = FALSE])
    /\ assembly' = [assembly EXCEPT ![acqJob.obj] = 0]
    /\ UNCHANGED <<downloads, verified, descriptors, checkpoint, acqStore, origin>>

(* The index, and the chunks cut out of what the device holds or fetched   *)
(* one by one.                                                             *)
Delta ==
    /\ AcqAt("delta")
    /\ origin.indexes # "none" /\ Reserves(AcqChunk)
    /\ \E n \in 1 .. AcqSize[acqJob.obj] : assembly' = [assembly EXCEPT ![acqJob.obj] = n]
    /\ Becomes([acqJob EXCEPT !.at = "assembling"])
    /\ UNCHANGED <<downloads, verified, descriptors, checkpoint, acqStore, origin, acqUsed>>

DeltaFails ==
    /\ \/ AcqAt("delta") /\ (origin.indexes = "none" \/ ~Reserves(AcqChunk)) /\ NoAcqFault
       \/ AcqAt("delta") /\ AcqFault
       \/ AcqAt("assembling") /\ AcqFault
    /\ NoDelta

(* Each chunk is what the index names; the index is held to the digest and *)
(* the length of the object, and to nothing else.                          *)
Assembled ==
    /\ AcqAt("assembling")
    /\ downloads' = [downloads EXCEPT ![acqJob.obj] =
           [len |-> AcqSize[acqJob.obj], good |-> origin.indexes = "right", synced |-> TRUE]]
    /\ assembly' = [assembly EXCEPT ![acqJob.obj] = 0]
    /\ Becomes([acqJob EXCEPT !.at = "promote"])
    /\ UNCHANGED <<verified, descriptors, checkpoint, acqStore, origin, acqUsed>>

----------------------------------------------------------------------------
(* A transfer.                                                             *)

(* Past an offset only a 206 from there is taken.                          *)
RangeTaken == downloads[acqJob.obj].len = 0 \/ origin.ranges

Received(len, good) ==
    downloads' = [downloads EXCEPT ![acqJob.obj] = [len |-> len, good |-> @.good /\ good, synced |-> FALSE]]

Download ==
    /\ AcqAt("whole") /\ RangeTaken
    /\ \/ Received(AcqSize[acqJob.obj], TRUE) /\ NoAcqFault
       \/ Received(AcqSize[acqJob.obj], FALSE) /\ AcqFault
       \* a body with no stated length that ends early
       \/ \E n \in downloads[acqJob.obj].len .. AcqSize[acqJob.obj] - 1 : Received(n, TRUE) /\ AcqFault
    /\ Becomes([acqJob EXCEPT !.at = "promote"])
    /\ UNCHANGED <<assembly, verified, descriptors, checkpoint, acqStore, origin>>

(* The socket is silent for a window, too slow, over its time, or closed;  *)
(* or the answer is refused.  What came stays for the next attempt.        *)
TransferStops ==
    /\ AcqAt("whole")
    /\ \/ ~RangeTaken /\ UNCHANGED downloads /\ NoAcqFault
       \/ /\ \E n \in downloads[acqJob.obj].len .. AcqSize[acqJob.obj] - 1 : Received(n, TRUE)
          /\ AcqFault
    /\ AcqEnds
    /\ UNCHANGED <<assembly, verified, descriptors, checkpoint, acqStore, origin>>

----------------------------------------------------------------------------
(* Into the verified store.                                                *)

StoreObject(o, synced) ==
    verified' = [verified EXCEPT ![o] = [len |-> AcqSize[o], good |-> TRUE, synced |-> synced]]

\* Mutant: the object is renamed before its bytes are on the disk
PromoteUnsynced ==
    /\ AcqAt("promote")
    /\ downloads' = [downloads EXCEPT ![acqJob.obj] = NoFile]
    /\ IF Complete(acqJob.obj, downloads[acqJob.obj])
       THEN /\ StoreObject(acqJob.obj, FALSE)
            /\ Becomes([acqJob EXCEPT !.at = "objects", !.todo = @ \ {acqJob.obj}])
       ELSE AcqEnds /\ UNCHANGED verified
    /\ UNCHANGED <<assembly, descriptors, checkpoint, acqStore, origin, acqUsed>>

\* Mutant: a partial file that does not verify is left for the next attempt
PromoteKeeps ==
    /\ AcqAt("promote")
    /\ IF Complete(acqJob.obj, downloads[acqJob.obj])
       THEN /\ downloads' = [downloads EXCEPT ![acqJob.obj] = NoFile]
            /\ StoreObject(acqJob.obj, TRUE)
            /\ Becomes([acqJob EXCEPT !.at = "objects", !.todo = @ \ {acqJob.obj}])
       ELSE AcqEnds /\ UNCHANGED <<downloads, verified>>
    /\ UNCHANGED <<assembly, descriptors, checkpoint, acqStore, origin, acqUsed>>

Promote ==
    /\ AcqAt("promote")
    /\ downloads' = [downloads EXCEPT ![acqJob.obj] = NoFile]
    /\ IF Complete(acqJob.obj, downloads[acqJob.obj])
       THEN /\ StoreObject(acqJob.obj, TRUE)
            /\ Becomes([acqJob EXCEPT !.at = "objects", !.todo = @ \ {acqJob.obj}])
       ELSE AcqEnds /\ UNCHANGED verified
    /\ UNCHANGED <<assembly, descriptors, checkpoint, acqStore, origin, acqUsed>>

(* The objects are there: those of the image's set are next, its envelope  *)
(* first, and then the descriptor is written.                              *)
ImageSet ==
    /\ AcqAt("objects") /\ acqJob.todo = {}
    /\ NewerImageSet(acqJob.rel)
    /\ LET image == ImageOf(acqJob.rel)
           next == IF Absent(image) # {} THEN Absent(image) ELSE MissingOf(image)
       IN  /\ next # {}
           /\ IF ReserveMissing(next)
              THEN Becomes([acqJob EXCEPT !.todo = next, !.indexed = TRUE])
              ELSE AcqEnds
    /\ UNCHANGED <<acqFiles, checkpoint, acqStore, origin, acqUsed>>

AcqReady ==
    /\ AcqAt("objects") /\ acqJob.todo = {}
    /\ NewerImageSet(acqJob.rel) =>
           Absent(ImageOf(acqJob.rel)) \cup MissingOf(ImageOf(acqJob.rel)) = {}
    /\ IF MissingOf(acqJob.rel) = {}
       THEN /\ descriptors' = descriptors \cup {acqJob.rel}
            /\ IF acqJob.cmd = "fetch" THEN AcqEnds
               ELSE IF acqJob.pair # "none" THEN InstallPair(acqJob.rel)
               ELSE IF acqJob.kind = "core" THEN Becomes([AcqIdle EXCEPT !.at = "install", !.rel = acqJob.rel])
               ELSE Becomes([AcqIdle EXCEPT !.cmd = "update", !.kind = "core", !.at = "checking",
                                            !.pair = acqJob.rel])
       ELSE AcqEnds /\ UNCHANGED descriptors
    /\ UNCHANGED <<downloads, assembly, verified, checkpoint, acqStore, origin, acqUsed>>

(* install and install_set, which the module Deployments models step by    *)
(* step: the objects are copied, the workspace keeps its own.  A system    *)
(* goes with the set given, else with its image's where that is newer.     *)
CoreWith(r, core) ==
    IF AcqReleases[r].kind = "core" THEN r
    ELSE IF core # "none" THEN core
    ELSE IF NewerImageSet(r) THEN ImageOf(r) ELSE "none"

Installable(r) == ValidateRelease(r) /\ MissingOf(r) = {} /\ SoundObjects(AcqReleases[r].objects)

AcqInstall(r, core) ==
    /\ Installable(r)
    /\ waiting' = [rel |-> r, core |-> CoreWith(r, core)]
    /\ newest' = IF AcqReleases[r].kind = "system" THEN [newest EXCEPT !["system"] = AcqGen(r)] ELSE newest
    /\ inStore' = inStore \cup AcqReleases[r].objects
                    \cup (IF waiting'.core = "none" THEN {} ELSE AcqReleases[waiting'.core].objects)
    /\ acqJob' = AcqIdle
    /\ UNCHANGED <<acqFiles, checkpoint, origin, acqUsed>>

InstallNow == AcqAt("install") /\ AcqInstall(acqJob.rel, acqJob.pair)

InstallLater(r) == AcqAt("idle") /\ r \in descriptors /\ AcqInstall(r, "none")

(* The reboot into it, and its confirmation.                               *)
AcqConfirmed ==
    /\ AcqAt("idle") /\ waiting # NoneWaits
    /\ waiting' = NoneWaits
    /\ newest' = IF waiting.core = "none" THEN newest ELSE [newest EXCEPT !["core"] = AcqGen(waiting.core)]
    /\ UNCHANGED <<acqFiles, checkpoint, inStore, acqJob, origin, acqUsed>>

----------------------------------------------------------------------------
(* An archive: the objects its descriptor names, and, where it names a set,*)
(* objects of that set.  Each is written whole, synced and promoted.       *)

ByHand == acqUsed.op < AcqOps /\ acqUsed' = [acqUsed EXCEPT !.op = @ + 1]

ImportArchive(r, extras) ==
    /\ AcqAt("idle") /\ ByHand
    /\ ValidateRelease(r) /\ SoundObjects(AcqReleases[r].objects)
    /\ extras # {} => ImageOf(r) # "none"
    /\ LET required == MissingOf(r) \cup (IF ImageOf(r) # "none" THEN Absent(ImageOf(r)) ELSE {})
           taken == {o \in extras : verified[o] = NoFile}
       IN  /\ ReserveMissing(required)
           /\ Becomes([AcqIdle EXCEPT !.cmd = "import", !.at = "archive", !.rel = r,
                                      !.todo = required \cup taken, !.extras = taken])
    /\ UNCHANGED <<acqFiles, checkpoint, acqStore, origin>>

ImportObject(o) ==
    /\ AcqAt("archive") /\ o \in acqJob.todo
    /\ o \in acqJob.extras => Reserves(AcqSize[o])
    /\ downloads' = [downloads EXCEPT ![o] = NoFile]
    /\ StoreObject(o, TRUE)
    /\ Becomes([acqJob EXCEPT !.todo = @ \ {o}])
    /\ UNCHANGED <<assembly, descriptors, checkpoint, acqStore, origin, acqUsed>>

(* The archive ends early, does not fit, or does not hash: what it brought *)
(* stays.                                                                  *)
ImportStops(o) ==
    /\ AcqAt("archive") /\ o \in acqJob.todo
    /\ \/ o \in acqJob.extras /\ ~Reserves(AcqSize[o]) /\ UNCHANGED downloads /\ NoAcqFault
       \/ /\ AcqFault
          /\ \E n \in 0 .. AcqSize[o] :
                 downloads' = [downloads EXCEPT ![o] = [len |-> n, good |-> FALSE, synced |-> FALSE]]
    /\ AcqEnds
    /\ UNCHANGED <<assembly, verified, descriptors, checkpoint, acqStore, origin>>

(* Objects the set does not name are taken away again.                     *)
ImportEnds ==
    /\ AcqAt("archive") /\ acqJob.todo = {}
    /\ IF ImageOf(acqJob.rel) # "none" /\ ~(acqJob.extras \subseteq AcqReleases[ImageOf(acqJob.rel)].objects)
       THEN /\ verified' = [o \in AcqObjects |-> IF o \in acqJob.extras THEN NoFile ELSE verified[o]]
            /\ UNCHANGED descriptors
       ELSE /\ \/ /\ NewerImageSet(acqJob.rel) => MissingOf(ImageOf(acqJob.rel)) = {}
                  /\ descriptors' = descriptors \cup {acqJob.rel}
               \/ /\ NewerImageSet(acqJob.rel) /\ MissingOf(ImageOf(acqJob.rel)) # {}
                  /\ UNCHANGED descriptors
            /\ UNCHANGED verified
    /\ AcqEnds
    /\ UNCHANGED <<downloads, assembly, checkpoint, acqStore, origin, acqUsed>>

DiscardAll ==
    /\ AcqAt("idle") /\ ByHand
    /\ downloads' = [o \in AcqObjects |-> NoFile]
    /\ assembly' = [o \in AcqObjects |-> 0]
    /\ verified' = [o \in AcqObjects |-> NoFile]
    /\ descriptors' = {}
    /\ UNCHANGED <<checkpoint, acqStore, acqJob, origin>>

NextRevision ==
    /\ ByHand
    /\ origin.revision < 2
    /\ origin' = [origin EXCEPT !.revision = @ + 1]
    /\ UNCHANGED <<acqFiles, checkpoint, acqStore, acqJob>>

----------------------------------------------------------------------------
(* What can end a command from outside.                                    *)

LeavesChunk == assembly' = IF AcqAt("assembling") THEN [assembly EXCEPT ![acqJob.obj] = @ + AcqChunk] ELSE assembly

AcqKilled ==
    /\ ~AcqAt("idle") /\ AcqFault
    /\ acqJob' = AcqIdle /\ LeavesChunk
    /\ UNCHANGED <<downloads, verified, descriptors, checkpoint, acqStore, origin>>

(* Bytes that were not synced may be there, gone, or something else.       *)
AfterCut(f, fate) ==
    IF f.synced \/ fate = "kept" THEN f
    ELSE IF fate = "gone" THEN NoFile ELSE [f EXCEPT !.good = FALSE]

AcqPowerCut ==
    /\ AcqFault
    /\ LET unsynced == {o \in AcqObjects : ~downloads[o].synced \/ ~verified[o].synced}
       IN  \E fate \in [unsynced -> {"kept", "gone", "torn"}] :
               LET after(f, o) == IF o \in unsynced THEN AfterCut(f, fate[o]) ELSE f
               IN  /\ downloads' = [o \in AcqObjects |-> after(downloads[o], o)]
                   /\ verified' = [o \in AcqObjects |-> after(verified[o], o)]
    /\ acqJob' = AcqIdle /\ LeavesChunk
    /\ UNCHANGED <<descriptors, checkpoint, acqStore, origin>>

----------------------------------------------------------------------------

(* What a running command does next, given its turn.                       *)
CommandStep ==
    \/ \E s \in AcqSources : \E m \in Manifests(s) : Check(m)
    \/ CheckFails \/ Fetch \/ NoRoom
    \/ \E o \in AcqObjects : TakeObject(o)
    \/ Delta \/ DeltaFails \/ Assembled \/ Download \/ TransferStops
    \/ Promote \/ ImageSet \/ AcqReady
    \/ InstallNow
    \/ \E o \in AcqObjects : ImportObject(o) \/ ImportStops(o)
    \/ ImportEnds

UpdateByHand == AcqBegins("update", "core")

AcqNext ==
    \/ CommandStep \/ UpdateByHand \/ AcqConfirmed
    \/ \E k \in LineKinds : AcqBegins("fetch", k)
    \/ \E r \in DOMAIN AcqReleases : InstallLater(r)
    \/ \E r \in DOMAIN AcqReleases, e \in SUBSET AcqObjects : Cardinality(e) <= 1 /\ ImportArchive(r, e)
    \/ DiscardAll \/ NextRevision \/ AcqKilled \/ AcqPowerCut

(* A started command goes on, the timer starts the update again and again, *)
(* and what was installed is booted.                                       *)
AcqSpec ==
    /\ AcqInit /\ [][AcqNext]_acqVars
    /\ WF_acqVars(CommandStep) /\ SF_acqVars(UpdateByHand) /\ SF_acqVars(AcqConfirmed)

----------------------------------------------------------------------------
(* Properties.                                                             *)

\* Whatever was cut, killed or served wrong, an object of the verified store that
\* survives is what its name says: install and the next fetch count on it
\* (acquisition.rs promote, import_objects).
VerifiedIsWhole == \A o \in AcqObjects : verified[o] # NoFile => Complete(o, verified[o])

(* An origin that ignores Range refuses every attempt to go on with what a  *)
(* cut transfer left, and nothing but a discard or an import takes it away. *)
StuckPartial == ~origin.ranges /\ \E o \in AcqObjects : downloads[o].len \in 1 .. AcqSize[o] - 1

\* The update that is tried again and again acquires what the source offers, whatever the first
\* attempts left behind (acquisition.rs fetch_objects, promote, transfer.rs download), except where
\* a cut left a partial file of an origin that does not resume (transfer.rs:235-241), or a confused
\* mirror gave the revision another content, which only a new revision mends.
AcquiredAtLast ==
    <>[](\/ checkpoint.digest = "two"
         \/ StuckPartial
         \/ \A k \in LineKinds : LET r == Published(k, origin.revision) IN r = "none" \/ newest[k] >= AcqGen(r))

====
