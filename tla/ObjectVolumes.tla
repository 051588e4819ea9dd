--------------------------- MODULE ObjectVolumes ---------------------------
(***************************************************************************)
(* The signed objects of deployments and core sets: how one is published   *)
(* under its name, as a file or as a static UBI volume, what room is asked *)
(* for first, and what collection, `gc` and a settlement remove again      *)
(* (crates/mica-deploy/src/{ubi.rs,deployments/{install,sets,lifecycle,    *)
(* io}.rs}; the ioctls of crates/lifecycle-sys/src/ubi.rs).  Every         *)
(* operation holds the transaction lock and may end after any of its steps:*)
(* it fails, is killed, or the power is cut.                               *)
(***************************************************************************)
EXTENDS Integers, FiniteSets, FiniteSetsExt

CONSTANTS
    OvDeployments,  \* the deployments, the first installed one among them
    OvSets,         \* the core sets
    OvFirst,        \* the deployment and the set the device starts with
    OvOf,           \* what each is made of: deployment or set -> objects
    OvBytes,        \* object -> signed length
    OvLeb,          \* the bytes of an erase block
    OvCapacity,     \* the erase blocks there are
    OvReserve,      \* the bytes kept free
    OvOps           \* bound: operations begun

(* The objects of sets are in a directory of their own, under volume names *)
(* of their own.                                                           *)
ASSUME VolumeAssumption ==
    /\ OvFirst \subseteq OvDeployments \cup OvSets
    /\ \A d \in OvDeployments, s \in OvSets : OvOf[d] \cap OvOf[s] = {}

VARIABLES
    ovMedium,       \* "files", or "ubi"
    ovHeld,         \* object -> what is under its name: "none", "part", "filled" or "whole"
    ovWriting,      \* object -> what is under its temporary name
    ovNamed,        \* the deployments with a record and the sets of the set state
    ovRunning,      \* the deployment booted
    ovJob,          \* the operation under way
    ovCollected,    \* `gc` was the last operation to end
    ovUsed          \* operations begun

ovVars == <<ovMedium, ovHeld, ovWriting, ovNamed, ovRunning, ovJob, ovCollected, ovUsed>>

OvObjects == UNION {OvOf[u] : u \in OvDeployments \cup OvSets}
OvIdle == [op |-> "none", unit |-> "none", todo |-> {}, doomed |-> {}, at |-> "none", o |-> "none"]

ObjectPaths(us) == UNION {OvOf[u] : u \in us}

(* On a UBI board the one attached device of the policy's MTD partition.   *)
Media == {"files", "ubi"}

OvInit ==
    /\ ovMedium \in Media
    /\ ovHeld = [o \in OvObjects |-> IF o \in ObjectPaths(OvFirst) THEN "whole" ELSE "none"]
    /\ ovWriting = [o \in OvObjects |-> "none"]
    /\ ovNamed = OvFirst
    /\ ovRunning \in OvFirst \cap OvDeployments
    /\ ovJob = OvIdle /\ ovCollected = FALSE /\ ovUsed = 0

----------------------------------------------------------------------------
(* Room.  An object costs its length rounded up to whole erase blocks.     *)

Lebs(bytes) == (bytes + OvLeb - 1) \div OvLeb

LebsOf(objects) == FoldSet(LAMBDA o, n : n + (OvBytes[o] + OvLeb - 1) \div OvLeb, 0, objects)

AvailableLebs ==
    OvCapacity - LebsOf({o \in OvObjects : ovHeld[o] # "none"})
               - LebsOf({o \in OvObjects : ovWriting[o] # "none"})

(* What the objects not held yet will cost.                                *)
Missing(u) == {o \in OvOf[u] : ovHeld[o] = "none"}
Cost(u) == FoldSet(LAMBDA o, n : n + Lebs(OvBytes[o]), 0, Missing(u))

Room(u, reclaimed) == AvailableLebs + reclaimed >= Cost(u) + Lebs(OvReserve)

(* What is held is verified before it is used again.                       *)
VerifyHeld(u) == \A o \in OvOf[u] : ovHeld[o] \in {"none", "whole"}

----------------------------------------------------------------------------
(* What an operation removes: temporary names, and objects nothing names.  *)

Temporary(o) == [o |-> o, name |-> "writing"]
Final(o) == [o |-> o, name |-> "held"]

(* A collection is of deployments: the objects of sets are not its.        *)
Collection(retained, incoming) ==
    {Temporary(o) : o \in {x \in OvObjects : ovWriting[x] # "none"}}
        \cup {Final(o) : o \in {x \in ObjectPaths(OvDeployments) : ovHeld[x] # "none"}
                                  \ ObjectPaths(retained \cup incoming)}

ReclaimedLebs(doomed) == FoldSet(LAMBDA r, n : n + LebsOf({r.o}), 0, doomed)

(* The component objects no set names.                                     *)
ReleaseUnreferenced(named) ==
    {Final(o) : o \in {x \in ObjectPaths(OvSets) : ovHeld[x] # "none"} \ ObjectPaths(named \cap OvSets)}

OvRemove(r) ==
    IF r.name = "held"
    THEN ovHeld' = [ovHeld EXCEPT ![r.o] = "none"] /\ UNCHANGED ovWriting
    ELSE ovWriting' = [ovWriting EXCEPT ![r.o] = "none"] /\ UNCHANGED ovHeld

----------------------------------------------------------------------------
(* Operations.                                                             *)

OvBegins(op, u, todo, doomed, at) ==
    /\ ovJob = OvIdle /\ ovUsed < OvOps
    /\ ovUsed' = ovUsed + 1 /\ ovCollected' = FALSE
    /\ ovJob' = [op |-> op, unit |-> u, todo |-> todo, doomed |-> doomed, at |-> at, o |-> "none"]

(* A deployment: its records are retired to the one booted before anything *)
(* is removed, and the room is asked for again after.                      *)
InstallDeployment(d) ==
    /\ d \notin ovNamed /\ VerifyHeld(d)
    /\ LET doomed == Collection({ovRunning}, {d})
       IN  Room(d, ReclaimedLebs(doomed)) /\ OvBegins("install", d, OvOf[d], doomed, "retain")
    /\ UNCHANGED <<ovMedium, ovHeld, ovWriting, ovNamed, ovRunning>>

RetainEntries ==
    /\ ovJob.op = "install" /\ ovJob.at = "retain"
    /\ ovNamed' = (ovNamed \cap OvSets) \cup {ovRunning}
    /\ ovJob' = [ovJob EXCEPT !.at = "remove"]
    /\ UNCHANGED <<ovMedium, ovHeld, ovWriting, ovRunning, ovCollected, ovUsed>>

(* A set, beside the current one: nothing is collected for it.             *)
PublishSet(s) ==
    /\ s \notin ovNamed /\ Cardinality(ovNamed \cap OvSets) = 1
    /\ VerifyHeld(s) /\ Room(s, 0)
    /\ OvBegins("set", s, OvOf[s], {}, "publish")
    /\ UNCHANGED <<ovMedium, ovHeld, ovWriting, ovNamed, ovRunning>>

Collect ==
    /\ OvBegins("gc", "none", {}, Collection((ovNamed \cap OvDeployments) \cup {ovRunning}, {}), "remove")
    /\ UNCHANGED <<ovMedium, ovHeld, ovWriting, ovNamed, ovRunning>>

(* The sets of a confirmed boot: the state first, then what it no longer   *)
(* names.                                                                  *)
SettleSets(s) ==
    /\ Cardinality(ovNamed \cap OvSets) = 2 /\ s \in ovNamed \cap OvSets
    /\ LET named == (ovNamed \cap OvDeployments) \cup {s}
       IN  /\ ovNamed' = named
           /\ OvBegins("settle", "none", {}, ReleaseUnreferenced(named), "remove")
    /\ UNCHANGED <<ovMedium, ovHeld, ovWriting, ovRunning>>

OvEnds(collected) == ovJob' = OvIdle /\ ovCollected' = collected

RemoveOne ==
    /\ ovJob.at = "remove" /\ ovJob.doomed # {}
    /\ \E r \in ovJob.doomed : OvRemove(r) /\ ovJob' = [ovJob EXCEPT !.doomed = @ \ {r}]
    /\ UNCHANGED <<ovMedium, ovNamed, ovRunning, ovCollected, ovUsed>>

Removed ==
    /\ ovJob.at = "remove" /\ ovJob.doomed = {}
    /\ IF ovJob.op = "install" /\ Room(ovJob.unit, 0)
       THEN ovJob' = [ovJob EXCEPT !.at = "publish"] /\ UNCHANGED ovCollected
       ELSE OvEnds(ovJob.op = "gc")
    /\ UNCHANGED <<ovMedium, ovHeld, ovWriting, ovNamed, ovRunning, ovUsed>>

----------------------------------------------------------------------------
(* Publishing an object: its temporary name, its bytes, then its own name. *)

OvNext(o) == ovJob' = [ovJob EXCEPT !.todo = @ \ {o}, !.at = "publish", !.o = "none"]

(* A volume is created at the signed length, and a file empty; renaming    *)
(* moves what is there, whole or not.                                      *)
UbiMkvol(o) == [ovWriting EXCEPT ![o] = "part"]
UbiRename(o) == [ovHeld EXCEPT ![o] = ovWriting[o]]

(* What is held under its name is verified and left.                       *)
PublishHeld(o) ==
    /\ ovJob.at = "publish" /\ o \in ovJob.todo /\ ovHeld[o] # "none"
    /\ IF ovHeld[o] = "whole" THEN OvNext(o) ELSE ovJob' = OvIdle
    /\ UNCHANGED <<ovMedium, ovHeld, ovWriting, ovNamed, ovRunning, ovCollected, ovUsed>>

(* A leftover is removed, and the temporary name created anew.             *)
PublishCreate(o) ==
    /\ ovJob.at = "publish" /\ o \in ovJob.todo /\ ovHeld[o] = "none"
    /\ ovWriting' = UbiMkvol(o)
    /\ ovJob' = [ovJob EXCEPT !.at = "fill", !.o = o]
    /\ UNCHANGED <<ovMedium, ovHeld, ovNamed, ovRunning, ovCollected, ovUsed>>

(* Filled: from memory for a file, by a volume update for a volume, which  *)
(* is marked until its last byte.                                          *)
PublishFill(o) ==
    /\ ovJob.at = "fill" /\ ovJob.o = o
    /\ ovWriting' = [ovWriting EXCEPT ![o] = "filled"]
    /\ ovJob' = [ovJob EXCEPT !.at = "sync", !.o = o]
    /\ UNCHANGED <<ovMedium, ovHeld, ovNamed, ovRunning, ovCollected, ovUsed>>

PublishSync(o) ==
    /\ ovJob.at = "sync" /\ ovJob.o = o
    /\ ovWriting' = [ovWriting EXCEPT ![o] = "whole"]
    /\ ovJob' = [ovJob EXCEPT !.at = "rename", !.o = o]
    /\ UNCHANGED <<ovMedium, ovHeld, ovNamed, ovRunning, ovCollected, ovUsed>>

(* Read back against the signed digest, and renamed.  A volume's name      *)
(* changes in one table update; a file's when its directory is synced.     *)
VerifyVolume(o) == ovWriting[o] \in {"filled", "whole"}

PublishRename(o) ==
    /\ ovJob.at = "rename" /\ ovJob.o = o
    /\ VerifyVolume(o)
    /\ ovHeld' = UbiRename(o)
    /\ ovWriting' = [ovWriting EXCEPT ![o] = "none"]
    /\ IF ovMedium = "ubi" THEN OvNext(o) ELSE ovJob' = [ovJob EXCEPT !.at = "dir", !.o = o]
    /\ UNCHANGED <<ovMedium, ovNamed, ovRunning, ovCollected, ovUsed>>

SyncDir(o) ==
    /\ ovJob.at = "dir" /\ ovJob.o = o
    /\ OvNext(o)
    /\ UNCHANGED <<ovMedium, ovHeld, ovWriting, ovNamed, ovRunning, ovCollected, ovUsed>>

(* Only then is it named: a record for a deployment, the set state for a   *)
(* set.                                                                    *)
Publishes ==
    /\ ovJob.at = "publish" /\ ovJob.todo = {}
    /\ ovNamed' = ovNamed \cup {ovJob.unit}
    /\ OvEnds(FALSE)
    /\ UNCHANGED <<ovMedium, ovHeld, ovWriting, ovRunning, ovUsed>>

----------------------------------------------------------------------------
(* The operation ends where it is: it fails or is killed, or the power is  *)
(* cut, and what was not written out may be lost or a rename undone.       *)

Killed ==
    /\ ovJob # OvIdle
    /\ OvEnds(FALSE)
    /\ UNCHANGED <<ovMedium, ovHeld, ovWriting, ovNamed, ovRunning, ovUsed>>

PowerCut ==
    /\ LET undone == IF ovJob.at = "dir" THEN {ovJob.o} ELSE {}
       IN  \E lost \in SUBSET {o \in OvObjects : "filled" \in {ovHeld[o], ovWriting[o]}}, back \in SUBSET undone :
               LET torn(b, o) == IF b = "filled" THEN (IF o \in lost THEN "part" ELSE "whole") ELSE b
               IN  /\ ovHeld' = [o \in OvObjects |-> IF o \in back THEN "none" ELSE torn(ovHeld[o], o)]
                   /\ ovWriting' = [o \in OvObjects |->
                          IF o \in back THEN torn(ovHeld[o], o) ELSE torn(ovWriting[o], o)]
    /\ ovRunning' \in ovNamed \cap OvDeployments
    /\ OvEnds(FALSE)
    /\ UNCHANGED <<ovMedium, ovNamed, ovUsed>>

OvStep ==
    \/ \E d \in OvDeployments : InstallDeployment(d)
    \/ \E s \in OvSets : PublishSet(s) \/ SettleSets(s)
    \/ RetainEntries \/ Collect \/ RemoveOne \/ Removed \/ Publishes
    \/ \E o \in OvObjects : PublishHeld(o) \/ PublishCreate(o) \/ PublishFill(o) \/ PublishSync(o)
                              \/ PublishRename(o) \/ SyncDir(o)
    \/ Killed \/ PowerCut

OvSpec == OvInit /\ [][OvStep]_ovVars

----------------------------------------------------------------------------
(* Properties.                                                             *)

\* What a record or the set state names is whole on the device, through every cut: an object has
\* its own name only after its bytes are out and read back, and nothing removes one that something
\* retained, or the deployment being installed, is made of (publish_object, collection).
NamedIsWhole == \A u \in ovNamed : \A o \in OvOf[u] : ovHeld[o] = "whole"

\* Installation keeps the reserve free whatever was cut short before and whatever rounding the
\* erase blocks cost (install, publish_set: "insufficient UBI space").
ReserveKept == AvailableLebs * OvLeb >= OvReserve

\* `gc` leaves nothing that no retained deployment and no set names.
GcLeavesOnlyNamed ==
    ovCollected => \A o \in OvObjects : ovHeld[o] # "none" => o \in ObjectPaths(ovNamed)

\* What is named is whole and the reserve stays free.
VolumesSafe == NamedIsWhole /\ ReserveKept

=============================================================================
