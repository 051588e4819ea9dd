----------------------------- MODULE RunkitBoot -----------------------------
(***************************************************************************)
(* The runkit as PID 1 of the initramfs: what it opens, in which order, and*)
(* how a boot it refuses ends (crates/mica-deploy/src/bin/mica-runkit/     *)
(* {init,init/boot,init/mounts}.rs, boot.rs, boot/startup; the ioctls of   *)
(* crates/lifecycle-sys).  Every mount, loop and mapping is made by a      *)
(* worker that may fail before or after its effect, and PID 1 keeps a list *)
(* of what it owns: a refused boot releases exactly that, and only then    *)
(* restarts or powers off.  What it cannot account for it does not touch;  *)
(* it stops feeding the watchdog, which resets the device.                 *)
(***************************************************************************)
EXTENDS Integers, FiniteSets

CONSTANTS
    RkDeployments,  \* the deployments with a boot entry, by number: the loader takes the highest
    RkEntries,      \* the entries at the start: deployment -> boots left, or RkConfirmed
    RkDamages,      \* what may be broken for good: sets of <<kind, deployment or 0>>
    RkTrials,       \* the boots a set alone on trial has left at the start; 0 when none is
    RkStorages,     \* "gpt" or "ubi"
    RkFaults        \* bound: workers, observations and clean-ups that fail for once

RkConfirmed == 99   \* an entry with no counter

VARIABLES
    rkEntry,        \* deployment -> boots left
    rkTrial,        \* boots left to the set alone on trial
    rkDamage,       \* what is broken
    rkStorage,      \* the board's storage
    rkAt,           \* the step of the boot
    rkObject,       \* the signed image being opened
    rkSelected,     \* the deployment the loader launched
    rkAttempt,      \* "none", "taken", or "coreTrial": the set's failure, not the deployment's
    rkError,        \* "none", "own", or "shared"
    rkKernel,       \* what the kernel holds: loops, mappings and mounts
    rkOwned,        \* what PID 1 lists: backing devices, loops, mappings and mounts
    rkUnseen,       \* what no observation could account for
    rkRetired,      \* the deployments retired, with what failed
    rkUsed          \* faults met

rkVars == <<rkEntry, rkTrial, rkDamage, rkStorage, rkAt, rkObject, rkSelected, rkAttempt, rkError,
            rkKernel, rkOwned, rkUnseen, rkRetired, rkUsed>>
rkDevice == <<rkDamage, rkStorage>>

(* The signed images, the device each mount is of, and the mount it is on. *)
RkObjects == {"root", "support", "core"}
NoMap == "none"
DeviceOf == [system |-> "system", data |-> "data", bootState |-> "boot", root |-> "root",
             support |-> "support", core |-> "core", usr |-> "overlay", modules |-> "support",
             machineId |-> "data", initramfs |-> "memory"]
MountedOn == [system |-> "/", data |-> "root", bootState |-> "/", root |-> "/", support |-> "/",
              core |-> "/", usr |-> "root", modules |-> "usr", machineId |-> "root", initramfs |-> "/"]

RkNothing == [loops |-> {}, maps |-> [o \in RkObjects |-> NoMap], mounts |-> {}]
RkOwnsNothing == [backings |-> {}, loops |-> {}, maps |-> {}, mounts |-> {}]

(* A set alone and a deployment are never on trial together                *)
(* (deployments/sets.rs).                                                  *)
RkInit ==
    /\ rkEntry \in RkEntries /\ rkTrial \in RkTrials
    /\ rkTrial > 0 => \A d \in RkDeployments : rkEntry[d] = RkConfirmed
    /\ rkDamage \in RkDamages /\ rkStorage \in RkStorages
    /\ rkAt = "loader" /\ rkObject = "root" /\ rkSelected = 0
    /\ rkAttempt = "none" /\ rkError = "none"
    /\ rkKernel = RkNothing /\ rkOwned = RkOwnsNothing
    /\ rkUnseen = {} /\ rkRetired = {} /\ rkUsed = 0

RkBroken(kind, d) == <<kind, d>> \in rkDamage

----------------------------------------------------------------------------
(* Launching, and the two ways a step goes.                                *)

RkUsable(d) == rkEntry[d] # 0

RkLoad ==
    /\ rkAt = "loader"
    /\ LET usable == {d \in RkDeployments : RkUsable(d)}
       IN  IF usable = {}
           THEN rkAt' = "off" /\ UNCHANGED <<rkEntry, rkSelected>>
           ELSE LET d == CHOOSE x \in usable : \A y \in usable : y <= x
                IN  /\ rkSelected' = d
                    /\ rkEntry' = IF rkEntry[d] = RkConfirmed THEN rkEntry ELSE [rkEntry EXCEPT ![d] = @ - 1]
                    /\ rkAt' = "early"
    /\ rkObject' = "root" /\ rkAttempt' = "none" /\ rkError' = "none"
    /\ rkKernel' = RkNothing /\ rkOwned' = RkOwnsNothing /\ rkUnseen' = {}
    /\ UNCHANGED <<rkTrial, rkDevice, rkRetired, rkUsed>>

RkGoes(at) == rkAt' = at /\ UNCHANGED rkError
RkRefused(class) == rkAt' = "refused" /\ rkError' = class

(* A fault, if there is one left.                                          *)
RkFault == rkUsed < RkFaults /\ rkUsed' = rkUsed + 1

rkRecords == <<rkEntry, rkTrial, rkRetired>>

----------------------------------------------------------------------------
(* Before anything is opened.                                              *)

(* The pseudo-filesystems, the signature policy and the watchdog.  A boot  *)
(* that fails before the watchdog is armed can only stop.                  *)
ArmWatchdog ==
    /\ rkAt = "early"
    /\ rkAt' = IF RkBroken("early", rkSelected) THEN "stopped" ELSE "policy"
    /\ UNCHANGED <<rkRecords, rkDevice, rkObject, rkSelected, rkAttempt, rkError, rkKernel, rkOwned, rkUnseen, rkUsed>>

(* The loader names the entry it launched, as a variable or a property.    *)
SelectedEntry == ~RkBroken("policy", rkSelected)

(* The rest of the policy and the loader's selection: no boot is attempted *)
(* yet, so a failure here retires nothing.                                 *)
SelectDeployment ==
    /\ rkAt = "policy"
    /\ IF SelectedEntry THEN RkGoes("system") ELSE RkRefused("own")
    /\ UNCHANGED <<rkRecords, rkDevice, rkObject, rkSelected, rkAttempt, rkKernel, rkOwned, rkUnseen, rkUsed>>

----------------------------------------------------------------------------
(* Mounts.  The device behind an ext4 mount is listed before the mount is  *)
(* made; a UBIFS mount and the exit ramdisk's tmpfs are listed by          *)
(* observation, the tmpfs even when its worker failed.                     *)

RkAdds(m) == rkKernel' = [rkKernel EXCEPT !.mounts = @ \cup {m}]

Backing(m, made) == [rkOwned EXCEPT !.backings = @ \cup {DeviceOf[m]}]

(* How the worker that mounts m ends: made, or failed with or without it.  *)
WorkerEnds(effect, fails) ==
    \/ effect /\ ~fails /\ UNCHANGED rkUsed
    \/ fails /\ RkFault

MountExt4(m, next, class) ==
    \E effect, fails \in BOOLEAN :
        /\ WorkerEnds(effect, fails)
        /\ rkOwned' = Backing(m, effect /\ ~fails)
        /\ IF effect THEN RkAdds(m) ELSE UNCHANGED rkKernel
        /\ IF fails THEN RkRefused(class) ELSE RkGoes(next)
        /\ UNCHANGED rkUnseen

(* A mount listed by its identity: `seen` when the observation came.       *)
MountListed(m, next, class, always) ==
    \E effect, fails, seen \in BOOLEAN :
        /\ IF ~fails /\ ~seen THEN effect /\ RkFault ELSE WorkerEnds(effect, fails)
        /\ LET listed == effect /\ (IF fails THEN always /\ seen ELSE seen)
           IN  /\ rkOwned' = IF listed THEN [rkOwned EXCEPT !.mounts = @ \cup {m}] ELSE rkOwned
               /\ rkUnseen' = IF effect /\ ~listed THEN rkUnseen \cup {m} ELSE rkUnseen
        /\ IF effect THEN RkAdds(m) ELSE UNCHANGED rkKernel
        /\ IF fails \/ ~seen THEN RkRefused(class) ELSE RkGoes(next)

(* A mount on what is owned already: a bind, or an overlay over the root.  *)
MountOver(m, next, class) ==
    \E effect, fails \in BOOLEAN :
        /\ WorkerEnds(effect, fails)
        /\ IF effect THEN RkAdds(m) ELSE UNCHANGED rkKernel
        /\ IF fails THEN RkRefused(class) ELSE RkGoes(next)
        /\ UNCHANGED <<rkOwned, rkUnseen>>

StorageMount(m, next) ==
    IF rkStorage = "gpt" THEN MountExt4(m, next, "shared") ELSE MountListed(m, next, "shared", FALSE)

(* A partition is one of a table whose checksums hold, looked for for      *)
(* fifteen seconds.                                                        *)
PartitionListed(m) == ~RkBroken(m, 0)
VolumeListed(m) == ~RkBroken(m, 0)
FindPartition(m) == IF rkStorage = "gpt" THEN PartitionListed(m) ELSE VolumeListed(m)

MountSystem ==
    /\ rkAt = "system"
    /\ IF FindPartition("system")
       THEN StorageMount("system", "envelope")
       ELSE RkRefused("shared") /\ UNCHANGED <<rkKernel, rkOwned, rkUnseen, rkUsed>>
    /\ UNCHANGED <<rkRecords, rkDevice, rkObject, rkSelected, rkAttempt>>

(* The boot is attempted: from here its failure is the deployment's.       *)
VerifyDeployment ==
    /\ rkAt = "envelope"
    /\ rkAttempt' = "taken"
    /\ IF RkBroken("envelope", rkSelected) THEN RkRefused("own") ELSE RkGoes("attach")
    /\ UNCHANGED <<rkRecords, rkDevice, rkObject, rkSelected, rkKernel, rkOwned, rkUnseen, rkUsed>>

----------------------------------------------------------------------------
(* A signed image: attached, mapped under its signed table, mounted.       *)

RkWhose(o) == IF o = "core" THEN 0 ELSE rkSelected

VerifiedFileMount ==
    /\ rkAt = "attach" /\ RkBroken(rkObject, RkWhose(rkObject))
    /\ RkRefused("own")
    /\ UNCHANGED <<rkRecords, rkDevice, rkObject, rkSelected, rkAttempt, rkKernel, rkOwned, rkUnseen, rkUsed>>

(* A worker that fails to configure the loop clears it, after reading it   *)
(* back as its own; a clear that fails leaves it.                          *)
LoopAttach(effect, fails) == WorkerEnds(effect, fails)

(* The loop is PID 1's once it has seen the association it asked for.      *)
AttachLoop ==
    /\ rkAt = "attach" /\ rkStorage = "gpt" /\ ~RkBroken(rkObject, RkWhose(rkObject))
    /\ \E effect, fails, seen \in BOOLEAN :
        /\ IF ~fails /\ ~seen THEN effect /\ RkFault ELSE LoopAttach(effect, fails) /\ (fails => seen)
        /\ LET listed == effect /\ ~fails /\ seen
           IN  /\ rkOwned' = IF listed THEN [rkOwned EXCEPT !.loops = @ \cup {rkObject}] ELSE rkOwned
               /\ rkUnseen' = IF effect /\ ~listed THEN rkUnseen \cup {rkObject} ELSE rkUnseen
               /\ IF listed THEN RkGoes("map") ELSE RkRefused("own")
        /\ rkKernel' = IF effect THEN [rkKernel EXCEPT !.loops = @ \cup {rkObject}] ELSE rkKernel
    /\ UNCHANGED <<rkRecords, rkDevice, rkObject, rkSelected, rkAttempt>>

CreateUbiBlock ==
    /\ rkAt = "attach" /\ rkStorage = "ubi" /\ ~RkBroken(rkObject, RkWhose(rkObject))
    /\ \E fails \in BOOLEAN :
        /\ IF fails THEN RkFault /\ RkRefused("own") ELSE UNCHANGED rkUsed /\ RkGoes("map")
    /\ UNCHANGED <<rkRecords, rkDevice, rkObject, rkSelected, rkAttempt, rkKernel, rkOwned, rkUnseen>>

(* How far the worker gets.  One that fails discards what it created,      *)
(* unless that fails too or it was killed.                                 *)
OpenVerity(ends) ==
    CASE ends = "active" -> UNCHANGED rkUsed
      [] ends \in {"none", "created", "activeFailed"} -> RkFault

(* What the kernel then has under the name: a created device that cannot be*)
(* loaded or resumed is discarded.                                         *)
MappingAfter(ends) == CASE ends = "none" -> NoMap [] ends = "created" -> "created" [] OTHER -> "active"

(* A mapping is adopted when its table reads back as the signed one.       *)
VerifyTable(ends, seen) == seen /\ MappingAfter(ends) = "active"

\* Mutant: a worker's failure is passed on before anything is observed
VerityMountUnseen ==
    /\ rkAt = "map"
    /\ \E ends \in {"none", "created", "active", "activeFailed"}, seen \in BOOLEAN :
        /\ seen /\ OpenVerity(ends)
        /\ rkKernel' = [rkKernel EXCEPT !.maps[rkObject] = MappingAfter(ends)]
        /\ rkOwned' = IF ends = "active" THEN [rkOwned EXCEPT !.maps = @ \cup {rkObject}] ELSE rkOwned
        /\ rkUnseen' = IF ends = "created" THEN rkUnseen \cup {rkObject} ELSE rkUnseen
        /\ IF ends = "active" THEN RkGoes("mount") ELSE RkRefused("own")
    /\ UNCHANGED <<rkRecords, rkDevice, rkObject, rkSelected, rkAttempt>>

(* The mapping is observed whatever the worker said, and adopted only when *)
(* it has the signed table.                                                *)
VerityMount ==
    /\ rkAt = "map"
    /\ \E ends \in {"none", "created", "active", "activeFailed"}, seen \in BOOLEAN :
        /\ IF seen THEN OpenVerity(ends) ELSE ends = "active" /\ RkFault
        /\ rkKernel' = [rkKernel EXCEPT !.maps[rkObject] = MappingAfter(ends)]
        /\ LET adopted == VerifyTable(ends, seen)
           IN  /\ rkOwned' = IF adopted THEN [rkOwned EXCEPT !.maps = @ \cup {rkObject}] ELSE rkOwned
               /\ rkUnseen' = IF ends # "none" /\ ~adopted THEN rkUnseen \cup {rkObject} ELSE rkUnseen
        /\ IF ends = "active" /\ seen THEN RkGoes("mount") ELSE RkRefused("own")
    /\ UNCHANGED <<rkRecords, rkDevice, rkObject, rkSelected, rkAttempt>>

AfterMount == CASE rkObject = "root" -> "attach" [] rkObject = "support" -> "data" [] OTHER -> "overlay"

MountVerified ==
    /\ rkAt = "mount"
    /\ MountOver(rkObject, AfterMount, "own")
    /\ rkObject' = IF rkObject = "root" THEN "support" ELSE rkObject
    /\ UNCHANGED <<rkRecords, rkDevice, rkSelected, rkAttempt>>

----------------------------------------------------------------------------
(* DATA, and what is composed over the root.                               *)

MountData ==
    /\ rkAt = "data"
    /\ IF FindPartition("data")
       THEN StorageMount("data", "compose")
       ELSE RkRefused("shared") /\ UNCHANGED <<rkKernel, rkOwned, rkUnseen, rkUsed>>
    /\ UNCHANGED <<rkRecords, rkDevice, rkObject, rkSelected, rkAttempt>>

\* Mutant: the trial's boot is not spent
ComposeUnspent ==
    /\ rkAt = "compose"
    /\ LET tries == rkTrial > 0 /\ ~RkBroken("pendingGone", 0)
       IN  /\ rkAttempt' = IF tries THEN "coreTrial" ELSE rkAttempt
           /\ IF ~tries /\ RkBroken("currentGone", 0) THEN RkRefused("own") ELSE RkGoes("attach")
    /\ rkObject' = "core"
    /\ UNCHANGED <<rkEntry, rkTrial, rkRetired, rkDevice, rkSelected, rkKernel, rkOwned, rkUnseen, rkUsed>>

(* A set alone on trial spends one of its boots before it is looked at; one*)
(* that is not whole is passed over for the current set.                   *)
ComposeSet ==
    /\ rkAt = "compose"
    /\ rkTrial' = IF rkTrial > 0 THEN rkTrial - 1 ELSE 0
    /\ LET tries == rkTrial > 0 /\ ~RkBroken("pendingGone", 0)
       IN  /\ rkAttempt' = IF tries THEN "coreTrial" ELSE rkAttempt
           /\ IF ~tries /\ RkBroken("currentGone", 0) THEN RkRefused("own") ELSE RkGoes("attach")
    /\ rkObject' = "core"
    /\ UNCHANGED <<rkEntry, rkRetired, rkDevice, rkSelected, rkKernel, rkOwned, rkUnseen, rkUsed>>

(* No component may shadow a file of the root.                             *)
CheckComposition ==
    /\ rkAt = "overlay"
    /\ IF rkAttempt = "coreTrial" /\ RkBroken("pendingShadows", 0)
       THEN RkRefused("own") /\ UNCHANGED <<rkKernel, rkOwned, rkUnseen, rkUsed>>
       ELSE MountOver("usr", "bind", "own")
    /\ UNCHANGED <<rkRecords, rkDevice, rkObject, rkSelected, rkAttempt>>

BindModules ==
    /\ rkAt = "bind"
    /\ MountOver("modules", "identity", "own")
    /\ UNCHANGED <<rkRecords, rkDevice, rkObject, rkSelected, rkAttempt>>

(* An OpenRC root, and every root of a UBI board, gets no exit ramdisk.    *)
HandsExitrd == IF rkStorage = "gpt" THEN {"exitrd", "handover"} ELSE {"handover"}

(* The machine identity is made once, on DATA, and bound over the root's.  *)
PersistentMachineId ==
    /\ rkAt = "identity"
    /\ IF RkBroken("identity", 0)
       THEN RkRefused("shared") /\ UNCHANGED <<rkKernel, rkOwned, rkUnseen, rkUsed>>
       ELSE \E next \in HandsExitrd : MountOver("machineId", next, "shared")
    /\ UNCHANGED <<rkRecords, rkDevice, rkObject, rkSelected, rkAttempt>>

----------------------------------------------------------------------------
(* The exit ramdisk, and the hand-over.                                    *)

(* The listed files are there, and each program is one of this machine.    *)
ExitrdListed == ~RkBroken("exitrd", rkSelected)
ExitrdElf == ~RkBroken("exitrdElf", rkSelected)

CopyExitrd ==
    /\ rkAt = "exitrd"
    /\ IF ExitrdElf /\ ExitrdListed
       THEN MountListed("initramfs", "handover", "own", TRUE)
       ELSE RkRefused("own") /\ UNCHANGED <<rkKernel, rkOwned, rkUnseen, rkUsed>>
    /\ UNCHANGED <<rkRecords, rkDevice, rkObject, rkSelected, rkAttempt>>

(* The root's init is there and is executable; PID 1 becomes it.           *)
ValidateTargetInit == ~RkBroken("init", rkSelected)

SwitchRoot ==
    /\ rkAt = "handover"
    /\ IF ValidateTargetInit THEN RkGoes("up") ELSE RkRefused("own")
    /\ UNCHANGED <<rkRecords, rkDevice, rkObject, rkSelected, rkAttempt, rkKernel, rkOwned, rkUnseen, rkUsed>>

----------------------------------------------------------------------------
(* A refused boot.                                                         *)

(* Whose mounts: of a listed device or mapping, listed themselves, or on   *)
(* one that is.                                                            *)
OwnedMounts ==
    LET own == {m \in rkKernel.mounts :
                   DeviceOf[m] \in rkOwned.backings \cup rkOwned.maps \/ m \in rkOwned.mounts}
        on(ms) == ms \cup {m \in rkKernel.mounts : MountedOn[m] \in ms}
    IN  on(on(own))

(* What the release of a refused boot asks of the live state.              *)
AllOwned ==
    /\ rkKernel.loops \subseteq rkOwned.loops
    /\ {o \in RkObjects : rkKernel.maps[o] # NoMap} \subseteq rkOwned.maps
    /\ rkKernel.mounts \subseteq OwnedMounts

RkOther(d) == \E e \in RkDeployments \ {d} : RkUsable(e)

Retires == rkAttempt = "taken" /\ rkError = "own"

(* retire_failed_confirmed: only a confirmed entry, and only with another  *)
(* to fall back to; an entry on trial has had its boot counted already.    *)
RetireFailedConfirmed ==
    LET d == rkSelected
    IN  IF rkEntry[d] # RkConfirmed
        THEN rkAt' = "restart" /\ UNCHANGED <<rkEntry, rkRetired>>
        ELSE IF ~RkOther(d)
             THEN rkAt' = "powerOff" /\ UNCHANGED <<rkEntry, rkRetired>>
             ELSE /\ rkEntry' = [rkEntry EXCEPT ![d] = 0]
                  /\ rkRetired' = rkRetired \cup {[d |-> d, faults |-> rkUsed, trial |-> rkAttempt = "coreTrial"]}
                  /\ rkAt' = "restart"

(* The workers are ended, and the failed entry is retired before anything  *)
(* is released.                                                            *)
CleanUp ==
    /\ rkAt = "refused"
    /\ \/ /\ RkFault /\ rkAt' = "parked"
          /\ UNCHANGED <<rkEntry, rkRetired, rkKernel, rkOwned>>
       \/ /\ IF Retires
             THEN /\ RetireFailedConfirmed
                  /\ IF rkStorage = "gpt"
                     THEN RkAdds("bootState") /\ rkOwned' = Backing("bootState", TRUE)
                     ELSE UNCHANGED <<rkKernel, rkOwned>>
             ELSE /\ rkAt' = IF rkError = "own" /\ rkAttempt = "coreTrial" THEN "restart" ELSE "powerOff"
                  /\ UNCHANGED <<rkEntry, rkRetired, rkKernel, rkOwned>>
          /\ UNCHANGED rkUsed
    /\ UNCHANGED <<rkTrial, rkDevice, rkObject, rkSelected, rkAttempt, rkError, rkUnseen>>

(* Released, it restarts or powers off; what is not accounted for leaves   *)
(* the watchdog to reset the device.                                       *)
FinishRefused ==
    /\ rkAt \in {"restart", "powerOff"}
    /\ rkAt' = IF ~AllOwned THEN "parked" ELSE IF rkAt = "restart" THEN "loader" ELSE "off"
    /\ UNCHANGED <<rkRecords, rkDevice, rkObject, rkSelected, rkAttempt, rkError, rkKernel, rkOwned, rkUnseen, rkUsed>>

WatchdogResets ==
    /\ rkAt = "parked"
    /\ rkAt' = "loader"
    /\ UNCHANGED <<rkRecords, rkDevice, rkObject, rkSelected, rkAttempt, rkError, rkKernel, rkOwned, rkUnseen, rkUsed>>

RkNext ==
    \/ RkLoad \/ ArmWatchdog \/ SelectDeployment \/ MountSystem \/ VerifyDeployment
    \/ VerifiedFileMount \/ AttachLoop \/ CreateUbiBlock \/ VerityMount \/ MountVerified
    \/ MountData \/ ComposeSet \/ CheckComposition \/ BindModules \/ PersistentMachineId
    \/ CopyExitrd \/ SwitchRoot
    \/ CleanUp \/ FinishRefused \/ WatchdogResets

(* PID 1 goes on by itself, and every wait in it is bounded.               *)
RkSpec == RkInit /\ [][RkNext]_rkVars /\ WF_rkVars(RkNext)

----------------------------------------------------------------------------
(* Properties.                                                             *)

\* PID 1 lists everything it made: whatever a worker made before it failed, the boot that is
\* handed over, or the release of the one that is refused, accounts for it, but for a loop, a
\* UBIFS mount or a half-made mapping no observation showed (init/mounts.rs mount, verity_mount).
EverythingOwned ==
    rkAt \in {"refused", "restart", "powerOff", "up"} =>
        /\ rkKernel.loops \ rkUnseen \subseteq rkOwned.loops
        /\ {o \in RkObjects : rkKernel.maps[o] # NoMap} \ rkUnseen \subseteq rkOwned.maps
        /\ rkKernel.mounts \ rkUnseen \subseteq OwnedMounts

\* A deployment is retired for a failure of its own: never for one of a set alone on trial over it
\* (core_set.rs: "A boot that fails with a set alone on trial is the set's failure, never the
\* deployment's"), and never for SYSTEM or DATA, which it shares.  The set it runs over counts as
\* its own: one that is broken retires the deployments over it.
RetiredForItself ==
    \A r \in rkRetired :
        /\ ~r.trial
        /\ \/ r.faults > 0
           \/ \E k \in {"envelope", "root", "support", "exitrd", "exitrdElf", "init"} : RkBroken(k, r.d)
           \/ \E k \in {"currentGone", "core"} : RkBroken(k, 0)

(* The device can be saved: an entry of its own is sound, and what every   *)
(* deployment shares is.                                                   *)
RkSavable ==
    /\ \E d \in RkDeployments : RkUsable(d) /\ \A k \in rkDamage : k[2] # d
    /\ \A k \in rkDamage : k[2] = 0 => k[1] \in {"pendingGone", "pendingShadows"}
    /\ \A k \in rkDamage : k[1] \notin {"early", "policy"}

\* A device with a sound deployment and a sound core set comes up, whatever else is broken and
\* whatever is on trial: each refused boot spends a boot of a trial or retires an entry, so the
\* restarts end (init.rs main; deployments.rs retire_failed_confirmed).  A failure that passes may
\* retire a sound deployment, so the claim is of boots without one.
ComesUpAtLast == RkSavable => <>(rkAt = "up" \/ rkUsed > 0)

\* The device does not restart for ever: it comes up, or it stays off or stopped.
RestartsEnd == <>[](rkAt \in {"up", "off", "stopped"})

\* What a boot made is accounted for, and nothing is retired for another's
\* failure.
RunkitSafe == EverythingOwned /\ RetiredForItself

=============================================================================
