----------------------------- MODULE BootProofs ------------------------------
(***************************************************************************)
(* A device's boots, for any values of the constants.  The redundant boot  *)
(* environment, for every list of records, every flag width and both       *)
(* media: an interruption at any point leaves a readable environment, the  *)
(* read-back agrees with the save, and the two copies implement the        *)
(* register of RecordRegister.  A boot of the runkit: it accounts for      *)
(* every mount, loop device and mapping it makes and retires a deployment  *)
(* for that deployment's own fault only.  A start of micad with its resets *)
(* and recoveries, and the apps it seeds, installs and runs, over any      *)
(* number of cuts.  A shutdown: it releases its storage in order, whatever *)
(* mounts, loop devices and verity mappings lie over one another and       *)
(* whichever operation fails or hangs.  And what it keeps on its media:    *)
(* the receipt of a loader, the objects of the store, the snapshots.       *)
(***************************************************************************)
EXTENDS RunkitBoot, StorageRelease, MCDevice, FiniteSetTheorems, WellFoundedInduction, TLAPS

(***************************************************************************)
(* The redundant boot environment.                                         *)
(***************************************************************************)

\* What a writer between its first byte and its read-back relies on.
WriterInv ==
  /\ pc = "writing" =>
       /\ copies[env.slot].valid
       /\ copies[env.slot].flag = env.flag
       /\ Active = env.slot
  /\ pc = "written" =>
       /\ copies[1 - env.slot].valid
       /\ copies[1 - env.slot].flag = WrappingSucc(env.flag)
       /\ copies[1 - env.slot].records = env.records
       /\ copies[env.slot].valid
       /\ copies[env.slot].flag = env.flag

\* Two valid copies carry neighbouring flags.
Adjacent ==
  (\A slot \in Slots : copies[slot].valid) =>
     \E slot \in Slots : copies[slot].flag = WrappingSucc(copies[1 - slot].flag)

\* The inductive invariant: types, a copy to read, neighbouring flags, and what
\* the writer relies on.
IInv == TypeOK /\ Loads /\ Adjacent /\ WriterInv

-----------------------------------------------------------------------------
\* The flag rule of env_check_redund, wrap included, takes the copy whose flag
\* is the successor of the other's.
LEMMA LaterCopyActive ==
  ASSUME TypeOK, NEW slot \in Slots,
         copies[slot].valid,
         copies[slot].flag = WrappingSucc(copies[1 - slot].flag)
  PROVE  Active = slot
  BY FlagAssumption DEF TypeOK, Slots, Flags, Active, WrappingSucc

\* The active copy of a readable environment is a valid one.
LEMMA ActiveValid ==
  ASSUME TypeOK, Loads
  PROVE  Active \in Slots /\ copies[Active].valid
BY DEF TypeOK, Loads, Active, Slots

\* The next flag is a flag: wrapping_add stays in a byte.
LEMMA WrappingSuccType ==
  ASSUME NEW flag \in Flags
  PROVE  WrappingSucc(flag) \in Flags
BY FlagAssumption DEF Flags, WrappingSucc

\* Tearing a copy leaves two copies, the other one untouched.
LEMMA TornType ==
  ASSUME TypeOK, NEW slot \in Slots
  PROVE  /\ Torn(slot) \in [Slots -> [valid : BOOLEAN, flag : Flags, records : Saved]]
         /\ ~Torn(slot)[slot].valid
         /\ Torn(slot)[1 - slot] = copies[1 - slot]
BY DEF TypeOK, Torn, Copy, Slots

-----------------------------------------------------------------------------
LEMMA InitInv == Init => IInv
  BY WrappingSuccType, FlagAssumption DEF Init, TypeOK, Slots, Copy, Flags, Loads, Adjacent, WriterInv, IInv

LEMMA SaveInv ==
  ASSUME IInv, NEW list \in Lists, Save(list)
  PROVE  IInv'
<1> USE DEF IInv
<1>1. Active \in Slots /\ copies[Active].valid
  BY ActiveValid
<1>2. list \in Saved
  BY DEF Save, Saved
<1>3. TypeOK'
  BY <1>1, <1>2, TornType DEF Save, TypeOK, Slots
<1>4. copies'[Active].valid /\ copies'[Active].flag = copies[Active].flag
  BY <1>1 DEF Save, TypeOK, Slots, Torn, Copy
<1>5. Loads'
  BY <1>1, <1>4 DEF Loads
<1>6. Adjacent'
  BY <1>1 DEF Save, Adjacent, TypeOK, Slots, Torn, Copy
<1>7. Active' = Active
  BY <1>1 DEF Save, Active, TypeOK, Slots, Torn, Copy
<1>8. WriterInv'
  BY <1>1, <1>4, <1>7 DEF Save, WriterInv
<1>9. QED
  BY <1>3, <1>5, <1>6, <1>8

LEMMA CommitInv ==
  ASSUME IInv, Commit
  PROVE  IInv'
<1> USE DEF IInv
<1>1. /\ env.slot \in Slots /\ 1 - env.slot \in Slots
      /\ env.flag \in Flags /\ env.records \in Saved
  BY DEF TypeOK, Slots
<1>2. WrappingSucc(env.flag) \in Flags
  BY <1>1, WrappingSuccType
<1>3. /\ copies'[1 - env.slot] = Copy(TRUE, WrappingSucc(env.flag), env.records)
      /\ copies'[env.slot] = copies[env.slot]
      /\ env' = env /\ pc' = "written"
  <2>1. 1 - env.slot # env.slot
    BY <1>1 DEF Slots
  <2>2. DOMAIN copies = Slots
    BY DEF TypeOK
  <2>3. QED
    BY <1>1, <2>1, <2>2 DEF Commit
<1>4. TypeOK'
  BY <1>1, <1>2, <1>3 DEF Commit, TypeOK, Copy, Slots
<1>5. WriterInv'
  BY <1>1, <1>3 DEF Commit, WriterInv, Copy
<1>6. Loads'
  BY <1>1, <1>5, <1>3 DEF Loads, WriterInv
<1>7. Adjacent'
  BY <1>1, <1>3, <1>5 DEF WriterInv, Copy, Slots, Adjacent
<1>8. QED
  BY <1>4, <1>5, <1>6, <1>7

LEMMA DecayInv ==
  ASSUME IInv, NEW slot \in Slots, Decay(slot)
  PROVE  IInv'
  BY DEF IInv, Decay, TypeOK, Slots, Torn, Copy, Loads, Adjacent, WriterInv

LEMMA StepInv == IInv /\ [Next]_vars => IInv'
  BY SaveInv, CommitInv, DecayInv DEF ReadBack, IInv, TypeOK, Loads, Adjacent, WriterInv, Crash, vars,
     Active, Next

LEMMA Invariant == Spec => []IInv
BY InitInv, StepInv, PTL DEF Spec

-----------------------------------------------------------------------------
\* The copies only ever hold lists that parse, with flags of one byte
\* (fit_env.rs `encode`, `save`).
THEOREM TypeCorrect == Spec => []TypeOK
<1>1. IInv => TypeOK
  BY DEF IInv
<1>2. QED
  BY <1>1, Invariant, PTL

\* Whatever save is interrupted and whichever copy decays, a reader finds
\* records: `load` never bails with "no valid redundant boot environment".
THEOREM RecordsAlwaysLoad == Spec => []AlwaysLoads
<1>1. IInv => AlwaysLoads
  BY DEF IInv, AlwaysLoads
<1>2. QED
  BY <1>1, Invariant, PTL

\* The read-back of `save` always agrees with what was written, whatever the
\* flag was before: the wrap of the flag byte is never misread.
THEOREM ReadBackNeverRefuses == Spec => []ReadBackAgrees
<1>1. IInv => ReadBackAgrees
  BY LaterCopyActive DEF ReadBackAgrees, IInv, TypeOK, Slots, WriterInv, ReadBackOk
<1>2. QED
  BY <1>1, Invariant, PTL

\* Two valid copies always carry neighbouring flags, and a save never touches
\* the copy a reader would take.
THEOREM FlagsStayAdjacent == Spec => []FlagsAdjacent
<1>1. IInv => FlagsAdjacent
  BY DEF IInv, Adjacent, WriterInv, FlagsAdjacent
<1>2. QED
  BY <1>1, Invariant, PTL

\* The whole promise of the redundant environment (fit_env.rs): it parses, it
\* always loads, its flags tell the newer copy, a completed save reads back.
THEOREM EnvironmentIsSafe == Spec => []EnvironmentSafe
<1>1. TypeOK /\ AlwaysLoads /\ FlagsAdjacent /\ ReadBackAgrees => EnvironmentSafe
  BY DEF EnvironmentSafe
<1>2. QED
  BY <1>1, TypeCorrect, RecordsAlwaysLoad, FlagsStayAdjacent,
     ReadBackNeverRefuses, PTL

-----------------------------------------------------------------------------
(* The refinement: a save that starts tears the older copy, a commit moves    *)
(* the register on, a decayed active copy reverts it.                         *)

LEMMA SaveRefines ==
  ASSUME IInv, NEW list \in Lists, Save(list)
  PROVE  Register!Forget \/ UNCHANGED Register!vars
<1>1. Active \in Slots /\ 1 - Active \in Slots /\ copies[Active].valid
  BY ActiveValid DEF IInv, Slots
<1>2. CASE copies' = copies
  BY <1>2 DEF Save, Register!vars, Active
<1>3. CASE copies' = Torn(1 - Active)
  <2>1. copies' = Torn(1 - Active)
    BY <1>3 DEF Save
  <2>2. /\ copies' \in [Slots -> [valid : BOOLEAN, flag : Flags, records : Saved]]
        /\ ~copies'[1 - Active].valid
        /\ copies'[Active] = copies[Active]
    BY <1>1, <2>1, TornType DEF Slots, IInv
  <2>3. Active' = Active
    BY <1>1, <2>2 DEF Active, Slots
  <2>4. QED
    BY <2>2, <2>3 DEF Register!Forget
<1>4. QED
  BY <1>2, <1>3 DEF Save

LEMMA CommitRefines ==
  ASSUME IInv, IInv', Commit
  PROVE  Register!Write(env.records) /\ env.records \in Saved
  BY FlagAssumption DEF IInv, TypeOK, Slots, WriterInv, Commit, Copy, Active, WrappingSucc, Flags,
     Register!Write

LEMMA DecayRefines ==
  ASSUME IInv, NEW slot \in Slots, Decay(slot)
  PROVE  Register!Forget \/ Register!Revert
  BY TornType, NoneAssumption, ActiveValid DEF Slots, Decay, IInv, Active, TypeOK, Saved, Register!Revert,
     Register!Forget

\* The two copies implement the register the deployment store is built on:
\* every save is atomic under any interruption, for both media.
THEOREM EnvironmentImplementsRegister == Spec => ImplementsRegister
<1>1. Init => Register!Init
  BY InitInv, ActiveValid DEF IInv, Slots, TypeOK, Register!Init
<1>2. IInv /\ IInv' /\ [Next]_vars => [Register!Next]_(Register!vars)
  BY SaveRefines, CommitRefines, DecayRefines DEF Register!Next, ReadBack, Crash, vars, Register!vars,
     Active, Next
<1>3. QED
  BY <1>1, <1>2, Invariant, PTL DEF Spec, ImplementsRegister, Register!Spec

(***************************************************************************)
(* A boot of the runkit.  What is mounted is accounted for by what it lies *)
(* on, so the invariant follows how far the boot has come.                 *)
(***************************************************************************)

\* The shapes of what the kernel holds and of what PID 1 lists.
RkMounts == DOMAIN DeviceOf
RkShapes ==
  /\ rkObject \in RkObjects /\ rkUsed \in Nat
  /\ rkKernel \in [loops : SUBSET RkObjects, maps : [RkObjects -> {NoMap, "created", "active"}],
                   mounts : SUBSET RkMounts]
  /\ rkOwned \in [backings : SUBSET {"system", "data", "boot"}, loops : SUBSET RkObjects, maps : SUBSET RkObjects,
                  mounts : SUBSET RkMounts]

\* What each thing the kernel holds lies on.
RkListed ==
  /\ rkKernel.loops \subseteq rkOwned.loops \cup rkUnseen
  /\ \A o \in RkObjects : rkKernel.maps[o] # NoMap => o \in rkOwned.maps \cup rkUnseen
  /\ \A m \in {"system", "data", "initramfs"} \cap rkKernel.mounts :
       DeviceOf[m] \in rkOwned.backings \/ m \in rkOwned.mounts \cup rkUnseen
  /\ "bootState" \in rkKernel.mounts => "boot" \in rkOwned.backings
  /\ rkKernel.mounts \cap RkObjects \subseteq rkOwned.maps
  /\ "modules" \in rkKernel.mounts => "support" \in rkOwned.maps
  /\ {"usr", "machineId"} \cap rkKernel.mounts # {} => "root" \in rkKernel.mounts

\* How far the boot has come.
RkReached ==
  /\ rkAt \in {"early", "policy", "system", "envelope"} => rkObject = "root" /\ rkAttempt = "none"
  /\ rkAt = "mount" => rkObject \in rkOwned.maps
  /\ \/ rkAt \in {"data", "compose", "overlay", "bind", "identity"}
     \/ rkAt \in {"attach", "map", "mount"} /\ rkObject # "root"
     => "root" \in rkKernel.mounts
  /\ \/ rkAt \in {"data", "compose", "overlay", "bind"}
     \/ rkAt \in {"attach", "map", "mount"} /\ rkObject = "core"
     => "support" \in rkOwned.maps
  /\ rkAt = "overlay" => rkObject = "core"

\* A failure that is the deployment's has its cause in it, or in the set it runs over.
RkCause(d) ==
  \/ \E k \in {"envelope", "root", "support", "exitrd", "exitrdElf", "init"} : RkBroken(k, d)
  \/ \E k \in {"currentGone", "core"} : RkBroken(k, 0)
RkBlame ==
  rkAt = "refused" /\ rkAttempt = "taken" /\ rkError = "own" => rkUsed > 0 \/ RkCause(rkSelected)

RkInv == RkShapes /\ RkListed /\ RkReached /\ RkBlame /\ RetiredForItself

\* The table of the mounts.
LEMMA RkTable ==
  /\ RkMounts = {"system", "data", "bootState", "root", "support", "core", "usr", "modules", "machineId", "initramfs"}
  /\ DeviceOf["system"] = "system" /\ DeviceOf["data"] = "data" /\ DeviceOf["bootState"] = "boot"
  /\ \A o \in RkObjects : DeviceOf[o] = o /\ o \in RkMounts
  /\ DeviceOf["usr"] = "overlay" /\ DeviceOf["modules"] = "support"
  /\ DeviceOf["machineId"] = "data" /\ DeviceOf["initramfs"] = "memory"
  /\ MountedOn["usr"] = "root" /\ MountedOn["machineId"] = "root"
BY DEF RkMounts, DeviceOf, MountedOn, RkObjects

\* The invariant accounts for everything.
LEMMA RkAccounted ==
  ASSUME RkShapes, RkListed
  PROVE  EverythingOwned
<1> DEFINE own == {m \in rkKernel.mounts :
                     DeviceOf[m] \in rkOwned.backings \cup rkOwned.maps \/ m \in rkOwned.mounts}
           on(ms) == ms \cup {m \in rkKernel.mounts : MountedOn[m] \in ms}
<1>1. OwnedMounts = on(on(own))
  BY DEF OwnedMounts
<1>2. own \subseteq OwnedMounts /\ \A m \in rkKernel.mounts : MountedOn[m] \in own => m \in OwnedMounts
  BY <1>1
<1>3. ASSUME NEW m \in rkKernel.mounts, m \notin rkUnseen
      PROVE  m \in OwnedMounts
  BY <1>2, <1>3, RkTable DEF RkShapes, RkListed, RkObjects
<1> HIDE DEF own, on
<1> QED BY <1>3 DEF EverythingOwned, RkListed

\* Steps that open nothing.
LEMMA RkQuietSteps ==
  ASSUME RkInv,
         \/ ArmWatchdog \/ SelectDeployment \/ VerifyDeployment \/ VerifiedFileMount
         \/ CreateUbiBlock \/ ComposeSet \/ SwitchRoot \/ FinishRefused \/ WatchdogResets \/ UNCHANGED rkVars
  PROVE  RkInv'
<1> USE DEF RkInv
<1>1. UNCHANGED <<rkKernel, rkOwned, rkUnseen, rkRetired, rkDamage>>
  BY DEF ArmWatchdog, SelectDeployment, VerifyDeployment, VerifiedFileMount, CreateUbiBlock, ComposeSet,
         SwitchRoot, FinishRefused, WatchdogResets, rkVars, rkRecords, rkDevice
<1>2. rkObject' \in RkObjects /\ rkUsed' \in Nat /\ rkUsed' >= rkUsed
  BY DEF ArmWatchdog, SelectDeployment, VerifyDeployment, VerifiedFileMount, CreateUbiBlock, ComposeSet,
         SwitchRoot, FinishRefused, WatchdogResets, rkVars, rkRecords, rkDevice, RkShapes, RkObjects, RkFault
<1>3. RkShapes' /\ RkListed'
  BY <1>1, <1>2 DEF RkShapes, RkListed
<1>4. RkReached'
  BY <1>1 DEF ArmWatchdog, SelectDeployment, VerifyDeployment, VerifiedFileMount, CreateUbiBlock, ComposeSet,
         SwitchRoot, FinishRefused, WatchdogResets, rkVars, rkRecords, RkReached, RkGoes, RkRefused
<1>5. RkBlame'
  <2>0. \A k, d : RkBroken(k, d)' <=> RkBroken(k, d)
    BY <1>1 DEF RkBroken
  <2>1. CASE VerifiedFileMount
    BY <2>0, <2>1 DEF VerifiedFileMount, RkBlame, RkCause, RkWhose, RkShapes, RkObjects, RkRefused, RkBroken
  <2>2. CASE ComposeSet
    BY <2>0, <2>2 DEF ComposeSet, RkBlame, RkCause, RkGoes, RkRefused, RkBroken
  <2>3. CASE CreateUbiBlock
    BY <2>3 DEF CreateUbiBlock, RkBlame, RkGoes, RkRefused, RkFault, RkShapes
  <2>4. CASE VerifyDeployment
    BY <2>0, <2>4 DEF VerifyDeployment, RkBlame, RkCause, RkGoes, RkRefused, RkBroken
  <2>5. CASE SwitchRoot
    BY <2>0, <2>5 DEF SwitchRoot, ValidateTargetInit, RkBlame, RkCause, RkGoes, RkRefused, RkBroken
  <2>6. CASE SelectDeployment
    BY <2>6 DEF SelectDeployment, RkBlame, RkGoes, RkRefused, RkReached
  <2>7. CASE ArmWatchdog \/ FinishRefused \/ WatchdogResets
    BY <2>7 DEF ArmWatchdog, FinishRefused, WatchdogResets, RkBlame
  <2>8. CASE UNCHANGED rkVars
    BY <2>8 DEF rkVars, RkBlame, RkCause, RkBroken
  <2> QED BY <2>1, <2>2, <2>3, <2>4, <2>5, <2>6, <2>7, <2>8
<1>6. RetiredForItself'
  BY <1>1 DEF RetiredForItself, RkBroken
<1> QED BY <1>3, <1>4, <1>5, <1>6

\* A loader starts over with nothing open.
LEMMA RkLoads ==
  ASSUME RkInv, RkLoad
  PROVE  RkInv'
  BY DEF RkInv, RkLoad, rkDevice, RkShapes, RkNothing, RkOwnsNothing, RkObjects, NoMap, RkListed, RkReached,
     RkBlame, RetiredForItself, RkBroken

\* A mount is made, or not: what the kernel and PID 1's list are after it.
LEMMA RkMakes ==
  ASSUME RkShapes, NEW m \in RkMounts,
         RkAdds(m) \/ UNCHANGED rkKernel
  PROVE  /\ rkKernel' \in [loops : SUBSET RkObjects, maps : [RkObjects -> {NoMap, "created", "active"}],
                           mounts : SUBSET RkMounts]
         /\ rkKernel'.loops = rkKernel.loops /\ rkKernel'.maps = rkKernel.maps
         /\ rkKernel.mounts \subseteq rkKernel'.mounts
         /\ rkKernel'.mounts \subseteq rkKernel.mounts \cup {m}
BY DEF RkShapes, RkAdds

\* A fault is counted.
LEMMA RkCounts ==
  ASSUME RkShapes, RkFault \/ UNCHANGED rkUsed
  PROVE  rkUsed' \in Nat /\ (RkFault => rkUsed' > 0)
BY DEF RkShapes, RkFault

\* Each kind of mount: what is made is accounted for, if what it lies on is; the boot goes on,
\* or is refused, for a cause that passes.
LEMMA RkMountsExt4 ==
  ASSUME RkInv, NEW m \in {"system", "data", "bootState"}, NEW next, NEW class, MountExt4(m, next, class)
  PROVE  /\ RkListed'
         /\ rkKernel' \in [loops : SUBSET RkObjects, maps : [RkObjects -> {NoMap, "created", "active"}],
                           mounts : SUBSET RkMounts]
         /\ rkOwned' \in [backings : SUBSET {"system", "data", "boot"}, loops : SUBSET RkObjects, maps : SUBSET RkObjects,
                          mounts : SUBSET RkMounts]
         /\ rkKernel.mounts \subseteq rkKernel'.mounts /\ rkOwned'.maps = rkOwned.maps
         /\ rkUsed' \in Nat
         /\ rkAt' = next \/ (rkAt' = "refused" /\ rkError' = class /\ rkUsed' > 0)
  BY RkTable, RkMakes, RkCounts DEF RkInv, MountExt4, Backing, RkShapes, WorkerEnds, RkRefused, RkGoes,
     RkListed, RkObjects

\* A mount the mount table of the worker lists: listed among what the boot owns, or made by a
\* worker that could not tell of it and so among what is unseen.
LEMMA RkMountsListed ==
  ASSUME RkInv, NEW m \in {"system", "data", "initramfs"}, NEW next, NEW class, NEW always \in BOOLEAN,
         MountListed(m, next, class, always)
  PROVE  /\ RkListed'
         /\ rkKernel' \in [loops : SUBSET RkObjects, maps : [RkObjects -> {NoMap, "created", "active"}],
                           mounts : SUBSET RkMounts]
         /\ rkOwned' \in [backings : SUBSET {"system", "data", "boot"}, loops : SUBSET RkObjects, maps : SUBSET RkObjects,
                          mounts : SUBSET RkMounts]
         /\ rkKernel.mounts \subseteq rkKernel'.mounts /\ rkOwned'.maps = rkOwned.maps
         /\ rkUsed' \in Nat
         /\ rkAt' = next \/ (rkAt' = "refused" /\ rkError' = class /\ rkUsed' > 0)
  BY RkTable, RkMakes, RkCounts DEF RkInv, MountListed, RkShapes, WorkerEnds, RkRefused, RkGoes, RkListed,
     RkObjects

\* A mount laid over one there is already, the same way.
LEMMA RkMountsOver ==
  ASSUME RkInv, NEW m \in RkObjects \cup {"usr", "modules", "machineId"}, NEW next, NEW class,
         MountOver(m, next, class),
         m \in RkObjects => m \in rkOwned.maps,
         m = "modules" => "support" \in rkOwned.maps,
         m \in {"usr", "machineId"} => "root" \in rkKernel.mounts
  PROVE  /\ RkListed'
         /\ rkKernel' \in [loops : SUBSET RkObjects, maps : [RkObjects -> {NoMap, "created", "active"}],
                           mounts : SUBSET RkMounts]
         /\ rkOwned' = rkOwned
         /\ rkKernel.mounts \subseteq rkKernel'.mounts /\ (rkAt' # "refused" => m \in rkKernel'.mounts)
         /\ rkUsed' \in Nat
         /\ rkAt' = next \/ (rkAt' = "refused" /\ rkError' = class /\ rkUsed' > 0)
  BY RkTable, RkMakes, RkCounts DEF RkInv, MountOver, WorkerEnds, RkAdds, RkRefused, RkShapes, RkGoes,
     RkListed, RkObjects

\* What a mount leaves to show of its step.
LEMMA RkAfterMount ==
  ASSUME RkInv, RkListed', RkReached', rkObject' \in RkObjects, rkUsed' \in Nat,
         rkKernel' \in [loops : SUBSET RkObjects, maps : [RkObjects -> {NoMap, "created", "active"}],
                        mounts : SUBSET RkMounts],
         rkOwned' \in [backings : SUBSET {"system", "data", "boot"}, loops : SUBSET RkObjects,
                       maps : SUBSET RkObjects, mounts : SUBSET RkMounts],
         UNCHANGED <<rkRetired, rkDamage>>,
         rkAt' = "refused" => rkUsed' > 0 \/ rkError' # "own" \/ rkAttempt' # "taken" \/ RkCause(rkSelected)'
  PROVE  RkInv'
  BY DEF RkShapes, RkBlame, RkInv, RetiredForItself, RkBroken

\* The mounts of the system and of the data.
LEMMA RkStorageStep ==
  ASSUME RkInv, MountSystem \/ MountData
  PROVE  RkInv'
<1> USE DEF RkInv
<1>1. UNCHANGED <<rkRetired, rkDamage, rkObject>> /\ rkObject \in RkObjects
  BY DEF MountSystem, MountData, rkRecords, rkDevice, RkShapes
<1>2. PICK m \in {"system", "data"}, next \in {"envelope", "compose"} :
        /\ (m = "system" /\ next = "envelope" /\ rkAt = "system") \/ (m = "data" /\ next = "compose" /\ rkAt = "data")
        /\ \/ MountExt4(m, next, "shared") \/ MountListed(m, next, "shared", FALSE)
           \/ RkRefused("shared") /\ UNCHANGED <<rkKernel, rkOwned, rkUnseen, rkUsed>>
        /\ UNCHANGED rkAttempt
  BY DEF MountSystem, MountData, StorageMount
<1>3. /\ RkListed'
      /\ rkKernel' \in [loops : SUBSET RkObjects, maps : [RkObjects -> {NoMap, "created", "active"}],
                        mounts : SUBSET RkMounts]
      /\ rkOwned' \in [backings : SUBSET {"system", "data", "boot"}, loops : SUBSET RkObjects,
                       maps : SUBSET RkObjects, mounts : SUBSET RkMounts]
      /\ rkKernel.mounts \subseteq rkKernel'.mounts /\ rkOwned'.maps = rkOwned.maps
      /\ rkUsed' \in Nat
      /\ rkAt' = next \/ (rkAt' = "refused" /\ rkError' = "shared")
  <2>1. CASE MountExt4(m, next, "shared")
    BY <2>1, RkMountsExt4
  <2>2. CASE MountListed(m, next, "shared", FALSE)
    BY <2>2, RkMountsListed
  <2>3. CASE RkRefused("shared") /\ UNCHANGED <<rkKernel, rkOwned, rkUnseen, rkUsed>>
    BY <2>3 DEF RkRefused, RkListed, RkShapes
  <2> QED BY <1>2, <2>1, <2>2, <2>3
<1>4. RkReached'
  BY <1>1, <1>2, <1>3 DEF RkReached
<1> QED BY <1>1, <1>3, <1>4, RkAfterMount

\* A loop device of an image, listed or the cause of a refusal.
LEMMA RkLoopStep ==
  ASSUME RkInv, AttachLoop
  PROVE  RkInv'
<1> USE DEF RkInv
<1>1. UNCHANGED <<rkRetired, rkDamage, rkObject>> /\ rkObject \in RkObjects /\ rkAt = "attach"
  BY DEF AttachLoop, rkRecords, rkDevice, RkShapes
<1>2. PICK effect \in BOOLEAN, fails \in BOOLEAN, seen \in BOOLEAN :
        /\ IF ~fails /\ ~seen THEN effect /\ RkFault ELSE LoopAttach(effect, fails) /\ (fails => seen)
        /\ LET listed == effect /\ ~fails /\ seen
           IN  /\ rkOwned' = IF listed THEN [rkOwned EXCEPT !.loops = @ \cup {rkObject}] ELSE rkOwned
               /\ rkUnseen' = IF effect /\ ~listed THEN rkUnseen \cup {rkObject} ELSE rkUnseen
               /\ IF listed THEN RkGoes("map") ELSE RkRefused("own")
        /\ rkKernel' = IF effect THEN [rkKernel EXCEPT !.loops = @ \cup {rkObject}] ELSE rkKernel
  BY DEF AttachLoop
<1>3. /\ rkKernel' \in [loops : SUBSET RkObjects, maps : [RkObjects -> {NoMap, "created", "active"}],
                        mounts : SUBSET RkMounts]
      /\ rkKernel'.maps = rkKernel.maps /\ rkKernel'.mounts = rkKernel.mounts
      /\ rkKernel'.loops = IF effect THEN rkKernel.loops \cup {rkObject} ELSE rkKernel.loops
  BY <1>1, <1>2 DEF RkShapes
<1>4. /\ rkOwned' \in [backings : SUBSET {"system", "data", "boot"}, loops : SUBSET RkObjects,
                       maps : SUBSET RkObjects, mounts : SUBSET RkMounts]
      /\ rkOwned'.maps = rkOwned.maps /\ rkOwned'.mounts = rkOwned.mounts /\ rkOwned'.backings = rkOwned.backings
      /\ rkOwned.loops \subseteq rkOwned'.loops /\ rkUnseen \subseteq rkUnseen'
      /\ effect => rkObject \in rkOwned'.loops \cup rkUnseen'
  BY <1>1, <1>2 DEF RkShapes
<1>5. rkUsed' \in Nat /\ (rkAt' = "map" \/ (rkAt' = "refused" /\ rkUsed' > 0))
  BY <1>2, RkCounts DEF LoopAttach, WorkerEnds, RkGoes, RkRefused
<1>6. RkListed'
  BY <1>3, <1>4 DEF RkListed
<1>7. RkReached'
  BY <1>1, <1>3, <1>4, <1>5 DEF RkReached
<1> QED BY <1>1, <1>3, <1>4, <1>5, <1>6, <1>7, RkAfterMount

\* The verity mapping of an image lies on its loop device, or on its ubiblock.
LEMMA RkVerityStep ==
  ASSUME RkInv, VerityMount
  PROVE  RkInv'
<1> USE DEF RkInv
<1>1. UNCHANGED <<rkRetired, rkDamage, rkObject>> /\ rkObject \in RkObjects /\ rkAt = "map"
  BY DEF VerityMount, rkRecords, rkDevice, RkShapes
<1>2. PICK ends \in {"none", "created", "active", "activeFailed"}, seen \in BOOLEAN :
        /\ IF seen THEN OpenVerity(ends) ELSE ends = "active" /\ RkFault
        /\ rkKernel' = [rkKernel EXCEPT !.maps[rkObject] = MappingAfter(ends)]
        /\ LET adopted == VerifyTable(ends, seen)
           IN  /\ rkOwned' = IF adopted THEN [rkOwned EXCEPT !.maps = @ \cup {rkObject}] ELSE rkOwned
               /\ rkUnseen' = IF ends # "none" /\ ~adopted THEN rkUnseen \cup {rkObject} ELSE rkUnseen
        /\ IF ends = "active" /\ seen THEN RkGoes("mount") ELSE RkRefused("own")
  BY DEF VerityMount
<1>3. /\ MappingAfter(ends) \in {NoMap, "created", "active"}
      /\ MappingAfter(ends) # NoMap => ends # "none"
      /\ ends = "active" /\ seen => VerifyTable(ends, seen)
  BY DEF MappingAfter, NoMap, VerifyTable
<1>4. PICK a \in {NoMap, "created", "active"} : a = MappingAfter(ends)
  BY <1>3
<1>5. /\ rkKernel' \in [loops : SUBSET RkObjects, maps : [RkObjects -> {NoMap, "created", "active"}],
                        mounts : SUBSET RkMounts]
      /\ rkKernel'.loops = rkKernel.loops /\ rkKernel'.mounts = rkKernel.mounts
      /\ rkKernel'.maps = [rkKernel.maps EXCEPT ![rkObject] = a]
  BY <1>1, <1>2, <1>4 DEF RkShapes
<1>6. /\ rkOwned' \in [backings : SUBSET {"system", "data", "boot"}, loops : SUBSET RkObjects,
                       maps : SUBSET RkObjects, mounts : SUBSET RkMounts]
      /\ rkOwned'.loops = rkOwned.loops /\ rkOwned'.mounts = rkOwned.mounts /\ rkOwned'.backings = rkOwned.backings
      /\ rkOwned.maps \subseteq rkOwned'.maps /\ rkUnseen \subseteq rkUnseen'
      /\ ends # "none" => rkObject \in rkOwned'.maps \cup rkUnseen'
      /\ VerifyTable(ends, seen) => rkObject \in rkOwned'.maps
  BY <1>1, <1>2 DEF RkShapes
<1>7. /\ rkUsed' \in Nat
      /\ \/ rkAt' = "mount" /\ ends = "active" /\ seen
         \/ rkAt' = "refused" /\ rkUsed' > 0
  BY <1>2, RkCounts DEF OpenVerity, RkGoes, RkRefused
<1>8. RkListed'
  BY <1>1, <1>3, <1>4, <1>5, <1>6 DEF RkListed, RkShapes
<1>9. RkReached'
  BY <1>1, <1>3, <1>5, <1>6, <1>7 DEF RkReached
<1> QED BY <1>1, <1>5, <1>6, <1>7, <1>8, <1>9, RkAfterMount

\* The mount of an image whose mapping verified it.
LEMMA RkVerifiedStep ==
  ASSUME RkInv, MountVerified
  PROVE  RkInv'
  BY RkMountsOver, RkAfterMount DEF RkInv, MountVerified, rkRecords, rkDevice, RkShapes, RkReached,
     AfterMount, RkObjects

\* The composition of the set: the core over the root, and the mounts within it.
LEMMA RkComposeStep ==
  ASSUME RkInv, CheckComposition \/ BindModules \/ PersistentMachineId
  PROVE  RkInv'
  BY RkAfterMount, RkMountsOver DEF RkInv, CheckComposition, BindModules, PersistentMachineId, rkRecords,
     rkDevice, RkShapes, RkReached, HandsExitrd, RkRefused, RkListed, RkObjects

\* The copy that the shutdown returns to.
LEMMA RkExitrdStep ==
  ASSUME RkInv, CopyExitrd
  PROVE  RkInv'
<1> USE DEF RkInv
<1>1. UNCHANGED <<rkRetired, rkDamage, rkObject, rkAttempt, rkSelected>> /\ rkObject \in RkObjects
  BY DEF CopyExitrd, rkRecords, rkDevice, RkShapes
<1>2. CASE ExitrdElf /\ ExitrdListed
  <2>1. PICK yes \in BOOLEAN : yes = TRUE
    OBVIOUS
  <2>2. MountListed("initramfs", "handover", "own", yes)
    BY <1>2, <2>1 DEF CopyExitrd
  <2>3. /\ RkListed'
        /\ rkKernel' \in [loops : SUBSET RkObjects, maps : [RkObjects -> {NoMap, "created", "active"}],
                          mounts : SUBSET RkMounts]
        /\ rkOwned' \in [backings : SUBSET {"system", "data", "boot"}, loops : SUBSET RkObjects,
                         maps : SUBSET RkObjects, mounts : SUBSET RkMounts]
        /\ rkUsed' \in Nat
        /\ rkAt' = "handover" \/ (rkAt' = "refused" /\ rkError' = "own" /\ rkUsed' > 0)
    BY <2>2, RkMountsListed
  <2>4. RkReached'
    BY <2>3 DEF RkReached
  <2> QED BY <1>1, <2>3, <2>4, RkAfterMount
<1>3. CASE ~(ExitrdElf /\ ExitrdListed)
  BY <1>3, <1>1, RkAfterMount DEF CopyExitrd, RkRefused, ExitrdElf, ExitrdListed, RkCause, RkBroken,
     RkListed, RkReached, RkShapes
<1> QED BY <1>2, <1>3

\* The failed entry is retired for its own failure, and what that mounts is listed.
LEMMA RkCleansUp ==
  ASSUME RkInv, CleanUp
  PROVE  RkInv'
<1> USE DEF RkInv
<1>a. /\ UNCHANGED <<rkDamage, rkObject, rkAttempt, rkError, rkSelected, rkUnseen>> /\ rkAt = "refused"
      /\ RkFault \/ UNCHANGED rkUsed
  BY Zenon DEF CleanUp, rkDevice
<1>b. rkUsed' \in Nat
  BY <1>a, RkCounts
<1>1. UNCHANGED <<rkDamage, rkObject, rkAttempt, rkError, rkSelected, rkUnseen>> /\ rkAt = "refused"
      /\ rkUsed' \in Nat
  BY <1>a, <1>b
<1>2. rkAt' \in {"parked", "restart", "powerOff"}
  BY DEF CleanUp, RetireFailedConfirmed
<1>3. \/ UNCHANGED <<rkKernel, rkOwned>>
      \/ RkAdds("bootState") /\ rkOwned' = Backing("bootState", TRUE)
  BY DEF CleanUp
<1>4. \/ rkRetired' = rkRetired
      \/ /\ rkRetired' = rkRetired \cup {[d |-> rkSelected, faults |-> rkUsed, trial |-> rkAttempt = "coreTrial"]}
         /\ Retires
  BY DEF CleanUp, RetireFailedConfirmed
<1>5. RkShapes' /\ RkListed'
  BY <1>1, RkTable, RkMakes, <1>3 DEF RkShapes, RkListed, Backing, RkObjects
<1>6. RkReached' /\ RkBlame'
  BY <1>2 DEF RkReached, RkBlame
<1>7. RetiredForItself'
  <2> SUFFICES ASSUME NEW r \in rkRetired'
               PROVE  ~r.trial /\ (r.faults > 0 \/ RkCause(r.d))
    BY <1>1 DEF RetiredForItself, RkCause, RkBroken
  <2>1. CASE r \in rkRetired
    BY <2>1 DEF RetiredForItself, RkCause
  <2>2. CASE r \notin rkRetired
    <3>1. r = [d |-> rkSelected, faults |-> rkUsed, trial |-> rkAttempt = "coreTrial"] /\ Retires
      BY <1>4, <2>2
    <3>2. rkAttempt = "taken" /\ (rkUsed > 0 \/ RkCause(rkSelected))
      BY <1>1, <3>1 DEF Retires, RkBlame
    <3>3. r.d = rkSelected /\ r.faults = rkUsed
      BY <3>1
    <3>4. r.trial = (rkAttempt = "coreTrial")
      BY <3>1
    <3>5. ~(rkAttempt = "coreTrial")
      BY <3>2
    <3>6. ~r.trial
      BY <3>4, <3>5, Zenon
    <3> QED BY <3>2, <3>3, <3>6
  <2> QED BY <2>1, <2>2
<1> QED BY <1>5, <1>6, <1>7

\* What a boot made is accounted for when it is handed over or refused, and no deployment is
\* retired for another's failure: for any deployments, entries, damages, storages and faults
\* (the runkit's init and boot.rs, Deployments::retire_failed_confirmed).
THEOREM RunkitIsSafe == RkSpec => []RunkitSafe
<1>1. RkInit => RkInv
  BY DEF RkInit, RkShapes, RkListed, RkNothing, RkOwnsNothing, RkObjects, NoMap, RkReached, RkBlame,
     RetiredForItself, RkInv
<1>2. RkInv /\ [RkNext]_rkVars => RkInv'
  BY RkQuietSteps, RkLoads, RkStorageStep, RkLoopStep, RkVerityStep, RkVerifiedStep, RkComposeStep,
     RkExitrdStep, RkCleansUp DEF RkNext
<1>3. RkInv => RunkitSafe
  BY RkAccounted DEF RkInv, RunkitSafe
<1> QED BY <1>1, <1>2, <1>3, PTL DEF RkSpec

(***************************************************************************)
(* The release of the storage: the invariant adds that the operation under *)
(* way is on something nothing depends on any more, and that nothing is    *)
(* left once the release has ended.                                        *)
(***************************************************************************)

\* What holds between the steps of a release: the operation on its way is one that
\* nothing has overtaken, and whoever may end the device has an empty storage.
RelInv ==
  /\ ReleaseSafe
  /\ clock \in Nat /\ fed \in Nat
  /\ rel \in {"sync mount", "operate", "hung operation"} => chosen \in Candidates
  /\ rel = "released" => Empty
  /\ device = "gone" => rel = "released"

\* Everything is mounted, mapped and looped over what it needs.
LEMMA RelInitInv == RelInit => RelInv
  BY RelAssumption DEF RelInit, RelTypeOK, MaxPasses, ParentOf, MountedDevice, ReleasedInOrder, RelInv,
     ReleaseSafe, ReleasedFirst

\* What a candidate is, one kind at a time.
LEMMA CandidateKinds ==
  ASSUME NEW c, c \in Candidates
  PROVE \/ \E m \in mounted \ movedOut : Leaf(m) /\ c = <<"move", m>>
        \/ \E m \in mounted : Leaf(m) /\ ~BackingInUse(m) /\ c = <<"unmount", m>>
        \/ \E v \in mapped : ~MountedDevice(v) /\ c = <<"unmap", v>>
        \/ \E l \in looped : ~MountedDevice(l) /\ ~LoopHeld(l) /\ c = <<"detach", l>>
  BY Zenon DEF Candidates

\* A step that leaves the storage, the users and the clock alone.
LEMMA RelStorageKept ==
  ASSUME RelInv, UNCHANGED <<relStorage, users, relTime, chosen>>,
         pass' \in 1..MaxPasses, device' \in {"on", "gone", "reset"},
         rel' \in {"sync mount", "operate", "hung operation"} => chosen \in Candidates,
         rel' = "released" => Empty,
         device' = "gone" => rel' = "released"
  PROVE RelInv'
  BY DEF relStorage, relTime, RelInv, ReleaseSafe, Empty, Candidates, Leaf, ParentOf, BackingInUse,
     MountedDevice, LoopHeld, ReleasedInOrder, RelTypeOK, ReleasedFirst

\* What an operation that was chosen does to the order of the storage.
LEMMA OperateInOrder == ASSUME RelInv, Operate PROVE RelInv'
  <1> USE DEF RelInv, ReleaseSafe, relTime
  <1>1. /\ chosen \in Candidates /\ device = "on" /\ rel' = "scan" /\ device' = "on"
        /\ UNCHANGED <<pass, clock, fed>>
    BY DEF Operate, Runs, AtStep
  <1> SUFFICES RelTypeOK' /\ ReleasedInOrder'
    BY <1>1 DEF ReleasedFirst
  <1>2. ASSUME NEW m \in mounted \ movedOut, Leaf(m), chosen = <<"move", m>>
        PROVE RelTypeOK' /\ ReleasedInOrder'
    BY <1>2, <1>1 DEF Operate, ReleasedInOrder, RelTypeOK, ParentOf, MountedDevice
  <1>3. ASSUME NEW m \in mounted, Leaf(m), ~BackingInUse(m), chosen = <<"unmount", m>>
        PROVE RelTypeOK' /\ ReleasedInOrder'
    BY <1>3, <1>1 DEF Operate, ParentOf, Leaf, MountedDevice, BackingInUse, ReleasedInOrder, RelTypeOK
  <1>4. ASSUME NEW v \in mapped, ~MountedDevice(v), chosen = <<"unmap", v>>
        PROVE RelTypeOK' /\ ReleasedInOrder'
    BY <1>4, <1>1 DEF Operate, ReleasedInOrder, RelTypeOK, ParentOf, MountedDevice
  <1>5. ASSUME NEW l \in looped, ~MountedDevice(l), ~LoopHeld(l), chosen = <<"detach", l>>
        PROVE RelTypeOK' /\ ReleasedInOrder'
    BY <1>5, <1>1 DEF Operate, ReleasedInOrder, RelTypeOK, ParentOf, MountedDevice, LoopHeld
  <1> QED BY <1>1, <1>2, <1>3, <1>4, <1>5, CandidateKinds

\* Every step keeps the invariant.
LEMMA RelStep == RelInv /\ [RelNext]_relVars => RelInv'
  <1> SUFFICES ASSUME RelInv, [RelNext]_relVars PROVE RelInv'
    OBVIOUS
  <1>t. pass \in 1..MaxPasses /\ device \in {"on", "gone", "reset"}
    BY DEF RelInv, ReleaseSafe, RelTypeOK
  <1> USE DEF relStorage, relTime, AtStep, Runs
  <1>1. CASE Arm
    <2>1. UNCHANGED <<relStorage, users, clock, pass>> /\ fed' = clock
          /\ rel' = "make private" /\ device' = "on"
      BY <1>1 DEF Arm
    <2>2. ReleasedInOrder'
      BY <2>1 DEF RelInv, ReleaseSafe, ReleasedInOrder, ParentOf, MountedDevice
    <2>3. RelTypeOK'
      <3>1. clock \in Nat /\ clock' = clock /\ fed' = clock
        BY <2>1 DEF RelInv
      <3>2. fed' <= clock' /\ fed' \in Nat /\ clock' \in Nat
        BY <3>1
      <3> QED BY <1>t, <2>1, <3>2 DEF RelInv, ReleaseSafe, RelTypeOK
    <2> QED BY <2>1, <2>2, <2>3 DEF RelInv, ReleaseSafe, ReleasedFirst
  <1>2. CASE CannotRun
    BY <1>t, <1>2, RelStorageKept DEF CannotRun
  <1>3. CASE WorkerFails
    BY <1>t, <1>3, RelStorageKept DEF WorkerFails
  <1>4. CASE WorkerHangs
    BY <1>t, <1>4, RelStorageKept DEF WorkerHangs, RelInv
  <1>5. CASE HungEnds
    BY <1>t, <1>5, RelStorageKept DEF HungEnds
  <1>6. CASE EventLost
    BY <1>t, <1>6, RelStorageKept DEF EventLost, RelInv
  <1>7. CASE MakePrivate
    BY <1>t, <1>7, RelStorageKept DEF MakePrivate
  <1>8. CASE Quiesce
    BY <1>8 DEF Quiesce, RelInv, ReleaseSafe, ReleasedInOrder, RelTypeOK, ParentOf, MountedDevice,
       ReleasedFirst
  <1>9. CASE FirstScan
    BY <1>t, <1>9, RelStorageKept DEF FirstScan
  <1>10. CASE ScanStorage
    <2>1. pass' \in 1..MaxPasses
      <3>1. pass' = pass \/ (pass < MaxPasses /\ pass' = pass + 1)
        BY <1>10 DEF ScanStorage
      <3> QED BY <1>t, <3>1 DEF MaxPasses
    <2>2. UNCHANGED <<relStorage, users, relTime, chosen>> /\ device' = "on"
          /\ rel' \in {"final sync", "choose", "sync", "scan", "failing"}
      BY <1>10 DEF ScanStorage
    <2> QED BY <2>1, <2>2, RelStorageKept
  <1>11. CASE SyncPages
    BY <1>11 DEF SyncPages, RelInv, ReleaseSafe, ReleasedInOrder, RelTypeOK, ParentOf, MountedDevice,
       ReleasedFirst
  <1>12. CASE SyncMount
    BY <1>t, <1>12, RelStorageKept DEF SyncMount, RelInv
  <1>13. CASE FinalSync
    BY <1>t, <1>13, RelStorageKept DEF FinalSync
  <1>14. CASE FinalScan
    BY <1>t, <1>14, RelStorageKept DEF FinalScan
  <1>15. CASE Terminal
    BY <1>t, <1>15, RelStorageKept DEF Terminal, RelInv
  <1>16. CASE Fail
    BY <1>t, <1>16, RelStorageKept DEF Fail
  <1>17. CASE Park
    BY <1>t, <1>17, RelStorageKept DEF Park
  <1>18. ASSUME NEW c, Choose(c) PROVE RelInv'
    <2>1. /\ UNCHANGED <<relStorage, users, relTime, pass>>
          /\ c \in Candidates /\ chosen' = c /\ device' = "on" /\ rel' \in {"sync mount", "operate"}
      BY <1>18 DEF Choose
    <2>2. Candidates' = Candidates
      BY <2>1 DEF Candidates, Leaf, ParentOf, BackingInUse, MountedDevice, LoopHeld
    <2>3. ReleasedInOrder' /\ RelTypeOK'
      BY <2>1 DEF RelInv, ReleaseSafe, ReleasedInOrder, RelTypeOK, ParentOf, MountedDevice
    <2> QED BY <2>1, <2>2, <2>3 DEF RelInv, ReleaseSafe, ReleasedFirst
  <1>19. CASE Operate
    BY <1>19, OperateInOrder
  <1>20. CASE Tick
    <2>1. /\ UNCHANGED <<relStorage, users, rel, pass, chosen>>
          /\ clock' \in Nat /\ fed' \in Nat /\ fed' <= clock' /\ device' \in {"on", "reset"}
      <3>1. /\ UNCHANGED <<relStorage, users, rel, pass, chosen>>
            /\ clock' = clock + 1 /\ fed' \in {clock', fed} /\ device' \in {"on", "reset"}
        BY <1>20 DEF Tick
      <3>2. clock \in Nat /\ fed \in Nat /\ fed <= clock
        BY DEF RelInv, ReleaseSafe, RelTypeOK
      <3> QED BY <3>1, <3>2
    <2>2. (Empty <=> Empty') /\ Candidates' = Candidates
      BY <2>1 DEF Empty, Candidates, Leaf, ParentOf, BackingInUse, MountedDevice, LoopHeld
    <2>3. ReleasedInOrder' /\ RelTypeOK'
      BY <2>1 DEF RelInv, ReleaseSafe, ReleasedInOrder, RelTypeOK, ParentOf, MountedDevice
    <2> QED BY <2>1, <2>2, <2>3 DEF RelInv, ReleaseSafe, ReleasedFirst
  <1>21. CASE UNCHANGED relVars
    BY <1>t, <1>21, RelStorageKept DEF relVars, RelInv
  <1> QED
    BY <1>1, <1>2, <1>3, <1>4, <1>5, <1>6, <1>7, <1>8, <1>9, <1>10, <1>11, <1>12, <1>13, <1>14,
       <1>15, <1>16, <1>17, <1>18, <1>19, <1>20, <1>21 DEF RelNext, RelSteps

\* Whatever depends on whatever, a shutdown releases the storage in the order of
\* its dependencies, and the terminal action comes when nothing is left
\* (Snapshot::candidates, release, Supervisor::terminal).
THEOREM StorageReleasedSafely == RelSpec => []ReleaseSafe
  <1>1. RelInit => RelInv
    BY RelInitInv
  <1>2. RelInv /\ [RelNext]_relVars => RelInv'
    BY RelStep
  <1>3. RelInv => ReleaseSafe
    BY DEF RelInv
  <1> QED BY <1>1, <1>2, <1>3, PTL DEF RelSpec

-----------------------------------------------------------------------------
(***************************************************************************)
(* A start and the resets.                                                 *)
(***************************************************************************)

Digests == {p.digest : p \in Papers} \union {NoPaper}
StateDocs == [claimed : BOOLEAN, id : Nat, complete : BOOLEAN, paper : Digests,
              reset : Tiers \union {"none"}]
ConfDocs == [site : BOOLEAN, psk : BOOLEAN, ports : SUBSET BoardPorts]
Trees == [st : StateDocs, cf : ConfDocs]

\* The shape of the state.
DvTypeOK ==
  /\ disk \in Trees /\ mem \in Trees
  /\ appData \in SUBSET AppAreas
  /\ paper \in Papers \union {NoPaper}
  /\ minted \in Nat
  /\ unstored \in BOOLEAN

\* An erase that began is staged until it is finished, and nothing of micad runs
\* before it is.
DvErase ==
  /\ Serving => wiped = {}
  /\ wiped # {} => request = "staged"
  /\ phase \in {"erase", "erased", "done written"} => request = "staged"
  /\ phase \in {"erased", "done written"} => "state" \in wiped \intersect tops
  /\ "state" \in wiped \union tops
  /\ "state" \in wiped => portsRec = {}

\* The phases after a staged tier was carried out.
Past == {"paper", "provision", "ports", "ports added", "record", "up"}

\* The tree in hand and the stored one.  They differ in the tier alone until the
\* configuration is cleared, and are one again once the tier is carried out.
DvTrees ==
  /\ phase \in Past \union {"intent"} => mem = disk
  /\ phase = "reset" /\ mem.st.reset = "none" => mem = disk
  /\ phase \in {"reset", "clear", "cleared"} =>
       /\ mem.st = [disk.st EXCEPT !.reset = mem.st.reset]
       /\ phase = "reset" \/ mem.st.reset # "configuration" => mem.cf = disk.cf
       /\ ~unstored => mem.st.reset = disk.st.reset
  /\ phase \in {"clear", "cleared"} => mem.st.reset # "none"

\* What a tier has taken: nothing outside what is still to be cleared is left.
DvTier ==
  /\ phase = "clear" =>
       /\ todo \subseteq TargetsOf(mem.st.reset)
       /\ mem.st.reset = "application-data" => appData \subseteq todo
  /\ phase = "cleared" =>
       /\ mem.st.reset = "configuration" => portsRec = {}
       /\ mem.st.reset = "application-data" => appData = {} /\ seedsRec = FALSE

\* The ports.  A port recorded as added is stored, but for the ones the operator took
\* out; while a reset of the configuration or an erase is under way, they may be gone
\* before their record.
PortsThere == portsRec \ removed \subseteq disk.cf.ports
DvPorts ==
  /\ wiped = {} /\ ~unstored /\ (phase \in Past \/ disk.st.reset # "configuration") => PortsThere
  /\ phase = "ports added" => BoardPorts \ portsRec \subseteq disk.cf.ports

DvInv == DvTypeOK /\ DvErase /\ DvTrees /\ DvTier /\ DvPorts

USE DEF devStored, devMeta, devRun, devPast, devBoot

LEMMA DvStarts == DevInit => DvInv
<1> SUFFICES ASSUME DevInit PROVE DvInv
  OBVIOUS
<1>1. NoTree \in Trees
  BY DEF NoTree, NoState, NoConf, Trees, StateDocs, ConfDocs, Digests
<1>2. DvTypeOK
  BY <1>1 DEF DevInit, DvTypeOK
<1>3. DvErase /\ DvTrees /\ DvTier /\ DvPorts
  BY DEF DevInit, DvErase, DvTrees, DvTier, DvPorts, PortsThere, Past, Serving, Tops, Skeleton, NoTree, NoState
<1> QED
  BY <1>2, <1>3 DEF DvInv

LEMMA DvPowerOn ==
  ASSUME DvInv, PowerOn PROVE DvInv'
<1> USE DEF PowerOn, Steps
<1>1. DvTypeOK'
  BY DEF DvInv, DvTypeOK
<1>2. DvErase'
  BY DEF DvInv, DvErase, Serving
<1>3. DvTrees'
  BY DEF DvInv, DvTrees, DvTypeOK, Trees, StateDocs, ConfDocs, Past
<1>4. DvTier'
  BY DEF DvInv, DvTier, DvTypeOK, TargetsOf
<1>5. DvPorts'
  BY DEF DvInv, DvPorts, PortsThere, Past, DvTypeOK, Trees, StateDocs, ConfDocs, DvTrees, DvErase, DvTier, Serving
<1> QED
  BY <1>1, <1>2, <1>3, <1>4, <1>5 DEF DvInv

LEMMA DvCheckRequest ==
  ASSUME DvInv, CheckRequest PROVE DvInv'
<1> USE DEF CheckRequest
<1>1. DvTypeOK'
  BY DEF DvInv, DvTypeOK
<1>2. DvErase'
  BY DEF DvInv, DvErase, Serving
<1>3. DvTrees'
  BY DEF DvInv, DvTrees, DvTypeOK, Trees, StateDocs, ConfDocs, Past
<1>4. DvTier'
  BY DEF DvInv, DvTier, DvTypeOK, TargetsOf
<1>5. DvPorts'
  BY DEF DvInv, DvPorts, PortsThere, Past, DvTypeOK, Trees, StateDocs, ConfDocs, DvTrees, DvErase, DvTier, Serving
<1> QED
  BY <1>1, <1>2, <1>3, <1>4, <1>5 DEF DvInv

LEMMA DvEraseTop ==
  ASSUME NEW d \in Tops, DvInv, EraseTop(d) PROVE DvInv'
<1> USE DEF EraseTop
<1>1. DvTypeOK'
  <2>1. NoState \in StateDocs /\ NoConf \in ConfDocs
    BY DEF NoState, NoConf, StateDocs, ConfDocs, Digests
  <2>2. disk' \in Trees
    BY <2>1 DEF DvInv, DvTypeOK, Trees
  <2>3. appData' \in SUBSET AppAreas
    BY DEF DvInv, DvTypeOK
  <2> QED
    BY <2>2, <2>3 DEF DvInv, DvTypeOK
<1>2. DvErase'
  BY DEF DvInv, DvErase, Serving, Tops
<1>3. DvTrees'
  BY DEF DvInv, DvTrees, DvTypeOK, Trees, StateDocs, ConfDocs, Past
<1>4. DvTier'
  BY DEF DvInv, DvTier, DvTypeOK, TargetsOf
<1>5. DvPorts'
  BY DEF DvInv, DvPorts, PortsThere, Past, DvTypeOK, Trees, StateDocs, ConfDocs, DvTrees, DvErase, DvTier, Serving
<1> QED
  BY <1>1, <1>2, <1>3, <1>4, <1>5 DEF DvInv

LEMMA DvKeepaliveFails ==
  ASSUME DvInv, KeepaliveFails PROVE DvInv'
<1> USE DEF KeepaliveFails, Steps, Fault
<1>1. DvTypeOK'
  BY DEF DvInv, DvTypeOK
<1>2. DvErase'
  BY DEF DvInv, DvErase, Serving
<1>3. DvTrees'
  BY DEF DvInv, DvTrees, DvTypeOK, Trees, StateDocs, ConfDocs, Past
<1>4. DvTier'
  BY DEF DvInv, DvTier, DvTypeOK, TargetsOf
<1>5. DvPorts'
  BY DEF DvInv, DvPorts, PortsThere, Past, DvTypeOK, Trees, StateDocs, ConfDocs, DvTrees, DvErase, DvTier, Serving
<1> QED
  BY <1>1, <1>2, <1>3, <1>4, <1>5 DEF DvInv

LEMMA DvMakeLayout ==
  ASSUME DvInv, MakeLayout PROVE DvInv'
<1> USE DEF MakeLayout, Skeleton, Earlier
<1>1. DvTypeOK'
  BY DEF DvInv, DvTypeOK
<1>2. DvErase'
  BY DEF DvInv, DvErase, Serving, Tops
<1>3. DvTrees'
  BY DEF DvInv, DvTrees, DvTypeOK, Trees, StateDocs, ConfDocs, Past
<1>4. DvTier'
  BY DEF DvInv, DvTier, DvTypeOK, TargetsOf
<1>5. DvPorts'
  BY DEF DvInv, DvPorts, PortsThere, Past, DvTypeOK, Trees, StateDocs, ConfDocs, DvTrees, DvErase, DvTier, Serving
<1> QED
  BY <1>1, <1>2, <1>3, <1>4, <1>5 DEF DvInv

LEMMA DvWriteDone ==
  ASSUME DvInv, WriteDone PROVE DvInv'
<1> USE DEF WriteDone, Steps
<1>1. DvTypeOK'
  BY DEF DvInv, DvTypeOK
<1>2. DvErase'
  BY DEF DvInv, DvErase, Serving
<1>3. DvTrees'
  BY DEF DvInv, DvTrees, DvTypeOK, Trees, StateDocs, ConfDocs, Past
<1>4. DvTier'
  BY DEF DvInv, DvTier, DvTypeOK, TargetsOf
<1>5. DvPorts'
  BY DEF DvInv, DvPorts, PortsThere, Past, DvTypeOK, Trees, StateDocs, ConfDocs, DvTrees, DvErase, DvTier, Serving
<1> QED
  BY <1>1, <1>2, <1>3, <1>4, <1>5 DEF DvInv

LEMMA DvRemoveRequest ==
  ASSUME DvInv, RemoveRequest PROVE DvInv'
<1> USE DEF RemoveRequest, Steps
<1>1. DvTypeOK'
  BY DEF DvInv, DvTypeOK
<1>2. DvErase'
  BY DEF DvInv, DvErase, Serving
<1>3. DvTrees'
  BY DEF DvInv, DvTrees, DvTypeOK, Trees, StateDocs, ConfDocs, Past
<1>4. DvTier'
  BY DEF DvInv, DvTier, DvTypeOK, TargetsOf
<1>5. DvPorts'
  BY DEF DvInv, DvPorts, PortsThere, Past, DvTypeOK, Trees, StateDocs, ConfDocs, DvTrees, DvErase, DvTier, Serving
<1> QED
  BY <1>1, <1>2, <1>3, <1>4, <1>5 DEF DvInv

LEMMA DvBootRefused ==
  ASSUME DvInv, BootRefused PROVE DvInv'
<1> USE DEF BootRefused, Steps
<1>1. DvTypeOK'
  BY DEF DvInv, DvTypeOK
<1>2. DvErase'
  BY DEF DvInv, DvErase, Serving
<1>3. DvTrees'
  BY DEF DvInv, DvTrees, DvTypeOK, Trees, StateDocs, ConfDocs, Past
<1>4. DvTier'
  BY DEF DvInv, DvTier, DvTypeOK, TargetsOf
<1>5. DvPorts'
  BY DEF DvInv, DvPorts, PortsThere, Past, DvTypeOK, Trees, StateDocs, ConfDocs, DvTrees, DvErase, DvTier, Serving
<1> QED
  BY <1>1, <1>2, <1>3, <1>4, <1>5 DEF DvInv

LEMMA DvLoadTree ==
  ASSUME DvInv, LoadTree PROVE DvInv'
<1> USE DEF LoadTree, Steps
<1>1. DvTypeOK'
  BY DEF DvInv, DvTypeOK
<1>2. DvErase'
  BY DEF DvInv, DvErase, Serving
<1>3. DvTrees'
  BY DEF DvInv, DvTrees, DvTypeOK, Trees, StateDocs, ConfDocs, Past
<1>4. DvTier'
  BY DEF DvInv, DvTier, DvTypeOK, TargetsOf
<1>5. DvPorts'
  BY DEF DvInv, DvPorts, PortsThere, Past, DvTypeOK, Trees, StateDocs, ConfDocs, DvTrees, DvErase, DvTier, Serving
<1> QED
  BY <1>1, <1>2, <1>3, <1>4, <1>5 DEF DvInv

LEMMA DvNoBootIntent ==
  ASSUME DvInv, NoBootIntent PROVE DvInv'
<1> USE DEF NoBootIntent, Steps
<1>1. DvTypeOK'
  BY DEF DvInv, DvTypeOK
<1>2. DvErase'
  BY DEF DvInv, DvErase, Serving
<1>3. DvTrees'
  BY DEF DvInv, DvTrees, DvTypeOK, Trees, StateDocs, ConfDocs, Past
<1>4. DvTier'
  BY DEF DvInv, DvTier, DvTypeOK, TargetsOf
<1>5. DvPorts'
  BY DEF DvInv, DvPorts, PortsThere, Past, DvTypeOK, Trees, StateDocs, ConfDocs, DvTrees, DvErase, DvTier, Serving
<1> QED
  BY <1>1, <1>2, <1>3, <1>4, <1>5 DEF DvInv

LEMMA DvApplyBootIntent ==
  ASSUME DvInv, ApplyBootIntent PROVE DvInv'
<1> USE DEF ApplyBootIntent, Steps, Fault, MapIntent, Readable, Tiers
<1>0. PICK a \in MapIntent(Intent) : ApplyBootIntent!(a)
  BY DEF ApplyBootIntent
<1>a. a.tier \in Tiers \union {"none"}
  BY DEF MapIntent, Readable
<1> HIDE DEF MapIntent
<1>b. a.tier = "none" \/ [mem EXCEPT !.st.reset = a.tier] \in Trees
  BY <1>a DEF DvInv, DvTypeOK, Trees, StateDocs
<1>1. DvTypeOK'
  BY <1>0, <1>b DEF DvInv, DvTypeOK
<1>2. DvErase'
  BY DEF DvInv, DvErase, Serving
<1>3. DvTrees'
  BY DEF DvInv, DvTrees, DvTypeOK, Trees, StateDocs, ConfDocs, Past
<1>4. DvTier'
  BY DEF DvInv, DvTier, DvTypeOK, TargetsOf
<1>5. DvPorts'
  BY <1>0, <1>1 DEF DvInv, DvPorts, PortsThere, Past, DvTrees, DvTypeOK, Trees, StateDocs
<1> QED
  BY <1>1, <1>2, <1>3, <1>4, <1>5 DEF DvInv

LEMMA DvAssertionFails ==
  ASSUME DvInv, AssertionFails PROVE DvInv'
<1> USE DEF AssertionFails, Steps, Fault
<1>1. DvTypeOK'
  BY DEF DvInv, DvTypeOK
<1>2. DvErase'
  BY DEF DvInv, DvErase, Serving
<1>3. DvTrees'
  BY DEF DvInv, DvTrees, DvTypeOK, Trees, StateDocs, ConfDocs, Past
<1>4. DvTier'
  BY DEF DvInv, DvTier, DvTypeOK, TargetsOf
<1>5. DvPorts'
  BY DEF DvInv, DvPorts, PortsThere, Past, DvTypeOK, Trees, StateDocs, ConfDocs, DvTrees, DvErase, DvTier, Serving
<1> QED
  BY <1>1, <1>2, <1>3, <1>4, <1>5 DEF DvInv

LEMMA DvNoStagedReset ==
  ASSUME DvInv, NoStagedReset PROVE DvInv'
<1> USE DEF NoStagedReset, Steps
<1>1. DvTypeOK'
  BY DEF DvInv, DvTypeOK
<1>2. DvErase'
  BY DEF DvInv, DvErase, Serving
<1>3. DvTrees'
  BY DEF DvInv, DvTrees, DvTypeOK, Trees, StateDocs, ConfDocs, Past
<1>4. DvTier'
  BY DEF DvInv, DvTier, DvTypeOK, TargetsOf
<1>5. DvPorts'
  BY DEF DvInv, DvPorts, PortsThere, Past, DvTypeOK, Trees, StateDocs, ConfDocs, DvTrees, DvErase, DvTier, Serving
<1> QED
  BY <1>1, <1>2, <1>3, <1>4, <1>5 DEF DvInv

LEMMA DvStartReset ==
  ASSUME DvInv, StartReset PROVE DvInv'
<1> USE DEF StartReset, Steps, Tiers
<1>1. DvTypeOK'
  BY DEF DvInv, DvTypeOK
<1>2. DvErase'
  BY DEF DvInv, DvErase, Serving
<1>3. DvTrees'
  BY DEF DvInv, DvTrees, DvTypeOK, Trees, StateDocs, ConfDocs, Past
<1>4. DvTier'
  BY DEF DvInv, DvTier, DvTypeOK, TargetsOf, AppAreas, DvTrees, Trees, StateDocs
<1>5. DvPorts'
  BY DEF DvInv, DvPorts, PortsThere, Past, DvTypeOK, Trees, StateDocs, ConfDocs, DvTrees, DvErase, DvTier, Serving
<1> QED
  BY <1>1, <1>2, <1>3, <1>4, <1>5 DEF DvInv

LEMMA DvClearTarget ==
  ASSUME NEW d \in AppAreas \union {"config"}, DvInv, ClearTarget(d) PROVE DvInv'
<1> USE DEF ClearTarget, NoConf, AppAreas
<1>1. DvTypeOK'
  BY DEF DvInv, DvTypeOK, Trees, ConfDocs
<1>2. DvErase'
  BY DEF DvInv, DvErase, Serving
<1>0. d = "config" => mem.st.reset = "configuration"
  BY DEF DvInv, DvTier, TargetsOf
<1>b. disk'.st = disk.st /\ (d # "config" => disk'.cf = disk.cf)
  BY DEF DvInv, DvTypeOK, Trees
<1>3. DvTrees'
  BY <1>0, <1>b DEF DvInv, DvTrees, Past
<1>4. DvTier'
  BY DEF DvInv, DvTier, DvTypeOK, TargetsOf
<1>5. DvPorts'
  BY <1>0, <1>b DEF DvInv, DvPorts, PortsThere, Past, DvTrees
<1> QED
  BY <1>1, <1>2, <1>3, <1>4, <1>5 DEF DvInv

LEMMA DvRemoveRecords ==
  ASSUME DvInv, RemoveRecords PROVE DvInv'
<1> USE DEF RemoveRecords, Steps
<1>1. DvTypeOK'
  BY DEF DvInv, DvTypeOK
<1>2. DvErase'
  BY DEF DvInv, DvErase, Serving
<1>3. DvTrees'
  BY DEF DvInv, DvTrees, DvTypeOK, Trees, StateDocs, ConfDocs, Past
<1>4. DvTier'
  BY DEF DvInv, DvTier, DvTypeOK, TargetsOf, DvTrees, Trees, StateDocs, Tiers
<1>5. DvPorts'
  BY DEF DvInv, DvPorts, PortsThere, Past, DvTypeOK, Trees, StateDocs, ConfDocs, DvTrees, DvErase, DvTier, Serving
<1> QED
  BY <1>1, <1>2, <1>3, <1>4, <1>5 DEF DvInv

LEMMA DvCommitReset ==
  ASSUME DvInv, CommitReset PROVE DvInv'
<1> USE DEF CommitReset, Steps, Saves, ReseededSettings, NoConf
<1>1. DvTypeOK'
  BY DEF DvInv, DvTypeOK, Trees, StateDocs, ConfDocs, Tiers
<1>2. DvErase'
  BY DEF DvInv, DvErase, Serving
<1>3. DvTrees'
  BY DEF DvInv, DvTrees, DvTypeOK, Trees, StateDocs, ConfDocs, Past
<1>4. DvTier'
  BY DEF DvInv, DvTier, DvTypeOK, TargetsOf
<1>5. DvPorts'
  BY DEF DvInv, DvPorts, PortsThere, Past, DvTypeOK, Trees, StateDocs, ConfDocs, DvTrees, DvErase, DvTier, Serving
<1> QED
  BY <1>1, <1>2, <1>3, <1>4, <1>5 DEF DvInv

LEMMA DvResetFails ==
  ASSUME DvInv, ResetFails PROVE DvInv'
<1> USE DEF ResetFails, Fault
<1>1. DvTypeOK'
  BY DEF DvInv, DvTypeOK
<1>2. DvErase'
  BY DEF DvInv, DvErase, Serving
<1>3. DvTrees'
  BY DEF DvInv, DvTrees, DvTypeOK, Trees, StateDocs, ConfDocs, Past
<1>4. DvTier'
  BY DEF DvInv, DvTier, DvTypeOK, TargetsOf
<1>5. DvPorts'
  BY DEF DvInv, DvPorts, PortsThere, Past, DvTypeOK, Trees, StateDocs, ConfDocs, DvTrees, DvErase, DvTier, Serving
<1> QED
  BY <1>1, <1>2, <1>3, <1>4, <1>5 DEF DvInv

LEMMA DvImport ==
  ASSUME DvInv, Import PROVE DvInv'
<1> USE DEF Import, Steps, Saves, ApplyInto, TakenPaper, Rejected
<1>0. TakenPaper => /\ ApplyInto(mem) \in Trees /\ ApplyInto(mem).cf = mem.cf
                    /\ ApplyInto(mem).st.reset = mem.st.reset
  <2> HAVE TakenPaper
  <2>1. paper.digest \in Digests /\ paper.admin \in BOOLEAN /\ paper.id \in Nat
    BY PaperAssumption DEF DvInv, DvTypeOK, Digests
  <2> DEFINE i == IF paper.id # 0 THEN paper.id ELSE mem.st.id
  <2>2. i \in Nat /\ mem \in Trees
    BY <2>1 DEF DvInv, DvTypeOK, Trees, StateDocs
  <2> HIDE DEF i
  <2>3. ApplyInto(mem) = [mem EXCEPT !.st.paper = paper.digest, !.st.claimed = @ \/ paper.admin, !.st.id = i]
    BY DEF i
  <2> QED
    BY <2>1, <2>2, <2>3 DEF Trees, StateDocs
<1> HIDE DEF TakenPaper, ApplyInto
<1>1. DvTypeOK'
  BY <1>0 DEF DvInv, DvTypeOK
<1>2. DvErase'
  BY DEF DvInv, DvErase, Serving
<1>3. DvTrees'
  BY DEF DvInv, DvTrees, DvTypeOK, Trees, StateDocs, ConfDocs, Past
<1>4. DvTier'
  BY DEF DvInv, DvTier, DvTypeOK, TargetsOf
<1>5. DvPorts'
  BY <1>0 DEF DvInv, DvPorts, PortsThere, Past, DvTrees
<1> QED
  BY <1>1, <1>2, <1>3, <1>4, <1>5 DEF DvInv

LEMMA DvImportFails ==
  ASSUME DvInv, ImportFails PROVE DvInv'
<1> USE DEF ImportFails, Steps, Fault
<1>1. DvTypeOK'
  BY DEF DvInv, DvTypeOK
<1>2. DvErase'
  BY DEF DvInv, DvErase, Serving
<1>3. DvTrees'
  BY DEF DvInv, DvTrees, DvTypeOK, Trees, StateDocs, ConfDocs, Past
<1>4. DvTier'
  BY DEF DvInv, DvTier, DvTypeOK, TargetsOf
<1>5. DvPorts'
  BY DEF DvInv, DvPorts, PortsThere, Past, DvTypeOK, Trees, StateDocs, ConfDocs, DvTrees, DvErase, DvTier, Serving
<1> QED
  BY <1>1, <1>2, <1>3, <1>4, <1>5 DEF DvInv

LEMMA DvEnsureProvisioned ==
  ASSUME DvInv, EnsureProvisioned PROVE DvInv'
<1> USE DEF EnsureProvisioned, Steps, Saves, Identity
<1> DEFINE new == [mem EXCEPT !.st.complete = TRUE, !.st.id = Identity(mem)]
<1>0. new \in Trees /\ new.cf = mem.cf /\ new.st.reset = mem.st.reset
  <2>1. Identity(mem) \in Nat /\ mem \in Trees
    BY DEF DvInv, DvTypeOK, Trees, StateDocs
  <2> HIDE DEF Identity
  <2> QED
    BY <2>1 DEF Trees, StateDocs
<1> HIDE DEF new
<1>a. (disk' = disk /\ mem' = mem) \/ (disk' = new /\ mem' = new)
  BY DEF new
<1>1. DvTypeOK'
  BY <1>0, <1>a DEF DvInv, DvTypeOK
<1>2. DvErase'
  BY DEF DvInv, DvErase, Serving
<1>3. DvTrees'
  BY DEF DvInv, DvTrees, DvTypeOK, Trees, StateDocs, ConfDocs, Past
<1>4. DvTier'
  BY DEF DvInv, DvTier, DvTypeOK, TargetsOf
<1>5. DvPorts'
  BY <1>0, <1>a DEF DvInv, DvPorts, PortsThere, Past, DvTrees
<1> QED
  BY <1>1, <1>2, <1>3, <1>4, <1>5 DEF DvInv

LEMMA DvProvisioningFails ==
  ASSUME DvInv, ProvisioningFails PROVE DvInv'
<1> USE DEF ProvisioningFails, Steps, Fault
<1>1. DvTypeOK'
  BY DEF DvInv, DvTypeOK
<1>2. DvErase'
  BY DEF DvInv, DvErase, Serving
<1>3. DvTrees'
  BY DEF DvInv, DvTrees, DvTypeOK, Trees, StateDocs, ConfDocs, Past
<1>4. DvTier'
  BY DEF DvInv, DvTier, DvTypeOK, TargetsOf
<1>5. DvPorts'
  BY DEF DvInv, DvPorts, PortsThere, Past, DvTypeOK, Trees, StateDocs, ConfDocs, DvTrees, DvErase, DvTier, Serving
<1> QED
  BY <1>1, <1>2, <1>3, <1>4, <1>5 DEF DvInv

LEMMA DvSeedPorts ==
  ASSUME DvInv, SeedPorts PROVE DvInv'
<1> USE DEF SeedPorts, Steps, Saves
<1>1. DvTypeOK'
  BY DEF DvInv, DvTypeOK, Trees, ConfDocs
<1>2. DvErase'
  BY DEF DvInv, DvErase, Serving
<1>3. DvTrees'
  BY DEF DvInv, DvTrees, DvTypeOK, Trees, StateDocs, ConfDocs, Past
<1>4. DvTier'
  BY DEF DvInv, DvTier, DvTypeOK, TargetsOf
<1>5. DvPorts'
  BY DEF DvInv, DvPorts, PortsThere, Past, DvTypeOK, Trees, StateDocs, ConfDocs, DvTrees, DvErase, DvTier, Serving
<1> QED
  BY <1>1, <1>2, <1>3, <1>4, <1>5 DEF DvInv

LEMMA DvRecordPorts ==
  ASSUME DvInv, RecordPorts PROVE DvInv'
<1> USE DEF RecordPorts, Steps
<1>1. DvTypeOK'
  BY DEF DvInv, DvTypeOK
<1>2. DvErase'
  BY DEF DvInv, DvErase, Serving
<1>3. DvTrees'
  BY DEF DvInv, DvTrees, DvTypeOK, Trees, StateDocs, ConfDocs, Past
<1>4. DvTier'
  BY DEF DvInv, DvTier, DvTypeOK, TargetsOf
<1>5. DvPorts'
  BY DEF DvInv, DvPorts, PortsThere, Past, DvTypeOK, Trees, StateDocs, ConfDocs, DvTrees, DvErase, DvTier, Serving
<1> QED
  BY <1>1, <1>2, <1>3, <1>4, <1>5 DEF DvInv

LEMMA DvSeedPortsFails ==
  ASSUME DvInv, SeedPortsFails PROVE DvInv'
<1> USE DEF SeedPortsFails, Fault
<1>1. DvTypeOK'
  BY DEF DvInv, DvTypeOK
<1>2. DvErase'
  BY DEF DvInv, DvErase, Serving
<1>3. DvTrees'
  BY DEF DvInv, DvTrees, DvTypeOK, Trees, StateDocs, ConfDocs, Past
<1>4. DvTier'
  BY DEF DvInv, DvTier, DvTypeOK, TargetsOf
<1>5. DvPorts'
  BY DEF DvInv, DvPorts, PortsThere, Past, DvTypeOK, Trees, StateDocs, ConfDocs, DvTrees, DvErase, DvTier, Serving
<1> QED
  BY <1>1, <1>2, <1>3, <1>4, <1>5 DEF DvInv

LEMMA DvFirstBoot ==
  ASSUME DvInv, FirstBoot PROVE DvInv'
<1> USE DEF FirstBoot, Steps
<1>1. DvTypeOK'
  BY DEF DvInv, DvTypeOK
<1>2. DvErase'
  BY DEF DvInv, DvErase, Serving
<1>3. DvTrees'
  BY DEF DvInv, DvTrees, DvTypeOK, Trees, StateDocs, ConfDocs, Past
<1>4. DvTier'
  BY DEF DvInv, DvTier, DvTypeOK, TargetsOf
<1>5. DvPorts'
  BY DEF DvInv, DvPorts, PortsThere, Past, DvTypeOK, Trees, StateDocs, ConfDocs, DvTrees, DvErase, DvTier, Serving
<1> QED
  BY <1>1, <1>2, <1>3, <1>4, <1>5 DEF DvInv

LEMMA DvFirstBootFails ==
  ASSUME DvInv, FirstBootFails PROVE DvInv'
<1> USE DEF FirstBootFails, Steps, Fault
<1>1. DvTypeOK'
  BY DEF DvInv, DvTypeOK
<1>2. DvErase'
  BY DEF DvInv, DvErase, Serving
<1>3. DvTrees'
  BY DEF DvInv, DvTrees, DvTypeOK, Trees, StateDocs, ConfDocs, Past
<1>4. DvTier'
  BY DEF DvInv, DvTier, DvTypeOK, TargetsOf
<1>5. DvPorts'
  BY DEF DvInv, DvPorts, PortsThere, Past, DvTypeOK, Trees, StateDocs, ConfDocs, DvTrees, DvErase, DvTier, Serving
<1> QED
  BY <1>1, <1>2, <1>3, <1>4, <1>5 DEF DvInv

LEMMA DvClaim ==
  ASSUME DvInv, Claim PROVE DvInv'
<1> USE DEF Claim, Writes, Saves, Operated
<1>1. DvTypeOK'
  BY DEF DvInv, DvTypeOK, Trees, StateDocs
<1>2. DvErase'
  BY DEF DvInv, DvErase, Serving
<1>3. DvTrees'
  BY DEF DvInv, DvTrees, DvTypeOK, Trees, StateDocs, ConfDocs, Past
<1>4. DvTier'
  BY DEF DvInv, DvTier, DvTypeOK, TargetsOf
<1>5. DvPorts'
  BY DEF DvInv, DvPorts, PortsThere, Past, DvTypeOK, Trees, StateDocs, ConfDocs, DvTrees, DvErase, DvTier, Serving
<1> QED
  BY <1>1, <1>2, <1>3, <1>4, <1>5 DEF DvInv

LEMMA DvSetKey ==
  ASSUME DvInv, SetKey PROVE DvInv'
<1> USE DEF SetKey, Writes, Saves, Operated
<1>1. DvTypeOK'
  BY DEF DvInv, DvTypeOK, Trees, ConfDocs
<1>2. DvErase'
  BY DEF DvInv, DvErase, Serving
<1>3. DvTrees'
  BY DEF DvInv, DvTrees, DvTypeOK, Trees, StateDocs, ConfDocs, Past
<1>4. DvTier'
  BY DEF DvInv, DvTier, DvTypeOK, TargetsOf
<1>5. DvPorts'
  BY DEF DvInv, DvPorts, PortsThere, Past, DvTypeOK, Trees, StateDocs, ConfDocs, DvTrees, DvErase, DvTier, Serving
<1> QED
  BY <1>1, <1>2, <1>3, <1>4, <1>5 DEF DvInv

LEMMA DvConfigure ==
  ASSUME DvInv, Configure PROVE DvInv'
<1> USE DEF Configure, Writes, Saves, Operated
<1>1. DvTypeOK'
  BY DEF DvInv, DvTypeOK, Trees, ConfDocs
<1>2. DvErase'
  BY DEF DvInv, DvErase, Serving
<1>3. DvTrees'
  BY DEF DvInv, DvTrees, DvTypeOK, Trees, StateDocs, ConfDocs, Past
<1>4. DvTier'
  BY DEF DvInv, DvTier, DvTypeOK, TargetsOf
<1>5. DvPorts'
  BY DEF DvInv, DvPorts, PortsThere, Past, DvTypeOK, Trees, StateDocs, ConfDocs, DvTrees, DvErase, DvTier, Serving
<1> QED
  BY <1>1, <1>2, <1>3, <1>4, <1>5 DEF DvInv

LEMMA DvTakePortOut ==
  ASSUME NEW p \in BoardPorts, DvInv, TakePortOut(p) PROVE DvInv'
<1> USE DEF TakePortOut, Writes, Saves, Operated
<1>1. DvTypeOK'
  BY DEF DvInv, DvTypeOK, Trees, ConfDocs
<1>2. DvErase'
  BY DEF DvInv, DvErase, Serving
<1>3. DvTrees'
  BY DEF DvInv, DvTrees, DvTypeOK, Trees, StateDocs, ConfDocs, Past
<1>4. DvTier'
  BY DEF DvInv, DvTier, DvTypeOK, TargetsOf
<1>5. DvPorts'
  BY DEF DvInv, DvPorts, PortsThere, Past, DvTypeOK, Trees, StateDocs, ConfDocs, DvTrees, DvErase, DvTier, Serving
<1> QED
  BY <1>1, <1>2, <1>3, <1>4, <1>5 DEF DvInv

LEMMA DvStageTier ==
  ASSUME NEW t \in Tiers, DvInv, StageTier(t) PROVE DvInv'
<1> USE DEF StageTier, Writes, Saves, Operated
<1>1. DvTypeOK'
  BY DEF DvInv, DvTypeOK, Trees, StateDocs
<1>2. DvErase'
  BY DEF DvInv, DvErase, Serving
<1>3. DvTrees'
  BY DEF DvInv, DvTrees, DvTypeOK, Trees, StateDocs, ConfDocs, Past
<1>4. DvTier'
  BY DEF DvInv, DvTier, DvTypeOK, TargetsOf
<1>5. DvPorts'
  BY DEF DvInv, DvPorts, PortsThere, Past, DvTypeOK, Trees, StateDocs, ConfDocs, DvTrees, DvErase, DvTier, Serving
<1> QED
  BY <1>1, <1>2, <1>3, <1>4, <1>5 DEF DvInv

LEMMA DvUseApps ==
  ASSUME DvInv, UseApps PROVE DvInv'
<1> USE DEF UseApps, Operated, AppAreas
<1>1. DvTypeOK'
  BY DEF DvInv, DvTypeOK
<1>2. DvErase'
  BY DEF DvInv, DvErase, Serving
<1>3. DvTrees'
  BY DEF DvInv, DvTrees, DvTypeOK, Trees, StateDocs, ConfDocs, Past
<1>4. DvTier'
  BY DEF DvInv, DvTier, DvTypeOK, TargetsOf
<1>5. DvPorts'
  BY DEF DvInv, DvPorts, PortsThere, Past, DvTypeOK, Trees, StateDocs, ConfDocs, DvTrees, DvErase, DvTier, Serving
<1> QED
  BY <1>1, <1>2, <1>3, <1>4, <1>5 DEF DvInv

LEMMA DvInstalls ==
  ASSUME DvInv, Installs PROVE DvInv'
<1> USE DEF Installs, Operated
<1>1. DvTypeOK'
  BY DEF DvInv, DvTypeOK
<1>2. DvErase'
  BY DEF DvInv, DvErase, Serving
<1>3. DvTrees'
  BY DEF DvInv, DvTrees, DvTypeOK, Trees, StateDocs, ConfDocs, Past
<1>4. DvTier'
  BY DEF DvInv, DvTier, DvTypeOK, TargetsOf
<1>5. DvPorts'
  BY DEF DvInv, DvPorts, PortsThere, Past, DvTypeOK, Trees, StateDocs, ConfDocs, DvTrees, DvErase, DvTier, Serving
<1> QED
  BY <1>1, <1>2, <1>3, <1>4, <1>5 DEF DvInv

LEMMA DvCheckFactoryReset ==
  ASSUME DvInv, CheckFactoryReset PROVE DvInv'
  BY DEF CheckFactoryReset, DvInv, DvTypeOK, DvErase, Serving, DvTrees, Trees, StateDocs, ConfDocs, Past,
     DvTier, TargetsOf, DvPorts, PortsThere

LEMMA DvWrongPassword ==
  ASSUME DvInv, WrongPassword PROVE DvInv'
  BY DEF WrongPassword, DvInv, DvTypeOK, DvErase, Serving, DvTrees, Trees, StateDocs, ConfDocs, Past,
     DvTier, TargetsOf, DvPorts, PortsThere

LEMMA DvThrottleEnds ==
  ASSUME DvInv, ThrottleEnds PROVE DvInv'
<1> USE DEF ThrottleEnds
<1>1. DvTypeOK'
  BY DEF DvInv, DvTypeOK
<1>2. DvErase'
  BY DEF DvInv, DvErase, Serving
<1>3. DvTrees'
  BY DEF DvInv, DvTrees, DvTypeOK, Trees, StateDocs, ConfDocs, Past
<1>4. DvTier'
  BY DEF DvInv, DvTier, DvTypeOK, TargetsOf
<1>5. DvPorts'
  BY DEF DvInv, DvPorts, PortsThere, Past, DvTypeOK, Trees, StateDocs, ConfDocs, DvTrees, DvErase, DvTier, Serving
<1> QED
  BY <1>1, <1>2, <1>3, <1>4, <1>5 DEF DvInv

LEMMA DvStageFactoryReset ==
  ASSUME DvInv, StageFactoryReset PROVE DvInv'
<1> USE DEF StageFactoryReset, Operated
<1>1. DvTypeOK'
  BY DEF DvInv, DvTypeOK
<1>2. DvErase'
  BY DEF DvInv, DvErase, Serving
<1>3. DvTrees'
  BY DEF DvInv, DvTrees, DvTypeOK, Trees, StateDocs, ConfDocs, Past
<1>4. DvTier'
  BY DEF DvInv, DvTier, DvTypeOK, TargetsOf
<1>5. DvPorts'
  BY DEF DvInv, DvPorts, PortsThere, Past, DvTypeOK, Trees, StateDocs, ConfDocs, DvTrees, DvErase, DvTier, Serving
<1> QED
  BY <1>1, <1>2, <1>3, <1>4, <1>5 DEF DvInv

LEMMA DvStageByCli ==
  ASSUME DvInv, StageByCli PROVE DvInv'
<1> USE DEF StageByCli, Operated
<1>1. DvTypeOK'
  BY DEF DvInv, DvTypeOK
<1>2. DvErase'
  BY DEF DvInv, DvErase, Serving
<1>3. DvTrees'
  BY DEF DvInv, DvTrees, DvTypeOK, Trees, StateDocs, ConfDocs, Past
<1>4. DvTier'
  BY DEF DvInv, DvTier, DvTypeOK, TargetsOf
<1>5. DvPorts'
  BY DEF DvInv, DvPorts, PortsThere, Past, DvTypeOK, Trees, StateDocs, ConfDocs, DvTrees, DvErase, DvTier, Serving
<1> QED
  BY <1>1, <1>2, <1>3, <1>4, <1>5 DEF DvInv

LEMMA DvRequestDamaged ==
  ASSUME DvInv, RequestDamaged PROVE DvInv'
<1> USE DEF RequestDamaged, Fault
<1>1. DvTypeOK'
  BY DEF DvInv, DvTypeOK
<1>2. DvErase'
  BY DEF DvInv, DvErase, Serving
<1>3. DvTrees'
  BY DEF DvInv, DvTrees, DvTypeOK, Trees, StateDocs, ConfDocs, Past
<1>4. DvTier'
  BY DEF DvInv, DvTier, DvTypeOK, TargetsOf
<1>5. DvPorts'
  BY DEF DvInv, DvPorts, PortsThere, Past, DvTypeOK, Trees, StateDocs, ConfDocs, DvTrees, DvErase, DvTier, Serving
<1> QED
  BY <1>1, <1>2, <1>3, <1>4, <1>5 DEF DvInv

LEMMA DvReboots ==
  ASSUME DvInv, Reboots PROVE DvInv'
<1> USE DEF Reboots, Steps
<1>1. DvTypeOK'
  BY DEF DvInv, DvTypeOK
<1>2. DvErase'
  BY DEF DvInv, DvErase, Serving
<1>3. DvTrees'
  BY DEF DvInv, DvTrees, DvTypeOK, Trees, StateDocs, ConfDocs, Past
<1>4. DvTier'
  BY DEF DvInv, DvTier, DvTypeOK, TargetsOf
<1>5. DvPorts'
  BY DEF DvInv, DvPorts, PortsThere, Past, DvTypeOK, Trees, StateDocs, ConfDocs, DvTrees, DvErase, DvTier, Serving
<1> QED
  BY <1>1, <1>2, <1>3, <1>4, <1>5 DEF DvInv

LEMMA DvDevPowerCut ==
  ASSUME DvInv, DevPowerCut PROVE DvInv'
<1> USE DEF DevPowerCut, Cut
<1>1. DvTypeOK'
  BY DEF DvInv, DvTypeOK
<1>2. DvErase'
  BY DEF DvInv, DvErase, Serving
<1>3. DvTrees'
  BY DEF DvInv, DvTrees, DvTypeOK, Trees, StateDocs, ConfDocs, Past
<1>4. DvTier'
  BY DEF DvInv, DvTier, DvTypeOK, TargetsOf
<1>5. DvPorts'
  BY DEF DvInv, DvPorts, PortsThere, Past, DvTypeOK, Trees, StateDocs, ConfDocs, DvTrees, DvErase, DvTier, Serving
<1> QED
  BY <1>1, <1>2, <1>3, <1>4, <1>5 DEF DvInv

LEMMA DvMicadRestarts ==
  ASSUME DvInv, MicadRestarts PROVE DvInv'
<1> USE DEF MicadRestarts, Cut
<1>1. DvTypeOK'
  BY DEF DvInv, DvTypeOK
<1>2. DvErase'
  BY DEF DvInv, DvErase, Serving
<1>3. DvTrees'
  BY DEF DvInv, DvTrees, DvTypeOK, Trees, StateDocs, ConfDocs, Past
<1>4. DvTier'
  BY DEF DvInv, DvTier, DvTypeOK, TargetsOf
<1>5. DvPorts'
  BY DEF DvInv, DvPorts, PortsThere, Past, DvTypeOK, Trees, StateDocs, ConfDocs, DvTrees, DvErase, DvTier, Serving
<1> QED
  BY <1>1, <1>2, <1>3, <1>4, <1>5 DEF DvInv

LEMMA DvKept == DvInv /\ [DevNext]_devVars => DvInv'
<1> SUFFICES ASSUME DvInv, [DevNext]_devVars PROVE DvInv'
  OBVIOUS
<1>1. CASE RunkitStep
  BY <1>1, DvPowerOn, DvCheckRequest, DvEraseTop, DvKeepaliveFails, DvMakeLayout, DvWriteDone, DvRemoveRequest, DvBootRefused DEF RunkitStep
<1>2. CASE StartStep
  BY <1>2, DvLoadTree, DvNoBootIntent, DvApplyBootIntent, DvAssertionFails, DvNoStagedReset, DvStartReset, DvClearTarget, DvRemoveRecords, DvCommitReset, DvResetFails, DvImport, DvImportFails, DvEnsureProvisioned, DvProvisioningFails, DvSeedPorts, DvRecordPorts, DvSeedPortsFails, DvFirstBoot, DvFirstBootFails DEF StartStep
<1>3. CASE ServeStep
  BY <1>3, DvClaim, DvSetKey, DvConfigure, DvTakePortOut, DvStageTier, DvUseApps, DvInstalls, DvCheckFactoryReset, DvWrongPassword, DvThrottleEnds, DvStageFactoryReset, DvStageByCli, DvRequestDamaged, DvReboots DEF ServeStep
<1>4. CASE UNCHANGED devVars
  <2>1. DvTypeOK' /\ DvErase'
    BY <1>4 DEF devVars, DvInv, DvTypeOK, DvErase, Serving
  <2>2. DvTrees'
    BY <1>4 DEF devVars, DvInv, DvTrees
  <2>3. DvTier' /\ DvPorts'
    BY <1>4 DEF devVars, DvInv, DvTier, DvPorts, PortsThere
  <2> QED
    BY <2>1, <2>2, <2>3 DEF DvInv
<1> QED
  BY <1>1, <1>2, <1>3, <1>4, DvDevPowerCut, DvMicadRestarts DEF DevNext

\* What is asked of a start follows from the invariant.
LEMMA DvSafe == DvInv => StartSafe
  BY DEF DvInv, DvTypeOK, Trees, StateDocs, ConfDocs, DvErase, NeverHalfErased, Serving, DvPorts, Past,
     PortsThere, RecordedPortsAdded, StartSafe

\* Nothing of micad runs over a DATA that a factory reset erased in part, and no port is
\* recorded as added that is not stored, through cuts, deaths, failed writes, recovery
\* intents and resets in any order: StartSafe for any ports, actions, documents and
\* directories that cannot be removed (factory_reset.rs apply, board_defaults.rs seed).
THEOREM StartIsSafe == DevSpec => []StartSafe
<1>1. DevInit => DvInv
  BY DvStarts
<1>2. DvInv /\ [DevNext]_devVars => DvInv'
  BY DvKept
<1>3. DvInv => StartSafe
  BY DvSafe
<1> QED
  BY <1>1, <1>2, <1>3, PTL DEF DevSpec

\* The other steps store nothing.
Stores ==
  \/ (\E d \in Tops : EraseTop(d)) \/ ApplyBootIntent
  \/ (\E d \in AppAreas \union {"config"} : ClearTarget(d))
  \/ CommitReset \/ Import \/ EnsureProvisioned \/ SeedPorts
  \/ Claim \/ SetKey \/ Configure
  \/ (\E p \in BoardPorts : TakePortOut(p)) \/ (\E t \in Tiers : StageTier(t))

LEMMA DvQuiet == [DevNext]_devVars => Stores \/ disk' = disk
<1> SUFFICES ASSUME [DevNext]_devVars PROVE Stores \/ disk' = disk
  OBVIOUS
<1>1. CASE RunkitStep
  BY <1>1 DEF RunkitStep, Stores, PowerOn, CheckRequest, KeepaliveFails, MakeLayout, WriteDone,
     RemoveRequest, BootRefused
<1>2. CASE StartStep
  BY <1>2 DEF StartStep, Stores, LoadTree, NoBootIntent, AssertionFails, NoStagedReset, StartReset,
     RemoveRecords, ResetFails, ImportFails, ProvisioningFails, RecordPorts, SeedPortsFails,
     FirstBoot, FirstBootFails
<1>3. CASE ServeStep
  BY <1>3 DEF ServeStep, Stores, UseApps, Installs, CheckFactoryReset, WrongPassword, ThrottleEnds,
     StageFactoryReset, StageByCli, RequestDamaged, Reboots
<1>4. CASE UNCHANGED devVars
  BY <1>4 DEF devVars
<1> QED
  BY <1>1, <1>2, <1>3, <1>4 DEF DevNext, DevPowerCut, MicadRestarts

\* What a write of the settings does to the claim, the identity and the tier.
Kept ==
  /\ disk.st.claimed => disk'.st.claimed /\ disk.st.id \in {0, disk'.st.id}
  /\ disk'.st.reset = "none" => disk.st.reset = "none"

LEMMA DvIntentKeeps == ASSUME DvInv, ApplyBootIntent PROVE Kept
  BY DEF ApplyBootIntent, DvInv, DvTrees, DvTypeOK, Past, Steps, Kept, Trees, StateDocs

LEMMA DvClearKeeps ==
  ASSUME DvInv, NEW d \in AppAreas \union {"config"}, ClearTarget(d) PROVE Kept
  BY DEF ClearTarget, DvInv, DvTypeOK, Trees, Kept

LEMMA DvImportKeeps == ASSUME DvInv, Import PROVE Kept
<1>1. mem = disk /\ mem \in Trees
  BY DEF Import, DvInv, DvTrees, DvTypeOK, Past, Steps
<1>2. CASE TakenPaper
  <2>1. disk' = ApplyInto(mem) /\ ~disk.st.claimed
    BY <1>1, <1>2 DEF Import, Saves, TakenPaper
  <2>2. ApplyInto(mem).st.reset = mem.st.reset
    BY <1>1 DEF ApplyInto, Trees, StateDocs
  <2> QED
    BY <1>1, <2>1, <2>2 DEF Kept
<1> QED
  BY <1>2 DEF Import, Kept

LEMMA DvProvisionKeeps == ASSUME DvInv, EnsureProvisioned PROVE Kept
<1>1. mem = disk /\ mem \in Trees
  BY DEF EnsureProvisioned, DvInv, DvTrees, DvTypeOK, Past, Steps
<1>2. CASE disk' = disk
  BY <1>2 DEF Kept
<1>3. CASE disk' = [mem EXCEPT !.st.complete = TRUE, !.st.id = Identity(mem)]
  <2> DEFINE i == Identity(mem)
  <2>1. mem.st.id \in {0, i}
    BY DEF Identity
  <2> HIDE DEF i
  <2>2. disk'.st.id = i /\ disk'.st.claimed = mem.st.claimed /\ disk'.st.reset = mem.st.reset
    BY <1>1, <1>3 DEF i, Trees, StateDocs
  <2> QED
    BY <1>1, <2>1, <2>2 DEF Kept
<1> QED
  BY <1>2, <1>3 DEF EnsureProvisioned, Saves

LEMMA DvServeKeeps ==
  ASSUME DvInv,
         \/ SeedPorts \/ Claim \/ SetKey \/ Configure
         \/ (\E p \in BoardPorts : TakePortOut(p)) \/ (\E t \in Tiers : StageTier(t))
  PROVE  Kept
<1>1. mem = disk /\ mem \in Trees
  BY DEF SeedPorts, Claim, SetKey, Configure, TakePortOut, StageTier, Writes, Steps, DvInv, DvTrees,
     DvTypeOK, Past
<1>2. CASE SeedPorts
  BY <1>1, <1>2 DEF SeedPorts, Saves, Kept, Trees, StateDocs
<1>3. CASE Claim
  BY <1>1, <1>3 DEF Claim, Writes, Saves, Kept, Trees, StateDocs
<1>4. CASE SetKey
  BY <1>1, <1>4 DEF SetKey, Writes, Saves, Kept, Trees
<1>5. CASE Configure
  BY <1>1, <1>5 DEF Configure, Writes, Saves, Kept, Trees
<1>6. ASSUME NEW p \in BoardPorts, TakePortOut(p) PROVE Kept
  BY <1>1, <1>6 DEF TakePortOut, Writes, Saves, Kept, Trees
<1>7. ASSUME NEW t \in Tiers, StageTier(t) PROVE Kept
  BY <1>1, <1>7 DEF StageTier, Writes, Saves, Kept, Trees, StateDocs, Tiers
<1> QED
  BY <1>2, <1>3, <1>4, <1>5, <1>6, <1>7

LEMMA DvCommitKeeps ==
  ASSUME DvInv, CommitReset
  PROVE  /\ disk.st.claimed => disk'.st.claimed /\ disk'.st.id = disk.st.id
         /\ IF mem.st.reset = "configuration"
            THEN ~disk'.cf.site /\ disk'.cf.ports = {} /\ portsRec' = {}
            ELSE appData' = {} /\ ~seedsRec'
  BY DEF CommitReset, Steps, DvInv, DvTrees, DvTypeOK, Trees, StateDocs, Saves, DvTier, ReseededSettings,
     NoConf, Tiers

\* A claimed device keeps its claim and its identity through every start, restart, power
\* cut and tier, and a staged tier is forgotten only once all it takes is gone:
\* StartPromises for any actions, documents and interleavings (reset.rs apply_pending,
\* import.rs the claim gate).
THEOREM StartKeepsPromises == DevSpec => StartPromises
<1>1. ASSUME DvInv, [DevNext]_devVars
      PROVE  /\ disk.st.claimed /\ phase # "erase" => disk'.st.claimed /\ disk.st.id \in {0, disk'.st.id}
             /\ disk.st.reset # "none" /\ disk'.st.reset = "none" /\ phase # "erase" =>
                   IF mem.st.reset = "configuration"
                   THEN ~disk'.cf.site /\ disk'.cf.ports = {} /\ portsRec' = {}
                   ELSE appData' = {} /\ ~seedsRec'
  BY <1>1, DvCommitKeeps, DvQuiet, DvIntentKeeps, DvClearKeeps, DvImportKeeps, DvProvisionKeeps,
     DvServeKeeps DEF EraseTop, Kept, Stores
<1>2. DvInv /\ [DevNext]_devVars => [disk.st.claimed /\ phase # "erase"
        => disk'.st.claimed /\ disk.st.id \in {0, disk'.st.id}]_devVars
  BY <1>1
<1>3. DvInv /\ [DevNext]_devVars =>
        [disk.st.reset # "none" /\ disk'.st.reset = "none" /\ phase # "erase"
        => IF mem.st.reset = "configuration"
           THEN ~disk'.cf.site /\ disk'.cf.ports = {} /\ portsRec' = {}
           ELSE appData' = {} /\ ~seedsRec']_devVars
  BY <1>1
<1>4. DevSpec => []DvInv
  BY DvStarts, DvKept, PTL DEF DevSpec
<1>5. DevSpec => ClaimAndIdentityKept
  BY <1>2, <1>4, PTL DEF DevSpec, ClaimAndIdentityKept
<1>6. DevSpec => TierCarriedOutWhole
  BY <1>3, <1>4, PTL DEF DevSpec, TierCarriedOutWhole
<1> QED
  BY <1>5, <1>6 DEF StartPromises
HIDE DEF devStored, devMeta, devRun, devPast, devBoot

-----------------------------------------------------------------------------
(***************************************************************************)
(* The apps.                                                               *)
(***************************************************************************)

MaybeBundles == Bundles \union {NoBundle}
Uids == 0..(2 * Cardinality(Apps) + 1)
Privileges == UNION {b.asks : b \in Bundles} \union {"root"}
MaybeVersions == BundleVersions \union {0}
MaybeBuilds == {b.build : b \in MaybeBundles}
Asked == [version : MaybeVersions, build : MaybeBuilds, privileges : SUBSET Privileges]
AppRecords == [current : MaybeBundles, previous : MaybeBundles, firstRun : SUBSET MaybeVersions,
               failed : MaybeVersions, asked : Asked]
SeedRecords == [bundle : MaybeBundles, result : {"none", "skipped", "installed", "upgraded", "failed"},
                failedBuild : MaybeBundles, tries : 0..SEED_TRIES]
Switching == SwitchSteps \union {"switched", "write"}
FlowSteps == {"idle", "unpack", "place", "failed", "tear down", "clear", "forget", "note ok",
              "note failed"} \union Switching
Flows == [at : FlowSteps, op : {"none", "install", "update", "upgrade", "rollback", "remove"},
          app : Apps \union {"none"}, to : MaybeBundles, from : MaybeBundles, gone : MaybeBundles,
          uid : Uids, hook : BOOLEAN, back : BOOLEAN, purge : BOOLEAN, dataThere : BOOLEAN,
          hands : {"none", "user", "daily", "image"}, want : MaybeBundles]

\* The shape of the state.
AfDisk ==
  /\ passwd \in [Apps -> Uids]
  /\ dataOf \in [Apps -> Uids \union {-1}]
  /\ appDirs \in [Apps -> [BundleVersions -> MaybeBundles]]
  /\ appLink \in [Apps -> MaybeVersions]
  /\ unitText \in [Apps -> [AppUnits -> MaybeBundles]]
  /\ unitRuns \in [Apps -> [AppUnits -> MaybeBundles]]
AfBook ==
  /\ appRec \in [Apps -> AppRecords]
  /\ appUid \in [Apps -> Uids]
  /\ seedRec \in [Apps -> SeedRecords]
AfAround ==
  /\ offered \in [Apps -> MaybeBundles]
  /\ seedOf \in [Apps -> MaybeBundles]
  /\ \A a \in Apps : {offered[a], seedOf[a]} \subseteq BundlesOf(a) \union {NoBundle}
  /\ toSeed \subseteq Apps
  /\ \A a \in toSeed : seedOf[a] # NoBundle
  /\ harmed \in [Apps -> BOOLEAN]
  /\ consent \in [Apps -> SUBSET Privileges]
  /\ byUser \in [Apps -> BOOLEAN]
  /\ handTurn \in [Apps -> MaybeVersions]
AfFlow ==
  /\ appJob \in Flows
  /\ appJob = NoFlow \/ (appJob.at # "idle" /\ appJob.app \in Apps)
AfType == AfDisk /\ AfBook /\ AfAround /\ AfFlow

\* What the record of an app says, and what a flow at a step is about.
AfRec ==
  \A a \in Apps :
    /\ Installed(a) => Current(a) \in Bundles
    /\ Installed(a) /\ appRec[a].previous # NoBundle =>
         appRec[a].previous.version # Current(a).version
AfJob ==
  /\ Job.at \in {"unpack", "place"} \union Switching => Job.to \in Bundles
  /\ Job.at \in {"unpack", "place", "name", "write"} => Job.op \notin {"rollback", "remove"}
  /\ Job.at \in {"unpack", "place", "name", "hook", "switched", "write", "tear down", "clear", "forget"} => ~Job.back
  /\ Job.op = "rollback" /\ Job.at \in SwitchSteps => Job.from # NoBundle
  /\ Job.op = "remove" => Job.at \in {"tear down", "clear", "forget"}
  /\ Job.at = "forget" => Job.op = "remove"
  /\ Job.hands = "image" =>
       /\ Job.op \in {"install", "upgrade"}
       /\ Job.want \in Bundles
       /\ IF Job.op = "upgrade"
          THEN seedRec[Job.app].failedBuild = Job.want => seedRec[Job.app].tries < SEED_TRIES
          ELSE seedRec[Job.app].bundle = Job.want => seedRec[Job.app].tries < SEED_TRIES

\* The uid a flow is about to give is no other app's.
AfOwn ==
  /\ OwnUsers
  /\ appJob # NoFlow /\ Job.uid # 0 =>
       \A c \in Apps \ {Job.app} : Job.uid \notin {appUid[c], passwd[c]}

\* Everything that is or may be made to run asks for no more than was let.
Let(a, b) == "root" \in consent[a] \/ b.asks \subseteq consent[a]
AfPriv ==
  /\ \A a \in Apps : /\ \A v \in BundleVersions : Let(a, appDirs[a][v])
                     /\ \A u \in AppUnits : Let(a, unitRuns[a][u])
  /\ appJob # NoFlow => Let(Job.app, Job.to) /\ Let(Job.app, Job.from) /\ Let(Job.app, Job.gone)

\* What the user made of an app, against the seed that was taken.
AfSeed ==
  /\ \A a \in Apps : byUser[a] =>
       /\ seedRec[a].result \notin {"none", "failed"}
       /\ ~Installed(a) \/ Current(a) # seedRec[a].bundle
  /\ Job.hands = "image" => ~byUser[Job.app]

\* An app as its record says: the units of the bundle b, and the directories.
Mine(b, u) == IF u \in b.units THEN b ELSE NoBundle
Texts(a, b) == \A u \in AppUnits : unitText[a][u] = Mine(b, u)
RunsOf(a, b) == \A u \in AppUnits : unitRuns[a][u] \in {NoBundle, Mine(b, u)}
DirsOf(a, dirs) ==
  Installed(a) =>
    /\ dirs[Current(a).version] = Current(a)
    /\ appRec[a].previous # NoBundle => dirs[appRec[a].previous.version] = appRec[a].previous
OwnsData(a) == Installed(a) => dataOf[a] = OwnerOf(Current(a), appUid[a])
WholeApp(a) ==
  /\ Texts(a, Current(a)) /\ RunsOf(a, Current(a))
  /\ appLink[a] = Current(a).version
  /\ DirsOf(a, appDirs[a]) /\ OwnsData(a)

\* What a flow leaves of the directories once it has switched.
DirsAfter(a) ==
  /\ appDirs[a][Job.to.version] = Job.to
  /\ Installed(a) /\ Current(a).version # Job.to.version => appDirs[a][Current(a).version] = Current(a)
  /\ Installed(a) /\ Current(a).version = Job.to.version /\ appRec[a].previous # NoBundle =>
       appDirs[a][appRec[a].previous.version] = appRec[a].previous
Pointed(a) == appLink[a] = Job.to.version /\ dataOf[a] = OwnerOf(Job.to, Job.uid)

\* A switch on its way to the new version: what a failure will need to go back ...
Returnable(a) ==
  IF Job.op = "rollback"
  THEN Installed(a) /\ DirsOf(a, appDirs[a])
  ELSE DirsOf(a, [appDirs[a] EXCEPT ![Job.to.version] = Job.gone])
\* ... and how far it came.
Forward(a) ==
  /\ Job.at # "write" => Returnable(a)
  /\ DirsAfter(a)
  /\ Job.from = Current(a)
  /\ Job.at \in {"name", "stop"} => Texts(a, Current(a)) /\ RunsOf(a, Current(a))
  /\ Job.at \in {"install", "drop", "point", "hook", "start"} =>
       \A u \in AppUnits : unitRuns[a][u] = NoBundle
  /\ Job.at = "install" => Texts(a, Current(a))
  /\ Job.at = "drop" =>
       \A u \in AppUnits : unitText[a][u] = IF u \in Job.to.units THEN Job.to ELSE Mine(Current(a), u)
  /\ Job.at \in {"point", "hook", "start", "switched", "write"} => Texts(a, Job.to)
  /\ Job.at \in {"hook", "start", "switched", "write"} => Pointed(a)
  /\ Job.at \in {"switched", "write"} => RunsOf(a, Job.to)

\* A switch on its way back to the version recorded.
Backward(a) ==
  /\ Installed(a) /\ Job.to = Current(a)
  /\ DirsOf(a, appDirs[a])
  /\ RunsOf(a, Current(a))
  /\ Job.at \in {"stop", "install", "drop"} =>
       \A u \in AppUnits : u \notin Current(a).units \union Job.from.units => unitText[a][u] = NoBundle
  /\ Job.at = "drop" => \A u \in Current(a).units : u \in AppUnits => unitText[a][u] = Current(a)
  /\ Job.at \in {"point", "start", "failed"} => Texts(a, Current(a))
  /\ Job.at \in {"start", "failed"} => Pointed(a)

Stage(a) ==
  /\ Job.at \in {"unpack", "note ok", "note failed"} => WholeApp(a)
  /\ Job.at = "place" =>
       /\ Texts(a, Current(a)) /\ RunsOf(a, Current(a)) /\ OwnsData(a)
       /\ DirsOf(a, [appDirs[a] EXCEPT ![Job.to.version] = Job.gone])
  /\ Job.at \in Switching /\ ~Job.back => Forward(a)
  /\ Job.at \in Switching \union {"failed"} /\ Job.back => Backward(a)
  /\ Job.at = "failed" => Job.back
  /\ Job.at \in {"tear down", "clear"} /\ Job.op # "remove" => ~Installed(a)
  /\ Job.at = "tear down" =>
       \A u \in AppUnits : u \notin Job.from.units => unitText[a][u] = NoBundle /\ unitRuns[a][u] = NoBundle
  /\ Job.at \in {"clear", "forget"} =>
       \A u \in AppUnits : unitText[a][u] = NoBundle /\ unitRuns[a][u] = NoBundle
  /\ Job.at = "forget" => appLink[a] = 0

AfWhole == \A a \in Apps : ~harmed[a] => IF appJob.app = a THEN Stage(a) ELSE WholeApp(a)

AfInv == AfType /\ AfRec /\ AfJob /\ AfOwn /\ AfPriv /\ AfSeed /\ AfWhole

-----------------------------------------------------------------------------
LEMMA LeastNat ==
  ASSUME NEW S \in SUBSET Nat, S # {}
  PROVE  \E m \in S : \A n \in S : m <= n
<1> DEFINE Less == {ss \in Nat \X Nat : ss[1] < ss[2]}
<1>1. IsWellFoundedOn(Less, Nat)
  BY NatLessThanWellFounded, Zenon DEF OpToRel
<1> HIDE DEF Less
<1>2. PICK m \in S : \A n \in S : ~ (<<n, m>> \in Less)
  BY <1>1, WFMin
<1>3. \A n \in S : ~ (n < m)
  BY <1>2 DEF Less
<1> QED BY <1>3

LEMMA AppsFinite == IsFiniteSet(Apps) /\ Cardinality(Apps) \in Nat
<1> DEFINE f == [b \in Bundles |-> b.app]
<1>1. f \in Surjection(Bundles, Apps)
  BY DEF Surjection, Apps
<1>2. IsFiniteSet(Apps)
  BY <1>1, BundleAssumption, FS_Surjection
<1> QED BY <1>2, FS_CardinalityType

\* A function over the apps has no more values than there are apps.
LEMMA RangeFinite ==
  ASSUME NEW S, NEW g \in [Apps -> S]
  PROVE  IsFiniteSet(Range(g)) /\ Cardinality(Range(g)) \in Nat /\ Cardinality(Range(g)) <= Cardinality(Apps)
  BY AppsFinite, FS_Surjection, FS_CardinalityType DEF Surjection, Range

\* There is a uid that neither the record nor /etc/passwd names, within the bound.
LEMMA FreeUid ==
  ASSUME NEW p \in [Apps -> Uids], NEW q \in [Apps -> Uids]
  PROVE  \E n \in 1..(2 * Cardinality(Apps) + 1) :
           /\ n \notin Range(p) \union Range(q)
           /\ \A k \in 1..(n - 1) : k \in Range(p) \union Range(q)
<1> DEFINE R == Range(p) \union Range(q)
           N == 2 * Cardinality(Apps) + 1
           S == {n \in 1..N : n \notin R}
<1>1. IsFiniteSet(R) /\ Cardinality(R) <= 2 * Cardinality(Apps) /\ Cardinality(R) \in Nat
  <2> DEFINE RP == Range(p)
             RQ == Range(q)
  <2>1. /\ IsFiniteSet(RP) /\ Cardinality(RP) \in Nat /\ Cardinality(RP) <= Cardinality(Apps)
        /\ IsFiniteSet(RQ) /\ Cardinality(RQ) \in Nat /\ Cardinality(RQ) <= Cardinality(Apps)
    BY RangeFinite
  <2> HIDE DEF RP, RQ
  <2>2. IsFiniteSet(RP \cap RQ)
    BY <2>1, FS_Subset
  <2>3. Cardinality(RP \cap RQ) \in Nat
    BY <2>2, FS_CardinalityType
  <2>4. /\ IsFiniteSet(RP \cup RQ)
        /\ Cardinality(RP \cup RQ) = Cardinality(RP) + Cardinality(RQ) - Cardinality(RP \cap RQ)
    BY <2>1, FS_Union
  <2>5. R = RP \cup RQ
    BY DEF RP, RQ
  <2>6. Cardinality(RP \cup RQ) \in Nat
    BY <2>4, FS_CardinalityType
  <2> HIDE DEF R
  <2> QED BY <2>1, <2>3, <2>4, <2>5, <2>6, AppsFinite
<1>2. N \in Nat /\ Cardinality(1..N) = N
  <2>1. N \in Nat /\ N > 0
    BY AppsFinite
  <2> HIDE DEF N
  <2>2. Cardinality(1..N) = IF 1 > N THEN 0 ELSE N - 1 + 1
    BY <2>1, FS_Interval
  <2> QED BY <2>1, <2>2
<1> HIDE DEF R, N
<1>3. S # {}
  <2> SUFFICES ASSUME S = {} PROVE FALSE
    OBVIOUS
  <2>1. 1..N \in SUBSET R
    OBVIOUS
  <2>2. Cardinality(1..N) <= Cardinality(R)
    BY <1>1, <2>1, FS_Subset
  <2> QED BY <1>1, <1>2, <2>2, AppsFinite DEF N
<1>4. PICK m \in S : \A n \in S : m <= n
  <2>1. S \in SUBSET Nat
    BY <1>2
  <2> HIDE DEF S
  <2> QED BY <1>3, <2>1, LeastNat
<1>5. m \in 1..N /\ m \notin R /\ \A k \in 1..(m - 1) : k \in R
  BY <1>2, <1>4
<1> QED BY <1>5 DEF R, N

LEMMA UidsNat == Uids \subseteq Nat /\ 0 \in Uids
  BY AppsFinite DEF Uids

\* The uid an app is given is within the bound, and no other app has it.
LEMMA AccountOwn ==
  ASSUME AfDisk, AfBook, NEW a \in Apps, NEW b
  PROVE  /\ Account(a, b) \in Uids
         /\ OwnUsers /\ Account(a, b) # 0 =>
              \A c \in Apps \ {a} : Account(a, b) \notin {appUid[c], passwd[c]}
<1>1. appUid[a] \in Uids
  BY DEF AfBook
<1>2. CASE Account(a, b) = appUid[a]
  BY <1>1, <1>2 DEF OwnUsers
<1>3. CASE Account(a, b) # appUid[a]
  <2> DEFINE Free(n) == /\ n \notin Range(appUid) \union Range(passwd)
                        /\ \A k \in 1..(n - 1) : k \in Range(appUid) \union Range(passwd)
  <2>1. \E n \in 1..(2 * Cardinality(Apps) + 1) : Free(n)
    BY FreeUid DEF AfDisk, AfBook
  <2>2. Account(a, b) = CHOOSE n \in 1..(2 * Cardinality(Apps) + 1) : Free(n)
    BY <1>3 DEF Account
  <2> HIDE DEF Free
  <2>3. Account(a, b) \in 1..(2 * Cardinality(Apps) + 1) /\ Free(Account(a, b))
    BY <2>1, <2>2
  <2>4. Account(a, b) \notin Range(appUid) \union Range(passwd)
    BY <2>3 DEF Free
  <2>5. \A c \in Apps : appUid[c] \in Range(appUid) /\ passwd[c] \in Range(passwd)
    BY DEF Range, AfBook, AfDisk
  <2> QED BY <2>3, <2>4, <2>5, AppsFinite DEF Uids
<1> QED BY <1>2, <1>3

\* What is in no record is not in the lists.
LEMMA BundleFacts ==
  /\ NoBundle \notin Bundles /\ NoBundle.version = 0 /\ NoBundle.units = {} /\ NoBundle.asks = {}
  /\ "none" \notin Apps
  /\ \A b \in Bundles : b.version \in BundleVersions /\ b.version # 0
  /\ BundleVersions \subseteq Nat \ {0}
  /\ \A b \in Bundles : b.app \in Apps
  /\ \A b \in MaybeBundles : b.version \in MaybeVersions /\ b.asks \in SUBSET Privileges
  BY BundleAssumption DEF NoBundle, Apps, BundleVersions, MaybeBundles, MaybeVersions, Privileges

-----------------------------------------------------------------------------
LEMMA NoFlowTyped ==
  /\ NoFlow \in Flows /\ NoFlow.at = "idle" /\ NoFlow.app = "none" /\ NoFlow.hands = "none"
  /\ NoFlow.op = "none" /\ NoFlow.uid = 0 /\ NoFlow.back = FALSE
  /\ NoFlow.to = NoBundle /\ NoFlow.from = NoBundle /\ NoFlow.gone = NoBundle /\ NoFlow.want = NoBundle
  BY UidsNat DEF NoFlow, Flows, FlowSteps, Switching, MaybeBundles

\* The app of a flow that runs, and what a step leaves of the flow.
LEMMA FlowRuns ==
  ASSUME AfFlow, appJob.at # "idle"
  PROVE  appJob.app \in Apps /\ appJob # NoFlow /\ appJob \in Flows
  BY NoFlowTyped DEF AfFlow

LEMMA FlowGoes ==
  ASSUME AfFlow, appJob.at # "idle", NEW x \in FlowSteps \ {"idle"}, JobGoes(x)
  PROVE  /\ AfFlow' /\ appJob' # NoFlow /\ appJob'.at = x
         /\ appJob'.op = appJob.op /\ appJob'.app = appJob.app /\ appJob'.to = appJob.to
         /\ appJob'.from = appJob.from /\ appJob'.gone = appJob.gone /\ appJob'.uid = appJob.uid
         /\ appJob'.hook = appJob.hook /\ appJob'.back = appJob.back /\ appJob'.purge = appJob.purge
         /\ appJob'.dataThere = appJob.dataThere /\ appJob'.hands = appJob.hands
         /\ appJob'.want = appJob.want
  BY FlowRuns, NoFlowTyped DEF JobGoes, Flows, AfFlow

\* The end of a flow: it is gone, or its outcome is still to be noted.
LEMMA FlowEnds ==
  ASSUME AfFlow, appJob.at # "idle", NEW ok \in BOOLEAN, Ending(ok)
  PROVE  /\ AfFlow'
         /\ \/ appJob' = NoFlow
            \/ /\ appJob' # NoFlow
               /\ appJob'.at = IF ok THEN "note ok" ELSE "note failed"
               /\ appJob'.op = appJob.op /\ appJob'.app = appJob.app /\ appJob'.to = appJob.to
               /\ appJob'.from = appJob.from /\ appJob'.gone = appJob.gone /\ appJob'.uid = appJob.uid
               /\ appJob'.hands = appJob.hands /\ appJob'.want = appJob.want
<1> DEFINE x == IF ok THEN "note ok" ELSE "note failed"
<1>1. x \in FlowSteps \ {"idle"}
  BY DEF FlowSteps
<1> HIDE DEF x
<1>2. CASE appJob' = NoFlow
  BY <1>2, NoFlowTyped DEF AfFlow
<1>3. CASE appJob' = [appJob EXCEPT !.at = x]
  BY <1>1, <1>3, FlowGoes DEF JobGoes, x
<1> QED BY <1>2, <1>3 DEF Ending, Job, x

-----------------------------------------------------------------------------
USE DEF appDisk, appBook, appSeen, appOutside, Job

LEMMA NoBundleMaybe == NoBundle \in MaybeBundles
  BY DEF MaybeBundles

LEMMA NotSeededTyped == NotSeeded \in SeedRecords
  BY NoBundleMaybe DEF SEED_TRIES, NotSeeded, SeedRecords

SameApp(c) ==
  /\ appRec'[c] = appRec[c] /\ appUid'[c] = appUid[c] /\ dataOf'[c] = dataOf[c]
  /\ appDirs'[c] = appDirs[c] /\ appLink'[c] = appLink[c]
  /\ unitText'[c] = unitText[c] /\ unitRuns'[c] = unitRuns[c]

LEMMA SameWhole == ASSUME NEW c \in Apps, SameApp(c), WholeApp(c) PROVE WholeApp(c)'
  BY DEF SameApp, WholeApp, Texts, RunsOf, DirsOf, OwnsData, Installed, Current

LEMMA ForwardStage ==
  ASSUME NEW a, appJob'.at \in Switching, ~appJob'.back, Forward(a)' PROVE Stage(a)'
  BY DEF Stage, Switching, SwitchSteps
LEMMA BackwardStage ==
  ASSUME NEW a, appJob'.at \in Switching \union {"failed"}, appJob'.back, Backward(a)' PROVE Stage(a)'
  BY DEF Stage, Switching, SwitchSteps

LEMMA EndStage ==
  ASSUME NEW a \in Apps, WholeApp(a)', appJob' = NoFlow \/ appJob'.at \in {"note ok", "note failed"}
  PROVE  IF appJob'.app = a THEN Stage(a)' ELSE WholeApp(a)'
  BY NoFlowTyped, BundleFacts DEF Stage, Switching, SwitchSteps

\* A step of a flow changes its own app alone.
LEMMA WholeStep ==
  ASSUME AfWhole, NEW a \in Apps, appJob.app = a, appJob'.app \in {a, "none"},
         \A c \in Apps \ {a} : SameApp(c) /\ harmed'[c] = harmed[c],
         ~harmed'[a] => ~harmed[a],
         ~harmed'[a] /\ Stage(a) => IF appJob'.app = a THEN Stage(a)' ELSE WholeApp(a)'
  PROVE  AfWhole'
  BY SameWhole, BundleFacts DEF AfWhole

LEMMA AfNameAccount == ASSUME AfInv, NameAccount PROVE AfInv'
<1>0. PICK a : a = appJob.app
  OBVIOUS
<1>a. AfFlow /\ appJob.at # "idle" /\ appJob.app = a /\ a \in Apps /\ AfDisk /\ AfBook /\ AfAround /\ appJob # NoFlow
  BY <1>0, FlowRuns DEF AfInv, AfType, NameAccount, JobAt
<1>t. /\ appJob.to \in MaybeBundles /\ appJob.from \in MaybeBundles /\ appJob.gone \in MaybeBundles
      /\ appJob.uid \in Uids /\ appJob.hook \in BOOLEAN /\ appJob.back \in BOOLEAN
  BY <1>a DEF AfFlow, Flows
<1>b. JobGoes("stop")
  BY DEF NameAccount
<1>c. ("stop") \in FlowSteps \ {"idle"}
  BY DEF FlowSteps, Switching, SwitchSteps
<1>d. /\ AfFlow' /\ appJob' # NoFlow /\ appJob'.at = "stop"
      /\ appJob'.op = appJob.op /\ appJob'.app = appJob.app /\ appJob'.to = appJob.to
      /\ appJob'.from = appJob.from /\ appJob'.gone = appJob.gone /\ appJob'.uid = appJob.uid
      /\ appJob'.back = appJob.back /\ appJob'.hands = appJob.hands
      /\ appJob'.want = appJob.want
  BY <1>a, <1>b, <1>c, FlowGoes
<1>1. AfDisk'
  BY <1>a, <1>d, <1>t, NoBundleMaybe, UidsNat DEF AfInv, AfDisk, NameAccount, OnDisk, JobAt
<1>2. AfBook'
  BY <1>a, <1>d DEF AfInv, AfBook, NameAccount, OnDisk, JobAt
<1>3. AfAround'
  BY <1>a, <1>d DEF AfInv, AfAround, NameAccount, OnDisk, JobAt
<1>4. AfRec'
  BY <1>a, <1>d DEF AfInv, AfRec, Installed, Current, NameAccount, OnDisk, JobAt
<1>5. AfJob'
  BY <1>a, <1>d DEF AfInv, AfJob, Switching, SwitchSteps, NameAccount, OnDisk, JobAt
<1>6. AfOwn'
  BY <1>a, <1>d DEF AfInv, AfOwn, OwnUsers, NameAccount, OnDisk, JobAt
<1>7. AfPriv'
  BY <1>a, <1>d, BundleFacts DEF AfInv, AfPriv, Let, NameAccount, OnDisk, JobAt
<1>8. AfSeed'
  BY <1>a, <1>d DEF AfInv, AfSeed, Installed, Current, NameAccount, OnDisk, JobAt
<1>9. AfWhole'
  <2>1. \A c \in Apps \ {a} : SameApp(c) /\ harmed'[c] = harmed[c]
    BY <1>a, <1>d DEF SameApp, NameAccount, OnDisk, JobAt, AfDisk, AfBook, AfAround
  <2>2. ~harmed'[a] => ~harmed[a]
    BY <1>a, <1>d DEF NameAccount, OnDisk, JobAt, AfAround
  <2>3. ASSUME ~harmed'[a], Stage(a) PROVE IF appJob'.app = a THEN Stage(a)' ELSE WholeApp(a)'
    <3>0. /\ appRec' = appRec /\ appUid' = appUid /\ Job.at = "name"
          /\ unitText' = unitText /\ unitRuns' = unitRuns /\ appDirs' = appDirs /\ appLink' = appLink /\ dataOf' = dataOf
      BY <1>a DEF NameAccount, OnDisk, JobAt, AfDisk
    <3>1. CASE ~Job.back
      <4>1. Forward(a)
        BY <1>a, <2>3, <3>0, <3>1 DEF Stage, Switching, SwitchSteps
      <4>3. Forward(a)'
        BY <1>a, <1>d, <3>0, <4>1 DEF Forward, Returnable, DirsAfter, DirsOf, Installed, Current, Texts, RunsOf
      <4> QED BY <1>a, <1>d, <3>1, <4>3, ForwardStage DEF Switching, SwitchSteps
    <3> QED BY <1>a, <1>d, <3>0, <3>1 DEF AfInv, AfJob
  <2>4. appJob.app = a /\ appJob'.app \in {a, "none"} /\ AfWhole
    BY <1>a, <1>d, NoFlowTyped DEF AfInv
  <2> QED BY <1>a, <2>1, <2>2, <2>3, <2>4, WholeStep
<1> QED BY <1>1, <1>2, <1>3, <1>4, <1>5, <1>6, <1>7, <1>8, <1>9, <1>d DEF AfInv, AfType

LEMMA AfStopUnits == ASSUME AfInv, StopUnits PROVE AfInv'
<1>0. PICK a : a = appJob.app
  OBVIOUS
<1>a. AfFlow /\ appJob.at # "idle" /\ appJob.app = a /\ a \in Apps /\ AfDisk /\ AfBook /\ AfAround /\ appJob # NoFlow
  BY <1>0, FlowRuns DEF AfInv, AfType, StopUnits, JobAt
<1>t. /\ appJob.to \in MaybeBundles /\ appJob.from \in MaybeBundles /\ appJob.gone \in MaybeBundles
      /\ appJob.uid \in Uids /\ appJob.hook \in BOOLEAN /\ appJob.back \in BOOLEAN
  BY <1>a DEF AfFlow, Flows
<1>b. JobGoes("install")
  BY DEF StopUnits
<1>c. ("install") \in FlowSteps \ {"idle"}
  BY DEF FlowSteps, Switching, SwitchSteps
<1>d. /\ AfFlow' /\ appJob' # NoFlow /\ appJob'.at = "install"
      /\ appJob'.op = appJob.op /\ appJob'.app = appJob.app /\ appJob'.to = appJob.to
      /\ appJob'.from = appJob.from /\ appJob'.gone = appJob.gone /\ appJob'.uid = appJob.uid
      /\ appJob'.back = appJob.back /\ appJob'.hands = appJob.hands
      /\ appJob'.want = appJob.want
  BY <1>a, <1>b, <1>c, FlowGoes
<1>1. AfDisk'
  BY <1>a, <1>d, <1>t, NoBundleMaybe, UidsNat DEF AfInv, AfDisk, StopUnits, OnDisk, JobAt
<1>2. AfBook'
  BY <1>a, <1>d DEF AfInv, AfBook, StopUnits, OnDisk, JobAt
<1>3. AfAround'
  BY <1>a, <1>d DEF AfInv, AfAround, StopUnits, OnDisk, JobAt
<1>4. AfRec'
  BY <1>a, <1>d DEF AfInv, AfRec, Installed, Current, StopUnits, OnDisk, JobAt
<1>5. AfJob'
  BY <1>a, <1>d DEF AfInv, AfJob, Switching, SwitchSteps, StopUnits, OnDisk, JobAt
<1>6. AfOwn'
  BY <1>a, <1>d DEF AfInv, AfOwn, OwnUsers, StopUnits, OnDisk, JobAt
<1>7. AfPriv'
  BY <1>a, <1>d, BundleFacts DEF AfInv, AfPriv, Let, StopUnits, OnDisk, JobAt
<1>8. AfSeed'
  BY <1>a, <1>d DEF AfInv, AfSeed, Installed, Current, StopUnits, OnDisk, JobAt
<1>9. AfWhole'
  <2>1. \A c \in Apps \ {a} : SameApp(c) /\ harmed'[c] = harmed[c]
    BY <1>a, <1>d DEF SameApp, StopUnits, OnDisk, JobAt, AfDisk, AfBook, AfAround
  <2>2. ~harmed'[a] => ~harmed[a]
    BY <1>a, <1>d DEF StopUnits, OnDisk, JobAt, AfAround
  <2>3. ASSUME ~harmed'[a], Stage(a) PROVE IF appJob'.app = a THEN Stage(a)' ELSE WholeApp(a)'
    <3>0. /\ appRec' = appRec /\ appUid' = appUid /\ Job.at = "stop"
          /\ unitRuns'[a] = [u \in AppUnits |-> IF u \in Job.from.units THEN NoBundle ELSE unitRuns[a][u]]
          /\ unitText' = unitText /\ appDirs' = appDirs /\ appLink' = appLink /\ dataOf' = dataOf
      BY <1>a DEF StopUnits, OnDisk, JobAt, AfDisk
    <3>1. CASE ~Job.back
      <4>1. Forward(a)
        BY <1>a, <2>3, <3>0, <3>1 DEF Stage, Switching, SwitchSteps
      <4>2. \A u \in AppUnits : unitRuns'[a][u] = NoBundle
        BY <3>0, <4>1 DEF Forward, RunsOf, Mine
      <4>3. Forward(a)'
        BY <1>a, <1>d, <3>0, <4>1, <4>2 DEF Forward, Returnable, DirsAfter, DirsOf, Installed, Current, Texts
      <4> QED BY <1>a, <1>d, <3>1, <4>3, ForwardStage DEF Switching, SwitchSteps
    <3>2. CASE Job.back
      BY <1>a, <2>3, <3>0, <3>2, <1>d, BackwardStage DEF Stage, Switching, SwitchSteps, Backward, RunsOf,
         Current, DirsOf, Installed
    <3> QED BY <1>a, <1>d, <3>1, <3>2
  <2>4. appJob.app = a /\ appJob'.app \in {a, "none"} /\ AfWhole
    BY <1>a, <1>d, NoFlowTyped DEF AfInv
  <2> QED BY <1>a, <2>1, <2>2, <2>3, <2>4, WholeStep
<1> QED BY <1>1, <1>2, <1>3, <1>4, <1>5, <1>6, <1>7, <1>8, <1>9, <1>d DEF AfInv, AfType

LEMMA AfInstallUnits == ASSUME AfInv, InstallUnits PROVE AfInv'
<1>0. PICK a : a = appJob.app
  OBVIOUS
<1>a. AfFlow /\ appJob.at # "idle" /\ appJob.app = a /\ a \in Apps /\ AfDisk /\ AfBook /\ AfAround /\ appJob # NoFlow
  BY <1>0, FlowRuns DEF AfInv, AfType, InstallUnits, JobAt
<1>t. /\ appJob.to \in MaybeBundles /\ appJob.from \in MaybeBundles /\ appJob.gone \in MaybeBundles
      /\ appJob.uid \in Uids /\ appJob.hook \in BOOLEAN /\ appJob.back \in BOOLEAN
  BY <1>a DEF AfFlow, Flows
<1>b. JobGoes("drop")
  BY DEF InstallUnits
<1>c. ("drop") \in FlowSteps \ {"idle"}
  BY DEF FlowSteps, Switching, SwitchSteps
<1>d. /\ AfFlow' /\ appJob' # NoFlow /\ appJob'.at = "drop"
      /\ appJob'.op = appJob.op /\ appJob'.app = appJob.app /\ appJob'.to = appJob.to
      /\ appJob'.from = appJob.from /\ appJob'.gone = appJob.gone /\ appJob'.uid = appJob.uid
      /\ appJob'.back = appJob.back /\ appJob'.hands = appJob.hands
      /\ appJob'.want = appJob.want
  BY <1>a, <1>b, <1>c, FlowGoes
<1>1. AfDisk'
  BY <1>a, <1>d, <1>t, NoBundleMaybe, UidsNat DEF AfInv, AfDisk, InstallUnits, OnDisk, JobAt
<1>2. AfBook'
  BY <1>a, <1>d DEF AfInv, AfBook, InstallUnits, OnDisk, JobAt
<1>3. AfAround'
  BY <1>a, <1>d DEF AfInv, AfAround, InstallUnits, OnDisk, JobAt
<1>4. AfRec'
  BY <1>a, <1>d DEF AfInv, AfRec, Installed, Current, InstallUnits, OnDisk, JobAt
<1>5. AfJob'
  BY <1>a, <1>d DEF AfInv, AfJob, Switching, SwitchSteps, InstallUnits, OnDisk, JobAt
<1>6. AfOwn'
  BY <1>a, <1>d DEF AfInv, AfOwn, OwnUsers, InstallUnits, OnDisk, JobAt
<1>7. AfPriv'
  BY <1>a, <1>d, BundleFacts DEF AfInv, AfPriv, Let, InstallUnits, OnDisk, JobAt
<1>8. AfSeed'
  BY <1>a, <1>d DEF AfInv, AfSeed, Installed, Current, InstallUnits, OnDisk, JobAt
<1>9. AfWhole'
  <2>1. \A c \in Apps \ {a} : SameApp(c) /\ harmed'[c] = harmed[c]
    BY <1>a, <1>d DEF SameApp, InstallUnits, OnDisk, JobAt, AfDisk, AfBook, AfAround
  <2>2. ~harmed'[a] => ~harmed[a]
    BY <1>a, <1>d DEF InstallUnits, OnDisk, JobAt, AfAround
  <2>3. ASSUME ~harmed'[a], Stage(a) PROVE IF appJob'.app = a THEN Stage(a)' ELSE WholeApp(a)'
    <3>0. /\ appRec' = appRec /\ appUid' = appUid /\ Job.at = "install"
          /\ unitText'[a] = [u \in AppUnits |-> IF u \in Job.to.units THEN Job.to ELSE unitText[a][u]]
          /\ unitRuns' = unitRuns /\ appDirs' = appDirs /\ appLink' = appLink /\ dataOf' = dataOf
      BY <1>a DEF InstallUnits, OnDisk, JobAt, AfDisk
    <3>1. CASE ~Job.back
      <4>1. Forward(a)
        BY <1>a, <2>3, <3>0, <3>1 DEF Stage, Switching, SwitchSteps
      <4>2. \A u \in AppUnits : unitText'[a][u] = IF u \in Job.to.units THEN Job.to ELSE Mine(Current(a), u)
        BY <3>0, <4>1 DEF Forward, Texts
      <4>3. Forward(a)'
        BY <1>a, <1>d, <3>0, <4>1, <4>2 DEF Forward, Returnable, DirsAfter, DirsOf, Installed, Current, Texts
      <4> QED BY <1>a, <1>d, <3>1, <4>3, ForwardStage DEF Switching, SwitchSteps
    <3>2. CASE Job.back
      BY <1>a, <2>3, <3>0, <3>2, <1>d, BackwardStage DEF Stage, Switching, SwitchSteps, Backward, DirsOf,
         Installed, Current, RunsOf
    <3> QED BY <1>a, <1>d, <3>1, <3>2
  <2>4. appJob.app = a /\ appJob'.app \in {a, "none"} /\ AfWhole
    BY <1>a, <1>d, NoFlowTyped DEF AfInv
  <2> QED BY <1>a, <2>1, <2>2, <2>3, <2>4, WholeStep
<1> QED BY <1>1, <1>2, <1>3, <1>4, <1>5, <1>6, <1>7, <1>8, <1>9, <1>d DEF AfInv, AfType

LEMMA AfDropUnits == ASSUME AfInv, DropUnits PROVE AfInv'
<1>0. PICK a : a = appJob.app
  OBVIOUS
<1>a. AfFlow /\ appJob.at # "idle" /\ appJob.app = a /\ a \in Apps /\ AfDisk /\ AfBook /\ AfAround /\ appJob # NoFlow
  BY <1>0, FlowRuns DEF AfInv, AfType, DropUnits, JobAt
<1>t. /\ appJob.to \in MaybeBundles /\ appJob.from \in MaybeBundles /\ appJob.gone \in MaybeBundles
      /\ appJob.uid \in Uids /\ appJob.hook \in BOOLEAN /\ appJob.back \in BOOLEAN
  BY <1>a DEF AfFlow, Flows
<1>b. JobGoes("point")
  BY DEF DropUnits
<1>c. ("point") \in FlowSteps \ {"idle"}
  BY DEF FlowSteps, Switching, SwitchSteps
<1>d. /\ AfFlow' /\ appJob' # NoFlow /\ appJob'.at = "point"
      /\ appJob'.op = appJob.op /\ appJob'.app = appJob.app /\ appJob'.to = appJob.to
      /\ appJob'.from = appJob.from /\ appJob'.gone = appJob.gone /\ appJob'.uid = appJob.uid
      /\ appJob'.back = appJob.back /\ appJob'.hands = appJob.hands
      /\ appJob'.want = appJob.want
  BY <1>a, <1>b, <1>c, FlowGoes
<1>1. AfDisk'
  BY <1>a, <1>d, <1>t, NoBundleMaybe, UidsNat DEF AfInv, AfDisk, DropUnits, OnDisk, JobAt
<1>2. AfBook'
  BY <1>a, <1>d DEF AfInv, AfBook, DropUnits, OnDisk, JobAt
<1>3. AfAround'
  BY <1>a, <1>d DEF AfInv, AfAround, DropUnits, OnDisk, JobAt
<1>4. AfRec'
  BY <1>a, <1>d DEF AfInv, AfRec, Installed, Current, DropUnits, OnDisk, JobAt
<1>5. AfJob'
  BY <1>a, <1>d DEF AfInv, AfJob, Switching, SwitchSteps, DropUnits, OnDisk, JobAt
<1>6. AfOwn'
  BY <1>a, <1>d DEF AfInv, AfOwn, OwnUsers, DropUnits, OnDisk, JobAt
<1>7. AfPriv'
  BY <1>a, <1>d, BundleFacts DEF AfInv, AfPriv, Let, DropUnits, OnDisk, JobAt
<1>8. AfSeed'
  BY <1>a, <1>d DEF AfInv, AfSeed, Installed, Current, DropUnits, OnDisk, JobAt
<1>9. AfWhole'
  <2>1. \A c \in Apps \ {a} : SameApp(c) /\ harmed'[c] = harmed[c]
    BY <1>a, <1>d DEF SameApp, DropUnits, OnDisk, JobAt, AfDisk, AfBook, AfAround
  <2>2. ~harmed'[a] => ~harmed[a]
    BY <1>a, <1>d DEF DropUnits, OnDisk, JobAt, AfAround
  <2>3. ASSUME ~harmed'[a], Stage(a) PROVE IF appJob'.app = a THEN Stage(a)' ELSE WholeApp(a)'
    <3>0. /\ appRec' = appRec /\ appUid' = appUid /\ Job.at = "drop"
          /\ unitText'[a] = [u \in AppUnits |-> IF u \in Job.from.units \ Job.to.units THEN NoBundle ELSE unitText[a][u]]
          /\ unitRuns' = unitRuns /\ appDirs' = appDirs /\ appLink' = appLink /\ dataOf' = dataOf
      BY <1>a DEF DropUnits, OnDisk, JobAt, AfDisk
    <3>1. CASE ~Job.back
      <4>1. Forward(a)
        BY <1>a, <2>3, <3>0, <3>1 DEF Stage, Switching, SwitchSteps
      <4>2. Texts(a, Job.to)'
        BY <1>d, <3>0, <4>1 DEF Forward, Texts, Mine
      <4>3. Forward(a)'
        BY <1>a, <1>d, <3>0, <4>1, <4>2 DEF Forward, Returnable, DirsAfter, DirsOf, Installed, Current
      <4> QED BY <1>a, <1>d, <3>1, <4>3, ForwardStage DEF Switching, SwitchSteps
    <3>2. CASE Job.back
      <4>1. Backward(a)
        BY <1>a, <2>3, <3>0, <3>2 DEF Stage, Switching, SwitchSteps
      <4>2. Texts(a, Current(a))'
        BY <1>d, <3>0, <4>1 DEF Backward, Texts, Mine, Current
      <4>3. Backward(a)'
        BY <1>a, <1>d, <3>0, <4>1, <4>2 DEF Backward, DirsOf, Installed, Current, RunsOf
      <4> QED BY <1>a, <1>d, <3>2, <4>3, BackwardStage DEF Switching, SwitchSteps
    <3> QED BY <1>a, <1>d, <3>1, <3>2
  <2>4. appJob.app = a /\ appJob'.app \in {a, "none"} /\ AfWhole
    BY <1>a, <1>d, NoFlowTyped DEF AfInv
  <2> QED BY <1>a, <2>1, <2>2, <2>3, <2>4, WholeStep
<1> QED BY <1>1, <1>2, <1>3, <1>4, <1>5, <1>6, <1>7, <1>8, <1>9, <1>d DEF AfInv, AfType

LEMMA AfPointCurrent == ASSUME AfInv, PointCurrent PROVE AfInv'
<1>0. PICK a : a = appJob.app
  OBVIOUS
<1>a. AfFlow /\ appJob.at # "idle" /\ appJob.app = a /\ a \in Apps /\ AfDisk /\ AfBook /\ AfAround /\ appJob # NoFlow
  BY <1>0, FlowRuns DEF AfInv, AfType, PointCurrent, JobAt
<1>t. /\ appJob.to \in MaybeBundles /\ appJob.from \in MaybeBundles /\ appJob.gone \in MaybeBundles
      /\ appJob.uid \in Uids /\ appJob.hook \in BOOLEAN /\ appJob.back \in BOOLEAN
  BY <1>a DEF AfFlow, Flows
<1>b. JobGoes(IF Job.hook /\ ~Job.back THEN "hook" ELSE "start")
  BY DEF PointCurrent
<1>c. (IF Job.hook /\ ~Job.back THEN "hook" ELSE "start") \in FlowSteps \ {"idle"}
  BY DEF FlowSteps, Switching, SwitchSteps
<1>d. /\ AfFlow' /\ appJob' # NoFlow /\ appJob'.at = IF Job.hook /\ ~Job.back THEN "hook" ELSE "start"
      /\ appJob'.op = appJob.op /\ appJob'.app = appJob.app /\ appJob'.to = appJob.to
      /\ appJob'.from = appJob.from /\ appJob'.gone = appJob.gone /\ appJob'.uid = appJob.uid
      /\ appJob'.back = appJob.back /\ appJob'.hands = appJob.hands
      /\ appJob'.want = appJob.want
  BY <1>a, <1>b, <1>c, FlowGoes
<1>1. AfDisk'
  <2>1. Job.to \in Bundles /\ Job.uid \in Uids
    BY <1>a DEF AfInv, AfJob, Switching, SwitchSteps, PointCurrent, JobAt, AfFlow, Flows
  <2> QED BY <1>a, <1>d, <2>1, BundleFacts, UidsNat DEF AfInv, AfDisk, PointCurrent, OnDisk, JobAt, OwnerOf, MaybeVersions
<1>2. AfBook'
  BY <1>a, <1>d DEF AfInv, AfBook, PointCurrent, OnDisk, JobAt
<1>3. AfAround'
  BY <1>a, <1>d DEF AfInv, AfAround, PointCurrent, OnDisk, JobAt
<1>4. AfRec'
  BY <1>a, <1>d DEF AfInv, AfRec, Installed, Current, PointCurrent, OnDisk, JobAt
<1>5. AfJob'
  BY <1>a, <1>d DEF AfInv, AfJob, Switching, SwitchSteps, PointCurrent, OnDisk, JobAt
<1>6. AfOwn'
  BY <1>a, <1>d DEF AfInv, AfOwn, OwnUsers, PointCurrent, OnDisk, JobAt
<1>7. AfPriv'
  BY <1>a, <1>d, BundleFacts DEF AfInv, AfPriv, Let, PointCurrent, OnDisk, JobAt
<1>8. AfSeed'
  BY <1>a, <1>d DEF AfInv, AfSeed, Installed, Current, PointCurrent, OnDisk, JobAt
<1>9. AfWhole'
  <2>1. \A c \in Apps \ {a} : SameApp(c) /\ harmed'[c] = harmed[c]
    BY <1>a, <1>d DEF SameApp, PointCurrent, OnDisk, JobAt, AfDisk, AfBook, AfAround
  <2>2. ~harmed'[a] => ~harmed[a]
    BY <1>a, <1>d DEF PointCurrent, OnDisk, JobAt, AfAround
  <2>3. ASSUME ~harmed'[a], Stage(a) PROVE IF appJob'.app = a THEN Stage(a)' ELSE WholeApp(a)'
    <3>0. /\ appRec' = appRec /\ appUid' = appUid /\ Job.at = "point"
          /\ appLink'[a] = Job.to.version /\ dataOf'[a] = OwnerOf(Job.to, Job.uid)
          /\ unitRuns' = unitRuns /\ appDirs' = appDirs /\ unitText' = unitText
      BY <1>a DEF PointCurrent, OnDisk, JobAt, AfDisk
    <3>1. CASE ~Job.back
      <4>1. Forward(a)
        BY <1>a, <2>3, <3>0, <3>1 DEF Stage, Switching, SwitchSteps
      <4>2. Pointed(a)'
        BY <1>d, <3>0 DEF Pointed, OwnerOf
      <4>3. Forward(a)'
        BY <1>a, <1>d, <3>0, <4>1, <4>2 DEF Forward, Returnable, DirsAfter, DirsOf, Installed, Current, Texts
      <4> QED BY <1>a, <1>d, <3>1, <4>3, ForwardStage DEF Switching, SwitchSteps
    <3>2. CASE Job.back
      <4>1. Backward(a)
        BY <1>a, <2>3, <3>0, <3>2 DEF Stage, Switching, SwitchSteps
      <4>2. Pointed(a)'
        BY <1>d, <3>0 DEF Pointed, OwnerOf
      <4>3. Backward(a)'
        BY <1>a, <1>d, <3>0, <3>2, <4>1, <4>2 DEF Backward, DirsOf, Installed, Current, RunsOf, Texts
      <4> QED BY <1>a, <1>d, <3>2, <4>3, BackwardStage DEF Switching, SwitchSteps
    <3> QED BY <1>a, <1>d, <3>1, <3>2
  <2>4. appJob.app = a /\ appJob'.app \in {a, "none"} /\ AfWhole
    BY <1>a, <1>d, NoFlowTyped DEF AfInv
  <2> QED BY <1>a, <2>1, <2>2, <2>3, <2>4, WholeStep
<1> QED BY <1>1, <1>2, <1>3, <1>4, <1>5, <1>6, <1>7, <1>8, <1>9, <1>d DEF AfInv, AfType

LEMMA AfRunHook == ASSUME AfInv, RunHook PROVE AfInv'
<1>0. PICK a : a = appJob.app
  OBVIOUS
<1>a. AfFlow /\ appJob.at # "idle" /\ appJob.app = a /\ a \in Apps /\ AfDisk /\ AfBook /\ AfAround /\ appJob # NoFlow
  BY <1>0, FlowRuns DEF AfInv, AfType, RunHook, JobAt
<1>t. /\ appJob.to \in MaybeBundles /\ appJob.from \in MaybeBundles /\ appJob.gone \in MaybeBundles
      /\ appJob.uid \in Uids /\ appJob.hook \in BOOLEAN /\ appJob.back \in BOOLEAN
  BY <1>a DEF AfFlow, Flows
<1>b. JobGoes("start")
  BY DEF RunHook
<1>c. ("start") \in FlowSteps \ {"idle"}
  BY DEF FlowSteps, Switching, SwitchSteps
<1>d. /\ AfFlow' /\ appJob' # NoFlow /\ appJob'.at = "start"
      /\ appJob'.op = appJob.op /\ appJob'.app = appJob.app /\ appJob'.to = appJob.to
      /\ appJob'.from = appJob.from /\ appJob'.gone = appJob.gone /\ appJob'.uid = appJob.uid
      /\ appJob'.back = appJob.back /\ appJob'.hands = appJob.hands
      /\ appJob'.want = appJob.want
  BY <1>a, <1>b, <1>c, FlowGoes
<1>1. AfDisk'
  BY <1>a, <1>d, <1>t, NoBundleMaybe, UidsNat DEF AfInv, AfDisk, RunHook, OnDisk, JobAt
<1>2. AfBook'
  BY <1>a, <1>d DEF AfInv, AfBook, RunHook, OnDisk, JobAt
<1>3. AfAround'
  BY <1>a, <1>d DEF AfInv, AfAround, RunHook, OnDisk, JobAt
<1>4. AfRec'
  BY <1>a, <1>d DEF AfInv, AfRec, Installed, Current, RunHook, OnDisk, JobAt
<1>5. AfJob'
  BY <1>a, <1>d DEF AfInv, AfJob, Switching, SwitchSteps, RunHook, OnDisk, JobAt
<1>6. AfOwn'
  BY <1>a, <1>d DEF AfInv, AfOwn, OwnUsers, RunHook, OnDisk, JobAt
<1>7. AfPriv'
  BY <1>a, <1>d, BundleFacts DEF AfInv, AfPriv, Let, RunHook, OnDisk, JobAt
<1>8. AfSeed'
  BY <1>a, <1>d DEF AfInv, AfSeed, Installed, Current, RunHook, OnDisk, JobAt
<1>9. AfWhole'
  <2>1. \A c \in Apps \ {a} : SameApp(c) /\ harmed'[c] = harmed[c]
    BY <1>a, <1>d DEF SameApp, RunHook, OnDisk, JobAt, AfDisk, AfBook, AfAround
  <2>2. ~harmed'[a] => ~harmed[a]
    BY <1>a, <1>d DEF RunHook, OnDisk, JobAt, AfAround
  <2>3. ASSUME ~harmed'[a], Stage(a) PROVE IF appJob'.app = a THEN Stage(a)' ELSE WholeApp(a)'
    <3>0. /\ appRec' = appRec /\ appUid' = appUid /\ Job.at = "hook"
          /\ unitText' = unitText /\ unitRuns' = unitRuns /\ appDirs' = appDirs /\ appLink' = appLink /\ dataOf' = dataOf
      BY <1>a DEF RunHook, OnDisk, JobAt, AfDisk
    <3>1. CASE ~Job.back
      <4>1. Forward(a)
        BY <1>a, <2>3, <3>0, <3>1 DEF Stage, Switching, SwitchSteps
      <4>3. Forward(a)'
        BY <1>a, <1>d, <3>0, <4>1 DEF Forward, Returnable, DirsAfter, DirsOf, Installed, Current, Texts, Pointed
      <4> QED BY <1>a, <1>d, <3>1, <4>3, ForwardStage DEF Switching, SwitchSteps
    <3> QED BY <1>a, <1>d, <3>0, <3>1 DEF AfInv, AfJob
  <2>4. appJob.app = a /\ appJob'.app \in {a, "none"} /\ AfWhole
    BY <1>a, <1>d, NoFlowTyped DEF AfInv
  <2> QED BY <1>a, <2>1, <2>2, <2>3, <2>4, WholeStep
<1> QED BY <1>1, <1>2, <1>3, <1>4, <1>5, <1>6, <1>7, <1>8, <1>9, <1>d DEF AfInv, AfType

LEMMA AfStartUnits == ASSUME AfInv, StartUnits PROVE AfInv'
<1>0. PICK a : a = appJob.app
  OBVIOUS
<1>a. AfFlow /\ appJob.at # "idle" /\ appJob.app = a /\ a \in Apps /\ AfDisk /\ AfBook /\ AfAround /\ appJob # NoFlow
  BY <1>0, FlowRuns DEF AfInv, AfType, StartUnits, JobAt
<1>t. /\ appJob.to \in MaybeBundles /\ appJob.from \in MaybeBundles /\ appJob.gone \in MaybeBundles
      /\ appJob.uid \in Uids /\ appJob.hook \in BOOLEAN /\ appJob.back \in BOOLEAN
  BY <1>a DEF AfFlow, Flows
<1>b. JobGoes(IF Job.back THEN "failed" ELSE "switched")
  BY DEF StartUnits
<1>c. (IF Job.back THEN "failed" ELSE "switched") \in FlowSteps \ {"idle"}
  BY DEF FlowSteps, Switching, SwitchSteps
<1>d. /\ AfFlow' /\ appJob' # NoFlow /\ appJob'.at = IF Job.back THEN "failed" ELSE "switched"
      /\ appJob'.op = appJob.op /\ appJob'.app = appJob.app /\ appJob'.to = appJob.to
      /\ appJob'.from = appJob.from /\ appJob'.gone = appJob.gone /\ appJob'.uid = appJob.uid
      /\ appJob'.back = appJob.back /\ appJob'.hands = appJob.hands
      /\ appJob'.want = appJob.want
  BY <1>a, <1>b, <1>c, FlowGoes
<1>1. AfDisk'
  <2>1. \A u \in AppUnits : StartedUnits(a, Job.to.units)[u] \in MaybeBundles
    BY <1>a DEF AfDisk, StartedUnits, MaybeVersions
  <2>2. StartedUnits(a, Job.to.units) \in [AppUnits -> MaybeBundles]
    BY <2>1 DEF StartedUnits
  <2> HIDE DEF StartedUnits
  <2> QED BY <1>a, <2>2 DEF AfDisk, StartUnits, OnDisk
<1>2. AfBook'
  BY <1>a, <1>d DEF AfInv, AfBook, StartUnits, OnDisk, JobAt
<1>3. AfAround'
  BY <1>a, <1>d DEF AfInv, AfAround, StartUnits, OnDisk, JobAt
<1>4. AfRec'
  BY <1>a, <1>d DEF AfInv, AfRec, Installed, Current, StartUnits, OnDisk, JobAt
<1>5. AfJob'
  BY <1>a, <1>d DEF AfInv, AfJob, Switching, SwitchSteps, StartUnits, OnDisk, JobAt
<1>6. AfOwn'
  BY <1>a, <1>d DEF AfInv, AfOwn, OwnUsers, StartUnits, OnDisk, JobAt
<1>7. AfPriv'
  <2>1. \A u \in AppUnits : Let(a, StartedUnits(a, Job.to.units)[u])
    BY <1>a DEF AfInv, AfPriv, AfDisk, StartedUnits, MaybeVersions
  <2> HIDE DEF StartedUnits
  <2>2. unitRuns' = [unitRuns EXCEPT ![a] = StartedUnits(a, Job.to.units)] /\ consent' = consent /\ appDirs' = appDirs
    BY <1>a DEF StartUnits, OnDisk
  <2> QED BY <1>a, <1>d, <2>1, <2>2 DEF AfInv, AfDisk, AfPriv, Let
<1>8. AfSeed'
  BY <1>a, <1>d DEF AfInv, AfSeed, Installed, Current, StartUnits, OnDisk, JobAt
<1>9. AfWhole'
  <2>1. \A c \in Apps \ {a} : SameApp(c) /\ harmed'[c] = harmed[c]
    BY <1>a, <1>d DEF SameApp, StartUnits, OnDisk, JobAt, AfDisk, AfBook, AfAround
  <2>2. ~harmed'[a] => ~harmed[a]
    BY <1>a, <1>d DEF StartUnits, OnDisk, JobAt, AfAround
  <2>3. ASSUME ~harmed'[a], Stage(a) PROVE IF appJob'.app = a THEN Stage(a)' ELSE WholeApp(a)'
    <3>0. /\ appRec' = appRec /\ appUid' = appUid /\ Job.at = "start"
          /\ unitRuns'[a] = [u \in AppUnits |->
               IF u \in Job.to.units /\ unitRuns[a][u] = NoBundle /\ appLink[a] # 0
               THEN appDirs[a][appLink[a]] ELSE unitRuns[a][u]]
          /\ unitText' = unitText /\ appDirs' = appDirs /\ appLink' = appLink /\ dataOf' = dataOf
      BY <1>a DEF StartUnits, StartedUnits, OnDisk, JobAt, AfDisk
    <3>1. CASE ~Job.back
      <4>1. Forward(a)
        BY <1>a, <2>3, <3>0, <3>1 DEF Stage, Switching, SwitchSteps
      <4>2. RunsOf(a, Job.to)'
        BY <1>d, <3>0, <4>1 DEF Forward, RunsOf, Mine, DirsAfter, Pointed
      <4>3. Forward(a)'
        BY <1>a, <1>d, <3>0, <3>1, <4>1, <4>2 DEF Forward, Returnable, DirsAfter, DirsOf, Installed, Current, Texts, Pointed
      <4> QED BY <1>a, <1>d, <3>1, <4>3, ForwardStage DEF Switching, SwitchSteps
    <3>2. CASE Job.back
      <4>1. Backward(a)
        BY <1>a, <2>3, <3>0, <3>2 DEF Stage, Switching, SwitchSteps
      <4>2. RunsOf(a, Current(a))'
        BY <1>d, <3>0, <4>1 DEF Backward, RunsOf, Mine, DirsOf, Pointed, Current
      <4>3. Backward(a)'
        BY <1>a, <1>d, <3>0, <3>2, <4>1, <4>2 DEF Backward, DirsOf, Installed, Current, Texts, Pointed
      <4> QED BY <1>a, <1>d, <3>2, <4>3, BackwardStage DEF Switching, SwitchSteps
    <3> QED BY <1>a, <1>d, <3>1, <3>2
  <2>4. appJob.app = a /\ appJob'.app \in {a, "none"} /\ AfWhole
    BY <1>a, <1>d, NoFlowTyped DEF AfInv
  <2> QED BY <1>a, <2>1, <2>2, <2>3, <2>4, WholeStep
<1> QED BY <1>1, <1>2, <1>3, <1>4, <1>5, <1>6, <1>7, <1>8, <1>9, <1>d DEF AfInv, AfType

LEMMA AfPruneVersions == ASSUME AfInv, PruneVersions PROVE AfInv'
<1>0. PICK a : a = appJob.app
  OBVIOUS
<1>a. AfFlow /\ appJob.at # "idle" /\ appJob.app = a /\ a \in Apps /\ AfDisk /\ AfBook /\ AfAround /\ appJob # NoFlow
  BY <1>0, FlowRuns DEF AfInv, AfType, PruneVersions, JobAt
<1>t. /\ appJob.to \in MaybeBundles /\ appJob.from \in MaybeBundles /\ appJob.gone \in MaybeBundles
      /\ appJob.uid \in Uids /\ appJob.hook \in BOOLEAN /\ appJob.back \in BOOLEAN
  BY <1>a DEF AfFlow, Flows
<1>b. JobGoes("write")
  BY DEF PruneVersions
<1>c. ("write") \in FlowSteps \ {"idle"}
  BY DEF FlowSteps, Switching, SwitchSteps
<1>d. /\ AfFlow' /\ appJob' # NoFlow /\ appJob'.at = "write"
      /\ appJob'.op = appJob.op /\ appJob'.app = appJob.app /\ appJob'.to = appJob.to
      /\ appJob'.from = appJob.from /\ appJob'.gone = appJob.gone /\ appJob'.uid = appJob.uid
      /\ appJob'.back = appJob.back /\ appJob'.hands = appJob.hands
      /\ appJob'.want = appJob.want
  BY <1>a, <1>b, <1>c, FlowGoes
<1>1. AfDisk'
  BY <1>a, NoBundleMaybe DEF AfDisk, PruneVersions, OnDisk
<1>2. AfBook'
  BY <1>a, <1>d DEF AfInv, AfBook, PruneVersions, OnDisk, JobAt
<1>3. AfAround'
  BY <1>a, <1>d DEF AfInv, AfAround, PruneVersions, OnDisk, JobAt
<1>4. AfRec'
  BY <1>a, <1>d DEF AfInv, AfRec, Installed, Current, PruneVersions, OnDisk, JobAt
<1>5. AfJob'
  BY <1>a, <1>d DEF AfInv, AfJob, Switching, SwitchSteps, PruneVersions, OnDisk, JobAt
<1>6. AfOwn'
  BY <1>a, <1>d DEF AfInv, AfOwn, OwnUsers, PruneVersions, OnDisk, JobAt
<1>7. AfPriv'
  BY <1>a, <1>d, BundleFacts DEF AfDisk, PruneVersions, OnDisk, AfInv, AfPriv, Let
<1>8. AfSeed'
  BY <1>a, <1>d DEF AfInv, AfSeed, Installed, Current, PruneVersions, OnDisk, JobAt
<1>9. AfWhole'
  <2>1. \A c \in Apps \ {a} : SameApp(c) /\ harmed'[c] = harmed[c]
    BY <1>a, <1>d DEF SameApp, PruneVersions, OnDisk, JobAt, AfDisk, AfBook, AfAround
  <2>2. ~harmed'[a] => ~harmed[a]
    BY <1>a, <1>d DEF PruneVersions, OnDisk, JobAt, AfAround
  <2>3. ASSUME ~harmed'[a], Stage(a) PROVE IF appJob'.app = a THEN Stage(a)' ELSE WholeApp(a)'
    <3>0. /\ appRec' = appRec /\ appUid' = appUid /\ Job.at = "switched" /\ Job.op # "rollback"
          /\ unitText' = unitText /\ unitRuns' = unitRuns /\ appLink' = appLink /\ dataOf' = dataOf
          /\ \A v \in BundleVersions :
               v = Job.to.version \/ v = (IF Current(a).version # Job.to.version THEN Current(a).version
                                          ELSE appRec[a].previous.version)
                 => appDirs'[a][v] = appDirs[a][v]
      BY <1>a DEF PruneVersions, OnDisk, JobAt, AfDisk
    <3>1. ~Job.back /\ Job.to \in Bundles /\ AfRec
      BY <3>0 DEF AfInv, AfJob, Switching, SwitchSteps
    <3>2. Forward(a)
      BY <1>a, <2>3, <3>0, <3>1 DEF Stage, Switching, SwitchSteps
    <3>3. DirsAfter(a)'
      <4>1. DirsAfter(a)
        BY <3>2 DEF Forward
      <4>2. Job.to.version \in BundleVersions /\ (Installed(a) => Current(a).version \in BundleVersions)
        BY <1>a, <3>1, BundleFacts DEF AfRec
      <4>3. Installed(a) /\ appRec[a].previous # NoBundle => appRec[a].previous.version \in BundleVersions
        BY <1>a, BundleFacts DEF AfBook, AppRecords, MaybeBundles
      <4> QED BY <1>a, <1>d, <3>0, <4>1, <4>2, <4>3 DEF DirsAfter, Installed, Current
    <3>4. Forward(a)'
      BY <1>a, <1>d, <3>0, <3>2, <3>3 DEF Forward, Installed, Current, Texts, RunsOf, Pointed
    <3> QED BY <1>a, <1>d, <3>1, <3>4, ForwardStage DEF Switching
  <2>4. appJob.app = a /\ appJob'.app \in {a, "none"} /\ AfWhole
    BY <1>a, <1>d, NoFlowTyped DEF AfInv
  <2> QED BY <1>a, <2>1, <2>2, <2>3, <2>4, WholeStep
<1> QED BY <1>1, <1>2, <1>3, <1>4, <1>5, <1>6, <1>7, <1>8, <1>9, <1>d DEF AfInv, AfType

LEMMA AfTearDown == ASSUME AfInv, TearDown PROVE AfInv'
<1>0. PICK a : a = appJob.app
  OBVIOUS
<1>a. AfFlow /\ appJob.at # "idle" /\ appJob.app = a /\ a \in Apps /\ AfDisk /\ AfBook /\ AfAround /\ appJob # NoFlow
  BY <1>0, FlowRuns DEF AfInv, AfType, TearDown, JobAt
<1>t. /\ appJob.to \in MaybeBundles /\ appJob.from \in MaybeBundles /\ appJob.gone \in MaybeBundles
      /\ appJob.uid \in Uids /\ appJob.hook \in BOOLEAN /\ appJob.back \in BOOLEAN
  BY <1>a DEF AfFlow, Flows
<1>b. JobGoes("clear")
  BY DEF TearDown
<1>c. ("clear") \in FlowSteps \ {"idle"}
  BY DEF FlowSteps, Switching, SwitchSteps
<1>d. /\ AfFlow' /\ appJob' # NoFlow /\ appJob'.at = "clear"
      /\ appJob'.op = appJob.op /\ appJob'.app = appJob.app /\ appJob'.to = appJob.to
      /\ appJob'.from = appJob.from /\ appJob'.gone = appJob.gone /\ appJob'.uid = appJob.uid
      /\ appJob'.back = appJob.back /\ appJob'.hands = appJob.hands
      /\ appJob'.want = appJob.want
  BY <1>a, <1>b, <1>c, FlowGoes
<1>1. AfDisk'
  BY <1>a, <1>d, <1>t, NoBundleMaybe, UidsNat DEF AfInv, AfDisk, TearDown, OnDisk, JobAt
<1>2. AfBook'
  BY <1>a, <1>d DEF AfInv, AfBook, TearDown, OnDisk, JobAt
<1>3. AfAround'
  BY <1>a, <1>d DEF AfInv, AfAround, TearDown, OnDisk, JobAt
<1>4. AfRec'
  BY <1>a, <1>d DEF AfInv, AfRec, Installed, Current, TearDown, OnDisk, JobAt
<1>5. AfJob'
  BY <1>a, <1>d DEF AfInv, AfJob, Switching, SwitchSteps, TearDown, OnDisk, JobAt
<1>6. AfOwn'
  BY <1>a, <1>d DEF AfInv, AfOwn, OwnUsers, TearDown, OnDisk, JobAt
<1>7. AfPriv'
  BY <1>a, <1>d, BundleFacts DEF AfDisk, TearDown, OnDisk, AfInv, AfPriv, Let
<1>8. AfSeed'
  BY <1>a, <1>d DEF AfInv, AfSeed, Installed, Current, TearDown, OnDisk, JobAt
<1>9. AfWhole'
  <2>1. \A c \in Apps \ {a} : SameApp(c) /\ harmed'[c] = harmed[c]
    BY <1>a, <1>d DEF SameApp, TearDown, OnDisk, JobAt, AfDisk, AfBook, AfAround
  <2>2. ~harmed'[a] => ~harmed[a]
    BY <1>a, <1>d DEF TearDown, OnDisk, JobAt, AfAround
  <2>3. ASSUME ~harmed'[a], Stage(a) PROVE IF appJob'.app = a THEN Stage(a)' ELSE WholeApp(a)'
    BY <1>a, <2>3, <1>d DEF TearDown, OnDisk, JobAt, AfDisk, Stage, Installed, Switching, SwitchSteps
  <2>4. appJob.app = a /\ appJob'.app \in {a, "none"} /\ AfWhole
    BY <1>a, <1>d, NoFlowTyped DEF AfInv
  <2> QED BY <1>a, <2>1, <2>2, <2>3, <2>4, WholeStep
<1> QED BY <1>1, <1>2, <1>3, <1>4, <1>5, <1>6, <1>7, <1>8, <1>9, <1>d DEF AfInv, AfType

LEMMA AfSwitchBackFails == ASSUME AfInv, SwitchBackFails PROVE AfInv'
<1>0. PICK a : a = appJob.app
  OBVIOUS
<1>a. AfFlow /\ appJob.at # "idle" /\ appJob.app = a /\ a \in Apps /\ AfDisk /\ AfBook /\ AfAround /\ appJob # NoFlow
  BY <1>0, FlowRuns DEF AfInv, AfType, SwitchBackFails, JobAt, SwitchSteps
<1>t. /\ appJob.to \in MaybeBundles /\ appJob.from \in MaybeBundles /\ appJob.gone \in MaybeBundles
      /\ appJob.uid \in Uids /\ appJob.hook \in BOOLEAN /\ appJob.back \in BOOLEAN
  BY <1>a DEF AfFlow, Flows
<1>b. JobGoes("failed")
  BY DEF SwitchBackFails
<1>c. ("failed") \in FlowSteps \ {"idle"}
  BY DEF FlowSteps, Switching, SwitchSteps
<1>d. /\ AfFlow' /\ appJob' # NoFlow /\ appJob'.at = "failed"
      /\ appJob'.op = appJob.op /\ appJob'.app = appJob.app /\ appJob'.to = appJob.to
      /\ appJob'.from = appJob.from /\ appJob'.gone = appJob.gone /\ appJob'.uid = appJob.uid
      /\ appJob'.back = appJob.back /\ appJob'.hands = appJob.hands
      /\ appJob'.want = appJob.want
  BY <1>a, <1>b, <1>c, FlowGoes
<1>1. AfDisk'
  BY <1>a, <1>d, <1>t, NoBundleMaybe, UidsNat DEF AfInv, AfDisk, SwitchBackFails
<1>2. AfBook'
  BY <1>a, <1>d DEF AfInv, AfBook, SwitchBackFails
<1>3. AfAround'
  BY <1>a, <1>d DEF AfInv, AfAround, SwitchBackFails
<1>4. AfRec'
  BY <1>a, <1>d DEF AfInv, AfRec, Installed, Current, SwitchBackFails
<1>5. AfJob'
  BY <1>a, <1>d DEF AfInv, AfJob, Switching, SwitchSteps, SwitchBackFails
<1>6. AfOwn'
  BY <1>a, <1>d DEF AfInv, AfOwn, OwnUsers, SwitchBackFails
<1>7. AfPriv'
  BY <1>a, <1>d, BundleFacts DEF AfInv, AfPriv, Let, SwitchBackFails
<1>8. AfSeed'
  BY <1>a, <1>d DEF AfInv, AfSeed, Installed, Current, SwitchBackFails
<1>9. AfWhole'
  <2>1. \A c \in Apps \ {a} : SameApp(c) /\ harmed'[c] = harmed[c]
    BY <1>a, <1>d DEF SameApp, SwitchBackFails, AfDisk, AfBook, AfAround
  <2>2. ~harmed'[a] => ~harmed[a]
    BY <1>a, <1>d DEF SwitchBackFails, AfAround
  <2>3. ASSUME ~harmed'[a], Stage(a) PROVE IF appJob'.app = a THEN Stage(a)' ELSE WholeApp(a)'
    <3> QED BY <1>a, <2>3 DEF SwitchBackFails, AfAround
  <2>4. appJob.app = a /\ appJob'.app \in {a, "none"} /\ AfWhole
    BY <1>a, <1>d, NoFlowTyped DEF AfInv
  <2> QED BY <1>a, <2>1, <2>2, <2>3, <2>4, WholeStep
<1> QED BY <1>1, <1>2, <1>3, <1>4, <1>5, <1>6, <1>7, <1>8, <1>9, <1>d DEF AfInv, AfType

LEMMA AfUnpackFails == ASSUME AfInv, UnpackFails PROVE AfInv'
<1>0. PICK a : a = appJob.app
  OBVIOUS
<1>a. AfFlow /\ appJob.at # "idle" /\ appJob.app = a /\ a \in Apps /\ AfDisk /\ AfBook /\ AfAround /\ appJob # NoFlow
  BY <1>0, FlowRuns DEF AfInv, AfType, UnpackFails, JobAt
<1>t. /\ appJob.to \in MaybeBundles /\ appJob.from \in MaybeBundles /\ appJob.gone \in MaybeBundles
      /\ appJob.uid \in Uids /\ appJob.hook \in BOOLEAN /\ appJob.back \in BOOLEAN
  BY <1>a DEF AfFlow, Flows
<1>d. /\ AfFlow'
      /\ \/ appJob' = NoFlow
         \/ /\ appJob' # NoFlow
            /\ appJob'.at = IF FALSE THEN "note ok" ELSE "note failed"
            /\ appJob'.op = appJob.op /\ appJob'.app = appJob.app /\ appJob'.to = appJob.to
            /\ appJob'.from = appJob.from /\ appJob'.gone = appJob.gone /\ appJob'.uid = appJob.uid
            /\ appJob'.hands = appJob.hands /\ appJob'.want = appJob.want
  BY <1>a, FlowEnds DEF UnpackFails
<1>1. AfDisk'
  BY <1>a, <1>d, NoFlowTyped, <1>t, NoBundleMaybe, UidsNat DEF AfInv, AfDisk, UnpackFails, OnDisk, JobAt, Spend
<1>2. AfBook'
  BY <1>a, <1>d, NoFlowTyped DEF AfInv, AfBook, UnpackFails, OnDisk, JobAt, Spend
<1>3. AfAround'
  BY <1>a, <1>d, NoFlowTyped DEF AfInv, AfAround, UnpackFails, OnDisk, JobAt, Spend
<1>4. AfRec'
  BY <1>a, <1>d, NoFlowTyped DEF AfInv, AfRec, Installed, Current, UnpackFails, OnDisk, JobAt, Spend
<1>5. AfJob'
  BY <1>a, <1>d, NoFlowTyped DEF AfInv, AfJob, Switching, SwitchSteps, UnpackFails, OnDisk, JobAt, Spend
<1>6. AfOwn'
  BY <1>a, <1>d, NoFlowTyped DEF AfInv, AfOwn, OwnUsers, UnpackFails, OnDisk, JobAt, Spend
<1>7. AfPriv'
  BY <1>a, <1>d, NoFlowTyped, BundleFacts DEF AfInv, AfPriv, Let, UnpackFails, OnDisk, JobAt, Spend
<1>8. AfSeed'
  BY <1>a, <1>d, NoFlowTyped DEF AfInv, AfSeed, Installed, Current, UnpackFails, OnDisk, JobAt, Spend
<1>9. AfWhole'
  <2>1. \A c \in Apps \ {a} : SameApp(c) /\ harmed'[c] = harmed[c]
    BY <1>a, <1>d, NoFlowTyped DEF SameApp, UnpackFails, OnDisk, JobAt, Spend, AfDisk, AfBook, AfAround
  <2>2. ~harmed'[a] => ~harmed[a]
    BY <1>a, <1>d, NoFlowTyped DEF UnpackFails, OnDisk, JobAt, Spend, AfAround
  <2>3. ASSUME ~harmed'[a], Stage(a) PROVE IF appJob'.app = a THEN Stage(a)' ELSE WholeApp(a)'
    BY <1>a, <2>3, <1>d, SameWhole, EndStage DEF UnpackFails, OnDisk, JobAt, SameApp, Stage
  <2>4. appJob.app = a /\ appJob'.app \in {a, "none"} /\ AfWhole
    BY <1>a, <1>d, NoFlowTyped, NoFlowTyped DEF AfInv
  <2> QED BY <1>a, <2>1, <2>2, <2>3, <2>4, WholeStep
<1> QED BY <1>1, <1>2, <1>3, <1>4, <1>5, <1>6, <1>7, <1>8, <1>9, <1>d DEF AfInv, AfType

LEMMA AfWriteRecord == ASSUME AfInv, WriteRecord PROVE AfInv'
<1>0. PICK a : a = appJob.app
  OBVIOUS
<1>a. AfFlow /\ appJob.at # "idle" /\ appJob.app = a /\ a \in Apps /\ AfDisk /\ AfBook /\ AfAround /\ appJob # NoFlow
  BY <1>0, FlowRuns DEF AfInv, AfType, WriteRecord, JobAt, SwitchDone
<1>t. /\ appJob.to \in MaybeBundles /\ appJob.from \in MaybeBundles /\ appJob.gone \in MaybeBundles
      /\ appJob.uid \in Uids /\ appJob.hook \in BOOLEAN /\ appJob.back \in BOOLEAN
  BY <1>a DEF AfFlow, Flows
<1>d. /\ AfFlow'
      /\ \/ appJob' = NoFlow
         \/ /\ appJob' # NoFlow
            /\ appJob'.at = IF TRUE THEN "note ok" ELSE "note failed"
            /\ appJob'.op = appJob.op /\ appJob'.app = appJob.app /\ appJob'.to = appJob.to
            /\ appJob'.from = appJob.from /\ appJob'.gone = appJob.gone /\ appJob'.uid = appJob.uid
            /\ appJob'.hands = appJob.hands /\ appJob'.want = appJob.want
  BY <1>a, FlowEnds DEF WriteRecord
<1>e. PICK kept : kept = IF Current(a).version # Job.to.version THEN Current(a) ELSE appRec[a].previous
  OBVIOUS
<1>g. /\ Job.at \in {"switched", "write"} /\ Job.to \in Bundles /\ kept \in MaybeBundles
      /\ ~Job.back /\ AfRec /\ Job.op # "remove"
  BY <1>a, <1>e DEF WriteRecord, SwitchDone, JobAt, AfInv, AfJob, Switching, AfBook, AppRecords, Current
<1>h. PICK runs : /\ runs \in SUBSET MaybeVersions
                  /\ appRec' = [appRec EXCEPT ![a].current = Job.to, ![a].previous = kept, ![a].firstRun = runs]
  <2> DEFINE r == IF Job.op # "rollback" THEN appRec[a].firstRun \union {Job.to.version} ELSE appRec[a].firstRun
  <2>1. r \in SUBSET MaybeVersions
    BY <1>a, <1>g, BundleFacts DEF AfBook, AppRecords, MaybeVersions
  <2>2. appRec' = [appRec EXCEPT ![a].current = Job.to, ![a].previous = kept, ![a].firstRun = r]
    BY <1>a, <1>e DEF WriteRecord
  <2> HIDE DEF r
  <2> QED BY <2>1, <2>2
<1>i. /\ appRec' \in [Apps -> AppRecords] /\ appRec'[a].current = Job.to /\ appRec'[a].previous = kept
      /\ \A c \in Apps \ {a} : appRec'[c] = appRec[c]
  <2>1. appRec \in [Apps -> AppRecords]
    BY <1>a DEF AfBook
  <2>2. PICK q : q = appRec[a]
    OBVIOUS
  <2> DEFINE r == [q EXCEPT !.current = Job.to, !.previous = kept, !.firstRun = runs]
  <2>3. q \in AppRecords
    BY <1>a, <2>1, <2>2
  <2>4. r \in AppRecords /\ r.current = Job.to /\ r.previous = kept
    BY <1>g, <1>h, <1>t, <2>3 DEF AppRecords
  <2>5. appRec' = [appRec EXCEPT ![a] = r]
    BY <1>a, <1>h, <2>1, <2>2
  <2> HIDE DEF r
  <2> QED BY <1>a, <2>1, <2>4, <2>5
<1>j. /\ appUid' = [appUid EXCEPT ![a] = Job.uid] /\ seedRec' = seedRec /\ harmed' = harmed
      /\ appDirs' = appDirs /\ appLink' = appLink /\ unitText' = unitText /\ unitRuns' = unitRuns
      /\ passwd' = passwd /\ dataOf' = dataOf
  BY <1>a DEF WriteRecord
<1>k. Installed(a)' /\ Current(a)' = Job.to
  BY <1>g, <1>i, BundleFacts DEF Installed, Current, NotInstalled
<1>1. AfDisk'
  BY <1>a, <1>d, NoFlowTyped, <1>t, NoBundleMaybe, UidsNat DEF AfInv, AfDisk, WriteRecord, SwitchDone, JobAt
<1>2. AfBook'
  BY <1>a, <1>i, <1>j, <1>t DEF AfBook
<1>3. AfAround'
  BY <1>a, <1>d, NoFlowTyped DEF AfInv, AfAround, WriteRecord, SwitchDone, JobAt
<1>4. AfRec'
  BY <1>a, <1>e, <1>g, <1>i, <1>k DEF Installed, Current, NotInstalled, AfRec
<1>5. AfJob'
  BY <1>a, <1>d, NoFlowTyped DEF AfInv, AfJob, Switching, SwitchSteps, WriteRecord, SwitchDone, JobAt
<1>6. AfOwn'
  BY <1>a, <1>d, <1>j, NoFlowTyped DEF AfInv, AfOwn, OwnUsers, AfBook
<1>7. AfPriv'
  BY <1>a, <1>d, <1>j, NoFlowTyped DEF AfInv, AfPriv, Let, WriteRecord
<1>8. AfSeed'
  <2>1. byUser' = [byUser EXCEPT ![a] = /\ Job.hands # "image" /\ Job.to # seedRec[a].bundle
                                          /\ seedRec[a].result \notin {"none", "failed"}]
    BY <1>a DEF WriteRecord
  <2>2. byUser'[a] => Job.hands # "image" /\ Job.to # seedRec[a].bundle /\ seedRec[a].result \notin {"none", "failed"}
    BY <1>a, <2>1 DEF AfAround
  <2>3. \A c \in Apps \ {a} : byUser'[c] = byUser[c]
    BY <1>a, <2>1 DEF AfAround
  <2>4. \A c \in Apps \ {a} : (Installed(c)' <=> Installed(c)) /\ Current(c)' = Current(c)
    BY <1>i DEF Installed, Current
  <2>5. \A c \in Apps : byUser'[c] => seedRec'[c].result \notin {"none", "failed"} /\ (~Installed(c)' \/ Current(c)' # seedRec'[c].bundle)
    BY <1>a, <1>j, <1>k, <2>2, <2>3, <2>4 DEF AfInv, AfSeed
  <2>6. appJob'.hands = "image" => ~byUser'[appJob'.app]
    BY <1>a, <1>d, <2>2, NoFlowTyped
  <2> QED BY <2>5, <2>6 DEF AfSeed
<1>9. AfWhole'
  <2>1. \A c \in Apps \ {a} : SameApp(c) /\ harmed'[c] = harmed[c]
    BY <1>a, <1>d, NoFlowTyped DEF SameApp, WriteRecord, SwitchDone, JobAt, AfDisk, AfBook, AfAround
  <2>2. ~harmed'[a] => ~harmed[a]
    BY <1>a, <1>d, NoFlowTyped DEF WriteRecord, SwitchDone, JobAt, AfAround
  <2>3. ASSUME ~harmed'[a], Stage(a) PROVE IF appJob'.app = a THEN Stage(a)' ELSE WholeApp(a)'
    <3>1. Forward(a)
      BY <1>g, <2>3 DEF Stage, Switching
    <3>2. Texts(a, Current(a))' /\ RunsOf(a, Current(a))' /\ appLink'[a] = Current(a)'.version
      BY <1>g, <1>j, <1>k, <3>1 DEF Forward, Texts, RunsOf, Pointed
    <3>3. OwnsData(a)'
      BY <1>a, <1>g, <1>j, <1>k, <3>1 DEF Forward, Pointed, OwnsData, OwnerOf, AfBook
    <3>4. DirsOf(a, appDirs[a])'
      BY <3>1, <1>e, BundleFacts, <1>i, <1>j, <1>k DEF Forward, DirsAfter, Installed, Current, NotInstalled,
         DirsOf
    <3>5. WholeApp(a)'
      BY <3>2, <3>3, <3>4 DEF WholeApp
    <3> QED BY <1>a, <1>d, <3>5, EndStage
  <2>4. appJob.app = a /\ appJob'.app \in {a, "none"} /\ AfWhole
    BY <1>a, <1>d, NoFlowTyped, NoFlowTyped DEF AfInv
  <2> QED BY <1>a, <2>1, <2>2, <2>3, <2>4, WholeStep
<1> QED BY <1>1, <1>2, <1>3, <1>4, <1>5, <1>6, <1>7, <1>8, <1>9, <1>d DEF AfInv, AfType

LEMMA AfRecordFailure == ASSUME AfInv, RecordFailure PROVE AfInv'
<1>0. PICK a : a = appJob.app
  OBVIOUS
<1>a. AfFlow /\ appJob.at # "idle" /\ appJob.app = a /\ a \in Apps /\ AfDisk /\ AfBook /\ AfAround /\ appJob # NoFlow
  BY <1>0, FlowRuns DEF AfInv, AfType, RecordFailure, JobAt
<1>t. /\ appJob.to \in MaybeBundles /\ appJob.from \in MaybeBundles /\ appJob.gone \in MaybeBundles
      /\ appJob.uid \in Uids /\ appJob.hook \in BOOLEAN /\ appJob.back \in BOOLEAN
  BY <1>a DEF AfFlow, Flows
<1>d. /\ AfFlow'
      /\ \/ appJob' = NoFlow
         \/ /\ appJob' # NoFlow
            /\ appJob'.at = IF FALSE THEN "note ok" ELSE "note failed"
            /\ appJob'.op = appJob.op /\ appJob'.app = appJob.app /\ appJob'.to = appJob.to
            /\ appJob'.from = appJob.from /\ appJob'.gone = appJob.gone /\ appJob'.uid = appJob.uid
            /\ appJob'.hands = appJob.hands /\ appJob'.want = appJob.want
  BY <1>a, FlowEnds DEF RecordFailure
<1>1. AfDisk'
  BY <1>a, <1>d, NoFlowTyped, <1>t, NoBundleMaybe, UidsNat DEF AfInv, AfDisk, RecordFailure, JobAt
<1>2. AfBook'
  BY <1>a, <1>t DEF AfBook, RecordFailure
<1>3. AfAround'
  BY <1>a, <1>d, NoFlowTyped DEF AfInv, AfAround, RecordFailure, JobAt
<1>4. AfRec'
  BY <1>a, <1>d, NoFlowTyped DEF AfInv, AfRec, Installed, Current, RecordFailure, JobAt
<1>5. AfJob'
  BY <1>a, <1>d, NoFlowTyped DEF AfInv, AfJob, RecordFailure, JobAt, Switching, SwitchSteps
<1>6. AfOwn'
  BY <1>a, <1>d, NoFlowTyped DEF AfInv, AfOwn, OwnUsers, AfBook, RecordFailure
<1>7. AfPriv'
  BY <1>a, <1>d, NoFlowTyped, BundleFacts DEF AfInv, AfPriv, Let, RecordFailure, JobAt
<1>8. AfSeed'
  BY <1>a, <1>d, NoFlowTyped DEF AfInv, AfSeed, Installed, Current, RecordFailure, JobAt
<1>9. AfWhole'
  <2>1. \A c \in Apps \ {a} : SameApp(c) /\ harmed'[c] = harmed[c]
    BY <1>a, <1>d, NoFlowTyped DEF SameApp, RecordFailure, JobAt, AfDisk, AfBook, AfAround
  <2>2. ~harmed'[a] => ~harmed[a]
    BY <1>a, <1>d, NoFlowTyped DEF RecordFailure, JobAt, AfAround
  <2>3. ASSUME ~harmed'[a], Stage(a) PROVE IF appJob'.app = a THEN Stage(a)' ELSE WholeApp(a)'
    <3>0. /\ appUid'[a] = Job.uid /\ appRec' = appRec /\ Job.at = "failed" /\ Job.back
          /\ appDirs' = appDirs /\ appLink' = appLink /\ unitText' = unitText /\ unitRuns' = unitRuns
          /\ dataOf' = dataOf
      BY <1>a, <2>3 DEF RecordFailure, JobAt, Stage, AfBook
    <3>1. Backward(a)
      BY <2>3, <3>0 DEF Stage
    <3>2. WholeApp(a)'
      BY <3>0, <3>1 DEF Backward, WholeApp, Texts, RunsOf, DirsOf, OwnsData, OwnerOf, Pointed, Installed, Current
    <3> QED BY <1>a, <1>d, <3>2, EndStage
  <2>4. appJob.app = a /\ appJob'.app \in {a, "none"} /\ AfWhole
    BY <1>a, <1>d, NoFlowTyped, NoFlowTyped DEF AfInv
  <2> QED BY <1>a, <2>1, <2>2, <2>3, <2>4, WholeStep
<1> QED BY <1>1, <1>2, <1>3, <1>4, <1>5, <1>6, <1>7, <1>8, <1>9, <1>d DEF AfInv, AfType

LEMMA AfMoveAside == ASSUME AfInv, MoveAside PROVE AfInv'
<1>0. PICK a : a = appJob.app
  OBVIOUS
<1>a. AfFlow /\ appJob.at # "idle" /\ appJob.app = a /\ a \in Apps /\ AfDisk /\ AfBook /\ AfAround /\ appJob # NoFlow
  BY <1>0, FlowRuns DEF AfInv, AfType, MoveAside, JobAt
<1>t. /\ appJob.to \in MaybeBundles /\ appJob.from \in MaybeBundles /\ appJob.gone \in MaybeBundles
      /\ appJob.uid \in Uids /\ appJob.hook \in BOOLEAN /\ appJob.back \in BOOLEAN
  BY <1>a DEF AfFlow, Flows
<1>g. Job.at = "unpack" /\ Job.to \in Bundles /\ Job.to.version \in BundleVersions
  BY BundleFacts DEF AfInv, AfJob, MoveAside, JobAt
<1>h. /\ appDirs' \in [Apps -> [BundleVersions -> MaybeBundles]]
      /\ appDirs'[a] = [appDirs[a] EXCEPT ![Job.to.version] = NoBundle]
      /\ \A c \in Apps \ {a} : appDirs'[c] = appDirs[c]
  BY <1>a, <1>g, NoBundleMaybe DEF AfDisk, MoveAside
<1>d. /\ AfFlow' /\ appJob' # NoFlow /\ appJob'.at = "place" /\ appJob'.gone = appDirs[a][appJob.to.version]
      /\ appJob'.op = appJob.op /\ appJob'.app = appJob.app /\ appJob'.to = appJob.to
      /\ appJob'.from = appJob.from /\ appJob'.uid = appJob.uid
      /\ appJob'.back = appJob.back /\ appJob'.hands = appJob.hands
      /\ appJob'.want = appJob.want
  <2>1. PICK g : g = appDirs[a][appJob.to.version]
    OBVIOUS
  <2>2. g \in MaybeBundles
    BY <1>a, <1>g, <2>1 DEF AfDisk
  <2>3. appJob' = [appJob EXCEPT !.at = "place", !.gone = g]
    BY <1>a, <2>1 DEF MoveAside
  <2>4. appJob \in Flows
    BY <1>a DEF AfFlow
  <2>5. /\ appJob' \in Flows /\ appJob'.at = "place" /\ appJob'.gone = g
        /\ appJob'.op = appJob.op /\ appJob'.app = appJob.app /\ appJob'.to = appJob.to
        /\ appJob'.from = appJob.from /\ appJob'.uid = appJob.uid
        /\ appJob'.back = appJob.back /\ appJob'.hands = appJob.hands
        /\ appJob'.want = appJob.want
    BY <2>2, <2>3, <2>4 DEF Flows, FlowSteps
  <2> QED BY <1>a, <2>1, <2>5, NoFlowTyped DEF AfFlow
<1>1. AfDisk'
  BY <1>a, <1>h DEF AfDisk, MoveAside, OnDisk
<1>2. AfBook'
  BY <1>a, <1>d, NoFlowTyped DEF AfInv, AfBook, MoveAside, OnDisk, JobAt
<1>3. AfAround'
  BY <1>a, <1>d, NoFlowTyped DEF AfInv, AfAround, MoveAside, OnDisk, JobAt
<1>4. AfRec'
  BY <1>a, <1>d, NoFlowTyped DEF AfInv, AfRec, Installed, Current, MoveAside, OnDisk, JobAt
<1>5. AfJob'
  BY <1>a, <1>d, NoFlowTyped DEF AfInv, AfJob, Switching, SwitchSteps, MoveAside, OnDisk, JobAt
<1>6. AfOwn'
  BY <1>a, <1>d, NoFlowTyped DEF AfInv, AfOwn, OwnUsers, MoveAside, OnDisk, JobAt
<1>7. AfPriv'
  BY <1>a, <1>g, <1>h, <1>d, BundleFacts DEF AfDisk, MoveAside, OnDisk, AfInv, AfPriv, Let
<1>8. AfSeed'
  BY <1>a, <1>d, NoFlowTyped DEF AfInv, AfSeed, Installed, Current, MoveAside, OnDisk, JobAt
<1>9. AfWhole'
  <2>1. \A c \in Apps \ {a} : SameApp(c) /\ harmed'[c] = harmed[c]
    BY <1>a, <1>d, NoFlowTyped DEF SameApp, MoveAside, OnDisk, JobAt, AfDisk, AfBook, AfAround
  <2>2. ~harmed'[a] => ~harmed[a]
    BY <1>a, <1>d, NoFlowTyped DEF MoveAside, OnDisk, JobAt, AfAround
  <2>3. ASSUME ~harmed'[a], Stage(a) PROVE IF appJob'.app = a THEN Stage(a)' ELSE WholeApp(a)'
    <3>0. /\ appRec' = appRec /\ appUid' = appUid /\ dataOf' = dataOf
          /\ unitText' = unitText /\ unitRuns' = unitRuns /\ appLink' = appLink
      BY DEF MoveAside, OnDisk
    <3>1. WholeApp(a)
      BY <1>g, <2>3 DEF Stage
    <3>2. [appDirs'[a] EXCEPT ![Job.to.version] = appJob'.gone] = appDirs[a]
      BY <1>a, <1>d, <1>g, <1>h DEF AfDisk
    <3>3. DirsOf(a, [appDirs[a] EXCEPT ![Job.to.version] = Job.gone])'
      BY <1>d, <3>0, <3>1, <3>2 DEF WholeApp, DirsOf, Installed, Current
    <3>4. Texts(a, Current(a))' /\ RunsOf(a, Current(a))' /\ OwnsData(a)'
      BY <3>0, <3>1 DEF WholeApp, Texts, RunsOf, OwnsData, Installed, Current
    <3> QED BY <1>a, <1>d, <3>3, <3>4 DEF Stage, Switching, SwitchSteps
  <2>4. appJob.app = a /\ appJob'.app \in {a, "none"} /\ AfWhole
    BY <1>a, <1>d, NoFlowTyped, NoFlowTyped DEF AfInv
  <2> QED BY <1>a, <2>1, <2>2, <2>3, <2>4, WholeStep
<1> QED BY <1>1, <1>2, <1>3, <1>4, <1>5, <1>6, <1>7, <1>8, <1>9, <1>d DEF AfInv, AfType

LEMMA AfMoveIn == ASSUME AfInv, MoveIn PROVE AfInv'
<1>0. PICK a : a = appJob.app
  OBVIOUS
<1>a. AfFlow /\ appJob.at # "idle" /\ appJob.app = a /\ a \in Apps /\ AfDisk /\ AfBook /\ AfAround /\ appJob # NoFlow
  BY <1>0, FlowRuns DEF AfInv, AfType, MoveIn, JobAt
<1>t. /\ appJob.to \in MaybeBundles /\ appJob.from \in MaybeBundles /\ appJob.gone \in MaybeBundles
      /\ appJob.uid \in Uids /\ appJob.hook \in BOOLEAN /\ appJob.back \in BOOLEAN
  BY <1>a DEF AfFlow, Flows
<1>g. Job.at = "place" /\ Job.to \in Bundles /\ Job.to.version \in BundleVersions
  BY BundleFacts DEF AfInv, AfJob, MoveIn, JobAt
<1>h. /\ appDirs' \in [Apps -> [BundleVersions -> MaybeBundles]]
      /\ appDirs'[a] = [appDirs[a] EXCEPT ![Job.to.version] = Job.to]
      /\ \A c \in Apps \ {a} : appDirs'[c] = appDirs[c]
  BY <1>a, <1>g, <1>t DEF AfDisk, MoveIn
<1>f. PICK from, uid, hook, there :
        /\ from = (IF ~Installed(a) THEN NoBundle
                   ELSE IF Job.gone # NoBundle /\ Current(a).version = Job.to.version THEN Job.gone
                   ELSE appDirs[a][Current(a).version])
        /\ uid = Account(a, Job.to)
        /\ hook \in BOOLEAN /\ there \in BOOLEAN
        /\ appJob' = [appJob EXCEPT !.at = "name", !.from = from, !.uid = uid, !.hook = hook, !.dataThere = there]
  <2> DEFINE hk == Job.to.version \notin appRec[a].firstRun
             th == dataOf[a] # -1
             fr == IF ~Installed(a) THEN NoBundle
                   ELSE IF Job.gone # NoBundle /\ Current(a).version = Job.to.version THEN Job.gone
                   ELSE appDirs[a][Current(a).version]
             ui == Account(a, Job.to)
  <2>1. appJob' = [appJob EXCEPT !.at = "name", !.from = fr, !.uid = ui, !.hook = hk, !.dataThere = th]
    BY <1>a DEF MoveIn
  <2>2. hk \in BOOLEAN /\ th \in BOOLEAN
    OBVIOUS
  <2> QED BY <2>1, <2>2
<1>k. uid \in Uids /\ (uid # 0 => \A c \in Apps \ {a} : uid \notin {appUid[c], passwd[c]})
  BY <1>a, <1>f, AccountOwn DEF AfInv, AfOwn
<1>l. from \in MaybeBundles /\ Let(a, from)
  BY <1>a, <1>f, <1>t, NoBundleMaybe, BundleFacts DEF AfInv, AfRec, AfDisk, AfPriv, Let
<1>d. /\ AfFlow' /\ appJob' # NoFlow /\ appJob'.at = "name" /\ appJob'.gone = appJob.gone
      /\ appJob'.op = appJob.op /\ appJob'.app = appJob.app /\ appJob'.to = appJob.to
      /\ appJob'.from = from /\ appJob'.uid = uid
      /\ appJob'.back = appJob.back /\ appJob'.hands = appJob.hands
      /\ appJob'.want = appJob.want
  <2>4. appJob \in Flows
    BY <1>a DEF AfFlow
  <2>5. /\ appJob' \in Flows /\ appJob'.at = "name" /\ appJob'.gone = appJob.gone
        /\ appJob'.op = appJob.op /\ appJob'.app = appJob.app /\ appJob'.to = appJob.to
        /\ appJob'.from = from /\ appJob'.uid = uid
        /\ appJob'.back = appJob.back /\ appJob'.hands = appJob.hands
        /\ appJob'.want = appJob.want
    <3>1. "name" \in FlowSteps
      BY DEF FlowSteps, Switching, SwitchSteps
    <3> QED BY <1>f, <1>k, <1>l, <2>4, <3>1 DEF Flows
  <2> QED BY <1>a, <2>5, NoFlowTyped DEF AfFlow
<1>1. AfDisk'
  BY <1>a, <1>h, UidsNat DEF AfDisk, MoveIn, OnDisk
<1>2. AfBook'
  BY <1>a, <1>d, NoFlowTyped DEF AfInv, AfBook, MoveIn, OnDisk, JobAt
<1>3. AfAround'
  BY <1>a, <1>d, NoFlowTyped DEF AfInv, AfAround, MoveIn, OnDisk, JobAt
<1>4. AfRec'
  BY <1>a, <1>d, NoFlowTyped DEF AfInv, AfRec, Installed, Current, MoveIn, OnDisk, JobAt
<1>5. AfJob'
  BY <1>a, <1>d, NoFlowTyped DEF AfInv, AfJob, Switching, SwitchSteps, MoveIn, OnDisk, JobAt
<1>6. AfOwn'
  BY <1>a, <1>d, <1>k DEF MoveIn, OnDisk, AfInv, AfOwn, OwnUsers
<1>7. AfPriv'
  BY <1>h, <1>a, <1>d, <1>l DEF MoveIn, OnDisk, AfDisk, AfInv, AfPriv, Let
<1>8. AfSeed'
  BY <1>a, <1>d, NoFlowTyped DEF AfInv, AfSeed, Installed, Current, MoveIn, OnDisk, JobAt
<1>9. AfWhole'
  <2>1. \A c \in Apps \ {a} : SameApp(c) /\ harmed'[c] = harmed[c]
    BY <1>a, <1>d, NoFlowTyped DEF SameApp, MoveIn, OnDisk, JobAt, AfDisk, AfBook, AfAround
  <2>2. ~harmed'[a] => ~harmed[a]
    BY <1>a, <1>d, NoFlowTyped DEF MoveIn, OnDisk, JobAt, AfAround
  <2>3. ASSUME ~harmed'[a], Stage(a) PROVE IF appJob'.app = a THEN Stage(a)' ELSE WholeApp(a)'
    <3>0. /\ appRec' = appRec /\ unitText' = unitText /\ unitRuns' = unitRuns
      BY DEF MoveIn, OnDisk
    <3>1. /\ Texts(a, Current(a)) /\ RunsOf(a, Current(a))
          /\ DirsOf(a, [appDirs[a] EXCEPT ![Job.to.version] = Job.gone])
      BY <1>g, <2>3 DEF Stage
    <3>2. AfRec /\ Job.op # "rollback" /\ ~Job.back
      BY <1>g DEF AfInv, AfJob
    <3>3. from = Current(a)
      BY <1>f, <3>1, <1>a, <3>2, BundleFacts, <1>g DEF Installed, Current, NotInstalled, DirsOf, AfRec,
         AfDisk
    <3>4. [appDirs'[a] EXCEPT ![Job.to.version] = Job.gone] = [appDirs[a] EXCEPT ![Job.to.version] = Job.gone]
      BY <1>a, <1>g, <1>h DEF AfDisk
    <3>5. Returnable(a)'
      BY <1>d, <3>0, <3>1, <3>2, <3>4 DEF Returnable, DirsOf, Installed, Current
    <3>6. DirsAfter(a)'
      <4> DEFINE D == [appDirs[a] EXCEPT ![Job.to.version] = Job.gone]
      <4>1. \A v \in BundleVersions : v # Job.to.version => appDirs'[a][v] = D[v]
        BY <1>a, <1>g, <1>h DEF AfDisk
      <4>2. appDirs'[a][Job.to.version] = Job.to
        BY <1>a, <1>g, <1>h DEF AfDisk
      <4>3. DirsOf(a, D)
        BY <3>1
      <4> HIDE DEF D
      <4>4. Installed(a) => Current(a).version \in BundleVersions
        BY <1>a, <3>2, BundleFacts DEF AfRec
      <4>5. appRec[a].previous # NoBundle => appRec[a].previous.version \in BundleVersions
        BY <1>a, BundleFacts DEF AfBook, AppRecords, MaybeBundles
      <4>6. Installed(a) /\ appRec[a].previous # NoBundle => appRec[a].previous.version # Current(a).version
        BY <1>a, <3>2 DEF AfRec
      <4> QED BY <1>d, <3>0, <4>1, <4>2, <4>3, <4>4, <4>5, <4>6 DEF DirsAfter, DirsOf, Installed, Current
    <3>7. Forward(a)'
      BY <1>a, <1>d, <3>0, <3>1, <3>3, <3>5, <3>6 DEF Forward, Texts, RunsOf, Current
    <3> QED BY <1>a, <1>d, <3>2, <3>7, ForwardStage DEF Switching, SwitchSteps
  <2>4. appJob.app = a /\ appJob'.app \in {a, "none"} /\ AfWhole
    BY <1>a, <1>d, NoFlowTyped, NoFlowTyped DEF AfInv
  <2> QED BY <1>a, <2>1, <2>2, <2>3, <2>4, WholeStep
<1> QED BY <1>1, <1>2, <1>3, <1>4, <1>5, <1>6, <1>7, <1>8, <1>9, <1>d DEF AfInv, AfType

LEMMA AfSwitchFails == ASSUME AfInv, SwitchFails PROVE AfInv'
<1>0. PICK a : a = appJob.app
  OBVIOUS
<1>a. AfFlow /\ appJob.at # "idle" /\ appJob.app = a /\ a \in Apps /\ AfDisk /\ AfBook /\ AfAround /\ appJob # NoFlow
  BY <1>0, FlowRuns DEF AfInv, AfType, SwitchFails, JobAt, SwitchSteps
<1>t. /\ appJob.to \in MaybeBundles /\ appJob.from \in MaybeBundles /\ appJob.gone \in MaybeBundles
      /\ appJob.uid \in Uids /\ appJob.hook \in BOOLEAN /\ appJob.back \in BOOLEAN
  BY <1>a DEF AfFlow, Flows
<1>g. Job.at \in SwitchSteps /\ ~Job.back /\ Job.to \in Bundles /\ Job.to.version \in BundleVersions /\ Job.op # "remove"
  BY BundleFacts DEF AfInv, AfJob, SwitchFails, SwitchSteps, Switching
<1>e. PICK u2 : u2 = IF Job.op = "rollback" THEN Account(a, Job.from) ELSE Job.uid
  OBVIOUS
<1>k. u2 \in Uids /\ (u2 # 0 => \A c \in Apps \ {a} : u2 \notin {appUid[c], passwd[c]})
  BY <1>a, <1>e, <1>t, AccountOwn DEF AfInv, AfOwn
<1>z. PICK came \in {Job.gone, NoBundle} :
        /\ Job.op # "rollback" => appDirs' = [appDirs EXCEPT ![a][Job.to.version] = came]
        /\ harmed' = IF Job.op = "rollback" THEN harmed ELSE [harmed EXCEPT ![a] = @ \/ came # Job.gone]
  BY <1>a DEF SwitchFails
<1>y. came \in MaybeBundles
  BY <1>t, NoBundleMaybe
<1>f. /\ Job.op = "rollback" =>
           /\ appJob' = [appJob EXCEPT !.at = "stop", !.back = TRUE, !.to = Job.from, !.from = Job.to, !.uid = u2]
           /\ appDirs' = appDirs
      /\ Job.op # "rollback" /\ Installed(a) /\ Job.from # NoBundle =>
           appJob' = [appJob EXCEPT !.at = "stop", !.back = TRUE, !.to = Job.from, !.from = Job.to]
      /\ Job.op # "rollback" /\ Installed(a) /\ Job.from = NoBundle =>
           appJob' = [appJob EXCEPT !.at = "failed", !.back = TRUE, !.to = Job.from, !.from = Job.to]
      /\ Job.op # "rollback" /\ ~Installed(a) => appJob' = [appJob EXCEPT !.at = "tear down", !.from = Job.to]
  BY <1>a, <1>e DEF SwitchFails
<1>l. Job.op = "rollback" => Job.from # NoBundle
  BY <1>a, <1>g DEF AfInv, AfJob
<1>d. /\ AfFlow' /\ appJob' # NoFlow /\ appJob'.gone = appJob.gone
      /\ appJob'.op = appJob.op /\ appJob'.app = appJob.app
      /\ appJob'.from = appJob.to /\ appJob'.uid = u2
      /\ appJob'.hands = appJob.hands /\ appJob'.want = appJob.want
      /\ \/ /\ Job.op = "rollback" \/ Installed(a)
            /\ appJob'.at = IF Job.from # NoBundle THEN "stop" ELSE "failed"
            /\ appJob'.back = TRUE /\ appJob'.to = appJob.from
         \/ /\ Job.op # "rollback" /\ ~Installed(a)
            /\ appJob'.at = "tear down" /\ appJob'.back = appJob.back /\ appJob'.to = appJob.to
  <2>1. appJob \in Flows
    BY <1>a DEF AfFlow
  <2>2. {"stop", "failed", "tear down"} \subseteq FlowSteps
    BY DEF FlowSteps, Switching, SwitchSteps
  <2>3. CASE Job.op = "rollback"
    <3>1. /\ appJob' \in Flows /\ appJob'.gone = appJob.gone
          /\ appJob'.op = appJob.op /\ appJob'.app = appJob.app
          /\ appJob'.from = appJob.to /\ appJob'.uid = u2
          /\ appJob'.hands = appJob.hands /\ appJob'.want = appJob.want
          /\ appJob'.at = "stop" /\ appJob'.back = TRUE /\ appJob'.to = appJob.from
      <4>1. appJob' = [appJob EXCEPT !.at = "stop", !.back = TRUE, !.to = Job.from, !.from = Job.to, !.uid = u2]
        BY <1>f, <2>3
      <4> QED BY <1>k, <1>t, <2>1, <2>2, <4>1 DEF Flows
    <3> QED BY <1>a, <1>l, <2>3, <3>1, NoFlowTyped DEF AfFlow
  <2>4. CASE Job.op # "rollback" /\ Installed(a)
    <3>0. PICK x \in {"stop", "failed"} : /\ x = IF Job.from # NoBundle THEN "stop" ELSE "failed"
                    /\ appJob' = [appJob EXCEPT !.at = x, !.back = TRUE, !.to = Job.from, !.from = Job.to]
      BY <1>f, <2>4
    <3>1. /\ appJob' \in Flows /\ appJob'.gone = appJob.gone
          /\ appJob'.op = appJob.op /\ appJob'.app = appJob.app
          /\ appJob'.from = appJob.to /\ appJob'.uid = appJob.uid
          /\ appJob'.hands = appJob.hands /\ appJob'.want = appJob.want
          /\ appJob'.at = x /\ appJob'.back = TRUE /\ appJob'.to = appJob.from
      BY <1>t, <2>1, <2>2, <3>0 DEF Flows
    <3> QED BY <1>a, <1>e, <2>4, <3>0, <3>1, NoFlowTyped DEF AfFlow
  <2>5. CASE Job.op # "rollback" /\ ~Installed(a)
    BY <1>f, <1>t, <2>1, <2>2, <2>5, <1>a, <1>e, NoFlowTyped DEF Flows, AfFlow
  <2> QED BY <2>3, <2>4, <2>5
<1>h. /\ appDirs' \in [Apps -> [BundleVersions -> MaybeBundles]]
      /\ appDirs'[a] = IF Job.op = "rollback" THEN appDirs[a] ELSE [appDirs[a] EXCEPT ![Job.to.version] = came]
      /\ \A c \in Apps \ {a} : appDirs'[c] = appDirs[c]
  <2>1. CASE Job.op = "rollback"
    BY <1>a, <1>f, <2>1 DEF AfDisk
  <2>2. CASE Job.op # "rollback"
    <3>1. appDirs' = [appDirs EXCEPT ![a][Job.to.version] = came]
      BY <1>z, <2>2
    <3> QED BY <1>a, <1>g, <1>y, <2>2, <3>1 DEF AfDisk
  <2> QED BY <2>1, <2>2
<1>m. /\ appRec' = appRec /\ appUid' = appUid /\ dataOf' = dataOf /\ passwd' = passwd
      /\ unitText' = unitText /\ unitRuns' = unitRuns /\ appLink' = appLink
      /\ seedRec' = seedRec /\ consent' = consent /\ byUser' = byUser
  BY DEF SwitchFails
<1>n. /\ harmed' \in [Apps -> BOOLEAN] /\ \A c \in Apps \ {a} : harmed'[c] = harmed[c]
      /\ ~harmed'[a] => ~harmed[a] /\ (Job.op # "rollback" => came = Job.gone)
  BY <1>a, <1>z DEF AfAround
<1>1. AfDisk'
  BY <1>a, <1>h, <1>m DEF AfDisk
<1>2. AfBook'
  BY <1>a, <1>d, NoFlowTyped DEF AfInv, AfBook, SwitchFails, OnDisk, JobAt
<1>3. AfAround'
  BY <1>a, <1>d, <1>n, NoFlowTyped DEF AfInv, AfAround, SwitchFails, OnDisk, JobAt
<1>4. AfRec'
  BY <1>a, <1>d, NoFlowTyped DEF AfInv, AfRec, Installed, Current, SwitchFails, OnDisk, JobAt
<1>5. AfJob'
  BY <1>t, <1>g, BundleFacts, <1>a, <1>d, <1>m DEF MaybeBundles, AfInv, AfJob, Switching, SwitchSteps
<1>6. AfOwn'
  BY <1>a, <1>d, <1>k, <1>m DEF AfInv, AfOwn, OwnUsers
<1>7. AfPriv'
  <2>0. AfPriv /\ Let(a, Job.to) /\ Let(a, Job.from) /\ Let(a, Job.gone)
    BY <1>a DEF AfInv, AfPriv
  <2>3. \A v \in BundleVersions : appDirs'[a][v] \in {appDirs[a][v], Job.gone, NoBundle}
    BY <1>a, <1>h DEF AfDisk
  <2>4. appJob'.to \in {Job.to, Job.from} /\ appJob'.from = Job.to /\ appJob'.gone = Job.gone /\ appJob'.app = a
    BY <1>a, <1>d
  <2>5. \A c \in Apps, v \in BundleVersions : Let(c, appDirs'[c][v])
    BY <1>h, <2>0, <2>3, BundleFacts DEF AfPriv, Let
  <2>6. \A c \in Apps : \A b : Let(c, b)' <=> Let(c, b)
    BY <1>m DEF Let
  <2> QED BY <1>a, <1>m, <2>0, <2>4, <2>5, <2>6 DEF AfPriv, Let
<1>8. AfSeed'
  BY <1>a, <1>d, <1>m DEF AfInv, AfSeed, Installed, Current
<1>9. AfWhole'
  <2>1. \A c \in Apps \ {a} : SameApp(c) /\ harmed'[c] = harmed[c]
    BY <1>a, <1>h, <1>m, <1>n DEF SameApp
  <2>2. ~harmed'[a] => ~harmed[a]
    BY <1>n
  <2>3. ASSUME ~harmed'[a], Stage(a) PROVE IF appJob'.app = a THEN Stage(a)' ELSE WholeApp(a)'
    <3>1. Forward(a) /\ Returnable(a) /\ Job.from = Current(a)
      BY <1>g, <2>3 DEF Stage, Forward, Switching, SwitchSteps
    <3>2. DirsOf(a, appDirs[a])'
      BY <1>h, <1>m, <1>n, <2>3, <3>1 DEF Returnable, DirsOf, Installed, Current
    <3>3. \A u \in AppUnits : u \notin Current(a).units \union Job.to.units => unitText[a][u] = NoBundle
      BY <1>g, <3>1 DEF Forward, Texts, Mine, SwitchSteps
    <3>4. RunsOf(a, Current(a))
      BY <1>g, <3>1 DEF Forward, RunsOf, SwitchSteps
    <3>5. CASE Job.op = "rollback" \/ Installed(a)
      <4>1. Installed(a) /\ Job.from # NoBundle
        BY <1>a, <3>1, <3>5, BundleFacts DEF Returnable, AfInv, AfRec
      <4>2. appJob'.at = "stop" /\ appJob'.back = TRUE /\ appJob'.to = appJob.from
        BY <1>d, <3>5, <4>1
      <4>3. Backward(a)'
        BY <1>a, <1>d, <1>m, <3>1, <3>2, <3>3, <3>4, <4>1, <4>2 DEF Backward, RunsOf, Installed, Current
      <4> QED BY <1>a, <1>d, <4>2, <4>3, BackwardStage DEF Switching, SwitchSteps
    <3>6. CASE Job.op # "rollback" /\ ~Installed(a)
      <4>0. Current(a) = NoBundle
        BY <3>6 DEF Installed, Current, NotInstalled
      <4>1. appJob'.at = "tear down" /\ Current(a) = NoBundle
        BY <1>d, <3>6, <4>0
      <4>2. \A u \in AppUnits : u \notin Job.to.units => unitText[a][u] = NoBundle /\ unitRuns[a][u] = NoBundle
        BY <3>3, <3>4, <4>1, BundleFacts DEF RunsOf, Mine
      <4> QED BY <1>a, <1>d, <1>m, <3>6, <4>1, <4>2 DEF Stage, Switching, SwitchSteps, Installed
    <3> QED BY <3>5, <3>6
  <2>4. appJob.app = a /\ appJob'.app \in {a, "none"} /\ AfWhole
    BY <1>a, <1>d, NoFlowTyped, NoFlowTyped DEF AfInv
  <2> QED BY <1>a, <2>1, <2>2, <2>3, <2>4, WholeStep
<1> QED BY <1>1, <1>2, <1>3, <1>4, <1>5, <1>6, <1>7, <1>8, <1>9, <1>d DEF AfInv, AfType

LEMMA AfClearApp == ASSUME AfInv, ClearApp PROVE AfInv'
<1>0. PICK a : a = appJob.app
  OBVIOUS
<1>a. AfFlow /\ appJob.at # "idle" /\ appJob.app = a /\ a \in Apps /\ AfDisk /\ AfBook /\ AfAround /\ appJob # NoFlow
  BY <1>0, FlowRuns DEF AfInv, AfType, ClearApp, JobAt
<1>t. /\ appJob.to \in MaybeBundles /\ appJob.from \in MaybeBundles /\ appJob.gone \in MaybeBundles
      /\ appJob.uid \in Uids /\ appJob.hook \in BOOLEAN /\ appJob.back \in BOOLEAN
  BY <1>a DEF AfFlow, Flows
<1>g. Job.at = "clear" /\ ~Job.back
  BY DEF AfInv, AfJob, ClearApp, JobAt
<1>d. /\ AfFlow'
      /\ \/ appJob' = NoFlow /\ Job.op # "remove"
         \/ /\ appJob' # NoFlow
            /\ appJob'.at = IF Job.op = "remove" THEN "forget" ELSE "note failed"
            /\ appJob'.op = appJob.op /\ appJob'.app = appJob.app /\ appJob'.to = appJob.to
            /\ appJob'.from = appJob.from /\ appJob'.gone = appJob.gone /\ appJob'.uid = appJob.uid
            /\ appJob'.hands = appJob.hands /\ appJob'.want = appJob.want
            /\ (Job.op = "remove" => appJob'.back = appJob.back)
  BY <1>a, FlowGoes, FlowEnds DEF ClearApp, FlowSteps
<1>h. /\ appDirs' = [appDirs EXCEPT ![a] = [v \in BundleVersions |-> NoBundle]]
      /\ appLink' = [appLink EXCEPT ![a] = 0]
      /\ passwd' \in {passwd, [passwd EXCEPT ![a] = 0]}
      /\ dataOf' \in {dataOf, [dataOf EXCEPT ![a] = -1]}
      /\ appRec' = appRec /\ appUid' = appUid /\ unitText' = unitText /\ unitRuns' = unitRuns
      /\ seedRec' = seedRec /\ harmed' = harmed /\ consent' = consent /\ byUser' = byUser
  BY <1>a DEF ClearApp, OnDisk
<1>1. AfDisk'
  <2>1. passwd' \in [Apps -> Uids]
    BY <1>a, <1>h, UidsNat DEF AfDisk
  <2>2. dataOf' \in [Apps -> Uids \union {-1}]
    BY <1>a, <1>h DEF AfDisk
  <2>3. [v \in BundleVersions |-> NoBundle] \in [BundleVersions -> MaybeBundles]
    BY NoBundleMaybe
  <2>4. appDirs' \in [Apps -> [BundleVersions -> MaybeBundles]] /\ appLink' \in [Apps -> MaybeVersions]
    BY <1>a, <1>h, <2>3 DEF AfDisk, MaybeVersions
  <2> QED BY <1>a, <1>h, <2>1, <2>2, <2>4 DEF AfDisk
<1>2. AfBook'
  BY <1>a, <1>d, NoFlowTyped DEF AfInv, AfBook, ClearApp, OnDisk, JobAt
<1>3. AfAround'
  BY <1>a, <1>d, NoFlowTyped DEF AfInv, AfAround, ClearApp, OnDisk, JobAt
<1>4. AfRec'
  BY <1>a, <1>d, NoFlowTyped DEF AfInv, AfRec, Installed, Current, ClearApp, OnDisk, JobAt
<1>5. AfJob'
  BY <1>a, <1>d, <1>g, <1>h, NoFlowTyped DEF AfInv, AfJob, Switching, SwitchSteps
<1>6. AfOwn'
  <2>1. \A c \in Apps : passwd'[c] \in {passwd[c], 0} /\ appUid'[c] = appUid[c]
    BY <1>a, <1>h DEF AfDisk
  <2>2. AfOwn
    BY DEF AfInv
  <2>3. OwnUsers'
    BY <2>1, <2>2 DEF AfOwn, OwnUsers
  <2>4. appJob' # NoFlow => appJob'.uid = Job.uid /\ appJob'.app = Job.app
    BY <1>d
  <2> QED BY <1>a, <2>1, <2>2, <2>3, <2>4 DEF AfOwn
<1>7. AfPriv'
  BY <1>a, <1>h, BundleFacts, <1>d DEF AfDisk, Let, AfInv, AfPriv
<1>8. AfSeed'
  BY <1>a, <1>d, <1>h, NoFlowTyped DEF AfInv, AfSeed, Installed, Current
<1>9. AfWhole'
  <2>1. \A c \in Apps \ {a} : SameApp(c) /\ harmed'[c] = harmed[c]
    BY <1>a, <1>d, NoFlowTyped DEF SameApp, ClearApp, OnDisk, JobAt, AfDisk, AfBook, AfAround
  <2>2. ~harmed'[a] => ~harmed[a]
    BY <1>a, <1>d, NoFlowTyped DEF ClearApp, OnDisk, JobAt, AfAround
  <2>3. ASSUME ~harmed'[a], Stage(a) PROVE IF appJob'.app = a THEN Stage(a)' ELSE WholeApp(a)'
    <3>1. \A u \in AppUnits : unitText'[a][u] = NoBundle /\ unitRuns'[a][u] = NoBundle
      BY <1>g, <1>h, <2>3 DEF Stage
    <3>2. appLink'[a] = 0
      BY <1>a, <1>h DEF AfDisk
    <3>3. CASE Job.op = "remove"
      BY <1>a, <1>d, <3>1, <3>2, <3>3 DEF Stage, Switching, SwitchSteps
    <3>4. CASE Job.op # "remove"
      <4>1. ~Installed(a)' /\ Current(a)' = NoBundle
        BY <1>g, <1>h, <2>3, <3>4 DEF Stage, Installed, Current, NotInstalled
      <4>2. WholeApp(a)'
        BY <3>1, <3>2, <4>1, BundleFacts DEF WholeApp, Texts, RunsOf, Mine, DirsOf, OwnsData
      <4> QED BY <1>a, <1>d, <3>4, <4>2, EndStage
    <3> QED BY <3>3, <3>4
  <2>4. appJob.app = a /\ appJob'.app \in {a, "none"} /\ AfWhole
    BY <1>a, <1>d, NoFlowTyped, NoFlowTyped DEF AfInv
  <2> QED BY <1>a, <2>1, <2>2, <2>3, <2>4, WholeStep
<1> QED BY <1>1, <1>2, <1>3, <1>4, <1>5, <1>6, <1>7, <1>8, <1>9, <1>d DEF AfInv, AfType

LEMMA AfForgetApp == ASSUME AfInv, ForgetApp PROVE AfInv'
<1>0. PICK a : a = appJob.app
  OBVIOUS
<1>a. AfFlow /\ appJob.at # "idle" /\ appJob.app = a /\ a \in Apps /\ AfDisk /\ AfBook /\ AfAround /\ appJob # NoFlow
  BY <1>0, FlowRuns DEF AfInv, AfType, ForgetApp, JobAt
<1>t. /\ appJob.to \in MaybeBundles /\ appJob.from \in MaybeBundles /\ appJob.gone \in MaybeBundles
      /\ appJob.uid \in Uids /\ appJob.hook \in BOOLEAN /\ appJob.back \in BOOLEAN
  BY <1>a DEF AfFlow, Flows
<1>g. Job.at = "forget"
  BY DEF ForgetApp, JobAt
<1>d. AfFlow' /\ appJob' = NoFlow
  BY NoFlowTyped DEF ForgetApp, AfFlow
<1>h. /\ appRec' = [appRec EXCEPT ![a] = NotInstalled]
      /\ appUid' \in {appUid, [appUid EXCEPT ![a] = 0]}
      /\ passwd' \in {passwd, [passwd EXCEPT ![a] = 0]}
      /\ byUser' = [byUser EXCEPT ![a] = seedRec[a].result \notin {"none", "failed"}]
      /\ dataOf' = dataOf /\ unitText' = unitText /\ unitRuns' = unitRuns /\ appDirs' = appDirs
      /\ appLink' = appLink /\ seedRec' = seedRec /\ harmed' = harmed /\ consent' = consent
  BY <1>a DEF ForgetApp
<1>i. /\ ~Installed(a)' /\ Current(a)' = NoBundle
      /\ \A c \in Apps \ {a} : appRec'[c] = appRec[c]
  BY <1>a, <1>h DEF AfBook, Installed, Current, NotInstalled
<1>j. NotInstalled \in AppRecords
  BY NoBundleMaybe, BundleFacts DEF NotInstalled, AppRecords, MaybeVersions, Asked, NothingAsked, MaybeBuilds, NoBundle, MaybeBundles
<1>1. AfDisk'
  BY <1>a, <1>h, UidsNat DEF AfDisk
<1>2. AfBook'
  BY <1>a, <1>h, <1>j, UidsNat DEF AfBook
<1>3. AfAround'
  BY <1>a, <1>d, NoFlowTyped DEF AfInv, AfAround, ForgetApp
<1>4. AfRec'
  BY <1>a, <1>i DEF AfInv, AfRec, Installed, Current
<1>5. AfJob'
  BY <1>a, <1>d, NoFlowTyped DEF AfInv, AfJob, Switching, SwitchSteps, ForgetApp
<1>6. AfOwn'
  BY <1>a, <1>h, <1>d DEF AfDisk, AfBook, AfInv, AfOwn, OwnUsers
<1>7. AfPriv'
  BY <1>a, <1>d, NoFlowTyped, BundleFacts DEF AfInv, AfPriv, Let, ForgetApp
<1>8. AfSeed'
  BY <1>a, <1>h, <1>i, <1>d, NoFlowTyped DEF AfAround, Installed, Current, AfInv, AfSeed
<1>9. AfWhole'
  <2>1. \A c \in Apps \ {a} : SameApp(c) /\ harmed'[c] = harmed[c]
    BY <1>a, <1>d, NoFlowTyped DEF SameApp, ForgetApp, AfDisk, AfBook, AfAround
  <2>2. ~harmed'[a] => ~harmed[a]
    BY <1>a, <1>d, NoFlowTyped DEF ForgetApp, AfAround
  <2>3. ASSUME ~harmed'[a], Stage(a) PROVE IF appJob'.app = a THEN Stage(a)' ELSE WholeApp(a)'
    <3>1. \A u \in AppUnits : unitText'[a][u] = NoBundle /\ unitRuns'[a][u] = NoBundle
      BY <1>g, <1>h, <2>3 DEF Stage
    <3>2. appLink'[a] = 0
      BY <1>g, <1>h, <2>3 DEF Stage
    <3>3. WholeApp(a)'
      BY <1>i, <3>1, <3>2, BundleFacts DEF WholeApp, Texts, RunsOf, Mine, DirsOf, OwnsData
    <3> QED BY <1>a, <1>d, <3>3, EndStage
  <2>4. appJob.app = a /\ appJob'.app \in {a, "none"} /\ AfWhole
    BY <1>a, <1>d, NoFlowTyped, NoFlowTyped DEF AfInv
  <2> QED BY <1>a, <2>1, <2>2, <2>3, <2>4, WholeStep
<1> QED BY <1>1, <1>2, <1>3, <1>4, <1>5, <1>6, <1>7, <1>8, <1>9, <1>d DEF AfInv, AfType

LEMMA AfNoteOutcome == ASSUME AfInv, NoteOutcome PROVE AfInv'
<1>0. PICK a : a = appJob.app
  OBVIOUS
<1>a. AfFlow /\ appJob.at # "idle" /\ appJob.app = a /\ a \in Apps /\ AfDisk /\ AfBook /\ AfAround /\ appJob # NoFlow
  BY <1>0, FlowRuns DEF AfInv, AfType, NoteOutcome, JobAt
<1>t. /\ appJob.to \in MaybeBundles /\ appJob.from \in MaybeBundles /\ appJob.gone \in MaybeBundles
      /\ appJob.uid \in Uids /\ appJob.hook \in BOOLEAN /\ appJob.back \in BOOLEAN
  BY <1>a DEF AfFlow, Flows
<1>g. Job.at \in {"note ok", "note failed"} /\ a \in Apps
  BY <1>a DEF NoteOutcome
<1>d. AfFlow' /\ appJob' = NoFlow
  BY NoFlowTyped DEF NoteOutcome, AfFlow
<1>h. /\ appUid' = appUid /\ passwd' = passwd /\ byUser' = byUser
      /\ dataOf' = dataOf /\ unitText' = unitText /\ unitRuns' = unitRuns /\ appDirs' = appDirs
      /\ appLink' = appLink /\ harmed' = harmed /\ consent' = consent
  BY DEF NoteOutcome
<1>i. PICK s : /\ s \in SeedRecords
               /\ seedRec' = [seedRec EXCEPT ![a] = s]
               /\ Job.hands = "image" \/ s = seedRec[a]
  <2>1. CASE Job.hands # "image"
    BY <1>a, <2>1 DEF NoteOutcome, AfBook
  <2>2. CASE Job.hands = "image"
    <3>0. /\ Job.want \in MaybeBundles
          /\ IF Job.op = "upgrade"
             THEN seedRec[a].failedBuild = Job.want => seedRec[a].tries < SEED_TRIES
             ELSE seedRec[a].bundle = Job.want => seedRec[a].tries < SEED_TRIES
      BY <1>a, <2>2 DEF AfInv, AfJob, MaybeBundles
    <3>1. SeedSucceeded(a, Job.want, Job.op) \in SeedRecords
      BY NotSeededTyped, <3>0 DEF SeedSucceeded, SeedRecords
    <3>2. SeedFailed(a, Job.want, Job.op) \in SeedRecords
      <4>1. PICK had : had = seedRec[a] /\ had \in SeedRecords
        BY <1>a DEF AfBook
      <4>2. CASE Job.op = "upgrade"
        <5>1. PICK n \in 0..SEED_TRIES : n = IF had.failedBuild = Job.want THEN had.tries + 1 ELSE 1
          BY <3>0, <4>1, <4>2 DEF SeedRecords, SEED_TRIES
        <5>2. SeedFailed(a, Job.want, Job.op) = [had EXCEPT !.tries = n, !.failedBuild = Job.want]
          BY <4>1, <4>2, <5>1 DEF SeedFailed
        <5> QED BY <3>0, <4>1, <5>1, <5>2 DEF SeedRecords
      <4>3. CASE Job.op # "upgrade"
        <5>1. PICK n \in 0..SEED_TRIES : n = (IF had.bundle = Job.want THEN had.tries ELSE 0) + 1
          BY <3>0, <4>1, <4>3 DEF SeedRecords, SEED_TRIES
        <5>2. SeedFailed(a, Job.want, Job.op) = [NotSeeded EXCEPT !.bundle = Job.want, !.result = "failed", !.tries = n]
          BY <4>1, <4>3, <5>1 DEF SeedFailed
        <5> QED BY <3>0, <5>1, <5>2, NoBundleMaybe DEF SeedRecords, NotSeeded
      <4> QED BY <4>2, <4>3
    <3> DEFINE s0 == IF Job.at = "note ok" THEN SeedSucceeded(a, Job.want, Job.op) ELSE SeedFailed(a, Job.want, Job.op)
    <3>3. s0 \in SeedRecords
      BY <3>1, <3>2
    <3>4. seedRec' = [seedRec EXCEPT ![a] = s0]
      BY <1>a, <2>2 DEF NoteOutcome
    <3> HIDE DEF s0
    <3> QED BY <2>2, <3>3, <3>4
  <2> QED BY <2>1, <2>2
<1>j. PICK q : /\ q \in AppRecords /\ q.current = Current(a) /\ q.previous = appRec[a].previous
               /\ appRec' = [appRec EXCEPT ![a] = q]
               /\ (q # NotInstalled <=> Installed(a))
               /\ (Job.hands = "image" => q = appRec[a])
  <2>0. PICK r : r = appRec[a] /\ r \in AppRecords /\ appRec \in [Apps -> AppRecords]
    BY <1>a DEF AfBook
  <2>1. CASE Job.hands = "image" \/ ~Installed(a)
    BY <1>a, <2>0, <2>1 DEF NoteOutcome, Installed, Current
  <2>2. CASE Job.hands # "image" /\ Installed(a) /\ Job.at = "note ok"
    <3> DEFINE n == [r EXCEPT !.asked = NothingAsked]
    <3>1. NothingAsked \in Asked
      <4>1. NoBundle \in MaybeBundles /\ NoBundle.build = 0
        BY DEF NoBundle, MaybeBundles
      <4>2. 0 \in MaybeBuilds
        BY <4>1 DEF MaybeBuilds
      <4> QED BY <4>2 DEF NothingAsked, Asked, MaybeVersions
    <3>2. n \in AppRecords /\ n.current = r.current /\ n.previous = r.previous
      BY <2>0, <3>1 DEF AppRecords
    <3>3. appRec' = [appRec EXCEPT ![a] = n]
      BY <1>a, <2>0, <2>2 DEF NoteOutcome
    <3>4. n # NotInstalled
      <4>1. r.current # NoBundle
        BY <1>a, <2>0, <2>2, BundleFacts DEF AfInv, AfRec, Current
      <4> QED BY <3>2, <4>1 DEF NotInstalled
    <3> HIDE DEF n
    <3> QED BY <2>0, <2>2, <3>2, <3>3, <3>4 DEF Current
  <2>3. CASE Job.hands # "image" /\ Installed(a) /\ Job.at # "note ok"
    <3>0. PICK v \in MaybeVersions : v = Job.want.version
      BY <1>a, BundleFacts DEF AfFlow, Flows
    <3> DEFINE n == [r EXCEPT !.failed = v]
    <3>2. n \in AppRecords /\ n.current = r.current /\ n.previous = r.previous
      BY <2>0, <3>0 DEF AppRecords
    <3>3. appRec' = [appRec EXCEPT ![a] = n]
      BY <1>a, <2>0, <2>3, <3>0 DEF NoteOutcome
    <3>4. n # NotInstalled
      <4>1. r.current # NoBundle
        BY <1>a, <2>0, <2>3, BundleFacts DEF AfInv, AfRec, Current
      <4> QED BY <3>2, <4>1 DEF NotInstalled
    <3> HIDE DEF n
    <3> QED BY <2>0, <2>3, <3>2, <3>3, <3>4 DEF Current
  <2> QED BY <2>1, <2>2, <2>3
<1>k. /\ Current(a)' = Current(a) /\ (Installed(a)' <=> Installed(a)) /\ appRec'[a].previous = appRec[a].previous
      /\ \A c \in Apps \ {a} : appRec'[c] = appRec[c] /\ seedRec'[c] = seedRec[c]
  BY <1>a, <1>i, <1>j DEF AfBook, Installed, Current
<1>1. AfDisk'
  BY <1>a, <1>d, NoFlowTyped, <1>t, NoBundleMaybe, UidsNat DEF AfInv, AfDisk, NoteOutcome
<1>2. AfBook'
  BY <1>a, <1>h, <1>i, <1>j DEF AfBook
<1>3. AfAround'
  BY <1>a, <1>d, NoFlowTyped DEF AfInv, AfAround, NoteOutcome
<1>4. AfRec'
  BY <1>a, <1>k DEF AfInv, AfRec, Installed, Current
<1>5. AfJob'
  BY <1>a, <1>d, NoFlowTyped DEF AfInv, AfJob, Switching, SwitchSteps, NoteOutcome
<1>6. AfOwn'
  BY <1>a, <1>d, NoFlowTyped DEF AfInv, AfOwn, OwnUsers, NoteOutcome
<1>7. AfPriv'
  BY <1>a, <1>d, NoFlowTyped, BundleFacts DEF AfInv, AfPriv, Let, NoteOutcome
<1>8. AfSeed'
  BY <1>a, <1>i, <1>k, <1>d, <1>h, NoFlowTyped DEF AfInv, AfSeed, AfBook, Installed, Current
<1>9. AfWhole'
  <2>1. \A c \in Apps \ {a} : SameApp(c) /\ harmed'[c] = harmed[c]
    BY <1>a, <1>d, NoFlowTyped DEF SameApp, NoteOutcome, AfDisk, AfBook, AfAround
  <2>2. ~harmed'[a] => ~harmed[a]
    BY <1>a, <1>d, NoFlowTyped DEF NoteOutcome, AfAround
  <2>3. ASSUME ~harmed'[a], Stage(a) PROVE IF appJob'.app = a THEN Stage(a)' ELSE WholeApp(a)'
    <3>1. WholeApp(a)
      BY <1>g, <2>3 DEF Stage
    <3>2. WholeApp(a)'
      BY <1>h, <1>k, <3>1 DEF WholeApp, Texts, RunsOf, DirsOf, OwnsData
    <3> QED BY <1>a, <1>d, <3>2, EndStage
  <2>4. appJob.app = a /\ appJob'.app \in {a, "none"} /\ AfWhole
    BY <1>a, <1>d, NoFlowTyped, NoFlowTyped DEF AfInv
  <2> QED BY <1>a, <2>1, <2>2, <2>3, <2>4, WholeStep
<1> QED BY <1>1, <1>2, <1>3, <1>4, <1>5, <1>6, <1>7, <1>8, <1>9, <1>d DEF AfInv, AfType

-----------------------------------------------------------------------------
\* What comes between the flows.
appCore == <<appRec, appUid, passwd, dataOf, appDirs, appLink, unitText, unitRuns, seedRec, appJob,
             harmed, consent, byUser>>

LEMMA SameStage == ASSUME NEW c \in Apps, SameApp(c), appJob' = appJob, Stage(c) PROVE Stage(c)'
<1>1. /\ WholeApp(c) <=> WholeApp(c)'
      /\ Texts(c, Current(c)) <=> Texts(c, Current(c))'
      /\ RunsOf(c, Current(c)) <=> RunsOf(c, Current(c))'
      /\ OwnsData(c) <=> OwnsData(c)'
      /\ DirsOf(c, appDirs[c]) <=> DirsOf(c, appDirs[c])'
      /\ DirsOf(c, [appDirs[c] EXCEPT ![Job.to.version] = Job.gone])
           <=> DirsOf(c, [appDirs[c] EXCEPT ![Job.to.version] = Job.gone])'
      /\ Installed(c) <=> Installed(c)'
      /\ Current(c) = Current(c)'
      /\ DirsAfter(c) <=> DirsAfter(c)'
      /\ Texts(c, Job.to) <=> Texts(c, Job.to)'
      /\ RunsOf(c, Job.to) <=> RunsOf(c, Job.to)'
      /\ Pointed(c) <=> Pointed(c)'
  BY DEF SameApp, WholeApp, Texts, RunsOf, DirsOf, OwnsData, Installed, Current, DirsAfter, Pointed
<1>2. /\ unitText'[c] = unitText[c] /\ unitRuns'[c] = unitRuns[c] /\ appLink'[c] = appLink[c]
      /\ appDirs'[c] = appDirs[c]
  BY DEF SameApp
<1>3. Returnable(c) <=> Returnable(c)'
  BY <1>1 DEF Returnable
<1>4. Forward(c) => Forward(c)'
  BY <1>1, <1>2, <1>3 DEF Forward
<1>5. Backward(c) => Backward(c)'
  BY <1>1, <1>2 DEF Backward
<1> QED BY <1>1, <1>2, <1>4, <1>5 DEF Stage

LEMMA SameCore == ASSUME AfInv, UNCHANGED appCore, AfAround' PROVE AfInv'
<1> USE DEF appCore
<1>1. AfDisk' /\ AfBook' /\ AfFlow'
  BY DEF AfInv, AfType, AfDisk, AfBook, AfFlow
<1>2. AfRec' /\ AfJob' /\ AfOwn'
  BY DEF AfInv, AfRec, AfJob, AfOwn, OwnUsers, Installed, Current
<1>3. AfPriv' /\ AfSeed'
  BY DEF AfInv, AfPriv, AfSeed, Let, Installed, Current
<1>4. AfWhole'
  BY SameStage, SameWhole DEF SameApp, AfInv, AfWhole
<1> QED BY <1>1, <1>2, <1>3, <1>4 DEF AfInv, AfType

\* A flow of the app a begins: nothing of an app changes, and what may be run is let.
Started(a) ==
  /\ appJob = NoFlow /\ appJob'.app = a /\ appJob' # NoFlow
  /\ appRec' = appRec /\ appUid' = appUid /\ passwd' = passwd /\ dataOf' = dataOf /\ appDirs' = appDirs
  /\ appLink' = appLink /\ unitText' = unitText /\ unitRuns' = unitRuns /\ seedRec' = seedRec
  /\ harmed' = harmed /\ byUser' = byUser
  /\ \A c \in Apps : consent[c] \subseteq consent'[c]

LEMMA FlowBegins ==
  ASSUME AfInv, NEW a \in Apps, Started(a), AfAround', AfFlow', AfJob',
         Let(a, appJob.to)' /\ Let(a, appJob.from)' /\ Let(a, appJob.gone)',
         appJob'.uid # 0 => \A c \in Apps \ {a} : appJob'.uid \notin {appUid[c], passwd[c]},
         appJob'.hands = "image" => ~byUser[a],
         ~harmed[a] /\ WholeApp(a) => Stage(a)'
  PROVE  AfInv'
<1>1. AfDisk' /\ AfBook' /\ AfRec'
  BY DEF AfInv, AfType, AfDisk, AfBook, AfRec, Started, Installed, Current
<1>2. AfOwn' /\ AfSeed'
  BY DEF AfInv, AfOwn, AfSeed, OwnUsers, Started, Installed, Current
<1>3. AfPriv'
  BY DEF Let, Started, AfInv, AfPriv
<1>4. AfWhole'
  BY NoFlowTyped, BundleFacts, SameWhole DEF AfWhole, AfInv, Started, SameApp
<1> QED BY <1>1, <1>2, <1>3, <1>4 DEF AfInv, AfType

\* A bundle that asks for nothing beyond the installed one, and what was accepted, is let.
LEMMA DeltaLet ==
  ASSUME NEW had, NEW next, NEW C, NEW G, "root" \in C \/ had \subseteq C,
         PrivilegeDelta(had, next) \subseteq G
  PROVE  "root" \in C \union G \/ next \subseteq C \union G
  BY DEF PrivilegeDelta

LEMMA DeltaTyped ==
  ASSUME NEW had, NEW b \in Bundles
  PROVE  PrivilegeDelta(had, b.asks) \subseteq Privileges
  BY DEF PrivilegeDelta, Privileges

LEMMA AdmitLet ==
  ASSUME AfInv, NEW a \in Apps, NEW b \in Bundles, NEW reinstall, NEW upgrade, NEW unattended, NEW ask,
         AdmitApp(a, b, reinstall, upgrade, unattended, ask) = "yes",
         ask \/ (unattended /\ Installed(a))
  PROVE  Let(a, b)
<1> DEFINE had == IF Installed(a) THEN appDirs[a][Current(a).version].asks ELSE {}
<1>1. PrivilegeDelta(had, b.asks) = {}
  BY DEF AdmitApp
<1>2. "root" \in consent[a] \/ had \subseteq consent[a]
  BY BundleFacts DEF AfInv, AfRec, AfPriv, Let
<1> HIDE DEF had
<1>3. PrivilegeDelta(had, b.asks) \subseteq {}
  BY <1>1
<1>4. "root" \in consent[a] \union {} \/ b.asks \subseteq consent[a] \union {}
  BY <1>2, <1>3, DeltaLet
<1> QED BY <1>4 DEF Let

\* The flow an admitted bundle begins.
LEMMA UnpackingFlow ==
  ASSUME NEW b \in Bundles, NEW op \in {"install", "update", "upgrade"}, NEW hands \in {"user", "daily", "image"},
         Unpacking(op, b, hands)
  PROVE  /\ AfFlow' /\ appJob' # NoFlow /\ appJob'.at = "unpack" /\ appJob'.op = op /\ appJob'.app = b.app
         /\ appJob'.to = b /\ appJob'.want = b /\ appJob'.hands = hands /\ appJob'.from = NoBundle
         /\ appJob'.gone = NoBundle /\ appJob'.uid = 0 /\ appJob'.back = FALSE
  BY NoFlowTyped, BundleFacts DEF Unpacking, FlowSteps, MaybeBundles, Flows, AfFlow

LEMMA UnpackingBegins ==
  ASSUME AfInv, NEW b \in Bundles, NEW op \in {"install", "update", "upgrade"},
         NEW hands \in {"user", "daily", "image"}, Unpacking(op, b, hands),
         Started(b.app), AfAround', Let(b.app, b)',
         hands = "image" =>
           /\ op \in {"install", "upgrade"}
           /\ ~byUser[b.app]
           /\ IF op = "upgrade" THEN seedRec[b.app].failedBuild = b => seedRec[b.app].tries < SEED_TRIES
              ELSE seedRec[b.app].bundle = b => seedRec[b.app].tries < SEED_TRIES
  PROVE  AfInv'
<1>0. PICK a : a = b.app /\ a \in Apps
  BY BundleFacts
<1>1. /\ AfFlow' /\ appJob' # NoFlow /\ appJob'.at = "unpack" /\ appJob'.op = op /\ appJob'.app = a
      /\ appJob'.to = b /\ appJob'.want = b /\ appJob'.hands = hands /\ appJob'.from = NoBundle
      /\ appJob'.gone = NoBundle /\ appJob'.uid = 0 /\ appJob'.back = FALSE
  BY <1>0, UnpackingFlow
<1>2. seedRec' = seedRec /\ Started(a)
  BY <1>0 DEF Started
<1>3. AfJob'
  BY <1>0, <1>1, <1>2 DEF AfJob, Switching, SwitchSteps
<1>4. Let(a, appJob.to)' /\ Let(a, appJob.from)' /\ Let(a, appJob.gone)'
  BY <1>0, <1>1, BundleFacts DEF Let
<1>5. ASSUME WholeApp(a) PROVE Stage(a)'
  BY <1>0, <1>2, <1>5, SameWhole, <1>1 DEF Started, SameApp, Stage, Switching, SwitchSteps
<1> QED BY <1>0, <1>1, <1>2, <1>3, <1>4, <1>5, FlowBegins

LEMMA AfInstallApp == ASSUME AfInv, InstallApp PROVE AfInv'
<1>1. PICK b \in Bundles, reinstall \in BOOLEAN, upgrade \in BOOLEAN, accept \in BOOLEAN :
        /\ Begin
        /\ AdmitApp(b.app, b, reinstall, upgrade, FALSE, ~accept) = "yes"
        /\ consent' = [consent EXCEPT ![b.app] = @ \union IF accept THEN b.asks ELSE {}]
        /\ Unpacking("install", b, "user")
        /\ UNCHANGED <<appBook, appDisk, appOutside, toSeed, harmed, byUser, handTurn, handSaid>>
  BY DEF InstallApp
<1>0. PICK a : a = b.app /\ a \in Apps
  BY BundleFacts
<1>2. AfAround /\ b.asks \subseteq Privileges
  BY BundleFacts DEF AfInv, AfType, MaybeBundles
<1>3. consent \in [Apps -> SUBSET Privileges] /\ consent' = [consent EXCEPT ![a] = consent[a] \union IF accept THEN b.asks ELSE {}]
  BY <1>0, <1>1, <1>2 DEF AfAround
<1>4. /\ consent' \in [Apps -> SUBSET Privileges] /\ \A c \in Apps : consent[c] \subseteq consent'[c]
      /\ (accept => b.asks \subseteq consent'[a])
  BY <1>0, <1>2, <1>3
<1>5. AfAround'
  BY <1>1, <1>2, <1>4 DEF AfAround
<1>6. Let(a, b)'
  BY <1>4, <1>0, <1>1, AdmitLet DEF Let
<1>7. appJob'.app = a /\ appJob' # NoFlow
  BY <1>0, <1>1, UnpackingFlow
<1>8. Started(a)
  BY <1>1, <1>4, <1>7 DEF Started, Begin
<1> QED BY <1>0, <1>1, <1>5, <1>6, <1>8, UnpackingBegins

\* A note in the record of an app, with no flow about.
LEMMA RecordTouched ==
  ASSUME AfInv, appJob = NoFlow, NEW a \in Apps, Installed(a), NEW q \in AppRecords,
         q.current = Current(a), q.previous = appRec[a].previous,
         appRec' = [appRec EXCEPT ![a] = q], AfAround',
         UNCHANGED <<appUid, seedRec, appDisk, harmed, byUser, consent, appJob>>
  PROVE  AfInv'
<1>0. appRec \in [Apps -> AppRecords]
  BY DEF AfInv, AfType, AfBook
<1>1. q # NotInstalled
  BY BundleFacts DEF AfInv, AfRec, NotInstalled
<1>2. \A c \in Apps : /\ Current(c)' = Current(c) /\ (Installed(c)' <=> Installed(c))
                      /\ appRec'[c].previous = appRec[c].previous
  BY <1>0, <1>1 DEF Installed, Current
<1>3. AfDisk' /\ AfBook' /\ AfFlow'
  BY <1>0 DEF AfInv, AfType, AfDisk, AfBook, AfFlow
<1>4. AfRec' /\ AfOwn'
  BY <1>2 DEF AfInv, AfRec, AfOwn, OwnUsers
<1>5. AfJob' /\ AfPriv'
  BY DEF AfInv, AfJob, AfPriv, Let
<1>6. AfSeed'
  BY <1>2 DEF AfInv, AfSeed
<1>7. AfWhole'
  BY NoFlowTyped, BundleFacts, <1>2 DEF AfWhole, AfInv, WholeApp, Texts, RunsOf, DirsOf, OwnsData
<1> QED BY <1>3, <1>4, <1>5, <1>6, <1>7 DEF AfInv, AfType

LEMMA AfFetchUpdate ==
  ASSUME AfInv, NEW a \in Apps, NEW unattended \in BOOLEAN, NEW accept, FetchUpdate(a, unattended, accept)
  PROVE  AfInv'
<1> DEFINE offer == offered[a]
           asked == appRec[a].asked
           accepted == /\ accept # 0 /\ accept = asked.version
                       /\ asked.version = offer.version /\ asked.build = offer.build
                       /\ AsksWithin(a, offer, asked.privileges)
           admitted == AdmitApp(a, offer, FALSE, TRUE, unattended, ~unattended /\ ~accepted)
           had == appDirs[a][Current(a).version].asks
           note == [version |-> offer.version, build |-> offer.build,
                    privileges |-> PrivilegeDelta(had, offer.asks)]
<1>1. /\ appJob = NoFlow /\ Installed(a) /\ offer # NoBundle
      /\ UNCHANGED <<appUid, seedRec, appDisk, appOutside, toSeed, harmed, byUser>>
  BY DEF FetchUpdate, Begin, IsAvailable
<1>2. \/ /\ admitted = "yes"
         /\ consent' = [consent EXCEPT ![a] = @ \union IF accepted THEN asked.privileges ELSE {}]
         /\ Unpacking("update", offer, IF unattended THEN "daily" ELSE "user")
         /\ UNCHANGED <<appRec, handTurn>>
      \/ /\ appRec' = [appRec EXCEPT ![a].asked = note]
         /\ UNCHANGED <<appJob, consent, handTurn>>
      \/ /\ appRec' = [appRec EXCEPT ![a].failed = offer.version]
         /\ handTurn' = [handTurn EXCEPT ![a] = IF unattended THEN offer.version ELSE @]
         /\ UNCHANGED <<appJob, consent>>
      \/ /\ appRec' = [appRec EXCEPT ![a].failed = offer.version]
         /\ UNCHANGED <<appJob, consent, handTurn>>
  BY DEF FetchUpdate
<1>3. AfAround /\ AfBook
  BY DEF AfInv, AfType
<1>4. offer \in Bundles /\ offer.app = a /\ offer.version \in MaybeVersions /\ offer.build \in MaybeBuilds
  <2>1. offer \in BundlesOf(a)
    BY <1>1, <1>3 DEF AfAround
  <2> HIDE DEF offer
  <2> QED BY <2>1, BundleFacts DEF BundlesOf, MaybeVersions, MaybeBuilds, MaybeBundles
<1>5. PICK r : r = appRec[a] /\ r \in AppRecords /\ appRec \in [Apps -> AppRecords]
  BY <1>3 DEF AfBook
<1>6. asked.privileges \subseteq Privileges
  BY <1>5 DEF AppRecords, Asked
<1>7. "root" \in consent[a] \/ had \subseteq consent[a]
  BY <1>1, BundleFacts DEF AfInv, AfRec, AfPriv, Let
<1>8. accepted => PrivilegeDelta(had, offer.asks) \subseteq asked.privileges
  BY DEF AsksWithin
<1>9. note \in Asked
  <2>1. PrivilegeDelta(had, offer.asks) \in SUBSET Privileges
    BY <1>4, DeltaTyped
  <2> HIDE DEF offer, had
  <2> QED BY <1>4, <2>1 DEF Asked
<1> HIDE DEF offer, asked, accepted, had, note
<1>10. CASE /\ admitted = "yes"
            /\ consent' = [consent EXCEPT ![a] = @ \union IF accepted THEN asked.privileges ELSE {}]
            /\ Unpacking("update", offer, IF unattended THEN "daily" ELSE "user")
            /\ UNCHANGED <<appRec, handTurn>>
  <2>1. PICK hands \in {"user", "daily"} : hands = IF unattended THEN "daily" ELSE "user"
    OBVIOUS
  <2>2. consent \in [Apps -> SUBSET Privileges]
    BY <1>3 DEF AfAround
  <2>3. /\ consent' \in [Apps -> SUBSET Privileges] /\ \A c \in Apps : consent[c] \subseteq consent'[c]
        /\ (accepted => consent'[a] = consent[a] \union asked.privileges)
    BY <1>6, <1>10, <2>2
  <2>4. AfAround'
    BY <1>1, <1>3, <1>10, <2>3 DEF AfAround
  <2>5. Let(a, offer)'
    <3>1. CASE accepted
      BY <1>7, <1>8, <3>1, DeltaLet, <1>1, <2>3 DEF Let, offer
    <3>2. CASE ~accepted
      BY <1>1, <1>4, <1>10, <3>2, AdmitLet, <2>3 DEF Let, offer
    <3> QED BY <3>1, <3>2
  <2>6. PICK b \in Bundles : b = offer
    BY <1>4
  <2>7. Unpacking("update", b, hands) /\ Let(a, b)' /\ b.app = a
    BY <1>1, <1>4, <1>10, <2>1, <2>5, <2>6 DEF offer, Let
  <2>8. appJob'.app = a /\ appJob' # NoFlow
    BY <2>7, UnpackingFlow
  <2>9. Started(a)
    BY <1>1, <1>10, <2>3, <2>8 DEF Started
  <2> QED BY <2>1, <2>4, <2>7, <2>9, UnpackingBegins
<1>11. CASE appRec' = [appRec EXCEPT ![a].asked = note] /\ UNCHANGED <<appJob, consent, handTurn>>
  BY <1>5, <1>9, <1>11, <1>1, <1>3, RecordTouched DEF AppRecords, AfAround, Current
<1>12. ASSUME appRec' = [appRec EXCEPT ![a].failed = offer.version], UNCHANGED <<appJob, consent>>,
              handTurn' = [handTurn EXCEPT ![a] = IF unattended THEN offer.version ELSE @] \/ handTurn' = handTurn
       PROVE  AfInv'
  <2>0. PICK v \in MaybeVersions : v = offer.version
    BY <1>4
  <2>1. PICK q : q = [r EXCEPT !.failed = v]
    OBVIOUS
  <2>2. q \in AppRecords /\ q.current = r.current /\ q.previous = r.previous
    BY <1>5, <2>0, <2>1 DEF AppRecords
  <2>3. appRec' = [appRec EXCEPT ![a] = q]
    BY <1>5, <1>12, <2>0, <2>1
  <2>4. handTurn' \in [Apps -> MaybeVersions]
    BY <1>3, <1>12, <2>0 DEF AfAround
  <2>5. AfAround'
    BY <1>1, <1>3, <1>12, <2>4 DEF AfAround
  <2> QED BY <1>1, <1>5, <1>12, <2>2, <2>3, <2>5, RecordTouched DEF Current
<1> QED BY <1>2, <1>10, <1>11, <1>12

LEMMA AfRollbackApp == ASSUME AfInv, NEW a \in Apps, RollbackApp(a) PROVE AfInv'
<1>1. /\ appJob = NoFlow /\ Installed(a) /\ appRec[a].previous # NoBundle
      /\ UNCHANGED <<appBook, appDisk, appOutside, toSeed, harmed, appSeen>>
  BY DEF RollbackApp, Begin
<1>2. AfAround /\ AfBook /\ AfDisk /\ AfRec
  BY DEF AfInv, AfType
<1>3. AfAround'
  BY <1>1, <1>2 DEF AfAround
<1>4. Current(a) \in Bundles /\ appRec[a].previous \in Bundles
  BY <1>1, <1>2 DEF AfRec, AfBook, AppRecords, MaybeBundles
<1>5. Current(a).version \in BundleVersions /\ appRec[a].previous.version \in BundleVersions
  BY <1>4, BundleFacts
<1>6. PICK to : to = appDirs[a][appRec[a].previous.version] /\ to \in Bundles
  BY <1>2, <1>5 DEF AfDisk, RollbackApp, ManifestOf, MaybeBundles
<1>7. PICK from : from = appDirs[a][Current(a).version] /\ from \in Bundles
  BY <1>2, <1>5 DEF AfDisk, RollbackApp, ManifestOf, MaybeBundles
<1>8. PICK uid \in Uids : uid = Account(a, to)
  BY <1>2, AccountOwn
<1>9. uid # 0 => \A c \in Apps \ {a} : uid \notin {appUid[c], passwd[c]}
  BY <1>2, <1>8, AccountOwn DEF AfInv, AfOwn
<1>10. PICK q : q = NoFlow /\ q \in Flows
  BY NoFlowTyped
<1>11. appJob' = [q EXCEPT !.at = "stop", !.op = "rollback", !.app = a, !.to = to, !.from = from,
                           !.uid = uid, !.hands = "user"]
  BY <1>6, <1>7, <1>8, <1>10 DEF RollbackApp
<1>12. "stop" \in FlowSteps /\ to \in MaybeBundles /\ from \in MaybeBundles
  BY <1>6, <1>7 DEF FlowSteps, Switching, SwitchSteps, MaybeBundles
<1>13. /\ appJob' \in Flows /\ appJob'.at = "stop" /\ appJob'.op = "rollback" /\ appJob'.app = a
       /\ appJob'.to = to /\ appJob'.from = from /\ appJob'.gone = q.gone /\ appJob'.uid = uid
       /\ appJob'.back = q.back /\ appJob'.hands = "user"
  BY <1>10, <1>11, <1>12 DEF Flows
<1>14. AfFlow' /\ appJob' # NoFlow /\ appJob'.gone = NoBundle /\ appJob'.back = FALSE
  BY <1>10, <1>13, NoFlowTyped DEF AfFlow
<1>15. AfJob'
  BY <1>6, <1>7, <1>13, <1>14, BundleFacts DEF AfJob, Switching, SwitchSteps
<1>16. Started(a)
  BY <1>1, <1>13, <1>14 DEF Started
<1>17. Let(a, appJob.to)' /\ Let(a, appJob.from)' /\ Let(a, appJob.gone)'
  BY <1>5, <1>6, <1>7, BundleFacts, <1>1, <1>13, <1>14 DEF AfInv, AfPriv, Let
<1>18. ASSUME WholeApp(a) PROVE Stage(a)'
  <2>1. to = appRec[a].previous /\ from = Current(a)
    BY <1>1, <1>6, <1>7, <1>18 DEF WholeApp, DirsOf
  <2>2. to.version # from.version
    BY <1>1, <1>2, <2>1 DEF AfRec
  <2>3. DirsOf(a, appDirs[a])' /\ Installed(a)' /\ Current(a)' = from
    BY <1>1, <1>18, <2>1 DEF WholeApp, DirsOf, Installed, Current
  <2>4. Texts(a, Current(a))' /\ RunsOf(a, Current(a))'
    BY <1>1, <1>18 DEF WholeApp, Texts, RunsOf, Current
  <2>5. DirsAfter(a)'
    BY <1>1, <1>6, <1>7, <1>13, <2>1, <2>2 DEF DirsAfter, Installed, Current
  <2>6. Forward(a)'
    BY <1>13, <2>3, <2>4, <2>5 DEF Forward, Returnable
  <2> QED BY <1>13, <1>14, <2>6, ForwardStage DEF Switching, SwitchSteps
<1> QED BY <1>3, <1>9, <1>13, <1>14, <1>15, <1>16, <1>17, <1>18, FlowBegins

LEMMA AfRemoveApp == ASSUME AfInv, NEW a \in Apps, RemoveApp(a) PROVE AfInv'
<1>1. /\ appJob = NoFlow /\ Installed(a)
      /\ UNCHANGED <<appBook, appDisk, appOutside, toSeed, harmed, appSeen>>
  BY DEF RemoveApp, Begin
<1>2. AfAround /\ AfBook /\ AfDisk /\ AfRec
  BY DEF AfInv, AfType
<1>3. AfAround'
  BY <1>1, <1>2 DEF AfAround
<1>4. Current(a) \in Bundles /\ Current(a).version \in BundleVersions
  BY <1>1, <1>2, BundleFacts DEF AfRec
<1>5. PICK from \in MaybeBundles :
        /\ from = IF ManifestOf(a, Current(a)) THEN appDirs[a][Current(a).version] ELSE NoBundle
        /\ Let(a, from)
  <2>1. Let(a, NoBundle) /\ NoBundle \in MaybeBundles
    BY NoBundleMaybe, BundleFacts DEF Let
  <2>2. Let(a, appDirs[a][Current(a).version]) /\ appDirs[a][Current(a).version] \in MaybeBundles
    BY <1>2, <1>4 DEF AfDisk, AfInv, AfPriv
  <2> QED BY <2>1, <2>2
<1>6. PICK purge \in BOOLEAN :
        appJob' = [NoFlow EXCEPT !.at = "tear down", !.op = "remove", !.app = a, !.from = from,
                                 !.purge = purge, !.hands = "user"]
  BY <1>5 DEF RemoveApp
<1>10. PICK q : q = NoFlow /\ q \in Flows
  BY NoFlowTyped
<1>11. appJob' = [q EXCEPT !.at = "tear down", !.op = "remove", !.app = a, !.from = from,
                           !.purge = purge, !.hands = "user"]
  BY <1>6, <1>10
<1>12. "tear down" \in FlowSteps
  BY DEF FlowSteps
<1>13. /\ appJob' \in Flows /\ appJob'.at = "tear down" /\ appJob'.op = "remove" /\ appJob'.app = a
       /\ appJob'.to = q.to /\ appJob'.from = from /\ appJob'.gone = q.gone /\ appJob'.uid = q.uid
       /\ appJob'.back = q.back /\ appJob'.hands = "user"
  BY <1>10, <1>11, <1>12 DEF Flows
<1>14. /\ AfFlow' /\ appJob' # NoFlow /\ appJob'.gone = NoBundle /\ appJob'.back = FALSE
       /\ appJob'.to = NoBundle /\ appJob'.uid = 0
  BY <1>10, <1>13, NoFlowTyped DEF AfFlow
<1>15. AfJob'
  BY <1>13, <1>14 DEF AfJob, Switching, SwitchSteps
<1>16. Started(a)
  BY <1>1, <1>13, <1>14 DEF Started
<1>17. Let(a, appJob.to)' /\ Let(a, appJob.from)' /\ Let(a, appJob.gone)'
  BY <1>5, BundleFacts, <1>1, <1>13, <1>14 DEF Let
<1>18. ASSUME WholeApp(a) PROVE Stage(a)'
  <2>1. from = Current(a)
    BY <1>1, <1>4, <1>5, <1>18, BundleFacts DEF WholeApp, DirsOf, ManifestOf
  <2>2. \A u \in AppUnits : u \notin from.units => unitText[a][u] = NoBundle /\ unitRuns[a][u] = NoBundle
    BY <1>18, <2>1 DEF WholeApp, Texts, RunsOf, Mine
  <2> QED BY <1>1, <1>13, <1>14, <2>2 DEF Stage, Switching, SwitchSteps
<1> QED BY <1>3, <1>13, <1>14, <1>15, <1>16, <1>17, <1>18, FlowBegins

LEMMA AfTakeSeed == ASSUME AfInv, NEW a \in Apps, TakeSeed(a) PROVE AfInv'
<1>0. PICK s : s = seedOf[a]
  OBVIOUS
<1>1. /\ appJob = NoFlow /\ a \in toSeed /\ toSeed' = toSeed \ {a}
      /\ UNCHANGED <<appRec, appUid, appDisk, appOutside, harmed, handTurn, handSaid>>
  BY DEF TakeSeed, Begin
<1>2. \/ UNCHANGED <<seedRec, appJob, consent, byUser>>
      \/ /\ SeedTaken(a, s) = "skipped"
         /\ seedRec' = [seedRec EXCEPT ![a] = [NotSeeded EXCEPT !.bundle = s, !.result = "skipped"]]
         /\ byUser' = [byUser EXCEPT ![a] = Current(a) # s]
         /\ UNCHANGED <<appJob, consent>>
      \/ \E what \in {"install", "upgrade"} :
           /\ SeedTaken(a, s) = what
           /\ consent' = [consent EXCEPT ![a] = @ \union s.asks]
           /\ Unpacking(what, s, "image")
           /\ UNCHANGED <<seedRec, byUser>>
  BY <1>0 DEF TakeSeed
<1>3. AfAround /\ AfBook
  BY DEF AfInv, AfType
<1>4. s \in Bundles /\ s.app = a /\ s.asks \subseteq Privileges /\ s \in MaybeBundles
  BY <1>0, <1>1, <1>3, BundleFacts DEF AfAround, BundlesOf, MaybeBundles
<1>5. CASE UNCHANGED <<seedRec, appJob, consent, byUser>>
  BY <1>1, <1>3, <1>5, SameCore DEF AfAround, appCore
<1>6. CASE /\ SeedTaken(a, s) = "skipped"
           /\ seedRec' = [seedRec EXCEPT ![a] = [NotSeeded EXCEPT !.bundle = s, !.result = "skipped"]]
           /\ byUser' = [byUser EXCEPT ![a] = Current(a) # s]
           /\ UNCHANGED <<appJob, consent>>
  <2>1. PICK n : n = NotSeeded /\ n \in SeedRecords
    BY NotSeededTyped
  <2>2. PICK r : r = [n EXCEPT !.bundle = s, !.result = "skipped"]
    OBVIOUS
  <2>3. r \in SeedRecords /\ r.bundle = s /\ r.result = "skipped"
    BY <1>4, <2>1, <2>2 DEF SeedRecords
  <2>4. seedRec' = [seedRec EXCEPT ![a] = r]
    BY <1>6, <2>1, <2>2
  <2>5. AfAround'
    BY <1>1, <1>3, <1>6 DEF AfAround
  <2>6. AfDisk' /\ AfBook' /\ AfFlow'
    BY <1>1, <1>6, <2>3, <2>4 DEF AfInv, AfType, AfDisk, AfBook, AfFlow
  <2>7. AfRec' /\ AfOwn' /\ AfPriv'
    BY <1>1, <1>6 DEF AfInv, AfRec, AfOwn, OwnUsers, AfPriv, Let, Installed, Current
  <2>8. AfJob'
    BY <1>1, <1>6, NoFlowTyped DEF AfJob, Switching, SwitchSteps
  <2>9. AfSeed'
    <3>1. byUser'[a] => Current(a) # s
      BY <1>3, <1>6 DEF AfAround
    <3>2. seedRec'[a] = r /\ \A c \in Apps \ {a} : seedRec'[c] = seedRec[c] /\ byUser'[c] = byUser[c]
      BY <1>3, <1>6, <2>4 DEF AfBook, AfAround
    <3> QED BY <1>1, <1>6, <2>3, <3>1, <3>2, NoFlowTyped DEF AfInv, AfSeed, Installed, Current
  <2>10. AfWhole'
    BY <1>1, <1>6, SameStage, SameWhole DEF SameApp, AfInv, AfWhole
  <2> QED BY <2>5, <2>6, <2>7, <2>8, <2>9, <2>10 DEF AfInv, AfType
<1>7. ASSUME NEW what \in {"install", "upgrade"}, SeedTaken(a, s) = what,
             consent' = [consent EXCEPT ![a] = @ \union s.asks],
             Unpacking(what, s, "image"), UNCHANGED <<seedRec, byUser>>
      PROVE  AfInv'
  <2>1. /\ consent' \in [Apps -> SUBSET Privileges] /\ \A c \in Apps : consent[c] \subseteq consent'[c]
        /\ s.asks \subseteq consent'[a]
    BY <1>3, <1>4, <1>7 DEF AfAround
  <2>2. AfAround'
    BY <1>1, <1>3, <1>7, <2>1 DEF AfAround
  <2>3. appJob'.app = a /\ appJob' # NoFlow
    BY <1>4, <1>7, UnpackingFlow
  <2>4. Started(a)
    BY <1>1, <1>7, <2>1, <2>3 DEF Started
  <2>5. Let(a, s)'
    BY <2>1 DEF Let
  <2>6. PICK had : had = seedRec[a] /\ had.tries \in 0..SEED_TRIES
    BY <1>3 DEF AfBook, SeedRecords
  <2>7. CASE what = "install"
    BY <1>7, <2>6, <2>7, <1>4, BundleFacts, <2>2, <2>4, <2>5, UnpackingBegins DEF SeedTaken, NotSeeded,
       AfInv, AfSeed, SEED_TRIES
  <2>8. CASE what = "upgrade"
    BY <1>7, <2>6, <2>8, <1>4, <2>2, <2>4, <2>5, UnpackingBegins DEF SeedTaken, AfInv, AfSeed, SEED_TRIES
  <2> QED BY <2>7, <2>8
<1> QED BY <1>2, <1>5, <1>6, <1>7

\* What runs once the units of an app are started or stopped.
LEMMA AfActOnApp == ASSUME AfInv, NEW a \in Apps, ActOnApp(a) PROVE AfInv'
<1> DEFINE units == {u \in appDirs[a][Current(a).version].units : unitText[a][u] # NoBundle}
<1>1. /\ Installed(a)
      /\ harmed' = [harmed EXCEPT ![a] = @ \/ Job.app = a]
      /\ UNCHANGED <<appBook, appDirs, appLink, unitText, passwd, dataOf, appOutside, toSeed, appJob, appSeen>>
      /\ \/ unitRuns' = [unitRuns EXCEPT ![a] = StartedUnits(a, units)]
         \/ unitRuns' = [unitRuns EXCEPT ![a] = [u \in AppUnits |-> IF u \in units THEN NoBundle ELSE unitRuns[a][u]]]
  BY DEF AfInv, AfType, AfDisk, ActOnApp
<1> HIDE DEF units
<1>2. AfAround /\ AfBook /\ AfDisk
  BY DEF AfInv, AfType
<1>3. PICK f : unitRuns' = [unitRuns EXCEPT ![a] = f] /\ f \in [AppUnits -> MaybeBundles]
               /\ \A u \in AppUnits : \/ f[u] \in {unitRuns[a][u], NoBundle}
                                      \/ u \in units /\ appLink[a] # 0 /\ f[u] = appDirs[a][appLink[a]]
  <2>1. CASE unitRuns' = [unitRuns EXCEPT ![a] = StartedUnits(a, units)]
    <3>1. \A u \in AppUnits : /\ StartedUnits(a, units)[u] \in MaybeBundles
                              /\ \/ StartedUnits(a, units)[u] = unitRuns[a][u]
                                 \/ u \in units /\ appLink[a] # 0 /\ StartedUnits(a, units)[u] = appDirs[a][appLink[a]]
      BY <1>2 DEF AfDisk, StartedUnits, MaybeVersions
    <3>2. StartedUnits(a, units) \in [AppUnits -> MaybeBundles]
      BY <3>1 DEF StartedUnits
    <3> QED BY <2>1, <3>1, <3>2
  <2>2. CASE unitRuns' = [unitRuns EXCEPT ![a] = [u \in AppUnits |-> IF u \in units THEN NoBundle ELSE unitRuns[a][u]]]
    <3> DEFINE g == [u \in AppUnits |-> IF u \in units THEN NoBundle ELSE unitRuns[a][u]]
    <3>1. g \in [AppUnits -> MaybeBundles] /\ \A u \in AppUnits : g[u] \in {unitRuns[a][u], NoBundle}
      BY <1>2, NoBundleMaybe DEF AfDisk
    <3> HIDE DEF g
    <3> QED BY <2>2, <3>1 DEF g
  <2> QED BY <1>1, <2>1, <2>2
<1>4. AfAround'
  BY <1>1, <1>2 DEF AfAround
<1>5. AfDisk' /\ AfBook' /\ AfFlow'
  BY <1>1, <1>2, <1>3 DEF AfInv, AfType, AfDisk, AfBook, AfFlow
<1>6. AfRec' /\ AfOwn' /\ AfSeed'
  BY <1>1 DEF AfInv, AfRec, AfOwn, AfSeed, OwnUsers, Installed, Current
<1>7. AfJob'
  BY <1>1 DEF AfInv, AfJob
<1>8. AfPriv'
  BY <1>1, <1>2, BundleFacts, <1>3 DEF Let, AfInv, AfPriv, AfDisk, MaybeVersions
<1>9. AfWhole'
  <2> SUFFICES ASSUME NEW c \in Apps, ~harmed'[c]
               PROVE  IF appJob'.app = c THEN Stage(c)' ELSE WholeApp(c)'
    BY DEF AfWhole
  <2>1. CASE c # a
    BY <1>1, <1>2, <1>3, <2>1, SameStage, SameWhole DEF SameApp, AfDisk, AfAround, AfInv, AfWhole
  <2>2. CASE c = a
    <3>1. ~harmed[a] /\ appJob.app # a
      BY <1>1, <1>2, <2>2 DEF AfAround
    <3>2. WholeApp(a)
      BY <3>1 DEF AfInv, AfWhole
    <3>3. unitRuns'[a] = f
      BY <1>2, <1>3 DEF AfDisk
    <3>4. appDirs[a][Current(a).version] = Current(a) /\ appLink[a] = Current(a).version
      BY <1>1, <3>2 DEF WholeApp, DirsOf
    <3>5. \A u \in AppUnits : f[u] \in {NoBundle, Mine(Current(a), u)}
      BY <1>3, <3>2, <3>4 DEF WholeApp, RunsOf, Mine, units
    <3>6. RunsOf(a, Current(a))'
      BY <1>1, <3>3, <3>5 DEF RunsOf, Current
    <3>7. WholeApp(a)'
      BY <1>1, <3>2, <3>6 DEF WholeApp, Texts, DirsOf, OwnsData, Installed, Current
    <3> QED BY <1>1, <2>2, <3>1, <3>7
  <2> QED BY <2>1, <2>2
<1> QED BY <1>4, <1>5, <1>6, <1>7, <1>8, <1>9 DEF AfInv, AfType

LEMMA AfMicadDies == ASSUME AfInv, MicadDies PROVE AfInv'
<1>1. /\ harmed' = IF appJob = NoFlow THEN harmed ELSE [harmed EXCEPT ![appJob.app] = TRUE]
      /\ appJob' = NoFlow
      /\ toSeed' = {a \in Apps : seedOf[a] # NoBundle}
      /\ UNCHANGED <<appBook, appDisk, appOutside, appSeen>>
  BY DEF MicadDies
<1>2. AfAround /\ AfFlow
  BY DEF AfInv, AfType
<1>3. harmed' \in [Apps -> BOOLEAN] /\ \A c \in Apps : ~harmed'[c] => ~harmed[c] /\ appJob.app # c
  BY <1>1, <1>2, NoFlowTyped, BundleFacts DEF AfAround, AfFlow
<1>4. AfAround'
  BY <1>1, <1>2, <1>3 DEF AfAround
<1>5. AfDisk' /\ AfBook' /\ AfFlow'
  BY <1>1, NoFlowTyped DEF AfInv, AfType, AfDisk, AfBook, AfFlow
<1>6. AfRec' /\ AfOwn' /\ AfSeed'
  BY <1>1, NoFlowTyped DEF AfInv, AfRec, AfOwn, AfSeed, OwnUsers, Installed, Current
<1>7. AfJob'
  BY <1>1, NoFlowTyped DEF AfJob, Switching, SwitchSteps
<1>8. AfPriv'
  BY <1>1 DEF AfInv, AfPriv, Let
<1>9. AfWhole'
  BY <1>1, SameWhole, <1>3, NoFlowTyped, BundleFacts DEF SameApp, AfInv, AfWhole
<1> QED BY <1>4, <1>5, <1>6, <1>7, <1>8, <1>9 DEF AfInv, AfType

LEMMA AfDeviceBoots == ASSUME AfInv, DeviceBoots PROVE AfInv'
<1>1. /\ appJob = NoFlow
      /\ toSeed' = {a \in Apps : seedOf'[a] # NoBundle}
      /\ unitRuns' = [a \in Apps |-> [u \in AppUnits |->
             IF unitText[a][u] # NoBundle /\ appLink[a] # 0 THEN appDirs[a][appLink[a]] ELSE NoBundle]]
      /\ UNCHANGED <<appBook, appDirs, appLink, unitText, passwd, dataOf, offered, harmed, appJob, appSeen>>
  BY DEF DeviceBoots, Begin
<1>2. PICK a, s : a \in Apps /\ s \in BundlesOf(a) /\ seedOf' = [seedOf EXCEPT ![a] = s]
  BY DEF DeviceBoots
<1>3. AfAround /\ AfDisk
  BY DEF AfInv, AfType
<1>4. seedOf' \in [Apps -> MaybeBundles] /\ \A c \in Apps : seedOf'[c] \in BundlesOf(c) \union {NoBundle}
  BY <1>2, <1>3 DEF AfAround, BundlesOf, MaybeBundles
<1>5. AfAround'
  BY <1>1, <1>3, <1>4 DEF AfAround
<1>6. \A c \in Apps, u \in AppUnits :
        \/ unitRuns'[c][u] = NoBundle
        \/ /\ unitText[c][u] # NoBundle /\ appLink[c] # 0
           /\ unitRuns'[c][u] = appDirs[c][appLink[c]]
  BY <1>1
<1>7. \A c \in Apps : appLink[c] # 0 => appLink[c] \in BundleVersions
  BY <1>3 DEF AfDisk, MaybeVersions
<1>8. unitRuns' \in [Apps -> [AppUnits -> MaybeBundles]]
  BY <1>3, <1>6, <1>7, NoBundleMaybe, <1>1 DEF AfDisk
<1>9. AfDisk' /\ AfBook' /\ AfFlow'
  BY <1>1, <1>8 DEF AfInv, AfType, AfDisk, AfBook, AfFlow
<1>10. AfRec' /\ AfOwn' /\ AfSeed'
  BY <1>1 DEF AfInv, AfRec, AfOwn, AfSeed, OwnUsers, Installed, Current
<1>11. AfJob'
  BY <1>1 DEF AfInv, AfJob
<1>12. AfPriv'
  BY <1>1, BundleFacts, <1>6, <1>7 DEF Let, AfInv, AfPriv
<1>13. AfWhole'
  <2> SUFFICES ASSUME NEW c \in Apps, ~harmed'[c]
               PROVE  IF appJob'.app = c THEN Stage(c)' ELSE WholeApp(c)'
    BY DEF AfWhole
  <2>1. WholeApp(c) /\ appJob'.app # c
    BY <1>1, NoFlowTyped, BundleFacts DEF AfInv, AfWhole
  <2>2. appLink[c] # 0 => appDirs[c][appLink[c]] = Current(c)
    BY <2>1, BundleFacts DEF WholeApp, DirsOf, Installed, Current, NotInstalled
  <2>3. \A u \in AppUnits : unitRuns'[c][u] \in {NoBundle, Mine(Current(c), u)}
    BY <1>6, <2>1, <2>2 DEF WholeApp, Texts, Mine
  <2>4. RunsOf(c, Current(c))'
    BY <1>1, <2>3 DEF RunsOf, Current
  <2>5. WholeApp(c)'
    BY <1>1, <2>1, <2>4 DEF WholeApp, Texts, DirsOf, OwnsData, Installed, Current
  <2> QED BY <2>1, <2>5
<1> QED BY <1>5, <1>9, <1>10, <1>11, <1>12, <1>13 DEF AfInv, AfType

LEMMA AfVersionFileChanges == ASSUME AfInv, NEW a \in Apps, VersionFileChanges(a) PROVE AfInv'
  BY SameCore DEF VersionFileChanges, appCore, AfInv, AfType, AfAround, BundlesOf, MaybeBundles

LEMMA AfStarts == AppInit => AfInv
<1> SUFFICES ASSUME AppInit PROVE AfInv
  OBVIOUS
<1> USE DEF AppInit
<1>1. NotInstalled \in AppRecords /\ NotSeeded \in SeedRecords
  <2>1. NoBundle \in MaybeBundles /\ NoBundle.build = 0
    BY DEF NoBundle, MaybeBundles
  <2>2. 0 \in MaybeBuilds
    BY <2>1 DEF MaybeBuilds
  <2>3. NothingAsked \in Asked
    BY <2>2 DEF NothingAsked, Asked, MaybeVersions
  <2> QED BY <2>1, <2>3, NotSeededTyped DEF NotInstalled, AppRecords, MaybeVersions
<1>2. AfDisk
  BY NoBundleMaybe, UidsNat DEF AfDisk, MaybeVersions
<1>3. AfBook
  BY <1>1, UidsNat DEF AfBook
<1>4. AfAround
  BY NoBundleMaybe DEF AfAround, MaybeVersions
<1>5. AfFlow
  BY NoFlowTyped DEF AfFlow
<1>6. AfRec
  BY DEF AfRec, Installed
<1>7. AfJob
  BY NoFlowTyped DEF AfJob, Switching, SwitchSteps
<1>8. AfOwn
  BY DEF AfOwn, OwnUsers
<1>9. AfPriv
  BY BundleFacts DEF AfPriv, Let
<1>10. AfSeed
  BY NoFlowTyped DEF AfSeed
<1>11. AfWhole
  BY NoFlowTyped, BundleFacts DEF AfWhole, Installed, Current, NotInstalled, WholeApp, Texts, RunsOf, Mine,
     DirsOf, OwnsData
<1> QED BY <1>2, <1>3, <1>4, <1>5, <1>6, <1>7, <1>8, <1>9, <1>10, <1>11 DEF AfInv, AfType

\* A step fails that the flow does not go back from: things are missing, and said to be.
LEMMA AfBroken ==
  ASSUME AfInv, appJob.at # "idle", Broken, AfFlow', AfJob', AfDisk',
         \/ appJob' = NoFlow
         \/ /\ appJob' # NoFlow /\ appJob'.app = appJob.app /\ appJob'.to = appJob.to
            /\ appJob'.from = appJob.from /\ appJob'.gone = appJob.gone /\ appJob'.uid = appJob.uid
            /\ appJob'.hands = appJob.hands,
         \A c \in Apps : /\ passwd'[c] \in {passwd[c], 0}
                         /\ \A v \in BundleVersions : appDirs'[c][v] \in {appDirs[c][v], NoBundle}
                         /\ \A u \in AppUnits : unitRuns'[c][u] \in {unitRuns[c][u], NoBundle},
         \A c \in Apps \ {appJob.app} : SameApp(c)
  PROVE  AfInv'
<1>0. PICK a : a = appJob.app
  OBVIOUS
<1>a. AfFlow /\ a \in Apps /\ appJob # NoFlow /\ AfAround /\ AfBook
  BY <1>0, FlowRuns DEF AfInv, AfType
<1>m. /\ appRec' = appRec /\ appUid' = appUid /\ seedRec' = seedRec /\ consent' = consent /\ byUser' = byUser
      /\ handTurn' = handTurn /\ handSaid' = handSaid /\ toSeed' = toSeed
      /\ offered' = offered /\ seedOf' = seedOf
      /\ harmed' = [harmed EXCEPT ![a] = TRUE]
  BY <1>0 DEF Broken
<1>2. AfBook' /\ AfAround'
  BY <1>a, <1>m DEF AfBook, AfAround
<1>3. AfRec' /\ AfSeed'
  BY <1>a, <1>m, NoFlowTyped DEF AfInv, AfRec, AfSeed, Installed, Current
<1>4. AfOwn'
  BY <1>a, <1>m DEF AfInv, AfOwn, OwnUsers
<1>5. AfPriv'
  BY <1>a, <1>m, BundleFacts DEF AfInv, AfPriv, Let
<1>6. AfWhole'
  BY <1>0, <1>a, <1>m, NoFlowTyped, WholeStep DEF AfAround, AfInv
<1> QED BY <1>2, <1>3, <1>4, <1>5, <1>6 DEF AfInv, AfType

\* What becomes of the flow is the same kind of flow.
LEMMA AfJobEnds ==
  ASSUME AfInv, appJob.at # "idle", appJob.op # "remove" \/ appJob.hands # "image", Ending(FALSE), seedRec' = seedRec
  PROVE  AfJob'
<1>1. CASE appJob' = NoFlow
  BY <1>1, NoFlowTyped DEF AfJob, Switching, SwitchSteps
<1>2. CASE appJob' # NoFlow
  <2>1. AfFlow
    BY DEF AfInv, AfType
  <2>2. /\ appJob'.at = "note failed" /\ appJob'.op = appJob.op /\ appJob'.app = appJob.app
        /\ appJob'.hands = appJob.hands /\ appJob'.want = appJob.want
    BY <1>2, <2>1, FlowEnds
  <2>3. appJob.op # "remove"
    BY <1>2 DEF Ending, Job
  <2> QED BY <2>2, <2>3 DEF AfInv, AfJob, Switching, SwitchSteps
<1> QED BY <1>1, <1>2

LEMMA AfLeavesHalfway == ASSUME AfInv, LeavesHalfway PROVE AfInv'
  BY FlowRuns, AfJobEnds, UidsNat, FlowEnds, AfBroken DEF AfInv, AfType, LeavesHalfway, AfJob, Broken,
     AfDisk, SameApp

LEMMA AfTearDownFails == ASSUME AfInv, TearDownFails PROVE AfInv'
<1>0. PICK a : a = appJob.app
  OBVIOUS
<1>1. AfFlow /\ AfDisk /\ appJob.at = "tear down" /\ a \in Apps
  BY <1>0, FlowRuns DEF AfInv, AfType, TearDownFails, JobAt
<1>2. "clear" \in FlowSteps \ {"idle"}
  BY DEF FlowSteps
<1>d. /\ AfFlow' /\ appJob' # NoFlow /\ appJob'.at = "clear"
      /\ appJob'.op = appJob.op /\ appJob'.app = appJob.app /\ appJob'.to = appJob.to
      /\ appJob'.from = appJob.from /\ appJob'.gone = appJob.gone /\ appJob'.uid = appJob.uid
      /\ appJob'.back = appJob.back /\ appJob'.hands = appJob.hands /\ appJob'.want = appJob.want
  BY <1>1, <1>2, FlowGoes DEF TearDownFails
<1>3. AfJob'
  BY <1>1, <1>d DEF AfInv, AfJob, Switching, SwitchSteps, TearDownFails, Broken
<1>3a. PICK s1 \in SUBSET appJob.from.units, s2 \in SUBSET appJob.from.units :
        /\ unitRuns' = [unitRuns EXCEPT ![Job.app] = [u \in AppUnits |-> IF u \in s1 THEN NoBundle ELSE @[u]]]
        /\ unitText' = [unitText EXCEPT ![Job.app] = [u \in AppUnits |-> IF u \in s2 THEN NoBundle ELSE @[u]]]
  BY Zenon DEF TearDownFails
<1>4. /\ unitRuns' = [unitRuns EXCEPT ![a] = [u \in AppUnits |-> IF u \in s1 THEN NoBundle ELSE unitRuns[a][u]]]
      /\ unitText' = [unitText EXCEPT ![a] = [u \in AppUnits |-> IF u \in s2 THEN NoBundle ELSE unitText[a][u]]]
  BY <1>0, <1>3a
<1>5. AfDisk'
  <2>1. /\ [u \in AppUnits |-> IF u \in s1 THEN NoBundle ELSE unitRuns[a][u]] \in [AppUnits -> MaybeBundles]
        /\ [u \in AppUnits |-> IF u \in s2 THEN NoBundle ELSE unitText[a][u]] \in [AppUnits -> MaybeBundles]
    BY <1>1, NoBundleMaybe DEF AfDisk
  <2>2. unitRuns' \in [Apps -> [AppUnits -> MaybeBundles]] /\ unitText' \in [Apps -> [AppUnits -> MaybeBundles]]
    BY <1>1, <1>4, <2>1 DEF AfDisk
  <2> QED BY <1>1, <2>2 DEF AfDisk, TearDownFails
<1>6. \A c \in Apps, u \in AppUnits : unitRuns'[c][u] \in {unitRuns[c][u], NoBundle}
  BY <1>1, <1>4 DEF AfDisk
<1>7. \A c \in Apps \ {appJob.app} : SameApp(c)
  BY <1>0, <1>1, <1>4 DEF TearDownFails, Broken, SameApp, AfDisk
<1> QED BY <1>0, <1>1, <1>d, <1>3, <1>5, <1>6, <1>7, AfBroken DEF TearDownFails

LEMMA AfClearFails == ASSUME AfInv, ClearFails PROVE AfInv'
<1>0. PICK a : a = appJob.app
  OBVIOUS
<1>1. AfFlow /\ AfDisk /\ appJob.at = "clear" /\ a \in Apps
  BY <1>0, FlowRuns DEF AfInv, AfType, ClearFails, JobAt
<1>2. appJob.op # "remove" \/ appJob.hands # "image"
  BY DEF AfInv, AfJob
<1>3. AfJob'
  BY <1>1, <1>2, AfJobEnds DEF ClearFails, Broken
<1>4. PICK kept \in SUBSET BundleVersions :
        appDirs' = [appDirs EXCEPT ![a] = [v \in BundleVersions |-> IF v \in kept THEN appDirs[a][v] ELSE NoBundle]]
  BY <1>0 DEF ClearFails
<1>5. /\ passwd' \in {passwd, [passwd EXCEPT ![a] = 0]} /\ appLink' \in {appLink, [appLink EXCEPT ![a] = 0]}
  BY <1>0 DEF ClearFails
<1>6. AfDisk' /\ \A c \in Apps : passwd'[c] \in {passwd[c], 0}
  <2>1. [v \in BundleVersions |-> IF v \in kept THEN appDirs[a][v] ELSE NoBundle] \in [BundleVersions -> MaybeBundles]
    BY <1>1, NoBundleMaybe DEF AfDisk
  <2>2. appDirs' \in [Apps -> [BundleVersions -> MaybeBundles]]
    BY <1>1, <1>4, <2>1 DEF AfDisk
  <2>3. appLink' \in [Apps -> MaybeVersions]
    BY <1>1, <1>5 DEF AfDisk, MaybeVersions
  <2>4. passwd' \in [Apps -> Uids] /\ \A c \in Apps : passwd'[c] \in {passwd[c], 0}
    BY <1>1, <1>5, UidsNat DEF AfDisk
  <2> QED BY <1>1, <2>2, <2>3, <2>4 DEF AfDisk, ClearFails
<1>7. \A c \in Apps, v \in BundleVersions : appDirs'[c][v] \in {appDirs[c][v], NoBundle}
  BY <1>1, <1>4 DEF AfDisk
<1>8. \A c \in Apps \ {appJob.app} : SameApp(c)
  BY <1>0, <1>1, <1>4, <1>5 DEF ClearFails, Broken, SameApp, AfDisk
<1> QED BY <1>0, <1>1, <1>3, <1>6, <1>7, <1>8, FlowEnds, AfBroken DEF ClearFails

LEMMA AfKept == ASSUME AfInv, [AppNext]_appVars PROVE AfInv'
<1>1. CASE UNCHANGED appVars
  BY <1>1, SameCore DEF appVars, appCore, AfInv, AfType, AfAround
<1>2. CASE InstallApp
  BY <1>2, AfInstallApp
<1>3. ASSUME NEW a \in Apps, NEW accept, UpdateByHand(a, accept) PROVE AfInv'
  BY <1>3, AfFetchUpdate DEF UpdateByHand
<1>4. ASSUME NEW a \in Apps, UpdateNothingNewer(a) PROVE AfInv'
  BY <1>4, SameCore DEF UpdateNothingNewer, appCore, AfInv, AfType, AfAround
<1>5. ASSUME NEW a \in Apps, UpdateDaily(a) PROVE AfInv'
  BY <1>5, AfFetchUpdate DEF UpdateDaily
<1>6. ASSUME NEW a \in Apps, RollbackApp(a) \/ RemoveApp(a) \/ TakeSeed(a) PROVE AfInv'
  BY <1>6, AfRollbackApp, AfRemoveApp, AfTakeSeed
<1>7. ASSUME NEW a \in Apps, ActOnApp(a) \/ VersionFileChanges(a) PROVE AfInv'
  BY <1>7, AfActOnApp, AfVersionFileChanges
<1>8. CASE UnpackFails \/ MoveAside \/ MoveIn \/ NameAccount \/ StopUnits \/ InstallUnits
  BY <1>8, AfUnpackFails, AfMoveAside, AfMoveIn, AfNameAccount, AfStopUnits, AfInstallUnits
<1>9. CASE DropUnits \/ PointCurrent \/ RunHook \/ StartUnits \/ PruneVersions \/ WriteRecord \/ SwitchFails
  BY <1>9, AfDropUnits, AfPointCurrent, AfRunHook, AfStartUnits, AfPruneVersions, AfWriteRecord, AfSwitchFails
<1>10. CASE SwitchBackFails \/ RecordFailure \/ TearDown \/ ClearApp \/ ForgetApp \/ NoteOutcome
  BY <1>10, AfSwitchBackFails, AfRecordFailure, AfTearDown, AfClearApp, AfForgetApp, AfNoteOutcome
<1>11. CASE LeavesHalfway \/ TearDownFails \/ ClearFails \/ MicadDies \/ DeviceBoots
  BY <1>11, AfLeavesHalfway, AfTearDownFails, AfClearFails, AfMicadDies, AfDeviceBoots
<1> QED BY <1>1, <1>2, <1>3, <1>4, <1>5, <1>6, <1>7, <1>8, <1>9, <1>10, <1>11 DEF AppNext

LEMMA AfSafe == AfInv => AppsSafe
<1> SUFFICES ASSUME AfInv PROVE AppsSafe
  OBVIOUS
<1>1. AppTypeOK
  BY AppsFinite DEF AfInv, AfType, AfBook, AppRecords, SeedRecords, AfDisk, Uids, AfFlow, Flows, AppTypeOK,
     MaybeBundles
<1>2. NoPrivilegeUnasked
  BY DEF AfInv, AfPriv, Let, NoPrivilegeUnasked
<1>3. OwnUsers
  BY DEF AfInv, AfOwn
<1>4. InstalledWhole
  BY DEF InstalledWhole, AfInv, AfWhole, WholeApp, Texts, RunsOf, Mine, DirsOf, OwnsData
<1> QED BY <1>1, <1>2, <1>3, <1>4 DEF AppsSafe

\* Through seeds, installs, updates, rollbacks and removals, each failing or dying at any
\* step: no app runs with a privilege that neither the user nor the image let it have, no
\* two have one account, and one whose flows ended or went back undisturbed is whole as
\* recorded: its link, directories, units and data (apps/flow.rs install, rollback;
\* Apps::account). The steps the code does not go back from are excepted by name.
THEOREM AppsAreSafe == AppSpec => []AppsSafe
<1>1. AfInv /\ [AppNext]_appVars => AfInv'
  BY AfKept
<1> QED BY <1>1, AfStarts, AfSafe, PTL DEF AppSpec

LEMMA SeedStep ==
  ASSUME AfInv, AppNext, appJob.hands = "image", NEW a \in Apps,
         appRec'[a].current # appRec[a].current
  PROVE  ~byUser[a]
<1>1. appJob # NoFlow /\ appJob.op # "remove" /\ ~byUser[appJob.app] /\ appRec \in [Apps -> AppRecords]
  BY NoFlowTyped DEF AfInv, AfType, AfJob, AfSeed, AfBook
<1>2. ~ (InstallApp \/ DeviceBoots)
  BY <1>1 DEF InstallApp, DeviceBoots, Begin
<1>3. ASSUME NEW c \in Apps PROVE ~ (TakeSeed(c) \/ RollbackApp(c) \/ RemoveApp(c) \/ UpdateNothingNewer(c))
  BY <1>1 DEF TakeSeed, RollbackApp, RemoveApp, UpdateNothingNewer, Begin
<1>4. ASSUME NEW c \in Apps, NEW u, NEW k PROVE ~FetchUpdate(c, u, k)
  BY <1>1 DEF FetchUpdate, Begin
<1>5. ~ForgetApp
  BY <1>1 DEF ForgetApp, JobAt, AfInv, AfJob
<1>6. appRec' # appRec
  OBVIOUS
<1>7. ~ (UnpackFails \/ MoveAside \/ MoveIn \/ NameAccount \/ StopUnits \/ InstallUnits \/ DropUnits)
  BY <1>6 DEF UnpackFails, MoveAside, MoveIn, NameAccount, StopUnits, InstallUnits, DropUnits, OnDisk
<1>8. ~ (PointCurrent \/ RunHook \/ StartUnits \/ PruneVersions \/ SwitchFails \/ SwitchBackFails)
  BY <1>6 DEF PointCurrent, RunHook, StartUnits, PruneVersions, SwitchFails, SwitchBackFails, OnDisk
<1>9. ~ (RecordFailure \/ TearDown \/ ClearApp \/ NoteOutcome \/ MicadDies \/ LeavesHalfway \/ TearDownFails \/ ClearFails)
  BY <1>6 DEF RecordFailure, TearDown, ClearApp, NoteOutcome, MicadDies, LeavesHalfway, TearDownFails, ClearFails,
     Broken, OnDisk
<1>10. ASSUME NEW c \in Apps PROVE ~ (ActOnApp(c) \/ VersionFileChanges(c))
  BY <1>6 DEF ActOnApp, VersionFileChanges
<1>11. WriteRecord
  BY <1>2, <1>3, <1>4, <1>5, <1>7, <1>8, <1>9, <1>10 DEF AppNext, UpdateByHand, UpdateDaily
<1>12. a = appJob.app
  BY <1>1, <1>11 DEF WriteRecord
<1> QED BY <1>1, <1>12

\* A seed of the image does not replace what the user made of the app since one was taken,
\* whatever came between the seed's check and its record (Apps::seed_one).
THEOREM SeedsSpareTheUser == AppSpec => SeedSparesUser
<1> DEFINE Spares == \A a \in Apps : appRec'[a].current # appRec[a].current /\ appJob.hands = "image"
                                       => ~byUser[a]
<1>1. AfInv /\ [AppNext]_appVars => AfInv' /\ [Spares]_appVars
  BY AfKept, SeedStep
<1> QED BY <1>1, AfStarts, PTL DEF AppSpec, SeedSparesUser
-----------------------------------------------------------------------------
(***************************************************************************)
(* The loader and its receipt, where a loader is a run of sectors: on a    *)
(* disk that holds the boot records too, or in an eMMC boot partition.     *)
(***************************************************************************)

FwIsRaw == fwPolicy.target.format \in {"range", "emmc"}
FwCells == (Versions \cup {"blank", "record"}) \X Nat
FwJobs ==
  [at : {"idle", "read", "compare"}, of : Versions \cup {NoVersion}, record : BOOLEAN, offset : Nat,
   data : Seq(FwCells), touched : BOOLEAN]

FwTypes ==
  /\ fwPolicy \in FwPolicies /\ fwPhase \in {"policy", "booted", "refused"}
  /\ fwMedium \in [0..(FwSize - 1) -> FwCells] /\ fwJob \in FwJobs
  /\ fwReceipt \in Versions \cup {NoVersion} /\ fwTouched \in BOOLEAN
  /\ fwPhase = "booted" => PolicyValid(fwPolicy)

\* A loader in the sectors of the target, whatever their number.
FwHolds(v) ==
  /\ fwPolicy.target.offset + FwLength[v] <= FwSize
  /\ \A i \in 1..FwLength[v] : fwMedium[fwPolicy.target.offset + i - 1] = <<v, i>>
FwFits(v) == v \in Versions /\ fwPhase = "booted" /\ FwLength[v] <= Limit(fwPolicy.target)

\* What is read fits; what was read and is the loader is still there, and so is what the receipt names.
FwTrue ==
  /\ fwJob.at # "idle" => FwFits(fwJob.of)
  /\ fwJob.at = "compare" /\ fwJob.data = Loader(fwJob.of) /\ ~fwJob.touched => FwHolds(fwJob.of)
  /\ fwReceipt # NoVersion => FwFits(fwReceipt)
  /\ fwReceipt # NoVersion /\ ~fwTouched => FwHolds(fwReceipt)
FwRecords ==
  fwPolicy.target.format = "range" => \A a \in CopySectors(fwPolicy) : fwMedium[a] = RecordSector
FwInv == FwIsRaw => FwTypes /\ FwTrue /\ FwRecords

\* A copy of the records is in the medium.
LEMMA FwCopies ==
  ASSUME NEW p \in FwPolicies
  PROVE  /\ \A c \in Copies(p) : c \in Nat /\ c + FwEnv <= FwSize
         /\ \A a \in CopySectors(p) : a \in 0..(FwSize - 1)
  BY FirmwareAssumption DEF Copies, CopySectors

\* A valid range is in the medium and clear of both copies.
LEMMA FwClear ==
  ASSUME NEW p \in FwPolicies, PolicyValid(p), p.target.format \in {"range", "emmc"}
  PROVE  /\ Limit(p.target) = p.target.max
         /\ p.target.format = "range" =>
              /\ p.target.offset + p.target.max <= FwSize
              /\ p.target.offset + p.target.max <= p.start + p.sectors
              /\ \A c \in Copies(p) :
                   p.target.offset + p.target.max <= c \/ p.target.offset >= c + FwEnv
  BY FirmwareAssumption DEF PolicyValid, Limit, RangeValid

\* Where a loader lies.
LEMMA FwSectors ==
  ASSUME FwIsRaw
  PROVE  LoaderSectors = [i \in 1..(FwSize - fwPolicy.target.offset) |-> fwPolicy.target.offset + i - 1]
  BY DEF FwIsRaw, LoaderSectors

LEMMA FwRomReads ==
  ASSUME FwIsRaw, FwTypes, NEW v \in Versions, FwHolds(v)
  PROVE  RomReads(v)
<1>1. /\ fwPolicy.target.offset \in Nat /\ FwSize \in Nat /\ FwLength[v] \in Nat
      /\ fwPolicy.target.offset + FwLength[v] <= FwSize
  BY FirmwareAssumption DEF FwTypes, FwHolds, Versions
<1>2. FwSize - fwPolicy.target.offset \in Nat /\ FwLength[v] <= FwSize - fwPolicy.target.offset
  BY <1>1
<1>3. Len(LoaderSectors) = FwSize - fwPolicy.target.offset
  BY <1>2, FwSectors
<1>4. \A i \in 1..FwLength[v] : LoaderSectors[i] = fwPolicy.target.offset + i - 1
  BY <1>1, <1>2, FwSectors
<1> QED BY <1>2, <1>3, <1>4 DEF RomReads, FwHolds

LEMMA FwStarts == FwInit => FwInv
<1> SUFFICES ASSUME FwInit, FwIsRaw PROVE FwTypes /\ FwTrue /\ FwRecords
  BY DEF FwInv
<1>1. /\ Blank \in FwCells /\ RecordSector \in FwCells /\ NoReadback \in FwJobs
      /\ NoReadback.at = "idle"
  BY DEF Blank, RecordSector, FwCells, NoReadback, FwJobs
<1>2. fwMedium \in [0..(FwSize - 1) -> FwCells]
  BY <1>1 DEF FwInit
<1>3. FwRecords
  BY FwCopies DEF FwInit, FwRecords
<1> QED BY <1>1, <1>2, <1>3 DEF FwInit, FwTypes, FwTrue

\* Nothing the invariant speaks of moves but the phase.
LEMMA FwLoaded == ASSUME FwInv, FwIsRaw, LoadPolicy PROVE FwInv'
  BY DEF FwInv, FwIsRaw, LoadPolicy, FwTypes, FwTrue, FwRecords, FwFits, FwHolds

\* A write of the loader stays clear of the records; what it may have broken is marked.
LEMMA FwWritten ==
  ASSUME FwInv, FwIsRaw, NEW v \in Versions, NEW upTo \in 1..FwLength[v], WriteLoader(v, upTo)
  PROVE  FwInv'
<1> DEFINE t == fwPolicy.target
<1>1. /\ FwTypes /\ FwTrue /\ FwRecords /\ fwPolicy \in FwPolicies /\ fwPhase = "booted" /\ PolicyValid(fwPolicy)
      /\ fwPolicy' = fwPolicy /\ fwPhase' = fwPhase /\ fwReceipt' = fwReceipt
      /\ fwTouched' = TRUE /\ fwJob' = [fwJob EXCEPT !.touched = TRUE]
  BY DEF FwInv, FwTypes, WriteLoader, FwEvent
<1>2. /\ FwLength[v] \in Nat /\ upTo \in Nat /\ upTo <= FwLength[v] /\ FwLength[v] <= t.max
      /\ t.offset \in Nat /\ t.max \in Nat /\ FwSize \in Nat /\ FwEnv \in Nat
  BY <1>1, FwClear, FirmwareAssumption DEF WriteLoader, Versions, FwIsRaw
<1>3. fwMedium' \in [0..(FwSize - 1) -> FwCells]
  BY <1>2, <1>1 DEF Blank, FwCells, WriteLoader, FwTypes
<1>4. ASSUME t.format = "range", NEW a \in CopySectors(fwPolicy)
      PROVE  fwMedium'[a] = RecordSector
  <2>1. PICK c \in Copies(fwPolicy) : a \in c..(c + FwEnv - 1)
    BY <1>4 DEF CopySectors
  <2>2. c \in Nat /\ a \in 0..(FwSize - 1) /\ a \in DOMAIN fwMedium /\ fwMedium[a] = RecordSector
    BY <1>1, <1>4, FwCopies DEF FwTypes, FwRecords
  <2>3. t.offset + t.max <= FwSize /\ (t.offset + t.max <= c \/ t.offset >= c + FwEnv)
    BY <1>1, <1>4, FwClear
  <2>4. \A i \in 1..upTo : LoaderSectors[i] = t.offset + i - 1
    BY <1>2, <2>3, FwSectors
  <2>5. {i \in 1..upTo : LoaderSectors[i] = a} = {}
    BY <1>2, <2>1, <2>2, <2>3, <2>4
  <2> QED BY <1>4, <2>2, <2>5 DEF WriteLoader
<1>5. /\ fwJob' \in FwJobs /\ fwJob'.at = fwJob.at /\ fwJob'.of = fwJob.of /\ fwJob'.touched
  BY <1>1 DEF FwTypes, FwJobs
<1>6. FwTypes'
  BY <1>1, <1>3, <1>5 DEF FwTypes
<1>7. FwTrue'
  BY <1>1, <1>5 DEF FwTrue, FwFits
<1>8. FwRecords'
  BY <1>1, <1>4 DEF FwRecords
<1> QED BY <1>6, <1>7, <1>8 DEF FwInv

\* A save of the records stays clear of the loader.
LEMMA FwSaved == ASSUME FwInv, FwIsRaw, NEW c \in Copies(fwPolicy), SaveRecord(c) PROVE FwInv'
<1> DEFINE t == fwPolicy.target
<1>1. /\ FwTypes /\ FwTrue /\ FwRecords /\ fwPolicy \in FwPolicies /\ fwPhase = "booted" /\ PolicyValid(fwPolicy)
      /\ fwPolicy' = fwPolicy /\ fwPhase' = fwPhase /\ fwReceipt' = fwReceipt
      /\ fwTouched' = fwTouched /\ fwJob' = fwJob /\ t.format = "range"
  BY DEF FwInv, FwTypes, SaveRecord, FwEvent
<1>2. /\ c \in Nat /\ c + FwEnv <= FwSize /\ Limit(t) = t.max /\ t.offset \in Nat /\ t.max \in Nat
      /\ t.offset + t.max <= FwSize /\ (t.offset + t.max <= c \/ t.offset >= c + FwEnv)
      /\ FwEnv \in Nat /\ FwSize \in Nat
  BY <1>1, FwCopies, FwClear, FirmwareAssumption
<1>3. /\ RecordSector \in FwCells
      /\ fwMedium' = [a \in 0..(FwSize - 1) |-> IF a \in c..(c + FwEnv - 1) THEN RecordSector ELSE fwMedium[a]]
  BY <1>1 DEF RecordSector, FwCells, SaveRecord, FwTypes
<1>4. ASSUME NEW v, FwFits(v), FwHolds(v) PROVE FwHolds(v)'
  <2>1. FwLength[v] \in Nat /\ FwLength[v] <= t.max
    BY <1>2, <1>4, FirmwareAssumption DEF FwFits, Versions
  <2>2. ASSUME NEW i \in 1..FwLength[v] PROVE fwMedium'[t.offset + i - 1] = <<v, i>>
    <3>1. t.offset + i - 1 \in 0..(FwSize - 1) /\ t.offset + i - 1 \notin c..(c + FwEnv - 1)
      BY <1>2, <2>1
    <3> QED BY <1>3, <1>4, <3>1 DEF FwHolds
  <2> QED BY <1>1, <1>4, <2>2 DEF FwHolds
<1>5. FwTypes'
  BY <1>1, <1>3 DEF FwTypes
<1>6. FwTrue'
  BY <1>1, <1>4 DEF FwFits, FwTrue
<1>7. FwRecords'
  BY <1>1, <1>3, FwCopies DEF FwRecords
<1> QED BY <1>5, <1>6, <1>7 DEF FwInv

LEMMA FwAdmitted ==
  ASSUME FwInv, FwIsRaw, NEW v \in Versions, NEW t, NEW record \in BOOLEAN, FirmwareReadback(v, t, record)
  PROVE  FwInv'
<1>1. fwJob' \in FwJobs /\ fwJob'.at = "read" /\ fwJob'.of = v
  <2>1. fwJob' = [at |-> "read", of |-> v, record |-> record, offset |-> 0, data |-> <<>>, touched |-> FALSE]
    BY DEF FirmwareReadback, NoReadback
  <2>2. <<>> \in Seq(FwCells)
    OBVIOUS
  <2> QED BY <2>1, <2>2 DEF FwJobs
<1>2. FwFits(v)
  BY DEF FirmwareReadback, AdmitFirmware, FwFits, FwEvent
<1> QED BY <1>1, <1>2 DEF FirmwareReadback, FwInv, FwIsRaw, FwTypes, FwTrue, FwRecords, FwFits, FwHolds

\* Sectors that are the loader's are as many as it has.
LEMMA FwRead ==
  ASSUME FwTypes, NEW start \in Nat, NEW end \in Nat, NEW from \in Nat, NEW v \in Versions, end <= FwSize,
         start + from = fwPolicy.target.offset
  PROVE  /\ Sectors(start, end, from, FwLength[v]) \in Seq(FwCells)
         /\ Sectors(start, end, from, FwLength[v]) = Loader(v) => FwHolds(v)
<1> DEFINE n == FwLength[v]
           k == IF start + from + n <= end THEN n ELSE IF start + from < end THEN end - start - from ELSE 0
           s == Sectors(start, end, from, n)
<1>1. n \in Nat \ {0} /\ FwSize \in Nat /\ fwMedium \in [0..(FwSize - 1) -> FwCells]
  BY FirmwareAssumption DEF Versions, FwTypes
<1> HIDE DEF n
<1>2. s = [i \in 1..k |-> fwMedium[start + from + i - 1]]
  BY DEF Sectors
<1>3. k \in Nat /\ (k > 0 => start + from + k <= end) /\ (k < n \/ (k = n /\ start + from + n <= end))
  BY <1>1
<1> HIDE DEF k, s
<1>4. \A i \in 1..k : start + from + i - 1 \in 0..(FwSize - 1)
  BY <1>1, <1>3
<1>5. s \in [1..k -> FwCells]
  BY <1>1, <1>2, <1>4
<1>6. s \in Seq(FwCells)
  BY <1>3, <1>5
<1>7. ASSUME s = Loader(v) PROVE FwHolds(v)
  <2>1. DOMAIN s = 1..n /\ DOMAIN s = 1..k
    BY <1>2, <1>7 DEF Loader, n
  <2>2. k = n
    <3>1. n \in 1..k
      <4>1. n \in 1..n
        BY <1>1
      <4> QED BY <2>1, <4>1
    <3> QED BY <1>3, <3>1
  <2>3. \A i \in 1..n : fwMedium[start + from + i - 1] = <<v, i>>
    BY <1>2, <1>7, <2>2 DEF Loader, n
  <2>4. fwPolicy.target.offset + n <= FwSize
    BY <1>1, <1>3, <2>2
  <2> QED BY <2>3, <2>4 DEF FwHolds, n
<1> QED BY <1>6, <1>7 DEF s, n

LEMMA FwVerified == ASSUME FwInv, FwIsRaw, VerifyInstalled PROVE FwInv'
<1> DEFINE v == fwJob.of
           p == fwPolicy
<1>1. /\ FwTypes /\ FwTrue /\ FwRecords /\ p \in FwPolicies /\ FwFits(v) /\ PolicyValid(p)
      /\ fwJob' = [fwJob EXCEPT !.at = "compare", !.data = ReadAtOnce]
      /\ UNCHANGED <<fwPolicy, fwPhase, fwMedium, fwBad, fwReceipt, fwTouched, fwUsed>>
  BY DEF FwInv, FwTypes, FwTrue, FwFits, VerifyInstalled
<1>2. ReadAtOnce \in Seq(FwCells) /\ (ReadAtOnce = Loader(v) => FwHolds(v))
  <2>1. /\ p.target.offset \in Nat /\ p.start \in Nat /\ p.sectors \in Nat /\ p.start + p.sectors <= FwSize
        /\ FwSize \in Nat /\ v \in Versions
    BY <1>1, FirmwareAssumption DEF FwFits
  <2>2. CASE p.target.format = "range" /\ p.target.offset >= p.start
    <3>1. ReadAtOnce = Sectors(p.start, p.start + p.sectors, p.target.offset - p.start, FwLength[v])
      BY <2>2 DEF ReadAtOnce
    <3>2. /\ p.start + p.sectors \in Nat /\ p.target.offset - p.start \in Nat
          /\ p.start + (p.target.offset - p.start) = p.target.offset
      BY <2>1, <2>2
    <3> QED BY <1>1, <2>1, <3>1, <3>2, FwRead
  <2>3. CASE ~(p.target.format = "range" /\ p.target.offset >= p.start)
    <3>1. ReadAtOnce = Sectors(0, FwSize, p.target.offset, FwLength[v])
      BY <2>3 DEF ReadAtOnce, FwIsRaw
    <3>2. 0 \in Nat /\ 0 + p.target.offset = p.target.offset /\ FwSize <= FwSize
      BY <2>1
    <3> QED BY <1>1, <2>1, <3>1, <3>2, FwRead
  <2> QED BY <2>2, <2>3
<1>3. /\ fwJob' \in FwJobs /\ fwJob'.of = v /\ fwJob'.data = ReadAtOnce
  <2>1. PICK j \in FwJobs : j = fwJob
    BY <1>1 DEF FwTypes
  <2> HIDE DEF v
  <2>2. PICK d \in Seq(FwCells) : d = ReadAtOnce
    BY <1>2
  <2>3. /\ [j EXCEPT !.at = "compare", !.data = d] \in FwJobs
        /\ [j EXCEPT !.at = "compare", !.data = d].of = j.of /\ [j EXCEPT !.at = "compare", !.data = d].data = d
    BY DEF FwJobs
  <2> QED BY <1>1, <2>1, <2>2, <2>3 DEF v
<1>4. FwTypes'
  BY <1>1, <1>3 DEF FwTypes
<1>5. FwTrue'
  BY <1>1, <1>2, <1>3 DEF FwTrue, FwFits, FwHolds
<1> QED BY <1>1, <1>4, <1>5 DEF FwInv, FwRecords

LEMMA FwRecorded == ASSUME FwInv, FwIsRaw, CompareAndRecord PROVE FwInv'
  BY DEF NoReadback, FwJobs, FwInv, CompareAndRecord, FwTypes, FwTrue, FwRecords, FwFits, FwHolds

LEMMA FwKept == FwInv /\ [FwNext]_fwVars => FwInv'
<1> SUFFICES ASSUME FwInv, [FwNext]_fwVars PROVE FwInv'
  OBVIOUS
<1>1. fwPolicy' = fwPolicy
  BY DEF FwNext, fwVars, LoadPolicy, WriteLoader, BlockGoesBad, SaveRecord, FirmwareReadback, VerifyInstalled,
         ReadSkippingBad, CompareAndRecord
<1>2. CASE ~FwIsRaw
  BY <1>1, <1>2 DEF FwInv, FwIsRaw
<1>3. CASE FwIsRaw
  <2>1. CASE LoadPolicy
    BY <1>3, <2>1, FwLoaded
  <2>2. ASSUME NEW v \in Versions, NEW upTo \in 1..FwLength[v], WriteLoader(v, upTo) PROVE FwInv'
    BY <1>3, <2>2, FwWritten
  <2>3. ASSUME NEW b, BlockGoesBad(b) PROVE FALSE
    BY <1>3, <2>3 DEF BlockGoesBad, FwIsRaw
  <2>4. ASSUME NEW c, SaveRecord(c) PROVE FwInv'
    BY <2>4, <1>3, FwSaved DEF SaveRecord
  <2>5. ASSUME NEW v \in Versions, NEW t \in Targets, NEW record \in BOOLEAN, FirmwareReadback(v, t, record)
        PROVE  FwInv'
    BY <1>3, <2>5, FwAdmitted
  <2>6. CASE VerifyInstalled
    BY <1>3, <2>6, FwVerified
  <2>7. CASE ReadSkippingBad
    BY <1>3, <2>7 DEF ReadSkippingBad, FwIsRaw
  <2>8. CASE CompareAndRecord
    BY <1>3, <2>8, FwRecorded
  <2>9. CASE UNCHANGED fwVars
    BY <2>9 DEF fwVars, FwInv, FwIsRaw, FwTypes, FwTrue, FwRecords, FwFits, FwHolds
  <2> QED BY <2>1, <2>2, <2>3, <2>4, <2>5, <2>6, <2>7, <2>8, <2>9 DEF FwNext
<1> QED BY <1>2, <1>3

\* For every policy and loader that is a run of sectors: while the loader is not written again, what the boot
\* ROM reads is what the receipt names, and neither loaders nor records reach the other (firmware.rs
\* verify_installed, board.rs validate_gpt).
THEOREM RawReceiptsTell == FwSpec => [](FwIsRaw => ReceiptTells)
<1>1. FwInv => (FwIsRaw => ReceiptTells)
  BY FwRomReads DEF FwInv, FwTypes, FwTrue, FwFits, FwRecords, ReceiptTells
<1> QED BY <1>1, FwStarts, FwKept, PTL DEF FwSpec

-----------------------------------------------------------------------------
(***************************************************************************)
(* The objects of the store.                                               *)
(***************************************************************************)

OvUnits == OvDeployments \cup OvSets
OvRemovals == [o : OvObjects, name : {"held", "writing"}]
OvWritten == {"fill", "sync", "rename", "dir"}
OvJobs ==
  [op : {"none", "install", "set", "gc", "settle"}, unit : OvUnits \cup {"none"}, todo : SUBSET OvObjects,
   doomed : SUBSET OvRemovals, at : {"none", "retain", "remove", "publish"} \cup OvWritten,
   o : OvObjects \cup {"none"}]

OvTypes ==
  /\ ovHeld \in [OvObjects -> {"none", "whole"}]
  /\ ovWriting \in [OvObjects -> {"none", "part", "filled", "whole"}]
  /\ ovNamed \subseteq OvUnits /\ ovRunning \in ovNamed \cap OvDeployments
  /\ ovJob \in OvJobs

\* What an operation is about to remove is nothing that is named once its records are retired, and
\* what it publishes is named by nothing yet.
OvDoomed ==
  /\ \A r \in ovJob.doomed : r.name = "held" =>
        /\ ovJob.at = "retain" => \A u \in (ovNamed \cap OvSets) \cup {ovRunning} : r.o \notin OvOf[u]
        /\ ovJob.at = "remove" => \A u \in ovNamed : r.o \notin OvOf[u]
  /\ ovJob.at \in OvWritten => ovJob.o \in OvObjects /\ \A u \in ovNamed : ovJob.o \notin OvOf[u]
OvFilled ==
  /\ ovJob.at = "rename" => ovWriting[ovJob.o] = "whole"
  /\ ovJob.at = "dir" => ovHeld[ovJob.o] = "whole"
OvTodo ==
  /\ ovJob.op = "install" => ovJob.unit \in OvUnits
  /\ ovJob.op = "install" /\ ovJob.at \in {"retain", "remove"} => OvOf[ovJob.unit] \subseteq ovJob.todo
  /\ ovJob.at = "retain" => ovJob.op = "install"
  /\ ovJob.at \in {"publish"} \cup OvWritten =>
       ovJob.unit \in OvUnits /\ \A o \in OvOf[ovJob.unit] \ ovJob.todo : ovHeld[o] = "whole"

OvInv == OvTypes /\ NamedIsWhole /\ OvDoomed /\ OvFilled /\ OvTodo

LEMMA OvObjectOf == \A u \in OvUnits : OvOf[u] \subseteq OvObjects
  BY DEF OvUnits, OvObjects

LEMMA OvIdleIs == OvIdle \in OvJobs /\ OvIdle.at = "none" /\ OvIdle.op = "none" /\ OvIdle.doomed = {}
  BY DEF OvIdle, OvJobs, OvWritten

LEMMA OvStarts == OvInit => OvInv
  BY OvIdleIs, VolumeAssumption DEF OvInit, OvTypes, OvUnits, NamedIsWhole, ObjectPaths, OvObjects,
     OvDoomed, OvFilled, OvTodo, OvWritten, OvInv

\* The job is over: nothing is removed or published any more.
LEMMA OvEnded ==
  ASSUME OvInv, ovJob' = OvIdle, OvTypes', NamedIsWhole'
  PROVE  OvInv'
  BY OvIdleIs DEF OvInv, OvDoomed, OvFilled, OvTodo, OvWritten

\* A collection spares what it is told to retain, the unit installed, and every set.
LEMMA OvCollects ==
  ASSUME OvTypes, NEW kept \in SUBSET OvDeployments, NEW new \in SUBSET OvDeployments
  PROVE  /\ Collection(kept, new) \subseteq OvRemovals
         /\ \A r \in Collection(kept, new), u \in kept \cup OvSets : r.name = "held" => r.o \notin OvOf[u]
  BY VolumeAssumption DEF Temporary, Final, OvRemovals, ObjectPaths, OvObjects, Collection

LEMMA OvReleases ==
  ASSUME OvTypes, NEW named \in SUBSET OvUnits
  PROVE  /\ ReleaseUnreferenced(named) \subseteq OvRemovals
         /\ \A r \in ReleaseUnreferenced(named), u \in (named \cap OvSets) \cup OvDeployments : r.o \notin OvOf[u]
  BY VolumeAssumption DEF Final, OvRemovals, ObjectPaths, OvObjects, ReleaseUnreferenced

\* An operation begins.
LEMMA OvBegun ==
  ASSUME OvInv, NEW op, NEW u, NEW rest, NEW doomed, NEW at, OvBegins(op, u, rest, doomed, at),
         op \in {"install", "set", "gc", "settle"}, u \in OvUnits \cup {"none"}, rest \in SUBSET OvObjects,
         doomed \in SUBSET OvRemovals, at \in {"retain", "remove", "publish"}
  PROVE  /\ ovJob' \in OvJobs /\ ovJob'.op = op /\ ovJob'.unit = u /\ ovJob'.todo = rest
         /\ ovJob'.doomed = doomed /\ ovJob'.at = at /\ ovJob'.at \notin OvWritten
  BY DEF OvBegins, OvJobs, OvWritten

LEMMA OvInstalls == ASSUME OvInv, NEW d \in OvDeployments, InstallDeployment(d) PROVE OvInv'
<1> DEFINE doomed == Collection({ovRunning}, {d})
<1>1. OvTypes /\ {ovRunning} \in SUBSET OvDeployments /\ d \in OvUnits /\ OvOf[d] \in SUBSET OvObjects
  BY OvObjectOf DEF OvInv, OvTypes, OvUnits
<1>2. /\ doomed \in SUBSET OvRemovals
      /\ \A r \in doomed, u \in {ovRunning} \cup OvSets : r.name = "held" => r.o \notin OvOf[u]
  BY <1>1, OvCollects
<1>3. OvBegins("install", d, OvOf[d], doomed, "retain") /\ UNCHANGED <<ovHeld, ovWriting, ovNamed, ovRunning>>
  BY DEF InstallDeployment
<1> HIDE DEF doomed
<1>4. /\ ovJob' \in OvJobs /\ ovJob'.op = "install" /\ ovJob'.unit = d /\ ovJob'.todo = OvOf[d]
      /\ ovJob'.doomed = doomed /\ ovJob'.at = "retain" /\ ovJob'.at \notin OvWritten
  BY <1>1, <1>2, <1>3, OvBegun
<1> QED BY <1>1, <1>2, <1>3, <1>4 DEF OvInv, OvTypes, NamedIsWhole, OvDoomed, OvFilled, OvTodo

LEMMA OvPublishesSet == ASSUME OvInv, NEW s \in OvSets, PublishSet(s) PROVE OvInv'
  BY OvObjectOf, OvBegun DEF OvUnits, PublishSet, OvInv, OvTypes, NamedIsWhole, OvDoomed, OvFilled, OvTodo,
     OvWritten

LEMMA OvCollectsAll == ASSUME OvInv, Collect PROVE OvInv'
<1> DEFINE kept == (ovNamed \cap OvDeployments) \cup {ovRunning}
           doomed == Collection(kept, {})
<1>1. OvTypes /\ kept \in SUBSET OvDeployments /\ ovNamed \subseteq kept \cup OvSets
  BY DEF OvInv, OvTypes, OvUnits
<1>2. /\ doomed \in SUBSET OvRemovals
      /\ \A r \in doomed, u \in kept \cup OvSets : r.name = "held" => r.o \notin OvOf[u]
  BY <1>1, OvCollects
<1>3. OvBegins("gc", "none", {}, doomed, "remove") /\ UNCHANGED <<ovHeld, ovWriting, ovNamed, ovRunning>>
  BY DEF Collect
<1> HIDE DEF doomed
<1>4. /\ ovJob' \in OvJobs /\ ovJob'.op = "gc"
      /\ ovJob'.doomed = doomed /\ ovJob'.at = "remove" /\ ovJob'.at \notin OvWritten
  BY <1>2, <1>3, OvBegun
<1> QED BY <1>1, <1>2, <1>3, <1>4 DEF OvInv, OvTypes, NamedIsWhole, OvDoomed, OvFilled, OvTodo, OvWritten

LEMMA OvSettles == ASSUME OvInv, NEW s \in OvSets, SettleSets(s) PROVE OvInv'
<1> DEFINE named == (ovNamed \cap OvDeployments) \cup {s}
           doomed == ReleaseUnreferenced(named)
<1>1. /\ OvTypes /\ named \in SUBSET OvUnits /\ named \subseteq ovNamed /\ ovRunning \in named
      /\ named \subseteq (named \cap OvSets) \cup OvDeployments
  BY DEF OvInv, OvTypes, OvUnits, SettleSets
<1>2. doomed \in SUBSET OvRemovals /\ \A r \in doomed, u \in named : r.o \notin OvOf[u]
  BY <1>1, OvReleases
<1>3. /\ OvBegins("settle", "none", {}, doomed, "remove") /\ ovNamed' = named
      /\ UNCHANGED <<ovHeld, ovWriting, ovRunning>>
  BY DEF SettleSets
<1> HIDE DEF doomed, named
<1>4. /\ ovJob' \in OvJobs /\ ovJob'.op = "settle"
      /\ ovJob'.doomed = doomed /\ ovJob'.at = "remove" /\ ovJob'.at \notin OvWritten
  BY <1>2, <1>3, OvBegun
<1>5. OvTypes' /\ NamedIsWhole'
  BY <1>1, <1>3, <1>4 DEF OvInv, OvTypes, NamedIsWhole
<1> QED BY <1>2, <1>3, <1>4, <1>5 DEF OvInv, OvDoomed, OvFilled, OvTodo, OvWritten

LEMMA OvRetains == ASSUME OvInv, RetainEntries PROVE OvInv'
  BY DEF RetainEntries, OvInv, OvTypes, OvJobs, NamedIsWhole, OvDoomed, OvUnits, OvWritten, OvFilled, OvTodo

LEMMA OvRemoves == ASSUME OvInv, RemoveOne PROVE OvInv'
  BY OvObjectOf DEF RemoveOne, OvInv, OvTypes, OvJobs, OvRemove, OvRemovals, NamedIsWhole, OvDoomed,
     OvWritten, OvFilled, OvTodo

LEMMA OvRemoved == ASSUME OvInv, Removed PROVE OvInv'
  BY OvIdleIs, OvEnded DEF Removed, OvInv, OvTypes, NamedIsWhole, OvJobs, OvDoomed, OvFilled, OvTodo,
     OvWritten, OvEnds

\* The next object: the last one is whole.
LEMMA OvNexts ==
  ASSUME OvInv, NEW o \in OvObjects, OvNext(o), OvTypes => ovHeld' \in [OvObjects -> {"none", "whole"}],
         ovWriting' \in [OvObjects -> {"none", "part", "filled", "whole"}],
         UNCHANGED <<ovNamed, ovRunning>>, ovJob.at \in {"publish"} \cup OvWritten,
         ovHeld'[o] = "whole", \A x \in OvObjects \ {o} : ovHeld'[x] = ovHeld[x]
  PROVE  OvInv'
<1>1. /\ ovJob' \in OvJobs /\ ovJob'.at = "publish" /\ ovJob'.op = ovJob.op /\ ovJob'.unit = ovJob.unit
      /\ ovJob'.todo = ovJob.todo \ {o}
  BY DEF OvNext, OvInv, OvTypes, OvJobs
<1>2. OvTypes'
  BY <1>1 DEF OvInv, OvTypes
<1>3. NamedIsWhole'
  BY OvObjectOf DEF OvInv, OvTypes, NamedIsWhole
<1>4. OvTodo'
  BY <1>1, OvObjectOf DEF OvInv, OvTodo, OvWritten
<1> QED BY <1>1, <1>2, <1>3, <1>4 DEF OvInv, OvDoomed, OvFilled, OvWritten

LEMMA OvHeldAlready == ASSUME OvInv, NEW o \in OvObjects, PublishHeld(o) PROVE OvInv'
  BY OvNexts, OvIdleIs, OvEnded DEF PublishHeld, OvInv, OvTypes, NamedIsWhole

\* A step of the publication of one object that leaves its name alone.
LEMMA OvGoesOn ==
  ASSUME OvInv, NEW o \in OvObjects, NEW at \in OvWritten \ {"dir"}, ovJob' = [ovJob EXCEPT !.at = at, !.o = o],
         ovJob.at \in {"publish"} \cup OvWritten, UNCHANGED <<ovHeld, ovNamed, ovRunning>>,
         \A u \in ovNamed : o \notin OvOf[u],
         ovWriting' \in [OvObjects -> {"none", "part", "filled", "whole"}],
         at = "rename" => ovWriting'[o] = "whole"
  PROVE  OvInv'
  BY DEF OvInv, OvTypes, OvJobs, NamedIsWhole, OvDoomed, OvFilled, OvTodo, OvWritten

LEMMA OvWrites ==
  ASSUME OvInv, NEW o \in OvObjects, PublishCreate(o) \/ PublishFill(o) \/ PublishSync(o)
  PROVE  OvInv'
<1>1. CASE PublishCreate(o)
  <2>1. /\ ovJob' = [ovJob EXCEPT !.at = "fill", !.o = o] /\ ovJob.at = "publish" /\ ovHeld[o] = "none"
        /\ UNCHANGED <<ovHeld, ovNamed, ovRunning>> /\ ovWriting' = [ovWriting EXCEPT ![o] = "part"]
    BY <1>1 DEF PublishCreate, UbiMkvol
  <2>2. ovWriting' \in [OvObjects -> {"none", "part", "filled", "whole"}] /\ "fill" \in OvWritten \ {"dir"}
    BY <2>1 DEF OvInv, OvTypes, OvWritten
  <2>3. \A u \in ovNamed : o \notin OvOf[u]
    BY <2>1 DEF OvInv, NamedIsWhole
  <2> QED BY <2>1, <2>2, <2>3, OvGoesOn
<1>2. CASE PublishFill(o)
  <2>1. /\ ovJob' = [ovJob EXCEPT !.at = "sync", !.o = o] /\ ovJob.at \in OvWritten /\ ovJob.o = o
        /\ UNCHANGED <<ovHeld, ovNamed, ovRunning>> /\ ovWriting' = [ovWriting EXCEPT ![o] = "filled"]
    BY <1>2 DEF PublishFill, OvWritten
  <2>2. ovWriting' \in [OvObjects -> {"none", "part", "filled", "whole"}] /\ "sync" \in OvWritten \ {"dir"}
    BY <2>1 DEF OvInv, OvTypes, OvWritten
  <2> QED BY <2>1, <2>2, OvGoesOn DEF OvInv, OvDoomed
<1>3. CASE PublishSync(o)
  BY <1>3, OvGoesOn DEF PublishSync, OvWritten, OvInv, OvTypes, OvDoomed
<1> QED BY <1>1, <1>2, <1>3

LEMMA OvRenames == ASSUME OvInv, NEW o \in OvObjects, PublishRename(o) PROVE OvInv'
<1>1. /\ ovJob.at = "rename" /\ ovJob.o = o /\ UNCHANGED <<ovNamed, ovRunning>>
      /\ ovHeld' = [ovHeld EXCEPT ![o] = ovWriting[o]] /\ ovWriting' = [ovWriting EXCEPT ![o] = "none"]
  BY DEF PublishRename, UbiRename
<1>2. /\ ovHeld' \in [OvObjects -> {"none", "whole"}] /\ ovHeld'[o] = "whole"
      /\ ovWriting' \in [OvObjects -> {"none", "part", "filled", "whole"}]
      /\ \A x \in OvObjects \ {o} : ovHeld'[x] = ovHeld[x]
  BY <1>1 DEF OvInv, OvTypes, OvFilled
<1>3. CASE OvNext(o)
  BY <1>1, <1>2, <1>3, OvNexts DEF OvWritten
<1>4. CASE ovJob' = [ovJob EXCEPT !.at = "dir", !.o = o]
  <2>1. /\ ovJob' \in OvJobs /\ ovJob'.at = "dir" /\ ovJob'.o = o /\ ovJob'.op = ovJob.op /\ ovJob'.unit = ovJob.unit
        /\ ovJob'.todo = ovJob.todo
    BY <1>4 DEF OvInv, OvTypes, OvJobs, OvWritten
  <2>2. OvTypes' /\ NamedIsWhole'
    BY <1>1, <1>2, <2>1, OvObjectOf DEF OvInv, OvTypes, NamedIsWhole
  <2>3. OvTodo'
    BY <1>1, <1>2, <2>1, OvObjectOf DEF OvInv, OvTodo, OvWritten
  <2> QED BY <1>1, <1>2, <2>1, <2>2, <2>3 DEF OvInv, OvDoomed, OvFilled, OvWritten
<1> QED BY <1>3, <1>4 DEF PublishRename

LEMMA OvSyncs == ASSUME OvInv, NEW o \in OvObjects, SyncDir(o) PROVE OvInv'
  BY OvNexts DEF SyncDir, OvInv, OvTypes, OvFilled, OvWritten

LEMMA OvNames == ASSUME OvInv, Publishes PROVE OvInv'
  BY OvIdleIs, OvEnded DEF OvInv, OvTypes, NamedIsWhole, OvTodo, Publishes, OvEnds

\* What is whole stays whole through a cut, except a rename that was not out: nothing names that yet.
LEMMA OvCut == ASSUME OvInv, PowerCut PROVE OvInv'
  BY OvObjectOf, OvIdleIs, OvEnded DEF PowerCut, OvInv, OvTypes, OvEnds, NamedIsWhole, OvDoomed, OvWritten

LEMMA OvKept == OvInv /\ [OvStep]_ovVars => OvInv'
<1> SUFFICES ASSUME OvInv, [OvStep]_ovVars PROVE OvInv'
  OBVIOUS
<1>1. CASE UNCHANGED ovVars
  BY <1>1 DEF ovVars, OvInv, OvTypes, NamedIsWhole, OvDoomed, OvFilled, OvTodo
<1>2. CASE Killed
  BY <1>2, OvIdleIs, OvEnded DEF Killed, OvEnds, OvInv, OvTypes, NamedIsWhole
<1> QED BY <1>1, <1>2, OvInstalls, OvPublishesSet, OvCollectsAll, OvSettles, OvRetains, OvRemoves, OvRemoved,
           OvHeldAlready, OvWrites, OvRenames, OvSyncs, OvNames, OvCut DEF OvStep

\* What a record or the set state names is whole on the medium, for any deployments, sets and
\* objects they share, whichever step of an installation, a collection or a settlement is the last
\* before a kill or a cut.
THEOREM NamedStaysWhole == OvSpec => []NamedIsWhole
<1>1. OvInv => NamedIsWhole
  BY DEF OvInv
<1> QED BY <1>1, OvStarts, OvKept, PTL DEF OvSpec

-----------------------------------------------------------------------------
(***************************************************************************)
(* Diagnostic snapshots.                                                   *)
(***************************************************************************)

SnBusy == {"collect"} \cup Publishing
SnAts == {"idle", "busy", "dropped", "refused", "created", "gone"} \cup SnBusy
SnLengths == SnSizes \cup {0, 1}
SnHolds == {RedactSnapshot(k) : k \in SUBSET (DOMAIN SnSections)} \cup {{}}
SnReqs ==
  [at : SnAts, read : Nat, took : 0 .. SnDeadline, kept : SUBSET (DOMAIN SnSections), holds : SnHolds,
   size : SnLengths, here : BOOLEAN, names : SUBSET SnIds, seen : SUBSET [id : SnIds, bytes : SnLengths],
   id : {NextId(n) : n \in SUBSET SnIds} \cup {0}]
SnDirs == [SnIds -> SnRequests \cup {"none", "old"}]
Present(dir) == {i \in SnIds : dir[i] # "none"}

SnShapes ==
  /\ snFiles \in SnDirs /\ snDurable \in SnDirs
  /\ snStaging \in [SnIds -> SnRequests \cup {"none"}]
  /\ snWrote \in [SnRequests -> {"none", "part", "all"}]
  /\ snCollecting \in SnRequests \cup {"none"} /\ snHungUp \in BOOLEAN
  /\ snReq \in [SnRequests -> SnReqs]

\* `collecting` is of the request whose handler is there; another goes on only after a client left.
SnTurns ==
  \A r \in SnRequests :
    /\ snReq[r].at \in {"idle", "collect"} => snReq[r].here
    /\ snCollecting = r => snReq[r].at \in SnBusy /\ snReq[r].here
    /\ snReq[r].at \in SnBusy => IF snReq[r].here THEN snCollecting = r ELSE snHungUp

\* How far a request is, its file is.
SnWritten ==
  \A r \in SnRequests :
    /\ snReq[r].at \in {"idle", "busy", "collect", "sweep", "list", "stat", "evict", "create"} =>
         snWrote[r] = "none"
    /\ snReq[r].at = "rename" => snWrote[r] = "all"
    /\ ~snHungUp /\ snReq[r].at \in {"write", "rename"} /\ snReq[r].id \in SnIds =>
         snStaging[snReq[r].id] = r

Whole(dir) == \A i \in SnIds : dir[i] \in SnRequests => snWrote[dir[i]] = "all"
SnWhole == ~snHungUp => Whole(snFiles) /\ Whole(snDurable)

\* What a publication has seen covers what is listed, so that what it leaves room for is there.
SnSeen ==
  ~snHungUp =>
    /\ Cardinality(Present(snFiles)) <= SnMax /\ Cardinality(Present(snDurable)) <= SnMax
    /\ \A r \in SnRequests :
         /\ snReq[r].at = "stat" => Present(snFiles) \subseteq snReq[r].names
         /\ snReq[r].at = "evict" => IsFiniteSet(snReq[r].seen) /\ \A i \in Present(snFiles) : \E e \in snReq[r].seen : e.id = i
         /\ snReq[r].at \in {"create", "write", "rename"} => Cardinality(Present(snFiles)) < SnMax

SnInv == SnShapes /\ SnTurns /\ SnWritten /\ SnWhole /\ SnSeen

-----------------------------------------------------------------------------
LEMMA SnIdsFinite == IsFiniteSet(SnIds)
  BY FS_Interval, FS_CardinalityType, SnapshotBounds DEF SnIds

\* Fewer are listed, and never more.
LEMMA PresentFewer ==
  ASSUME NEW a \in SnDirs, NEW b \in SnDirs, Present(b) \subseteq Present(a)
  PROVE  /\ Cardinality(Present(a)) \in Nat /\ Cardinality(Present(b)) \in Nat
         /\ Cardinality(Present(b)) <= Cardinality(Present(a))
  BY SnIdsFinite, FS_Subset, FS_CardinalityType DEF Present

LEMMA PresentOneMore ==
  ASSUME NEW a \in SnDirs, NEW b \in SnDirs, NEW i, Present(b) \subseteq Present(a) \cup {i}
  PROVE  /\ Cardinality(Present(a)) \in Nat /\ Cardinality(Present(b)) \in Nat
         /\ Cardinality(Present(b)) <= Cardinality(Present(a)) + 1
<1>1. IsFiniteSet(Present(a))
  BY SnIdsFinite, FS_Subset DEF Present
<1>2. PICK S : S = Present(a) /\ IsFiniteSet(S) /\ Cardinality(S) \in Nat
  BY <1>1, FS_CardinalityType
<1>3. IsFiniteSet(S \cup {i}) /\ Cardinality(S \cup {i}) <= Cardinality(S) + 1
  <2>1. IsFiniteSet(S \cup {i}) /\ Cardinality(S \cup {i}) = IF i \in S THEN Cardinality(S) ELSE Cardinality(S) + 1
    BY <1>2, FS_AddElement, Zenon
  <2> QED BY <1>2, <2>1
<1> QED BY <1>2, <1>3, FS_Subset, FS_CardinalityType

\* What is listed is at most what was seen.
LEMMA SeenCounts ==
  ASSUME NEW seen \in SUBSET [id : SnIds, bytes : SnLengths], NEW dir \in SnDirs, IsFiniteSet(seen),
         \A i \in Present(dir) : \E e \in seen : e.id = i
  PROVE  Cardinality(Present(dir)) \in Nat /\ Cardinality(Present(dir)) <= Cardinality(seen)
<1> DEFINE f == [e \in seen |-> e.id]
           ids == {f[e] : e \in seen}
<1>1. f \in Surjection(seen, ids)
  BY DEF Surjection
<1> HIDE DEF f, ids
<1>3. IsFiniteSet(ids) /\ Cardinality(ids) <= Cardinality(seen)
  BY <1>1, FS_Surjection
<1>2. Present(dir) \subseteq ids
  BY DEF f, ids
<1> QED BY <1>3, <1>2, FS_Subset, FS_CardinalityType

LEMMA HoldsNothingPrivate == \A h \in SnHolds : h \cap {"marked", "address", "private"} = {}
<1>1. ASSUME NEW rule, NEW value, value = "private" => rule # "scalar"
      PROVE  ApplyRule(rule, value) \cap {"marked", "address", "private"} = {}
  BY <1>1 DEF ApplyRule, Scrub
<1>2. ASSUME NEW s \in DOMAIN SnSections, NEW m \in SnSections[s]
      PROVE  Apply(m) \cap {"marked", "address", "private"} = {}
  BY PrivateIsMarked, <1>1 DEF Apply
<1>3. ASSUME NEW k \in SUBSET (DOMAIN SnSections)
      PROVE  RedactSnapshot(k) \cap {"marked", "address", "private"} = {}
  BY <1>2 DEF RedactSnapshot
<1> QED BY <1>3 DEF SnHolds

-----------------------------------------------------------------------------
LEMMA SnIdleIs == SnIdle \in SnReqs /\ SnIdle.at = "idle" /\ SnIdle.here
  BY SnapshotBounds DEF SnHolds, SnLengths, SnAts, SnIdle, SnReqs

LEMMA SnStarts == SnInit => SnInv
<1> SUFFICES ASSUME SnInit PROVE SnInv
  OBVIOUS
<1>1. PICK n \in {0, SnMax} : snFiles = [i \in SnIds |-> IF i <= n THEN "old" ELSE "none"]
  BY DEF SnInit
<1>2. SnShapes
  BY SnIdleIs DEF SnInit, SnShapes, SnDirs
<1>3. SnTurns /\ SnWritten
  BY SnIdleIs, SnapshotBounds DEF SnInit, SnTurns, SnWritten, SnBusy, Publishing
<1>4. SnWhole
  BY <1>1, SnapshotBounds DEF SnInit, SnWhole, Whole
<1>5. Cardinality(Present(snFiles)) <= SnMax
  <2>1. n \in Nat /\ n <= SnMax /\ Present(snFiles) \subseteq 1 .. n
    BY <1>1, SnapshotBounds DEF Present, SnIds
  <2>2. IsFiniteSet(1 .. n) /\ Cardinality(1 .. n) = n
    BY <2>1, FS_Interval
  <2>3. Cardinality(Present(snFiles)) <= Cardinality(1 .. n)
    BY <2>1, <2>2, FS_Subset, Zenon
  <2>4. Cardinality(Present(snFiles)) \in Nat
    BY <2>1, <2>2, FS_Subset, FS_CardinalityType
  <2> QED BY <2>1, <2>2, <2>3, <2>4, SnapshotBounds
<1>6. SnSeen
  BY <1>5, SnIdleIs DEF SnInit, SnSeen
<1> QED BY <1>2, <1>3, <1>4, <1>6 DEF SnInv

\* While no client has left there is one request at most that publishes.
LEMMA SnAlone ==
  ASSUME SnInv, ~snHungUp, NEW r \in SnRequests, NEW q \in SnRequests, snReq[r].at \in SnBusy, snReq[q].at \in SnBusy
  PROVE  r = q
  BY DEF SnInv, SnTurns

\* One request takes a step that leaves the store alone.
SnQuiet(r, q) ==
  /\ snReq' = [snReq EXCEPT ![r] = q] /\ q \in SnReqs
  /\ UNCHANGED <<snFiles, snWrote, snHungUp>> /\ snDurable' \in {snDurable, snFiles}

\* The publication is over, or has not begun.
LEMMA SnOver ==
  ASSUME SnInv, NEW r \in SnRequests, NEW q, SnQuiet(r, q), snReq[r].at # "idle" \/ q.here,
         q.at \in {"busy", "dropped", "refused", "created"}, q.at = "busy" => snReq[r].at = "idle",
         \/ snCollecting' = "none" /\ (snCollecting = r \/ snCollecting = "none")
         \/ snCollecting' = snCollecting /\ snCollecting # r,
         snStaging' \in [SnIds -> SnRequests \cup {"none"}],
         ~snHungUp => snReq[r].at \in SnBusy \/ snStaging' = snStaging
  PROVE  SnInv'
<1>1. /\ snReq' \in [SnRequests -> SnReqs] /\ snReq'[r] = q
      /\ \A p \in SnRequests \ {r} : snReq'[p] = snReq[p]
  BY DEF SnInv, SnShapes, SnQuiet
<1>2. SnShapes'
  BY <1>1 DEF SnInv, SnShapes, SnQuiet
<1>3. q.at \notin SnBusy /\ q.at # "idle"
  BY DEF SnBusy, Publishing
<1>4. SnTurns'
  BY <1>1, <1>3, SnapshotBounds DEF SnInv, SnTurns, SnQuiet
<1>5. SnWritten'
  BY <1>1, <1>3, SnAlone DEF SnInv, SnWritten, SnQuiet, SnBusy, Publishing
<1>6. SnWhole'
  BY DEF SnInv, SnWhole, Whole, SnQuiet
<1>7. SnSeen'
  <2>1. Present(snFiles') = Present(snFiles) /\ Present(snDurable') \in {Present(snDurable), Present(snFiles)}
    BY DEF SnQuiet
  <2>2. (Present(snFiles))' = Present(snFiles') /\ (Present(snDurable))' = Present(snDurable')
    BY DEF Present
  <2> QED BY <1>1, <1>3, <2>1, <2>2 DEF SnInv, SnSeen, SnQuiet, SnBusy, Publishing
<1> QED BY <1>2, <1>4, <1>5, <1>6, <1>7 DEF SnInv

SnBefore == {"collect", "sweep", "list", "stat", "evict", "create"}

\* What a request that goes on has seen of the store.
Covers(q) ==
  /\ q.at = "stat" => Present(snFiles) \subseteq q.names
  /\ q.at = "evict" => IsFiniteSet(q.seen) /\ \A i \in Present(snFiles) : \E e \in q.seen : e.id = i
  /\ q.at \in {"create", "write", "rename"} => Cardinality(Present(snFiles)) < SnMax

LEMMA SnGoes ==
  ASSUME SnInv, NEW r \in SnRequests, NEW q, SnQuiet(r, q), snReq[r].at \in SnBefore, q.at \in SnBefore,
         q.at = "collect" => snReq[r].at = "collect", q.here = snReq[r].here, UNCHANGED snCollecting, snStaging' \in [SnIds -> SnRequests \cup {"none"}],
         ~snHungUp => Covers(q)
  PROVE  SnInv'
<1>1. /\ snReq' \in [SnRequests -> SnReqs] /\ snReq'[r] = q
      /\ \A p \in SnRequests \ {r} : snReq'[p] = snReq[p]
  BY DEF SnInv, SnShapes, SnQuiet
<1>2. SnShapes'
  BY <1>1 DEF SnInv, SnShapes, SnQuiet
<1>3. snReq[r].at \in SnBusy /\ q.at \in SnBusy
  BY DEF SnBusy, Publishing, SnBefore
<1>4. SnTurns'
  BY <1>1, <1>3 DEF SnInv, SnTurns, SnQuiet, SnBusy, Publishing
<1>5. ASSUME ~snHungUp, NEW p \in SnRequests \ {r} PROVE snReq[p].at \notin SnBusy
  BY <1>3, <1>5, SnAlone
<1>6. SnWritten'
  BY <1>1, <1>5 DEF SnInv, SnWritten, SnQuiet, SnBusy, Publishing, SnBefore
<1>7. SnWhole'
  BY DEF SnInv, SnWhole, Whole, SnQuiet
<1>8. SnSeen'
  <2>1. Present(snFiles') = Present(snFiles) /\ Present(snDurable') \in {Present(snDurable), Present(snFiles)}
    BY DEF SnQuiet
  <2>2. (Present(snFiles))' = Present(snFiles') /\ (Present(snDurable))' = Present(snDurable')
    BY DEF Present
  <2> QED BY <1>1, <1>5, <2>1, <2>2 DEF SnInv, SnSeen, SnQuiet, SnBusy, Publishing, Covers
<1> QED BY <1>2, <1>4, <1>6, <1>7, <1>8 DEF SnInv

\* The request of a record with other fields.
LEMMA SnFields ==
  ASSUME SnInv, NEW r \in SnRequests
  PROVE  /\ snReq[r] \in SnReqs
         /\ \A to \in SnAts : [snReq[r] EXCEPT !.at = to] \in SnReqs /\ [snReq[r] EXCEPT !.at = to].at = to
                               /\ [snReq[r] EXCEPT !.at = to].here = snReq[r].here
  BY DEF SnInv, SnShapes, SnReqs

LEMMA SnMoves ==
  ASSUME SnInv, NEW r \in SnRequests, NEW to \in SnAts, SnMove(r, to)
  PROVE  snReq' = [snReq EXCEPT ![r] = [snReq[r] EXCEPT !.at = to]]
  BY DEF SnMove, SnInv, SnShapes

LEMMA SnBegins == ASSUME SnInv, NEW r \in SnRequests, ApiCollect(r) PROVE SnInv'
<1>1. PICK q : q = [snReq[r] EXCEPT !.at = "collect"]
  OBVIOUS
<1>2. "collect" \in SnAts /\ "collect" \in SnBusy
  BY DEF SnAts, SnBusy
<1>3. q \in SnReqs /\ q.at = "collect" /\ q.here = snReq[r].here /\ snReq' = [snReq EXCEPT ![r] = q]
  BY <1>1, <1>2, SnFields, SnMoves DEF ApiCollect
<1>4. /\ snReq' \in [SnRequests -> SnReqs] /\ snReq'[r] = q
      /\ \A p \in SnRequests \ {r} : snReq'[p] = snReq[p]
  BY <1>3 DEF SnInv, SnShapes
<1>5. /\ snReq[r].at = "idle" /\ snReq[r].here /\ snCollecting = "none" /\ snCollecting' = r
      /\ UNCHANGED <<snFiles, snStaging, snWrote, snDurable, snHungUp>>
  BY DEF ApiCollect, SnInv, SnTurns
<1>6. SnShapes' /\ SnTurns'
  BY <1>2, <1>3, <1>4, <1>5, SnapshotBounds DEF SnInv, SnShapes, SnTurns
<1>7. SnWritten' /\ SnWhole' /\ SnSeen'
  BY <1>3, <1>4, <1>5 DEF SnInv, SnWritten, SnWhole, Whole, SnSeen, Present
<1> QED BY <1>6, <1>7 DEF SnInv

LEMMA SnBusyAnswer == ASSUME SnInv, NEW r \in SnRequests, CollectBusy(r) PROVE SnInv'
<1>1. PICK q : q = [snReq[r] EXCEPT !.at = "busy"]
  OBVIOUS
<1>2. "busy" \in SnAts
  BY DEF SnAts
<1>3. q \in SnReqs /\ q.at = "busy" /\ q.here = snReq[r].here /\ snReq' = [snReq EXCEPT ![r] = q]
  BY <1>1, <1>2, SnFields, SnMoves DEF CollectBusy
<1>4. /\ snReq[r].at = "idle" /\ snReq[r].here /\ snCollecting # r
      /\ UNCHANGED <<snFiles, snStaging, snWrote, snDurable, snHungUp, snCollecting>>
  BY DEF CollectBusy, SnInv, SnTurns, SnBusy, Publishing
<1> QED BY <1>3, <1>4, SnOver DEF SnQuiet, SnInv, SnShapes

LEMMA SnSection == ASSUME SnInv, NEW r \in SnRequests, Section(r) PROVE SnInv'
<1>1. PICK p : p = snReq[r]
  OBVIOUS
<1>2. PICK t \in 0 .. SectionBound(p.took), ok \in BOOLEAN :
        snReq' = [snReq EXCEPT ![r].read = p.read + 1, ![r].took = p.took + t,
                               ![r].kept = IF ok THEN @ \cup {p.read + 1} ELSE @]
  BY <1>1 DEF Section
<1>3. PICK q : q = [p EXCEPT !.read = p.read + 1, !.took = p.took + t,
                             !.kept = IF ok THEN @ \cup {p.read + 1} ELSE @]
  OBVIOUS
<1>4. p \in SnReqs /\ p.at = "collect" /\ p.read + 1 \in DOMAIN SnSections
  <2>1. p \in SnReqs /\ p.at = "collect" /\ p.read + 1 <= Len(SnSections)
    BY <1>1, SnFields DEF Section
  <2>2. p.read \in Nat
    BY <2>1 DEF SnReqs
  <2> QED BY <2>1, <2>2, SnapshotBounds
<1>5. p.took \in 0 .. SnDeadline /\ p.took + t \in 0 .. SnDeadline
  BY <1>4, SnapshotBounds DEF SnReqs, SectionBound
<1>6. q \in SnReqs /\ q.at = "collect" /\ q.here = p.here
  <2>1. p.read + 1 \in Nat /\ (IF ok THEN p.kept \cup {p.read + 1} ELSE p.kept) \in SUBSET (DOMAIN SnSections)
    BY <1>4 DEF SnReqs
  <2> QED BY <1>3, <1>4, <1>5, <2>1 DEF SnReqs
<1>7. snReq' = [snReq EXCEPT ![r] = q]
  BY <1>1, <1>2, <1>3 DEF SnInv, SnShapes
<1>8. SnQuiet(r, q) /\ UNCHANGED <<snCollecting, snStaging>>
  BY <1>6, <1>7 DEF SnQuiet, Section
<1> QED BY <1>1, <1>4, <1>6, <1>8, SnGoes DEF SnBefore, Covers, SnInv, SnShapes

LEMMA SnCollected == ASSUME SnInv, NEW r \in SnRequests, Collected(r) PROVE SnInv'
<1>1. PICK p : p = snReq[r]
  OBVIOUS
<1>2. p \in SnReqs /\ p.at = "collect" /\ UNCHANGED <<snFiles, snStaging, snWrote, snDurable, snHungUp>>
  BY <1>1, SnFields DEF Collected
<1>3. ASSUME NEW n \in SnSizes,
             snReq' = [snReq EXCEPT ![r].at = "sweep", ![r].size = n, ![r].read = 0, ![r].took = 0,
                                    ![r].kept = {}, ![r].holds = RedactSnapshot(snReq[r].kept)],
             UNCHANGED snCollecting
      PROVE  SnInv'
  <2>1. PICK q : q = [p EXCEPT !.at = "sweep", !.size = n, !.read = 0, !.took = 0, !.kept = {},
                               !.holds = RedactSnapshot(p.kept)]
    OBVIOUS
  <2>2. RedactSnapshot(p.kept) \in SnHolds /\ "sweep" \in SnAts /\ n \in SnLengths /\ 0 \in 0 .. SnDeadline
    BY <1>2, SnapshotBounds DEF SnHolds, SnReqs, SnAts, SnBusy, Publishing, SnLengths
  <2>3. q \in SnReqs /\ q.at = "sweep" /\ q.here = p.here
    BY <1>2, <2>1, <2>2 DEF SnReqs
  <2>4. snReq' = [snReq EXCEPT ![r] = q]
    BY <1>1, <1>3, <2>1 DEF SnInv, SnShapes
  <2>5. SnQuiet(r, q) /\ snStaging' \in [SnIds -> SnRequests \cup {"none"}] /\ UNCHANGED snCollecting
    BY <1>2, <1>3, <2>3, <2>4 DEF SnQuiet, SnInv, SnShapes
  <2>6. snReq[r].at \in SnBefore /\ q.at \in SnBefore /\ q.at # "collect" /\ Covers(q)
    BY <1>1, <1>2, <2>3 DEF SnBefore, Covers
  <2> QED BY <1>1, <2>3, <2>5, <2>6, SnGoes
<1>4. ASSUME SnMove(r, "refused"), snCollecting' = "none" PROVE SnInv'
  <2>1. PICK q : q = [snReq[r] EXCEPT !.at = "refused"]
    OBVIOUS
  <2>2. "refused" \in SnAts
    BY DEF SnAts
  <2>3. q \in SnReqs /\ q.at = "refused" /\ snReq' = [snReq EXCEPT ![r] = q]
    BY <1>4, <2>1, <2>2, SnFields, SnMoves
  <2>4. SnQuiet(r, q) /\ snStaging' \in [SnIds -> SnRequests \cup {"none"}] /\ UNCHANGED snStaging
    BY <1>2, <2>3 DEF SnQuiet, SnInv, SnShapes
  <2>5. snCollecting = r /\ snReq[r].at # "idle"
    BY <1>1, <1>2 DEF SnInv, SnTurns, SnBusy
  <2> QED BY <1>4, <2>3, <2>4, <2>5, SnOver
<1> QED BY <1>3, <1>4 DEF Collected

LEMMA SnEnds ==
  ASSUME SnInv, NEW r \in SnRequests, NEW to \in {"refused", "created"}, Ends(r, to), snReq[r].at \in Publishing,
         UNCHANGED <<snFiles, snWrote, snHungUp>>, snDurable' \in {snDurable, snFiles},
         snStaging' \in [SnIds -> SnRequests \cup {"none"}]
  PROVE  SnInv'
<1>1. PICK p : p = snReq[r]
  OBVIOUS
<1>2. PICK q : q = [p EXCEPT !.at = to, !.names = {}, !.seen = {}]
  OBVIOUS
<1>3. p \in SnReqs /\ p.at \in SnBusy /\ to \in SnAts
  BY <1>1, SnFields DEF SnBusy, SnAts
<1>4. q \in SnReqs /\ q.at = to
  BY <1>2, <1>3 DEF SnReqs
<1>5. snReq' = [snReq EXCEPT ![r] = q]
  BY <1>1, <1>2 DEF Ends, SnInv, SnShapes
<1>6. SnQuiet(r, q) /\ snReq[r].at # "idle"
  BY <1>4, <1>5 DEF SnQuiet, Publishing
<1>7. \/ snCollecting' = "none" /\ snCollecting = r
      \/ snCollecting' = snCollecting /\ snCollecting # r
  BY <1>1, <1>3 DEF Ends, SnInv, SnTurns
<1> QED BY <1>1, <1>3, <1>4, <1>6, <1>7, SnOver

LEMMA SnLeaves == ASSUME SnInv, NEW r \in SnRequests, ClientLeaves(r) PROVE SnInv'
<1>1. PICK p : p = snReq[r]
  OBVIOUS
<1>2. PICK to : to = IF p.at = "collect" THEN "dropped" ELSE p.at
  OBVIOUS
<1>3. PICK q : q = [p EXCEPT !.here = FALSE, !.at = to]
  OBVIOUS
<1>4. p \in SnReqs /\ p.at \in SnBusy /\ to \in SnAts /\ snCollecting = r
  BY <1>1, <1>2, SnFields DEF ClientLeaves, SnInv, SnTurns, SnBusy, SnAts
<1>5. q \in SnReqs /\ q.at = to /\ q.here = FALSE /\ q.id = p.id
  BY <1>3, <1>4 DEF SnReqs
<1>6. /\ snReq' = [snReq EXCEPT ![r] = q] /\ snCollecting' = "none"
      /\ snHungUp' = (snHungUp \/ p.at \in Publishing) /\ UNCHANGED <<snFiles, snStaging, snWrote, snDurable>>
  BY <1>1, <1>2, <1>3 DEF ClientLeaves, SnInv, SnShapes
<1>7. CASE p.at = "collect"
  BY <1>2, <1>6, <1>7, <1>5, <1>1, <1>4, SnOver DEF Publishing, SnInv, SnShapes, SnQuiet
<1>8. CASE p.at \in Publishing
  <2>1. to = p.at /\ snHungUp' = TRUE
    BY <1>2, <1>6, <1>8 DEF Publishing
  <2>2. /\ snReq' \in [SnRequests -> SnReqs] /\ snReq'[r] = q
        /\ \A o \in SnRequests \ {r} : snReq'[o] = snReq[o]
    BY <1>5, <1>6 DEF SnInv, SnShapes
  <2>3. SnShapes' /\ SnWhole' /\ SnSeen'
    BY <1>6, <2>1, <2>2 DEF SnInv, SnShapes, SnWhole, SnSeen
  <2>4. p.at \notin {"idle", "collect"}
    BY <1>8 DEF Publishing
  <2>5. SnTurns'
    BY <1>4, <1>5, <1>6, <2>1, <2>2, <2>4, SnapshotBounds DEF SnInv, SnTurns
  <2>6. SnWritten'
    BY <1>1, <1>5, <1>6, <2>1, <2>2 DEF SnInv, SnWritten
  <2> QED BY <2>3, <2>5, <2>6 DEF SnInv
<1> QED BY <1>4, <1>7, <1>8 DEF SnBusy

LEMMA SnSweeps == ASSUME SnInv, NEW r \in SnRequests, SweepStaging(r) PROVE SnInv'
<1>1. PICK q : q = [snReq[r] EXCEPT !.at = "list"]
  OBVIOUS
<1>2. "list" \in SnAts
  BY DEF SnAts, SnBusy, Publishing
<1>3. q \in SnReqs /\ q.at = "list" /\ q.here = snReq[r].here /\ snReq' = [snReq EXCEPT ![r] = q]
  BY <1>1, <1>2, SnFields, SnMoves DEF SweepStaging
<1>4. SnQuiet(r, q) /\ UNCHANGED snCollecting /\ snStaging' \in [SnIds -> SnRequests \cup {"none"}]
  BY <1>3 DEF SnQuiet, SweepStaging
<1> QED BY <1>3, <1>4, SnGoes DEF SweepStaging, SnBefore, Covers

LEMMA SnListsNames == ASSUME SnInv, NEW r \in SnRequests, ListNames(r) PROVE SnInv'
<1>1. PICK p : p = snReq[r]
  OBVIOUS
<1>2. PICK q : q = [p EXCEPT !.at = "stat", !.names = Listed]
  OBVIOUS
<1>3. p \in SnReqs /\ p.at = "list" /\ "stat" \in SnAts /\ Listed \in SUBSET SnIds /\ Listed = Present(snFiles)
  BY <1>1, SnFields DEF ListNames, SnAts, SnBusy, Publishing, Listed, Present
<1>4. q \in SnReqs /\ q.at = "stat" /\ q.here = p.here /\ q.names = Listed
  BY <1>2, <1>3 DEF SnReqs
<1>5. snReq' = [snReq EXCEPT ![r] = q]
  BY <1>1, <1>2 DEF ListNames, SnInv, SnShapes
<1>6. SnQuiet(r, q) /\ UNCHANGED snCollecting /\ snStaging' \in [SnIds -> SnRequests \cup {"none"}]
  BY <1>4, <1>5 DEF SnQuiet, ListNames, SnInv, SnShapes
<1>7. Covers(q) /\ snReq[r].at \in SnBefore /\ q.at \in SnBefore
  BY <1>1, <1>3, <1>4 DEF Covers, SnBefore
<1> QED BY <1>1, <1>4, <1>6, <1>7, SnGoes

LEMMA SnLengthOf == ASSUME SnInv, NEW i \in SnIds, snFiles[i] # "none" PROVE SizeOf(snFiles[i]) \in SnLengths
  BY DEF SnInv, SnShapes, SnDirs, SizeOf, SnLengths, SnReqs

LEMMA SnLists == ASSUME SnInv, NEW r \in SnRequests, List(r) PROVE SnInv'
<1>1. PICK p : p = snReq[r]
  OBVIOUS
<1>2. p \in SnReqs /\ p.at = "stat" /\ "evict" \in SnAts /\ Listed = Present(snFiles)
  BY <1>1, SnFields DEF List, SnAts, SnBusy, Publishing, Listed, Present
<1>3. CASE p.names \subseteq Listed
  <2>1. PICK seen : seen = {[id |-> i, bytes |-> SizeOf(snFiles[i])] : i \in p.names}
    OBVIOUS
  <2>2. PICK id : id = NextId(p.names)
    OBVIOUS
  <2>3. PICK q : q = [p EXCEPT !.at = "evict", !.names = {}, !.id = id, !.seen = seen]
    OBVIOUS
  <2>4. \A i \in p.names : i \in SnIds /\ SizeOf(snFiles[i]) \in SnLengths
    BY <1>3, SnLengthOf DEF Listed
  <2>5. seen \in SUBSET [id : SnIds, bytes : SnLengths] /\ id \in {NextId(n) : n \in SUBSET SnIds} \cup {0}
    BY <1>2, <2>1, <2>2, <2>4 DEF SnReqs
  <2>6. q \in SnReqs /\ q.at = "evict" /\ q.here = p.here /\ q.seen = seen
    BY <1>2, <2>3, <2>5 DEF SnReqs
  <2>7. snReq' = [snReq EXCEPT ![r] = q] /\ UNCHANGED snCollecting
    BY <1>1, <1>3, <2>1, <2>2, <2>3 DEF List, SnInv, SnShapes
  <2>8. SnQuiet(r, q) /\ snStaging' \in [SnIds -> SnRequests \cup {"none"}]
    BY <2>6, <2>7 DEF SnQuiet, List, SnInv, SnShapes
  <2>9. IsFiniteSet(seen)
    <3> DEFINE f == [i \in p.names |-> [id |-> i, bytes |-> SizeOf(snFiles[i])]]
    <3>1. IsFiniteSet(p.names)
      BY <1>2, SnIdsFinite, FS_Subset DEF SnReqs
    <3>2. f \in Surjection(p.names, seen)
      BY <2>1 DEF Surjection
    <3> QED BY <3>1, <3>2, FS_Surjection
  <2>10. ~snHungUp => \A i \in Present(snFiles) : \E e \in seen : e.id = i
    <3> SUFFICES ASSUME ~snHungUp, NEW i \in Present(snFiles) PROVE \E e \in seen : e.id = i
      OBVIOUS
    <3>1. i \in p.names
      BY <1>1, <1>2 DEF SnInv, SnSeen
    <3>2. [id |-> i, bytes |-> SizeOf(snFiles[i])] \in seen
      BY <2>1, <3>1
    <3> QED BY <3>2
  <2>11. (~snHungUp => Covers(q)) /\ snReq[r].at \in SnBefore /\ q.at \in SnBefore
    BY <1>1, <1>2, <2>6, <2>9, <2>10 DEF Covers, SnBefore
  <2> QED BY <1>1, <2>6, <2>7, <2>8, <2>11, SnGoes
<1>4. CASE Ends(r, "refused")
  BY <1>1, <1>2, <1>4, SnEnds DEF List, Publishing, SnInv, SnShapes
<1> QED BY <1>1, <1>3, <1>4 DEF List

LEMMA SnUnlinks == ASSUME SnInv, NEW r \in SnRequests, UnlinkStaging(r) PROVE SnInv'
<1>1. PICK p : p = snReq[r]
  OBVIOUS
<1>2. PICK q : q = [p EXCEPT !.at = "create", !.seen = {}]
  OBVIOUS
<1>3. p \in SnReqs /\ p.at = "evict" /\ "create" \in SnAts
  BY <1>1, SnFields DEF UnlinkStaging, SnAts, SnBusy, Publishing
<1>4. q \in SnReqs /\ q.at = "create" /\ q.here = p.here
  BY <1>2, <1>3 DEF SnReqs
<1>5. snReq' = [snReq EXCEPT ![r] = q]
  BY <1>1, <1>2 DEF UnlinkStaging, SnInv, SnShapes
<1>6. SnQuiet(r, q) /\ UNCHANGED snCollecting /\ snStaging' \in [SnIds -> SnRequests \cup {"none"}]
  BY <1>4, <1>5 DEF SnQuiet, UnlinkStaging, SnInv, SnShapes
<1>7. ASSUME ~snHungUp PROVE Cardinality(Present(snFiles)) < SnMax
  <2>1. /\ IsFiniteSet(p.seen) /\ p.seen \in SUBSET [id : SnIds, bytes : SnLengths] /\ snFiles \in SnDirs
        /\ \A i \in Present(snFiles) : \E e \in p.seen : e.id = i
    BY <1>1, <1>3, <1>7 DEF SnInv, SnSeen, SnShapes, SnReqs
  <2>2. Cardinality(Present(snFiles)) \in Nat /\ Cardinality(Present(snFiles)) <= Cardinality(p.seen)
    BY <2>1, SeenCounts
  <2>3. Cardinality(p.seen) \in Nat
    BY <2>1, FS_CardinalityType
  <2>4. CASE p.seen = {}
    BY <2>2, <2>4, FS_EmptySet, SnapshotBounds
  <2>5. CASE Cardinality(p.seen) < SnMax
    BY <2>2, <2>3, <2>5, SnapshotBounds
  <2> QED BY <1>1, <2>4, <2>5 DEF UnlinkStaging, Fits
<1>8. (~snHungUp => Covers(q)) /\ snReq[r].at \in SnBefore /\ q.at \in SnBefore
  BY <1>1, <1>3, <1>4, <1>7 DEF Covers, SnBefore
<1> QED BY <1>1, <1>4, <1>6, <1>8, SnGoes

\* One request steps; while no client has left, no other is under way.
LEMMA SnOneSteps ==
  ASSUME SnInv, NEW r \in SnRequests, NEW q \in SnReqs, snReq' = [snReq EXCEPT ![r] = q], snReq[r].at \in SnBusy
  PROVE  /\ snReq' \in [SnRequests -> SnReqs] /\ snReq'[r] = q
         /\ \A p \in SnRequests \ {r} : snReq'[p] = snReq[p]
         /\ ~snHungUp => \A p \in SnRequests \ {r} : snReq[p].at \notin SnBusy
  BY SnAlone DEF SnInv, SnShapes

\* The turns stay where they are.
LEMMA SnTurnsStay ==
  ASSUME SnInv, NEW r \in SnRequests, NEW q \in SnReqs, snReq' = [snReq EXCEPT ![r] = q],
         snReq[r].at \in Publishing, q.at \in Publishing, q.here = snReq[r].here, UNCHANGED <<snCollecting, snHungUp>>
  PROVE  SnTurns'
  BY SnOneSteps DEF SnBusy, Publishing, SnInv, SnTurns

LEMMA SnEvicts == ASSUME SnInv, NEW r \in SnRequests, Evict(r) PROVE SnInv'
<1>1. PICK p : p = snReq[r]
  OBVIOUS
<1>2. PICK old : old = CHOOSE e \in p.seen : \A o \in p.seen : e.id <= o.id
  OBVIOUS
<1>3. p \in SnReqs /\ p.at = "evict" /\ UNCHANGED <<snStaging, snWrote, snDurable, snHungUp>>
  BY <1>1, SnFields DEF Evict
<1>4. CASE Ends(r, "refused") /\ UNCHANGED snFiles
  BY <1>1, <1>3, <1>4, SnEnds DEF Publishing, SnInv, SnShapes
<1>5. CASE /\ snFiles' = [snFiles EXCEPT ![old.id] = "none"] /\ UNCHANGED snCollecting
           /\ snReq' = [snReq EXCEPT ![r].seen = @ \ {old}]
  <2>1. PICK q : q = [p EXCEPT !.seen = p.seen \ {old}]
    OBVIOUS
  <2>2. q \in SnReqs /\ q.at = "evict" /\ q.here = p.here /\ q.seen = p.seen \ {old}
    BY <1>3, <2>1 DEF SnReqs
  <2>3. snReq' = [snReq EXCEPT ![r] = q]
    BY <1>1, <1>5, <2>1 DEF SnInv, SnShapes
  <2>4. /\ snReq' \in [SnRequests -> SnReqs] /\ snReq'[r] = q
        /\ \A o \in SnRequests \ {r} : snReq'[o] = snReq[o]
        /\ ~snHungUp => \A o \in SnRequests \ {r} : snReq[o].at \notin SnBusy
    BY <1>1, <1>3, <2>2, <2>3, SnOneSteps DEF SnBusy, Publishing
  <2>5. snFiles' \in SnDirs /\ \A i \in SnIds : snFiles'[i] = IF i = old.id THEN "none" ELSE snFiles[i]
    BY <1>5 DEF SnInv, SnShapes, SnDirs
  <2>6. SnShapes' /\ SnTurns'
    BY <1>3, <1>5, <2>4, <2>5, <1>1, <2>2, <2>3, SnTurnsStay DEF SnInv, SnShapes, Publishing
  <2>7. SnWritten' /\ SnWhole'
    BY <1>1, <1>3, <2>2, <2>4, <2>5, SnapshotBounds DEF SnInv, SnWritten, SnWhole, Whole
  <2>8. Present(snFiles') \subseteq Present(snFiles) /\ old.id \notin Present(snFiles')
    BY <2>5 DEF Present
  <2>9. Cardinality(Present(snFiles')) \in Nat /\ Cardinality(Present(snFiles)) \in Nat
        /\ Cardinality(Present(snFiles')) <= Cardinality(Present(snFiles))
    BY <2>5, <2>8, PresentFewer DEF SnInv, SnShapes
  <2>10. ASSUME ~snHungUp
         PROVE  IsFiniteSet(q.seen) /\ \A i \in Present(snFiles') : \E e \in q.seen : e.id = i
    BY <1>1, <1>3, <2>10, <2>2, FS_Subset, <2>8 DEF SnInv, SnSeen
  <2>11. (Present(snFiles))' = Present(snFiles') /\ (Present(snDurable))' = Present(snDurable')
         /\ Present(snDurable') = Present(snDurable)
    BY <1>3 DEF Present
  <2>12. SnSeen'
    <3> SUFFICES ASSUME ~snHungUp'
                 PROVE  /\ Cardinality(Present(snFiles')) <= SnMax /\ Cardinality(Present(snDurable')) <= SnMax
                        /\ \A o \in SnRequests :
                             /\ snReq'[o].at = "stat" => Present(snFiles') \subseteq snReq'[o].names
                             /\ snReq'[o].at = "evict" =>
                                  IsFiniteSet(snReq'[o].seen)
                                  /\ \A i \in Present(snFiles') : \E e \in snReq'[o].seen : e.id = i
                             /\ snReq'[o].at \in {"create", "write", "rename"} =>
                                  Cardinality(Present(snFiles')) < SnMax
      BY <2>11 DEF SnSeen
    <3>1. Cardinality(Present(snFiles')) <= SnMax /\ Cardinality(Present(snDurable')) <= SnMax
      BY <1>3, <2>9, <2>11, SnapshotBounds DEF SnInv, SnSeen
    <3>2. ~snHungUp
      BY <1>3
    <3>3. ASSUME NEW o \in SnRequests \ {r} PROVE snReq'[o].at \notin {"stat", "evict", "create", "write", "rename"}
      BY <2>4, <3>2 DEF SnBusy, Publishing
    <3>4. snReq'[r].at = "evict" /\ snReq'[r].seen = q.seen
      BY <2>2, <2>4
    <3> QED BY <2>10, <3>1, <3>2, <3>3, <3>4
  <2> QED BY <2>6, <2>7, <2>12 DEF SnInv
<1> QED BY <1>1, <1>2, <1>4, <1>5 DEF Evict

\* The store stays, the file of one request does not.
LEMMA SnFileGrows ==
  ASSUME SnInv, NEW r \in SnRequests, NEW to \in {"write", "rename"}, SnMove(r, to),
         NEW much \in {"part", "all"}, snWrote' = [snWrote EXCEPT ![r] = much],
         \/ to = "write" /\ snReq[r].at = "create"
         \/ to = "rename" /\ snReq[r].at = "write" /\ much = "all",
         snStaging' \in [SnIds -> SnRequests \cup {"none"}],
         ~snHungUp /\ snReq[r].id \in SnIds => snStaging'[snReq[r].id] = r,
         UNCHANGED <<snFiles, snDurable, snCollecting, snHungUp>>
  PROVE  SnInv'
<1>1. PICK p : p = snReq[r]
  OBVIOUS
<1>2. PICK q : q = [p EXCEPT !.at = to]
  OBVIOUS
<1>3. p \in SnReqs /\ to \in SnAts /\ p.at \in Publishing /\ to \in Publishing
  BY <1>1, SnFields DEF SnAts, SnBusy, Publishing
<1>4. q \in SnReqs /\ q.at = to /\ q.here = p.here /\ q.id = p.id
  BY <1>2, <1>3 DEF SnReqs
<1>5. snReq' = [snReq EXCEPT ![r] = q]
  BY <1>1, <1>2, <1>3, SnMoves
<1>6. /\ snReq' \in [SnRequests -> SnReqs] /\ snReq'[r] = q
      /\ \A o \in SnRequests \ {r} : snReq'[o] = snReq[o]
      /\ ~snHungUp => \A o \in SnRequests \ {r} : snReq[o].at \notin SnBusy
  BY <1>1, <1>3, <1>4, <1>5, SnOneSteps DEF SnBusy
<1>7. snWrote' \in [SnRequests -> {"none", "part", "all"}] /\ snWrote'[r] = much
      /\ \A o \in SnRequests \ {r} : snWrote'[o] = snWrote[o]
  BY DEF SnInv, SnShapes
<1>8. SnShapes'
  BY <1>6, <1>7 DEF SnInv, SnShapes
<1>9. SnTurns'
  BY <1>1, <1>3, <1>4, <1>5, SnTurnsStay
<1>10. SnWritten'
  BY <1>1, <1>4, <1>6, <1>7 DEF SnInv, SnWritten, SnBusy, Publishing
<1>11. SnWhole'
  BY <1>1, <1>7 DEF SnInv, SnWhole, Whole, SnWritten
<1>12. SnSeen'
  BY <1>1, <1>4, <1>6 DEF SnInv, SnSeen, Present, SnBusy, Publishing
<1> QED BY <1>8, <1>9, <1>10, <1>11, <1>12 DEF SnInv

LEMMA SnCreates == ASSUME SnInv, NEW r \in SnRequests, CreateStaging(r) PROVE SnInv'
  BY SnFileGrows, SnEnds DEF CreateStaging, SnInv, SnShapes, Publishing

LEMMA SnWrites == ASSUME SnInv, NEW r \in SnRequests, WriteStaging(r) \/ WriteFails(r) PROVE SnInv'
  BY SnFileGrows, SnEnds DEF WriteStaging, SnInv, SnShapes, SnWritten, WriteFails, Publishing

LEMMA SnPublishes == ASSUME SnInv, NEW r \in SnRequests, Publish(r) PROVE SnInv'
  BY SnEnds DEF Publish, Publishing, SnInv, SnShapes

\* The file is put in place: it is the request's own, written to its end, and there was room for it.
LEMMA SnRenames == ASSUME SnInv, NEW r \in SnRequests, Rename(r) PROVE SnInv'
<1>1. PICK p : p = snReq[r]
  OBVIOUS
<1>2. /\ p \in SnReqs /\ p.at = "rename" /\ UNCHANGED <<snWrote, snDurable, snHungUp>>
      /\ snStaging' = [snStaging EXCEPT ![p.id] = "none"]
  BY <1>1, SnFields DEF Rename
<1>3. snStaging' \in [SnIds -> SnRequests \cup {"none"}]
  BY <1>2 DEF SnInv, SnShapes
<1>4. CASE Ends(r, "refused") /\ UNCHANGED snFiles
  BY <1>1, <1>2, <1>3, <1>4, SnEnds DEF Publishing
<1>5. CASE /\ snFiles' = [snFiles EXCEPT ![p.id] = snStaging[p.id]] /\ SnMove(r, "sync") /\ UNCHANGED snCollecting
  <2>1. PICK q : q = [p EXCEPT !.at = "sync"]
    OBVIOUS
  <2>2. q \in SnReqs /\ q.at = "sync" /\ q.here = p.here /\ "sync" \in SnAts
    BY <1>2, <2>1 DEF SnReqs, SnAts, SnBusy, Publishing
  <2>3. snReq' = [snReq EXCEPT ![r] = q]
    BY <1>1, <1>5, <2>1, <2>2, SnMoves
  <2>4. /\ snReq' \in [SnRequests -> SnReqs] /\ snReq'[r] = q
        /\ \A o \in SnRequests \ {r} : snReq'[o] = snReq[o]
        /\ ~snHungUp => \A o \in SnRequests \ {r} : snReq[o].at \notin SnBusy
    BY <1>1, <1>2, <2>2, <2>3, SnOneSteps DEF SnBusy, Publishing
  <2>5. snFiles' \in SnDirs /\ \A i \in SnIds : snFiles'[i] = IF i = p.id THEN snStaging[i] ELSE snFiles[i]
    BY <1>5 DEF SnInv, SnShapes, SnDirs
  <2>6. SnShapes'
    BY <1>2, <1>3, <1>5, <2>4, <2>5 DEF SnInv, SnShapes
  <2>7. SnTurns'
    BY <1>1, <1>2, <1>5, <2>2, <2>3, SnTurnsStay DEF Publishing
  <2>8. SnWritten'
    BY <2>4, <1>2, <2>2 DEF SnBusy, Publishing, SnInv, SnWritten
  <2>9. ASSUME ~snHungUp, NEW i \in SnIds, snFiles'[i] \in SnRequests PROVE snWrote[snFiles'[i]] = "all"
    BY <1>1, <1>2, <2>5, <2>9 DEF SnInv, SnWhole, Whole, SnWritten
  <2>10. SnWhole'
    BY <1>2, <2>9 DEF SnInv, SnWhole, Whole
  <2>11. Present(snFiles') \subseteq Present(snFiles) \cup {p.id}
    BY <2>5 DEF Present
  <2>12. Cardinality(Present(snFiles')) \in Nat /\ Cardinality(Present(snFiles)) \in Nat
         /\ Cardinality(Present(snFiles')) <= Cardinality(Present(snFiles)) + 1
    BY <2>5, <2>11, PresentOneMore DEF SnInv, SnShapes
  <2>13. (Present(snFiles))' = Present(snFiles') /\ (Present(snDurable))' = Present(snDurable)
    BY <1>2 DEF Present
  <2>14. ASSUME ~snHungUp PROVE Cardinality(Present(snFiles')) <= SnMax /\ Cardinality(Present(snDurable)) <= SnMax
    BY <1>1, <1>2, <2>12, <2>14, SnapshotBounds DEF SnInv, SnSeen
  <2>15. ASSUME ~snHungUp, NEW o \in SnRequests
         PROVE  snReq'[o].at \notin {"stat", "evict", "create", "write", "rename"}
    BY <2>2, <2>4, <2>15 DEF SnBusy, Publishing
  <2>16. SnSeen'
    BY <1>2, <2>13, <2>14, <2>15 DEF SnSeen
  <2> QED BY <2>6, <2>7, <2>8, <2>10, <2>16 DEF SnInv
<1> QED BY <1>1, <1>4, <1>5 DEF Rename

LEMMA SnDeletes1 == ASSUME SnInv, NEW i \in SnIds, DeleteSnapshot(i) PROVE SnInv'
<1>1. /\ snFiles' = [snFiles EXCEPT ![i] = "none"] /\ snDurable' = snFiles'
      /\ UNCHANGED <<snStaging, snWrote, snCollecting, snReq, snHungUp>>
  BY DEF DeleteSnapshot
<1>2. snFiles' \in SnDirs /\ \A j \in SnIds : snFiles'[j] = IF j = i THEN "none" ELSE snFiles[j]
  BY <1>1 DEF SnInv, SnShapes, SnDirs
<1>3. SnShapes' /\ SnTurns' /\ SnWritten'
  BY <1>1, <1>2 DEF SnInv, SnShapes, SnTurns, SnWritten
<1>4. SnWhole'
  BY <1>1, <1>2, SnapshotBounds DEF SnInv, SnWhole, Whole
<1>5. Present(snFiles') \subseteq Present(snFiles)
  BY <1>2 DEF Present
<1>6. Cardinality(Present(snFiles')) \in Nat /\ Cardinality(Present(snFiles)) \in Nat
      /\ Cardinality(Present(snFiles')) <= Cardinality(Present(snFiles))
  BY <1>2, <1>5, PresentFewer DEF SnInv, SnShapes
<1>7. (Present(snFiles))' = Present(snFiles') /\ (Present(snDurable))' = Present(snFiles')
  BY <1>1 DEF Present
<1>8. ASSUME ~snHungUp PROVE Cardinality(Present(snFiles')) <= SnMax
  BY <1>6, <1>8, SnapshotBounds DEF SnInv, SnSeen
<1>9. ASSUME ~snHungUp, NEW r \in SnRequests
      PROVE  /\ snReq[r].at = "stat" => Present(snFiles') \subseteq snReq[r].names
             /\ snReq[r].at = "evict" =>
                  IsFiniteSet(snReq[r].seen) /\ \A j \in Present(snFiles') : \E e \in snReq[r].seen : e.id = j
             /\ snReq[r].at \in {"create", "write", "rename"} => Cardinality(Present(snFiles')) < SnMax
  BY <1>5, <1>6, <1>9, SnapshotBounds DEF SnInv, SnSeen
<1>10. SnSeen'
  BY <1>1, <1>7, <1>8, <1>9 DEF SnSeen
<1> QED BY <1>3, <1>4, <1>10 DEF SnInv

LEMMA SnCut == ASSUME SnInv, SnPowerCut PROVE SnInv'
<1>1. /\ snFiles' \in {snFiles, snDurable} /\ snDurable' = snFiles' /\ snCollecting' = "none"
      /\ UNCHANGED <<snStaging, snWrote, snHungUp>>
  BY DEF SnPowerCut
<1>2. ASSUME NEW r \in SnRequests
      PROVE  /\ snReq'[r] \in SnReqs /\ snReq'[r].at \in {"idle", "gone"}
             /\ snReq'[r].at = "idle" => snReq'[r] = snReq[r]
  BY SnFields, SnIdleIs DEF SnPowerCut, SnAts, SnReqs
<1>3. snReq' \in [SnRequests -> SnReqs]
  BY <1>2 DEF SnPowerCut
<1>4. SnShapes'
  BY <1>1, <1>3 DEF SnInv, SnShapes
<1>5. SnTurns' /\ SnWritten'
  BY <1>1, <1>2, SnapshotBounds DEF SnInv, SnTurns, SnWritten, SnBusy, Publishing
<1>6. SnWhole'
  BY <1>1 DEF SnInv, SnWhole, Whole
<1>7. SnSeen'
  BY <1>1, <1>2 DEF SnInv, SnSeen, Present
<1> QED BY <1>4, <1>5, <1>6, <1>7 DEF SnInv

LEMMA SnKept == SnInv /\ [SnNext]_snVars => SnInv'
<1> SUFFICES ASSUME SnInv, [SnNext]_snVars PROVE SnInv'
  OBVIOUS
<1>1. CASE UNCHANGED snVars
  BY <1>1 DEF snVars, SnInv, SnShapes, SnTurns, SnWritten, SnWhole, Whole, SnSeen, Present
<1> QED BY <1>1, SnBegins, SnBusyAnswer, SnSection, SnCollected, SnLeaves, SnSweeps, SnListsNames, SnLists, SnEvicts,
           SnUnlinks, SnCreates, SnWrites, SnRenames, SnPublishes, SnDeletes1, SnCut DEF SnNext

\* While no client has left a publication behind, what the store lists is written to its end, through
\* every deletion and cut, and is no more than MAX_SNAPSHOTS; and nothing private is ever in it, nor a
\* collection past its deadline, whoever left.
THEOREM SnapshotsAreWhole == SnSpec => [](SnTypeOK /\ ListedAreWhole /\ WithinCount /\ Shareable)
<1>1. SnInv => ListedAreWhole /\ WithinCount
  BY DEF Listed, Present, ListedAreWhole, WithinCount, SnInv, SnWhole, Whole, SnSeen, SnShapes, SnDirs
<1>2. SnInv => Shareable
  BY SnFields, HoldsNothingPrivate, SnapshotBounds DEF SnReqs, Listed, SnInv, SnShapes, SnDirs, Shareable
<1>3. SnInv => SnTypeOK
  BY DEF SnInv, SnShapes, SnDirs, SnTypeOK
<1> QED BY <1>1, <1>2, <1>3, SnStarts, SnKept, PTL DEF SnSpec

-----------------------------------------------------------------------------
(***************************************************************************)
(* The device: its parts take their own steps, side by side.               *)
(***************************************************************************)
\* A behaviour of the device is one of the start and one of the apps.
LEMMA DeviceHasItsParts == DeviceSpec => DevSpec /\ AppSpec
<1>1. DeviceInit => DevInit /\ AppInit
  BY DEF DeviceInit
<1>2. [DeviceNext]_<<vars, fwVars, ovVars, devVars, appVars, snVars, pwVars, idVars, part>>
        => [DevNext]_devVars /\ [AppNext]_appVars
  BY DEF DeviceNext
<1> QED BY <1>1, <1>2, PTL DEF DeviceSpec, DevSpec, AppSpec

\* What the starts of a device and the images it boots never take back.
THEOREM DeviceKeepsItsPromises == DeviceSpec => DevicePromises
  BY DeviceHasItsParts, StartKeepsPromises, SeedsSpareTheUser, PTL DEF DevicePromises
==============================================================================
