------------------------------ MODULE NetworkUnits ------------------------------
(***************************************************************************)
(* The networkd reconciler: one network apply at the grain of the files it *)
(* replaces, the keys it writes, the devices networkd builds from them and *)
(* the rollback of an apply that does not come up.                         *)
(*                                                                         *)
(* A map declares a port (`text` of its .network file, 0 when it is not    *)
(* declared, Bad for one the rules refuse) and a WireGuard tunnel (`text`  *)
(* of its .network and .netdev, and its peer's pre-shared key, 0 for       *)
(* none).  A .netdev names the files of the private key and of the         *)
(* pre-shared key; networkd reads both when it creates the device.         *)
(***************************************************************************)
EXTENDS Naturals

CONSTANTS NuWrites,      \* bound: maps written and keys rotated
          NuFaults       \* bound: failures, restarts and reboots

VARIABLES netWant,       \* settings.network
          netApplied,    \* applied_network of this process, or NoMap
          netUnits,      \* 50-mica-* files: the port's, the tunnel's
          pskFile,       \* the pre-shared key's file in /run, 0 for none
          keyFile,       \* the private key's file on STATE, 0 for none
          tunnel,        \* the device networkd built, or NoDevice
          netFirst,      \* an apply of this process has reloaded networkd
          netDue,        \* a task waits for the apply lock
          netJob,        \* who holds the apply lock, and where it is
          netEnd,        \* how the last apply ended
          nuUsed         \* how much of the bounds is used

nuVars == <<netWant, netApplied, netUnits, pskFile, keyFile, tunnel, netFirst, netDue,
            netJob, netEnd, nuUsed>>

Bad == 3

NoTunnel == [text |-> 0, psk |-> 0]

NetMaps == [port : 0..Bad, wg : {NoTunnel} \cup [text : 1..2, psk : 0..2]]

NoMap == [port |-> 0, wg |-> [text |-> 0, psk |-> 9]]

\* `stale` notes, for the properties, a device that was to be deleted and that
\* is still there because the deletion failed or was never reached.
NoDevice == [netdev |-> <<0, FALSE>>, psk |-> 0, key |-> 0, stale |-> FALSE]

Stale(t) == IF t = NoDevice THEN t ELSE [t EXCEPT !.stale = TRUE]

\* The .netdev of a tunnel: its text, and whether it names a pre-shared key.
Netdev(wg) == <<wg.text, wg.psk # 0>>

NoNetdev == Netdev(NoTunnel)

UnitsOf(map) == [port |-> map.port, network |-> map.wg.text, netdev |-> Netdev(map.wg)]

NoNetJob == [pc |-> "idle", attempted |-> NoMap, map |-> NoMap, before |-> UnitsOf(NoMap),
          rekeyed |-> FALSE, rotation |-> FALSE]

NuInit == /\ netWant = [port |-> 1, wg |-> NoTunnel]
          /\ netApplied = NoMap
          /\ netUnits = UnitsOf([port |-> 0, wg |-> NoTunnel])
          /\ pskFile = 0
          /\ keyFile = 0
          /\ tunnel = NoDevice
          /\ netFirst = FALSE
          /\ netDue = TRUE
          /\ netJob = NoNetJob
          /\ netEnd = "none"
          /\ nuUsed = [writes |-> 0, faults |-> 0, keys |-> 0]

NuFaulty == /\ nuUsed.faults < NuFaults
            /\ nuUsed' = [nuUsed EXCEPT !.faults = @ + 1]

\* A write is stored without the apply lock and queues a task.
NetWrite ==
  /\ nuUsed.writes < NuWrites
  /\ \E map \in NetMaps : netWant' = map
  /\ nuUsed' = [nuUsed EXCEPT !.writes = @ + 1]
  /\ netDue' = TRUE
  /\ UNCHANGED <<netApplied, netUnits, pskFile, keyFile, tunnel, netFirst, netJob, netEnd>>

NetJobGoes(pc) == netJob' = [netJob EXCEPT !.pc = pc]

\* The worker takes the lock and notes the map it attempts; the reconciler
\* reads the settings again.
TakeApplyLock ==
  /\ netJob = NoNetJob
  /\ netDue
  /\ netJob' = [NoNetJob EXCEPT !.pc = "read", !.attempted = netWant]
  /\ netDue' = FALSE
  /\ UNCHANGED <<netWant, netApplied, netUnits, pskFile, keyFile, tunnel, netFirst, netEnd,
                 nuUsed>>

\* The end of the apply: the live state says how, a map that came up is the
\* applied one, and the worker stores it again in place of one rolled back.
EndApply(how) ==
  LET restores == /\ how = "rolled_back" /\ ~netJob.rotation
                  /\ netApplied # NoMap /\ netWant = netJob.attempted
  IN /\ netEnd' = how
     /\ netApplied' = IF how = "applied" THEN netJob.map ELSE netApplied
     /\ netWant' = IF restores THEN netApplied ELSE netWant
     /\ netJob' = NoNetJob

\* validate_network, before anything is written.
ReadAndValidate ==
  /\ netJob.pc = "read"
  /\ IF netWant.port = Bad
     THEN /\ EndApply("failed")
     ELSE /\ netJob' = [netJob EXCEPT !.pc = "psks", !.map = netWant]
          /\ UNCHANGED <<netWant, netApplied, netEnd>>
  /\ UNCHANGED <<netUnits, pskFile, keyFile, tunnel, netFirst, netDue, nuUsed>>

\* sync_psks.
SyncPsks ==
  /\ netJob.pc = "psks"
  /\ pskFile' = netJob.map.wg.psk
  /\ netJob' = [netJob EXCEPT !.pc = "files", !.rekeyed = pskFile # netJob.map.wg.psk]
  /\ UNCHANGED <<netWant, netApplied, netUnits, keyFile, tunnel, netFirst, netDue, netEnd, nuUsed>>

\* The key a declared tunnel has, or a fresh one.
EnsureKey(wg) == IF wg # NoTunnel /\ keyFile = 0 THEN nuUsed.keys + 1 ELSE keyFile

\* Keystore::ensure, then replace_files: the new files, then the removals.
ReplaceFiles ==
  /\ netJob.pc = "files"
  /\ keyFile' = EnsureKey(netJob.map.wg)
  /\ nuUsed' = [nuUsed EXCEPT !.keys = IF keyFile' # keyFile THEN @ + 1 ELSE @]
  /\ netUnits' = UnitsOf(netJob.map)
  /\ netJob' = [netJob EXCEPT !.pc = "devices", !.before = netUnits]
  /\ UNCHANGED <<netWant, netApplied, pskFile, tunnel, netFirst, netDue, netEnd>>

\* It fails part of the way: some of the files are new.  The next apply finds
\* the pre-shared key in place and has no reason to rebuild the device.
ReplaceFilesFails ==
  /\ netJob.pc = "files"
  /\ NuFaulty
  /\ netUnits' = [netUnits EXCEPT !.port = netJob.map.port]
  /\ EndApply("failed")
  /\ tunnel' = IF netJob.rekeyed THEN Stale(tunnel) ELSE tunnel
  /\ UNCHANGED <<pskFile, keyFile, netFirst, netDue>>

\* Mutant: a device whose pre-shared key alone changed is kept.
ToDeleteUnkeyed ==
  netJob.before.netdev # NoNetdev /\ netJob.before.netdev # netUnits.netdev

\* The devices torn down, and those whose .netdev or pre-shared key changed.
ToDelete == /\ netJob.before.netdev # NoNetdev
            /\ netJob.before.netdev # netUnits.netdev \/ netJob.rekeyed

DeleteDevices ==
  /\ netJob.pc = "devices"
  /\ tunnel' = IF ToDelete THEN NoDevice ELSE tunnel
  /\ NetJobGoes("reload")
  /\ UNCHANGED <<netWant, netApplied, netUnits, pskFile, keyFile, netFirst, netDue, netEnd, nuUsed>>

\* A device that cannot be deleted is logged, and the apply goes on.
DeleteFails ==
  /\ netJob.pc = "devices" /\ ToDelete /\ tunnel # NoDevice
  /\ NuFaulty
  /\ tunnel' = Stale(tunnel)
  /\ NetJobGoes("reload")
  /\ UNCHANGED <<netWant, netApplied, netUnits, pskFile, keyFile, netFirst, netDue,
                 netEnd>>

\* networkd: a device its files declare and that is not there is created, with
\* the keys the files hold then.
Built(units, psk, key) ==
  IF units.netdev = NoNetdev THEN NoDevice
  ELSE [netdev |-> units.netdev, psk |-> IF units.netdev[2] THEN psk ELSE 0, key |-> key,
        stale |-> FALSE]

Reload ==
  /\ netJob.pc = "reload"
  /\ tunnel' = IF tunnel = NoDevice THEN Built(netUnits, pskFile, keyFile) ELSE tunnel
  /\ NetJobGoes("settle")
  /\ UNCHANGED <<netWant, netApplied, netUnits, pskFile, keyFile, netFirst, netDue, netEnd, nuUsed>>

\* networkd does not take the files, or a key that is not needed cannot be
\* removed at the end.
ReloadFails ==
  /\ netJob.pc \in {"reload", "reload_back", "retain"}
  /\ NuFaulty
  /\ EndApply("failed")
  /\ UNCHANGED <<netUnits, pskFile, keyFile, tunnel, netFirst, netDue>>

\* What networkd describes of a link.
Links == [there : BOOLEAN, admin : {"failed", "unmanaged", "configured", "configuring"},
          carrier : BOOLEAN, oper : {"routable", "off"}]

\* settle.rs: a link that is not there is settled unless networkd creates it; a
\* port without a carrier waits for its cable and is not a failure.
Verdict(link, created) ==
  CASE ~link.there -> IF created THEN "pending" ELSE "settled"
    [] link.there /\ link.admin \in {"failed", "unmanaged"} -> "failed"
    [] link.there /\ link.admin = "configured" -> "settled"
    [] OTHER -> IF ~link.carrier \/ link.oper = "routable" THEN "settled" ELSE "pending"

\* The interfaces waited for: those whose files changed, and whether networkd
\* creates them.
Awaited == (IF netUnits.port # netJob.before.port /\ netUnits.port # 0 THEN {FALSE} ELSE {})
           \cup (IF /\ netUnits.network # 0
                    /\ \/ netUnits.network # netJob.before.network
                       \/ netUnits.netdev # netJob.before.netdev
                 THEN {TRUE} ELSE {})

\* The first apply of a process and one that changed no declared interface are
\* not waited for; otherwise each has come up within the timeout.
Settled ==
  /\ netJob.pc = "settle"
  /\ netFirst => \A created \in Awaited : \E link \in Links : Verdict(link, created) = "settled"
  /\ netFirst' = TRUE
  /\ NetJobGoes("retain")
  /\ UNCHANGED <<netWant, netApplied, netUnits, pskFile, keyFile, tunnel, netDue, netEnd, nuUsed>>

\* It failed or did not come up in time: the previous files go back, and a
\* device whose .netdev they change is deleted.
SettleFails ==
  /\ netJob.pc = "settle"
  /\ netFirst
  /\ \E created \in Awaited, link \in Links : Verdict(link, created) # "settled"
  /\ NuFaulty
  /\ netUnits' = netJob.before
  /\ tunnel' = IF netUnits.netdev # netJob.before.netdev THEN NoDevice ELSE tunnel
  /\ NetJobGoes("reload_back")
  /\ UNCHANGED <<netWant, netApplied, pskFile, keyFile, netFirst, netDue, netEnd>>

ReloadBack ==
  /\ netJob.pc = "reload_back"
  /\ tunnel' = IF tunnel = NoDevice THEN Built(netUnits, pskFile, keyFile) ELSE tunnel
  /\ EndApply("rolled_back")
  /\ UNCHANGED <<netUnits, pskFile, keyFile, netFirst, netDue, nuUsed>>

\* retain_keys: the keys of the tunnels a map declares.
KeysRetained(map) == IF map.wg = NoTunnel THEN 0 ELSE keyFile

\* Only now: a rollback puts back netdevs that name the keys.
RetainKeys ==
  /\ netJob.pc = "retain"
  /\ keyFile' = KeysRetained(netJob.map)
  /\ EndApply("applied")
  /\ UNCHANGED <<netUnits, pskFile, tunnel, netFirst, netDue, nuUsed>>

(***************************************************************************)
(* RotateWireguardKey, under the apply lock: a new key, the device that    *)
(* carries the old one deleted, and an apply of its own, which nothing     *)
(* restores.                                                               *)
(***************************************************************************)
RotateKey ==
  /\ netJob = NoNetJob
  /\ nuUsed.writes < NuWrites
  /\ netWant.wg # NoTunnel
  /\ keyFile' = nuUsed.keys + 1
  /\ nuUsed' = [nuUsed EXCEPT !.writes = @ + 1, !.keys = @ + 1]
  /\ netJob' = [NoNetJob EXCEPT !.pc = "delete_old", !.rotation = TRUE]
  /\ UNCHANGED <<netWant, netApplied, netUnits, pskFile, tunnel, netFirst, netDue, netEnd>>

DeleteOld ==
  /\ netJob.pc = "delete_old"
  /\ tunnel' = NoDevice
  /\ NetJobGoes("read")
  /\ UNCHANGED <<netWant, netApplied, netUnits, pskFile, keyFile, netFirst, netDue, netEnd, nuUsed>>

\* The rotation fails, with the new key in place and the device on the old one.
DeleteOldFails ==
  /\ netJob.pc = "delete_old"
  /\ NuFaulty
  /\ netJob' = NoNetJob
  /\ tunnel' = Stale(tunnel)
  /\ UNCHANGED <<netWant, netApplied, netUnits, pskFile, keyFile, netFirst, netDue,
                 netEnd>>

\* micad starts again: its startup apply is the process's first.  It does not
\* know of a device its predecessor was about to delete.
NetRestart ==
  /\ NuFaulty
  /\ tunnel' = IF netJob.pc \in {"files", "devices", "delete_old"} THEN Stale(tunnel)
               ELSE tunnel
  /\ netJob' = NoNetJob
  /\ netApplied' = NoMap
  /\ netFirst' = FALSE
  /\ netDue' = TRUE
  /\ UNCHANGED <<netWant, netUnits, pskFile, keyFile, netEnd>>

\* The device starts again: networkd builds what the kept files declare while
\* the pre-shared keys, in /run, are not there.
NetBoot ==
  /\ NuFaulty
  /\ netJob' = NoNetJob
  /\ netApplied' = NoMap
  /\ netFirst' = FALSE
  /\ netDue' = TRUE
  /\ pskFile' = 0
  /\ tunnel' = Built(netUnits, 0, keyFile)
  /\ UNCHANGED <<netWant, netUnits, keyFile, netEnd>>

NuNext ==
  \/ NetWrite \/ TakeApplyLock \/ ReadAndValidate \/ SyncPsks \/ ReplaceFiles
  \/ ReplaceFilesFails \/ DeleteDevices \/ DeleteFails \/ Reload \/ ReloadFails
  \/ Settled \/ SettleFails \/ ReloadBack \/ RetainKeys
  \/ RotateKey \/ DeleteOld \/ DeleteOldFails \/ NetRestart \/ NetBoot

--------------------------------------------------------------------------------
NetQuiet == netJob = NoNetJob /\ ~netDue

RunsOn(wg) == tunnel = Built(UnitsOf([port |-> 0, wg |-> wg]), wg.psk, keyFile)

\* Once a network apply has succeeded and nothing waits, the tunnel that runs is
\* the one the settings store, with its pre-shared key and the private key whose
\* public half was published, whatever was rotated, restarted, rolled back or
\* failed on the way.  A device that could not be deleted excepted.
TunnelAsStored ==
  NetQuiet /\ netEnd = "applied" /\ ~tunnel.stale => RunsOn(netWant.wg)

\* "a rollback puts back netdevs that name these key files": a .netdev in place
\* never names a private key that is gone.
KeysKept == netUnits.netdev # NoNetdev => keyFile # 0

\* restore_network: "store `applied` again in place of the `attempted` map it
\* could not bring up, so the stored map is the one running".
RolledBackMapRuns ==
  NetQuiet /\ netEnd = "rolled_back" /\ ~tunnel.stale /\ netWant = netApplied
    => RunsOn(netWant.wg)

\* A tunnel runs with the keys and peers stored for it, and none of its keys is
\* lost while it is declared.
TunnelSafe == TunnelAsStored /\ KeysKept

=============================================================================
