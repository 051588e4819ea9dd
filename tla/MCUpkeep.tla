------------------------------ MODULE MCUpkeep ------------------------------
(* Components that must come to an end or return what they took, side by     *)
(* side: runkit's boot, the hold of a provisioning session, its radio, and   *)
(* the release of the storage at shutdown.  They share no state; `part` says *)
(* which of them a behaviour is about, and the others keep an initial state. *)
EXTENDS RunkitBoot, ProvisioningHold, ProvisioningRadio, StorageRelease, TLC

CONSTANTS s1, n1, n2

VARIABLE part

-----------------------------------------------------------------------------
(* Two deployments, the newer on trial or confirmed, and up to two of the    *)
(* things a boot needs damaged.                                              *)
MCEntries == {[d \in {1, 2} |-> IF d = 1 THEN RkConfirmed ELSE n] : n \in {2, RkConfirmed}}
MCKinds ==
  ({"early", "policy", "envelope", "root", "support", "exitrd", "exitrdElf", "init"} \X {1, 2})
    \cup ({"system", "data", "identity", "core", "pendingGone", "pendingShadows", "currentGone"} \X {0})
MCDamages ==
  {{}} \cup {{k} : k \in MCKinds} \cup {{<<"root", 2>>, k} : k \in MCKinds}
       \cup {{<<"pendingShadows", 0>>, k} : k \in MCKinds}

(* The root on a verity mapping of a file on the system partition, which is  *)
(* mounted below it, and another image mounted from a file on that partition. *)
MCMounts == {"system", "root", "srv"}
MCParent == [system |-> "root", root |-> "root", srv |-> "system"]
MCDevice == [system |-> "p1", root |-> "v1", srv |-> "l2"]
MCLoops == {"l1", "l2"}
MCBacking == [l1 |-> "p1", l2 |-> "p1"]
MCMaps == {"v1"}
MCSlave == [v1 |-> "l1"]

(* The controller is found with a range above or below the fast one.         *)
MCRanges == {[min |-> 5, max |-> 6], [min |-> 1, max |-> 2]}
MCFast == [min |-> 3, max |-> 4]

-----------------------------------------------------------------------------
Init ==
  /\ part \in {"runkit", "hold", "radio", "release"}
  /\ RkInit /\ HoldInit /\ RdInit /\ RelInit
  /\ part # "runkit" => /\ rkDamage = {} /\ rkTrial = 0 /\ rkStorage = "gpt"
                        /\ \A d \in RkDeployments : rkEntry[d] = RkConfirmed
  /\ part # "hold" => ~stores.claimed
  /\ part # "radio" => enabled /\ found = CHOOSE r \in RdRanges : TRUE
  /\ part # "release" => ~dirty

Next ==
  \/ part = "runkit" /\ RkNext /\ UNCHANGED <<holdVars, rdVars, relVars, part>>
  \/ part = "hold" /\ HoldNext /\ UNCHANGED <<rkVars, rdVars, relVars, part>>
  \/ part = "radio" /\ RdNext /\ UNCHANGED <<rkVars, holdVars, relVars, part>>
  \/ part = "release" /\ RelNext /\ UNCHANGED <<rkVars, holdVars, rdVars, part>>

vars == <<rkVars, holdVars, rdVars, relVars, part>>

(* The fairness of RkSpec, HoldSpec and RelSpec, each for its own part.      *)
In(p, A) == part = p /\ A

Spec ==
  /\ Init /\ [][Next]_vars
  /\ WF_rkVars(In("runkit", RkNext))
  /\ WF_holdVars(In("hold", TaskStep)) /\ WF_holdVars(In("hold", IdleEnds))
  /\ WF_holdVars(In("hold", AwayTooLong))
  /\ WF_relVars(In("release", Tick))

-----------------------------------------------------------------------------
\* RunkitBoot!RestartsEnd and ComesUpAtLast, ProvisioningHold!WifiUnlocks,
\* StorageRelease!ShutdownEnds and NotStuck, each in the behaviours about it: the
\* device does not restart for ever, and one that has something sound to boot comes
\* up; no provisioning session keeps Wi-Fi from the console for ever; every shutdown
\* ends, by the terminal action or by the watchdog, and does not give up on what
\* another pass would release.
UpkeepEnds ==
  /\ part = "runkit" => RestartsEnd /\ ComesUpAtLast
  /\ part = "hold" => WifiUnlocks
  /\ part = "release" => ShutdownEnds /\ []NotStuck
=============================================================================
