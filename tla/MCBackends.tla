----------------------------- MODULE MCBackends -----------------------------
(* The same store on a board whose firmware keeps the boot entries (UEFI)    *)
(* and on one that keeps them in two redundant copies (FIT): `part` says     *)
(* which of the two a behaviour is about.  There are three system releases   *)
(* and core sets of the general channel and of another.  d3 reuses the root  *)
(* of d2; the image of d2 carries a newer general set, so installing d2 on a *)
(* device that follows general makes a pair, and that of d3 a third one      *)
(* where it is among the sets.  The FIT device has one core set; the         *)
(* properties are the same formulas on both devices, so the two share every  *)
(* other constant.                                                           *)
EXTENDS Deployments

CONSTANTS d1, d2, d3, s1, s2, s3, x1, general, edge, Parts

VARIABLE part

MCGeneration == [d \in Deployments |-> CASE d = d1 -> 1 [] d = d2 -> 2 [] OTHER -> 3]
MCChannel == [s \in Sets |-> IF s = x1 THEN edge ELSE general]
MCSetGeneration == [s \in Sets |-> CASE s = s2 -> 2 [] s = s3 -> 3 [] OTHER -> 1]
MCImageSet == [d \in Deployments |->
  CASE d = Factory -> FactorySet
    [] d = d2 /\ s2 \in Sets -> s2
    [] d = d3 /\ s3 \in Sets -> s3
    [] OTHER -> None]
\* The newer general set does not run on the oldest root.
MCRuns == (Sets \X Deployments) \ {<<s2, d1>>}
MCObjectsOf == [d \in Deployments |->
  CASE d = d1 -> {"root1", "kernel1"}
    [] d = d2 -> {"root2", "kernel1"}
    [] OTHER  -> {"root2", "kernel2"}]
MCComponentsOf == [s \in Sets |->
  CASE s = s1 -> {"core1"} [] s = s2 -> {"core2"} [] s = s3 -> {"core3"}
    [] OTHER -> {"core1", "extra"}]

FitSets == {s1}

Fit == INSTANCE Deployments WITH
  Backend <- "fit",
  Sets <- FitSets,
  Channel <- [s \in FitSets |-> general],
  SetGeneration <- [s \in FitSets |-> 1],
  ImageSet <- [d \in Deployments |-> IF d = Factory THEN s1 ELSE None],
  Runs <- FitSets \X Deployments,
  ComponentsOf <- [s \in FitSets |-> {"core1"}]

-----------------------------------------------------------------------------
BackendsInit ==
  \/ "uefi" \in Parts /\ part = "uefi" /\ Init
  \/ "fit" \in Parts /\ part = "fit" /\ Fit!Init

BackendsNext ==
  \/ part = "uefi" /\ Next /\ UNCHANGED part
  \/ part = "fit" /\ Fit!Next /\ UNCHANGED part

BackendsSpec == BackendsInit /\ [][BackendsNext]_<<vars, part>>

(* The fairness of Deployments!FairSpec, for the UEFI device.                *)
Uefi(A) == part = "uefi" /\ A

FairBackends ==
  /\ BackendsSpec
  /\ WF_vars(Uefi(BootSteps))
  /\ WF_vars(Uefi(Operation /\ Next))
  /\ SF_vars(Uefi(HealthVerdict))

=============================================================================
