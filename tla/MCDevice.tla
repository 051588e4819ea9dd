------------------------------ MODULE MCDevice ------------------------------
(* What a device keeps on its media, side by side: the boot environment, the *)
(* firmware, the volumes of the store, the start of the system with its      *)
(* resets, the apps, diagnostic snapshots, the transient root password and   *)
(* the TLS identity.  They share no state; `part` says which of them a       *)
(* behaviour is about, and the others keep an initial state.                 *)
EXTENDS BootEnvironment, FirmwareReadback, ObjectVolumes, DeviceStart, AppFlow,
        SnapshotStore, DeviceCredentials

CONSTANTS A, B   \* two deployments

VARIABLE part

-----------------------------------------------------------------------------
(* The lists an update writes, in order, and lists the renderer refuses:     *)
(* none at all, and two of one generation.                                   *)
Entry(id, generation, tries) ==
  [id |-> id, generation |-> generation, tries |-> tries]

MCLists ==
  { << Entry(A, 1, None) >>,
    << Entry(B, 2, 3), Entry(A, 1, None) >>,
    << Entry(B, 2, 2), Entry(A, 1, None) >>,
    << Entry(B, 2, None), Entry(A, 1, None) >>,
    << >>,
    << Entry(B, 2, 3), Entry(A, 2, None) >> }

(* Policies of the four formats, with targets before, over and after the     *)
(* copies of the boot environment and up to the end of the medium.           *)
Target(format, offset, max, own) == [format |-> format, offset |-> offset, max |-> max, own |-> own]
Policy(backend, target, start, sectors, offsets) ==
  [backend |-> backend, target |-> target, start |-> start, sectors |-> sectors, offsets |-> offsets]

MCFwPolicies ==
  {Policy("uefi", Target("efi", 0, 3, own), 0, 0, <<0, 0>>) : own \in BOOLEAN}
    \cup {Policy("ubi", Target("mtd", 0, 3, own), 0, 0, <<0, 0>>) : own \in BOOLEAN}
    \cup {Policy("fit", Target("emmc", o, 3, TRUE), 2, 5, <<0, 1>>) : o \in {0, 2}}
    \cup {Policy("fit", Target("range", o, m, TRUE), 3, 5, <<a, b>>) :
            o \in 0..6, m \in {2, 3}, a \in {0, 2}, b \in {1, 4}}
MCFwLength == [u |-> 2, v |-> 3]

(* Three releases and three core sets that share objects.                    *)
MCOf ==
  [d1 |-> {"r1", "k1"}, d2 |-> {"r2", "k1"}, d3 |-> {"r2", "k3"},
   s1 |-> {"c1"}, s2 |-> {"c1", "c2"}, s3 |-> {"c2"}]
MCBytes == [r1 |-> 3, r2 |-> 3, k1 |-> 1, k3 |-> 1, c1 |-> 1, c2 |-> 3]

(* Two tiers the menu and a jumper grant and an action with none; one paper. *)
MCActions ==
  {[intent |-> "wipe", mechanism |-> "menu", tier |-> "configuration"],
   [intent |-> "apps", mechanism |-> "jumper", tier |-> "application-data"],
   [intent |-> "here", mechanism |-> "button", tier |-> "none"]}
MCPapers == {[digest |-> "d1", valid |-> TRUE, admin |-> TRUE, id |-> 9]}

(* Two apps; one with a version that asks for a capability and a build of it *)
(* that asks to run as root.                                                 *)
Bundle(app, version, build, asks, units, auto) ==
  [app |-> app, version |-> version, build |-> build, asks |-> asks, units |-> units, auto |-> auto]
MCBundles ==
  { Bundle("a2", 1, 1, {}, {"main"}, FALSE),
    Bundle("a1", 1, 1, {}, {"main"}, TRUE),
    Bundle("a1", 2, 1, {"cap"}, {"main", "extra"}, TRUE),
    Bundle("a1", 2, 2, {"root"}, {"main"}, FALSE) }

(* The members of two sections of a snapshot: in an object, in a map of      *)
(* arbitrary names and in an array, with secrets by name, by rule and in the *)
(* text.                                                                     *)
Member(in, named, secret, rule, value) ==
  [in |-> in, named |-> named, secret |-> secret, rule |-> rule, value |-> value]
MCSections ==
  << {Member("object", TRUE, FALSE, "scalar", v) : v \in {"text", "marked", "address", "nested", "null"}}
       \cup {Member("object", TRUE, TRUE, "scalar", "private"),
              Member("object", FALSE, FALSE, "scalar", "private"),
              Member("object", TRUE, FALSE, "redact", "private")},
     {Member("map", FALSE, TRUE, "scalar", "private")}
       \cup {Member("array", TRUE, FALSE, "scalar", v) : v \in {"text", "marked", "address", "null"}}
       \cup {Member("array", TRUE, FALSE, "redact", "private")} >>

-----------------------------------------------------------------------------
DeviceInit ==
  /\ part \in {"environment", "firmware", "volumes", "start", "apps", "snapshots", "password", "identity"}
  /\ Init /\ FwInit /\ OvInit /\ DevInit /\ AppInit /\ SnInit /\ PwInit /\ IdInit
  /\ part # "environment" =>
       copies = [slot \in Slots |-> Copy(TRUE, 1 - slot, << Entry(A, 1, None) >>)]
  /\ part # "firmware" => fwPolicy = CHOOSE p \in FwPolicies : TRUE
  /\ part # "volumes" => ovMedium = CHOOSE m \in Media : TRUE
  /\ part # "snapshots" => Listed = {}
  /\ part # "password" => ~pwWant
  /\ part # "identity" => idClock = 0

DeviceNext ==
  \/ part = "environment" /\ Next
     /\ UNCHANGED <<fwVars, ovVars, devVars, appVars, snVars, pwVars, idVars, part>>
  \/ part = "firmware" /\ FwNext
     /\ UNCHANGED <<vars, ovVars, devVars, appVars, snVars, pwVars, idVars, part>>
  \/ part = "volumes" /\ OvStep
     /\ UNCHANGED <<vars, fwVars, devVars, appVars, snVars, pwVars, idVars, part>>
  \/ part = "start" /\ DevNext
     /\ UNCHANGED <<vars, fwVars, ovVars, appVars, snVars, pwVars, idVars, part>>
  \/ part = "apps" /\ AppNext
     /\ UNCHANGED <<vars, fwVars, ovVars, devVars, snVars, pwVars, idVars, part>>
  \/ part = "snapshots" /\ SnNext
     /\ UNCHANGED <<vars, fwVars, ovVars, devVars, appVars, pwVars, idVars, part>>
  \/ part = "password" /\ PwNext
     /\ UNCHANGED <<vars, fwVars, ovVars, devVars, appVars, snVars, idVars, part>>
  \/ part = "identity" /\ IdNext
     /\ UNCHANGED <<vars, fwVars, ovVars, devVars, appVars, snVars, pwVars, part>>

DeviceSpec ==
  DeviceInit
    /\ [][DeviceNext]_<<vars, fwVars, ovVars, devVars, appVars, snVars, pwVars, idVars, part>>

-----------------------------------------------------------------------------
\* FirmwareReadback!ReceiptTells and ObjectVolumes!VolumesSafe: what a receipt
\* says of the firmware is so, and what the store names is whole and leaves
\* the reserve.
MediumSafe == ReceiptTells /\ VolumesSafe

\* DeviceStart!StartPromises and AppFlow!SeedSparesUser: no start, restart or cut
\* takes back a claim, the identity or a staged tier, and no image what the user
\* made of an app.
DevicePromises == StartPromises /\ SeedSparesUser
=============================================================================
