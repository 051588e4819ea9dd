--------------------------- MODULE ProvisioningRadio ---------------------------
(***************************************************************************)
(* The radio of BLE provisioning (ble_provisioning/bluez.rs): the GATT     *)
(* application and the advertisement micad registers with bluetoothd, the  *)
(* adapter it keeps running for them while Bluetooth is switched off, and  *)
(* the connection interval it lends the controller.  The engine's settle   *)
(* calls the radio, one call at a time; a second task registers again      *)
(* whenever bluetoothd comes back; both hold the lock on what is wanted.   *)
(* The Bluetooth reconciler starts and stops bluetoothd for the engine and *)
(* for the settings, under the apply lock.                                 *)
(*                                                                         *)
(* bluetoothd is external: it may die at any time, is then started again   *)
(* by its supervisor, and forgets what was registered with it.  A call to  *)
(* it does not start it.                                                   *)
(***************************************************************************)
EXTENDS ProvisioningHold, Naturals

CONSTANTS RdNames,   \* hostnames the device advertises
          RdNone,    \* no advertisement
          RdRanges,  \* interval ranges the controller may be found with
          RdFast,    \* FAST_INTERVAL
          RdTurns,   \* bound: targets the engine settles on
          RdEvents   \* bound: deaths of bluetoothd, failing calls and writes of
                     \* bluetooth.enabled

Interval == [min : Nat, max : Nat]

ASSUME RadioConstants ==
  /\ RdNone \notin RdNames
  /\ RdRanges \subseteq Interval /\ RdFast \in Interval
  /\ \A r \in RdRanges \cup {RdFast} : r.min <= r.max
  /\ RdTurns \in Nat /\ RdEvents \in Nat

VARIABLES bluetoothd,     \* "up", "down" until its supervisor starts it, or "stopped"
          regApp, regAdv, \* what is registered with it
          wantApp,        \* Wanted.application
          wantAdv,        \* Wanted.advertisement
          wantRange,      \* Wanted.interval: the range to put back, a set of at most one
          range, found,   \* the controller's range now, and before micad changed it
          radioHeld,      \* RADIO_HELD
          enabled, asked, \* bluetooth.enabled, and whether its apply is queued
          apply,          \* the Bluetooth apply under way: who runs it and whether
                          \* bluetoothd is to run
          enginePc,       \* where the engine is in settle
          target,         \* what it settles on: [adv, hold]
          advertised, holding,  \* Engine.advertised, Engine.holding
          keeperPc,       \* where keep_registered is
          comings,        \* NameOwnerChanged signals it has not taken yet
          slipApp, slipAdv, slipUnit, slipRange,
                          \* the last call about it failed, and nothing repeats it
          rdUsed          \* how much of the bounds is used

rdServed == <<regApp, regAdv>>
rdWanted == <<wantApp, wantAdv, wantRange>>
rdRange  == <<range, found>>
rdUnit   == <<bluetoothd, enabled, asked, apply>>
rdEngine == <<enginePc, target, advertised, holding>>
rdKeeper == <<keeperPc, comings>>
rdSlips  == <<slipApp, slipAdv, slipUnit, slipRange>>

rdVars == <<rdServed, rdWanted, rdRange, radioHeld, rdUnit, rdEngine, rdKeeper, rdSlips, rdUsed>>

Idle == [by |-> "nobody", run |-> FALSE]

RdInit ==
  /\ enabled \in BOOLEAN
  /\ bluetoothd = IF enabled THEN "up" ELSE "stopped"
  /\ regApp = FALSE /\ regAdv = RdNone
  /\ wantApp = FALSE /\ wantAdv = RdNone /\ wantRange = {}
  /\ found \in RdRanges /\ range = found
  /\ radioHeld = FALSE
  /\ asked = FALSE /\ apply = Idle
  /\ enginePc = "idle" /\ target = [adv |-> RdNone, hold |-> FALSE]
  /\ advertised = RdNone /\ holding = FALSE
  /\ keeperPc = "idle" /\ comings = 0
  /\ slipApp = FALSE /\ slipAdv = FALSE /\ slipUnit = FALSE /\ slipRange = FALSE
  /\ rdUsed = [turns |-> 0, events |-> 0]

\* Whether a call fails: as often as the bound allows.
May(fails) ==
  /\ fails => rdUsed.events < RdEvents
  /\ rdUsed' = IF fails THEN [rdUsed EXCEPT !.events = @ + 1] ELSE rdUsed

\* Nobody holds the lock on what is wanted.
LockFree == enginePc \in {"idle", "advertise", "hold"} /\ keeperPc = "idle"

(***************************************************************************)
(* set_interval: the kernel refuses a minimum over the maximum, and a      *)
(* refused or failed write ends it where it is.                            *)
(***************************************************************************)
WriteMin(r, v) == IF v <= r.max THEN [min |-> v, max |-> r.max] ELSE r
WriteMax(r, v) == IF r.min <= v THEN [min |-> r.min, max |-> v] ELSE r

SetInterval(r, n) ==
  IF n.min <= r.max THEN WriteMax(WriteMin(r, n.min), n.max)
                    ELSE WriteMin(WriteMax(r, n.max), n.min)

\* What a set_interval that fails may have written: nothing, or its first bound.
Halfway(r, n) == {r, IF n.min <= r.max THEN WriteMin(r, n.min) ELSE WriteMax(r, n.max)}

(***************************************************************************)
(* settle: the advertisement first, then the hold.                         *)
(***************************************************************************)
\* A window that is open and has no phone is advertised; the radio is held while
\* a window is open or a phone is connected.
Settle(adv, held) ==
  /\ enginePc = "idle"
  /\ adv # RdNone => held
  /\ adv # advertised \/ held # holding
  /\ rdUsed.turns < RdTurns
  /\ rdUsed' = [rdUsed EXCEPT !.turns = @ + 1]
  /\ target' = [adv |-> adv, hold |-> held]
  /\ enginePc' = IF adv # advertised THEN "advertise" ELSE "hold"
  /\ UNCHANGED <<rdServed, rdWanted, rdRange, radioHeld, rdUnit, advertised, holding,
                 rdKeeper, rdSlips>>

\* The engine takes the radio to have done what it was told.
Advertised ==
  /\ advertised' = target.adv
  /\ enginePc' = IF target.hold # holding THEN "hold" ELSE "idle"
  /\ UNCHANGED <<target, holding>>

AdvertiseLocks ==
  /\ enginePc = "advertise" /\ LockFree
  /\ enginePc' = "adapter"
  /\ UNCHANGED <<rdServed, rdWanted, rdRange, radioHeld, rdUnit, target, advertised, holding,
                 rdKeeper, rdSlips, rdUsed>>

\* No adapter in ten seconds: advertise returns before it notes what is wanted.
AdvertiseNoAdapter ==
  /\ enginePc = "adapter" /\ bluetoothd # "up"
  /\ slipAdv' = TRUE
  /\ Advertised
  /\ UNCHANGED <<rdServed, rdWanted, rdRange, radioHeld, rdUnit, rdKeeper,
                 slipApp, slipUnit, slipRange, rdUsed>>

AdvertiseAdapter ==
  /\ enginePc = "adapter" /\ bluetoothd = "up"
  /\ enginePc' = IF wantAdv # RdNone THEN "unadvertise" ELSE "register"
  /\ UNCHANGED <<rdServed, rdWanted, rdRange, radioHeld, rdUnit, target, advertised, holding,
                 rdKeeper, rdSlips, rdUsed>>

UnregisterAdvertisement(fails) ==
  /\ enginePc = "unadvertise"
  /\ May(fails)
  /\ regAdv' = IF fails THEN regAdv ELSE RdNone
  /\ enginePc' = "register"
  /\ UNCHANGED <<regApp, rdWanted, rdRange, radioHeld, rdUnit, target, advertised, holding,
                 rdKeeper, rdSlips>>

\* What register_advertisement leaves: bluetoothd keeps one it already has, and one
\* that is gone takes none.
Registering(name, fails) ==
  IF fails \/ bluetoothd # "up" \/ regAdv # RdNone THEN regAdv ELSE name

\* Mutant: what is wanted is not noted.
AdvertiseEndsUnnoted(fails) ==
  /\ enginePc = "register"
  /\ May(fails) /\ (fails => target.adv # RdNone)
  /\ regAdv' = Registering(target.adv, fails)
  /\ slipAdv' = (bluetoothd = "up" /\ regAdv' # target.adv)
  /\ Advertised
  /\ UNCHANGED <<regApp, rdWanted, rdRange, radioHeld, rdUnit, rdKeeper,
                 slipApp, slipUnit, slipRange>>

\* The new advertisement, if any, is registered and noted as wanted.
AdvertiseEnds(fails) ==
  /\ enginePc = "register"
  /\ May(fails) /\ (fails => target.adv # RdNone)
  /\ regAdv' = Registering(target.adv, fails)
  /\ wantAdv' = target.adv
  /\ slipAdv' = (bluetoothd = "up" /\ regAdv' # target.adv)
  /\ Advertised
  /\ UNCHANGED <<regApp, wantApp, wantRange, rdRange, radioHeld, rdUnit, rdKeeper,
                 slipApp, slipUnit, slipRange>>

(***************************************************************************)
(* hold: on, bluetoothd is started first and the application registered;   *)
(* off, the application goes and bluetoothd is given back last.            *)
(***************************************************************************)
HoldLocks ==
  /\ enginePc = "hold" /\ LockFree
  /\ wantApp' = target.hold
  /\ radioHeld' = (target.hold \/ radioHeld)
  /\ enginePc' = IF target.hold THEN "reconcile" ELSE "withdraw"
  /\ UNCHANGED <<rdServed, wantAdv, wantRange, rdRange, rdUnit, target, advertised, holding,
                 rdKeeper, rdSlips, rdUsed>>

HoldEnds ==
  /\ holding' = target.hold
  /\ enginePc' = "idle"
  /\ UNCHANGED <<target, advertised>>

HoldNoAdapter ==
  /\ enginePc = "lookup" /\ bluetoothd # "up"
  /\ slipApp' = FALSE
  /\ HoldEnds
  /\ UNCHANGED <<rdServed, rdWanted, rdRange, radioHeld, rdUnit, rdKeeper,
                 slipAdv, slipUnit, slipRange, rdUsed>>

\* The adapter was found; bluetoothd may be gone again.
HoldAdapter ==
  /\ enginePc = "lookup" /\ bluetoothd = "up"
  /\ enginePc' = "serve"
  /\ UNCHANGED <<rdServed, rdWanted, rdRange, radioHeld, rdUnit, target, advertised, holding,
                 rdKeeper, rdSlips, rdUsed>>

\* register_application
Serving(fails) == regApp \/ (~fails /\ bluetoothd = "up")

\* The application is registered, and the fast interval set unless it already is.
HoldServes(fails, stays) ==
  /\ enginePc = "serve"
  /\ May(fails \/ stays) /\ (stays => wantRange = {})
  /\ regApp' = Serving(fails)
  /\ slipApp' = (bluetoothd = "up" /\ ~regApp')
  /\ IF wantRange # {} THEN UNCHANGED <<wantRange, range, slipRange>>
     ELSE IF stays
     THEN range' \in Halfway(range, RdFast) /\ slipRange' = TRUE /\ UNCHANGED wantRange
     ELSE /\ range' = SetInterval(range, RdFast) /\ wantRange' = {range}
          /\ UNCHANGED slipRange
  /\ HoldEnds
  /\ UNCHANGED <<regAdv, wantApp, wantAdv, found, radioHeld, rdUnit, rdKeeper,
                 slipAdv, slipUnit>>

\* The application is withdrawn, the interval put back and the adapter let go.
HoldWithdraws(fails, stays) ==
  /\ enginePc = "withdraw"
  /\ May(fails \/ stays) /\ (stays => wantRange # {})
  /\ regApp' = (regApp /\ fails)
  /\ slipApp' = regApp'
  /\ wantRange' = {}
  /\ IF wantRange = {} THEN UNCHANGED <<range, slipRange>>
     ELSE \E before \in wantRange :
            IF stays THEN range' \in Halfway(range, before) /\ slipRange' = TRUE
                     ELSE range' = SetInterval(range, before) /\ UNCHANGED slipRange
  /\ radioHeld' = FALSE
  /\ enginePc' = "reconcile"
  /\ UNCHANGED <<regAdv, wantApp, wantAdv, found, rdUnit, target, advertised, holding,
                 rdKeeper, slipAdv, slipUnit>>

(***************************************************************************)
(* The Bluetooth reconciler, by the engine and by the settings' worker.    *)
(***************************************************************************)
\* Whether bluetoothd is to run: for the settings, or for a window.
ToRun == enabled \/ radioHeld

ApplyBegins(by) ==
  /\ apply = Idle
  /\ by = "engine" => enginePc = "reconcile"
  /\ by = "worker" => asked
  /\ apply' = [by |-> by, run |-> ToRun]
  /\ asked' = (asked /\ by = "engine")
  /\ enginePc' = IF by = "engine" THEN "applying" ELSE enginePc
  /\ UNCHANGED <<rdServed, rdWanted, rdRange, radioHeld, bluetoothd, enabled, target,
                 advertised, holding, rdKeeper, rdSlips, rdUsed>>

\* One that is down is being started again already, or is started here.
Reconciled(fails) ==
  IF fails THEN {bluetoothd} ELSE IF ~apply.run THEN {"stopped"}
  ELSE IF bluetoothd = "down" THEN {"down", "up"} ELSE {"up"}

ApplyEnds(fails) ==
  /\ apply # Idle
  /\ May(fails)
  /\ bluetoothd' \in Reconciled(fails)
  /\ regApp' = (regApp /\ bluetoothd' = "up")
  /\ regAdv' = IF bluetoothd' = "up" THEN regAdv ELSE RdNone
  /\ comings' = IF bluetoothd # "up" /\ bluetoothd' = "up" THEN comings + 1 ELSE comings
  /\ slipUnit' = fails
  /\ apply' = Idle
  /\ IF apply.by = "worker" THEN UNCHANGED <<enginePc, holding>>
     ELSE IF target.hold THEN enginePc' = "lookup" /\ UNCHANGED holding
     ELSE enginePc' = "idle" /\ holding' = FALSE
  /\ UNCHANGED <<rdWanted, rdRange, radioHeld, enabled, asked, target, advertised, keeperPc,
                 slipApp, slipAdv, slipRange>>

SwitchBluetooth ==
  /\ rdUsed.events < RdEvents
  /\ rdUsed' = [rdUsed EXCEPT !.events = @ + 1]
  /\ enabled' = ~enabled
  /\ asked' = TRUE
  /\ UNCHANGED <<rdServed, rdWanted, rdRange, radioHeld, bluetoothd, apply, rdEngine, rdKeeper,
                 rdSlips>>

(***************************************************************************)
(* bluetoothd and keep_registered.                                         *)
(***************************************************************************)
Dies ==
  /\ bluetoothd = "up"
  /\ rdUsed.events < RdEvents
  /\ rdUsed' = [rdUsed EXCEPT !.events = @ + 1]
  /\ bluetoothd' = "down"
  /\ regApp' = FALSE /\ regAdv' = RdNone
  /\ UNCHANGED <<rdWanted, rdRange, radioHeld, enabled, asked, apply, rdEngine, rdKeeper, rdSlips>>

Returns ==
  /\ bluetoothd = "down"
  /\ bluetoothd' = "up"
  /\ comings' = comings + 1
  /\ UNCHANGED <<rdServed, rdWanted, rdRange, radioHeld, enabled, asked, apply, rdEngine,
                 keeperPc, rdSlips, rdUsed>>

\* org.bluez has an owner: what is wanted is registered again.  Between the two
\* calls of a settle that opens a window nothing is: the application is not wanted yet.
KeeperHears ==
  /\ keeperPc = "idle" /\ comings > 0 /\ LockFree
  /\ comings' = comings - 1
  /\ keeperPc' = IF wantApp THEN "adapter" ELSE "idle"
  /\ slipAdv' = (slipAdv \/ (~wantApp /\ wantAdv # RdNone))
  /\ UNCHANGED <<rdServed, rdWanted, rdRange, radioHeld, rdUnit, rdEngine,
                 slipApp, slipUnit, slipRange, rdUsed>>

KeeperLooks ==
  /\ keeperPc = "adapter"
  /\ keeperPc' = IF bluetoothd = "up" THEN "serve" ELSE "idle"
  /\ UNCHANGED <<rdServed, rdWanted, rdRange, radioHeld, rdUnit, rdEngine, comings, rdSlips, rdUsed>>

KeeperServes(fails) ==
  /\ keeperPc = "serve"
  /\ May(fails)
  /\ regApp' = Serving(fails)
  /\ slipApp' = (bluetoothd = "up" /\ ~regApp')
  /\ keeperPc' = IF wantAdv # RdNone THEN "advertise" ELSE "idle"
  /\ UNCHANGED <<regAdv, rdWanted, rdRange, radioHeld, rdUnit, rdEngine, comings,
                 slipAdv, slipUnit, slipRange>>

KeeperAdvertises(fails) ==
  /\ keeperPc = "advertise"
  /\ May(fails)
  /\ regAdv' = Registering(wantAdv, fails)
  /\ slipAdv' = (slipAdv \/ (bluetoothd = "up" /\ regAdv' # wantAdv))
  /\ keeperPc' = "idle"
  /\ UNCHANGED <<regApp, rdWanted, rdRange, radioHeld, rdUnit, rdEngine, comings,
                 slipApp, slipUnit, slipRange>>

EngineStep ==
  \/ AdvertiseLocks \/ AdvertiseNoAdapter \/ AdvertiseAdapter
  \/ HoldLocks \/ HoldNoAdapter \/ HoldAdapter
  \/ \E fails \in BOOLEAN : UnregisterAdvertisement(fails) \/ AdvertiseEnds(fails)
  \/ \E fails, stays \in BOOLEAN : HoldServes(fails, stays) \/ HoldWithdraws(fails, stays)

KeeperStep ==
  \/ KeeperHears \/ KeeperLooks
  \/ \E fails \in BOOLEAN : KeeperServes(fails) \/ KeeperAdvertises(fails)

RdNext ==
  \/ \E adv \in RdNames \cup {RdNone}, held \in BOOLEAN : Settle(adv, held)
  \/ EngineStep
  \/ \E by \in {"engine", "worker"} : ApplyBegins(by)
  \/ \E fails \in BOOLEAN : ApplyEnds(fails)
  \/ SwitchBluetooth
  \/ Dies \/ Returns
  \/ KeeperStep

RdSpec == RdInit /\ [][RdNext]_rdVars

--------------------------------------------------------------------------------
RdTypeOK ==
  /\ bluetoothd \in {"up", "down", "stopped"}
  /\ {regApp, wantApp, radioHeld, enabled, asked, holding} \subseteq BOOLEAN
  /\ {slipApp, slipAdv, slipUnit, slipRange} \subseteq BOOLEAN
  /\ {regAdv, wantAdv, advertised} \subseteq RdNames \cup {RdNone}
  /\ {range, found} \subseteq Interval /\ wantRange \subseteq Interval
  /\ apply \in [by : {"nobody", "engine", "worker"}, run : BOOLEAN]
  /\ enginePc \in {"idle", "advertise", "adapter", "unadvertise", "register", "hold",
                   "reconcile", "applying", "lookup", "serve", "withdraw"}
  /\ target \in [adv : RdNames \cup {RdNone}, hold : BOOLEAN]
  /\ keeperPc \in {"idle", "adapter", "serve", "advertise"}
  /\ comings \in Nat
  /\ rdUsed \in [turns : Nat, events : Nat]

\* Nothing of the radio is under way or waits.
RadioRests ==
  /\ enginePc = "idle" /\ keeperPc = "idle" /\ comings = 0
  /\ apply = Idle /\ ~asked

\* Once nothing is under way, a bluetoothd that runs serves the application and
\* advertises the name the engine settled on, and nothing else, however often it
\* died in between.  Excepted is what the last call about it failed at, an
\* advertisement that found no adapter, and one bluetoothd lost before the hold.
RegisteredAsWanted ==
  RadioRests /\ bluetoothd = "up"
    => /\ ~slipApp => regApp = holding
       /\ ~slipAdv => regAdv = advertised

\* The adapter is powered while a window holds it, even if Bluetooth is switched
\* off, and is returned to its setting when the window closes (docs/ble-provisioning.md).
AdapterReturned ==
  RadioRests /\ ~slipUnit => ((bluetoothd = "stopped") <=> ~(enabled \/ holding))

\* The controller has the range it was found with or the fast one, never half of
\* each, and without a hold the one it was found with; only a failed write leaves
\* something else.
IntervalReturned ==
  ~slipRange =>
    /\ range \in {found, RdFast}
    /\ enginePc = "idle" /\ ~holding => range = found /\ wantRange = {}

\* Provisioning lends bluetoothd an application, an advertisement and an interval,
\* keeps them through its restarts and takes all of them back.
RadioSafe == RdTypeOK /\ RegisteredAsWanted /\ AdapterReturned /\ IntervalReturned

\* What BLE provisioning takes it gives back: the settings an abandoned session
\* changed, and the adapter, the advertisement and the interval of its radio.
ProvisioningSafe == HoldSafe /\ RadioSafe
================================================================================
