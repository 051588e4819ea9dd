----------------------------- MODULE MCSettings -----------------------------
(* The settings store and the routes that write the settings, side by side.  *)
(* `part` says which of the two a behaviour is about, and the other one      *)
(* keeps an initial state.                                                   *)
EXTENDS SettingsJournal, SettingsRoutes

CONSTANTS network, state, text, other, r1, r2

VARIABLE part

(* One document on DATA and one on STATE, each with one of two texts or none. *)
MCPosition == [d \in Docs |-> IF d = network THEN 1 ELSE 2]

-----------------------------------------------------------------------------
SettingsInit ==
  /\ part \in {"store", "routes"}
  /\ Init /\ RtInit
  /\ part # "store" => \A d \in Docs : disk[d] = None
  /\ part # "routes" => topic = CHOOSE t \in Topics : TRUE

SettingsNext ==
  \/ part = "store" /\ Next /\ UNCHANGED <<rtVars, part>>
  \/ part = "routes" /\ RtNext /\ UNCHANGED <<vars, part>>

SettingsSpec == SettingsInit /\ [][SettingsNext]_<<vars, rtVars, part>>
=============================================================================
