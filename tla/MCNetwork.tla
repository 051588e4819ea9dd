----------------------------- MODULE MCNetwork ------------------------------
(* The reconcilers, which bring the system to what the settings say, side by *)
(* side: networks and their tunnels, the routes that write them, services,   *)
(* the Wi-Fi radio and Bluetooth; and the scan, which records what other     *)
(* services the bus has.  `part` says which of them a behaviour is about,    *)
(* and the others keep an initial state.                                     *)
EXTENDS NetworkUnits, NetworkRoutes, ServiceUnits, WifiRadio, BluetoothPairing,
        ServiceRegistry, TLC

CONSTANTS r1, r2, p1, p2, b1, b2, c1, c2, f1, f2

VARIABLE part

(* Two sensors, and micad itself, which does not register; services that     *)
(* answer with an instance and services that answer nothing.                 *)
SensorA == <<"com", "mica", "sensor", "a">>
SensorB == <<"com", "mica", "sensor", "b">>
MCBusNames == {SensorA, SensorB, BUS_NAME}
MCPaths == {"/Connected", DEVICE_INSTANCE}
MCAnswers == {[item1 |-> TRUE, paths |-> MCPaths, value |-> [tag |-> "f64", n |-> 2]]}

Symmetry == Permutations(NrRequests) \cup Permutations(Peers) \cup Permutations(BtCalls)
              \cup Permutations(RgCallers)

-----------------------------------------------------------------------------
NetworkInit ==
  /\ part \in {"network", "routes", "service", "wifi", "bluetooth", "registry"}
  /\ NuInit /\ NrInit /\ SvcInit /\ WifInit /\ BtInit /\ RgInit
  /\ part # "service" => svcKind = "sshd" /\ want = [on |-> FALSE, cfg |-> c1]
  /\ part # "wifi" => /\ wifi.client = [on |-> FALSE, at |-> "wlan0"]
                      /\ wifi.ap = [on |-> FALSE, at |-> "wlan1"]
  /\ part # "registry" => rgPc = "off" /\ rgOwned = {} /\ rgAnswer = [n \in BusNames |-> NoItems]

NetworkNext ==
  \/ part = "network" /\ NuNext /\ UNCHANGED <<nrVars, svcVars, wifVars, btVars, rgVars, part>>
  \/ part = "routes" /\ NrNext /\ UNCHANGED <<nuVars, svcVars, wifVars, btVars, rgVars, part>>
  \/ part = "service" /\ SvcNext /\ UNCHANGED <<nuVars, nrVars, wifVars, btVars, rgVars, part>>
  \/ part = "wifi" /\ WifNext /\ UNCHANGED <<nuVars, nrVars, svcVars, btVars, rgVars, part>>
  \/ part = "bluetooth" /\ BtNext /\ UNCHANGED <<nuVars, nrVars, svcVars, wifVars, rgVars, part>>
  \/ part = "registry" /\ RgNext /\ UNCHANGED <<nuVars, nrVars, svcVars, wifVars, btVars, part>>

NetworkSpec ==
  NetworkInit /\ [][NetworkNext]_<<nuVars, nrVars, svcVars, wifVars, btVars, rgVars, part>>

-----------------------------------------------------------------------------
\* NetworkUnits!TunnelSafe and NetworkRoutes!NetworksSafe: the tunnel that runs
\* is the one that was applied with the keys the settings keep, no edit gives a
\* peer the secret of another, and the map that runs is sound.
NetworkSafe == TunnelSafe /\ NetworksSafe

\* WifiRadio!RadioSafe and what BluetoothPairing promises of its adapter: the
\* radio has one role and comes to the one that was asked for, and nothing is
\* discoverable outside a pairing window.
RadiosSafe == RadioSafe /\ BtTypeOK /\ NoWindowNotDiscoverable

\* ServiceUnits!ContainersDrained and BluetoothPairing!TrustListKept: stopping
\* the container service leaves no container running, and a pairing that ends
\* takes no other device from the trust list.
NothingLeftBehind == ContainersDrained /\ TrustListKept
=============================================================================
