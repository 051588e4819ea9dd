----------------------------- MODULE SettingsRoutes -----------------------------
(***************************************************************************)
(* The settings routes of mica-apid over micad's settings tree.            *)
(*                                                                         *)
(* Every mutating route reads what it changes with GetSettings, works on   *)
(* its copy, and writes a path, a list or a whole map back with            *)
(* SetSettings or SetSettingsMany.  Nothing is held between the two calls, *)
(* so a handler is a step that reads and decides, and the writes it sends  *)
(* land later, interleaved with those of the other requests.  A refusal    *)
(* before the first write changes nothing and is a guard here.             *)
(*                                                                         *)
(* The tree is split by `topic` into the subtrees whose rules relate them; *)
(* a behaviour is about one topic.  A collection maps an identity (an      *)
(* SSID, a public key, a record id, a project or unit name) to what it     *)
(* holds, 0 for an absent entry.                                           *)
(***************************************************************************)
EXTENDS Naturals, FiniteSets, Sequences, SequencesExt

CONSTANTS RtRequests,    \* requests apid serves at a time
          RtNames,       \* identities of a collection's entries
          RtMaxKeys,     \* micad_settings::MAX_KEYS and MAX_STATIC_RECORDS
          RtMaxServed    \* bound: mutating requests of a behaviour

ASSUME RtAssumption == RtMaxKeys \in Nat /\ IsFiniteSet(RtNames)

VARIABLES topic,         \* the subtrees this behaviour is about
          tree,          \* micad's settings tree
          rtReqs,        \* the handler of each request in flight
          rtLocked,      \* a BLE provisioning session holds Wi-Fi
          rtServed,      \* how much of the bound is used
          misjudged      \* a PATCH whose result holds every rule was refused

rtVars == <<topic, tree, rtReqs, rtLocked, rtServed, misjudged>>

Topics == {"lists", "maps", "wifi", "listeners", "dns"}

Flags == BOOLEAN
Ports == 1..3
Addresses == 1..2
RtHosts == 1..3

NoEntries == [n \in RtNames |-> 0]

\* The ports: 1 is SSH's, 2 or 3 may be given to the web console and to MQTT.
DefaultTree ==
  [networks |-> NoEntries, keys |-> NoEntries, records |-> NoEntries,
   projects |-> NoEntries, units |-> NoEntries,
   interface |-> 1, station |-> FALSE, apMode |-> "off", apKey |-> 0,
   ssh |-> TRUE, mqtt |-> FALSE, mqttPort |-> 1, webPort |-> 3,
   hostname |-> 1, servers |-> {}, address |-> 0]

RtFree == [pc |-> "free", calls |-> <<>>, checked |-> {}, patch |-> FALSE]

RtInit == /\ topic \in Topics
          /\ tree = DefaultTree
          /\ rtReqs = [r \in RtRequests |-> RtFree]
          /\ rtLocked = FALSE
          /\ rtServed = 0
          /\ misjudged = FALSE

(***************************************************************************)
(* micad: one write of a path, or of one entry of a map, and the rules     *)
(* Settings::set holds it to.                                              *)
(***************************************************************************)
Whole == "whole"

W(path, at, value) == [path |-> path, at |-> at, value |-> value]

Placed(t, w) == IF w.at = Whole THEN [t EXCEPT ![w.path] = w.value]
                ELSE [t EXCEPT ![w.path][w.at] = w.value]

Present(entries) == {n \in RtNames : entries[n] # 0}

\* No two records carry one name, none is the device's own, and no global
\* server is an address of an interface.
ValidDns(t) ==
  /\ Cardinality(Present(t.records)) <= RtMaxKeys
  /\ \A m, n \in Present(t.records) : m # n => t.records[m] # t.records[n]
  /\ \A n \in Present(t.records) : t.records[n] # t.hostname
  /\ t.address \notin t.servers

\* No two enabled listeners have one port.
ValidListeners(t) ==
  LET claimed == {<<"web", t.webPort>>}
                 \cup (IF t.ssh THEN {<<"ssh", 1>>} ELSE {})
                 \cup (IF t.mqtt THEN {<<"mqtt", t.mqttPort>>} ELSE {})
  IN \A a, b \in claimed : a # b => a[2] # b[2]

DnsOf(t) == <<t.records, t.servers>>

ListenersOf(t) == <<t.webPort, t.ssh, t.mqtt, t.mqttPort>>

\* Which of the rules a write is held to: only a write that changes what they
\* are about.  A change of the network alone is not such a write.
HeldToRules(old, new) ==
  /\ \/ DnsOf(new) # DnsOf(old)
     \/ new.hostname # old.hostname /\ Present(new.records) # {}
     \/ new.address # old.address /\ new.servers # old.servers
     => ValidDns(new)
  /\ ListenersOf(new) # ListenersOf(old) => ValidListeners(new)

SettingsSet(old, w) == LET new == Placed(old, w)
                       IN [ok |-> HeldToRules(old, new), tree |-> new]

\* The writes of one call, set one after the other on a copy of the tree: the
\* tree after each of them is held to the rules.
Candidate(t, writes) ==
  LET judged[i \in 0..Len(writes)] ==
        IF i = 0 THEN [ok |-> TRUE, tree |-> t]
        ELSE IF judged[i - 1].ok THEN SettingsSet(judged[i - 1].tree, writes[i])
        ELSE judged[i - 1]
  IN  judged[Len(writes)]

\* The projects a candidate adds or changes, each with its text.
ChangedProjects(old, new) ==
  {<<n, new.projects[n]>> :
     n \in {m \in Present(new.projects) : new.projects[m] # old.projects[m]}}

\* refuse_while_wifi_locked.
ReachesWifi(writes) ==
  \E i \in DOMAIN writes :
    writes[i].path \in {"networks", "interface", "station", "apMode", "apKey"}

(***************************************************************************)
(* A request: its handler reads and decides, its bus calls are `calls`.    *)
(***************************************************************************)
Sends(r, calls) ==
  /\ rtReqs[r] = RtFree
  /\ rtServed < RtMaxServed
  /\ rtServed' = rtServed + 1
  /\ rtReqs' = [rtReqs EXCEPT ![r] = [RtFree EXCEPT !.pc = "call", !.calls = calls]]
  /\ UNCHANGED <<topic, tree, rtLocked, misjudged>>

One(w) == <<<<w>>>>

Answered(r) == rtReqs' = [rtReqs EXCEPT ![r] = RtFree]

\* The hold on Wi-Fi is looked at, and then Compose texts are checked, before
\* micad takes its lock, against the tree of that moment; the check itself is
\* mica-containerd's.
CheckWrittenProjects(r) ==
  LET q == rtReqs[r]
      candidate == Candidate(tree, Head(q.calls))
  IN /\ q.pc = "call" /\ ~ (rtLocked /\ ReachesWifi(Head(q.calls)))
     /\ rtReqs' = [rtReqs EXCEPT ![r].pc = "write",
                     ![r].checked = IF candidate.ok
                                    THEN ChangedProjects(tree, candidate.tree) ELSE {}]
     /\ UNCHANGED <<topic, tree, rtLocked, rtServed, misjudged>>

CheckRefuses(r) ==
  /\ rtReqs[r].pc = "call"
  /\ LET candidate == Candidate(tree, Head(rtReqs[r].calls))
     IN \/ rtLocked /\ ReachesWifi(Head(rtReqs[r].calls))
        \/ candidate.ok /\ ChangedProjects(tree, candidate.tree) # {}
  /\ Answered(r)
  /\ UNCHANGED <<topic, tree, rtLocked, rtServed, misjudged>>

\* SetSettings and SetSettingsMany, under the tree's lock: the tree becomes the
\* candidate, whose document is saved first, or the call is refused.  A route
\* of two calls sends the second once the first is answered.
Persisted(r) ==
  LET q == rtReqs[r]
      writes == Head(q.calls)
      candidate == Candidate(tree, writes)
      taken == /\ candidate.ok
               /\ ChangedProjects(tree, candidate.tree) \subseteq q.checked
      result == FoldLeft(Placed, tree, writes)
  IN /\ q.pc = "write"
     /\ tree' = IF taken THEN candidate.tree ELSE tree
     /\ IF taken /\ Len(q.calls) > 1
        THEN rtReqs' = [rtReqs EXCEPT ![r] = [q EXCEPT !.pc = "call", !.checked = {},
                                                       !.calls = Tail(@)]]
        ELSE Answered(r)
     /\ misjudged' = (misjudged \/ (/\ q.patch /\ ~candidate.ok
                                    /\ HeldToRules(tree, result)))
     /\ UNCHANGED <<topic, rtLocked, rtServed>>

\* The call is not made, the save fails, or apid gives up on the answer: 503,
\* 500 or 504.  Given up, the write may still land, but no second call is made.
CallFails(r) ==
  /\ rtReqs[r].pc \in {"call", "write"}
  /\ \/ Answered(r)
     \/ rtReqs' = [rtReqs EXCEPT ![r].calls = <<Head(@)>>]
  /\ UNCHANGED <<topic, tree, rtLocked, rtServed, misjudged>>

WifiHeld ==
  /\ topic = "wifi"
  /\ rtLocked' = ~rtLocked
  /\ UNCHANGED <<topic, tree, rtReqs, rtServed, misjudged>>

(***************************************************************************)
(* The lists: known networks and authorized keys, written whole.           *)
(***************************************************************************)
WriteNetworks(r, list) == Sends(r, One(W("networks", Whole, list)))

WriteKeys(r, list) == Sends(r, One(W("keys", Whole, list)))

AddNetwork(r) ==
  /\ topic = "lists"
  /\ \E n \in RtNames, psk \in 1..2 :
       /\ tree.networks[n] = 0
       /\ WriteNetworks(r, [tree.networks EXCEPT ![n] = psk])

\* A body without a key keeps the one stored when the list was read.
ReplaceNetwork(r) ==
  /\ topic = "lists"
  /\ \E n \in RtNames, psk \in 0..2 :
       /\ tree.networks[n] # 0
       /\ WriteNetworks(r, [tree.networks EXCEPT ![n] = IF psk = 0 THEN @ ELSE psk])

RemoveNetwork(r) ==
  /\ topic = "lists"
  /\ \E n \in RtNames : /\ tree.networks[n] # 0
                        /\ WriteNetworks(r, [tree.networks EXCEPT ![n] = 0])

\* Mutant: one key too many.
AddKeyLate(r) ==
  /\ topic = "lists"
  /\ Cardinality(Present(tree.keys)) <= RtMaxKeys
  /\ \E n \in RtNames : /\ tree.keys[n] = 0
                        /\ WriteKeys(r, [tree.keys EXCEPT ![n] = 1])

AddKey(r) ==
  /\ topic = "lists"
  /\ Cardinality(Present(tree.keys)) < RtMaxKeys
  /\ \E n \in RtNames : /\ tree.keys[n] = 0
                        /\ WriteKeys(r, [tree.keys EXCEPT ![n] = 1])

RemoveKey(r) ==
  /\ topic = "lists"
  /\ \E n \in RtNames : /\ tree.keys[n] # 0
                        /\ WriteKeys(r, [tree.keys EXCEPT ![n] = 0])

(***************************************************************************)
(* The maps: a project or a unit is written at its own path and removed by *)
(* writing the whole map without it.                                       *)
(***************************************************************************)
ProjectWrite(r) ==
  /\ topic = "maps"
  /\ \E n \in RtNames, text \in 1..2 : Sends(r, One(W("projects", n, text)))

ProjectRemove(r) ==
  /\ topic = "maps"
  /\ \E n \in RtNames : /\ tree.projects[n] # 0
                        /\ Sends(r, One(W("projects", Whole,
                                          [tree.projects EXCEPT ![n] = 0])))

UnitWrite(r) ==
  /\ topic = "maps"
  /\ \E n \in RtNames : Sends(r, One(W("units", n, 1)))

UnitRemove(r) ==
  /\ topic = "maps"
  /\ \E n \in RtNames : /\ tree.units[n] # 0
                        /\ Sends(r, One(W("units", Whole, [tree.units EXCEPT ![n] = 0])))

(***************************************************************************)
(* DNS: the global servers, the static records, and the two settings its   *)
(* rules name, the hostname and an interface's static address.             *)
(***************************************************************************)
\* The network map it compares with is taken as empty when it cannot be read.
GlobalWrite(r) ==
  /\ topic = "dns"
  /\ \E servers \in SUBSET Addresses, unread \in BOOLEAN :
       /\ unread \/ tree.address \notin servers
       /\ Sends(r, One(W("servers", Whole, servers)))

RecordRefused(records, host, except) ==
  \E n \in Present(records) \ except : records[n] = host

\* write_records reads the hostname after the records were read; the request
\* waits for it at "host".
SendsRecords(r, records) ==
  /\ rtReqs[r] = RtFree
  /\ rtServed < RtMaxServed
  /\ rtServed' = rtServed + 1
  /\ rtReqs' = [rtReqs EXCEPT ![r] = [RtFree EXCEPT !.pc = "host",
                                        !.calls = One(W("records", Whole, records))]]
  /\ UNCHANGED <<topic, tree, rtLocked, misjudged>>

WriteRecords(r) ==
  LET records == rtReqs[r].calls[1][1].value
  IN /\ rtReqs[r].pc = "host"
     /\ \E host \in {tree.hostname, 0} :
          IF ValidDns([tree EXCEPT !.records = records, !.hostname = host, !.servers = {}])
          THEN rtReqs' = [rtReqs EXCEPT ![r].pc = "call"]
          ELSE Answered(r)
     /\ UNCHANGED <<topic, tree, rtLocked, rtServed, misjudged>>

AddRecord(r) ==
  /\ topic = "dns"
  /\ Cardinality(Present(tree.records)) < RtMaxKeys
  /\ \E id \in RtNames \ Present(tree.records), host \in RtHosts :
       /\ ~RecordRefused(tree.records, host, {})
       /\ SendsRecords(r, [tree.records EXCEPT ![id] = host])

ReplaceRecord(r) ==
  /\ topic = "dns"
  /\ \E id \in Present(tree.records), host \in RtHosts :
       /\ ~RecordRefused(tree.records, host, {id})
       /\ SendsRecords(r, [tree.records EXCEPT ![id] = host])

RemoveRecord(r) ==
  /\ topic = "dns"
  /\ \E id \in Present(tree.records) : SendsRecords(r, [tree.records EXCEPT ![id] = 0])

\* An interface's static address, through the network routes.
AddressWrite(r) ==
  /\ topic = "dns"
  /\ \E a \in Addresses : Sends(r, One(W("address", Whole, a)))

(***************************************************************************)
(* The scalars, one at a time or several in a PATCH.                       *)
(***************************************************************************)
WritableSettings ==
  CASE topic = "dns" -> {<<"hostname", h>> : h \in RtHosts}
    [] topic = "listeners" -> {"ssh", "mqtt"} \X Flags
    [] topic = "wifi" -> {<<"station", f>> : f \in Flags}
                         \cup {<<"apMode", m>> : m \in {"off", "provisioning", "always"}}
    [] OTHER -> {}

SettingsWrite(r) ==
  \E w \in WritableSettings : Sends(r, One(W(w[1], Whole, w[2])))

\* The body is a map, written in the order of its paths: access.ssh.enabled
\* before mqtt.enabled, wifi.ap.mode before wifi.client.enabled.
SettingsPatch(r) ==
  /\ \E v, w \in WritableSettings :
       /\ <<v[1], w[1]>> \in {<<"ssh", "mqtt">>, <<"apMode", "station">>}
       /\ rtReqs[r] = RtFree
       /\ rtServed < RtMaxServed
       /\ rtServed' = rtServed + 1
       /\ rtReqs' = [rtReqs EXCEPT
            ![r] = [RtFree EXCEPT !.pc = "call", !.patch = TRUE,
                      !.calls = <<<<W(v[1], Whole, v[2]), W(w[1], Whole, w[2])>>>>]]
  /\ UNCHANGED <<topic, tree, rtLocked, misjudged>>

\* Whole documents: MQTT's switch and port, the console's port.
MqttWrite(r) ==
  /\ topic = "listeners"
  /\ \E f \in Flags, p \in Ports :
       Sends(r, <<<<W("mqtt", Whole, f), W("mqttPort", Whole, p)>>>>)

WebWrite(r) ==
  /\ topic = "listeners"
  /\ \E p \in Ports : Sends(r, One(W("webPort", Whole, p)))

(***************************************************************************)
(* Wi-Fi: the station's two scalars as two calls, the access point as one  *)
(* document, and the radio's role as one call of several paths.            *)
(***************************************************************************)
ClientWrite(r) ==
  /\ topic = "wifi"
  /\ \E i \in 1..2, f \in Flags :
       Sends(r, <<<<W("interface", Whole, i)>>, <<W("station", Whole, f)>>>>)

\* A body without a key keeps the one stored when the access point was read.
StoredAccessPoint(mode, psk) ==
  <<W("apMode", Whole, mode), W("apKey", Whole, IF psk = 0 THEN tree.apKey ELSE psk)>>

AccessPointWrite(r) ==
  /\ topic = "wifi"
  /\ \E mode \in {"off", "provisioning", "always"}, psk \in 0..2 :
       Sends(r, <<StoredAccessPoint(mode, psk)>>)

RoleWrite(r) ==
  /\ topic = "wifi"
  /\ \/ \E start \in {"provisioning", "always"}, psk \in 0..2 :
          Sends(r, <<<<W("station", Whole, FALSE)>> \o StoredAccessPoint(start, psk)>>)
     \/ \E f \in Flags :
          Sends(r, <<<<W("station", Whole, f), W("apMode", Whole, "off")>>>>)

RtStep(r) ==
  \/ AddNetwork(r) \/ ReplaceNetwork(r) \/ RemoveNetwork(r) \/ AddKey(r) \/ RemoveKey(r)
  \/ ProjectWrite(r) \/ ProjectRemove(r) \/ UnitWrite(r) \/ UnitRemove(r)
  \/ GlobalWrite(r) \/ AddRecord(r) \/ ReplaceRecord(r) \/ RemoveRecord(r)
  \/ WriteRecords(r) \/ AddressWrite(r)
  \/ SettingsWrite(r) \/ SettingsPatch(r) \/ MqttWrite(r) \/ WebWrite(r)
  \/ ClientWrite(r) \/ AccessPointWrite(r) \/ RoleWrite(r)
  \/ CheckWrittenProjects(r) \/ CheckRefuses(r) \/ Persisted(r) \/ CallFails(r)

RtNext == WifiHeld \/ \E r \in RtRequests : RtStep(r)

RtSpec == RtInit /\ [][RtNext]_rtVars

--------------------------------------------------------------------------------
\* What the stored lists promise their readers whatever the requests in flight
\* raced: no list is over its limit, no two records carry one name, and none
\* carries the device's own, though hostname and records are written by
\* different routes.
ListsSound ==
  /\ Cardinality(Present(tree.keys)) <= RtMaxKeys
  /\ \A m, n \in Present(tree.records) : m # n => tree.records[m] # tree.records[n]
  /\ \A n \in Present(tree.records) : tree.records[n] # tree.hostname

\* "two daemons cannot bind one port": the enabled listeners never share one in
\* the stored tree, whichever routes switch them and move their ports.
PortsDistinct == ValidListeners(tree)

\* "A record may not take the hostname and a server may not be an interface's
\* own address, so a write of either side is held to it."
ServerIsNotOwn == tree.address \notin tree.servers

\* "micad writes them all in one step, validates the result once": a PATCH
\* whose result holds every rule is not refused.
PatchJudgedByResult == ~misjudged

\* Whatever requests race, the stored lists and ports obey the rules a write is
\* held to.
RoutesSafe == ListsSound /\ PortsDistinct

=============================================================================
