----------------------------- MODULE NetworkRoutes ------------------------------
(***************************************************************************)
(* The network routes of mica-apid: the whole map, one interface, and a    *)
(* tunnel's peers.  Each is a handful of bus calls, reads of the stored    *)
(* map, the question whether a network task is unfinished, and one write,  *)
(* with nothing held between them.  micad stores what it is sent and its   *)
(* reconciler judges the map again when it applies it.                     *)
(*                                                                         *)
(* An entry has a kind, an addressing ("none", "dhcp" or a static subnet), *)
(* a VLAN's parent, a bridge's ports, the peers of a WireGuard block, and  *)
(* whether a gateway or DNS server of its static addressing parses.  A     *)
(* peer is a public key and its pre-shared key: none, the key somebody sent*)
(* for it (named after it), or Redacted, which a read shows instead.       *)
(***************************************************************************)
EXTENDS Naturals, FiniteSets, Sequences, SequencesExt

CONSTANTS NrRequests,    \* requests apid serves at a time
          NrPeers,       \* WireGuard public keys
          NrMaxServed    \* bound: network requests of a behaviour

VARIABLES nrStored,      \* the stored `network` map
          nrRunning,     \* the map of the last apply that came up
          nrTasks,       \* unfinished network.apply tasks
          nrApply,       \* the map being applied, or NoNetwork
          nrReqs,        \* each request's handler
          nrServed,      \* how much of the bound is used
          overwrote,     \* an interface route replaced an entry it was not sent for
          disagreed      \* a route by itself stored a map the reconciler refuses

nrVars == <<nrStored, nrRunning, nrTasks, nrApply, nrReqs, nrServed, overwrote,
            disagreed>>

Ifaces == {"eth0", "eth0.1", "br0", "wg0"}

NoKey == "no key"

Redacted == "redacted"

Plain == [kind |-> "physical", addr |-> "none", parent |-> "", ports |-> {},
          peers |-> <<>>, parses |-> TRUE]

Absent == [Plain EXCEPT !.kind = "absent"]

NoNetwork == [i \in {"none"} |-> Absent]

Declared(map) == {i \in Ifaces : map[i] # Absent}

Peer(p, psk) == [key |-> p, psk |-> psk]

\* The peer lists a body may carry.
PeerLists == {<<>>} \cup {<<Peer(p, psk)>> : p \in NrPeers, psk \in {NoKey, Redacted} \cup NrPeers}
             \cup {<<Peer(p, Redacted), Peer(q, q)>> : p, q \in NrPeers}

OwnSecrets(peers) == \A i \in DOMAIN peers : peers[i].psk \in {NoKey, Redacted, peers[i].key}

\* The entries a body may carry for an interface.
Bodies(i) ==
  CASE i = "eth0" -> {[Plain EXCEPT !.addr = a] : a \in {"none", "dhcp", "net1"}}
                     \cup {[Plain EXCEPT !.addr = "net1", !.parses = FALSE]}
    [] i = "eth0.1" -> {[Plain EXCEPT !.kind = "vlan", !.parent = "eth0", !.addr = a] :
                          a \in {"dhcp", "net1"}}
    [] i = "br0" -> {[Plain EXCEPT !.kind = "bridge", !.ports = {"eth0"}]}
    [] OTHER -> {[Plain EXCEPT !.kind = "wireguard", !.peers = ps] :
                   ps \in {l \in PeerLists : OwnSecrets(l)}}
                \cup {[Plain EXCEPT !.peers = <<Peer(p, NoKey)>>] : p \in NrPeers}

NrFree == [pc |-> "free", op |-> "", name |-> "", map |-> NoNetwork, carried |-> {},
           alone |-> TRUE]

NrInit == /\ nrStored = [i \in Ifaces |-> Absent]
          /\ nrRunning = nrStored
          /\ nrTasks = 0
          /\ nrApply = NoNetwork
          /\ nrReqs = [r \in NrRequests |-> NrFree]
          /\ nrServed = 0
          /\ overwrote = FALSE
          /\ disagreed = FALSE

(***************************************************************************)
(* The rules of micad-settings.                                            *)
(***************************************************************************)
\* topology_violations.
Topology(map) ==
  /\ \A i \in Declared(map) : map[i].kind = "vlan" => map[i].parent \in Declared(map)
  /\ \A i \in Declared(map) : \A p \in map[i].ports :
       p \in Declared(map) /\ map[p].addr = "none"
  /\ \A i, j \in Declared(map) : i # j => map[i].ports \cap map[j].ports = {}

\* validate_peers: a pre-shared key is a key, so never the sentinel.
PeersValid(e) == \A k \in DOMAIN e.peers : e.peers[k].psk # Redacted

RelationalOK(map) == Topology(map) /\ \A i \in Declared(map) : PeersValid(map[i])

\* What only one entry may hold: a static subnet, a VLAN id on a parent.
ClaimsOf(e) == (IF e.addr \notin {"none", "dhcp"} THEN {<<"subnet", e.addr>>} ELSE {})
               \cup (IF e.kind = "vlan" THEN {<<"vlan", e.parent>>} ELSE {})

\* write_violations: a collision is the fault of an entry the write carries.
WriteOK(map, carried) ==
  \A i \in carried \cap Declared(map) : \A j \in Declared(map) \ {i} :
    ClaimsOf(map[i]) \cap ClaimsOf(map[j]) = {}

\* map_violations.  entry_violations judges a static address and the routes; a
\* gateway or a DNS server beside the address that does not parse passes it.
MapOK(map, carried) == RelationalOK(map) /\ WriteOK(map, carried)

\* The reconciler's: validate_static and validate_kind_blocks are its own.
OwnRules(map) ==
  \A i \in Declared(map) : /\ map[i].parses
                           /\ map[i].peers # <<>> => map[i].kind = "wireguard"

ValidateNetwork(map) == RelationalOK(map) /\ OwnRules(map)

ReferencesTo(map, i) ==
  {j \in Declared(map) : map[j].parent = i \/ i \in map[j].ports}

(***************************************************************************)
(* The routes.                                                             *)
(***************************************************************************)
NrBegins(r, req) ==
  /\ nrReqs[r] = NrFree
  /\ nrServed < NrMaxServed
  /\ nrServed' = nrServed + 1
  /\ nrReqs' = [q \in NrRequests |->
                 IF q = r THEN [req EXCEPT !.alone = \A s \in NrRequests : nrReqs[s] = NrFree]
                 ELSE [nrReqs[q] EXCEPT !.alone = (nrReqs[q] = NrFree)]]
  /\ UNCHANGED <<nrStored, nrRunning, nrTasks, nrApply, overwrote,
                 disagreed>>

NrGoes(r, pc) == nrReqs' = [nrReqs EXCEPT ![r].pc = pc]

NrAnswers(r) == nrReqs' = [nrReqs EXCEPT ![r] = NrFree]

\* restore_preshared_keys: the sentinel stands for the key the stored peer of
\* that public key has; it stays, and is refused, when there is none.
RestorePresharedKeys(peers, stored) ==
  [k \in DOMAIN peers |->
     LET kept == {n \in DOMAIN stored : stored[n].key = peers[k].key /\ stored[n].psk # NoKey}
     IN IF peers[k].psk = Redacted /\ kept # {}
        THEN [peers[k] EXCEPT !.psk = stored[CHOOSE n \in kept : \A j \in kept : n <= j].psk]
        ELSE peers[k]]

RestoredMap(map, names) ==
  [i \in Ifaces |-> IF i \in names
                    THEN [map[i] EXCEPT !.peers = RestorePresharedKeys(@, nrStored[i].peers)]
                    ELSE map[i]]

\* adopt_vlan_parents: the missing parents, taken over as the image configures
\* them when micad can say so.
Orphans(map) == {map[i].parent : i \in {j \in Declared(map) : map[j].kind = "vlan"}}
                \ Declared(map)

AdoptVlanParents(map) ==
  {map, [i \in Ifaces |-> IF i \in Orphans(map) THEN [Plain EXCEPT !.addr = "dhcp"] ELSE map[i]]}

\* What a read of the map shows of its keys.
Shown(map) ==
  [i \in Ifaces |->
     LET peers == map[i].peers
     IN  [map[i] EXCEPT !.peers = [k \in DOMAIN peers |->
            Peer(peers[k].key, IF peers[k].psk = NoKey THEN NoKey ELSE Redacted)]]]

\* PUT /network: the version it names is that of the map stored now, which the
\* body was made from.
NetworkWrite(r) ==
  \E i \in Ifaces : \E e \in Bodies(i) \cup {Absent} :
    NrBegins(r, [NrFree EXCEPT !.pc = "idle", !.op = "map",
                               !.map = [Shown(nrStored) EXCEPT ![i] = e]])

\* PUT /network/{iface}
IfaceWrite(r) ==
  \E i \in Ifaces : \E e \in Bodies(i) :
    NrBegins(r, [NrFree EXCEPT !.pc = "idle", !.op = "iface", !.name = i,
                               !.map = [j \in Ifaces |-> IF j = i THEN e ELSE Absent]])

\* DELETE /network/{iface}
IfaceRemove(r) ==
  \E i \in Declared(nrStored) :
    NrBegins(r, [NrFree EXCEPT !.pc = "idle", !.op = "remove", !.name = i,
                               !.map = [nrStored EXCEPT ![i] = Absent]])

\* tunnel_peers, and api_write_peers up to its question, with the list it makes
\* of the stored one.
TunnelPeers(r, peers) ==
  /\ nrStored["wg0"].kind = "wireguard"
  /\ PeersValid([Plain EXCEPT !.peers = peers])
  /\ NrBegins(r, [NrFree EXCEPT !.pc = "idle", !.op = "peers", !.name = "wg0",
                               !.map = [nrStored EXCEPT !["wg0"].peers = peers]])

PeersAdd(r) ==
  \E p \in NrPeers, keyed \in BOOLEAN :
    /\ \A k \in DOMAIN nrStored["wg0"].peers : nrStored["wg0"].peers[k].key # p
    /\ TunnelPeers(r, Append(nrStored["wg0"].peers, Peer(p, IF keyed THEN p ELSE NoKey)))

\* The first peer of the key goes; a list may hold the key twice.
PeersRemove(r) ==
  \E k \in DOMAIN nrStored["wg0"].peers :
    /\ \A j \in 1..(k - 1) : nrStored["wg0"].peers[j].key # nrStored["wg0"].peers[k].key
    /\ TunnelPeers(r, RemoveAt(nrStored["wg0"].peers, k))

\* check_network_idle: 409 when a task is known to be unfinished.  The tasks are
\* the signal mirror's, which may not have heard of the newest.
CheckNetworkIdle(r) ==
  /\ nrReqs[r].pc = "idle"
  /\ \/ nrTasks > 0 /\ NrAnswers(r)
     \/ NrGoes(r, IF nrReqs[r].op = "peers" THEN "write" ELSE "judge")
  /\ UNCHANGED <<nrStored, nrRunning, nrTasks, nrApply, nrServed, overwrote, disagreed>>

NrSends(r, map, carried) ==
  nrReqs' = [nrReqs EXCEPT ![r].pc = "write", ![r].map = map, ![r].carried = carried]

NrJudged(r) ==
  /\ nrReqs[r].pc = "judge"
  /\ UNCHANGED <<nrStored, nrRunning, nrTasks, nrApply, nrServed, overwrote, disagreed>>

\* The keys are restored from a second read of the stored map.
JudgeMap(r) ==
  /\ NrJudged(r)
  /\ nrReqs[r].op = "map"
  /\ \E map \in AdoptVlanParents(RestoredMap(nrReqs[r].map, Declared(nrReqs[r].map))) :
       IF MapOK(map, Declared(map)) THEN NrSends(r, map, Ifaces) ELSE NrAnswers(r)

\* It carries its own entry and the parents it adopts.
JudgeIface(r) ==
  LET i == nrReqs[r].name
      placed == [nrStored EXCEPT ![i] = nrReqs[r].map[i]]
  IN /\ NrJudged(r)
     /\ nrReqs[r].op = "iface"
     /\ \E map \in AdoptVlanParents(RestoredMap(placed, {i})) :
          LET carried == {i} \cup (Declared(map) \ Declared(placed))
          IN IF MapOK(map, carried) THEN NrSends(r, map, carried) ELSE NrAnswers(r)

JudgeRemove(r) ==
  LET q == nrReqs[r]
  IN /\ NrJudged(r)
     /\ q.op = "remove"
     /\ IF ReferencesTo(q.map, q.name) = {} /\ RelationalOK(q.map)
        THEN NrSends(r, q.map, Ifaces) ELSE NrAnswers(r)

\* The write lands: the carried paths of one call, or the list of the peers at
\* its own path, which makes an entry where there is none.
WriteLands(r) ==
  LET q == nrReqs[r]
      old == IF nrStored["wg0"] = Absent THEN Plain ELSE nrStored["wg0"]
  IN /\ q.pc = "write"
     /\ nrStored' = IF q.op = "peers"
                    THEN [nrStored EXCEPT !["wg0"] = [old EXCEPT !.peers = q.map["wg0"].peers]]
                    ELSE [i \in Ifaces |-> IF i \in q.carried THEN q.map[i] ELSE nrStored[i]]
     /\ overwrote' = (overwrote \/ (/\ q.op = "iface"
                                    /\ \E i \in q.carried \ {q.name} : nrStored[i] # Absent))
     /\ nrTasks' = nrTasks + 1
     /\ disagreed' = (disagreed \/ (/\ q.alone /\ ValidateNetwork(nrStored)
                                    /\ ~ValidateNetwork(nrStored')))
     /\ NrAnswers(r)
     /\ UNCHANGED <<nrRunning, nrApply, nrServed>>

\* The call is refused, or apid gives up on it and it does not land.
NrCallFails(r) ==
  /\ nrReqs[r].pc # "free"
  /\ NrAnswers(r)
  /\ UNCHANGED <<nrStored, nrRunning, nrTasks, nrApply, nrServed, overwrote, disagreed>>

(***************************************************************************)
(* The reconciler.                                                         *)
(***************************************************************************)
StartNetworkApply ==
  /\ nrTasks > 0 /\ nrApply = NoNetwork
  /\ nrApply' = nrStored
  /\ UNCHANGED <<nrStored, nrRunning, nrTasks, nrReqs, nrServed, overwrote, disagreed>>

\* Refused: nothing is written, and the stored map stays.
NetworkRefused ==
  /\ nrApply # NoNetwork /\ ~ValidateNetwork(nrApply)
  /\ nrTasks' = nrTasks - 1
  /\ nrApply' = NoNetwork
  /\ UNCHANGED <<nrStored, nrRunning, nrReqs, nrServed, overwrote, disagreed>>

\* It comes up, or is rolled back and the running map is stored again unless a
\* write landed since.
NetworkApplied ==
  /\ nrApply # NoNetwork /\ ValidateNetwork(nrApply)
  /\ \/ nrRunning' = nrApply /\ UNCHANGED nrStored
     \/ /\ nrStored' = IF nrStored = nrApply THEN nrRunning ELSE nrStored
        /\ UNCHANGED nrRunning
  /\ nrTasks' = nrTasks - 1
  /\ nrApply' = NoNetwork
  /\ UNCHANGED <<nrReqs, nrServed, overwrote, disagreed>>

NrStep(r) ==
  \/ NetworkWrite(r) \/ IfaceWrite(r) \/ IfaceRemove(r) \/ PeersAdd(r) \/ PeersRemove(r)
  \/ CheckNetworkIdle(r) \/ JudgeMap(r) \/ JudgeIface(r) \/ JudgeRemove(r)
  \/ WriteLands(r) \/ NrCallFails(r)

NrNext == \/ StartNetworkApply \/ NetworkRefused \/ NetworkApplied
          \/ \E r \in NrRequests : NrStep(r)

--------------------------------------------------------------------------------
\* A pre-shared key stays with its peer: whatever edits race, no stored peer
\* holds the sentinel a read shows or the key sent for another peer, so no
\* tunnel is rendered with a key its far end does not have.
SecretsStayWithPeers ==
  \A i \in Declared(nrStored) : \A k \in DOMAIN nrStored[i].peers :
    nrStored[i].peers[k].psk \in {NoKey, nrStored[i].peers[k].key}

\* However the routes raced, the map that runs holds every rule: a stored map
\* that two of them broke between them (a VLAN whose parent went, a peer list
\* whose tunnel went) is never rendered.
RunningIsSound == RelationalOK(nrRunning) /\ OwnRules(nrRunning)

\* "The entries' own dot-paths and not the whole map, so a concurrent edit of a
\* different interface is not lost."
EditOfAnotherKept == ~overwrote

\* "Both call these functions, so the two cannot disagree about what a
\* declaration is": a map a route accepted, with no other request about, is not
\* one the reconciler refuses.
RulesAgree == ~disagreed

\* A secret stays with the peer it was given to, and what runs was sound when it
\* was admitted, however reads, writes and applies race.
NetworksSafe == SecretsStayWithPeers /\ RunningIsSound

=============================================================================
