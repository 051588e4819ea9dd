----------------------------- MODULE Discovery -----------------------------
(***************************************************************************)
(* LAN discovery: micad's mDNS responder, with the drop-in files, the apps *)
(* and the upkeep that follow it between settings writes, and its SSDP     *)
(* responder, a thread of its own (crates/micad/src/reconciler/{mdns,ssdp} *)
(* .rs, reconciler/mdns/entries.rs, bus/mdns.rs, mdns_cli.rs).  Both are   *)
(* applied under the apply lock; the network keeps what it was last told.  *)
(***************************************************************************)
EXTENDS Integers, Sequences, FiniteSets

CONSTANTS
    DscNames,       \* the drop-in files' names, in their order
    DscImage,       \* the image's drop-ins: name -> entry, or NoEntry
    DscEntries,     \* what a runtime drop-in may ask for
    DscApps,        \* the apps' names, in their order
    DscAppEntry,    \* the apps' entries: app -> entry
    DscMax,         \* MAX_PUBLISHED
    DscHosts,       \* hostnames
    DscAddrs,       \* the addresses the interfaces may have
    DscChanges,     \* bound: settings, files, apps and interfaces changed
    DscFaults       \* bound: responders that fail to start, to publish or to withdraw

ASSUME DscAssumption == DscNames \in Seq(STRING) /\ DscApps \in Seq(STRING)

NoEntry == [inst |-> "none", kind |-> "none", port |-> 0]
BadEntry == [inst |-> "bad", kind |-> "none", port |-> 0]

VARIABLES
    dscSet,         \* the settings: the switches, the hostname, and whether the console is on the network
    dscDue,         \* a settings write waits for the apply worker
    dscRuntime,     \* the runtime drop-ins: name -> entry, BadEntry or NoEntry
    dscRunning,     \* the apps whose unit runs
    dscKick,        \* the upkeep was told of a change
    dscJob,         \* what is applied under the apply lock
    dscTold,        \* what mDNS says on the network, as <<instance, kind, port, hostname>>
    dscPublished,   \* micad's account of it: whether it runs, under which hostname, which services
    ssThread,       \* the SSDP thread: "none", "start", "run" or "stop"
    ssShared,       \* the hostname it is to announce
    ssCurrent,      \* the hostname it announces
    ssAddrs,        \* the addresses there are
    ssMember,       \* those whose interface is in the multicast group
    ssServed,       \* those the thread saw at its last look
    ssJoined,       \* those it ever joined
    ssHeard,        \* what was announced and not taken back: <<address, hostname>>
    dscUsed         \* changes and faults so far

mdnsVars == <<dscRuntime, dscRunning, dscKick, dscTold, dscPublished>>
ssVars == <<ssThread, ssShared, ssCurrent, ssServed, ssJoined, ssHeard>>
linkVars == <<ssAddrs, ssMember>>
dscVars == <<dscSet, dscDue, mdnsVars, dscJob, ssVars, linkVars, dscUsed>>

NotRunning == [runs |-> FALSE, host |-> "none", services |-> {}]
DscIdle == [at |-> "idle", by |-> "none", set |-> "none", want |-> {}]

DscInit ==
    /\ dscSet \in [mdns : {TRUE}, ssdp : {TRUE}, host : {CHOOSE h \in DscHosts : TRUE}, network : {TRUE}]
    /\ dscDue = TRUE
    /\ dscRuntime = [n \in {DscNames[i] : i \in DOMAIN DscNames} |-> NoEntry]
    /\ dscRunning = {} /\ dscKick = FALSE /\ dscJob = DscIdle
    /\ dscTold = {} /\ dscPublished = NotRunning
    /\ ssThread = "none" /\ ssShared = "none" /\ ssCurrent = "none"
    /\ ssAddrs = DscAddrs /\ ssMember = {} /\ ssServed = {} /\ ssJoined = {} /\ ssHeard = {}
    /\ dscUsed = [changes |-> 0, faults |-> 0]

DscChange == dscUsed.changes < DscChanges /\ dscUsed' = [dscUsed EXCEPT !.changes = @ + 1]
DscFault == dscUsed.faults < DscFaults /\ dscUsed' = [dscUsed EXCEPT !.faults = @ + 1]

----------------------------------------------------------------------------
(* What there is to publish.                                               *)

Service(host, source, e) ==
    [full |-> <<IF e.inst = "own" THEN host ELSE e.inst, e.kind>>, port |-> e.port, source |-> source]

(* The device itself, and its console when it is on the network.           *)
BuiltInServices(set) ==
    LET own(kind, port) == Service(set.host, <<"built-in", "device">>, [inst |-> "own", kind |-> kind, port |-> port])
    IN  IF set.network THEN {own("mica", 80), own("http", 80)} ELSE {own("mica", 0)}

(* The image's files, then the runtime's, each in the order of its name.   *)
(* A runtime file replaces the image's of its name, one that is refused    *)
(* too.                                                                    *)
DropIns ==
    LET n == Len(DscNames)
    IN  [i \in 1 .. 2 * n |->
            IF i > n THEN [source |-> <<"runtime", DscNames[i - n]>>, entry |-> dscRuntime[DscNames[i - n]]]
            ELSE [source |-> <<"image", DscNames[i]>>,
                  entry |-> IF dscRuntime[DscNames[i]] = NoEntry THEN DscImage[DscNames[i]] ELSE NoEntry]]

CheckEntry(e) == e \notin {NoEntry, BadEntry} /\ e.kind # "mica"

(* The running apps' entries come after the files, in the order of their   *)
(* names.                                                                  *)
AppEntries ==
    [i \in 1 .. Len(DscApps) |->
        [source |-> <<"app", DscApps[i]>>,
         entry |-> IF DscApps[i] \in dscRunning THEN DscAppEntry[DscApps[i]] ELSE NoEntry]]

(* Added one by one: a name that is published already is refused, and any  *)
(* past the bound.  So an entry is published when none before it, built in *)
(* or sound, has its name, and the ones of other names before it leave     *)
(* room.                                                                   *)
Wanted(set) ==
    LET asked == DropIns \o AppEntries
        service(i) == Service(set.host, asked[i].source, asked[i].entry)
        sound == {i \in DOMAIN asked : CheckEntry(asked[i].entry)}
        named == {i \in sound : \A s \in BuiltInServices(set) \cup {service(j) : j \in {j \in sound : j < i}} :
                                    s.full # service(i).full}
    IN  BuiltInServices(set)
            \cup {service(i) : i \in {i \in named :
                      Cardinality(BuiltInServices(set)) + Cardinality({j \in named : j < i}) < DscMax}}

----------------------------------------------------------------------------
(* Changes from outside.                                                   *)

SetDiscovery ==
    /\ DscChange
    /\ \E s \in [mdns : BOOLEAN, ssdp : BOOLEAN, host : DscHosts, network : BOOLEAN] :
        /\ Cardinality({f \in DOMAIN s : s[f] # dscSet[f]}) = 1
        /\ dscSet' = s
    /\ dscDue' = TRUE
    /\ UNCHANGED <<mdnsVars, dscJob, ssVars, linkVars>>

(* A runtime file is renamed in whole or removed, and the watch tells.     *)
AddFile(n, e) ==
    /\ DscChange /\ dscRuntime[n] # e
    /\ dscRuntime' = [dscRuntime EXCEPT ![n] = e]
    /\ dscKick' = TRUE
    /\ UNCHANGED <<dscSet, dscDue, dscRunning, dscTold, dscPublished, dscJob, ssVars, linkVars>>

(* An app's unit starts or stops, by a task or on its own; only a task's   *)
(* end is told.                                                            *)
AppChanges(a, told) ==
    /\ DscChange
    /\ dscRunning' = IF a \in dscRunning THEN dscRunning \ {a} ELSE dscRunning \cup {a}
    /\ dscKick' = (dscKick \/ told)
    /\ UNCHANGED <<dscSet, dscDue, dscRuntime, dscTold, dscPublished, dscJob, ssVars, linkVars>>

(* An interface goes, and its membership with it; or comes.                *)
AddressGoes(a) ==
    /\ DscChange /\ a \in ssAddrs
    /\ ssAddrs' = ssAddrs \ {a} /\ ssMember' = ssMember \ {a}
    /\ ssHeard' = {e \in ssHeard : e[1] # a}
    /\ UNCHANGED <<dscSet, dscDue, mdnsVars, dscJob, ssThread, ssShared, ssCurrent, ssServed, ssJoined>>

AddressComes(a) ==
    /\ DscChange /\ a \notin ssAddrs
    /\ ssAddrs' = ssAddrs \cup {a}
    /\ UNCHANGED <<dscSet, dscDue, mdnsVars, dscJob, ssVars, ssMember>>

----------------------------------------------------------------------------
(* Applying, under the apply lock: the worker for a settings write, and    *)
(* the upkeep when it is told, and every ten seconds.                      *)

WorkerApplies ==
    /\ dscJob = DscIdle /\ dscDue
    /\ dscDue' = FALSE
    /\ dscJob' = [DscIdle EXCEPT !.at = "read", !.by = "worker", !.set = dscSet]
    /\ UNCHANGED <<dscSet, mdnsVars, ssVars, linkVars, dscUsed>>

MdnsUpkeep ==
    /\ dscJob = DscIdle
    /\ dscKick' = FALSE
    /\ dscJob' = [DscIdle EXCEPT !.at = "read", !.by = "upkeep", !.set = dscSet]
    /\ UNCHANGED <<dscSet, dscDue, dscRuntime, dscRunning, dscTold, dscPublished, ssVars, linkVars, dscUsed>>

(* The files and the apps are read first, and may change meanwhile.        *)
ReadWanted ==
    /\ dscJob.at = "read"
    /\ dscJob' = [dscJob EXCEPT !.at = "mdns", !.want = Wanted(dscJob.set)]
    /\ UNCHANGED <<dscSet, dscDue, mdnsVars, ssVars, linkVars, dscUsed>>

AfterMdns == dscJob' = IF dscJob.by = "worker" THEN [dscJob EXCEPT !.at = "ssdp"] ELSE DscIdle

DnsRecord(s, host) == <<s.full[1], s.full[2], s.port, host>>

StopMdns ==
    /\ dscJob.at = "mdns" /\ ~dscJob.set.mdns
    /\ dscTold' = {} /\ dscPublished' = NotRunning
    /\ AfterMdns
    /\ UNCHANGED <<dscSet, dscDue, dscRuntime, dscRunning, dscKick, ssVars, linkVars, dscUsed>>

StartFails ==
    /\ dscJob.at = "mdns" /\ dscJob.set.mdns /\ ~dscPublished.runs
    /\ DscFault /\ AfterMdns
    /\ UNCHANGED <<dscSet, dscDue, mdnsVars, ssVars, linkVars>>

\* Mutant: a new hostname withdraws only what is no longer wanted
StaleUnrenamed(p) == p.services \ dscJob.want

(* What is no longer wanted as it is, and everything under an old hostname.*)
Stale(p) == IF p.host # dscJob.set.host THEN p.services ELSE p.services \ dscJob.want

(* What is noted after `done` of the missing ones were published.          *)
Noted(p, missing, done) == [runs |-> TRUE, host |-> dscJob.set.host, services |-> p \cup done]

(* Withdrawn one by one, then published one by one; the first that fails   *)
(* ends the apply.                                                         *)
ApplyMdns ==
    /\ dscJob.at = "mdns" /\ dscJob.set.mdns
    /\ LET p == IF dscPublished.runs THEN dscPublished ELSE [NotRunning EXCEPT !.host = dscJob.set.host]
           stale == Stale(p)
           kept == p.services \ stale
           missing == {s \in dscJob.want : \A t \in kept : t.full # s.full}
           told == IF dscPublished.runs THEN dscTold ELSE {}
       IN  \/ \E gone \in SUBSET stale \ {stale} :
                 /\ DscFault
                 /\ dscTold' = told \ {DnsRecord(s, p.host) : s \in gone}
                 /\ dscPublished' = [p EXCEPT !.runs = TRUE, !.services = @ \ gone]
           \/ \E done \in SUBSET missing :
                 /\ IF done = missing THEN UNCHANGED dscUsed ELSE DscFault
                 /\ dscTold' = (told \ {DnsRecord(s, p.host) : s \in stale}) \cup {DnsRecord(s, dscJob.set.host) : s \in done}
                 /\ dscPublished' = Noted(kept, missing, done)
    /\ AfterMdns
    /\ UNCHANGED <<dscSet, dscDue, dscRuntime, dscRunning, dscKick, ssVars, linkVars>>

(* SSDP: nothing to do, a new announcement for the thread, or a thread     *)
(* started or stopped; stopping waits for its last word.                   *)
SsdpWanted == dscJob.set.ssdp /\ dscJob.set.network

ApplySsdp ==
    /\ dscJob.at = "ssdp" /\ SsdpWanted
    /\ \/ /\ ssThread = "none" /\ ssThread' = "start" /\ UNCHANGED dscUsed
       \/ /\ ssThread = "none" /\ DscFault /\ UNCHANGED ssThread
       \/ /\ ssThread # "none" /\ UNCHANGED <<ssThread, dscUsed>>
    /\ ssShared' = dscJob.set.host
    /\ dscJob' = DscIdle
    /\ UNCHANGED <<dscSet, dscDue, mdnsVars, ssCurrent, ssServed, ssJoined, ssHeard, linkVars>>

StopSsdp ==
    /\ dscJob.at = "ssdp" /\ ~SsdpWanted
    /\ IF ssThread = "none" THEN dscJob' = DscIdle /\ UNCHANGED ssThread
       ELSE ssThread' = "stop" /\ dscJob' = [dscJob EXCEPT !.at = "join"]
    /\ UNCHANGED <<dscSet, dscDue, mdnsVars, ssShared, ssCurrent, ssServed, ssJoined, ssHeard, linkVars, dscUsed>>

----------------------------------------------------------------------------
(* The SSDP thread.                                                        *)

Alive(addrs, host) == {<<a, host>> : a \in addrs \cap ssAddrs}

(* The addresses not joined before, now joined.                            *)
Join(addrs) == (addrs \cap ssAddrs) \ ssJoined

SsStarts ==
    /\ ssThread = "start"
    /\ ssServed' = ssAddrs /\ ssJoined' = ssAddrs /\ ssMember' = ssAddrs
    /\ ssCurrent' = ssShared /\ ssHeard' = Alive(ssAddrs, ssShared)
    /\ ssThread' = "run"
    /\ UNCHANGED <<dscSet, dscDue, mdnsVars, dscJob, ssShared, ssAddrs, dscUsed>>

(* A new announcement: the old one is taken back first.                    *)
SsUpdate ==
    /\ ssThread = "run" /\ ssShared # ssCurrent
    /\ ssHeard' = (ssHeard \ Alive(ssServed, ssCurrent)) \cup Alive(ssServed, ssShared)
    /\ ssCurrent' = ssShared
    /\ UNCHANGED <<dscSet, dscDue, mdnsVars, dscJob, ssThread, ssShared, ssServed, ssJoined, linkVars, dscUsed>>

(* Every ten seconds the interfaces are looked at, and new addresses       *)
(* announced.                                                              *)
SsLook ==
    /\ ssThread = "run"
    /\ LET new == Join(ssAddrs)
       IN  /\ ssServed' = ssAddrs
           /\ ssJoined' = ssJoined \cup new /\ ssMember' = ssMember \cup new
           /\ ssHeard' = ssHeard \cup Alive(new, ssCurrent)
    /\ UNCHANGED <<dscSet, dscDue, mdnsVars, dscJob, ssThread, ssShared, ssCurrent, ssAddrs, dscUsed>>

(* Every fifteen minutes.                                                  *)
SsAnnounce ==
    /\ ssThread = "run"
    /\ ssHeard' = ssHeard \cup Alive(ssServed, ssCurrent)
    /\ UNCHANGED <<dscSet, dscDue, mdnsVars, dscJob, ssThread, ssShared, ssCurrent, ssServed, ssJoined, linkVars, dscUsed>>

SsEnds ==
    /\ ssThread = "stop"
    /\ ssHeard' = ssHeard \ Alive(ssServed, ssCurrent)
    /\ ssThread' = "none" /\ ssMember' = {} /\ ssServed' = {} /\ ssJoined' = {}
    /\ dscJob' = DscIdle
    /\ UNCHANGED <<dscSet, dscDue, mdnsVars, ssShared, ssCurrent, ssAddrs, dscUsed>>

----------------------------------------------------------------------------
DscOutside ==
    \/ SetDiscovery
    \/ \E n \in DOMAIN dscRuntime, e \in DscEntries \cup {NoEntry, BadEntry} : AddFile(n, e)
    \/ \E a \in DOMAIN DscAppEntry, told \in BOOLEAN : AppChanges(a, told)
    \/ \E a \in DscAddrs : AddressGoes(a) \/ AddressComes(a)

DscApply == ReadWanted \/ StopMdns \/ StartFails \/ ApplyMdns \/ ApplySsdp \/ StopSsdp
DscThread == SsStarts \/ SsUpdate \/ SsLook \/ SsAnnounce \/ SsEnds
DscNext == DscOutside \/ WorkerApplies \/ MdnsUpkeep \/ DscApply \/ DscThread

(* The runtime and the apply lock, first come first served, run what waits;*)
(* the thread's loop comes round within a second.                          *)
DscFair ==
    /\ SF_dscVars(WorkerApplies) /\ SF_dscVars(MdnsUpkeep) /\ WF_dscVars(DscApply)
    /\ WF_dscVars(SsStarts) /\ WF_dscVars(SsUpdate) /\ WF_dscVars(SsEnds)
    /\ SF_dscVars(SsLook) /\ SF_dscVars(SsAnnounce)

DscSpec == DscInit /\ [][DscNext]_dscVars /\ DscFair

----------------------------------------------------------------------------
(* Properties.                                                             *)

\* What the network hears is what micad believes it told it, through responders that fail midway,
\* renames and switches: every record under the current hostname, none left under an old one, and
\* nothing of a thread that ended or of a name it no longer has (mdns.rs apply; ssdp.rs serve).
HeardIsRecorded ==
    /\ dscTold = {DnsRecord(s, dscPublished.host) : s \in dscPublished.services}
    /\ \A e \in ssHeard : ssThread \in {"run", "stop"} /\ e[2] = ssCurrent

\* When nothing changes any more, what is wanted is published, whatever failed before and whether
\* the change was told or only found by the upkeep's own look.
PublishedAtLast ==
    <>[](dscTold = IF dscSet.mdns THEN {DnsRecord(s, dscSet.host) : s \in Wanted(dscSet)} ELSE {})

\* An address that is there is answered on at last: its interface is in the group.
AnsweredAtLast == <>[](ssThread = "run" => ssAddrs \subseteq ssMember)

=============================================================================
