-------------------------- MODULE ServiceRegistry --------------------------
(***************************************************************************)
(* What micad knows about the other services on the bus                    *)
(* (crates/micad/src/scan.rs, crates/mica-busname): the scan subscribes to *)
(* NameOwnerChanged, sweeps the names that are already there, probes each  *)
(* one and records it, and then follows the signals; ForgetService drops a *)
(* disconnected entry from the same table.  Each of them renders the table *)
(* under its lock and publishes what it rendered afterwards, so that the   *)
(* publications of two of them can come in either order.  The bus and the  *)
(* services on it are external: a signal is queued when a name changes its *)
(* owner, and an owner answers a probe as it does until it is replaced.    *)
(***************************************************************************)
EXTENDS Integers, Sequences, FiniteSets

CONSTANTS
  BusNames,      \* the names that can have an owner, as sequences of components
  RgAnswers,     \* what GetItems of a service can answer
  RgCallers,     \* the concurrent calls of ForgetService
  MandatoryPaths, \* MANDATORY_PATHS, DEVICE_INSTANCE among them
  RgMaxInt,      \* the largest i64
  RgMaxExact,    \* the largest integer up to which a double is exact
  RgChanges      \* bound: owners that come and go

VARIABLES
  rgPc,        \* how far micad's start and the scan are
  rgOwned,     \* the names that have an owner
  rgAnswer,    \* per name, what its owner answers, and NoItems without one
  rgSignals,   \* the NameOwnerChanged signals the scan has not taken
  rgSweep,     \* the names of ListNames that are not recorded yet
  rgJob,       \* what the scan is doing with a name
  rgEntries,   \* the registry
  rgForgets,   \* per caller, the snapshot it has not published yet
  rgServices,  \* what the live state shows under "services"
  rgRendered,  \* history: who rendered the table last
  rgPublished, \* history: who published last
  rgMissed,    \* history: the names a failed ListNames did not tell of
  rgChanges    \* owners that came and went

rgBus == <<rgOwned, rgAnswer, rgMissed, rgChanges>>
rgVars == <<rgPc, rgBus, rgSignals, rgSweep, rgJob, rgEntries, rgForgets, rgServices,
            rgRendered, rgPublished>>

BUS_NAME == <<"com", "mica", "micad">>
DEVICE_INSTANCE == "/DeviceInstance"
FALLBACK_INSTANCE == 0

ASSUME RgAssumption ==
  /\ BusNames \subseteq Seq(STRING) /\ BUS_NAME \in BusNames
  /\ DEVICE_INSTANCE \in MandatoryPaths
  /\ "scan" \notin RgCallers /\ "none" \notin RgCallers
  /\ \A a \in RgAnswers : a.item1 = TRUE /\ a.value.n \in Int
  /\ RgChanges \in Nat

-----------------------------------------------------------------------------
(* Names.                                                                    *)

\* mica_busname::parse: below com.mica, with a class, and no component empty.
Parses(n) ==
  /\ Len(n) > 2 /\ n[1] = "com" /\ n[2] = "mica"
  /\ \A i \in 3..Len(n) : n[i] # ""
ClassOf(n) == n[3]

\* The names record_appearance goes on with: not micad's own, and one of ours.
Registers(n) == n # BUS_NAME /\ Parses(n)

-----------------------------------------------------------------------------
(* What a probe establishes.                                                 *)

\* No com.mica.Item1, an answer that is not an item map, and no answer in time.
NoItems == [item1 |-> FALSE, paths |-> {}, value |-> [tag |-> "none", n |-> 0]]

\* as_i64: an integer of any width that fits, and a double that is one.  A double
\* is given in halves; a variant in a variant is what it holds.
IsInteger(v) ==
  \/ v.tag = "int"
  \/ v.tag = "u64" /\ v.n <= RgMaxInt
  \/ v.tag = "f64" /\ v.n % 2 = 0 /\ v.n <= 2 * RgMaxExact /\ -v.n <= 2 * RgMaxExact
AsI64(v) == IF v.tag = "f64" THEN v.n \div 2 ELSE v.n

\* probe, and the entry and the conformance made of it.
HasInstance(a) == DEVICE_INSTANCE \in a.paths /\ IsInteger(a.value)
EntryOf(n, a) ==
  [class |-> ClassOf(n), connected |-> TRUE,
   instance |-> IF HasInstance(a) THEN AsI64(a.value) ELSE FALLBACK_INSTANCE,
   gaps |-> [item1 |-> ~a.item1, instance |-> ~HasInstance(a),
             paths |-> MandatoryPaths \ a.paths]]

-----------------------------------------------------------------------------
(* The table and what is rendered of it.                                     *)

Connected(es) == {n \in DOMAIN es : es[n].connected}

\* A disconnected entry collides with nothing.
Collides(es, n) ==
  /\ n \in Connected(es)
  /\ \E m \in Connected(es) \ {n} :
       es[m].class = es[n].class /\ es[m].instance = es[n].instance

\* Registry::snapshot_of.
Snapshot(es) == [n \in DOMAIN es |-> [entry |-> es[n], collision |-> Collides(es, n)]]

\* Registry::record, disconnect and forget, on the entries.
Recorded(es, n, e) == [m \in DOMAIN es \cup {n} |-> IF m = n THEN e ELSE es[m]]
Disconnected(es, n) == [es EXCEPT ![n].connected = FALSE]
Forgotten(es, n) == [m \in DOMAIN es \ {n} |-> es[m]]

\* Who renders the table keeps what it rendered, and has at most one rendering.
RgJob(at, n, a, rendered) == [at |-> at, name |-> n, answer |-> a, snapshot |-> rendered]
RgNoJob == RgJob("none", BUS_NAME, NoItems, {})
Publishing(es) == RgJob("publishing", BUS_NAME, NoItems, {Snapshot(es)})

-----------------------------------------------------------------------------
(* The bus and the start of micad.                                           *)

\* Faulty variant: the sweep comes before the subscription.
SubscribedLate == rgPc = "waiting"

\* A signal reaches the scan once its match rule is in place.
Subscribed == rgPc \in {"listing", "sweeping", "waiting"}

\* NameOwnerChanged, which names the new owner, if any.
Signals(n, gained) ==
  rgSignals' = IF Subscribed THEN Append(rgSignals, [name |-> n, gained |-> gained])
               ELSE rgSignals

\* A service claims its name or takes it over from its owner.  micad's own name
\* is its own.
ServiceClaims(n, a) ==
  /\ n # BUS_NAME /\ rgChanges < RgChanges
  /\ rgOwned' = rgOwned \cup {n}
  /\ rgAnswer' = [rgAnswer EXCEPT ![n] = a]
  /\ Signals(n, TRUE)
  /\ rgMissed' = rgMissed \ {n}
  /\ rgChanges' = rgChanges + 1
  /\ UNCHANGED <<rgPc, rgSweep, rgJob, rgEntries, rgForgets, rgServices, rgRendered, rgPublished>>

ServiceLeaves(n) ==
  /\ n \in rgOwned \ {BUS_NAME} /\ rgChanges < RgChanges
  /\ rgOwned' = rgOwned \ {n}
  /\ rgAnswer' = [rgAnswer EXCEPT ![n] = NoItems]
  /\ Signals(n, FALSE)
  /\ rgMissed' = rgMissed \ {n}
  /\ rgChanges' = rgChanges + 1
  /\ UNCHANGED <<rgPc, rgSweep, rgJob, rgEntries, rgForgets, rgServices, rgRendered, rgPublished>>

\* service_scan_enabled.
ScanEnabled(dryRun, overridden) == ~dryRun \/ overridden

\* serve: the scan is spawned and the name claimed after it, whatever the scan has
\* come to.
SpawnScan ==
  /\ rgPc = "starting" /\ rgPc' = "spawned"
  /\ UNCHANGED <<rgBus, rgSignals, rgSweep, rgJob, rgEntries, rgForgets, rgServices, rgRendered,
                 rgPublished>>

RequestName ==
  /\ rgPc # "starting" /\ BUS_NAME \notin rgOwned
  /\ rgOwned' = rgOwned \cup {BUS_NAME}
  /\ Signals(BUS_NAME, TRUE)
  /\ UNCHANGED <<rgPc, rgAnswer, rgMissed, rgChanges, rgSweep, rgJob, rgEntries, rgForgets,
                 rgServices, rgRendered, rgPublished>>

-----------------------------------------------------------------------------
(* The scan.                                                                 *)

rgTable == <<rgEntries, rgForgets, rgServices, rgRendered, rgPublished>>

\* A bus that takes no match rule leaves the registry empty.
Subscribe(taken) ==
  /\ rgPc = "spawned" /\ rgPc' = IF taken THEN "listing" ELSE "stopped"
  /\ UNCHANGED <<rgBus, rgSignals, rgSweep, rgJob, rgTable>>

\* ListNames, and without it only the services that appear from now on.
ListNames(listed) ==
  /\ rgPc = "listing" /\ rgPc' = "sweeping"
  /\ rgSweep' = IF listed THEN rgOwned ELSE {}
  /\ rgMissed' = IF listed THEN {}
                 ELSE {n \in rgOwned : \A i \in DOMAIN rgSignals : rgSignals[i].name # n}
  /\ UNCHANGED <<rgOwned, rgAnswer, rgChanges, rgSignals, rgJob, rgTable>>

\* record_appearance up to its probe.
Appears(n) ==
  rgJob' = IF Registers(n) THEN RgJob("probing", n, NoItems, {}) ELSE rgJob

SweepName(n) ==
  /\ rgPc = "sweeping" /\ rgJob = RgNoJob /\ n \in rgSweep
  /\ rgSweep' = rgSweep \ {n}
  /\ Appears(n)
  /\ UNCHANGED <<rgPc, rgBus, rgSignals, rgTable>>

\* The sweep is over, and the table is published even when it is empty.
SweepEnds ==
  /\ rgPc = "sweeping" /\ rgJob = RgNoJob /\ rgSweep = {}
  /\ rgPc' = "waiting"
  /\ rgJob' = Publishing(rgEntries)
  /\ rgRendered' = "scan"
  /\ UNCHANGED <<rgBus, rgSignals, rgSweep, rgEntries, rgForgets, rgServices, rgPublished>>

TakeAppearance ==
  /\ rgPc = "waiting" /\ rgJob = RgNoJob /\ rgSignals # <<>> /\ Head(rgSignals).gained
  /\ rgSignals' = Tail(rgSignals)
  /\ Appears(Head(rgSignals).name)
  /\ UNCHANGED <<rgPc, rgBus, rgSweep, rgTable>>

\* record_disappearance: the entry is retained.
TakeDisappearance ==
  /\ rgPc = "waiting" /\ rgJob = RgNoJob /\ rgSignals # <<>> /\ ~Head(rgSignals).gained
  /\ rgSignals' = Tail(rgSignals)
  /\ LET n == Head(rgSignals).name IN
     IF n \in DOMAIN rgEntries
     THEN /\ rgEntries' = Disconnected(rgEntries, n)
          /\ rgJob' = Publishing(rgEntries')
          /\ rgRendered' = "scan"
     ELSE UNCHANGED <<rgEntries, rgJob, rgRendered>>
  /\ UNCHANGED <<rgPc, rgBus, rgSweep, rgForgets, rgServices, rgPublished>>

\* The probe is answered by whoever owns the name then, or fails, or takes too long.
ProbeEnds(answered) ==
  /\ rgJob.at = "probing"
  /\ rgJob' = RgJob("probed", rgJob.name, IF answered THEN rgAnswer[rgJob.name] ELSE NoItems, {})
  /\ UNCHANGED <<rgPc, rgBus, rgSignals, rgSweep, rgTable>>

ScanRecords ==
  /\ rgJob.at = "probed"
  /\ rgEntries' = Recorded(rgEntries, rgJob.name, EntryOf(rgJob.name, rgJob.answer))
  /\ rgJob' = Publishing(rgEntries')
  /\ rgRendered' = "scan"
  /\ UNCHANGED <<rgPc, rgBus, rgSignals, rgSweep, rgForgets, rgServices, rgPublished>>

\* publish_services replaces what is shown.
ScanPublishes ==
  /\ rgJob.at = "publishing"
  /\ rgServices' = rgJob.snapshot
  /\ rgPublished' = "scan"
  /\ rgJob' = RgNoJob
  /\ UNCHANGED <<rgPc, rgBus, rgSignals, rgSweep, rgEntries, rgForgets, rgRendered>>

-----------------------------------------------------------------------------
(* ForgetService, which refuses a connected service and an unknown name, and  *)
(* any name in a daemon without a scan.                                       *)

Forget(c, n) ==
  /\ rgPc # "off" /\ rgForgets[c] = {}
  /\ n \in DOMAIN rgEntries /\ ~rgEntries[n].connected
  /\ rgEntries' = Forgotten(rgEntries, n)
  /\ rgForgets' = [rgForgets EXCEPT ![c] = {Snapshot(rgEntries')}]
  /\ rgRendered' = c
  /\ UNCHANGED <<rgPc, rgBus, rgSignals, rgSweep, rgJob, rgServices, rgPublished>>

ForgetPublishes(c) ==
  /\ rgForgets[c] # {}
  /\ rgServices' = rgForgets[c]
  /\ rgPublished' = c
  /\ rgForgets' = [rgForgets EXCEPT ![c] = {}]
  /\ UNCHANGED <<rgPc, rgBus, rgSignals, rgSweep, rgJob, rgEntries, rgRendered>>

-----------------------------------------------------------------------------
RgInit ==
  /\ \E dryRun, overridden \in BOOLEAN :
       rgPc = IF ScanEnabled(dryRun, overridden) THEN "starting" ELSE "off"
  /\ rgOwned \in SUBSET (BusNames \ {BUS_NAME})
  /\ rgAnswer \in [BusNames -> RgAnswers \cup {NoItems}]
  /\ \A n \in BusNames \ rgOwned : rgAnswer[n] = NoItems
  /\ rgSignals = <<>> /\ rgSweep = {} /\ rgJob = RgNoJob
  /\ rgEntries = [n \in {} |-> NoItems]
  /\ rgForgets = [c \in RgCallers |-> {}]
  /\ rgServices = {}
  /\ rgRendered = "none" /\ rgPublished = "none" /\ rgMissed = {} /\ rgChanges = 0

RgNext ==
  \/ \E n \in BusNames : \/ \E a \in RgAnswers \cup {NoItems} : ServiceClaims(n, a)
                         \/ ServiceLeaves(n) \/ SweepName(n)
                         \/ \E c \in RgCallers : Forget(c, n)
  \/ \E b \in BOOLEAN : Subscribe(b) \/ ListNames(b) \/ ProbeEnds(b)
  \/ SpawnScan \/ RequestName \/ SweepEnds \/ TakeAppearance \/ TakeDisappearance
  \/ ScanRecords \/ ScanPublishes
  \/ \E c \in RgCallers : ForgetPublishes(c)

RgSpec == RgInit /\ [][RgNext]_rgVars

-----------------------------------------------------------------------------
(* What the registry promises.                                               *)

RgEntry ==
  [class : STRING, connected : BOOLEAN, instance : Int,
   gaps : [item1 : BOOLEAN, instance : BOOLEAN, paths : SUBSET MandatoryPaths]]

\* The registry is about other services of ours only.
RgTypeOK ==
  /\ rgPc \in {"off", "starting", "spawned", "listing", "sweeping", "waiting", "stopped"}
  /\ rgOwned \subseteq BusNames /\ rgSweep \subseteq BusNames /\ rgMissed \subseteq BusNames
  /\ rgAnswer \in [BusNames -> RgAnswers \cup {NoItems}]
  /\ rgSignals \in Seq([name : BusNames, gained : BOOLEAN])
  /\ DOMAIN rgEntries \subseteq {n \in BusNames : Registers(n)}
  /\ rgEntries \in [DOMAIN rgEntries -> RgEntry]
  /\ rgJob.at \in {"none", "probing", "probed", "publishing"}
  /\ rgRendered \in RgCallers \cup {"scan", "none"}
  /\ rgPublished \in RgCallers \cup {"scan", "none"}

\* The scan still has something to do with the name: it was listed, is being
\* probed or has a signal.
Heading(n) ==
  \/ n \in rgSweep
  \/ rgJob.at \in {"probing", "probed"} /\ rgJob.name = n
  \/ \E i \in DOMAIN rgSignals : rgSignals[i].name = n

\* Once the scan is done with a name, its entry says whether the name has an owner,
\* and what the owner of now answered, or that it did not: nothing is lost between
\* the subscription, the sweep and the probes, whatever came and went meanwhile.
FollowsBus ==
  rgPc \in {"sweeping", "waiting"} =>
    \A n \in BusNames : (Registers(n) /\ ~Heading(n) /\ n \notin rgMissed) =>
      /\ n \in Connected(rgEntries) <=> n \in rgOwned
      /\ n \in Connected(rgEntries) => \/ rgEntries[n] = EntryOf(n, rgAnswer[n])
                                       \/ rgEntries[n] = EntryOf(n, NoItems)

\* With nothing left to publish, what is shown is the table, if who changed it last
\* also published last.
ShowsTable ==
  (/\ rgJob.at # "publishing" /\ rgPublished = rgRendered /\ rgRendered # "none"
   /\ \A c \in RgCallers : rgForgets[c] = {})
  => rgServices = {Snapshot(rgEntries)}

\* Two connected services that are shown under one class and instance are shown to
\* collide.
CollisionsShown ==
  \A shown \in rgServices : \A n, m \in DOMAIN shown :
      LET a == shown[n] b == shown[m] IN
      (/\ n # m /\ a.entry.connected /\ b.entry.connected
       /\ a.entry.class = b.entry.class /\ a.entry.instance = b.entry.instance)
      => a.collision /\ b.collision

\* The service registry: well formed, in step with the bus, and shown as it is.
RegistrySafe == RgTypeOK /\ FollowsBus /\ ShowsTable /\ CollisionsShown
=============================================================================
