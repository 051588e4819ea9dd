---------------------------- MODULE AccessCache -----------------------------
(***************************************************************************)
(* mica-apid's cache of the `access` settings subtree                      *)
(* (crates/mica-apid/src/access_cache.rs, bus_client.rs,                   *)
(* routes/credential.rs), against the writes micad makes to it and the     *)
(* SettingsChanged signals that follow them.                               *)
(*                                                                         *)
(* The subtree is the number of writes made to it.  A signal on its way    *)
(* carries nothing but that it touches `access`, so the wire is their      *)
(* number.  Each lock of the cache, and each bus message, is one action.   *)
(***************************************************************************)
EXTENDS Integers

CONSTANTS
  Readers,    \* requests that read the subtree
  Writers,    \* requests that write it
  MaxWrites,  \* bound on the writes
  MaxLapses,  \* bound on the subscriptions lost
  None

ASSUME CacheAssumption ==
  /\ MaxWrites \in Nat /\ MaxLapses \in Nat
  /\ None \notin Nat

VARIABLES
  stored,       \* the subtree micad stores
  wire,         \* SettingsChanged signals on their way to the watcher
  watcher,      \* where watch_settings_changed is
  lapses,
  synchronised, generation, value,  \* the cache
  readers,      \* where each read is, the generation and the value it holds
  writers,      \* where each write is, its version, whether apid awaits it
  acked,        \* the latest write apid was answered and dropped the cache for
  silent        \* history: the writes whose SettingsChanged was not emitted

cache == <<synchronised, generation, value>>
vars == <<stored, wire, watcher, lapses, cache, readers, writers, acked, silent>>

NoRead == [at |-> "idle", generation |-> 0, value |-> None]

NoWrite == [at |-> "idle", version |-> 0, awaited |-> FALSE]

Init ==
  /\ stored = 0 /\ wire = 0 /\ acked = 0 /\ lapses = 0
  /\ silent = {}
  /\ watcher = "dialling"
  /\ synchronised = FALSE /\ generation = 0 /\ value = None
  /\ readers = [r \in Readers |-> NoRead]
  /\ writers = [w \in Writers |-> NoWrite]

-----------------------------------------------------------------------------
(* The cache: each a single hold of its lock *)

\* invalidate.
Drop ==
  /\ generation' = generation + 1
  /\ value' = None
  /\ UNCHANGED synchronised

\* fill.
Fill(taken, read) ==
  /\ value' = IF synchronised /\ generation = taken THEN read ELSE value
  /\ UNCHANGED <<synchronised, generation>>

-----------------------------------------------------------------------------
(* Writes: micad persists, emits SettingsChanged and answers *)

Persist(w, awaited) ==
  /\ writers[w].at = "idle" /\ stored < MaxWrites
  /\ stored' = stored + 1
  /\ writers' = [writers EXCEPT ![w] =
       [at |-> "persisted", version |-> stored', awaited |-> awaited]]
  /\ UNCHANGED <<wire, watcher, lapses, cache, readers, acked, silent>>

Subscribed == watcher \in {"matched", "live"}

\* The signal reaches whoever has subscribed by now.
Emit(w) ==
  /\ writers[w].at = "persisted"
  /\ wire' = IF Subscribed THEN wire + 1 ELSE wire
  /\ writers' = [writers EXCEPT ![w].at = "emitted"]
  /\ UNCHANGED <<stored, watcher, lapses, cache, readers, acked, silent>>

\* The signal cannot be emitted: the write is answered with an error, and apid
\* does not drop its cache.
EmitFail(w) ==
  /\ writers[w].at = "persisted"
  /\ silent' = silent \cup {writers[w].version}
  /\ writers' = [writers EXCEPT ![w] = NoWrite]
  /\ UNCHANGED <<stored, wire, watcher, lapses, cache, readers, acked>>

\* apid's bound on the call elapses while micad goes on.
Timeout(w) ==
  /\ writers[w].at # "idle" /\ writers[w].awaited
  /\ writers' = [writers EXCEPT ![w].awaited = FALSE]
  /\ UNCHANGED <<stored, wire, watcher, lapses, cache, readers, acked, silent>>

\* The answer: apid drops the cache after its own write.
Answered(w) ==
  /\ writers[w].at = "emitted"
  /\ writers' = [writers EXCEPT ![w] = NoWrite]
  /\ IF writers[w].awaited
     THEN /\ Drop
          /\ acked' = IF writers[w].version > acked THEN writers[w].version ELSE acked
     ELSE UNCHANGED <<cache, acked>>
  /\ UNCHANGED <<stored, wire, watcher, lapses, readers, silent>>

-----------------------------------------------------------------------------
(* watch_settings_changed *)

\* Faulty variant: the cache is marked live as soon as the watcher dials.
WatcherMatchLive ==
  /\ watcher = "dialling"
  /\ watcher' = "matched"
  /\ synchronised' = TRUE /\ generation' = generation + 1 /\ value' = None
  /\ UNCHANGED <<stored, wire, lapses, readers, writers, acked, silent>>

\* The match rule is in place: signals queue on the stream from here.
WatcherMatch ==
  /\ watcher = "dialling"
  /\ watcher' = "matched"
  /\ UNCHANGED <<stored, wire, lapses, cache, readers, writers, acked, silent>>

\* subscribed.
WatcherSubscribed ==
  /\ watcher = "matched"
  /\ watcher' = "live"
  /\ synchronised' = TRUE /\ generation' = generation + 1 /\ value' = None
  /\ UNCHANGED <<stored, wire, lapses, readers, writers, acked, silent>>

WatcherSignal ==
  /\ watcher = "live" /\ wire > 0
  /\ wire' = wire - 1
  /\ Drop
  /\ UNCHANGED <<stored, watcher, lapses, readers, writers, acked, silent>>

\* The stream ends, with what was on it.
WatcherEnds ==
  /\ Subscribed /\ lapses < MaxLapses
  /\ watcher' = "ended"
  /\ wire' = 0
  /\ lapses' = lapses + 1
  /\ UNCHANGED <<stored, cache, readers, writers, acked, silent>>

\* lapsed, and dialling again.
WatcherLapsed ==
  /\ watcher = "ended"
  /\ watcher' = "dialling"
  /\ synchronised' = FALSE /\ generation' = generation + 1 /\ value' = None
  /\ UNCHANGED <<stored, wire, lapses, readers, writers, acked, silent>>

-----------------------------------------------------------------------------
(* access_settings; a request the cache answers changes nothing *)

ReaderMiss(r) ==
  /\ readers[r].at = "idle"
  /\ ~(synchronised /\ value # None)
  /\ readers' = [readers EXCEPT ![r].at = "missed"]
  /\ UNCHANGED <<stored, wire, watcher, lapses, cache, writers, acked, silent>>

ReaderSample(r) ==
  /\ readers[r].at = "missed"
  /\ readers' = [readers EXCEPT ![r].at = "sampled", ![r].generation = generation]
  /\ UNCHANGED <<stored, wire, watcher, lapses, cache, writers, acked, silent>>

\* micad answers GetSettings("access").
ReaderRead(r) ==
  /\ readers[r].at = "sampled"
  /\ readers' = [readers EXCEPT ![r].at = "read", ![r].value = stored]
  /\ UNCHANGED <<stored, wire, watcher, lapses, cache, writers, acked, silent>>

\* The read fails or takes too long.
ReaderFails(r) ==
  /\ readers[r].at = "sampled"
  /\ readers' = [readers EXCEPT ![r] = NoRead]
  /\ UNCHANGED <<stored, wire, watcher, lapses, cache, writers, acked, silent>>

ReaderFill(r) ==
  /\ readers[r].at = "read"
  /\ Fill(readers[r].generation, readers[r].value)
  /\ readers' = [readers EXCEPT ![r] = NoRead]
  /\ UNCHANGED <<stored, wire, watcher, lapses, writers, acked, silent>>

-----------------------------------------------------------------------------
WriterSteps(w) ==
  \/ \E awaited \in BOOLEAN : Persist(w, awaited)
  \/ Emit(w) \/ EmitFail(w) \/ Timeout(w) \/ Answered(w)

WatcherSteps ==
  WatcherMatch \/ WatcherSubscribed \/ WatcherSignal \/ WatcherEnds \/ WatcherLapsed

ReaderSteps(r) ==
  ReaderMiss(r) \/ ReaderSample(r) \/ ReaderRead(r) \/ ReaderFails(r) \/ ReaderFill(r)

Next ==
  \/ \E w \in Writers : WriterSteps(w)
  \/ WatcherSteps
  \/ \E r \in Readers : ReaderSteps(r)

Spec == Init /\ [][Next]_vars

-----------------------------------------------------------------------------
(* Properties *)

\* The cache serves only while the watcher holds a subscription or has not yet
\* reported it lost, and what it serves was stored.
TypeOK ==
  /\ {stored, wire, acked, lapses, generation} \subseteq Nat
  /\ silent \subseteq Nat
  /\ watcher \in {"dialling", "matched", "live", "ended"}
  /\ synchronised \in BOOLEAN
  /\ synchronised => watcher \in {"live", "ended"}
  /\ watcher = "live" => synchronised
  /\ value \in Nat \cup {None}
  /\ readers \in [Readers -> [at : {"idle", "missed", "sampled", "read"},
                              generation : Nat, value : Nat \cup {None}]]
  /\ writers \in [Writers -> [at : {"idle", "persisted", "emitted"},
                              version : Nat, awaited : BOOLEAN]]

\* "the cache never serves unless it is provably fresh" (access_cache.rs): with
\* the subscription live and no change still being signalled, what is cached
\* lacks only writes whose SettingsChanged could not be emitted, whatever reads
\* were in flight.
FreshUnlessSignalled ==
  (watcher = "live" /\ value # None /\ wire = 0
     /\ \A w \in Writers : writers[w].at # "persisted")
  => (value + 1)..stored \subseteq silent

\* "this is what makes a revocation take effect on the next request"
\* (routes/tokens.rs): once apid's own write is answered the cache never again
\* holds a subtree from before it, signal or no signal.
OwnWriteSeen == value # None => value >= acked

\* The cache never grants on stale data: it lacks no signalled write, and no
\* answered write of apid, across lost subscriptions and racing reads.
CacheSafe == TypeOK /\ FreshUnlessSignalled /\ OwnWriteSeen

=============================================================================
