--------------------------- MODULE SnapshotStore ---------------------------
(***************************************************************************)
(* Diagnostic snapshots of the web API: collecting one from micad under a  *)
(* deadline, what redaction lets through, and the bounded store they are   *)
(* published to (crates/mica-apid/src/diagnostics/{collect,redaction,      *)
(* store}.rs, routes/snapshots.rs; Replace::write of crates/mica-fs).  One *)
(* request collects at a time, behind `collecting`; but the lock is the    *)
(* handler's, and a client that hangs up drops the handler while the       *)
(* blocking thread it started goes on publishing.  A file is the request   *)
(* that created it, so that a write through one name is seen under another.*)
(***************************************************************************)
EXTENDS Integers, FiniteSets, FiniteSetsExt, Sequences

CONSTANTS
    SnRequests,   \* the requests to collect a snapshot
    SnMax,        \* MAX_SNAPSHOTS
    SnTotal,      \* MAX_TOTAL_BYTES
    SnOne,        \* MAX_SNAPSHOT_BYTES
    SnSizes,      \* the lengths a snapshot may come to
    SnSections,   \* section -> its members, in the order they are read
    SnDeadline,   \* COLLECTION_DEADLINE
    SnTimeout,    \* SECTION_TIMEOUT
    SnDeletes,    \* bound: snapshots deleted by hand
    SnCuts        \* bound: power cuts

ASSUME SnapshotBounds ==
    /\ SnMax \in Nat \ {0} /\ SnOne \in Nat /\ SnTotal \in Nat /\ SnOne <= SnTotal /\ SnMax <= SnTotal
    /\ SnSizes \subseteq Nat \ {0}
    /\ SnDeadline \in Nat /\ SnTimeout \in Nat
    /\ Len(SnSections) \in Nat /\ DOMAIN SnSections = 1 .. Len(SnSections)
    /\ IsFiniteSet(SnRequests) /\ "none" \notin SnRequests /\ "old" \notin SnRequests

(* "private" is what a member holds under a secret's name, by a rule that   *)
(* is not to show it, or where the schema does not name it.                 *)
ASSUME PrivateIsMarked ==
    \A s \in DOMAIN SnSections : \A m \in SnSections[s] : m.value = "private" =>
        \/ m.in \in {"object", "map"} /\ m.secret
        \/ m.in = "object" /\ ~m.named
        \/ m.rule # "scalar"

VARIABLES
    snFiles,      \* id -> the file <id>.json, or "none"
    snStaging,    \* id -> the file .staging-<id>.json, or "none"
    snWrote,      \* request -> how much of its file is written: "none", "part" or "all"
    snDurable,    \* snFiles as the last sync of the directory left it
    snCollecting, \* the request that holds `collecting`, or "none"
    snReq,        \* request -> where it is
    snHungUp,     \* a client has left while its snapshot was being published
    snUsed        \* [delete, cut]

snVars == <<snFiles, snStaging, snWrote, snDurable, snCollecting, snReq, snHungUp, snUsed>>

SnIds == 1 .. SnMax + Cardinality(SnRequests)

(* The store is full of snapshots of length 1 at first, or empty.          *)
SnIdle == [at |-> "idle", read |-> 0, took |-> 0, kept |-> {}, holds |-> {}, size |-> 0, here |-> TRUE,
           names |-> {}, seen |-> {}, id |-> 0]

SnInit ==
    /\ snFiles \in {[i \in SnIds |-> IF i <= n THEN "old" ELSE "none"] : n \in {0, SnMax}}
    /\ snStaging = [i \in SnIds |-> "none"]
    /\ snWrote = [r \in SnRequests |-> "none"]
    /\ snDurable = snFiles
    /\ snCollecting = "none"
    /\ snReq = [r \in SnRequests |-> SnIdle]
    /\ snHungUp = FALSE
    /\ snUsed = [delete |-> 0, cut |-> 0]

----------------------------------------------------------------------------
(* Redaction.  A member has the container it is in, whether the schema     *)
(* names it, whether its name is one a secret travels under, its rule and  *)
(* its value: text, text with a secret marker, text with a hardware        *)
(* address, a number, a container where a scalar is expected, or null.     *)

Scrub(value) == CASE value = "marked" -> "redacted line"
                  [] value = "address" -> "text with <mac>"
                  [] OTHER -> value

ApplyRule(rule, value) ==
    CASE value = "null"     -> {"null"}
      [] rule = "redact" /\ value # "null" -> {"<redacted>"}
      [] rule = "scalar" /\ value \notin {"null", "nested"} -> {Scrub(value)}
      [] OTHER -> {}

Apply(m) ==
    CASE m.in = "object" /\ m.secret              -> {"<redacted>"}
      [] m.in = "object" /\ ~m.secret /\ ~m.named -> {}
      [] m.in = "map" /\ m.secret                 -> {}
      [] OTHER                                    -> ApplyRule(m.rule, m.value)

(* The sections that answered; of the others only the reason is kept.      *)
RedactSnapshot(kept) == UNION {UNION {Apply(m) : m \in SnSections[s]} : s \in kept}

----------------------------------------------------------------------------
(* Collecting.  Every section is read under its own timeout within the     *)
(* deadline of the whole.                                                  *)

SnMove(r, to) == snReq' = [snReq EXCEPT ![r].at = to]

ApiCollect(r) ==
    /\ snReq[r].at = "idle" /\ snCollecting = "none"
    /\ snCollecting' = r
    /\ SnMove(r, "collect")
    /\ UNCHANGED <<snFiles, snStaging, snWrote, snDurable, snHungUp, snUsed>>

(* 409 diagnostics_busy.                                                   *)
CollectBusy(r) ==
    /\ snReq[r].at = "idle" /\ snCollecting # "none"
    /\ SnMove(r, "busy")
    /\ UNCHANGED <<snFiles, snStaging, snWrote, snDurable, snCollecting, snHungUp, snUsed>>

SectionBound(took) == IF SnDeadline - took < SnTimeout THEN SnDeadline - took ELSE SnTimeout

(* The source answers, answers with an error, does not answer in time, or  *)
(* is not read because the deadline has passed.                            *)
Section(r) ==
    LET next == snReq[r].read + 1
        took == snReq[r].took
    IN  /\ snReq[r].at = "collect" /\ next <= Len(SnSections)
        /\ \E t \in 0 .. SectionBound(took), ok \in BOOLEAN :
              /\ ok => took < SnDeadline
              /\ snReq' = [snReq EXCEPT ![r].read = next, ![r].took = took + t,
                                        ![r].kept = IF ok THEN @ \cup {next} ELSE @]
        /\ UNCHANGED <<snFiles, snStaging, snWrote, snDurable, snCollecting, snHungUp, snUsed>>

(* The snapshot is redacted and goes to the blocking thread; one too long  *)
(* is refused before anything is touched.                                  *)
Collected(r) ==
    /\ snReq[r].at = "collect" /\ snReq[r].read = Len(SnSections)
    /\ \E n \in SnSizes :
          \/ /\ n <= SnOne
             /\ snReq' = [snReq EXCEPT ![r].at = "sweep", ![r].size = n, ![r].read = 0, ![r].took = 0,
                                       ![r].kept = {}, ![r].holds = RedactSnapshot(snReq[r].kept)]
             /\ UNCHANGED snCollecting
          \/ /\ n > SnOne
             /\ SnMove(r, "refused") /\ snCollecting' = "none"
    /\ UNCHANGED <<snFiles, snStaging, snWrote, snDurable, snHungUp, snUsed>>

Publishing == {"sweep", "list", "stat", "evict", "create", "write", "rename", "sync"}

(* A client that leaves drops the handler, and the lock with it.           *)
ClientLeaves(r) ==
    /\ snCollecting = r
    /\ snCollecting' = "none"
    /\ snReq' = [snReq EXCEPT ![r].here = FALSE,
                              ![r].at = IF @ = "collect" THEN "dropped" ELSE @]
    /\ snHungUp' = (snHungUp \/ snReq[r].at \in Publishing)
    /\ UNCHANGED <<snFiles, snStaging, snWrote, snDurable, snUsed>>

----------------------------------------------------------------------------
(* The store.                                                              *)

SizeOf(f) == IF f = "old" THEN 1 ELSE IF snWrote[f] = "all" THEN snReq[f].size ELSE 0
Listed == {i \in SnIds : snFiles[i] # "none"}
Bytes(entries) == FoldSet(LAMBDA e, n : n + e.bytes, 0, entries)

(* A publication ends, and the handler with it if it is still there.       *)
Ends(r, to) ==
    /\ snReq' = [snReq EXCEPT ![r].at = to, ![r].names = {}, ![r].seen = {}]
    /\ snCollecting' = IF snReq[r].here THEN "none" ELSE snCollecting

SweepStaging(r) ==
    /\ snReq[r].at = "sweep"
    /\ snStaging' = [i \in SnIds |-> "none"]
    /\ SnMove(r, "list")
    /\ UNCHANGED <<snFiles, snWrote, snDurable, snCollecting, snHungUp, snUsed>>

(* The names of the directory first, then the length of each.              *)
ListNames(r) ==
    /\ snReq[r].at = "list"
    /\ snReq' = [snReq EXCEPT ![r].at = "stat", ![r].names = Listed]
    /\ UNCHANGED <<snFiles, snStaging, snWrote, snDurable, snCollecting, snHungUp, snUsed>>

NextId(ids) == IF ids = {} THEN 1 ELSE Max(ids) + 1

List(r) ==
    /\ snReq[r].at = "stat"
    /\ IF snReq[r].names \subseteq Listed
       THEN /\ snReq' = [snReq EXCEPT
                  ![r].at = "evict", ![r].names = {}, ![r].id = NextId(snReq[r].names),
                  ![r].seen = {[id |-> i, bytes |-> SizeOf(snFiles[i])] : i \in snReq[r].names}]
            /\ UNCHANGED snCollecting
       ELSE Ends(r, "refused")
    /\ UNCHANGED <<snFiles, snStaging, snWrote, snDurable, snHungUp, snUsed>>

Fits(r) ==
    Cardinality(snReq[r].seen) < SnMax /\ Bytes(snReq[r].seen) + snReq[r].size <= SnTotal

(* The oldest goes until the new one fits; one that is gone already ends   *)
(* the publication.                                                        *)
Evict(r) ==
    /\ snReq[r].at = "evict" /\ ~Fits(r) /\ snReq[r].seen # {}
    /\ LET old == CHOOSE e \in snReq[r].seen : \A o \in snReq[r].seen : e.id <= o.id
       IN  IF snFiles[old.id] # "none"
           THEN /\ snFiles' = [snFiles EXCEPT ![old.id] = "none"]
                /\ snReq' = [snReq EXCEPT ![r].seen = @ \ {old}]
                /\ UNCHANGED snCollecting
           ELSE Ends(r, "refused") /\ UNCHANGED snFiles
    /\ UNCHANGED <<snStaging, snWrote, snDurable, snHungUp, snUsed>>

(* Replace::write: what is under the temporary name is unlinked, a new     *)
(* file created there exclusively, written, synced and renamed, and the    *)
(* directory synced.                                                       *)
UnlinkStaging(r) ==
    /\ snReq[r].at = "evict" /\ (Fits(r) \/ snReq[r].seen = {})
    /\ snStaging' = [snStaging EXCEPT ![snReq[r].id] = "none"]
    /\ snReq' = [snReq EXCEPT ![r].at = "create", ![r].seen = {}]
    /\ UNCHANGED <<snFiles, snWrote, snDurable, snCollecting, snHungUp, snUsed>>

CreateStaging(r) ==
    LET id == snReq[r].id
    IN  /\ snReq[r].at = "create"
        /\ IF snStaging[id] = "none"
           THEN /\ snStaging' = [snStaging EXCEPT ![id] = r]
                /\ snWrote' = [snWrote EXCEPT ![r] = "part"]
                /\ SnMove(r, "write") /\ UNCHANGED snCollecting
           ELSE /\ snStaging' = [snStaging EXCEPT ![id] = "none"]
                /\ Ends(r, "refused") /\ UNCHANGED snWrote
        /\ UNCHANGED <<snFiles, snDurable, snHungUp, snUsed>>

WriteStaging(r) ==
    /\ snReq[r].at = "write"
    /\ snWrote' = [snWrote EXCEPT ![r] = "all"]
    /\ SnMove(r, "rename")
    /\ UNCHANGED <<snFiles, snStaging, snDurable, snCollecting, snHungUp, snUsed>>

(* A write that fails, for want of room or an error of the medium: the     *)
(* staging file is removed again.                                          *)
WriteFails(r) ==
    /\ snReq[r].at = "write"
    /\ snStaging' = [snStaging EXCEPT ![snReq[r].id] = "none"]
    /\ Ends(r, "refused")
    /\ UNCHANGED <<snFiles, snWrote, snDurable, snHungUp, snUsed>>

\* Mutant: the snapshot is put in place before it is written
RenameEarly(r) ==
    LET id == snReq[r].id
    IN  /\ snReq[r].at = "write"
        /\ snFiles' = [snFiles EXCEPT ![id] = snStaging[id]]
        /\ snStaging' = [snStaging EXCEPT ![id] = "none"]
        /\ SnMove(r, "sync")
        /\ UNCHANGED <<snWrote, snDurable, snCollecting, snHungUp, snUsed>>

Rename(r) ==
    LET id == snReq[r].id
    IN  /\ snReq[r].at = "rename"
        /\ IF snStaging[id] # "none"
           THEN /\ snFiles' = [snFiles EXCEPT ![id] = snStaging[id]]
                /\ SnMove(r, "sync") /\ UNCHANGED snCollecting
           ELSE Ends(r, "refused") /\ UNCHANGED snFiles
        /\ snStaging' = [snStaging EXCEPT ![id] = "none"]
        /\ UNCHANGED <<snWrote, snDurable, snHungUp, snUsed>>

Publish(r) ==
    /\ snReq[r].at = "sync"
    /\ snDurable' = snFiles
    /\ Ends(r, "created")
    /\ UNCHANGED <<snFiles, snStaging, snWrote, snHungUp, snUsed>>

(* A snapshot removed by hand, which no lock excludes.                     *)
DeleteSnapshot(i) ==
    /\ snUsed.delete < SnDeletes /\ snFiles[i] # "none"
    /\ snFiles' = [snFiles EXCEPT ![i] = "none"]
    /\ snDurable' = snFiles'
    /\ snUsed' = [snUsed EXCEPT !.delete = @ + 1]
    /\ UNCHANGED <<snStaging, snWrote, snCollecting, snReq, snHungUp>>

(* The daemon and its threads are gone.  The file system keeps the order   *)
(* of the changes to a directory: what was not synced is there or is not.  *)
SnPowerCut ==
    /\ snUsed.cut < SnCuts
    /\ snFiles' \in {snFiles, snDurable}
    /\ snDurable' = snFiles'
    /\ snReq' = [r \in SnRequests |->
          IF snReq[r].at = "idle" THEN snReq[r]
          ELSE [SnIdle EXCEPT !.at = "gone", !.size = snReq[r].size, !.holds = snReq[r].holds]]
    /\ snCollecting' = "none"
    /\ snUsed' = [snUsed EXCEPT !.cut = @ + 1]
    /\ UNCHANGED <<snStaging, snWrote, snHungUp>>

SnNext ==
    \/ \E r \in SnRequests :
          \/ ApiCollect(r) \/ CollectBusy(r) \/ Section(r) \/ Collected(r) \/ ClientLeaves(r)
          \/ SweepStaging(r) \/ ListNames(r) \/ List(r) \/ Evict(r)
          \/ UnlinkStaging(r) \/ CreateStaging(r) \/ WriteStaging(r) \/ WriteFails(r)
          \/ Rename(r) \/ Publish(r)
    \/ \E i \in SnIds : DeleteSnapshot(i)
    \/ SnPowerCut

SnSpec == SnInit /\ [][SnNext]_snVars

----------------------------------------------------------------------------
SnTypeOK ==
    /\ snFiles \in [SnIds -> SnRequests \cup {"none", "old"}]
    /\ snStaging \in [SnIds -> SnRequests \cup {"none"}]
    /\ snWrote \in [SnRequests -> {"none", "part", "all"}]
    /\ snCollecting \in SnRequests \cup {"none"}
    /\ snHungUp \in BOOLEAN

\* The store never holds more snapshots or bytes than its caps, however
\* deletions overlap a publication (store.rs publish), as long as no client
\* left while its snapshot was being published: `collecting` goes with the
\* handler, and the thread it started goes on beside the next request's.
WithinCount == ~snHungUp => Cardinality(Listed) <= SnMax
WithinCaps ==
    /\ WithinCount
    /\ ~snHungUp => Bytes({[id |-> i, bytes |-> SizeOf(snFiles[i])] : i \in Listed}) <= SnTotal

\* "Whole or not at all" (store.rs:162), under the same condition: a snapshot
\* the store lists is written to its end, after a power cut too.
ListedAreWhole ==
    ~snHungUp => \A i \in Listed : snFiles[i] # "old" => snWrote[snFiles[i]] = "all"

\* Whatever was listed carries no value of a member under a secret's name or
\* of one the schema redacts, and no text with a secret or a hardware address
\* in it (redaction.rs apply); and collecting ends within the deadline.
Shareable ==
    /\ \A i \in Listed :
          snFiles[i] # "old" => snReq[snFiles[i]].holds \cap {"marked", "address", "private"} = {}
    /\ \A r \in SnRequests : snReq[r].took <= SnDeadline

SnapshotsSafe == SnTypeOK /\ WithinCaps /\ ListedAreWhole /\ Shareable
=============================================================================
