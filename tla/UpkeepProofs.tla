---------------------------- MODULE UpkeepProofs ----------------------------
(***************************************************************************)
(* Six things the device keeps in order, for any values of the constants:  *)
(* a transient password is gone at the next boot and the console presents  *)
(* the identity it stored; the registry of the services follows the bus;   *)
(* the verified store of the update workspace holds whole objects only,    *)
(* through every cut, kill and wrong byte; the network hears what micad    *)
(* recorded it told it; provisioning gives back the settings and the radio *)
(* it took; and the apply queue loses no write, while its table of tasks   *)
(* forgets no job that still has an owner.                                 *)
(***************************************************************************)
EXTENDS DeviceCredentials, ServiceRegistry, Acquisition, Discovery, ProvisioningRadio,
        ApplyQueue, SequenceTheorems, FiniteSetTheorems, WellFoundedInduction, TLAPS

(***************************************************************************)
(* The credentials of the device.  The invariant of the password adds that *)
(* the marker names the call whose hash is being written, that no marker   *)
(* is of an earlier boot, and that a hash no marker names is there because *)
(* a later call stopped between the two files, and that the server runs    *)
(* with what its file says unless a restart failed; that of the identity,  *)
(* that the lock is of the request that reloads what it stored.            *)
(***************************************************************************)
PwInv ==
  /\ PwTypeOK /\ GoneOnNextBoot /\ AcceptedOnlyWhileSet
  /\ pwWrite.at # "none" => pwWrite.call \in pwDone \ pwBorn
  /\ pwWrite.at \in {"truncate", "write"} => pwMarker = pwWrite.call
  /\ pwMarker # "none" => pwMarker \in pwDone \ pwBorn
  /\ pwShadow \in PwCalls /\ pwShadow # pwMarker => pwStopped
  /\ pwShadow \in PwCalls => pwShadow \in pwDone
  /\ pwFile => pwMarker # "none"
  /\ pwMissed # "restart" => pwTold = pwFile

LEMMA PwNamed ==
  /\ "none" \notin PwCalls /\ "*" \notin PwCalls /\ "torn" \notin PwCalls
  /\ PwNoWrite \in [call : PwCalls \cup {"none"}, at : {"none", "marker", "truncate", "write"}]
  /\ PwNoWrite.at = "none"
  BY CredentialBounds DEF PwNoWrite

LEMMA PwInitInv == PwInit => PwInv
  <1> SUFFICES ASSUME PwInit PROVE PwInv
    OBVIOUS
  <1>1. pwUsed \in [fault : 0 .. PwFaults, stop : 0 .. PwStops]
    BY CredentialBounds DEF PwInit
  <1>2. PwTypeOK
    BY <1>1, PwNamed DEF PwInit, PwTypeOK
  <1> QED BY <1>2, PwNamed DEF PwInit, PwInv, GoneOnNextBoot, AcceptedOnlyWhileSet

LEMMA PwFailed ==
  ASSUME PwTypeOK, PwFails
  PROVE  pwUsed' \in [fault : 0 .. PwFaults, stop : 0 .. PwStops] /\ pwWrite' = PwNoWrite
         /\ pwWrite'.at = "none"
  BY CredentialBounds DEF PwFails, PwTypeOK, PwNoWrite

LEMMA EnqueueStep ==
  ASSUME PwInv, NEW c \in PwCalls, NEW console \in BOOLEAN,
         EnqueueTransientRootPassword(c, console)
  PROVE  PwInv'
  BY PwNamed DEF EnqueueTransientRootPassword, PwInv, PwTypeOK, GoneOnNextBoot, AcceptedOnlyWhileSet, pwServer

LEMMA MarkerStep == ASSUME PwInv, WriteMarker PROVE PwInv'
  <1>1. CASE PwFails
    BY <1>1, PwNamed, PwFailed DEF WriteMarker, PwInv, PwTypeOK, GoneOnNextBoot, AcceptedOnlyWhileSet, pwServer
  <1>2. CASE ~PwFails
    BY PwNamed, <1>2 DEF WriteMarker, PwInv, PwTypeOK, pwServer, GoneOnNextBoot, AcceptedOnlyWhileSet
  <1> QED BY <1>1, <1>2

LEMMA TruncateStep == ASSUME PwInv, TruncateShadow PROVE PwInv'
  BY PwNamed, PwFailed DEF TruncateShadow, PwInv, PwTypeOK, GoneOnNextBoot, AcceptedOnlyWhileSet, pwServer

LEMMA RewriteStep == ASSUME PwInv, RewriteRootHash PROVE PwInv'
  BY PwNamed, PwFailed DEF RewriteRootHash, PwInv, PwTypeOK, GoneOnNextBoot, AcceptedOnlyWhileSet, pwServer

LEMMA SetAuthStep ==
  ASSUME PwInv, NEW on \in BOOLEAN, SetPasswordAuthentication(on) PROVE PwInv'
  BY DEF SetPasswordAuthentication, PwInv, PwTypeOK, GoneOnNextBoot, AcceptedOnlyWhileSet, pwServer

LEMMA SshdStep == ASSUME PwInv, SshdApply PROVE PwInv'
  <1> DEFINE told == pwWant /\ pwMarker # "none"
  <1>1. UNCHANGED <<pwShadow, pwMarker, pwDone, pwWant, pwUp, pwBorn, pwStopped>> /\ pwQueue' = FALSE
        /\ pwWrite.at = "none" /\ pwWrite = PwNoWrite
    BY PwNamed DEF SshdApply
  <1>2. pwWrite' = PwNoWrite /\ pwWrite'.at = "none" /\ pwUsed' \in [fault : 0 .. PwFaults, stop : 0 .. PwStops]
    BY <1>1, PwFailed, PwNamed DEF SshdApply, PwInv, PwTypeOK
  <1>3. pwFile' \in BOOLEAN /\ pwTold' \in BOOLEAN /\ pwMissed' \in {"none", "apply", "restart"}
    <2>1. pwFile' = told \/ pwFile' = pwFile
      BY Zenon DEF SshdApply
    <2>2. pwTold' = told \/ pwTold' = pwTold
      BY Zenon DEF SshdApply
    <2>3. told \in BOOLEAN /\ pwFile \in BOOLEAN /\ pwTold \in BOOLEAN
      BY Zenon DEF PwInv, PwTypeOK
    <2>4. pwMissed' \in {"none", "apply", "restart"}
      BY DEF SshdApply, PwInv, PwTypeOK
    <2> HIDE DEF told
    <2> QED BY <2>1, <2>2, <2>3, <2>4, Zenon
  <1>4. PwTypeOK'
    BY <1>1, <1>2, <1>3 DEF PwInv, PwTypeOK
  <1>5. GoneOnNextBoot'
    BY <1>1, <1>2 DEF PwInv, GoneOnNextBoot
  <1>6. AcceptedOnlyWhileSet' /\ (pwFile' => pwMarker' # "none") /\ (pwMissed' # "restart" => pwTold' = pwFile')
    BY <1>1 DEF SshdApply, PwInv, PwTypeOK, AcceptedOnlyWhileSet
  <1> QED BY <1>1, <1>2, <1>4, <1>5, <1>6 DEF PwInv

LEMMA PwStops1 ==
  ASSUME PwTypeOK, pwUsed.stop < PwStops, pwUsed' = [pwUsed EXCEPT !.stop = @ + 1]
  PROVE  pwUsed' \in [fault : 0 .. PwFaults, stop : 0 .. PwStops]
  BY CredentialBounds DEF PwTypeOK

LEMMA KilledStep == ASSUME PwInv, MicadKilled PROVE PwInv'
  BY PwStops1, PwNamed DEF PwInv, MicadKilled, PwTypeOK, GoneOnNextBoot, AcceptedOnlyWhileSet, pwServer

LEMMA MicadStartsStep == ASSUME PwInv, MicadStarts PROVE PwInv'
  BY DEF MicadStarts, PwInv, PwTypeOK, GoneOnNextBoot, AcceptedOnlyWhileSet, pwServer

LEMMA RebootStep == ASSUME PwInv, Reboot PROVE PwInv'
  BY PwStops1, PwNamed DEF PwInv, Reboot, ShadowReconcile, PwTypeOK, GoneOnNextBoot, AcceptedOnlyWhileSet, pwServer

LEMMA PwStep == PwInv /\ [PwNext]_pwVars => PwInv'
  <1> SUFFICES ASSUME PwInv, [PwNext]_pwVars PROVE PwInv'
    OBVIOUS
  <1>1. CASE UNCHANGED pwVars
    BY <1>1 DEF pwVars, PwInv, PwTypeOK, GoneOnNextBoot, AcceptedOnlyWhileSet, pwServer
  <1>2. CASE PwNext
    BY <1>2, EnqueueStep, MarkerStep, TruncateStep, RewriteStep, SetAuthStep, SshdStep, KilledStep,
       MicadStartsStep, RebootStep DEF PwNext
  <1> QED BY <1>1, <1>2

-----------------------------------------------------------------------------
IdInv ==
  /\ IdTypeOK /\ ServedIsStored
  /\ "first" \in idPair
  /\ ~idUp => idLive = "none"
  /\ \A r \in IdRequests :
       /\ idReq[r].at \in {"replace", "reload"} => idReq[r].id = r /\ r \in idPair /\ idUp
       /\ idReq[r].at = "reload" => idLock = r /\ idFile = r
  /\ idLock # "none" => idReq[idLock].at = "reload"

IdReqs == [at : {"idle", "refused", "replace", "reload", "stored", "failed", "gone"},
           id : IdRequests \cup {"none", "first"}]

LEMMA IdNamed == "none" \notin IdRequests /\ "first" \notin IdRequests
  BY CredentialBounds

LEMMA IdInitInv == IdInit => IdInv
  <1> SUFFICES ASSUME IdInit PROVE IdInv
    OBVIOUS
  <1>1. \A r \in IdRequests : idReq[r].at = "idle"
    BY DEF IdInit, IdIdle
  <1>2. IdTypeOK
    BY DEF IdInit, IdTypeOK, IdIdle
  <1> QED BY <1>1, <1>2 DEF IdInit, IdInv, ServedIsStored

LEMMA ApidStartsStep == ASSUME IdInv, ApidStarts PROVE IdInv'
  BY DEF ApidStarts, LoadOrGenerateCertificate, LoadOrGenerateSessionKey, IdInv, IdTypeOK,
         ServedIsStored

LEMMA BindFailsStep == ASSUME IdInv, BindFails PROVE IdInv'
  BY DEF BindFails, LoadOrGenerateSessionKey, IdInv, IdTypeOK, ServedIsStored

LEMMA ApidStopsStep == ASSUME IdInv, ApidStops PROVE IdInv'
  <1>1. \A r \in IdRequests : idReq'[r] \in IdReqs /\ idReq'[r].at \notin {"replace", "reload"}
    BY DEF ApidStops, IdInv, IdTypeOK, IdReqs
  <1>2. idReq' \in [IdRequests -> IdReqs]
    BY <1>1 DEF ApidStops
  <1>3. IdTypeOK'
    BY <1>2 DEF ApidStops, IdInv, IdTypeOK, IdReqs
  <1> QED BY <1>1, <1>3 DEF ApidStops, IdInv, ServedIsStored

LEMMA RenderStep == ASSUME IdInv, RenderListeners PROVE IdInv'
  BY DEF RenderListeners, IdInv, IdTypeOK, ServedIsStored

LEMMA ClockStep == ASSUME IdInv, ClockMoves PROVE IdInv'
  BY DEF ClockMoves, IdInv, IdTypeOK, ServedIsStored

\* A request that is answered before it replaces anything, or is accepted.
LEMMA RequestedStep ==
  ASSUME IdInv, NEW r \in IdRequests, idUp, idReq[r].at = "idle",
         \/ /\ idReq' = [idReq EXCEPT ![r] = [at |-> "replace", id |-> r]]
            /\ idPair' = idPair \cup {r}
         \/ /\ idReq' = [idReq EXCEPT ![r] = [at |-> "refused", id |-> "none"]]
            /\ idPair' \in {idPair, idPair \cup {r}},
         UNCHANGED <<idFile, idLive, idLock, idKey, idWeb, idUp, idMissed>>
  PROVE  IdInv'
  BY IdNamed DEF IdInv, IdTypeOK, IdReqs, ServedIsStored

LEMMA UploadStep == ASSUME IdInv, NEW r \in IdRequests, CertificateUpload(r) PROVE IdInv'
  BY RequestedStep DEF CertificateUpload, IdentityFromUpload

LEMMA GenerateStep == ASSUME IdInv, NEW r \in IdRequests, CertificateGenerate(r) PROVE IdInv'
  BY RequestedStep DEF CertificateGenerate

\* The request moves on; the others stay.
LEMMA Moved ==
  ASSUME IdInv, NEW r \in IdRequests, NEW to \in {"reload", "stored", "failed", "gone"},
         IdAnswers(r, to)
  PROVE  /\ idReq' \in [IdRequests -> IdReqs] /\ idReq'[r].at = to /\ idReq'[r].id = idReq[r].id
         /\ \A s \in IdRequests \ {r} : idReq'[s] = idReq[s]
  BY DEF IdInv, IdTypeOK, IdReqs, IdAnswers

LEMMA ReplaceStep == ASSUME IdInv, NEW r \in IdRequests, ReplaceIdentity(r) PROVE IdInv'
  BY IdNamed, Moved DEF ReplaceIdentity, IdInv, IdTypeOK, IdReqs, ServedIsStored

LEMMA ReloadStep == ASSUME IdInv, NEW r \in IdRequests, ReloadIdentity(r) PROVE IdInv'
  <1>1. /\ idReq[r].at = "reload" /\ idReq[r].id = r /\ r \in idPair /\ idUp /\ idLock = r
        /\ idFile = r /\ idLock' = "none" /\ \A s \in IdRequests \ {r} : idReq[s].at # "reload"
        /\ UNCHANGED <<idFile, idKey, idWeb, idUp, idPair>>
    BY DEF ReloadIdentity, IdInv
  <1>2. PICK to \in {"stored", "failed"} :
          /\ IdAnswers(r, to)
          /\ \/ idLive' = r /\ UNCHANGED idMissed
             \/ idMissed' = TRUE /\ UNCHANGED idLive
    BY <1>1 DEF ReloadIdentity
  <1>3. /\ idReq' \in [IdRequests -> IdReqs] /\ idReq'[r].at \in {"stored", "failed"}
        /\ \A s \in IdRequests \ {r} : idReq'[s] = idReq[s]
    BY <1>2, Moved
  <1>4. IdTypeOK'
    BY <1>1, <1>2, <1>3 DEF IdInv, IdTypeOK, IdReqs
  <1> QED BY <1>1, <1>2, <1>3, <1>4, IdNamed DEF IdInv, ServedIsStored

LEMMA DroppedRequestStep == ASSUME IdInv, NEW r \in IdRequests, RequestDropped(r) PROVE IdInv'
  BY Moved, IdNamed DEF RequestDropped, IdInv, IdTypeOK, IdReqs, ServedIsStored

LEMMA IdStep == IdInv /\ [IdNext]_idVars => IdInv'
  <1> SUFFICES ASSUME IdInv, [IdNext]_idVars PROVE IdInv'
    OBVIOUS
  <1>1. CASE UNCHANGED idVars
    BY <1>1 DEF idVars, IdInv, IdTypeOK, ServedIsStored
  <1>2. CASE IdNext
    BY <1>2, ApidStartsStep, BindFailsStep, ApidStopsStep, RenderStep, ClockStep, UploadStep,
       GenerateStep, ReplaceStep, ReloadStep, DroppedRequestStep DEF IdNext
  <1> QED BY <1>1, <1>2

\* A transient root password is gone at the next boot and accepted only while it is
\* set, and the console presents the identity it stored, for any number of calls,
\* requests, failures, kills, reboots and dropped requests (transient.rs, tls.rs).
THEOREM CredentialsAreSafe == PwSpec /\ IdSpec => []CredentialsSafe
  <1>1. PwInv /\ IdInv => CredentialsSafe
    BY DEF PwInv, IdInv, CredentialsSafe
  <1>2. PwSpec => []PwInv
    BY PwInitInv, PwStep, PTL DEF PwSpec
  <1>3. IdSpec => []IdInv
    BY IdInitInv, IdStep, PTL DEF IdSpec
  <1> QED BY <1>1, <1>2, <1>3, PTL

(***************************************************************************)
(* The service registry.  RegistrySafe is not inductive: of every name the *)
(* invariant adds that its last signal not yet taken says whether it has   *)
(* an owner, and that without one a name still to be swept or probed has   *)
(* its owner and the probe that owner's answer; and of every rendering not *)
(* yet published that the last of them is the table's.                     *)
(***************************************************************************)

\* The job of the scan, field by field; it is on a name it registers.
JobOK ==
  /\ rgJob = RgJob(rgJob.at, rgJob.name, rgJob.answer, rgJob.snapshot)
  /\ rgJob.answer \in RgAnswers \cup {NoItems}
  /\ rgJob.at \in {"probing", "probed"} => rgJob.name \in BusNames /\ Registers(rgJob.name)

\* Nothing is done before the sweep, and nothing is swept after it.
PhaseOK ==
  /\ rgPc \notin {"sweeping", "waiting"} =>
       rgSweep = {} /\ rgJob = RgNoJob /\ DOMAIN rgEntries = {}
  /\ rgPc \notin {"listing", "sweeping", "waiting"} => rgSignals = <<>>
  /\ rgPc = "waiting" => rgSweep = {}
  /\ rgForgets = [c \in RgCallers |-> rgForgets[c]]

RgTypes == RgTypeOK /\ JobOK /\ PhaseOK

\* The last signal of a name that was not taken says whether it has an owner.
Unsignalled(n) == \A i \in DOMAIN rgSignals : rgSignals[i].name # n
LastTells(n) ==
  \A i \in DOMAIN rgSignals :
    (/\ rgSignals[i].name = n
     /\ \A j \in DOMAIN rgSignals : j > i => rgSignals[j].name # n)
    => (rgSignals[i].gained <=> n \in rgOwned)

\* A name without a signal: on the way to its entry, or with it.
Probes(n) == rgJob.at \in {"probing", "probed"} /\ rgJob.name = n
Follows(n) ==
  /\ n \in rgSweep \/ Probes(n) => n \in rgOwned
  /\ rgJob.at = "probed" /\ rgJob.name = n => rgJob.answer \in {rgAnswer[n], NoItems}
  /\ (n \notin rgSweep /\ ~Probes(n) /\ n \notin rgMissed) =>
       /\ n \in Connected(rgEntries) <=> n \in rgOwned
       /\ n \in Connected(rgEntries) => \/ rgEntries[n] = EntryOf(n, rgAnswer[n])
                                        \/ rgEntries[n] = EntryOf(n, NoItems)

BusInv ==
  /\ \A n \in BusNames : LastTells(n)
  /\ rgPc \in {"sweeping", "waiting"} =>
       \A n \in BusNames : Registers(n) /\ Unsignalled(n) => Follows(n)

\* Every rendering shows its collisions, and the last one is the table's.
CollidesRight(shown) ==
  \A n, m \in DOMAIN shown :
    (/\ n # m /\ shown[n].entry.connected /\ shown[m].entry.connected
     /\ shown[n].entry.class = shown[m].entry.class
     /\ shown[n].entry.instance = shown[m].entry.instance)
    => shown[n].collision /\ shown[m].collision
RenderInv ==
  /\ \A s \in rgServices : CollidesRight(s)
  /\ \A s \in rgJob.snapshot : CollidesRight(s)
  /\ \A c \in RgCallers : \A s \in rgForgets[c] : CollidesRight(s)
  /\ rgRendered = "scan" =>
       /\ rgJob.at = "publishing" => rgJob.snapshot = {Snapshot(rgEntries)}
       /\ rgJob.at # "publishing" /\ rgPublished = "scan" => rgServices = {Snapshot(rgEntries)}
  /\ \A c \in RgCallers : rgRendered = c =>
       /\ rgForgets[c] # {} => rgForgets[c] = {Snapshot(rgEntries)}
       /\ rgForgets[c] = {} /\ rgPublished = c => rgServices = {Snapshot(rgEntries)}

RgInv == RgTypes /\ BusInv /\ RenderInv

-----------------------------------------------------------------------------
LEMMA Appended ==
  ASSUME NEW S, NEW q \in Seq(S), NEW e \in S
  PROVE  /\ Append(q, e) \in Seq(S) /\ Len(q) \in Nat /\ DOMAIN q = 1..Len(q)
         /\ DOMAIN Append(q, e) = 1..(Len(q) + 1)
         /\ \A i \in 1..Len(q) : Append(q, e)[i] = q[i]
         /\ Append(q, e)[Len(q) + 1] = e
  OBVIOUS

LEMMA TailTaken ==
  ASSUME NEW S, NEW q \in Seq(S), q # <<>>
  PROVE  /\ Tail(q) \in Seq(S) /\ Len(q) \in Nat /\ Len(q) > 0 /\ DOMAIN q = 1..Len(q)
         /\ DOMAIN Tail(q) = 1..(Len(q) - 1)
         /\ \A i \in 1..(Len(q) - 1) : Tail(q)[i] = q[i + 1]
         /\ Head(q) = q[1] /\ Head(q) \in S
  OBVIOUS

\* An entry is well formed, and is connected.
LEMMA EntryMade ==
  ASSUME NEW n \in BusNames, Parses(n), NEW a \in RgAnswers \cup {NoItems}
  PROVE  EntryOf(n, a) \in RgEntry /\ EntryOf(n, a).connected
  <1>1. ClassOf(n) \in STRING
    <2>1. n \in Seq(STRING)
      BY RgAssumption
    <2>2. 3 \in 1..Len(n)
      <3>1. Len(n) > 2
        BY DEF Parses
      <3>2. Len(n) \in Nat
        BY <2>1
      <3> QED BY <3>1, <3>2
    <2> QED BY <2>1, <2>2 DEF ClassOf
  <1>2. a.value.n \in Int /\ a.item1 \in BOOLEAN
    <2>1. CASE a \in RgAnswers
      BY <2>1, RgAssumption
    <2>2. CASE a = NoItems
      BY <2>2 DEF NoItems
    <2> QED BY <2>1, <2>2
  <1>3. AsI64(a.value) \in Int
    BY <1>2 DEF AsI64
  <1> QED BY <1>1, <1>2, <1>3 DEF EntryOf, RgEntry, FALLBACK_INSTANCE, HasInstance

LEMMA SnapshotCollides == ASSUME NEW es PROVE CollidesRight(Snapshot(es))
  BY DEF CollidesRight, Snapshot, Collides, Connected

\* A signal queued: the last one of its name, and nobody else's.
LEMMA SignalQueued ==
  ASSUME RgTypeOK, NEW n \in BusNames, NEW g \in BOOLEAN, \A m \in BusNames : LastTells(m),
         rgSignals' = Append(rgSignals, [name |-> n, gained |-> g]),
         n \in rgOwned' <=> g, \A m \in BusNames \ {n} : m \in rgOwned' <=> m \in rgOwned
  PROVE  /\ rgSignals' \in Seq([name : BusNames, gained : BOOLEAN])
         /\ \A m \in BusNames : LastTells(m)'
         /\ ~Unsignalled(n)'
         /\ \A m \in BusNames \ {n} : Unsignalled(m)' <=> Unsignalled(m)
  <1> DEFINE e == [name |-> n, gained |-> g]
  <1>1. /\ rgSignals' \in Seq([name : BusNames, gained : BOOLEAN])
        /\ Len(rgSignals) \in Nat /\ DOMAIN rgSignals = 1..Len(rgSignals)
        /\ DOMAIN rgSignals' = 1..(Len(rgSignals) + 1)
        /\ \A i \in 1..Len(rgSignals) : rgSignals'[i] = rgSignals[i]
        /\ rgSignals'[Len(rgSignals) + 1] = e
    BY Appended, e \in [name : BusNames, gained : BOOLEAN] DEF RgTypeOK
  <1>2. LastTells(n)'
    BY <1>1 DEF LastTells
  <1>3. ASSUME NEW m \in BusNames \ {n} PROVE LastTells(m)'
    <2>1. SUFFICES ASSUME NEW i \in DOMAIN rgSignals', rgSignals'[i].name = m,
                          \A j \in DOMAIN rgSignals' : j > i => rgSignals'[j].name # m
                   PROVE  rgSignals'[i].gained <=> m \in rgOwned'
      BY DEF LastTells
    <2>2. i \in DOMAIN rgSignals /\ rgSignals'[i] = rgSignals[i]
      BY <1>1, <2>1
    <2>3. \A j \in DOMAIN rgSignals : j > i => rgSignals[j].name # m
      BY <1>1, <2>1
    <2> QED BY <2>1, <2>2, <2>3, LastTells(m) DEF LastTells
  <1>4. ~Unsignalled(n)'
    BY <1>1 DEF Unsignalled
  <1>5. ASSUME NEW m \in BusNames \ {n} PROVE Unsignalled(m)' <=> Unsignalled(m)
    BY <1>1 DEF Unsignalled
  <1> QED BY <1>1, <1>2, <1>3, <1>4, <1>5

\* The first signal taken: if it was the last of its name, it says the truth.
LEMMA Taken ==
  ASSUME RgTypeOK, \A m \in BusNames : LastTells(m), rgSignals # <<>>,
         rgSignals' = Tail(rgSignals), rgOwned' = rgOwned
  PROVE  /\ rgSignals' \in Seq([name : BusNames, gained : BOOLEAN])
         /\ Head(rgSignals) \in [name : BusNames, gained : BOOLEAN]
         /\ \A m \in BusNames : LastTells(m)'
         /\ \A m \in BusNames : (m # Head(rgSignals).name /\ Unsignalled(m)') => Unsignalled(m)
         /\ \A m \in BusNames : (m = Head(rgSignals).name /\ Unsignalled(m)')
              => (Head(rgSignals).gained <=> m \in rgOwned)
  <1>1. /\ rgSignals' \in Seq([name : BusNames, gained : BOOLEAN])
        /\ Len(rgSignals) \in Nat /\ Len(rgSignals) > 0 /\ DOMAIN rgSignals = 1..Len(rgSignals)
        /\ DOMAIN rgSignals' = 1..(Len(rgSignals) - 1)
        /\ \A i \in 1..(Len(rgSignals) - 1) : rgSignals'[i] = rgSignals[i + 1]
        /\ Head(rgSignals) = rgSignals[1]
        /\ Head(rgSignals) \in [name : BusNames, gained : BOOLEAN]
    BY TailTaken DEF RgTypeOK
  <1>2. \A i \in DOMAIN rgSignals : i > 1 =>
          i - 1 \in DOMAIN rgSignals' /\ rgSignals'[i - 1] = rgSignals[i]
    BY <1>1
  <1>3. ASSUME NEW m \in BusNames PROVE LastTells(m)'
    <2>1. SUFFICES ASSUME NEW i \in DOMAIN rgSignals', rgSignals'[i].name = m,
                          \A j \in DOMAIN rgSignals' : j > i => rgSignals'[j].name # m
                   PROVE  rgSignals'[i].gained <=> m \in rgOwned
      BY DEF LastTells
    <2>2. i + 1 \in DOMAIN rgSignals /\ rgSignals'[i] = rgSignals[i + 1]
      BY <1>1, <2>1
    <2>3. ASSUME NEW j \in DOMAIN rgSignals, j > i + 1 PROVE rgSignals[j].name # m
      <3>1. j > 1 /\ j - 1 > i
        BY <1>1, <2>1, <2>3
      <3> QED BY <3>1, <1>2, <2>1
    <2> QED BY <2>1, <2>2, <2>3, LastTells(m) DEF LastTells
  <1>4. ASSUME NEW m \in BusNames, m # Head(rgSignals).name, Unsignalled(m)'
        PROVE  Unsignalled(m)
    <2>1. ASSUME NEW i \in DOMAIN rgSignals PROVE rgSignals[i].name # m
      BY <1>1, <1>4, <1>2 DEF Unsignalled
    <2> QED BY <2>1 DEF Unsignalled
  <1>5. ASSUME NEW m \in BusNames, m = Head(rgSignals).name, Unsignalled(m)'
        PROVE  Head(rgSignals).gained <=> m \in rgOwned
    <2>1. ASSUME NEW j \in DOMAIN rgSignals, j > 1
          PROVE  rgSignals[j].name # m
      BY <1>2, <1>5, <2>1 DEF Unsignalled
    <2> QED BY <2>1, <1>1, <1>5, LastTells(m), 1 \in DOMAIN rgSignals DEF LastTells
  <1> QED BY <1>1, <1>3, <1>4, <1>5

-----------------------------------------------------------------------------
LEMMA RgInitInv == RgInit => RgInv
  BY RgAssumption DEF RgInit, RgTypeOK, RgNoJob, RgJob, JobOK, PhaseOK, BusInv, LastTells, RenderInv, RgInv,
     RgTypes

\* A name changes its owner.
LEMMA OwnerStep ==
  ASSUME RgInv, NEW n \in BusNames, NEW g \in BOOLEAN, Signals(n, g),
         rgOwned' \subseteq BusNames, n \in rgOwned' <=> g,
         \A m \in BusNames \ {n} : m \in rgOwned' <=> m \in rgOwned,
         rgAnswer' \in [BusNames -> RgAnswers \cup {NoItems}],
         \A m \in BusNames \ {n} : rgAnswer'[m] = rgAnswer[m],
         rgMissed' \subseteq BusNames, \A m \in BusNames \ {n} : m \in rgMissed' <=> m \in rgMissed,
         UNCHANGED <<rgPc, rgSweep, rgJob, rgEntries, rgForgets, rgServices, rgRendered,
                     rgPublished>>
  PROVE  RgInv'
  <1> USE DEF RgInv, RgTypes
  <1>1. RenderInv'
    BY DEF RenderInv
  <1>2. JobOK'
    BY DEF JobOK
  <1>3. CASE Subscribed
    BY <1>3, SignalQueued, <1>1, <1>2 DEF Signals, BusInv, RgTypeOK, PhaseOK, Subscribed, Follows, Probes,
       Connected
  <1>4. CASE ~Subscribed
    BY <1>4, <1>1, <1>2 DEF Signals, Subscribed, PhaseOK, RgTypeOK, BusInv, LastTells
  <1> QED BY <1>3, <1>4

LEMMA ClaimsStep ==
  ASSUME RgInv, NEW n \in BusNames, NEW a \in RgAnswers \cup {NoItems}, ServiceClaims(n, a)
  PROVE  RgInv'
  BY OwnerStep DEF RgInv, RgTypes, RgTypeOK, ServiceClaims

LEMMA LeavesStep == ASSUME RgInv, NEW n \in BusNames, ServiceLeaves(n) PROVE RgInv'
  BY OwnerStep DEF RgInv, RgTypes, RgTypeOK, ServiceLeaves

LEMMA RequestNameStep == ASSUME RgInv, RequestName PROVE RgInv'
  BY OwnerStep, RgAssumption DEF RgInv, RgTypes, RgTypeOK, RequestName

LEMMA SpawnStep == ASSUME RgInv, SpawnScan PROVE RgInv'
  BY DEF RgInv, RgTypes, SpawnScan, RgTypeOK, JobOK, PhaseOK, rgBus, BusInv, LastTells, RenderInv

LEMMA SubscribeStep == ASSUME RgInv, NEW b \in BOOLEAN, Subscribe(b) PROVE RgInv'
  BY DEF RgInv, RgTypes, Subscribe, RgTypeOK, JobOK, PhaseOK, rgBus, rgTable, BusInv, LastTells, RenderInv

LEMMA ListStep == ASSUME RgInv, NEW b \in BOOLEAN, ListNames(b) PROVE RgInv'
  <1> USE DEF RgInv, RgTypes
  <1>1. RgTypeOK' /\ JobOK' /\ PhaseOK'
    BY DEF ListNames, RgTypeOK, JobOK, PhaseOK, rgTable
  <1>2. RenderInv'
    BY DEF ListNames, RenderInv, rgTable
  <1>3. ASSUME NEW n \in BusNames, Unsignalled(n)' PROVE Follows(n)'
    BY <1>3 DEF Unsignalled, ListNames, PhaseOK, RgNoJob, RgJob, Connected, rgTable, Follows, Probes
  <1>4. BusInv'
    BY <1>3 DEF BusInv, ListNames, LastTells
  <1> QED BY <1>1, <1>2, <1>4
\* The scan goes on with a name: a frame for what the table keeps.
LEMMA RenderKept ==
  ASSUME RgInv, UNCHANGED rgTable, rgJob'.snapshot = {},
         rgJob.at # "publishing", rgJob'.at # "publishing"
  PROVE  RenderInv'
  BY DEF RgInv, RenderInv, rgTable

LEMMA AppearsJob ==
  ASSUME NEW n \in BusNames, rgJob = RgNoJob, Appears(n)
  PROVE  /\ JobOK' /\ rgJob'.snapshot = {} /\ rgJob'.at \in {"none", "probing"}
         /\ \A m \in BusNames : Registers(m) => (Probes(m)' <=> m = n)
  BY DEF Appears, JobOK, RgJob, Probes, RgNoJob

LEMMA SweepStep == ASSUME RgInv, NEW n \in BusNames, SweepName(n) PROVE RgInv'
  <1> USE DEF RgInv, RgTypes
  <1>1. /\ JobOK' /\ rgJob'.snapshot = {} /\ rgJob'.at \in {"none", "probing"}
        /\ \A m \in BusNames : Registers(m) => (Probes(m)' <=> m = n)
    BY AppearsJob DEF SweepName
  <1>2. RgTypeOK' /\ PhaseOK'
    BY <1>1 DEF SweepName, RgTypeOK, PhaseOK, rgBus, rgTable
  <1>3. RenderInv'
    BY <1>1, RenderKept DEF SweepName, RgNoJob, RgJob
  <1>4. ASSUME NEW m \in BusNames, Registers(m), Unsignalled(m)' PROVE Follows(m)'
    BY <1>4, <1>1 DEF SweepName, BusInv, Unsignalled, Probes, RgNoJob, RgJob, rgBus, rgTable, Follows,
       Connected
  <1>5. BusInv'
    BY <1>4 DEF SweepName, BusInv, LastTells, rgBus
  <1> QED BY <1>1, <1>2, <1>3, <1>5

LEMMA TakeAppearanceStep == ASSUME RgInv, TakeAppearance PROVE RgInv'
  <1> USE DEF RgInv, RgTypes
  <1>1. /\ rgSignals' \in Seq([name : BusNames, gained : BOOLEAN])
        /\ Head(rgSignals) \in [name : BusNames, gained : BOOLEAN]
        /\ \A m \in BusNames : LastTells(m)'
        /\ \A m \in BusNames : (m # Head(rgSignals).name /\ Unsignalled(m)') => Unsignalled(m)
        /\ \A m \in BusNames : (m = Head(rgSignals).name /\ Unsignalled(m)')
             => (Head(rgSignals).gained <=> m \in rgOwned)
    BY Taken DEF TakeAppearance, BusInv, rgBus
  <1> DEFINE n == Head(rgSignals).name
  <1>2. n \in BusNames
    BY <1>1
  <1>3. /\ JobOK' /\ rgJob'.snapshot = {} /\ rgJob'.at \in {"none", "probing"}
        /\ \A m \in BusNames : Registers(m) => (Probes(m)' <=> m = n)
    BY <1>2, AppearsJob DEF TakeAppearance
  <1>4. RgTypeOK' /\ PhaseOK'
    BY <1>1, <1>3 DEF TakeAppearance, RgTypeOK, PhaseOK, rgBus, rgTable
  <1>5. RenderInv'
    BY <1>3, RenderKept DEF TakeAppearance, RgNoJob, RgJob
  <1>6. ASSUME NEW m \in BusNames, Registers(m), Unsignalled(m)' PROVE Follows(m)'
    BY <1>1, <1>3, <1>6 DEF TakeAppearance, rgBus, rgTable, PhaseOK, Follows, BusInv, Probes, RgNoJob,
       RgJob, Connected
  <1>7. BusInv'
    BY <1>1, <1>6 DEF BusInv
  <1> QED BY <1>3, <1>4, <1>5, <1>7

LEMMA ProbeEndsStep == ASSUME RgInv, NEW b \in BOOLEAN, ProbeEnds(b) PROVE RgInv'
  <1> USE DEF RgInv, RgTypes
  <1>1. /\ rgJob'.at = "probed" /\ rgJob'.name = rgJob.name /\ rgJob'.snapshot = {}
        /\ rgJob'.answer \in {rgAnswer[rgJob.name], NoItems}
        /\ rgJob' = RgJob(rgJob'.at, rgJob'.name, rgJob'.answer, rgJob'.snapshot)
    BY DEF ProbeEnds, RgJob
  <1>2. rgJob.name \in BusNames /\ Registers(rgJob.name) /\ rgAnswer[rgJob.name] \in RgAnswers \cup {NoItems}
    BY DEF ProbeEnds, JobOK, RgTypeOK
  <1>3. JobOK'
    BY <1>1, <1>2 DEF JobOK
  <1>4. rgPc \in {"sweeping", "waiting"}
    BY DEF ProbeEnds, PhaseOK, RgNoJob, RgJob
  <1>5. RgTypeOK' /\ PhaseOK'
    BY <1>1, <1>4 DEF ProbeEnds, RgTypeOK, PhaseOK, rgBus, rgTable
  <1>6. RenderInv'
    BY <1>1, RenderKept DEF ProbeEnds
  <1>7. ASSUME NEW m \in BusNames, Registers(m), Unsignalled(m)' PROVE Follows(m)'
    BY <1>4, <1>7, <1>1 DEF ProbeEnds, BusInv, Unsignalled, rgBus, rgTable, Probes, Follows, Connected
  <1>8. BusInv'
    BY <1>7 DEF ProbeEnds, BusInv, LastTells, rgBus
  <1> QED BY <1>3, <1>5, <1>6, <1>8
\* The scan renders the table: its rendering is the last one, and the table's.
LEMMA ScanRenders ==
  ASSUME RgInv, rgJob' = Publishing(rgEntries'), rgRendered' = "scan",
         UNCHANGED <<rgForgets, rgServices, rgPublished>>
  PROVE  RenderInv' /\ JobOK' /\ rgJob'.at = "publishing" /\ \A m : ~Probes(m)'
  BY RgAssumption, SnapshotCollides DEF Publishing, RgJob, RgInv, RenderInv, JobOK, Probes

LEMMA SweepEndsStep == ASSUME RgInv, SweepEnds PROVE RgInv'
  <1> USE DEF RgInv, RgTypes
  <1>1. RenderInv' /\ JobOK' /\ rgJob'.at = "publishing" /\ \A m : ~Probes(m)'
    BY ScanRenders DEF SweepEnds
  <1>2. RgTypeOK' /\ PhaseOK'
    BY <1>1 DEF SweepEnds, RgTypeOK, PhaseOK, rgBus
  <1>3. ASSUME NEW m \in BusNames, Registers(m), Unsignalled(m)' PROVE Follows(m)'
    BY <1>3, <1>1 DEF SweepEnds, BusInv, Unsignalled, Probes, RgNoJob, RgJob, rgBus, Follows, Connected
  <1>4. BusInv'
    BY <1>3 DEF SweepEnds, BusInv, LastTells, rgBus
  <1> QED BY <1>1, <1>2, <1>4

\* What an entry that is disconnected, recorded or forgotten does to the table.
LEMMA TableDisconnected ==
  ASSUME NEW es, es \in [DOMAIN es -> RgEntry], NEW n \in DOMAIN es
  PROVE  /\ Disconnected(es, n) \in [DOMAIN es -> RgEntry]
         /\ Connected(Disconnected(es, n)) = Connected(es) \ {n}
         /\ \A m \in DOMAIN es \ {n} : Disconnected(es, n)[m] = es[m]
  BY DEF Disconnected, RgEntry, Connected

LEMMA TableRecorded ==
  ASSUME NEW es, es \in [DOMAIN es -> RgEntry], NEW n \in BusNames, NEW e \in RgEntry, e.connected
  PROVE  /\ Recorded(es, n, e) \in [DOMAIN es \cup {n} -> RgEntry]
         /\ Connected(Recorded(es, n, e)) = Connected(es) \cup {n}
         /\ Recorded(es, n, e)[n] = e
         /\ \A m \in DOMAIN es \ {n} : Recorded(es, n, e)[m] = es[m]
  BY DEF Recorded, Connected

LEMMA TableForgotten ==
  ASSUME NEW es, es \in [DOMAIN es -> RgEntry], NEW n \in DOMAIN es, ~es[n].connected
  PROVE  /\ Forgotten(es, n) \in [DOMAIN es \ {n} -> RgEntry]
         /\ Connected(Forgotten(es, n)) = Connected(es)
         /\ \A m \in DOMAIN es \ {n} : Forgotten(es, n)[m] = es[m]
  BY DEF Forgotten, Connected

LEMMA TakeDisappearanceStep == ASSUME RgInv, TakeDisappearance PROVE RgInv'
  <1> USE DEF RgInv, RgTypes
  <1>1. /\ rgSignals' \in Seq([name : BusNames, gained : BOOLEAN])
        /\ Head(rgSignals) \in [name : BusNames, gained : BOOLEAN]
        /\ \A m \in BusNames : LastTells(m)'
        /\ \A m \in BusNames : (m # Head(rgSignals).name /\ Unsignalled(m)') => Unsignalled(m)
        /\ \A m \in BusNames : (m = Head(rgSignals).name /\ Unsignalled(m)')
             => (Head(rgSignals).gained <=> m \in rgOwned)
    BY Taken DEF TakeDisappearance, BusInv, rgBus
  <1> DEFINE n == Head(rgSignals).name
  <1>2. n \in BusNames /\ ~Head(rgSignals).gained
    BY <1>1 DEF TakeDisappearance
  <1>3. /\ UNCHANGED <<rgPc, rgOwned, rgAnswer, rgMissed, rgSweep, rgForgets, rgServices, rgPublished>>
        /\ rgSweep = {} /\ rgPc = "waiting" /\ rgJob = RgNoJob
    BY DEF TakeDisappearance, rgBus, PhaseOK
  <1>4. \A m : ~Probes(m)
    BY <1>3 DEF Probes, RgNoJob, RgJob
  <1>5. /\ RenderInv' /\ JobOK' /\ rgJob'.at \in {"none", "publishing"} /\ \A m : ~Probes(m)'
        /\ rgRendered' \in {rgRendered, "scan"}
        /\ rgEntries' \in [DOMAIN rgEntries -> RgEntry]
        /\ Connected(rgEntries') = Connected(rgEntries) \ {n}
        /\ \A m \in DOMAIN rgEntries \ {n} : rgEntries'[m] = rgEntries[m]
    BY TableDisconnected, <1>3, ScanRenders, <1>4 DEF TakeDisappearance, RgTypeOK, RenderInv, JobOK, Probes,
       Connected, RgNoJob, RgJob
  <1>6. RgTypeOK' /\ PhaseOK'
    BY <1>1, <1>3, <1>5 DEF RgTypeOK, PhaseOK
  <1>7. ASSUME NEW m \in BusNames, Registers(m), Unsignalled(m)' PROVE Follows(m)'
    BY <1>1, <1>2, <1>3, <1>5, <1>7, <1>4 DEF Follows, Probes, BusInv, Connected
  <1>8. BusInv'
    BY <1>1, <1>7 DEF BusInv
  <1> QED BY <1>5, <1>6, <1>8

LEMMA RecordStep == ASSUME RgInv, ScanRecords PROVE RgInv'
  <1> USE DEF RgInv, RgTypes
  <1> DEFINE n == rgJob.name
             e == EntryOf(n, rgJob.answer)
  <1>1. n \in BusNames /\ Registers(n) /\ rgJob.answer \in RgAnswers \cup {NoItems}
    BY DEF ScanRecords, JobOK
  <1>2. e \in RgEntry /\ e.connected
    BY <1>1, EntryMade DEF Registers
  <1>3. rgPc \in {"sweeping", "waiting"}
    BY DEF ScanRecords, PhaseOK, RgNoJob, RgJob
  <1>4. UNCHANGED <<rgPc, rgOwned, rgAnswer, rgMissed, rgSweep, rgSignals, rgForgets, rgServices,
                    rgPublished>>
    BY DEF ScanRecords, rgBus
  <1>5. /\ rgEntries' \in [DOMAIN rgEntries \cup {n} -> RgEntry]
        /\ Connected(rgEntries') = Connected(rgEntries) \cup {n}
        /\ rgEntries'[n] = e
        /\ \A m \in DOMAIN rgEntries \ {n} : rgEntries'[m] = rgEntries[m]
    <2> HIDE DEF e, n
    <2>1. rgEntries' = Recorded(rgEntries, n, e)
      BY DEF ScanRecords, e, n
    <2>2. rgEntries \in [DOMAIN rgEntries -> RgEntry]
      BY DEF RgTypeOK
    <2>3. \A m \in BusNames, x \in RgEntry : x.connected =>
            /\ Recorded(rgEntries, m, x) \in [DOMAIN rgEntries \cup {m} -> RgEntry]
            /\ Connected(Recorded(rgEntries, m, x)) = Connected(rgEntries) \cup {m}
            /\ Recorded(rgEntries, m, x)[m] = x
            /\ \A k \in DOMAIN rgEntries \ {m} : Recorded(rgEntries, m, x)[k] = rgEntries[k]
      BY <2>2, TableRecorded
    <2> QED BY <1>1, <1>2, <2>1, <2>3
  <1> HIDE DEF e
  <1>6. RenderInv' /\ JobOK' /\ rgJob'.at = "publishing" /\ \A m : ~Probes(m)'
    BY ScanRenders DEF ScanRecords
  <1>7. RgTypeOK' /\ PhaseOK'
    BY <1>1, <1>3, <1>4, <1>5, <1>6 DEF RgTypeOK, PhaseOK, ScanRecords
  <1>8. ASSUME NEW m \in BusNames, Registers(m), Unsignalled(m)' PROVE Follows(m)'
    BY <1>3, <1>4, <1>8, <1>5, <1>6 DEF BusInv, Unsignalled, Follows, Probes, ScanRecords, e, Connected
  <1>9. BusInv'
    BY <1>4, <1>8 DEF BusInv, LastTells
  <1> QED BY <1>6, <1>7, <1>9

LEMMA ScanPublishesStep == ASSUME RgInv, ScanPublishes PROVE RgInv'
  <1> USE DEF RgInv, RgTypes
  <1>1. /\ rgJob' = RgNoJob /\ rgJob'.at = "none" /\ rgJob'.snapshot = {}
        /\ rgServices' = rgJob.snapshot /\ rgPublished' = "scan" /\ rgJob.at = "publishing"
        /\ UNCHANGED <<rgPc, rgOwned, rgAnswer, rgMissed, rgSweep, rgSignals, rgForgets, rgEntries,
                       rgRendered>>
    BY DEF ScanPublishes, RgNoJob, RgJob, rgBus
  <1>2. JobOK' /\ \A m : ~Probes(m)' /\ ~Probes(m)
    BY <1>1 DEF JobOK, RgNoJob, RgJob, Probes
  <1>3. rgPc \in {"sweeping", "waiting"}
    BY <1>1 DEF PhaseOK, RgNoJob, RgJob
  <1>4. RgTypeOK' /\ PhaseOK'
    BY <1>1 DEF RgTypeOK, PhaseOK
  <1>5. RenderInv'
    BY <1>1, RgAssumption DEF RenderInv
  <1>6. ASSUME NEW m \in BusNames, Registers(m), Unsignalled(m)' PROVE Follows(m)'
    BY <1>1, <1>3, <1>6, <1>2 DEF BusInv, Unsignalled, Follows, Connected
  <1>7. BusInv'
    BY <1>1, <1>6 DEF BusInv, LastTells
  <1> QED BY <1>2, <1>4, <1>5, <1>7

LEMMA ForgetStep == ASSUME RgInv, NEW c \in RgCallers, NEW n \in BusNames, Forget(c, n) PROVE RgInv'
  <1> USE DEF RgInv, RgTypes
  <1>1. /\ rgEntries' = Forgotten(rgEntries, n) /\ n \in DOMAIN rgEntries /\ ~rgEntries[n].connected
        /\ rgForgets' = [rgForgets EXCEPT ![c] = {Snapshot(rgEntries')}] /\ rgRendered' = c
        /\ UNCHANGED <<rgPc, rgOwned, rgAnswer, rgMissed, rgSweep, rgSignals, rgJob, rgServices,
                       rgPublished>>
    BY DEF Forget, rgBus
  <1>2. /\ rgEntries' \in [DOMAIN rgEntries \ {n} -> RgEntry]
        /\ Connected(rgEntries') = Connected(rgEntries)
        /\ \A m \in DOMAIN rgEntries \ {n} : rgEntries'[m] = rgEntries[m]
    BY <1>1, TableForgotten DEF RgTypeOK
  <1>3. rgForgets'[c] = {Snapshot(rgEntries')} /\ \A d \in RgCallers \ {c} : rgForgets'[d] = rgForgets[d]
    BY <1>1 DEF PhaseOK
  <1>4. RgTypeOK' /\ JobOK' /\ PhaseOK'
    BY <1>1, <1>2 DEF RgTypeOK, JobOK, PhaseOK
  <1>5. RenderInv'
    BY SnapshotCollides, <1>1, <1>3, RgAssumption DEF RenderInv
  <1>6. ASSUME NEW m \in BusNames, Registers(m), Unsignalled(m)', rgPc \in {"sweeping", "waiting"}
        PROVE  Follows(m)'
    BY <1>1, <1>6, <1>2 DEF BusInv, Unsignalled, Connected, Follows, Probes
  <1>7. BusInv'
    BY <1>1, <1>6 DEF BusInv, LastTells
  <1> QED BY <1>4, <1>5, <1>7

LEMMA ForgetPublishesStep == ASSUME RgInv, NEW c \in RgCallers, ForgetPublishes(c) PROVE RgInv'
  <1> USE DEF RgInv, RgTypes
  <1>1. /\ rgServices' = rgForgets[c] /\ rgForgets[c] # {} /\ rgPublished' = c
        /\ rgForgets' = [rgForgets EXCEPT ![c] = {}]
        /\ UNCHANGED <<rgPc, rgOwned, rgAnswer, rgMissed, rgSweep, rgSignals, rgJob, rgEntries,
                       rgRendered>>
    BY DEF ForgetPublishes, rgBus
  <1>2. rgForgets'[c] = {} /\ \A d \in RgCallers \ {c} : rgForgets'[d] = rgForgets[d]
    BY <1>1 DEF PhaseOK
  <1>3. RgTypeOK' /\ JobOK' /\ PhaseOK'
    BY <1>1 DEF RgTypeOK, JobOK, PhaseOK
  <1>4. RenderInv'
    BY <1>1, <1>2, RgAssumption DEF RenderInv
  <1>5. BusInv'
    BY <1>1 DEF BusInv, LastTells, Unsignalled, Follows, Probes, Connected
  <1> QED BY <1>3, <1>4, <1>5

LEMMA RgStep == RgInv /\ [RgNext]_rgVars => RgInv'
  <1> SUFFICES ASSUME RgInv, [RgNext]_rgVars PROVE RgInv'
    OBVIOUS
  <1>1. CASE UNCHANGED rgVars
    BY <1>1 DEF RgInv, RgTypes, RgTypeOK, JobOK, PhaseOK, BusInv, LastTells, Unsignalled, Follows,
                Probes, Connected, RenderInv, rgVars, rgBus
  <1>2. CASE RgNext
    BY <1>2, ClaimsStep, LeavesStep, SweepStep, ForgetStep, SubscribeStep, ListStep, ProbeEndsStep,
       SpawnStep, RequestNameStep, SweepEndsStep, TakeAppearanceStep, TakeDisappearanceStep,
       RecordStep, ScanPublishesStep, ForgetPublishesStep
       DEF RgNext
  <1> QED BY <1>1, <1>2

\* The service registry is well formed and in step with the bus, and is shown as
\* it is, for any names, services and callers of ForgetService, whatever comes and
\* goes while the scan sweeps and probes (scan.rs).
THEOREM RegistryFollowsBus == RgSpec => []RegistrySafe
  <1>1. RgInv => RegistrySafe
    BY DEF RgInv, RgTypes, FollowsBus, BusInv, Follows, Heading, Probes, Unsignalled, ShowsTable, RenderInv,
       RgTypeOK, CollisionsShown, CollidesRight, RegistrySafe
  <1> QED BY <1>1, RgInitInv, RgStep, PTL DEF RgSpec

(***************************************************************************)
(* The update workspace.                                                   *)
(***************************************************************************)

\* An object as promote and import_objects leave it: whole, its own bytes, and on the disk.
Stored(o) == [len |-> AcqSize[o], good |-> TRUE, synced |-> TRUE]

\* Completeness alone does not survive a power cut: the strengthening is that what is renamed
\* into the verified store was synced before.
StoreInv ==
    /\ verified = [o \in AcqObjects |-> verified[o]]
    /\ \A o \in AcqObjects : verified[o] = NoFile \/ verified[o] = Stored(o)

\* A step that leaves the store alone, and each way of storing an object.
LEMMA StoreKept ==
    ASSUME StoreInv, UNCHANGED verified
    PROVE  StoreInv'
BY DEF StoreInv, Stored, AcqObjects

LEMMA StoreObjectKeeps ==
    ASSUME StoreInv, NEW o, StoreObject(o, TRUE)
    PROVE  StoreInv'
BY DEF StoreInv, Stored, StoreObject, AcqObjects

\* Nothing that was synced is touched by a cut.
LEMMA CutSpares ==
    ASSUME StoreInv, AcqPowerCut
    PROVE  StoreInv'
<1> DEFINE unsynced == {o \in AcqObjects : ~downloads[o].synced \/ ~verified[o].synced}
<1>1. PICK fate \in [unsynced -> {"kept", "gone", "torn"}] :
        verified' = [o \in AcqObjects |-> IF o \in unsynced THEN AfterCut(verified[o], fate[o]) ELSE verified[o]]
  BY DEF AcqPowerCut
<1>2. ASSUME NEW o \in AcqObjects PROVE verified'[o] = verified[o]
  BY <1>1 DEF StoreInv, Stored, NoFile, AfterCut
<1>3. verified' = [o \in AcqObjects |-> verified'[o]]
  BY <1>1
<1> QED BY <1>2, <1>3 DEF StoreInv, Stored, AcqObjects

LEMMA ImportEndsKeeps ==
    ASSUME StoreInv, ImportEnds
    PROVE  StoreInv'
  BY StoreKept DEF ImportEnds, StoreInv, Stored, AcqObjects

\* A command of mica-deploy keeps the store whole,
LEMMA CommandKeepsStore ==
    ASSUME StoreInv, CommandStep
    PROVE  StoreInv'
<1>1. ASSUME NEW m, Check(m) PROVE StoreInv'
  BY <1>1, StoreKept DEF Check, acqFiles
<1>2. ASSUME CheckFails \/ Fetch \/ NoRoom \/ ImageSet \/ AcqReady PROVE StoreInv'
  BY <1>2, StoreKept DEF CheckFails, Fetch, NoRoom, ImageSet, AcqReady, acqFiles
<1>3. ASSUME NEW o, TakeObject(o) PROVE StoreInv'
  BY <1>3, StoreKept DEF TakeObject, acqFiles
<1>4. ASSUME Delta \/ DeltaFails \/ Assembled \/ Download \/ TransferStops PROVE StoreInv'
  BY <1>4, StoreKept DEF Delta, DeltaFails, NoDelta, Assembled, Download, TransferStops
<1>5. ASSUME Promote PROVE StoreInv'
  BY <1>5, StoreObjectKeeps, StoreKept DEF Promote
<1>6. ASSUME InstallNow PROVE StoreInv'
  BY <1>6, StoreKept DEF InstallNow, AcqInstall, acqFiles
<1>7. ASSUME NEW o, ImportObject(o) PROVE StoreInv'
  BY <1>7, StoreObjectKeeps DEF ImportObject
<1>8. ASSUME NEW o, ImportStops(o) PROVE StoreInv'
  BY <1>8, StoreKept DEF ImportStops
<1> QED BY <1>1, <1>2, <1>3, <1>4, <1>5, <1>6, <1>7, <1>8, ImportEndsKeeps DEF CommandStep

\* and so does every step.
LEMMA StoreStep ==
    ASSUME StoreInv, [AcqNext]_acqVars
    PROVE  StoreInv'
<1>1. ASSUME UNCHANGED acqVars PROVE StoreInv'
  BY <1>1, StoreKept DEF acqVars
<1>2. ASSUME UpdateByHand \/ AcqConfirmed \/ NextRevision \/ AcqKilled PROVE StoreInv'
  BY <1>2, StoreKept DEF UpdateByHand, AcqBegins, AcqConfirmed, NextRevision, AcqKilled, acqFiles
<1>3. ASSUME NEW k, AcqBegins("fetch", k) PROVE StoreInv'
  BY <1>3, StoreKept DEF AcqBegins, acqFiles
<1>4. ASSUME NEW r, InstallLater(r) PROVE StoreInv'
  BY <1>4, StoreKept DEF InstallLater, AcqInstall, acqFiles
<1>5. ASSUME NEW r, NEW e, ImportArchive(r, e) PROVE StoreInv'
  BY <1>5, StoreKept DEF ImportArchive, acqFiles
<1>6. ASSUME DiscardAll PROVE StoreInv'
  BY <1>6 DEF DiscardAll, StoreInv, AcqObjects
<1> QED BY <1>1, <1>2, <1>3, <1>4, <1>5, <1>6, CutSpares, CommandKeepsStore DEF AcqNext

\* Whatever is cut, killed or served wrong and in whatever order, an object of the verified
\* store is the one its name says, for every set of releases, sizes, budgets and sources: a
\* transfer is checked before, and synced before, it is renamed there (acquisition.rs promote,
\* import_objects).
THEOREM VerifiedStoreIsWhole == AcqSpec => []VerifiedIsWhole
<1>1. AcqInit => StoreInv
  BY DEF AcqInit, StoreInv
<1>2. StoreInv /\ [AcqNext]_acqVars => StoreInv'
  BY StoreStep
<1>3. StoreInv => VerifiedIsWhole
  BY DEF StoreInv, Stored, VerifiedIsWhole, Complete
<1> QED BY <1>1, <1>2, <1>3, PTL DEF AcqSpec

(***************************************************************************)
(* LAN discovery.                                                          *)
(***************************************************************************)

\* No two services of a set have one name, so a record tells which service it is of.
Named(S) ==
    /\ \A s \in S : s.full = <<s.full[1], s.full[2]>>
    /\ \A s, t \in S : s.full = t.full => s = t

\* Records that are withdrawn by name are the ones recorded: what is told is what is recorded,
\* names are not shared, and what is applied shares none either.
ToldInv ==
    /\ dscPublished = [runs |-> dscPublished.runs, host |-> dscPublished.host, services |-> dscPublished.services]
    /\ dscTold = {DnsRecord(s, dscPublished.host) : s \in dscPublished.services}
    /\ Named(dscPublished.services)
    /\ ~dscPublished.runs => dscPublished.services = {}

JobInv ==
    /\ dscJob = [at |-> dscJob.at, by |-> dscJob.by, set |-> dscJob.set, want |-> dscJob.want]
    /\ dscJob.at = "mdns" => Named(dscJob.want)

\* What is heard was announced on an address the thread serves, under the name it has: a goodbye
\* for the served addresses that are there takes all of it back.
HeardInv ==
    /\ \A e \in ssHeard : ssThread \in {"run", "stop"} /\ e[2] = ssCurrent
    /\ \A e \in ssHeard : e = <<e[1], e[2]>> /\ e[1] \in ssServed \cap ssAddrs

DscInv == ToldInv /\ JobInv /\ HeardInv

\* What was recorded, what the thread is about and what is heard, through a step that
\* leaves them alone.
LEMMA ToldKept == ASSUME ToldInv, UNCHANGED <<dscTold, dscPublished>> PROVE ToldInv'
BY DEF ToldInv, DnsRecord, Named

LEMMA JobKept == ASSUME JobInv, UNCHANGED dscJob PROVE JobInv'
BY DEF JobInv, Named

\* The thread at rest, and as it moves on.
LEMMA JobIdle == ASSUME dscJob' = DscIdle PROVE JobInv'
BY DEF JobInv, DscIdle

LEMMA JobMoves ==
    ASSUME JobInv, NEW at, at # "mdns", dscJob' = [dscJob EXCEPT !.at = at]
    PROVE  JobInv'
BY DEF JobInv

LEMMA HeardKept ==
    ASSUME HeardInv, UNCHANGED <<ssThread, ssCurrent, ssServed, ssHeard, ssAddrs>>
    PROVE  HeardInv'
BY DEF HeardInv

\* Under its bound and its order, what is wanted has one service to a name.
LEMMA BuiltInNamed == ASSUME NEW set PROVE Named(BuiltInServices(set))
<1> DEFINE own(kind, port) == Service(set.host, <<"built-in", "device">>, [inst |-> "own", kind |-> kind, port |-> port])
<1>1. \A kind, port : own(kind, port).full = <<set.host, kind>>
  BY DEF Service
<1>2. own("mica", 80).full # own("http", 80).full
  BY <1>1
<1>3. \A s \in BuiltInServices(set) : s \in {own("mica", 80), own("http", 80)} \/ s = own("mica", 0)
  BY DEF BuiltInServices
<1>4. \A s \in BuiltInServices(set) : s.full = <<s.full[1], s.full[2]>>
  BY <1>1, <1>3
<1>5. BuiltInServices(set) = {own("mica", 80), own("http", 80)} \/ BuiltInServices(set) = {own("mica", 0)}
  BY DEF BuiltInServices
<1> HIDE DEF own
<1>6. \A s, t \in BuiltInServices(set) : s.full = t.full => s = t
  BY <1>2, <1>5
<1> QED BY <1>4, <1>6 DEF Named

\* What is wanted names a service once, and so does a part of it.
LEMMA WantedNamed == ASSUME NEW set PROVE Named(Wanted(set))
<1> DEFINE dropIns == DropIns
           apps == AppEntries
           listed == dropIns \o apps
           service(i) == Service(set.host, listed[i].source, listed[i].entry)
           sound == {i \in DOMAIN listed : CheckEntry(listed[i].entry)}
           named == {i \in sound : \A s \in BuiltInServices(set) \cup {service(j) : j \in {j \in sound : j < i}} :
                                       s.full # service(i).full}
           X == {dropIns[i] : i \in 1 .. 2 * Len(DscNames)} \cup {apps[i] : i \in 1 .. Len(DscApps)}
<1>1. DOMAIN listed \subseteq Nat
  <2>1. Len(DscNames) \in Nat /\ Len(DscApps) \in Nat
    BY DscAssumption
  <2>2. DOMAIN dropIns = 1 .. 2 * Len(DscNames) /\ DOMAIN apps = 1 .. Len(DscApps)
    BY DEF DropIns, AppEntries
  <2>3. dropIns = [i \in 1 .. 2 * Len(DscNames) |-> dropIns[i]] /\ apps = [i \in 1 .. Len(DscApps) |-> apps[i]]
    BY DEF DropIns, AppEntries
  <2> HIDE DEF dropIns, apps
  <2>4. dropIns \in Seq(X) /\ apps \in Seq(X)
    <3>1. dropIns \in [1 .. 2 * Len(DscNames) -> X] /\ apps \in [1 .. Len(DscApps) -> X]
      BY <2>3
    <3>2. 2 * Len(DscNames) \in Nat
      BY <2>1
    <3> HIDE DEF X
    <3> QED BY <3>1, <3>2, <2>1, SeqDef
  <2> HIDE DEF X
  <2>5. listed \in Seq(X)
    BY <2>4
  <2> QED BY <2>5
<1>2. \A i : service(i).full = <<service(i).full[1], service(i).full[2]>>
  BY DEF Service
<1>3. Wanted(set) \subseteq BuiltInServices(set) \cup {service(i) : i \in named}
  BY DEF Wanted
<1> HIDE DEF listed, service
<1>4. \A i, j \in named : service(i).full = service(j).full => service(i) = service(j)
  BY <1>1
<1>5. \A i \in named, s \in BuiltInServices(set) : s.full # service(i).full
  OBVIOUS
<1> HIDE DEF named
<1>6. \A s \in Wanted(set) : s.full = <<s.full[1], s.full[2]>>
  BY <1>2, <1>3, BuiltInNamed DEF Named
<1>7. \A s, t \in Wanted(set) : s.full = t.full => s = t
  BY <1>3, <1>4, <1>5, BuiltInNamed DEF Named
<1> QED BY <1>6, <1>7 DEF Named

\* What is told of some services.
Records(S, h) == {DnsRecord(s, h) : s \in S}

\* Withdrawing the records of some services leaves the records of the others.
LEMMA WithdrawnRecords ==
    ASSUME NEW S, NEW G \in SUBSET S, NEW h, Named(S)
    PROVE  Records(S, h) \ Records(G, h) = Records(S \ G, h)
  BY DEF DnsRecord, Named, Records

LEMMA NamedSubset == ASSUME NEW S, NEW G \in SUBSET S, Named(S) PROVE Named(G)
BY DEF Named

\* What is kept, and what of the missing is published beside it, share no name.
LEMMA NamedUnion ==
    ASSUME NEW kept, NEW want, NEW done \in SUBSET {s \in want : \A t \in kept : t.full # s.full},
           Named(kept), Named(want)
    PROVE  Named(kept \cup done)
BY DEF Named

\* The thread after it spoke to the responder,
LEMMA AfterMdnsKeepsJob == ASSUME JobInv, AfterMdns PROVE JobInv'
  BY JobMoves, JobIdle DEF AfterMdns

\* what it has then recorded,
LEMMA ApplyMdnsTold == ASSUME DscInv, ApplyMdns PROVE ToldInv'
<1> DEFINE host == dscJob.set.host
           p == IF dscPublished.runs THEN dscPublished ELSE [NotRunning EXCEPT !.host = host]
           stale == Stale(p)
           kept == p.services \ stale
           missing == {s \in dscJob.want : \A t \in kept : t.full # s.full}
           told == IF dscPublished.runs THEN dscTold ELSE {}
<1>1. Named(dscJob.want)
  BY DEF DscInv, JobInv, ApplyMdns
<1>2. told = {DnsRecord(s, p.host) : s \in p.services} /\ Named(p.services)
  BY DEF DscInv, ToldInv, NotRunning, Named
<1>3. p = [runs |-> p.runs, host |-> p.host, services |-> p.services]
  BY DEF DscInv, ToldInv, NotRunning
<1>4. stale \in SUBSET p.services /\ (p.host # host => stale = p.services)
  BY DEF Stale
<1>5. \/ \E gone \in SUBSET stale \ {stale} :
            /\ dscTold' = told \ {DnsRecord(s, p.host) : s \in gone}
            /\ dscPublished' = [p EXCEPT !.runs = TRUE, !.services = @ \ gone]
      \/ \E done \in SUBSET missing :
            /\ dscTold' = (told \ {DnsRecord(s, p.host) : s \in stale}) \cup {DnsRecord(s, host) : s \in done}
            /\ dscPublished' = Noted(kept, missing, done)
  BY DEF ApplyMdns
<1> HIDE DEF p, stale, told
<1>6. ASSUME NEW gone \in SUBSET stale \ {stale},
             dscTold' = told \ {DnsRecord(s, p.host) : s \in gone},
             dscPublished' = [p EXCEPT !.runs = TRUE, !.services = @ \ gone]
      PROVE  ToldInv'
  <2>1. dscPublished' = [runs |-> TRUE, host |-> p.host, services |-> p.services \ gone]
    BY <1>3, <1>6
  <2>2. gone \in SUBSET p.services
    BY <1>4
  <2>3. Records(p.services, p.host) \ Records(gone, p.host) = Records(p.services \ gone, p.host)
    BY <1>2, <2>2, WithdrawnRecords
  <2>4. Named(p.services \ gone)
    BY <1>2, NamedSubset
  <2>5. dscTold' = Records(p.services \ gone, p.host)
    BY <1>2, <1>6, <2>3 DEF Records
  <2> QED BY <2>1, <2>4, <2>5 DEF ToldInv, DnsRecord, Records, Named
<1>7. ASSUME NEW done \in SUBSET missing,
             dscTold' = (told \ {DnsRecord(s, p.host) : s \in stale}) \cup {DnsRecord(s, host) : s \in done},
             dscPublished' = Noted(kept, missing, done)
      PROVE  ToldInv'
  <2>1. dscPublished' = [runs |-> TRUE, host |-> host, services |-> kept \cup done]
    BY <1>7 DEF Noted
  <2>2. Records(p.services, p.host) \ Records(stale, p.host) = Records(kept, p.host)
    <3>1. Named(p.services) /\ stale \in SUBSET p.services
      BY <1>2, <1>4
    <3>2. Records(p.services, p.host) \ Records(stale, p.host) = Records(p.services \ stale, p.host)
      BY <3>1, WithdrawnRecords
    <3> QED BY <3>2
  <2>3. Records(kept, p.host) = Records(kept, host)
    BY <1>4 DEF Records
  <2>4. dscTold' = Records(kept \cup done, host)
    BY <1>2, <1>7, <2>2, <2>3 DEF Records
  <2>5. Named(kept)
    BY <1>2, NamedSubset
  <2>6. Named(kept \cup done)
    BY <1>1, <2>5, NamedUnion
  <2> HIDE DEF kept
  <2> QED BY <2>1, <2>4, <2>6 DEF ToldInv, DnsRecord, Records, Named
<1> QED BY <1>5, <1>6, <1>7

\* what happens outside it,
LEMMA OutsideKeeps == ASSUME DscInv, DscOutside PROVE DscInv'
  BY ToldKept, JobKept, HeardKept DEF DscInv, mdnsVars, ssVars, linkVars, SetDiscovery, AddFile, AppChanges,
     AddressGoes, HeardInv, AddressComes, DscOutside

\* and each of its steps.
LEMMA ApplyKeeps == ASSUME DscInv, DscApply \/ WorkerApplies \/ MdnsUpkeep PROVE DscInv'
<1> USE DEF DscInv, mdnsVars, ssVars, linkVars
<1>1. ASSUME WorkerApplies \/ MdnsUpkeep PROVE DscInv'
  BY <1>1, ToldKept, HeardKept DEF WorkerApplies, MdnsUpkeep, DscIdle, JobInv
<1>2. ASSUME ReadWanted PROVE DscInv'
  <2>1. dscJob' = [dscJob EXCEPT !.at = "mdns", !.want = Wanted(dscJob.set)]
    BY <1>2 DEF ReadWanted
  <2>2. Named(Wanted(dscJob.set))
    BY WantedNamed
  <2>3. JobInv'
    <3> DEFINE w == Wanted(dscJob.set)
    <3>1. dscJob' = [at |-> "mdns", by |-> dscJob.by, set |-> dscJob.set, want |-> w]
      BY <2>1 DEF JobInv
    <3> HIDE DEF w
    <3>2. dscJob'.want = w /\ dscJob' = [at |-> dscJob'.at, by |-> dscJob'.by, set |-> dscJob'.set, want |-> dscJob'.want]
      BY <3>1
    <3>3. Named(w)
      BY <2>2 DEF w
    <3> QED BY <3>2, <3>3 DEF JobInv, Named
  <2> QED BY <1>2, <2>3, ToldKept, HeardKept DEF ReadWanted
<1>3. ASSUME StopMdns PROVE DscInv'
  BY <1>3, AfterMdnsKeepsJob, HeardKept DEF StopMdns, ToldInv, NotRunning, Named, DnsRecord
<1>4. ASSUME StartFails PROVE DscInv'
  BY <1>4, AfterMdnsKeepsJob, ToldKept, HeardKept DEF StartFails
<1>5. ASSUME ApplyMdns PROVE DscInv'
  BY <1>5, ApplyMdnsTold, AfterMdnsKeepsJob, HeardKept DEF ApplyMdns
<1>6. ASSUME ApplySsdp PROVE DscInv'
  BY <1>6, JobIdle, ToldKept DEF ApplySsdp, HeardInv
<1>7. ASSUME StopSsdp PROVE DscInv'
  BY <1>7, JobIdle, JobMoves, ToldKept DEF StopSsdp, HeardInv
<1> QED BY <1>1, <1>2, <1>3, <1>4, <1>5, <1>6, <1>7 DEF DscApply

LEMMA ThreadKeeps == ASSUME DscInv, DscThread PROVE DscInv'
<1> USE DEF DscInv, mdnsVars, linkVars
<1>1. ASSUME SsStarts PROVE DscInv'
  BY <1>1, ToldKept, JobKept DEF SsStarts, HeardInv, Alive
<1>2. ASSUME SsUpdate PROVE DscInv'
  BY <1>2, ToldKept, JobKept DEF HeardInv, Alive, SsUpdate
<1>3. ASSUME SsLook PROVE DscInv'
  BY <1>3, ToldKept, JobKept DEF SsLook, HeardInv, Alive, Join
<1>4. ASSUME SsAnnounce PROVE DscInv'
  BY <1>4, ToldKept, JobKept DEF SsAnnounce, HeardInv, Alive
<1>5. ASSUME SsEnds PROVE DscInv'
  BY <1>5, ToldKept, JobIdle DEF SsEnds, HeardInv, Alive
<1> QED BY <1>1, <1>2, <1>3, <1>4, <1>5 DEF DscThread

\* For every set of files, apps, hostnames and addresses, and through every responder that fails
\* between two records, what the network hears of the device is what micad recorded that it told
\* it, under one hostname, and nothing of an SSDP thread that ended (mdns.rs apply; ssdp.rs serve).
THEOREM NetworkHearsTheRecord == DscSpec => []HeardIsRecorded
<1>1. DscInit => DscInv
  BY DEF DscInit, DscInv, ToldInv, JobInv, HeardInv, NotRunning, DscIdle, Named, DnsRecord
<1>2. DscInv /\ [DscNext]_dscVars => DscInv'
  BY ToldKept, JobKept, HeardKept, OutsideKeeps, ApplyKeeps, ThreadKeeps DEF DscInv, dscVars, mdnsVars,
     ssVars, linkVars, DscNext
<1>3. DscInv => HeardIsRecorded
  BY DEF DscInv, ToldInv, HeardInv, HeardIsRecorded
<1> QED BY <1>1, <1>2, <1>3, PTL DEF DscSpec

(***************************************************************************)
(* The hold of a provisioning session.  A task whose save will not reach   *)
(* the hold that should undo it is doomed to be late; without one, every   *)
(* change of the settings is in the hold, in what puts it back, or in the  *)
(* hands of the one task of the connection.                                *)
(***************************************************************************)

HdHolds == [snapshot : SUBSET {"found", "joined"}, added : SUBSET Ssids, replaced : SUBSET {"found", "set"},
            unclaimed : BOOLEAN, away : BOOLEAN]
HdTasks == [serial : Nat, auth : {"none", "password"}, kind : {"setWifi", "setNetwork", "finish"},
            ssid : Ssids \cup {"none"}, read : SUBSET (Ssids \cup {"found", "set"}), added : BOOLEAN,
            pc : {"begin", "write", "saved", "await", "up", "failed"}]
HdUndos == [kind : {"wifi", "wired"}, mode : {"found", "joined", ""}, remove : SUBSET Ssids,
            entry : {"found", "set", ""}, read : SUBSET Ssids, pc : {"read", "write"}]

\* The shapes, and at most one hold.
HdShapes ==
  /\ stores \in [mode : {"found", "joined"}, nets : SUBSET Ssids, wired : {"found", "set"}, claimed : BOOLEAN]
  /\ conn \in [serial : Nat, auth : {"none", "password"}, op : BOOLEAN]
  /\ hold \subseteq HdHolds /\ opTasks \subseteq HdTasks /\ undoTasks \subseteq HdUndos
  /\ openWindow \in BOOLEAN /\ claimSent \in BOOLEAN
  /\ holdUsed \in [serial : Nat, ops : Nat]
  /\ holdPast \in [wifiUp : BOOLEAN, kept : BOOLEAN, late : BOOLEAN]
  /\ \A h, g \in hold : h = g
  /\ \A h \in hold : \A x, y \in h.snapshot : x = y

\* What each task has at hand, and what each that puts back.
HdHands ==
  /\ \A t \in opTasks :
       /\ t.kind = "setWifi" => t.ssid \in Ssids /\ t.read \subseteq Ssids
       /\ t.kind = "setNetwork" => t.pc # "write" /\ (t.pc = "saved" => t.read # {} /\ t.read \subseteq {"found", "set"})
       /\ t.kind = "finish" => t.pc \in {"begin", "up"}
  /\ \A u \in undoTasks : (u.kind = "wifi" => u.mode # "") /\ (u.kind = "wired" => u.entry # "")

\* Serials: each command has one of its own, and the connection's is on its way.
HdSerials ==
  /\ conn.serial <= holdUsed.serial
  /\ conn.serial = 0 => ~conn.op
  /\ conn.op => \E t \in opTasks : t.serial = conn.serial
  /\ \A t \in opTasks : /\ 0 < t.serial /\ t.serial <= holdUsed.serial
                        /\ t.serial = conn.serial => conn.op
  /\ \A t, s \in opTasks : t.serial = s.serial => t = s

\* The lock and the phone that is away.
HdLocked ==
  /\ wifiLocked = (conn.serial # 0 \/ hold # {})
  /\ \A h \in hold : h.away = (conn.serial = 0)

\* A save that will be late, and a command whose end keeps what it did.
HdDoomed == \E t \in opTasks : t.pc = "saved" /\ (t.serial # conn.serial \/ hold = {})
HdMarked == \E t \in opTasks : t.auth = "password"

\* The Wi-Fi mode.
HdMode ==
  /\ \A h \in hold : h.snapshot \subseteq {"found"}
  /\ \A u \in undoTasks : u.kind = "wifi" => u.mode = "found"
  /\ stores.mode # "found" => (\E h \in hold : h.snapshot # {}) \/ (\E u \in undoTasks : u.kind = "wifi")
  /\ \A t \in opTasks, h \in hold : t.kind = "setWifi" /\ t.serial = conn.serial => h.snapshot # {}

\* The networks.
HdNets ==
  /\ \A h \in hold : h.unclaimed /\ (h.added # {} => h.snapshot # {})
  /\ \A u \in undoTasks : u.kind = "wifi" => stores.nets \subseteq u.remove /\ u.read \subseteq u.remove
  /\ hold = {} /\ (\A u \in undoTasks : u.kind # "wifi") => stores.nets = {}
  /\ \A h \in hold, n \in stores.nets :
       n \in h.added \/ \E t \in opTasks : /\ t.kind = "setWifi" /\ t.serial = conn.serial
                                           /\ t.pc = "saved" /\ t.added /\ t.ssid = n
  /\ \A h \in hold, t \in opTasks :
       t.kind = "setWifi" /\ t.serial = conn.serial /\ t.pc = "write" => t.read \subseteq h.added

\* The wired entry.
HdWired ==
  /\ \A h \in hold : h.unclaimed /\ h.replaced \subseteq {"found"}
  /\ \A u \in undoTasks : u.kind = "wired" => u.entry = "found"
  /\ hold = {} /\ (\A u \in undoTasks : u.kind # "wired") => stores.wired = "found"
  /\ \A h \in hold : stores.wired # "found" =>
       \/ h.replaced # {}
       \/ \E t \in opTasks : t.kind = "setNetwork" /\ t.serial = conn.serial /\ t.pc = "saved"
  /\ \A h \in hold, t \in opTasks :
       t.kind = "setNetwork" /\ t.serial = conn.serial /\ t.pc = "saved" => t.read = {"found"} \/ h.replaced # {}

\* The same of two holds, but for whether the phone is away.
HdSame(g, h) ==
  g.snapshot = h.snapshot /\ g.added = h.added /\ g.replaced = h.replaced /\ g.unclaimed = h.unclaimed

\* What the settings owe the hold, in the invariant.
HdOwed ==
  /\ holdPast.wifiUp => holdPast.kept
  /\ ~holdPast.late => undoTasks = {} \/ hold = {}
  /\ ~holdPast.late /\ ~holdPast.wifiUp /\ ~HdDoomed => HdMode
  /\ ~holdPast.late /\ ~holdPast.kept /\ ~HdDoomed /\ ~HdMarked => HdNets /\ HdWired

HdInv == HdShapes /\ HdHands /\ HdSerials /\ HdLocked /\ HdOwed

\* The hold in hand, or the one that is made.
LEMMA HdHeld ==
  ASSUME HdShapes
  PROVE  /\ hold # {} => hold = {Held} /\ Held \in hold
         /\ hold = {} => Held = EmptyHold
         /\ Held \in HdHolds
         /\ \A x, y \in Held.snapshot : x = y
  BY DEF Held, EmptyHold, HdHolds, HdShapes

\* What is spawned to put a hold back.
LEMMA HdUndone ==
  ASSUME NEW h \in HdHolds, NEW f \in BOOLEAN
  PROVE  /\ Undo(h, f) \subseteq HdUndos
         /\ \A u \in Undo(h, f) :
              /\ u.kind = "wifi" => /\ u.mode \in h.snapshot /\ u.read = {}
                                    /\ h.unclaimed /\ ~f => u.remove = h.added
              /\ u.kind = "wired" => u.entry \in h.replaced
         /\ h.snapshot # {} => \E u \in Undo(h, f) : u.kind = "wifi"
         /\ h.replaced # {} /\ h.unclaimed /\ ~f => \E u \in Undo(h, f) : u.kind = "wired"
<1> DEFINE dropped == h.unclaimed /\ ~f
           wifi(m) == [kind |-> "wifi", mode |-> m, remove |-> IF dropped THEN h.added ELSE {},
                       entry |-> "", read |-> {}, pc |-> "read"]
           wired(e) == [kind |-> "wired", mode |-> "", remove |-> {}, entry |-> e, read |-> {}, pc |-> "write"]
<1>1. Undo(h, f) = {wifi(m) : m \in h.snapshot} \cup {wired(e) : e \in IF dropped THEN h.replaced ELSE {}}
  BY DEF Undo
<1>2. h.snapshot \subseteq {"found", "joined"} /\ h.added \subseteq Ssids /\ h.replaced \subseteq {"found", "set"}
  BY DEF HdHolds
<1>3. \A m \in h.snapshot : wifi(m) \in HdUndos
  BY <1>2 DEF HdUndos
<1>4. \A e \in h.replaced : wired(e) \in HdUndos
  BY <1>2 DEF HdUndos
<1>5. \A m : /\ wifi(m).kind = "wifi" /\ wifi(m).mode = m /\ wifi(m).read = {}
             /\ dropped => wifi(m).remove = h.added
  OBVIOUS
<1>6. \A e : wired(e).kind = "wired" /\ wired(e).entry = e
  OBVIOUS
<1> HIDE DEF wifi, wired, dropped
<1>7. Undo(h, f) \subseteq HdUndos
  BY <1>1, <1>3, <1>4
<1>8. ASSUME NEW u \in Undo(h, f)
      PROVE  /\ u.kind = "wifi" => u.mode \in h.snapshot /\ u.read = {} /\ (dropped => u.remove = h.added)
             /\ u.kind = "wired" => u.entry \in h.replaced
  BY <1>1, <1>5, <1>6
<1>9. h.snapshot # {} => \E u \in Undo(h, f) : u.kind = "wifi"
  BY <1>1, <1>5
<1>10. h.replaced # {} /\ dropped => \E u \in Undo(h, f) : u.kind = "wired"
  BY <1>1, <1>6
<1> QED BY <1>7, <1>8, <1>9, <1>10 DEF dropped

\* The hold ends, and what puts its settings back is spawned: a live save is doomed from here.
LEMMA HdEnds ==
  ASSUME HdInv, NEW f \in BOOLEAN,
         undoTasks' = undoTasks \cup UNION {Undo(h, f) : h \in hold}, hold' = {}, stores' = stores,
         opTasks' \subseteq opTasks, \A t \in opTasks : t.pc = "saved" => t \in opTasks',
         holdPast'.late = holdPast.late, holdPast.wifiUp => holdPast'.wifiUp,
         holdPast'.wifiUp => holdPast'.kept,
         ~holdPast'.kept => ~holdPast.kept /\ ~f /\ (HdMarked => HdMarked')
  PROVE  /\ undoTasks' \subseteq HdUndos
         /\ \A u \in undoTasks' : (u.kind = "wifi" => u.mode # "") /\ (u.kind = "wired" => u.entry # "")
         /\ HdOwed'
<1> USE DEF HdOwed
<1>1. \A h \in hold : h \in HdHolds
  BY DEF HdInv, HdShapes
<1>2. undoTasks' \subseteq HdUndos
  BY <1>1, HdUndone DEF HdInv, HdShapes
<1>a. \A u \in undoTasks' : (u.kind = "wifi" => u.mode # "") /\ (u.kind = "wired" => u.entry # "")
  <2>1. \A h \in HdHolds : "" \notin h.snapshot /\ "" \notin h.replaced
    BY DEF HdHolds
  <2>2. \A u \in undoTasks' : u \in undoTasks \/ \E h \in hold : u \in Undo(h, f)
    OBVIOUS
  <2>3. \A u \in undoTasks : (u.kind = "wifi" => u.mode # "") /\ (u.kind = "wired" => u.entry # "")
    BY DEF HdInv, HdHands
  <2>4. ASSUME NEW h \in hold, NEW u \in Undo(h, f)
        PROVE  (u.kind = "wifi" => u.mode # "") /\ (u.kind = "wired" => u.entry # "")
    <3>1. h \in HdHolds
      BY <1>1
    <3>2. (u.kind = "wifi" => u.mode \in h.snapshot) /\ (u.kind = "wired" => u.entry \in h.replaced)
      BY <3>1, HdUndone
    <3> QED BY <2>1, <3>1, <3>2
  <2> QED BY <2>2, <2>3, <2>4
<1>3. ASSUME ~HdDoomed'
      PROVE  (\A t \in opTasks : t.pc # "saved") /\ ~HdDoomed
  BY <1>3 DEF HdDoomed
<1>4. ASSUME NEW u \in undoTasks', ~holdPast.late
      PROVE  \/ u \in undoTasks /\ hold = {}
             \/ \E h \in hold : u \in Undo(h, f)
  BY <1>4 DEF HdInv
<1>5. ASSUME ~holdPast'.late, ~holdPast'.wifiUp, ~HdDoomed'
      PROVE  HdMode'
  BY <1>3, <1>5, <1>1, <1>4, HdUndone DEF HdInv, HdMode
<1>6. ASSUME ~holdPast'.late, ~holdPast'.kept, ~HdDoomed', ~HdMarked'
      PROVE  HdNets' /\ HdWired'
  BY <1>3, <1>6, <1>1, <1>4, HdUndone DEF HdInv, HdNets, HdWired
<1> QED BY <1>2, <1>a, <1>5, <1>6

\* A hold whose phone comes or goes.
LEMMA HdMoved ==
  ASSUME HdShapes, NEW b \in BOOLEAN, hold' = {[h EXCEPT !.away = b] : h \in hold}
  PROVE  /\ \A g \in hold' : \E h \in hold : HdSame(g, h)
         /\ \A h \in hold : \E g \in hold' : HdSame(g, h)
         /\ hold' \subseteq HdHolds
         /\ \A g, k \in hold' : g = k
         /\ \A g \in hold' : (g.away <=> b) /\ \A x, y \in g.snapshot : x = y
<1> DEFINE moved(h) == [h EXCEPT !.away = b]
<1>1. ASSUME NEW h \in HdHolds
      PROVE  moved(h) \in HdHolds /\ HdSame(moved(h), h) /\ (moved(h).away <=> b)
  BY DEF HdHolds, HdSame
<1>2. hold' = {moved(h) : h \in hold}
  OBVIOUS
<1> HIDE DEF moved
<1>3. hold \subseteq HdHolds /\ (\A h, g \in hold : h = g) /\ \A h \in hold : \A x, y \in h.snapshot : x = y
  BY DEF HdShapes
<1>4. \A g, k \in hold' : g = k
  BY <1>2, <1>3
<1>5. \A g \in hold' : \E h \in hold : g = moved(h)
  BY <1>2
<1>6. \A h \in hold : moved(h) \in hold'
  BY <1>2
<1>7. \A g \in hold' : \E h \in hold : g \in HdHolds /\ HdSame(g, h) /\ (g.away <=> b)
  BY <1>1, <1>3, <1>5
<1> QED BY <1>1, <1>3, <1>4, <1>6, <1>7 DEF HdSame

\* A step that leaves the settings, the hold and the tasks as they are, but for a finish that
\* sets out; a live save may lose its connection.
LEMMA HdCarried ==
  ASSUME HdInv, stores'.mode = stores.mode, stores'.nets = stores.nets, stores'.wired = stores.wired,
         undoTasks' = undoTasks,
         \A g \in hold' : \E h \in hold : HdSame(g, h), \A h \in hold : \E g \in hold' : HdSame(g, h),
         opTasks \subseteq opTasks', \A t \in opTasks' : t \in opTasks \/ (t.kind = "finish" /\ t.pc = "begin"),
         \A t \in opTasks : t.serial = conn'.serial => t.serial = conn.serial,
         holdPast.late => holdPast'.late, holdPast'.wifiUp = holdPast.wifiUp, holdPast'.kept = holdPast.kept
  PROVE  HdOwed'
<1> USE DEF HdOwed
<1>1. hold = {} <=> hold' = {}
  OBVIOUS
<1>2. HdDoomed => HdDoomed'
  BY <1>1 DEF HdDoomed
<1>3. HdMarked => HdMarked'
  BY DEF HdMarked
<1>4. ASSUME NEW t \in opTasks, t.pc = "saved", ~HdDoomed'
      PROVE  t \in opTasks' /\ t.serial = conn'.serial
  BY <1>4 DEF HdDoomed
<1>5. ASSUME ~holdPast'.late, ~holdPast'.wifiUp, ~HdDoomed'
      PROVE  HdMode'
  <2>1. HdMode
    BY <1>2, <1>5 DEF HdInv
  <2> QED BY <2>1 DEF HdMode, HdSame
<1>6. ASSUME ~holdPast'.late, ~holdPast'.kept, ~HdDoomed', ~HdMarked'
      PROVE  HdNets' /\ HdWired'
  <2>1. HdNets /\ HdWired
    BY <1>2, <1>3, <1>6 DEF HdInv
  <2>2. HdNets'
    <3>1. \A h \in hold' : h.unclaimed /\ (h.added # {} => h.snapshot # {})
      BY <2>1 DEF HdNets, HdSame
    <3>2. hold' = {} /\ (\A u \in undoTasks' : u.kind # "wifi") => stores'.nets = {}
      BY <1>1, <2>1 DEF HdNets
    <3>3. ASSUME NEW g \in hold', NEW n \in stores'.nets
          PROVE  n \in g.added \/ \E t \in opTasks' : /\ t.kind = "setWifi" /\ t.serial = conn'.serial
                                                      /\ t.pc = "saved" /\ t.added /\ t.ssid = n
      BY <1>4, <1>6, <2>1 DEF HdNets, HdSame
    <3>4. ASSUME NEW g \in hold', NEW t \in opTasks', t.kind = "setWifi", t.serial = conn'.serial, t.pc = "write"
          PROVE  t.read \subseteq g.added
      BY <2>1, <3>4 DEF HdNets, HdSame
    <3>5. \A u \in undoTasks' : u.kind = "wifi" => stores'.nets \subseteq u.remove /\ u.read \subseteq u.remove
      BY <2>1 DEF HdNets
    <3> QED BY <3>1, <3>2, <3>3, <3>4, <3>5 DEF HdNets
  <2>3. HdWired'
    BY <2>1, <1>1, <1>4, <1>6 DEF HdWired, HdSame
  <2> QED BY <2>2, <2>3
<1> QED BY <1>1, <1>5, <1>6 DEF HdInv

\* A phone goes, in or out of a window.
LEMMA HdGone ==
  ASSUME HdInv, SettledGone(hold), UNCHANGED <<stores, opTasks, openWindow, claimSent, holdUsed, holdPast>>
  PROVE  HdInv'
<1>a. conn' = NoSession
  BY DEF SettledGone, Settled
<1>1. conn' = NoSession /\ conn'.serial = 0 /\ ~conn'.op
  BY <1>a DEF NoSession
<1>2. HdSerials'
  BY <1>1 DEF HdInv, HdSerials, HdShapes
<1>3. \A t \in opTasks : t.serial # conn'.serial
  BY <1>1 DEF HdInv, HdSerials
<1>4. CASE openWindow
  <2>1. hold' = Away(hold) /\ undoTasks' = undoTasks /\ wifiLocked' = (hold' # {})
    BY <1>4 DEF SettledGone, Settled, NoSession
  <2>2. hold' = {[h EXCEPT !.away = TRUE] : h \in hold}
    BY <2>1 DEF Away
  <2>3. /\ \A g \in hold' : \E h \in hold : HdSame(g, h)
        /\ \A h \in hold : \E g \in hold' : HdSame(g, h)
        /\ hold' \subseteq HdHolds
        /\ \A g, k \in hold' : g = k
        /\ \A g \in hold' : g.away /\ \A x, y \in g.snapshot : x = y
    BY <2>2, HdMoved DEF HdInv
  <2>5. HdOwed'
    BY <1>3, <2>1, <2>3, HdCarried
  <2>6. HdShapes'
    BY <1>1, <2>1, <2>3 DEF HdInv, HdShapes, NoSession
  <2>7. HdLocked'
    BY <1>1, <2>1, <2>3 DEF HdLocked, HdHolds
  <2> QED BY <1>2, <2>1, <2>5, <2>6, <2>7 DEF HdInv, HdHands
<1>5. CASE ~openWindow
  BY <1>5, HdEnds, <1>1, <1>2 DEF SettledGone, Settled, NoSession, HdMarked, HdInv, HdOwed, HdShapes,
     HdHands, HdLocked
<1> QED BY <1>4, <1>5

\* A phone connects, with a serial no command has.
LEMMA HdConnects ==
  ASSUME HdInv, SessionReady
  PROVE  HdInv'
<1>1. /\ conn' = [serial |-> holdUsed.serial + 1, op |-> FALSE, auth |-> IF stores.claimed THEN "password" ELSE "none"]
      /\ hold' = {[h EXCEPT !.away = FALSE] : h \in hold}
      /\ wifiLocked' = (conn'.serial # 0 \/ hold' # {})
      /\ UNCHANGED <<stores, opTasks, undoTasks, openWindow, claimSent, holdPast>>
      /\ holdUsed' = [holdUsed EXCEPT !.serial = @ + 1]
  BY DEF SessionReady, Settled
<1>2. /\ holdUsed' \in [serial : Nat, ops : Nat] /\ holdUsed'.serial = holdUsed.serial + 1
      /\ holdUsed.serial \in Nat
      /\ conn' \in [serial : Nat, auth : {"none", "password"}, op : BOOLEAN]
      /\ conn'.serial = holdUsed.serial + 1 /\ ~conn'.op /\ conn'.serial # 0
  BY <1>1 DEF HdInv, HdShapes
<1>3. /\ \A g \in hold' : \E h \in hold : HdSame(g, h)
      /\ \A h \in hold : \E g \in hold' : HdSame(g, h)
      /\ hold' \subseteq HdHolds
      /\ \A g, k \in hold' : g = k
      /\ \A g \in hold' : ~g.away /\ \A x, y \in g.snapshot : x = y
  BY <1>1, HdMoved DEF HdInv
<1>4. \A t \in opTasks : t.serial \in Nat
  BY DEF HdInv, HdShapes, HdTasks
<1>5. \A t \in opTasks : t.serial # conn'.serial
  BY <1>2, <1>4 DEF HdInv, HdSerials
<1>6. HdSerials'
  BY <1>1, <1>2, <1>4, <1>5 DEF HdInv, HdSerials
<1>7. HdOwed'
  BY <1>1, <1>3, <1>5, HdCarried
<1>8. HdShapes'
  BY <1>1, <1>2, <1>3 DEF HdInv, HdShapes
<1>9. HdLocked'
  BY <1>1, <1>2, <1>3 DEF HdLocked, HdHolds
<1> QED BY <1>1, <1>6, <1>7, <1>8, <1>9 DEF HdInv, HdHands

\* What any command that sets out does to the connection, the tasks and the past.
LEMMA HdSetsOut ==
  ASSUME HdInv, NEW k \in {"setWifi", "setNetwork", "finish"}, NEW ssid \in Ssids \cup {"none"},
         k = "setWifi" => ssid \in Ssids, NEW h2, SpawnOp(NewTask(k, ssid), h2)
  PROVE  /\ NewTask(k, ssid) \in HdTasks
         /\ NewTask(k, ssid).serial = conn.serial /\ NewTask(k, ssid).kind = k /\ NewTask(k, ssid).pc = "begin"
         /\ NewTask(k, ssid).auth = conn.auth
         /\ opTasks' = opTasks \cup {NewTask(k, ssid)}
         /\ conn' \in [serial : Nat, auth : {"none", "password"}, op : BOOLEAN]
         /\ conn.serial # 0 /\ conn'.serial = conn.serial /\ conn'.op /\ conn.serial \in Nat
         /\ hold' = h2 /\ wifiLocked'
         /\ holdUsed' \in [serial : Nat, ops : Nat]
         /\ holdPast' \in [wifiUp : BOOLEAN, kept : BOOLEAN, late : BOOLEAN]
         /\ (~holdPast'.late => undoTasks = {} /\ ~holdPast.late)
         /\ holdPast'.wifiUp = holdPast.wifiUp /\ holdPast'.kept = holdPast.kept
         /\ UNCHANGED <<stores, undoTasks, openWindow, claimSent>>
         /\ \A t \in opTasks : t.serial # conn.serial
         /\ HdSerials' /\ HdHands'
<1> DEFINE new == NewTask(k, ssid)
<1>1. /\ conn \in [serial : Nat, auth : {"none", "password"}, op : BOOLEAN]
      /\ holdUsed \in [serial : Nat, ops : Nat]
      /\ holdPast \in [wifiUp : BOOLEAN, kept : BOOLEAN, late : BOOLEAN]
      /\ HdHands /\ HdSerials
  BY DEF HdInv, HdShapes
<1>2. /\ conn.serial # 0 /\ ~conn.op
      /\ holdUsed' = [holdUsed EXCEPT !.ops = @ + 1]
      /\ opTasks' = opTasks \cup {new}
      /\ conn' = [conn EXCEPT !.op = TRUE] /\ hold' = h2 /\ wifiLocked' = (conn'.serial # 0 \/ h2 # {})
      /\ UNCHANGED <<stores, undoTasks, openWindow, claimSent>>
  BY Zenon DEF SpawnOp, Settled
<1>3. holdPast' = [holdPast EXCEPT !.late = @ \/ undoTasks # {}]
  BY DEF SpawnOp
<1>4. new = [serial |-> conn.serial, auth |-> conn.auth, kind |-> k, ssid |-> ssid, read |-> {}, added |-> FALSE,
             pc |-> "begin"]
  BY DEF NewTask
<1> HIDE DEF new
<1>5. /\ new \in HdTasks
      /\ new.serial = conn.serial /\ new.kind = k /\ new.pc = "begin" /\ new.auth = conn.auth /\ new.ssid = ssid
      /\ new.read = {}
  BY <1>1, <1>4 DEF HdTasks
<1>6. /\ conn' \in [serial : Nat, auth : {"none", "password"}, op : BOOLEAN]
      /\ conn'.serial = conn.serial /\ conn'.op
  BY <1>1, <1>2
<1>7. holdUsed' \in [serial : Nat, ops : Nat] /\ holdUsed'.serial = holdUsed.serial
  BY <1>1, <1>2
<1>8. /\ holdPast' \in [wifiUp : BOOLEAN, kept : BOOLEAN, late : BOOLEAN]
      /\ ~holdPast'.late => undoTasks = {} /\ ~holdPast.late
      /\ holdPast'.wifiUp = holdPast.wifiUp /\ holdPast'.kept = holdPast.kept
  BY <1>1, <1>3
<1>9. \A t \in opTasks : t.serial # conn.serial
  BY <1>1, <1>2 DEF HdSerials
<1>10. HdSerials'
  BY <1>1, <1>2, <1>5, <1>6, <1>7, <1>9 DEF HdSerials
<1>11. HdHands'
  BY <1>1, <1>2, <1>5 DEF HdHands
<1> QED BY <1>1, <1>2, <1>5, <1>6, <1>7, <1>8, <1>9, <1>10, <1>11 DEF new

\* setWifi and setNetwork: the hold is there before the task runs, and setWifi's has the mode.
LEMMA HdCommands ==
  ASSUME HdInv, NEW k \in {"setWifi", "setNetwork"}, NEW ssid \in Ssids \cup {"none"},
         k = "setWifi" => ssid \in Ssids, NEW sn \in SUBSET {"found", "joined"},
         Held.snapshot # {} => sn = Held.snapshot, Held.snapshot = {} => sn = {} \/ sn = {stores.mode},
         k = "setWifi" => sn # {},
         NEW g, g \in HdHolds, g.snapshot = sn, g.added = Held.added, g.replaced = Held.replaced,
         g.unclaimed = Held.unclaimed, g.away = Held.away,
         SpawnOp(NewTask(k, ssid), {g})
  PROVE  HdInv'
<1> DEFINE new == NewTask(k, ssid)
<1>1. /\ new \in HdTasks /\ new.serial = conn.serial /\ new.kind = k /\ new.pc = "begin" /\ new.auth = conn.auth
      /\ opTasks' = opTasks \cup {new}
      /\ conn' \in [serial : Nat, auth : {"none", "password"}, op : BOOLEAN]
      /\ conn.serial # 0 /\ conn'.serial = conn.serial /\ conn'.op /\ conn.serial \in Nat
      /\ hold' = {g} /\ wifiLocked'
      /\ holdUsed' \in [serial : Nat, ops : Nat]
      /\ holdPast' \in [wifiUp : BOOLEAN, kept : BOOLEAN, late : BOOLEAN]
      /\ (~holdPast'.late => undoTasks = {} /\ ~holdPast.late)
      /\ holdPast'.wifiUp = holdPast.wifiUp /\ holdPast'.kept = holdPast.kept
      /\ UNCHANGED <<stores, undoTasks, openWindow, claimSent>>
      /\ \A t \in opTasks : t.serial # conn.serial
      /\ HdSerials' /\ HdHands'
  BY HdSetsOut
<1> HIDE DEF new
<1>2. /\ hold # {} => Held \in hold
      /\ hold = {} => Held = EmptyHold
      /\ Held \in HdHolds
      /\ \A x, y \in Held.snapshot : x = y
  BY HdHeld DEF HdInv
<1>3. hold = {} => /\ Held.snapshot = {} /\ Held.added = {} /\ Held.replaced = {} /\ ~Held.away
                   /\ conn.auth = "none" => Held.unclaimed
  <2> DEFINE e == EmptyHold
  <2>1. e = [snapshot |-> {}, added |-> {}, replaced |-> {}, unclaimed |-> conn.auth = "none", away |-> FALSE]
    BY DEF EmptyHold
  <2> HIDE DEF e
  <2>2. e.snapshot = {} /\ e.added = {} /\ e.replaced = {} /\ e.away = FALSE
    BY <2>1
  <2>3. e.unclaimed = (conn.auth = "none")
    BY <2>1
  <2> QED BY <1>2, <2>2, <2>3 DEF e
<1>4. ~Held.away
  BY <1>1, <1>2, <1>3 DEF HdInv, HdLocked
<1>5. HdShapes' /\ HdLocked'
  <2>1. \A x, y \in sn : x = y
    BY <1>2
  <2>a. hold' = {g} /\ opTasks' = opTasks \cup {new} /\ new \in HdTasks
    BY <1>1
  <2>b. opTasks \subseteq HdTasks
    BY DEF HdInv, HdShapes
  <2>2. /\ hold' \subseteq HdHolds /\ (\A x, y \in hold' : x = y)
        /\ \A h \in hold' : \A x, y \in h.snapshot : x = y
        /\ opTasks' \subseteq HdTasks
    BY ONLY <2>a, <2>b, <2>1, g \in HdHolds, g.snapshot = sn
  <2>3. HdShapes'
    BY <1>1, <2>2 DEF HdInv, HdShapes
  <2>4. HdLocked'
    BY <1>1, <1>4 DEF HdLocked, HdHolds
  <2> QED BY <2>3, <2>4
<1>6. ASSUME ~HdDoomed'
      PROVE  ~HdDoomed /\ \A t \in opTasks : t.pc # "saved"
  BY <1>1, <1>6 DEF HdDoomed
<1>7. ASSUME ~holdPast'.late, ~holdPast'.wifiUp, ~HdDoomed'
      PROVE  HdMode'
  <2>1. HdMode /\ undoTasks = {}
    BY <1>1, <1>6, <1>7 DEF HdInv, HdOwed
  <2>2. sn \subseteq {"found"} /\ (stores.mode # "found" => sn # {})
    <3>1. CASE hold = {}
      BY <1>3, <2>1, <3>1 DEF HdMode
    <3>2. CASE hold # {}
      <4>1. Held.snapshot \subseteq {"found"} /\ (stores.mode # "found" => Held.snapshot # {})
        BY <2>1, <3>2, HdHeld DEF HdMode, HdInv
      <4> QED BY <4>1
    <3> QED BY <3>1, <3>2
  <2>3. ASSUME NEW t \in opTasks', t.kind = "setWifi", t.serial = conn'.serial
        PROVE  sn # {}
    BY <1>1, <2>3
  <2> QED BY <1>1, <2>1, <2>2, <2>3 DEF HdMode
<1>8. ASSUME ~holdPast'.late, ~holdPast'.kept, ~HdDoomed', ~HdMarked'
      PROVE  HdNets' /\ HdWired'
  BY <1>1, <1>8, <1>6, <1>3, <1>2 DEF HdMarked, HdInv, HdOwed, HdShapes, HdNets, HdWired
<1>9. HdOwed'
  BY <1>1, <1>7, <1>8 DEF HdOwed, HdInv
<1> QED BY <1>1, <1>5, <1>9 DEF HdInv

\* setWifi notes the mode, unless the hold has one.
LEMMA HdSetsWifi ==
  ASSUME HdInv, SetWifi
  PROVE  HdInv'
<1>1. PICK ssid \in Ssids :
        SpawnOp(NewTask("setWifi", ssid),
                {IF Held.snapshot = {} THEN [Held EXCEPT !.snapshot = {stores.mode}] ELSE Held})
  BY DEF SetWifi
<1>2. Held \in HdHolds /\ stores.mode \in {"found", "joined"}
  BY HdHeld DEF HdInv, HdShapes
<1> DEFINE g == IF Held.snapshot = {} THEN [Held EXCEPT !.snapshot = {stores.mode}] ELSE Held
           sn == IF Held.snapshot = {} THEN {stores.mode} ELSE Held.snapshot
<1>3. g \in HdHolds
  BY <1>2 DEF HdHolds
<1>4. /\ g.snapshot = sn /\ g.added = Held.added /\ g.replaced = Held.replaced
      /\ g.unclaimed = Held.unclaimed /\ g.away = Held.away
  BY <1>2 DEF HdHolds
<1>5. sn \in SUBSET {"found", "joined"} /\ sn # {}
  BY <1>2 DEF HdHolds
<1>6. (Held.snapshot # {} => sn = Held.snapshot) /\ (Held.snapshot = {} => sn = {stores.mode})
  OBVIOUS
<1>7. SpawnOp(NewTask("setWifi", ssid), {g})
  BY <1>1
<1> HIDE DEF g, sn
<1> QED BY <1>3, <1>4, <1>5, <1>6, <1>7, HdCommands

\* setNetwork.
LEMMA HdSetsNetwork ==
  ASSUME HdInv, SetNetwork
  PROVE  HdInv'
  BY HdHeld, HdCommands DEF HdInv, HdHolds, SetNetwork

\* finish takes no hold.
LEMMA HdFinishSent ==
  ASSUME HdInv, FinishSent
  PROVE  HdInv'
<1> DEFINE new == NewTask("finish", "none")
<1>0. SpawnOp(NewTask("finish", "none"), hold)
  BY DEF FinishSent
<1>1. /\ new \in HdTasks /\ new.serial = conn.serial /\ new.kind = "finish" /\ new.pc = "begin"
      /\ opTasks' = opTasks \cup {new}
      /\ conn' \in [serial : Nat, auth : {"none", "password"}, op : BOOLEAN]
      /\ conn.serial # 0 /\ conn'.serial = conn.serial
      /\ hold' = hold /\ wifiLocked'
      /\ holdUsed' \in [serial : Nat, ops : Nat]
      /\ holdPast' \in [wifiUp : BOOLEAN, kept : BOOLEAN, late : BOOLEAN]
      /\ (~holdPast'.late => ~holdPast.late)
      /\ holdPast'.wifiUp = holdPast.wifiUp /\ holdPast'.kept = holdPast.kept
      /\ UNCHANGED <<stores, undoTasks, openWindow, claimSent>>
      /\ HdSerials' /\ HdHands'
  BY <1>0, HdSetsOut
<1> HIDE DEF new
<1>2. HdOwed'
  BY <1>1, HdCarried DEF HdSame
<1>3. HdShapes' /\ HdLocked'
  BY <1>1 DEF HdInv, HdShapes, HdLocked
<1> QED BY <1>1, <1>2, <1>3 DEF HdInv

\* A task goes on: its serial is still its own.
LEMMA HdAdvances ==
  ASSUME HdInv, NEW t \in opTasks, NEW u \in HdTasks, u.serial = t.serial, u.auth = t.auth, Advance(t, u),
         conn' = conn, holdUsed' = holdUsed
  PROVE  /\ opTasks' \subseteq HdTasks /\ u \in opTasks'
         /\ \A s \in opTasks' : s = u \/ (s \in opTasks /\ s # t)
         /\ \A s \in opTasks : s = t \/ (s \in opTasks' /\ s.serial # t.serial)
         /\ HdSerials'
         /\ HdMarked <=> HdMarked'
  BY DEF Advance, HdInv, HdShapes, HdSerials, HdMarked

\* A step of a task that neither writes nor reports: what others count on stays, if it is not
\* itself a save, and what it has read is in the hold.
LEMMA HdWorks ==
  ASSUME HdInv, NEW t \in opTasks, NEW u \in HdTasks, u.serial = t.serial, u.auth = t.auth, u.kind = t.kind,
         t.pc # "saved", u.pc # "saved", Advance(t, u),
         u.kind = "setWifi" /\ u.pc = "write" => u.read = stores.nets,
         UNCHANGED <<stores, conn, hold, undoTasks, holdUsed, holdPast>>
  PROVE  HdOwed'
<1> USE DEF HdOwed
<1>1. /\ u \in opTasks'
      /\ \A s \in opTasks' : s = u \/ (s \in opTasks /\ s # t)
      /\ \A s \in opTasks : s = t \/ (s \in opTasks' /\ s.serial # t.serial)
      /\ HdMarked <=> HdMarked'
  BY HdAdvances
<1>2. HdDoomed => HdDoomed'
  BY <1>1 DEF HdDoomed
<1>3. ASSUME ~holdPast'.late, ~holdPast'.wifiUp, ~HdDoomed'
      PROVE  HdMode'
  <2>1. HdMode
    BY <1>2, <1>3 DEF HdInv
  <2> QED BY <1>1, <2>1 DEF HdMode
<1>4. ASSUME ~holdPast'.late, ~holdPast'.kept, ~HdDoomed', ~HdMarked'
      PROVE  HdNets' /\ HdWired'
  BY <1>1, <1>2, <1>4 DEF HdInv, HdNets, HdWired
<1> QED BY <1>3, <1>4 DEF HdInv

\* The steps of a command before and after its save.
LEMMA HdTaskSteps ==
  ASSUME HdInv, NEW t \in opTasks,
         \/ JoinReads(t) \/ WriteRefused(t) \/ \E up \in BOOLEAN : Comes(t, up)
  PROVE  HdInv'
<1>1. t \in HdTasks /\ HdHands /\ stores.nets \subseteq Ssids
  BY DEF HdInv, HdShapes
<1>2. ASSUME NEW u \in HdTasks, u.serial = t.serial, u.auth = t.auth, u.kind = t.kind, u.ssid = t.ssid,
             t.pc # "saved", u.pc # "saved", Advance(t, u),
             u.kind = "setWifi" /\ u.pc = "write" => u.read = stores.nets,
             u.kind = "setWifi" => u.read \subseteq Ssids,
             u.kind = "setNetwork" => u.pc # "write", u.kind = "finish" => u.pc = "up",
             UNCHANGED <<stores, conn, hold, undoTasks, openWindow, wifiLocked, claimSent, holdUsed, holdPast>>
      PROVE  HdInv'
  <2>1. HdOwed'
    BY <1>2, HdWorks
  <2>2. /\ opTasks' \subseteq HdTasks /\ HdSerials'
        /\ \A s \in opTasks' : s = u \/ (s \in opTasks /\ s # t)
    BY <1>2, HdAdvances
  <2>3. HdHands'
    BY <1>1, <1>2, <2>2 DEF HdHands
  <2> QED BY <1>2, <2>1, <2>2, <2>3 DEF HdInv, HdShapes, HdLocked
<1>3. CASE JoinReads(t)
  <2> DEFINE u == [t EXCEPT !.pc = "write", !.read = stores.nets]
  <2>1. /\ u \in HdTasks /\ u.serial = t.serial /\ u.auth = t.auth /\ u.kind = t.kind /\ u.ssid = t.ssid
        /\ u.pc = "write" /\ u.read = stores.nets
    BY <1>1 DEF HdTasks
  <2>2. /\ t.kind = "setWifi" /\ t.pc = "begin" /\ Advance(t, u)
        /\ UNCHANGED <<stores, conn, hold, undoTasks, openWindow, wifiLocked, claimSent, holdUsed, holdPast>>
    BY <1>3 DEF JoinReads
  <2> HIDE DEF u
  <2> QED BY <1>1, <1>2, <2>1, <2>2
<1>4. CASE WriteRefused(t)
  <2> DEFINE u == [t EXCEPT !.pc = "failed", !.read = {}]
  <2>1. /\ u \in HdTasks /\ u.serial = t.serial /\ u.auth = t.auth /\ u.kind = t.kind /\ u.ssid = t.ssid
        /\ u.pc = "failed" /\ u.read = {}
    BY <1>1 DEF HdTasks
  <2>2. /\ t.kind \in {"setWifi", "setNetwork"} /\ t.pc \in {"begin", "write"} /\ Advance(t, u)
        /\ UNCHANGED <<stores, conn, hold, undoTasks, openWindow, wifiLocked, claimSent, holdUsed, holdPast>>
    BY <1>4 DEF WriteRefused
  <2> HIDE DEF u
  <2> QED BY <1>1, <1>2, <2>1, <2>2
<1>5. ASSUME NEW up \in BOOLEAN, Comes(t, up)
      PROVE  HdInv'
  <2> DEFINE u == [t EXCEPT !.pc = IF up THEN "up" ELSE "failed"]
  <2>1. /\ u \in HdTasks /\ u.serial = t.serial /\ u.auth = t.auth /\ u.kind = t.kind /\ u.ssid = t.ssid
        /\ u.read = t.read /\ u.pc = IF up THEN "up" ELSE "failed"
    BY <1>1 DEF HdTasks
  <2>2. /\ t.pc = "await" \/ (t.kind = "finish" /\ t.pc = "begin" /\ up)
        /\ Advance(t, u)
        /\ UNCHANGED <<stores, conn, hold, undoTasks, openWindow, wifiLocked, claimSent, holdUsed, holdPast>>
    BY <1>5 DEF Comes
  <2>3. /\ t.kind = "setWifi" => t.read \subseteq Ssids
        /\ t.kind = "finish" => up
    BY <1>1, <2>2 DEF HdHands
  <2> HIDE DEF u
  <2> QED BY <1>1, <1>2, <2>1, <2>2, <2>3
<1> QED BY <1>3, <1>4, <1>5

\* A save that was written and not reported: without a live connection and its hold it is doomed.
LEMMA HdWrites ==
  ASSUME HdInv, NEW t \in opTasks, NEW u \in HdTasks, u.serial = t.serial, u.auth = t.auth, u.kind = t.kind,
         u.ssid = t.ssid, t.pc # "saved", u.pc = "saved", Advance(t, u),
         stores'.claimed = stores.claimed,
         t.kind = "setWifi" => /\ t.pc = "write" /\ stores'.mode = "joined" /\ stores'.nets = t.read \cup {t.ssid}
                               /\ stores'.wired = stores.wired /\ (u.added <=> t.ssid \notin t.read),
         t.kind # "setWifi" => /\ t.kind = "setNetwork" /\ stores'.wired = "set" /\ stores'.mode = stores.mode
                               /\ stores'.nets = stores.nets /\ u.read = {stores.wired},
         UNCHANGED <<conn, hold, undoTasks, openWindow, wifiLocked, claimSent, holdUsed, holdPast>>
  PROVE  HdOwed'
  BY HdAdvances DEF HdOwed, HdDoomed, HdInv, HdMode, HdNets, HdWired

\* join_wifi writes.
LEMMA HdJoinWrites ==
  ASSUME HdInv, NEW t \in opTasks, JoinWrites(t)
  PROVE  HdInv'
<1> DEFINE u == [t EXCEPT !.pc = "saved", !.added = t.ssid \notin t.read, !.read = {}]
<1>1. t \in HdTasks /\ HdHands /\ HdShapes
  BY DEF HdInv, HdShapes
<1>2. /\ u \in HdTasks /\ u.serial = t.serial /\ u.auth = t.auth /\ u.kind = t.kind /\ u.ssid = t.ssid
      /\ u.pc = "saved" /\ u.read = {} /\ (u.added <=> t.ssid \notin t.read)
  <2>1. ASSUME NEW b \in BOOLEAN
        PROVE  LET v == [t EXCEPT !.pc = "saved", !.added = b, !.read = {}]
               IN  /\ v \in HdTasks /\ v.serial = t.serial /\ v.auth = t.auth /\ v.kind = t.kind /\ v.ssid = t.ssid
                   /\ v.pc = "saved" /\ v.read = {} /\ (v.added <=> b)
    BY <1>1 DEF HdTasks
  <2>2. (t.ssid \notin t.read) \in BOOLEAN
    OBVIOUS
  <2> QED BY ONLY <2>1, <2>2, Zenon DEF u
<1>3. /\ t.kind = "setWifi" /\ t.pc = "write" /\ Advance(t, u)
      /\ stores' = [stores EXCEPT !.mode = "joined", !.nets = t.read \cup {t.ssid}]
      /\ UNCHANGED <<conn, hold, undoTasks, openWindow, wifiLocked, claimSent, holdUsed, holdPast>>
  BY DEF JoinWrites
<1> HIDE DEF u
<1>4. t.read \cup {t.ssid} \subseteq Ssids
  BY <1>1, <1>3 DEF HdHands
<1>5. /\ stores' \in [mode : {"found", "joined"}, nets : SUBSET Ssids, wired : {"found", "set"}, claimed : BOOLEAN]
      /\ stores'.mode = "joined" /\ stores'.nets = t.read \cup {t.ssid} /\ stores'.wired = stores.wired
      /\ stores'.claimed = stores.claimed
  BY <1>1, <1>3, <1>4 DEF HdShapes
<1>6. HdOwed'
  BY <1>2, <1>3, <1>5, HdWrites
<1>7. /\ opTasks' \subseteq HdTasks /\ HdSerials'
      /\ \A s \in opTasks' : s = u \/ (s \in opTasks /\ s # t)
  BY <1>2, <1>3, HdAdvances
<1>8. HdHands'
  BY <1>1, <1>2, <1>3, <1>7 DEF HdHands
<1> QED BY <1>3, <1>5, <1>6, <1>7, <1>8 DEF HdInv, HdShapes, HdLocked

\* set_network writes.
LEMMA HdNetworkWrites ==
  ASSUME HdInv, NEW t \in opTasks, NetworkWrites(t)
  PROVE  HdInv'
<1> DEFINE u == [t EXCEPT !.pc = "saved", !.read = {stores.wired}]
<1>1. t \in HdTasks /\ HdHands /\ HdShapes /\ stores.wired \in {"found", "set"}
  BY DEF HdInv, HdShapes
<1>2. /\ u \in HdTasks /\ u.serial = t.serial /\ u.auth = t.auth /\ u.kind = t.kind /\ u.ssid = t.ssid
      /\ u.pc = "saved" /\ u.read = {stores.wired}
  BY <1>1 DEF HdTasks
<1>3. /\ t.kind = "setNetwork" /\ t.pc = "begin" /\ Advance(t, u)
      /\ stores' = [stores EXCEPT !.wired = "set"]
      /\ UNCHANGED <<conn, hold, undoTasks, openWindow, wifiLocked, claimSent, holdUsed, holdPast>>
  BY DEF NetworkWrites
<1> HIDE DEF u
<1>5. /\ stores' \in [mode : {"found", "joined"}, nets : SUBSET Ssids, wired : {"found", "set"}, claimed : BOOLEAN]
      /\ stores'.mode = stores.mode /\ stores'.nets = stores.nets /\ stores'.wired = "set"
      /\ stores'.claimed = stores.claimed
  BY <1>1, <1>3 DEF HdShapes
<1>6. HdOwed'
  BY <1>2, <1>3, <1>5, HdWrites
<1>7. /\ opTasks' \subseteq HdTasks /\ HdSerials'
      /\ \A s \in opTasks' : s = u \/ (s \in opTasks /\ s # t)
  BY <1>2, <1>3, HdAdvances
<1>8. HdHands'
  BY <1>1, <1>2, <1>3, <1>7 DEF HdHands
<1> QED BY <1>3, <1>5, <1>6, <1>7, <1>8 DEF HdInv, HdShapes, HdLocked

\* A save is reported: to the hold, if the connection and the hold are there, and late if not.
LEMMA HdSaved ==
  ASSUME HdInv, NEW t \in opTasks, Saved(t)
  PROVE  HdInv'
<1> DEFINE current == t.serial = conn.serial /\ hold # {}
           u == [t EXCEPT !.pc = "await", !.read = {}]
           gw == [Held EXCEPT !.added = IF t.added THEN @ \cup {t.ssid} ELSE @]
           gn == [Held EXCEPT !.replaced = IF @ = {} THEN t.read ELSE @]
<1>1. t \in HdTasks /\ HdHands /\ HdShapes /\ HdSerials /\ HdLocked /\ HdOwed
  BY DEF HdInv, HdShapes
<1>2. /\ u \in HdTasks /\ u.serial = t.serial /\ u.auth = t.auth /\ u.kind = t.kind /\ u.ssid = t.ssid
      /\ u.pc = "await" /\ u.read = {}
  BY <1>1 DEF HdTasks
<1>3. /\ t.pc = "saved" /\ conn' = conn /\ wifiLocked' = (conn.serial # 0 \/ hold' # {})
      /\ hold' = IF ~current THEN hold ELSE IF t.kind = "setWifi" THEN {gw} ELSE {gn}
      /\ Advance(t, u)
      /\ holdPast' = [holdPast EXCEPT !.late = @ \/ ~current]
      /\ UNCHANGED <<stores, undoTasks, openWindow, claimSent, holdUsed>>
  BY DEF Saved, Settled
<1>4. /\ t.kind = "setWifi" => t.ssid \in Ssids
      /\ t.kind # "setWifi" => t.kind = "setNetwork" /\ t.read # {} /\ t.read \subseteq {"found", "set"}
  BY <1>1, <1>3 DEF HdHands, HdTasks
<1>5. /\ opTasks' \subseteq HdTasks /\ u \in opTasks' /\ HdSerials'
      /\ \A s \in opTasks' : s = u \/ (s \in opTasks /\ s # t)
      /\ \A s \in opTasks : s = t \/ (s \in opTasks' /\ s.serial # t.serial)
      /\ HdMarked <=> HdMarked'
  BY <1>2, <1>3, HdAdvances
<1>6. HdHands'
  BY <1>1, <1>2, <1>3, <1>4, <1>5 DEF HdHands
<1>7. /\ holdPast' \in [wifiUp : BOOLEAN, kept : BOOLEAN, late : BOOLEAN]
      /\ ~holdPast'.late => ~holdPast.late /\ current
      /\ holdPast'.wifiUp = holdPast.wifiUp /\ holdPast'.kept = holdPast.kept
  BY <1>1, <1>3 DEF HdShapes
<1>8. /\ current => hold = {Held}
      /\ Held \in HdHolds
      /\ \A x, y \in Held.snapshot : x = y
  BY <1>1, HdHeld
<1>9. t.kind = "setWifi" =>
        /\ gw \in HdHolds /\ gw.snapshot = Held.snapshot /\ gw.replaced = Held.replaced
        /\ gw.unclaimed = Held.unclaimed /\ gw.away = Held.away
        /\ gw.added = IF t.added THEN Held.added \cup {t.ssid} ELSE Held.added
  BY <1>4, <1>8 DEF HdHolds
<1>10. t.kind # "setWifi" =>
        /\ gn \in HdHolds /\ gn.snapshot = Held.snapshot /\ gn.added = Held.added
        /\ gn.unclaimed = Held.unclaimed /\ gn.away = Held.away
        /\ gn.replaced = IF Held.replaced = {} THEN t.read ELSE Held.replaced
  BY <1>4, <1>8 DEF HdHolds
<1> HIDE DEF u, gw, gn
<1>11. HdShapes' /\ HdLocked'
  BY <1>1, <1>3, <1>5, <1>7, <1>9, <1>10, <1>8 DEF HdShapes, HdLocked
<1>12. ASSUME ~holdPast'.late, ~HdDoomed'
       PROVE  ~HdDoomed
  BY <1>3, <1>7, <1>12, <1>5 DEF HdDoomed
<1>13. ASSUME ~holdPast'.late, ~holdPast'.wifiUp, ~HdDoomed'
       PROVE  HdMode'
  BY <1>1, <1>7, <1>12, <1>13, <1>3, <1>9, <1>10, <1>2, <1>5, <1>8 DEF HdOwed, HdMode
<1>14. ASSUME ~holdPast'.late, ~holdPast'.kept, ~HdDoomed', ~HdMarked'
       PROVE  HdNets' /\ HdWired'
  <2>1. HdNets /\ HdWired /\ current /\ undoTasks = {}
    BY <1>1, <1>5, <1>7, <1>12, <1>14 DEF HdOwed
  <2>2. (\A s \in opTasks : s.serial = conn.serial => s = t) /\ (\A s \in opTasks' : s.serial = conn'.serial => s = u)
    BY <1>2, <1>3, <1>5, <2>1
  <2>3. /\ Held.unclaimed /\ (Held.added # {} => Held.snapshot # {}) /\ Held.replaced \subseteq {"found"}
        /\ \A n \in stores.nets : n \in Held.added \/ (t.kind = "setWifi" /\ t.added /\ t.ssid = n)
        /\ stores.wired # "found" => Held.replaced # {} \/ t.kind = "setNetwork"
        /\ t.kind = "setNetwork" => t.read = {"found"} \/ Held.replaced # {}
    BY <1>3, <1>8, <2>1, <2>2 DEF HdNets, HdWired
  <2>4. t.kind = "setWifi" => Held.snapshot # {}
    BY <1>1, <1>7, <1>12, <1>14, <1>8, <2>1 DEF HdOwed, HdMode
  <2>5. ASSUME NEW g \in hold'
        PROVE  /\ g.unclaimed /\ (g.added # {} => g.snapshot # {}) /\ g.replaced \subseteq {"found"}
               /\ stores.nets \subseteq g.added
               /\ stores.wired # "found" => g.replaced # {}
    BY <1>3, <2>1, <1>9, <2>3, <2>4, <1>4, <1>10
  <2>6. hold' # {} /\ undoTasks' = {} /\ stores' = stores
    BY <1>3, <2>1
  <2>7. HdNets'
    BY <1>2, <2>2, <2>5, <2>6 DEF HdNets
  <2>8. HdWired'
    BY <1>2, <2>2, <2>5, <2>6 DEF HdWired
  <2> QED BY <2>7, <2>8
<1>15. HdOwed'
  BY <1>1, <1>3, <1>7, <1>13, <1>14 DEF HdOwed
<1> QED BY <1>5, <1>6, <1>11, <1>15 DEF HdInv

\* A command has ended: finish ends the session and its hold, and what came up is forgotten.
LEMMA HdDone ==
  ASSUME HdInv, NEW t \in opTasks, Done(t)
  PROVE  HdInv'
<1> DEFINE held == {Forgets(t, h) : h \in hold}
           current == t.serial = conn.serial
           finished == t.kind = "finish" /\ current
<1>1. t \in HdTasks /\ HdHands /\ HdShapes /\ HdSerials /\ HdLocked /\ HdOwed /\ t.auth \in {"none", "password"}
  BY DEF HdInv, HdShapes, HdTasks
<1>2. /\ t.pc \in {"up", "failed"} /\ opTasks' = opTasks \ {t}
      /\ UNCHANGED <<stores, openWindow, claimSent, holdUsed>>
  BY DEF Done
<1>3. holdPast' = [holdPast EXCEPT
        !.wifiUp = @ \/ (t.pc = "up" /\ t.kind = "setWifi"),
        !.kept = @ \/ (t.pc = "up" /\ t.kind # "finish") \/ finished \/ t.auth = "password"]
  BY DEF Done
<1>4. /\ holdPast' \in [wifiUp : BOOLEAN, kept : BOOLEAN, late : BOOLEAN]
      /\ holdPast'.late <=> holdPast.late
      /\ holdPast'.wifiUp <=> holdPast.wifiUp \/ (t.pc = "up" /\ t.kind = "setWifi")
      /\ holdPast'.kept <=> holdPast.kept \/ (t.pc = "up" /\ t.kind # "finish") \/ finished \/ t.auth = "password"
  BY <1>1, <1>3 DEF HdShapes
<1>5. holdPast'.wifiUp => holdPast'.kept
  BY <1>1, <1>4 DEF HdOwed
<1>6. ~holdPast'.kept => (HdMarked => HdMarked')
  BY <1>2, <1>4 DEF HdMarked
<1>7. HdHands' \/ undoTasks' # undoTasks
  BY <1>1, <1>2 DEF HdHands
<1>8. CASE finished
  <2>1. /\ conn' = NoSession /\ hold' = {} /\ wifiLocked' = (conn'.serial # 0 \/ hold' # {})
        /\ undoTasks' = undoTasks \cup UNION {Undo(h, TRUE) : h \in held}
    BY <1>8 DEF Done, Settled
  <2>2. held = hold
    BY <1>8 DEF Forgets
  <2>3. /\ undoTasks' \subseteq HdUndos
        /\ \A u \in undoTasks' : (u.kind = "wifi" => u.mode # "") /\ (u.kind = "wired" => u.entry # "")
        /\ HdOwed'
    <3>1. holdPast'.kept
      BY <1>4, <1>8
    <3>2. opTasks' \subseteq opTasks /\ \A s \in opTasks : s.pc = "saved" => s \in opTasks'
      BY <1>2
    <3>3. holdPast'.late = holdPast.late
      BY <1>1, <1>3 DEF HdShapes
    <3> HIDE DEF held, finished
    <3> QED BY <1>2, <1>4, <1>5, <2>1, <2>2, <3>1, <3>2, <3>3, HdEnds
  <2>4. conn'.serial = 0 /\ ~conn'.op /\ conn' \in [serial : Nat, auth : {"none", "password"}, op : BOOLEAN]
    BY <2>1 DEF NoSession
  <2>5. HdSerials'
    BY <1>1, <1>2, <2>4 DEF HdSerials, HdShapes
  <2>6. HdShapes' /\ HdLocked'
    BY <1>1, <1>2, <1>4, <2>1, <2>3, <2>4 DEF HdShapes, HdLocked
  <2>7. HdHands'
    BY <1>1, <1>2, <2>3 DEF HdHands
  <2> QED BY <2>3, <2>5, <2>6, <2>7 DEF HdInv
<1>9. CASE ~finished
  <2>1. /\ conn' = IF current THEN [conn EXCEPT !.op = FALSE] ELSE conn
        /\ hold' = held /\ wifiLocked' = (conn'.serial # 0 \/ hold' # {})
        /\ undoTasks' = undoTasks
    BY <1>9 DEF Done, Settled
  <2>2. /\ conn' \in [serial : Nat, auth : {"none", "password"}, op : BOOLEAN]
        /\ conn'.serial = conn.serial /\ conn'.op = IF current THEN FALSE ELSE conn.op
    BY <1>1, <2>1 DEF HdShapes
  <2>3. ASSUME NEW h \in hold
        PROVE  /\ Forgets(t, h) \in HdHolds /\ Forgets(t, h).unclaimed = h.unclaimed /\ Forgets(t, h).away = h.away
               /\ Forgets(t, h).snapshot \subseteq h.snapshot
               /\ ~holdPast'.wifiUp => Forgets(t, h).snapshot = h.snapshot
               /\ ~holdPast'.kept => HdSame(Forgets(t, h), h)
    <3>1. h \in HdHolds
      BY <1>1 DEF HdShapes
    <3>2. CASE t.pc = "up" /\ t.kind = "setWifi"
      BY <3>2, <1>4, <3>1 DEF Forgets, HdHolds
    <3>3. CASE t.pc = "up" /\ t.kind = "setNetwork"
      BY <3>3, <1>4, <3>1 DEF Forgets, HdHolds
    <3>4. CASE ~(t.pc = "up" /\ t.kind = "setWifi") /\ ~(t.pc = "up" /\ t.kind = "setNetwork")
      BY <3>4, <3>1 DEF Forgets, HdSame
    <3> QED BY <3>2, <3>3, <3>4
  <2>4. /\ \A g \in hold' : \E h \in hold : g = Forgets(t, h)
        /\ \A h \in hold : Forgets(t, h) \in hold'
        /\ hold' = {} <=> hold = {}
    BY <2>1
  <2> HIDE DEF held
  <2>5. HdSerials'
    BY <1>1, <1>2, <2>2 DEF HdSerials
  <2>6. HdShapes' /\ HdLocked'
    BY <1>1, <2>3, <2>4, <2>2, <2>1, <1>2, <1>4 DEF HdShapes, HdLocked
  <2>7. HdDoomed => HdDoomed'
    BY <1>2, <2>2, <2>4 DEF HdDoomed
  <2>8. ASSUME ~holdPast'.late, ~holdPast'.wifiUp, ~HdDoomed'
        PROVE  HdMode'
    BY <1>1, <1>4, <2>7, <2>8, <2>3, <2>4, <1>2, <2>1, <2>2 DEF HdOwed, HdMode
  <2>9. ASSUME ~holdPast'.late, ~holdPast'.kept, ~HdDoomed', ~HdMarked'
        PROVE  HdNets' /\ HdWired'
    BY <1>1, <1>4, <1>6, <2>7, <2>9, <2>3, <2>4, <1>2, <2>2, <2>1 DEF HdOwed, HdNets, HdSame, HdWired
  <2>10. HdOwed'
    BY <1>1, <1>4, <2>1, <2>4, <1>5, <2>8, <2>9 DEF HdOwed
  <2> QED BY <1>7, <2>1, <2>5, <2>6, <2>10 DEF HdInv
<1> QED BY <1>8, <1>9

\* The hold ends for a phone too long away, a window that closes or a claim.
LEMMA HdHoldEnds ==
  ASSUME HdInv, EndHold(FALSE), hold' = {}, wifiLocked' = (conn'.serial # 0 \/ hold' # {}),
         conn' = conn \/ conn' = NoSession, openWindow' \in BOOLEAN, claimSent' \in BOOLEAN,
         UNCHANGED <<stores, opTasks, holdUsed, holdPast>>
  PROVE  HdInv'
<1>1. HdHands /\ HdShapes /\ HdSerials /\ HdOwed
  BY DEF HdInv
<1>2. undoTasks' = undoTasks \cup UNION {Undo(h, FALSE) : h \in hold}
  BY DEF EndHold
<1>3. /\ undoTasks' \subseteq HdUndos
      /\ \A u \in undoTasks' : (u.kind = "wifi" => u.mode # "") /\ (u.kind = "wired" => u.entry # "")
      /\ HdOwed'
  BY <1>1, <1>2, HdEnds DEF HdMarked, HdOwed
<1>4. conn' = NoSession => conn'.serial = 0 /\ ~conn'.op
  BY DEF NoSession
<1>5. HdSerials'
  BY <1>1, <1>4 DEF HdSerials, HdShapes
<1>a. NoSession \in [serial : Nat, auth : {"none", "password"}, op : BOOLEAN]
  BY DEF NoSession
<1>6. conn' \in [serial : Nat, auth : {"none", "password"}, op : BOOLEAN]
  BY <1>1, <1>a DEF HdShapes
<1> QED BY <1>1, <1>3, <1>5, <1>6 DEF HdInv, HdShapes, HdHands, HdLocked

\* What leaves the hold alone: a window that opens, a claim that is made or told.
LEMMA HdStays ==
  ASSUME HdInv, hold' = hold, wifiLocked' = (conn'.serial # 0 \/ hold' # {}), conn' = conn,
         openWindow' \in BOOLEAN, claimSent' \in BOOLEAN,
         stores' = stores \/ stores' = [stores EXCEPT !.claimed = TRUE],
         UNCHANGED <<opTasks, undoTasks, holdUsed, holdPast>>
  PROVE  HdInv'
  BY HdCarried DEF HdInv, HdShapes, HdSame, HdHands, HdLocked, HdSerials

\* The claim is told: an unclaimed session and its hold are over.
LEMMA HdClaimedOver ==
  ASSUME HdInv, ClaimedOver
  PROVE  HdInv'
<1> DEFINE dropped == conn.serial # 0 /\ conn.auth = "none"
           ended == \E h \in hold : h.unclaimed
<1>1. /\ conn' = IF dropped THEN NoSession ELSE conn
      /\ hold' = IF ended THEN {} ELSE IF dropped THEN Away(hold) ELSE hold
      /\ wifiLocked' = (conn'.serial # 0 \/ hold' # {})
      /\ IF ended THEN EndHold(FALSE) ELSE UNCHANGED undoTasks
      /\ claimSent' = FALSE
      /\ UNCHANGED <<stores, opTasks, openWindow, holdUsed, holdPast>>
  BY DEF ClaimedOver, Settled
<1> HIDE DEF dropped, ended
<1>2. openWindow' \in BOOLEAN /\ claimSent' \in BOOLEAN
  BY <1>1 DEF HdInv, HdShapes
<1>3. CASE ended
  BY <1>1, <1>2, <1>3, HdHoldEnds
<1>4. CASE ~ended /\ ~dropped
  BY <1>1, <1>2, <1>4, HdStays
<1>5. CASE ~ended /\ dropped
  <2>1. conn' = NoSession /\ conn'.serial = 0 /\ ~conn'.op
    BY <1>1, <1>5 DEF NoSession
  <2>2. hold' = {[h EXCEPT !.away = TRUE] : h \in hold} /\ undoTasks' = undoTasks
    BY <1>1, <1>5 DEF Away
  <2>3. /\ \A g \in hold' : \E h \in hold : HdSame(g, h)
        /\ \A h \in hold : \E g \in hold' : HdSame(g, h)
        /\ hold' \subseteq HdHolds
        /\ \A g, k \in hold' : g = k
        /\ \A g \in hold' : g.away /\ \A x, y \in g.snapshot : x = y
    BY <2>2, HdMoved DEF HdInv
  <2>4. \A t \in opTasks : t.serial # conn'.serial
    BY <2>1 DEF HdInv, HdSerials
  <2>5. HdOwed'
    BY <1>1, <2>2, <2>3, <2>4, HdCarried
  <2>a. conn' \in [serial : Nat, auth : {"none", "password"}, op : BOOLEAN]
    BY <2>1 DEF NoSession
  <2>6. HdShapes'
    BY <1>1, <1>2, <2>a, <2>2, <2>3 DEF HdInv, HdShapes
  <2>7. HdLocked'
    BY <1>1, <2>1, <2>3 DEF HdLocked, HdHolds
  <2>8. HdSerials'
    BY <1>1, <2>1 DEF HdInv, HdSerials, HdShapes
  <2> QED BY <1>1, <2>2, <2>5, <2>6, <2>7, <2>8 DEF HdInv, HdHands
<1> QED BY <1>3, <1>4, <1>5

\* What puts back reads the networks.
LEMMA HdUndoReads ==
  ASSUME HdInv, NEW u \in undoTasks, UndoReads(u)
  PROVE  HdInv'
<1> DEFINE v == [u EXCEPT !.pc = "write", !.read = stores.nets]
<1>1. u \in HdUndos /\ HdHands /\ HdShapes /\ HdSerials /\ HdLocked /\ HdOwed /\ stores.nets \subseteq Ssids
  BY DEF HdInv, HdShapes
<1>2. /\ v \in HdUndos /\ v.kind = u.kind /\ v.mode = u.mode /\ v.remove = u.remove /\ v.entry = u.entry
      /\ v.read = stores.nets
  BY <1>1 DEF HdUndos
<1>3. /\ undoTasks' = (undoTasks \ {u}) \cup {v}
      /\ UNCHANGED <<stores, conn, hold, opTasks, openWindow, wifiLocked, claimSent, holdUsed, holdPast>>
  BY DEF UndoReads
<1> HIDE DEF v
<1>4. (HdDoomed <=> HdDoomed') /\ (HdMarked <=> HdMarked')
  BY <1>3 DEF HdDoomed, HdMarked
<1>5. HdMode => HdMode'
  BY <1>2, <1>3 DEF HdMode
<1>6. HdNets => HdNets'
  BY <1>2, <1>3 DEF HdNets
<1>7. HdWired => HdWired'
  BY <1>2, <1>3 DEF HdWired
<1>8. HdOwed'
  BY <1>1, <1>3, <1>4, <1>5, <1>6, <1>7 DEF HdOwed
<1>9. HdShapes' /\ HdSerials' /\ HdLocked'
  BY <1>1, <1>2, <1>3 DEF HdShapes, HdSerials, HdLocked
<1>10. HdHands'
  BY <1>1, <1>2, <1>3 DEF HdHands
<1> QED BY <1>8, <1>9, <1>10 DEF HdInv

\* Its write fails: nothing is owed any more.
LEMMA HdUndoRefused ==
  ASSUME HdInv, NEW u \in undoTasks, UndoRefused(u)
  PROVE  HdInv'
  BY DEF HdInv, UndoRefused, HdShapes, HdOwed, HdSerials, HdLocked, HdHands

\* It writes what was found.
LEMMA HdUndoWrites ==
  ASSUME HdInv, NEW u \in undoTasks, UndoWrites(u)
  PROVE  HdInv'
<1>1. u \in HdUndos /\ HdHands /\ HdShapes /\ HdSerials /\ HdLocked /\ HdOwed
  BY DEF HdInv, HdShapes
<1>2. /\ undoTasks' = undoTasks \ {u}
      /\ stores' = IF u.kind = "wifi" THEN [stores EXCEPT !.mode = u.mode, !.nets = u.read \ u.remove]
                                      ELSE [stores EXCEPT !.wired = u.entry]
      /\ UNCHANGED <<conn, hold, opTasks, openWindow, wifiLocked, claimSent, holdUsed, holdPast>>
  BY DEF UndoWrites
<1>3. /\ u.kind \in {"wifi", "wired"} /\ u.read \subseteq Ssids
      /\ u.kind = "wifi" => u.mode \in {"found", "joined"}
      /\ u.kind # "wifi" => u.entry \in {"found", "set"}
  BY <1>1 DEF HdUndos, HdHands
<1>4. /\ stores' \in [mode : {"found", "joined"}, nets : SUBSET Ssids, wired : {"found", "set"}, claimed : BOOLEAN]
      /\ u.kind = "wifi" => stores'.mode = u.mode /\ stores'.nets = u.read \ u.remove /\ stores'.wired = stores.wired
      /\ u.kind # "wifi" => stores'.mode = stores.mode /\ stores'.nets = stores.nets /\ stores'.wired = u.entry
  BY <1>1, <1>2, <1>3 DEF HdShapes
<1>5. (HdDoomed <=> HdDoomed') /\ (HdMarked <=> HdMarked')
  BY <1>2 DEF HdDoomed, HdMarked
<1>6. ~holdPast'.late => hold = {} /\ hold' = {}
  BY <1>1, <1>2 DEF HdOwed
<1>7. HdMode /\ hold' = {} => HdMode'
  BY <1>2, <1>4 DEF HdMode
<1>8. HdNets /\ hold' = {} => HdNets'
  BY <1>4, <1>2 DEF HdNets
<1>9. HdWired /\ hold' = {} => HdWired'
  BY <1>3, <1>4, <1>2 DEF HdWired
<1>10. HdOwed'
  BY <1>1, <1>2, <1>5, <1>6, <1>7, <1>8, <1>9 DEF HdOwed
<1>11. HdShapes' /\ HdHands' /\ HdSerials' /\ HdLocked'
  BY <1>1, <1>2, <1>4 DEF HdShapes, HdHands, HdSerials, HdLocked
<1> QED BY <1>10, <1>11 DEF HdInv

\* micad restarts: everything in hand is gone, which is late.
LEMMA HdEngineLost ==
  ASSUME HdInv, EngineLost
  PROVE  HdInv'
<1>1. /\ conn' = NoSession /\ hold' = {} /\ wifiLocked' = (conn'.serial # 0 \/ hold' # {})
      /\ opTasks' = {} /\ undoTasks' = {} /\ claimSent' = FALSE
      /\ holdPast' = [holdPast EXCEPT !.late = TRUE]
      /\ UNCHANGED <<stores, openWindow, holdUsed>>
  BY DEF EngineLost, Settled, NoSession
<1>2. conn'.serial = 0 /\ ~conn'.op /\ conn' \in [serial : Nat, auth : {"none", "password"}, op : BOOLEAN]
  BY <1>1 DEF NoSession
<1>3. /\ holdPast' \in [wifiUp : BOOLEAN, kept : BOOLEAN, late : BOOLEAN]
      /\ holdPast'.late /\ (holdPast'.wifiUp => holdPast'.kept)
  BY <1>1 DEF HdInv, HdShapes, HdOwed
<1>4. HdShapes'
  BY <1>1, <1>2, <1>3 DEF HdInv, HdShapes
<1>5. HdSerials'
  BY <1>1, <1>2 DEF HdInv, HdSerials, HdShapes
<1> QED BY <1>1, <1>2, <1>3, <1>4, <1>5 DEF HdInv, HdOwed, HdHands, HdLocked

\* The step that is left: nothing changes.
LEMMA HdStutters ==
  ASSUME HdInv, UNCHANGED holdVars
  PROVE  HdInv'
<1> USE DEF holdVars
<1>1. HdShapes' /\ HdHands' /\ HdSerials' /\ HdLocked'
  BY DEF HdInv, HdShapes, HdHands, HdSerials, HdLocked
<1>2. (HdDoomed <=> HdDoomed') /\ (HdMarked <=> HdMarked')
  BY DEF HdDoomed, HdMarked
<1>3. (HdMode => HdMode') /\ (HdNets => HdNets') /\ (HdWired => HdWired')
  BY DEF HdMode, HdNets, HdWired
<1> QED BY <1>1, <1>2, <1>3 DEF HdInv, HdOwed

\* The invariant gives what is promised: at most one hold, and what was abandoned is undone.
LEMMA HdSafe ==
  ASSUME HdInv
  PROVE  HoldSafe
<1>1. HdHands /\ HdShapes /\ HdSerials /\ HdLocked /\ HdOwed
  BY DEF HdInv
<1>2. \A S : (\A x, y \in S : x = y) => Cardinality(S) <= 1
  <2> SUFFICES ASSUME NEW S, \A x, y \in S : x = y PROVE Cardinality(S) <= 1
    OBVIOUS
  <2>1. CASE S = {}
    BY <2>1, FS_EmptySet
  <2>2. CASE S # {}
    <3>1. PICK x : x \in S
      BY <2>2
    <3>2. S = {x}
      BY <3>1
    <3> QED BY <3>2, FS_Singleton
  <2> QED BY <2>1, <2>2
<1>3. HoldTypeOK
  BY <1>1, <1>2 DEF HdShapes, HdHolds, HoldTypeOK, HdLocked, HdSerials
<1>4. ASSUME Quiet, ~holdPast.late
      PROVE  /\ ~holdPast.wifiUp => stores.mode = "found"
             /\ ~holdPast.kept => stores.nets = {} /\ stores.wired = "found"
  BY <1>4, <1>1 DEF HdDoomed, HdMarked, Quiet, HdOwed, HdMode, HdNets, HdWired
<1> QED BY <1>3, <1>4 DEF HoldSafe, AbandonedIsUndone

\* Whatever phones, commands, windows, claims and restarts come, in any order: there is one
\* hold and its lock, and what a session abandons is undone (ble_provisioning/engine.rs).
THEOREM HoldIsSafe == HoldSpec => []HoldSafe
<1>1. HoldInit => HdInv
  <2> SUFFICES ASSUME HoldInit PROVE HdInv
    OBVIOUS
  <2>1. /\ stores \in [mode : {"found", "joined"}, nets : SUBSET Ssids, wired : {"found", "set"}, claimed : BOOLEAN]
        /\ stores.mode = "found" /\ stores.nets = {} /\ stores.wired = "found"
    <3>1. PICK c \in BOOLEAN : stores = [mode |-> "found", nets |-> {}, wired |-> "found", claimed |-> c]
      <4>1. [AsFound EXCEPT !.claimed = TRUE] = [mode |-> "found", nets |-> {}, wired |-> "found", claimed |-> TRUE]
        <5>1. \A b, c : [[mode |-> "found", nets |-> {}, wired |-> "found", claimed |-> c] EXCEPT !.claimed = b]
                        = [mode |-> "found", nets |-> {}, wired |-> "found", claimed |-> b]
          OBVIOUS
        <5> QED BY ONLY <5>1, Zenon DEF AsFound
      <4>2. stores = AsFound \/ stores = [AsFound EXCEPT !.claimed = TRUE]
        BY DEF HoldInit
      <4> QED BY <4>1, <4>2 DEF AsFound
    <3> QED BY <3>1
  <2>2. conn \in [serial : Nat, auth : {"none", "password"}, op : BOOLEAN] /\ conn.serial = 0 /\ ~conn.op
    BY DEF HoldInit, NoSession
  <2>3. /\ holdUsed \in [serial : Nat, ops : Nat] /\ holdUsed.serial = 0
        /\ holdPast \in [wifiUp : BOOLEAN, kept : BOOLEAN, late : BOOLEAN] /\ ~holdPast.wifiUp
    BY DEF HoldInit
  <2>4. hold = {} /\ opTasks = {} /\ undoTasks = {} /\ openWindow = TRUE /\ wifiLocked = FALSE /\ claimSent = FALSE
    BY DEF HoldInit
  <2>5. HdShapes
    BY <2>1, <2>2, <2>3, <2>4 DEF HdShapes
  <2>7. HdHands /\ HdSerials
    BY <2>2, <2>3, <2>4 DEF HdHands, HdSerials
  <2>8. HdLocked
    BY <2>2, <2>4 DEF HdLocked
  <2>6. HdOwed
    BY <2>1, <2>3, <2>4 DEF HdOwed, HdMode, HdNets, HdWired
  <2> QED BY <2>5, <2>6, <2>7, <2>8 DEF HdInv
<1>2. HdInv /\ [HoldNext]_holdVars => HdInv'
  <2> SUFFICES ASSUME HdInv, [HoldNext]_holdVars PROVE HdInv'
    OBVIOUS
  <2>1. CASE LinkDrops \/ IdleEnds
    BY <2>1, HdGone DEF LinkDrops, IdleEnds
  <2>2. CASE TaskStep
    BY <2>2, HdTaskSteps, HdJoinWrites, HdNetworkWrites, HdSaved, HdDone, HdUndoReads, HdUndoWrites,
       HdUndoRefused DEF TaskStep
  <2>3. openWindow \in BOOLEAN /\ claimSent \in BOOLEAN /\ wifiLocked = (conn.serial # 0 \/ hold # {})
    BY DEF HdInv, HdShapes, HdLocked
  <2>4. CASE AwayTooLong
    BY <2>3, <2>4, HdHoldEnds DEF AwayTooLong, Settled
  <2>5. CASE WindowChanges
    BY <2>3, <2>5, HdHoldEnds, HdStays DEF WindowChanges, Settled
  <2>6. CASE Claims
    BY <2>3, <2>6, HdStays DEF Claims
  <2> QED BY <2>1, <2>2, <2>4, <2>5, <2>6, HdConnects, HdSetsWifi, HdSetsNetwork, HdFinishSent, HdClaimedOver,
       HdEngineLost, HdStutters DEF HoldNext
<1>3. HdInv => HoldSafe
  BY HdSafe
<1> QED BY <1>1, <1>2, <1>3, PTL DEF HoldSpec

(***************************************************************************)
(* The radio of BLE provisioning.  What is registered follows what is      *)
(* wanted wherever nobody has taken it up again; what is wanted follows    *)
(* the engine; and who holds the lock knows both.                          *)
(***************************************************************************)

\* Where the engine holds the lock on what is wanted, and where it is past noting it.
RdLocked == {"adapter", "unadvertise", "register", "reconcile", "applying", "lookup", "serve", "withdraw"}
RdNoted == {"reconcile", "applying", "lookup", "serve", "withdraw"}

\* The lock, and what each place of the engine and of keep_registered counts on.
RdPlaces ==
  /\ keeperPc # "idle" => enginePc \notin RdLocked /\ wantApp
  /\ wantApp = IF enginePc \in RdNoted THEN target.hold ELSE holding
  /\ enginePc \in {"lookup", "serve"} => target.hold
  /\ enginePc = "withdraw" => ~target.hold
  /\ apply.by = "engine" <=> enginePc = "applying"
  /\ apply.by = "nobody" => apply = Idle

\* Who runs for whom: the hold, and the apply that knows of it.
RdRuns ==
  /\ radioHeld = IF enginePc \in RdNoted \ {"withdraw"} THEN target.hold ELSE holding
  /\ ~asked /\ enginePc # "reconcile" =>
       IF apply # Idle THEN apply.run = ToRun
       ELSE slipUnit \/ ((bluetoothd = "stopped") <=> ~ToRun)

\* The range that is lent and the one to put back.
RdLent ==
  /\ wantRange # {} => holding /\ ~(enginePc \in {"reconcile", "applying"} /\ ~target.hold)
  /\ ~slipRange => \/ wantRange = {} /\ range = found
                   \/ wantRange = {found} /\ range = RdFast
  /\ found \in RdRanges

\* The application: never there unwanted, and there when wanted unless it is on its way.
RdApp ==
  /\ bluetoothd # "up" => ~regApp
  /\ enginePc # "withdraw" /\ ~wantApp /\ ~slipApp => ~regApp
  /\ /\ bluetoothd = "up" /\ wantApp /\ comings = 0 /\ ~slipApp
     /\ keeperPc \notin {"adapter", "serve"} /\ enginePc \notin RdNoted
     => regApp

\* The advertisement, the same way.
RdAdv ==
  /\ bluetoothd # "up" => regAdv = RdNone
  /\ ~slipAdv => wantAdv = advertised
  /\ ~slipAdv /\ enginePc # "register" => regAdv \in {RdNone, wantAdv}
  /\ /\ bluetoothd = "up" /\ comings = 0 /\ ~slipAdv
     /\ keeperPc = "idle" /\ enginePc # "register"
     => regAdv = wantAdv

RdInv == RdTypeOK /\ RdPlaces /\ RdRuns /\ RdLent /\ RdApp /\ RdAdv

\* set_interval arrives, from any range the kernel accepts to another, and wherever it is
\* stopped a range is left.
LEMMA RdIntervalSet ==
  ASSUME NEW r \in Interval, NEW n \in Interval
  PROVE  /\ r.min <= r.max /\ n.min <= n.max => SetInterval(r, n) = n
         /\ SetInterval(r, n) \in Interval
         /\ \A x \in Halfway(r, n) : x \in Interval
  BY DEF Interval, WriteMin, WriteMax, SetInterval, Halfway

\* The engine settles on a target: nothing is done yet.
LEMMA RdSettleKeeps ==
  ASSUME RdInv, NEW adv \in RdNames \cup {RdNone}, NEW held \in BOOLEAN, Settle(adv, held)
  PROVE  RdInv'
<1> USE RadioConstants DEF RdInv, Settle, rdServed, rdWanted, rdRange, rdUnit, rdEngine, rdKeeper, rdSlips
<1>1. RdTypeOK'
  BY DEF RdTypeOK
<1>2. RdPlaces'
  BY DEF RdPlaces, RdTypeOK, RdLocked, RdNoted, Idle
<1>3. RdRuns'
  BY DEF RdRuns, RdPlaces, RdTypeOK, RdNoted, ToRun, Idle
<1>4. RdLent'
  BY DEF RdLent, RdPlaces, RdTypeOK
<1>5. RdApp'
  BY DEF RdApp, RdPlaces, RdTypeOK, RdNoted, RdLocked
<1>6. RdAdv'
  BY DEF RdAdv, RdPlaces, RdTypeOK, RdLocked
<1> QED BY <1>1, <1>2, <1>3, <1>4, <1>5, <1>6

\* The lock is taken from an idle keeper.
LEMMA RdAdvertiseLocksKeeps ==
  ASSUME RdInv, AdvertiseLocks
  PROVE  RdInv'
<1> USE RadioConstants DEF RdInv, AdvertiseLocks, LockFree, rdServed, rdWanted, rdRange, rdUnit, rdEngine, rdKeeper, rdSlips
<1>1. RdTypeOK'
  BY DEF RdTypeOK
<1>2. RdPlaces'
  BY DEF RdPlaces, RdTypeOK, RdLocked, RdNoted, Idle
<1>3. RdRuns'
  BY DEF RdRuns, RdPlaces, RdTypeOK, RdNoted, ToRun, Idle
<1>4. RdLent'
  BY DEF RdLent, RdPlaces, RdTypeOK
<1>5. RdApp'
  BY DEF RdApp, RdPlaces, RdTypeOK, RdNoted, RdLocked
<1>6. RdAdv'
  BY DEF RdAdv, RdPlaces, RdTypeOK, RdLocked
<1> QED BY <1>1, <1>2, <1>3, <1>4, <1>5, <1>6

\* No adapter: what is wanted is not noted, which the slip says.
LEMMA RdAdvertiseNoAdapterKeeps ==
  ASSUME RdInv, AdvertiseNoAdapter
  PROVE  RdInv'
<1> USE RadioConstants DEF RdInv, AdvertiseNoAdapter, Advertised, rdServed, rdWanted, rdRange, rdUnit, rdEngine, rdKeeper, rdSlips
<1>1. RdTypeOK'
  BY DEF RdTypeOK
<1>2. RdPlaces'
  BY DEF RdPlaces, RdTypeOK, RdLocked, RdNoted, Idle
<1>3. RdRuns'
  BY DEF RdRuns, RdPlaces, RdTypeOK, RdNoted, ToRun, Idle
<1>4. RdLent'
  BY DEF RdLent, RdPlaces, RdTypeOK
<1>5. RdApp'
  BY DEF RdApp, RdPlaces, RdTypeOK, RdNoted, RdLocked
<1>6. RdAdv'
  BY DEF RdAdv, RdPlaces, RdTypeOK, RdLocked
<1> QED BY <1>1, <1>2, <1>3, <1>4, <1>5, <1>6

\* The adapter is there.
LEMMA RdAdvertiseAdapterKeeps ==
  ASSUME RdInv, AdvertiseAdapter
  PROVE  RdInv'
<1> USE RadioConstants DEF RdInv, AdvertiseAdapter, rdServed, rdWanted, rdRange, rdUnit, rdEngine, rdKeeper, rdSlips
<1>1. RdTypeOK'
  BY DEF RdTypeOK
<1>2. RdPlaces'
  BY DEF RdPlaces, RdTypeOK, RdLocked, RdNoted, Idle
<1>3. RdRuns'
  BY DEF RdRuns, RdPlaces, RdTypeOK, RdNoted, ToRun, Idle
<1>4. RdLent'
  BY DEF RdLent, RdPlaces, RdTypeOK
<1>5. RdApp'
  BY DEF RdApp, RdPlaces, RdTypeOK, RdNoted, RdLocked
<1>6. RdAdv'
  BY DEF RdAdv, RdPlaces, RdTypeOK, RdLocked
<1> QED BY <1>1, <1>2, <1>3, <1>4, <1>5, <1>6

\* The old advertisement goes.
LEMMA RdUnregisterKeeps ==
  ASSUME RdInv, NEW fails \in BOOLEAN, UnregisterAdvertisement(fails)
  PROVE  RdInv'
<1> USE RadioConstants DEF RdInv, UnregisterAdvertisement, May, rdServed, rdWanted, rdRange, rdUnit, rdEngine, rdKeeper, rdSlips
<1>1. RdTypeOK'
  BY DEF RdTypeOK
<1>2. RdPlaces'
  BY DEF RdPlaces, RdTypeOK, RdLocked, RdNoted, Idle
<1>3. RdRuns'
  BY DEF RdRuns, RdPlaces, RdTypeOK, RdNoted, ToRun, Idle
<1>4. RdLent'
  BY DEF RdLent, RdPlaces, RdTypeOK
<1>5. RdApp'
  BY DEF RdApp, RdPlaces, RdTypeOK, RdNoted, RdLocked
<1>6. RdAdv'
  BY DEF RdAdv, RdPlaces, RdTypeOK, RdLocked
<1> QED BY <1>1, <1>2, <1>3, <1>4, <1>5, <1>6

\* The new one is registered and wanted, or the slip says that it is not.
LEMMA RdAdvertiseEndsKeeps ==
  ASSUME RdInv, NEW fails \in BOOLEAN, AdvertiseEnds(fails)
  PROVE  RdInv'
<1> USE RadioConstants DEF RdInv, AdvertiseEnds, May, Advertised, Registering, rdServed, rdWanted, rdRange, rdUnit, rdEngine, rdKeeper, rdSlips
<1>1. RdTypeOK'
  BY DEF RdTypeOK
<1>2. RdPlaces'
  BY DEF RdPlaces, RdTypeOK, RdLocked, RdNoted, Idle
<1>3. RdRuns'
  BY DEF RdRuns, RdPlaces, RdTypeOK, RdNoted, ToRun, Idle
<1>4. RdLent'
  BY DEF RdLent, RdPlaces, RdTypeOK
<1>5. RdApp'
  BY DEF RdApp, RdPlaces, RdTypeOK, RdNoted, RdLocked
<1>6. RdAdv'
  BY DEF RdAdv, RdPlaces, RdTypeOK, RdLocked
<1> QED BY <1>1, <1>2, <1>3, <1>4, <1>5, <1>6

\* The hold is noted as wanted before anything is done about it.
LEMMA RdHoldLocksKeeps ==
  ASSUME RdInv, HoldLocks
  PROVE  RdInv'
<1> USE RadioConstants DEF RdInv, HoldLocks, LockFree, rdServed, rdWanted, rdRange, rdUnit, rdEngine, rdKeeper, rdSlips
<1>1. RdTypeOK'
  BY DEF RdTypeOK
<1>2. RdPlaces'
  BY DEF RdPlaces, RdTypeOK, RdLocked, RdNoted, Idle
<1>3. RdRuns'
  BY DEF RdRuns, RdPlaces, RdTypeOK, RdNoted, ToRun, Idle
<1>4. RdLent'
  BY DEF RdLent, RdPlaces, RdTypeOK
<1>5. RdApp'
  BY DEF RdApp, RdPlaces, RdTypeOK, RdNoted, RdLocked
<1>6. RdAdv'
  BY DEF RdAdv, RdPlaces, RdTypeOK, RdLocked
<1> QED BY <1>1, <1>2, <1>3, <1>4, <1>5, <1>6

\* bluetoothd is not there: keep_registered will hear of it.
LEMMA RdHoldNoAdapterKeeps ==
  ASSUME RdInv, HoldNoAdapter
  PROVE  RdInv'
<1> USE RadioConstants DEF RdInv, HoldNoAdapter, HoldEnds, rdServed, rdWanted, rdRange, rdUnit, rdEngine, rdKeeper, rdSlips
<1>1. RdTypeOK'
  BY DEF RdTypeOK
<1>2. RdPlaces'
  BY DEF RdPlaces, RdTypeOK, RdLocked, RdNoted, Idle
<1>3. RdRuns'
  BY DEF RdRuns, RdPlaces, RdTypeOK, RdNoted, ToRun, Idle
<1>4. RdLent'
  BY DEF RdLent, RdPlaces, RdTypeOK
<1>5. RdApp'
  BY DEF RdApp, RdPlaces, RdTypeOK, RdNoted, RdLocked
<1>6. RdAdv'
  BY DEF RdAdv, RdPlaces, RdTypeOK, RdLocked
<1> QED BY <1>1, <1>2, <1>3, <1>4, <1>5, <1>6

\* The adapter is there.
LEMMA RdHoldAdapterKeeps ==
  ASSUME RdInv, HoldAdapter
  PROVE  RdInv'
<1> USE RadioConstants DEF RdInv, HoldAdapter, rdServed, rdWanted, rdRange, rdUnit, rdEngine, rdKeeper, rdSlips
<1>1. RdTypeOK'
  BY DEF RdTypeOK
<1>2. RdPlaces'
  BY DEF RdPlaces, RdTypeOK, RdLocked, RdNoted, Idle
<1>3. RdRuns'
  BY DEF RdRuns, RdPlaces, RdTypeOK, RdNoted, ToRun, Idle
<1>4. RdLent'
  BY DEF RdLent, RdPlaces, RdTypeOK
<1>5. RdApp'
  BY DEF RdApp, RdPlaces, RdTypeOK, RdNoted, RdLocked
<1>6. RdAdv'
  BY DEF RdAdv, RdPlaces, RdTypeOK, RdLocked
<1> QED BY <1>1, <1>2, <1>3, <1>4, <1>5, <1>6

\* The application is registered and the fast interval lent, over the range found.
LEMMA RdHoldServesKeeps ==
  ASSUME RdInv, NEW fails \in BOOLEAN, NEW stays \in BOOLEAN, HoldServes(fails, stays)
  PROVE  RdInv'
<1> USE RadioConstants DEF RdInv, HoldServes, May, HoldEnds, Serving, rdServed, rdWanted, rdRange, rdUnit, rdEngine, rdKeeper, rdSlips
<1>a. range \in Interval /\ RdFast \in Interval
  BY DEF RdTypeOK
<1>b. range' \in Interval /\ wantRange' \subseteq Interval
  <2>1. wantRange \subseteq Interval
    BY DEF RdTypeOK
  <2>2. \/ UNCHANGED <<wantRange, range>>
        \/ range' \in Halfway(range, RdFast) /\ UNCHANGED wantRange
        \/ range' = SetInterval(range, RdFast) /\ wantRange' = {range}
    BY Zenon
  <2> QED BY ONLY <1>a, <2>1, <2>2, RdIntervalSet
<1>e. slipRange' \in BOOLEAN
  BY DEF RdTypeOK
<1>c. regApp' \in BOOLEAN /\ slipApp' \in BOOLEAN /\ holding' \in BOOLEAN
  BY DEF RdTypeOK
<1>d. rdUsed' \in [turns : Nat, events : Nat]
  BY DEF RdTypeOK
<1>1. RdTypeOK'
  BY <1>b, <1>c, <1>d, <1>e DEF RdTypeOK
<1>2. RdPlaces'
  BY DEF RdPlaces, RdTypeOK, RdLocked, RdNoted, Idle
<1>3. RdRuns'
  BY DEF RdRuns, RdPlaces, RdTypeOK, RdNoted, ToRun, Idle
<1>4. RdLent'
  BY <1>a, RdIntervalSet DEF RdPlaces, RdLent
<1>5. RdApp'
  BY DEF RdApp, RdPlaces, RdTypeOK, RdNoted, RdLocked
<1>6. RdAdv'
  BY DEF RdAdv, RdPlaces, RdTypeOK, RdLocked
<1> QED BY <1>1, <1>2, <1>3, <1>4, <1>5, <1>6

\* The application goes, and the range found is put back from wherever it is.
LEMMA RdHoldWithdrawsKeeps ==
  ASSUME RdInv, NEW fails \in BOOLEAN, NEW stays \in BOOLEAN, HoldWithdraws(fails, stays)
  PROVE  RdInv'
<1> USE RadioConstants DEF RdInv, HoldWithdraws, May, rdServed, rdWanted, rdRange, rdUnit, rdEngine, rdKeeper, rdSlips
<1>a. range \in Interval /\ wantRange \subseteq Interval /\ slipRange \in BOOLEAN
  BY DEF RdTypeOK
<1>b. range' \in Interval
  <2>1. \/ range' = range
        \/ \E before \in wantRange : range' \in Halfway(range, before) \/ range' = SetInterval(range, before)
    BY Zenon
  <2> QED BY ONLY <1>a, <2>1, RdIntervalSet
<1>e. slipRange' \in BOOLEAN
  BY <1>a
<1>c. regApp' \in BOOLEAN /\ slipApp' \in BOOLEAN
  BY DEF RdTypeOK
<1>d. rdUsed' \in [turns : Nat, events : Nat]
  BY DEF RdTypeOK
<1>1. RdTypeOK'
  BY <1>b, <1>c, <1>d, <1>e DEF RdTypeOK
<1>2. RdPlaces'
  BY DEF RdPlaces, RdTypeOK, RdLocked, RdNoted, Idle
<1>3. RdRuns'
  BY DEF RdRuns, RdPlaces, RdTypeOK, RdNoted, ToRun, Idle
<1>4. RdLent'
  BY <1>a, RdIntervalSet DEF RdLent
<1>5. RdApp'
  BY DEF RdApp, RdPlaces, RdTypeOK, RdNoted, RdLocked
<1>6. RdAdv'
  BY DEF RdAdv, RdPlaces, RdTypeOK, RdLocked
<1> QED BY <1>1, <1>2, <1>3, <1>4, <1>5, <1>6

\* An apply knows of every hold and setting that does not wait for another.
LEMMA RdApplyBeginsKeeps ==
  ASSUME RdInv, NEW by \in {"engine", "worker"}, ApplyBegins(by)
  PROVE  RdInv'
<1> USE RadioConstants DEF RdInv, ApplyBegins, Idle, ToRun, rdServed, rdWanted, rdRange, rdUnit, rdEngine, rdKeeper, rdSlips
<1>1. RdTypeOK'
  BY DEF RdTypeOK
<1>2. RdPlaces'
  BY DEF RdPlaces, RdTypeOK, RdLocked, RdNoted, Idle
<1>3. RdRuns'
  BY DEF RdRuns, RdPlaces, RdTypeOK, RdNoted, ToRun, Idle
<1>4. RdLent'
  BY DEF RdLent, RdPlaces, RdTypeOK
<1>5. RdApp'
  BY DEF RdApp, RdPlaces, RdTypeOK, RdNoted, RdLocked
<1>6. RdAdv'
  BY DEF RdAdv, RdPlaces, RdTypeOK, RdLocked
<1> QED BY <1>1, <1>2, <1>3, <1>4, <1>5, <1>6

\* It ends: bluetoothd runs as it knew, or the slip says that it failed.
LEMMA RdApplyEndsKeeps ==
  ASSUME RdInv, NEW fails \in BOOLEAN, ApplyEnds(fails)
  PROVE  RdInv'
<1> USE RadioConstants DEF RdInv, ApplyEnds, May, Reconciled, Idle, ToRun, rdServed, rdWanted, rdRange, rdUnit, rdEngine, rdKeeper, rdSlips
<1>a. /\ regApp' \in BOOLEAN /\ regAdv' \in RdNames \cup {RdNone} /\ bluetoothd' \in {"up", "down", "stopped"}
      /\ rdUsed' \in [turns : Nat, events : Nat]
  BY DEF RdTypeOK
<1>b. comings' \in Nat
  BY DEF RdTypeOK
<1>d. slipUnit' \in BOOLEAN
  BY Zenon
<1>e. holding' \in BOOLEAN
  BY DEF RdTypeOK
<1>c. /\ apply' \in [by : {"nobody", "engine", "worker"}, run : BOOLEAN]
      /\ enginePc' \in {"idle", "lookup", enginePc}
  BY DEF RdTypeOK
<1>1. RdTypeOK'
  BY <1>a, <1>b, <1>c, <1>d, <1>e DEF RdTypeOK
<1>2. RdPlaces'
  BY DEF RdPlaces, RdTypeOK, RdLocked, RdNoted, Idle
<1>3. RdRuns'
  BY DEF RdRuns, RdPlaces, RdTypeOK, RdNoted, ToRun, Idle
<1>4. RdLent'
  BY DEF RdLent, RdPlaces, RdTypeOK
<1>5. RdApp'
  BY DEF RdApp, RdPlaces, RdTypeOK, RdNoted, RdLocked
<1>6. RdAdv'
  BY DEF RdAdv, RdPlaces, RdTypeOK, RdLocked
<1> QED BY <1>1, <1>2, <1>3, <1>4, <1>5, <1>6

\* The setting changes, and an apply of it waits.
LEMMA RdSwitchKeeps ==
  ASSUME RdInv, SwitchBluetooth
  PROVE  RdInv'
<1> USE RadioConstants DEF RdInv, SwitchBluetooth, rdServed, rdWanted, rdRange, rdUnit, rdEngine, rdKeeper, rdSlips
<1>1. RdTypeOK'
  BY DEF RdTypeOK
<1>2. RdPlaces'
  BY DEF RdPlaces, RdTypeOK, RdLocked, RdNoted, Idle
<1>3. RdRuns'
  BY DEF RdRuns, RdPlaces, RdTypeOK, RdNoted, ToRun, Idle
<1>4. RdLent'
  BY DEF RdLent, RdPlaces, RdTypeOK
<1>5. RdApp'
  BY DEF RdApp, RdPlaces, RdTypeOK, RdNoted, RdLocked
<1>6. RdAdv'
  BY DEF RdAdv, RdPlaces, RdTypeOK, RdLocked
<1> QED BY <1>1, <1>2, <1>3, <1>4, <1>5, <1>6

\* bluetoothd forgets what was registered with it.
LEMMA RdDiesKeeps ==
  ASSUME RdInv, Dies
  PROVE  RdInv'
<1> USE RadioConstants DEF RdInv, Dies, rdServed, rdWanted, rdRange, rdUnit, rdEngine, rdKeeper, rdSlips
<1>b. regApp' \in BOOLEAN
  BY Zenon
<1>a. rdUsed' \in [turns : Nat, events : Nat]
  BY DEF RdTypeOK
<1>1. RdTypeOK'
  BY <1>a, <1>b DEF RdTypeOK
<1>2. RdPlaces'
  BY DEF RdPlaces, RdTypeOK, RdLocked, RdNoted, Idle
<1>3. RdRuns'
  BY DEF RdRuns, RdPlaces, RdTypeOK, RdNoted, ToRun, Idle
<1>4. RdLent'
  BY DEF RdLent, RdPlaces, RdTypeOK
<1>5. RdApp'
  BY DEF RdApp, RdPlaces, RdTypeOK, RdNoted, RdLocked
<1>6. RdAdv'
  BY DEF RdAdv, RdPlaces, RdTypeOK, RdLocked
<1> QED BY <1>1, <1>2, <1>3, <1>4, <1>5, <1>6

\* It comes back, and a signal tells so.
LEMMA RdReturnsKeeps ==
  ASSUME RdInv, Returns
  PROVE  RdInv'
<1> USE RadioConstants DEF RdInv, Returns, rdServed, rdWanted, rdRange, rdUnit, rdEngine, rdKeeper, rdSlips
<1>1. RdTypeOK'
  BY DEF RdTypeOK
<1>2. RdPlaces'
  BY DEF RdPlaces, RdTypeOK, RdLocked, RdNoted, Idle
<1>3. RdRuns'
  BY DEF RdRuns, RdPlaces, RdTypeOK, RdNoted, ToRun, Idle
<1>4. RdLent'
  BY DEF RdLent, RdPlaces, RdTypeOK
<1>5. RdApp'
  BY DEF RdApp, RdPlaces, RdTypeOK, RdNoted, RdLocked
<1>6. RdAdv'
  BY DEF RdAdv, RdPlaces, RdTypeOK, RdLocked
<1> QED BY <1>1, <1>2, <1>3, <1>4, <1>5, <1>6

\* keep_registered takes the signal and the lock.
LEMMA RdKeeperHearsKeeps ==
  ASSUME RdInv, KeeperHears
  PROVE  RdInv'
<1> USE RadioConstants DEF RdInv, KeeperHears, LockFree, rdServed, rdWanted, rdRange, rdUnit, rdEngine, rdKeeper, rdSlips
<1>1. RdTypeOK'
  BY DEF RdTypeOK
<1>2. RdPlaces'
  BY DEF RdPlaces, RdTypeOK, RdLocked, RdNoted, Idle
<1>3. RdRuns'
  BY DEF RdRuns, RdPlaces, RdTypeOK, RdNoted, ToRun, Idle
<1>4. RdLent'
  BY DEF RdLent, RdPlaces, RdTypeOK
<1>5. RdApp'
  BY DEF RdApp, RdPlaces, RdTypeOK, RdNoted, RdLocked
<1>6. RdAdv'
  BY DEF RdAdv, RdPlaces, RdTypeOK, RdLocked
<1> QED BY <1>1, <1>2, <1>3, <1>4, <1>5, <1>6

\* It looks for the adapter.
LEMMA RdKeeperLooksKeeps ==
  ASSUME RdInv, KeeperLooks
  PROVE  RdInv'
<1> USE RadioConstants DEF RdInv, KeeperLooks, rdServed, rdWanted, rdRange, rdUnit, rdEngine, rdKeeper, rdSlips
<1>1. RdTypeOK'
  BY DEF RdTypeOK
<1>2. RdPlaces'
  BY DEF RdPlaces, RdTypeOK, RdLocked, RdNoted, Idle
<1>3. RdRuns'
  BY DEF RdRuns, RdPlaces, RdTypeOK, RdNoted, ToRun, Idle
<1>4. RdLent'
  BY DEF RdLent, RdPlaces, RdTypeOK
<1>5. RdApp'
  BY DEF RdApp, RdPlaces, RdTypeOK, RdNoted, RdLocked
<1>6. RdAdv'
  BY DEF RdAdv, RdPlaces, RdTypeOK, RdLocked
<1> QED BY <1>1, <1>2, <1>3, <1>4, <1>5, <1>6

\* It registers the application again.
LEMMA RdKeeperServesKeeps ==
  ASSUME RdInv, NEW fails \in BOOLEAN, KeeperServes(fails)
  PROVE  RdInv'
<1> USE RadioConstants DEF RdInv, KeeperServes, May, Serving, rdServed, rdWanted, rdRange, rdUnit, rdEngine, rdKeeper, rdSlips
<1>1. RdTypeOK'
  BY DEF RdTypeOK
<1>2. RdPlaces'
  BY DEF RdPlaces, RdTypeOK, RdLocked, RdNoted, Idle
<1>3. RdRuns'
  BY DEF RdRuns, RdPlaces, RdTypeOK, RdNoted, ToRun, Idle
<1>4. RdLent'
  BY DEF RdLent, RdPlaces, RdTypeOK
<1>5. RdApp'
  BY DEF RdApp, RdPlaces, RdTypeOK, RdNoted, RdLocked
<1>6. RdAdv'
  BY DEF RdAdv, RdPlaces, RdTypeOK, RdLocked
<1> QED BY <1>1, <1>2, <1>3, <1>4, <1>5, <1>6

\* And the advertisement.
LEMMA RdKeeperAdvertisesKeeps ==
  ASSUME RdInv, NEW fails \in BOOLEAN, KeeperAdvertises(fails)
  PROVE  RdInv'
<1> USE RadioConstants DEF RdInv, KeeperAdvertises, May, Registering, rdServed, rdWanted, rdRange, rdUnit, rdEngine, rdKeeper, rdSlips
<1>1. RdTypeOK'
  BY DEF RdTypeOK
<1>2. RdPlaces'
  BY DEF RdPlaces, RdTypeOK, RdLocked, RdNoted, Idle
<1>3. RdRuns'
  BY DEF RdRuns, RdPlaces, RdTypeOK, RdNoted, ToRun, Idle
<1>4. RdLent'
  BY DEF RdLent, RdPlaces, RdTypeOK
<1>5. RdApp'
  BY DEF RdApp, RdPlaces, RdTypeOK, RdNoted, RdLocked
<1>6. RdAdv'
  BY DEF RdAdv, RdPlaces, RdTypeOK, RdLocked
<1> QED BY <1>1, <1>2, <1>3, <1>4, <1>5, <1>6

\* Every range, name, setting and order of the engine, keep_registered, the reconciler and
\* bluetoothd's deaths and returns (ble_provisioning/bluez.rs): what provisioning lends
\* bluetoothd is served while it is wanted and is taken back.
THEOREM RadioIsSafe == RdSpec => []RadioSafe
<1>1. RdInit => RdInv
  <2> SUFFICES ASSUME RdInit PROVE RdInv
    OBVIOUS
  <2> USE RadioConstants DEF RdInit, Idle
  <2>1. RdTypeOK
    BY DEF RdTypeOK
  <2>2. RdPlaces /\ RdApp /\ RdAdv
    BY DEF RdPlaces, RdApp, RdAdv, RdNoted, RdLocked
  <2>3. RdRuns /\ RdLent
    BY DEF RdRuns, RdLent, RdNoted, ToRun
  <2> QED BY <2>1, <2>2, <2>3 DEF RdInv
<1>2. RdInv /\ [RdNext]_rdVars => RdInv'
  <2> SUFFICES ASSUME RdInv, [RdNext]_rdVars PROVE RdInv'
    OBVIOUS
  <2>1. CASE UNCHANGED rdVars
    BY <2>1 DEF RdInv, rdVars, rdServed, rdWanted, rdRange, rdUnit, rdEngine, rdKeeper, rdSlips,
       RdTypeOK, RdPlaces, RdRuns, RdLent, RdApp, RdAdv, ToRun
  <2>2. CASE EngineStep
    BY <2>2, RdAdvertiseLocksKeeps, RdAdvertiseNoAdapterKeeps, RdAdvertiseAdapterKeeps, RdUnregisterKeeps,
       RdAdvertiseEndsKeeps, RdHoldLocksKeeps, RdHoldNoAdapterKeeps, RdHoldAdapterKeeps, RdHoldServesKeeps,
       RdHoldWithdrawsKeeps DEF EngineStep
  <2>3. CASE KeeperStep
    BY <2>3, RdKeeperHearsKeeps, RdKeeperLooksKeeps, RdKeeperServesKeeps, RdKeeperAdvertisesKeeps DEF KeeperStep
  <2> QED BY <2>1, <2>2, <2>3, RdSettleKeeps, RdApplyBeginsKeeps, RdApplyEndsKeeps, RdSwitchKeeps, RdDiesKeeps,
       RdReturnsKeeps DEF RdNext
<1>3. RdInv => RadioSafe
  BY DEF RdInv, RdPlaces, RdApp, RdAdv, RdTypeOK, RegisteredAsWanted, RadioRests, RdNoted, RdRuns,
     AdapterReturned, ToRun, RdLent, IntervalReturned, RadioSafe
<1> QED BY <1>1, <1>2, <1>3, PTL DEF RdSpec

\* Both sides of provisioning together, as the run checks them: the settings a session changed
\* and the radio it was lent (ble_provisioning/engine.rs, ble_provisioning/bluez.rs).
THEOREM ProvisioningGivesBack == HoldSpec /\ RdSpec => []ProvisioningSafe
BY HoldIsSafe, RadioIsSafe, PTL DEF ProvisioningSafe

(***************************************************************************)
(* The apply queue, for any number of calls, settings, dot-paths and app   *)
(* flows and any bound of the task table.  QueueInv is about the table:    *)
(* its ids are in order and without repetition, every active record has    *)
(* one owner (a pending job, the worker, the app flow), and it outgrows    *)
(* its bound by app flows only.  LiveInv is about the settings: a stored   *)
(* value was tried, or came back with a rollback, or somebody still has it *)
(* to apply.                                                               *)
(***************************************************************************)

(***************************************************************************)
(* Sequences without repetition, and what an eviction leaves.              *)
(***************************************************************************)

\* A set of numbers has a least one: what the CHOOSE of the oldest record and of the
\* first overlapping job picks.
LEMMA LeastExists ==
  ASSUME NEW S \in SUBSET Nat, S # {}
  PROVE  \E m \in S : \A n \in S : m <= n
<1> DEFINE Less == {ss \in Nat \X Nat : ss[1] < ss[2]}
<1>1. IsWellFoundedOn(Less, Nat)
  BY NatLessThanWellFounded, Zenon DEF OpToRel
<1> HIDE DEF Less
<1>2. PICK m \in S : \A n \in S : ~ (<<n, m>> \in Less)
  BY <1>1, WFMin
<1>3. \A n \in S : ~ (n < m)
  BY <1>2 DEF Less
<1> QED BY <1>3

\* A sequence without repetition has as many elements as it is long.
LEMMA CountedByLength ==
  ASSUME NEW s \in Seq(Nat), IsInjective(s)
  PROVE  Cardinality(ToSet(s)) = Len(s)
<1>1. s \in [1..Len(s) -> ToSet(s)]
  BY DEF ToSet
<1>2. s \in Bijection(1..Len(s), ToSet(s))
  BY <1>1 DEF Bijection, Injection, Surjection, IsInjective, ToSet
<1> QED BY <1>2, FS_CountingElements DEF ExistsBijection

\* What RemoveAt leaves.
LEMMA RemoveAtElements ==
  ASSUME NEW s \in Seq(Nat), NEW k \in 1..Len(s)
  PROVE  /\ RemoveAt(s, k) \in Seq(Nat)
         /\ Len(RemoveAt(s, k)) = Len(s) - 1
         /\ \A i \in 1..Len(s) - 1 : RemoveAt(s, k)[i] = IF i < k THEN s[i] ELSE s[i + 1]
<1> DEFINE a == SubSeq(s, 1, k - 1)
           b == SubSeq(s, k + 1, Len(s))
<1>1. /\ a \in Seq(Nat) /\ Len(a) = k - 1
      /\ \A i \in 1..k - 1 : a[i] = s[i]
  OBVIOUS
<1>2. /\ b \in Seq(Nat) /\ Len(b) = Len(s) - k
      /\ \A i \in 1..Len(s) - k : b[i] = s[k + i]
  OBVIOUS
<1>3. RemoveAt(s, k) = a \o b
  BY DEF RemoveAt
<1> HIDE DEF a, b
<1> DEFINE c == RemoveAt(s, k)
<1>4. /\ c \in Seq(Nat) /\ Len(c) = Len(a) + Len(b)
      /\ \A i \in 1..Len(a) + Len(b) : c[i] = IF i <= Len(a) THEN a[i] ELSE b[i - Len(a)]
  <2>1. c = a \o b
    BY <1>3
  <2> HIDE DEF c
  <2>2. /\ a \o b \in Seq(Nat) /\ Len(a \o b) = Len(a) + Len(b)
        /\ \A i \in 1..Len(a) + Len(b) : (a \o b)[i] = IF i <= Len(a) THEN a[i] ELSE b[i - Len(a)]
    BY <1>1, <1>2, ConcatProperties
  <2> QED BY <2>1, <2>2, Zenon
<1> HIDE DEF c
<1>5. ASSUME NEW i \in 1..Len(s) - 1
      PROVE  c[i] = IF i < k THEN s[i] ELSE s[i + 1]
  <2>0. i \in 1..Len(a) + Len(b) /\ k - 1 = Len(a)
    BY <1>1, <1>2
  <2>0a. c[i] = IF i <= k - 1 THEN a[i] ELSE b[i - (k - 1)]
    BY <1>4, <2>0
  <2>1. CASE i < k
    BY <2>1, <1>1, <2>0, <2>0a
  <2>2. CASE i >= k
    <3>1. i - (k - 1) \in 1..Len(s) - k
      BY <2>2
    <3>2. b[i - (k - 1)] = s[k + (i - (k - 1))]
      BY <3>1, <1>2
    <3>3. k + (i - (k - 1)) = i + 1
      OBVIOUS
    <3>4. c[i] = b[i - (k - 1)]
      BY <2>2, <2>0, <2>0a
    <3> QED BY <3>2, <3>3, <3>4, <2>2
  <2> QED BY <2>1, <2>2
<1>6. Len(c) = Len(s) - 1
  BY <1>1, <1>2, <1>4
<1>7. c \in Seq(Nat) /\ Len(c) = Len(s) - 1 /\ \A i \in 1..Len(s) - 1 : c[i] = IF i < k THEN s[i] ELSE s[i + 1]
  BY ONLY <1>4, <1>5, <1>6, Zenon
<1> QED BY ONLY <1>7, Zenon DEF c

\* Without repetitions, all but the one that is removed stay.
LEMMA RemoveAtKeepsOthers ==
  ASSUME NEW s \in Seq(Nat), NEW k \in 1..Len(s), IsInjective(s),
         NEW e \in {RemoveAt(s, k)}
  PROVE  /\ e \in Seq(Nat) /\ IsInjective(e) /\ Len(e) = Len(s) - 1
         /\ \A i \in 1..Len(e) : \E j \in 1..Len(s) : e[i] = s[j]
         /\ \A j \in 1..Len(s) : j # k => \E i \in 1..Len(e) : e[i] = s[j]
<1>1. /\ e \in Seq(Nat) /\ Len(e) = Len(s) - 1
      /\ \A i \in 1..Len(s) - 1 : e[i] = IF i < k THEN s[i] ELSE s[i + 1]
  BY RemoveAtElements
<1>2. ASSUME NEW i \in 1..Len(e)
      PROVE  /\ i < k => i \in 1..Len(s) /\ e[i] = s[i]
             /\ i >= k => i + 1 \in 1..Len(s) /\ e[i] = s[i + 1]
  <2>1. i \in 1..Len(s) - 1
    BY <1>1
  <2>2. e[i] = IF i < k THEN s[i] ELSE s[i + 1]
    BY <2>1, <1>1
  <2> QED BY <2>1, <2>2
<1>3. \A i, j \in 1..Len(s) : s[i] = s[j] => i = j
  BY DEF IsInjective
<1>4. IsInjective(e)
  <2> SUFFICES ASSUME NEW i \in 1..Len(e), NEW j \in 1..Len(e), e[i] = e[j]
               PROVE  i = j
    BY <1>1, LenProperties DEF IsInjective
  <2>1. i < k /\ j < k => i = j
    BY <1>2, <1>3
  <2>2. i < k /\ j >= k => FALSE
    BY <1>2, <1>3
  <2>3. i >= k /\ j < k => FALSE
    BY <1>2, <1>3
  <2>4. i >= k /\ j >= k => i + 1 = j + 1
    BY <1>2, <1>3
  <2> QED BY <2>1, <2>2, <2>3, <2>4
<1>5. \A i \in 1..Len(e) : \E j \in 1..Len(s) : e[i] = s[j]
  BY <1>2
<1>6. ASSUME NEW j \in 1..Len(s), j # k
      PROVE  \E i \in 1..Len(e) : e[i] = s[j]
  <2>1. CASE j < k
    BY <2>1, <1>1, <1>2
  <2>2. CASE j > k
    <3>1. j - 1 \in 1..Len(e)
      BY <2>2, <1>1
    <3>2. j - 1 >= k /\ (j - 1) + 1 = j
      BY <2>2
    <3> QED BY <3>1, <3>2, <1>2
  <2> QED BY <2>1, <2>2, <1>6
<1> QED BY <1>1, <1>4, <1>5, <1>6

\* What stays of the table: all that is not finished, and one less at the bound
\* when something is.
LEMMA EvictedKeepsActive ==
  ASSUME order \in Seq(Nat), IsInjective(order), MaxTasks \in Nat
  PROVE  /\ Evicted \in Seq(Nat) /\ IsInjective(Evicted)
         /\ \A i \in 1..Len(Evicted) : \E j \in 1..Len(order) : Evicted[i] = order[j]
         /\ \A j \in 1..Len(order) :
              ~Terminal(order[j]) => \E i \in 1..Len(Evicted) : Evicted[i] = order[j]
         /\ Len(Evicted) <= Len(order)
         /\ Cardinality(DOMAIN records) >= MaxTasks /\ (\E j \in 1..Len(order) : Terminal(order[j]))
              => Len(Evicted) = Len(order) - 1
<1> DEFINE finished == {i \in 1..Len(order) : Terminal(order[i])}
           oldest == CHOOSE i \in finished : \A j \in finished : i <= j
           bound == Cardinality(DOMAIN records) >= MaxTasks
           e == Evicted
<1>1. CASE bound /\ finished # {}
  <2>1. e = RemoveAt(order, oldest)
    BY <1>1 DEF Evicted
  <2>2. oldest \in finished
    <3>1. finished \in SUBSET Nat /\ finished # {}
      BY <1>1
    <3> HIDE DEF finished
    <3>2. \E m \in finished : \A n \in finished : m <= n
      BY <3>1, LeastExists
    <3> QED BY <3>2
  <2>3. oldest \in 1..Len(order) /\ Terminal(order[oldest])
    BY <2>2
  <2> HIDE DEF oldest, finished, e, bound
  <2>4. PICK k, s, r : k = oldest /\ s = order /\ r = e
    OBVIOUS
  <2>4a. /\ r \in Seq(Nat) /\ IsInjective(r) /\ Len(r) = Len(s) - 1
         /\ \A i \in 1..Len(r) : \E j \in 1..Len(s) : r[i] = s[j]
         /\ \A j \in 1..Len(s) : j # k => \E i \in 1..Len(r) : r[i] = s[j]
    BY <2>1, <2>3, <2>4, RemoveAtKeepsOthers
  <2>5. /\ e \in Seq(Nat) /\ IsInjective(e) /\ Len(e) = Len(order) - 1
        /\ \A i \in 1..Len(e) : \E j \in 1..Len(order) : e[i] = order[j]
        /\ \A j \in 1..Len(order) : j # k => \E i \in 1..Len(e) : e[i] = order[j]
    BY <2>4, <2>4a
  <2>6. \A j \in 1..Len(order) : ~Terminal(order[j]) => \E i \in 1..Len(e) : e[i] = order[j]
    BY <2>3, <2>4, <2>5
  <2>7. Len(e) <= Len(order)
    BY <2>5
  <2> USE DEF e
  <2> QED BY <2>5, <2>6, <2>7
<1>2. CASE ~(bound /\ finished # {})
  <2>1. Evicted = order
    BY <1>2 DEF Evicted
  <2>2. bound => ~ \E j \in 1..Len(order) : Terminal(order[j])
    BY <1>2
  <2>3. Len(order) <= Len(order)
    OBVIOUS
  <2> HIDE DEF bound, finished
  <2> USE DEF bound
  <2> QED BY <2>1, <2>2, <2>3
<1> QED BY <1>1, <1>2

(***************************************************************************)
(* The table and its owners.                                               *)
(***************************************************************************)

\* Network maps, settings trees, and where the worker has a job.
Maps == [Network -> Calls \cup {None}]
Trees == [Keys -> Calls \cup {None}]
Busy == {"start", "remember", "clone", "apply", "restore", "finish"}

\* The shapes of everything but the queue.
Shapes ==
  /\ settings \in Trees /\ tried \in Trees
  /\ files \in Maps /\ applied \in Maps \cup {None}
  /\ undone \in BOOLEAN /\ unsaved \in BOOLEAN /\ permit \in BOOLEAN
  /\ calls \in [Calls -> [at : {"start", "persisted", "failed", "wake", "done"}, path : SUBSET Keys]]
  /\ worker \in [at : Busy \cup {"none", "next", "waiting"}, id : Nat, path : SUBSET Keys,
                 attempted : Maps \cup {None}, applied : Maps \cup {None}, tree : Trees \cup {None}]
  /\ app \in [at : {"idle", "opened", "running"}, id : Nat, flows : Nat]
  /\ \A c \in Calls : calls[c].at = "persisted" => calls[c].path \in Paths
  /\ worker.id # 0 <=> worker.at \in Busy
  /\ app.id # 0 <=> app.at # "idle"
  /\ app.at # "idle" => app.flows >= 1

\* The shape of the queue: the table is in the order of its ids, without repetition.
Table ==
  /\ nextId \in Nat
  /\ order \in Seq(Nat) /\ IsInjective(order)
  /\ \A i \in 1..Len(order) : order[i] \in 1..nextId
  /\ records \in [ToSet(order) -> [path : SUBSET Keys, status : Statuses]]
  /\ pending \in Seq([id : Nat, path : SUBSET Keys])

\* Every record still active has one owner, and every owner its record.
Owners ==
  /\ \A i \in 1..Len(pending) :
       /\ pending[i].id \in ToSet(order)
       /\ records[pending[i].id] = [path |-> pending[i].path, status |-> "queued"]
  /\ \A i, j \in 1..Len(pending) : pending[i].id = pending[j].id => i = j
  /\ \A id \in {worker.id, app.id} \ {0} :
       /\ id \in ToSet(order) /\ records[id].status # "finished"
       /\ \A i \in 1..Len(pending) : pending[i].id # id
  /\ worker.id = app.id => worker.id = 0
  /\ \A id \in ToSet(order) :
       \/ records[id].status = "finished" \/ id \in {worker.id, app.id}
       \/ \E i \in 1..Len(pending) : pending[i].id = id

\* The table has grown past its bound by app flows only.
Room == Len(order) <= MaxTasks + app.flows

QueueInv == Shapes /\ Table /\ Owners /\ Room

\* The table has as many records as ids in its order.
LEMMA TableCounted ==
  ASSUME Table
  PROVE  DOMAIN records = ToSet(order) /\ Cardinality(DOMAIN records) = Len(order)
  BY CountedByLength DEF Table

\* A new record: a fresh id, and what was active stays as it was.
LEMMA RecordEffect ==
  ASSUME Table, QueueAssumption, NEW path \in SUBSET Keys, Record(path)
  PROVE  /\ nextId' = nextId + 1
         /\ order' \in Seq(Nat) /\ IsInjective(order')
         /\ \A i \in 1..Len(order') : order'[i] \in 1..nextId'
         /\ records' \in [ToSet(order') -> [path : SUBSET Keys, status : Statuses]]
         /\ nextId' \in ToSet(order') /\ nextId' \notin ToSet(order)
         /\ records'[nextId'] = [path |-> path, status |-> "queued"]
         /\ \A id \in ToSet(order) :
              records[id].status # "finished" => id \in ToSet(order') /\ records'[id] = records[id]
         /\ \A id \in ToSet(order') : id = nextId' \/ (id \in ToSet(order) /\ records'[id] = records[id])
         /\ Len(order') <= Len(order) + 1
         /\ Len(order) >= MaxTasks /\ (\E id \in ToSet(order) : records[id].status = "finished")
              => Len(order') = Len(order)
<1>0. Cardinality(DOMAIN records) = Len(order)
  BY TableCounted
<1>1. PICK e :
         /\ e = Evicted
         /\ e \in Seq(Nat) /\ IsInjective(e)
         /\ \A i \in 1..Len(e) : \E j \in 1..Len(order) : e[i] = order[j]
         /\ \A j \in 1..Len(order) :
              ~Terminal(order[j]) => \E i \in 1..Len(e) : e[i] = order[j]
         /\ Len(e) <= Len(order)
         /\ Cardinality(DOMAIN records) >= MaxTasks /\ (\E j \in 1..Len(order) : Terminal(order[j]))
              => Len(e) = Len(order) - 1
  BY EvictedKeepsActive DEF Table, QueueAssumption
<1>2. /\ e \in Seq(Nat) /\ IsInjective(e)
      /\ \A i \in 1..Len(e) : \E j \in 1..Len(order) : e[i] = order[j]
      /\ \A j \in 1..Len(order) :
           records[order[j]].status # "finished" => \E i \in 1..Len(e) : e[i] = order[j]
      /\ Len(e) <= Len(order)
      /\ Len(order) >= MaxTasks /\ (\E j \in 1..Len(order) : records[order[j]].status = "finished")
           => Len(e) = Len(order) - 1
  BY <1>0, <1>1, Zenon DEF Terminal
<1>3. PICK o, n : o = order' /\ n = nextId'
  OBVIOUS
<1>4. o = Append(e, n) /\ n = nextId + 1 /\ n \in Nat
  BY <1>1, <1>3 DEF Record, Table
<1>5. /\ o \in Seq(Nat) /\ Len(o) = Len(e) + 1
      /\ \A i \in 1..Len(e) : o[i] = e[i]
      /\ o[Len(e) + 1] = n
  BY <1>2, <1>4, AppendProperties
<1>6. \A i \in 1..Len(e) : e[i] \in 1..nextId
  BY <1>2 DEF Table
<1>7. IsInjective(o)
  <2>1. DOMAIN o = 1..Len(e) + 1 /\ DOMAIN e = 1..Len(e) /\ Len(e) \in Nat
    BY <1>2, <1>5
  <2>2. \A i, j \in 1..Len(e) : e[i] = e[j] => i = j
    <3> SUFFICES ASSUME NEW i \in 1..Len(e), NEW j \in 1..Len(e), e[i] = e[j]
                 PROVE  i = j
      OBVIOUS
    <3>1. i \in DOMAIN e /\ j \in DOMAIN e
      BY <2>1
    <3> QED BY <1>2, <3>1 DEF IsInjective
  <2>3. \A i \in 1..Len(e) : e[i] # n
    BY <1>4, <1>6 DEF Table
  <2> SUFFICES ASSUME NEW i \in 1..Len(e) + 1, NEW j \in 1..Len(e) + 1, o[i] = o[j]
               PROVE  i = j
    BY <2>1, Zenon DEF IsInjective
  <2> QED BY <1>5, <2>1, <2>2, <2>3
<1>8. \A i \in 1..Len(o) : o[i] \in 1..n
  BY <1>4, <1>5, <1>6 DEF Table
<1>9. ToSet(o) = {e[i] : i \in 1..Len(e)} \cup {n}
  <2>1. ToSet(o) = {o[i] : i \in 1..Len(e) + 1}
    BY <1>5 DEF ToSet
  <2>2. Len(e) \in Nat
    BY <1>2
  <2>3. \A i \in 1..Len(e) + 1 : i \in 1..Len(e) \/ i = Len(e) + 1
    BY <2>2
  <2>4. \A i \in 1..Len(e) : i \in 1..Len(e) + 1
    BY <2>2
  <2>5. Len(e) + 1 \in 1..Len(e) + 1
    BY <2>2
  <2>6. \A x : x \in ToSet(o) => x \in {e[i] : i \in 1..Len(e)} \cup {n}
    BY <1>5, <2>1, <2>3
  <2>7. \A x : x \in {e[i] : i \in 1..Len(e)} \cup {n} => x \in ToSet(o)
    BY <1>5, <2>1, <2>4, <2>5
  <2> QED BY <2>6, <2>7
<1>10. ToSet(order) = {order[j] : j \in 1..Len(order)}
  BY DEF ToSet, Table
<1>11. n \in ToSet(o) /\ n \notin ToSet(order)
  BY <1>4, <1>9, <1>10 DEF Table
<1>12. \A id \in ToSet(o) : id = n \/ id \in ToSet(order)
  BY <1>2, <1>9, <1>10
<1>13. \A id \in ToSet(order) : records[id].status # "finished" => id \in ToSet(o)
  BY <1>2, <1>9, <1>10
<1>14. records' = [id \in ToSet(o) |->
          IF id = n THEN [path |-> path, status |-> "queued"] ELSE records[id]]
  BY <1>3 DEF Record
<1>15. records' \in [ToSet(o) -> [path : SUBSET Keys, status : Statuses]]
  BY <1>12, <1>14 DEF Table, Statuses
<1>16. Len(o) <= Len(order) + 1
  BY <1>2, <1>5 DEF Table
<1>17. Len(order) >= MaxTasks /\ (\E id \in ToSet(order) : records[id].status = "finished")
         => Len(o) = Len(order)
  BY <1>2, <1>5, <1>10 DEF Table
<1>18. /\ records'[n] = [path |-> path, status |-> "queued"]
       /\ \A id \in ToSet(order) :
            records[id].status # "finished" => id \in ToSet(o) /\ records'[id] = records[id]
  BY <1>11, <1>13, <1>14
<1>19. \A id \in ToSet(o) : id = n \/ (id \in ToSet(order) /\ records'[id] = records[id])
  BY <1>12, <1>14
<1>20. n = nextId + 1 /\ o \in Seq(Nat)
  BY <1>4, <1>5
<1> QED BY <1>3, <1>7, <1>8, <1>11, <1>15, <1>16, <1>17, <1>18, <1>19, <1>20, Zenon

\* The jobs of the queue.
LEMMA JobShape ==
  ASSUME Table, NEW i \in 1..Len(pending)
  PROVE  /\ pending[i] \in [id : Nat, path : SUBSET Keys]
         /\ pending[i].id \in Nat /\ pending[i].path \in SUBSET Keys
<1>1. PICK q, J : q = pending /\ J = [id : Nat, path : SUBSET Keys]
  OBVIOUS
<1>2. q \in Seq(J) /\ i \in 1..Len(q)
  BY <1>1 DEF Table
<1>3. q[i] \in J
  BY <1>2, ElementOfSeq
<1>4. pending[i] \in [id : Nat, path : SUBSET Keys]
  BY <1>1, <1>3
<1> QED BY <1>4

\* Each way an enqueue goes: some job takes the path in, or a job and its record are added,
\* which happens over a full table of active records only with nothing pending.
LEMMA EnqueueEffect ==
  ASSUME Table, QueueAssumption, NEW path \in Paths, Enqueue(path)
  PROVE  \/ \E i \in 1..Len(pending), p \in SUBSET Keys :
              pending[i].path \subseteq p /\ path \subseteq p /\ Widen(i, p)
         \/ /\ Record(path)
            /\ pending' = Append(pending, [id |-> nextId', path |-> path])
            /\ \/ Len(order) < MaxTasks
               \/ \E id \in ToSet(order) : records[id].status = "finished"
               \/ Len(pending) = 0
<1>1. path \in SUBSET Keys
  BY DEF QueueAssumption
<1>2. CASE Overlapping(path) # {}
  <2> DEFINE first == CHOOSE i \in Overlapping(path) : \A j \in Overlapping(path) : i <= j
  <2>1. Widen(first, pending[first].path \cup path)
    BY <1>2 DEF Enqueue
  <2>2. first \in Overlapping(path)
    <3>1. Overlapping(path) \in SUBSET Nat
      BY DEF Overlapping
    <3>2. PICK S : S = Overlapping(path)
      OBVIOUS
    <3>3. \E m \in S : \A n \in S : m <= n
      BY <1>2, <3>1, <3>2, LeastExists
    <3> QED BY <3>2, <3>3
  <2>3. first \in 1..Len(pending)
    BY <2>2 DEF Overlapping
  <2> HIDE DEF first
  <2>4. pending[first].path \subseteq Keys
    BY <2>3, JobShape
  <2>5. PICK p : p = pending[first].path \cup path
    OBVIOUS
  <2>6. p \in SUBSET Keys /\ pending[first].path \subseteq p /\ path \subseteq p /\ Widen(first, p)
    BY <1>1, <2>1, <2>4, <2>5
  <2> QED BY <2>3, <2>6
<1> DEFINE full == Cardinality(DOMAIN records) >= MaxTasks
           active == \A id \in DOMAIN records : ~Terminal(id)
<1>3. CASE Overlapping(path) = {} /\ full /\ active /\ pending # << >>
  <2>1. Widen(1, Keys)
    BY <1>3 DEF Enqueue
  <2>2. 1 \in 1..Len(pending)
    BY <1>3 DEF Table
  <2>3. pending[1].path \subseteq Keys
    BY <2>2, JobShape
  <2> QED BY <1>1, <2>1, <2>2, <2>3
<1>4. CASE Overlapping(path) = {} /\ ~(full /\ active /\ pending # << >>)
  BY <1>4, TableCounted DEF Enqueue, Table, QueueAssumption, Terminal
<1> QED BY <1>2, <1>3, <1>4

\* A job that takes more in, with its record.
LEMMA WidenKeeps ==
  ASSUME QueueInv, NEW i \in 1..Len(pending), NEW p \in SUBSET Keys, Widen(i, p),
         worker'.id = worker.id, app' = app
  PROVE  /\ Table' /\ Owners' /\ Room'
         /\ Len(pending') = Len(pending) /\ pending'[i].path = p
         /\ \A j \in 1..Len(pending) : j # i => pending'[j] = pending[j]
<1> USE DEF QueueInv
<1>1. PICK x : x = pending[i].id
  OBVIOUS
<1>2. /\ pending' = [pending EXCEPT ![i] = [id |-> x, path |-> p]]
      /\ records' = [records EXCEPT ![x] = [path |-> p, status |-> "queued"]]
      /\ order' = order /\ nextId' = nextId
      /\ x \in ToSet(order)
  <2>1. x \in ToSet(order) /\ records[x] = [path |-> pending[i].path, status |-> "queued"]
    BY <1>1 DEF Owners
  <2>2. pending[i] \in [id : Nat, path : SUBSET Keys]
    BY JobShape
  <2>3. [pending[i] EXCEPT !.path = p] = [id |-> x, path |-> p]
    BY <1>1, <2>2
  <2>4. [records[x] EXCEPT !.path = p] = [path |-> p, status |-> "queued"]
    BY <2>1
  <2>5. /\ pending' = [pending EXCEPT ![i] = [pending[i] EXCEPT !.path = p]]
        /\ records' = [records EXCEPT ![x] = [records[x] EXCEPT !.path = p]]
        /\ order' = order /\ nextId' = nextId
    BY <1>1 DEF Widen, Table
  <2> QED BY <2>1, <2>3, <2>4, <2>5
<1>3. x \in Nat /\ records[x] = [path |-> pending[i].path, status |-> "queued"]
  BY <1>1, JobShape DEF Owners
<1>4. /\ pending' \in Seq([id : Nat, path : SUBSET Keys]) /\ Len(pending') = Len(pending)
      /\ pending'[i] = [id |-> x, path |-> p]
      /\ \A j \in 1..Len(pending) : j # i => pending'[j] = pending[j]
  BY <1>3, <1>2, ExceptSeq DEF Table
<1>5. \A j \in 1..Len(pending) : pending'[j].id = pending[j].id
  BY <1>1, <1>4
<1>6. /\ records' \in [ToSet(order) -> [path : SUBSET Keys, status : Statuses]]
      /\ records'[x] = [path |-> p, status |-> "queued"]
      /\ \A id \in ToSet(order) : id # x => records'[id] = records[id]
      /\ \A id \in ToSet(order) : records'[id].status = records[id].status
  BY <1>3, <1>2 DEF Table, Statuses
<1>7. Table'
  BY <1>2, <1>4, <1>6 DEF Table
<1>8. Owners'
  <2>1. ASSUME NEW j \in 1..Len(pending')
        PROVE  /\ pending'[j].id \in ToSet(order')
               /\ records'[pending'[j].id] = [path |-> pending'[j].path, status |-> "queued"]
    BY <1>2, <1>4, <1>6, <1>1, <2>1 DEF Owners
  <2>2. \A j, k \in 1..Len(pending') : pending'[j].id = pending'[k].id => j = k
    BY <1>4, <1>5 DEF Owners
  <2>3. \A id \in {worker'.id, app'.id} \ {0} :
          /\ id \in ToSet(order') /\ records'[id].status # "finished"
          /\ \A j \in 1..Len(pending') : pending'[j].id # id
    <3> SUFFICES ASSUME NEW id \in {worker'.id, app'.id} \ {0}
                 PROVE  /\ id \in ToSet(order') /\ records'[id].status # "finished"
                        /\ \A j \in 1..Len(pending') : pending'[j].id # id
      OBVIOUS
    <3>1. /\ id \in ToSet(order) /\ records[id].status # "finished"
          /\ \A j \in 1..Len(pending) : pending[j].id # id
      BY DEF Owners
    <3>2. id \in ToSet(order') /\ records'[id].status # "finished"
      BY <3>1, <1>2, <1>6
    <3>3. \A j \in 1..Len(pending') : pending'[j].id # id
      BY <3>1, <1>4, <1>5
    <3> QED BY <3>2, <3>3
  <2>4. worker'.id = app'.id => worker'.id = 0
    BY DEF Owners
  <2>5. \A id \in ToSet(order') :
          \/ records'[id].status = "finished" \/ id \in {worker'.id, app'.id}
          \/ \E j \in 1..Len(pending') : pending'[j].id = id
    BY <1>2, <1>4, <1>5, <1>6 DEF Owners
  <2> QED BY <2>1, <2>2, <2>3, <2>4, <2>5 DEF Owners
<1>9. Room'
  BY <1>2 DEF Room
<1> QED BY <1>4, <1>7, <1>8, <1>9

\* The table has room for one record more, or one of its records goes, or there are at most
\* the worker's and the flow's.
LEMMA RecordHasRoom ==
  ASSUME QueueInv, QueueAssumption, NEW path \in SUBSET Keys, Record(path),
         \/ Len(order) < MaxTasks
         \/ \E id \in ToSet(order) : records[id].status = "finished"
         \/ Len(pending) = 0
  PROVE  Len(order') <= MaxTasks + app.flows
<1> USE DEF QueueInv
<1>1. /\ order' \in Seq(Nat) /\ Len(order') <= Len(order) + 1
      /\ Len(order) >= MaxTasks /\ (\E id \in ToSet(order) : records[id].status = "finished")
           => Len(order') = Len(order)
  BY RecordEffect
<1>2. /\ Len(order) \in Nat /\ Len(order') \in Nat /\ MaxTasks \in Nat /\ MaxTasks >= 2
      /\ app.flows \in Nat /\ Len(order) <= MaxTasks + app.flows
  BY <1>1 DEF Table, Shapes, QueueAssumption, Room
<1>3. CASE Len(order) < MaxTasks
  BY <1>1, <1>2, <1>3
<1>4. CASE Len(order) >= MaxTasks /\ \E id \in ToSet(order) : records[id].status = "finished"
  BY <1>1, <1>2, <1>4
<1>5. CASE Len(order) >= MaxTasks /\ Len(pending) = 0 /\ ~ \E id \in ToSet(order) : records[id].status = "finished"
  <2>1. PICK s, w, a : s = order /\ w = worker.id /\ a = app.id
    OBVIOUS
  <2>2. \A i \in 1..Len(s) : s[i] \in {w, a} /\ s[i] # 0
    <3>1. \A i \in 1..Len(order) : order[i] \in ToSet(order) /\ order[i] # 0
      BY DEF Table, ToSet
    <3>2. \A id \in ToSet(order) : id \in {w, a}
      BY <1>5, <2>1 DEF Owners
    <3> QED BY <2>1, <3>1, <3>2
  <2>3. s \in Seq(Nat) /\ \A i, j \in 1..Len(s) : s[i] = s[j] => i = j
    BY <2>1 DEF Table, IsInjective
  <2>4. Len(s) >= 2 /\ Len(s) \in Nat
    BY <1>2, <1>5, <2>1
  <2>5. s[1] # s[2] /\ s[1] \in {w, a} /\ s[2] \in {w, a} /\ s[1] # 0 /\ s[2] # 0
    BY <2>2, <2>3, <2>4
  <2>6. a # 0
    BY <2>5
  <2>7. app.flows >= 1
    BY <2>1, <2>6 DEF Shapes
  <2>8. Len(s) = 2
    <3>a. PICK n \in Nat : n = Len(s) /\ n >= 2
      BY <2>4
    <3> SUFFICES ASSUME n >= 3 PROVE FALSE
      BY <3>a
    <3>0. 1 \in 1..Len(s) /\ 2 \in 1..Len(s) /\ 3 \in 1..Len(s)
      BY <3>a
    <3>1. s[3] # s[1] /\ s[3] # s[2] /\ s[3] \in {w, a}
      BY <2>2, <2>3, <3>0
    <3> QED BY <2>5, <3>1
  <2> QED BY <1>1, <1>2, <2>1, <2>7, <2>8
<1> QED BY <1>2, <1>3, <1>4, <1>5

\* A new job, with its record.
LEMMA JobKeeps ==
  ASSUME QueueInv, QueueAssumption, NEW path \in SUBSET Keys, Record(path),
         pending' = Append(pending, [id |-> nextId', path |-> path]),
         \/ Len(order) < MaxTasks
         \/ \E id \in ToSet(order) : records[id].status = "finished"
         \/ Len(pending) = 0,
         worker'.id = worker.id, app' = app
  PROVE  /\ Table' /\ Owners' /\ Room'
         /\ Len(pending') = Len(pending) + 1 /\ pending'[Len(pending) + 1].path = path
         /\ \A i \in 1..Len(pending) : pending'[i] = pending[i]
<1> USE DEF QueueInv
<1>1. PICK x : x = nextId'
  OBVIOUS
<1>2. /\ x \in Nat /\ x # 0
      /\ order' \in Seq(Nat) /\ IsInjective(order')
      /\ \A i \in 1..Len(order') : order'[i] \in 1..x
      /\ records' \in [ToSet(order') -> [path : SUBSET Keys, status : Statuses]]
      /\ x \in ToSet(order') /\ x \notin ToSet(order)
      /\ records'[x] = [path |-> path, status |-> "queued"]
      /\ \A id \in ToSet(order) :
           records[id].status # "finished" => id \in ToSet(order') /\ records'[id] = records[id]
      /\ \A id \in ToSet(order') : id = x \/ (id \in ToSet(order) /\ records'[id] = records[id])
  <2>1. nextId' = nextId + 1 /\ nextId \in Nat
    BY DEF Record, Table
  <2>2. x \in Nat /\ x # 0
    BY <1>1, <2>1
  <2> QED BY <1>1, <2>2, RecordEffect
<1>3. /\ pending' \in Seq([id : Nat, path : SUBSET Keys]) /\ Len(pending') = Len(pending) + 1
      /\ pending'[Len(pending) + 1] = [id |-> x, path |-> path]
      /\ \A i \in 1..Len(pending) : pending'[i] = pending[i]
      /\ Len(pending) \in Nat
  <2>1. PICK q, J, y : q = pending /\ J = [id : Nat, path : SUBSET Keys] /\ y = [id |-> x, path |-> path]
    OBVIOUS
  <2>2. q \in Seq(J) /\ y \in J /\ pending' = Append(q, y)
    BY <1>1, <1>2, <2>1 DEF Table
  <2>3. /\ pending' \in Seq(J) /\ Len(pending') = Len(q) + 1 /\ Len(q) \in Nat
        /\ pending'[Len(q) + 1] = y
        /\ \A i \in 1..Len(q) : pending'[i] = q[i]
    <3>1. PICK r : r = pending'
      OBVIOUS
    <3>2. r = Append(q, y) /\ q \in Seq(J) /\ y \in J
      BY <2>2, <3>1
    <3>3. /\ r \in Seq(J) /\ Len(r) = Len(q) + 1
          /\ r[Len(q) + 1] = y
          /\ \A i \in 1..Len(q) : r[i] = q[i]
      BY <3>2, AppendProperties
    <3>4. Len(q) \in Nat
      BY <3>2, LenProperties
    <3> QED BY <3>1, <3>3, <3>4
  <2> QED BY <2>1, <2>3
<1>4. Table'
  BY <1>1, <1>2, <1>3 DEF Table
<1>5. \A i \in 1..Len(pending) :
        /\ pending[i].id \in ToSet(order) /\ pending[i].id # x
        /\ records[pending[i].id] = [path |-> pending[i].path, status |-> "queued"]
        /\ pending[i].id \in ToSet(order')
        /\ records'[pending[i].id] = [path |-> pending[i].path, status |-> "queued"]
  <2> SUFFICES ASSUME NEW i \in 1..Len(pending)
               PROVE  /\ pending[i].id \in ToSet(order) /\ pending[i].id # x
                      /\ records[pending[i].id] = [path |-> pending[i].path, status |-> "queued"]
                      /\ pending[i].id \in ToSet(order')
                      /\ records'[pending[i].id] = [path |-> pending[i].path, status |-> "queued"]
    OBVIOUS
  <2>1. /\ pending[i].id \in ToSet(order)
        /\ records[pending[i].id] = [path |-> pending[i].path, status |-> "queued"]
    BY DEF Owners
  <2>2. records[pending[i].id].status # "finished"
    BY <2>1
  <2> QED BY <1>2, <2>1, <2>2
<1>6. Owners'
  <2>1. ASSUME NEW i \in 1..Len(pending')
        PROVE  /\ pending'[i].id \in ToSet(order')
               /\ records'[pending'[i].id] = [path |-> pending'[i].path, status |-> "queued"]
    <3>1. i \in 1..Len(pending) \/ i = Len(pending) + 1
      BY <1>3, <2>1
    <3> QED BY <1>2, <1>3, <1>5, <3>1
  <2>2. ASSUME NEW i \in 1..Len(pending'), NEW j \in 1..Len(pending'), pending'[i].id = pending'[j].id
        PROVE  i = j
    <3>1. i \in 1..Len(pending) \/ i = Len(pending) + 1
      BY <1>3, <2>2
    <3>2. j \in 1..Len(pending) \/ j = Len(pending) + 1
      BY <1>3, <2>2
    <3>3. CASE i \in 1..Len(pending) /\ j \in 1..Len(pending)
      BY <1>3, <2>2, <3>3 DEF Owners
    <3>4. CASE i \in 1..Len(pending) /\ j = Len(pending) + 1
      <4>1. pending[i].id = x
        BY <1>3, <2>2, <3>4
      <4> QED BY <1>5, <3>4, <4>1
    <3>5. CASE i = Len(pending) + 1 /\ j \in 1..Len(pending)
      <4>1. pending[j].id = x
        BY <1>3, <2>2, <3>5
      <4> QED BY <1>5, <3>5, <4>1
    <3> QED BY <3>1, <3>2, <3>3, <3>4, <3>5
  <2>3. ASSUME NEW id \in {worker'.id, app'.id} \ {0}
        PROVE  /\ id \in ToSet(order') /\ records'[id].status # "finished"
               /\ \A i \in 1..Len(pending') : pending'[i].id # id
    <3>1. /\ id \in ToSet(order) /\ records[id].status # "finished"
          /\ \A i \in 1..Len(pending) : pending[i].id # id
      BY DEF Owners
    <3>2. id # x
      BY <1>2, <3>1
    <3>3. \A i \in 1..Len(pending') : i \in 1..Len(pending) \/ i = Len(pending) + 1
      BY <1>3
    <3>4. \A i \in 1..Len(pending') : pending'[i].id # id
      BY <1>3, <3>1, <3>2, <3>3
    <3>5. id \in ToSet(order') /\ records'[id] = records[id]
      BY <1>2, <3>1
    <3> QED BY <3>1, <3>4, <3>5
  <2>4. worker'.id = app'.id => worker'.id = 0
    BY DEF Owners
  <2>5. ASSUME NEW id \in ToSet(order')
        PROVE  \/ records'[id].status = "finished" \/ id \in {worker'.id, app'.id}
               \/ \E i \in 1..Len(pending') : pending'[i].id = id
    <3>1. CASE id = x
      BY <1>3, <3>1
    <3>2. CASE id # x
      <4>1. id \in ToSet(order) /\ records'[id] = records[id]
        BY <1>2, <3>2
      <4>2. \A i \in 1..Len(pending) : i \in 1..Len(pending')
        BY <1>3
      <4> QED BY <1>3, <4>1, <4>2 DEF Owners
    <3> QED BY <3>1, <3>2
  <2> QED BY <2>1, <2>2, <2>3, <2>4, <2>5 DEF Owners
<1>7. Room'
  BY RecordHasRoom DEF Room
<1> QED BY <1>3, <1>4, <1>6, <1>7

\* A pending job has the setting in its path.
Queued(k) == \E i \in 1..Len(pending) : k \in pending[i].path

\* Enqueueing a call's path: what was queued stays queued, and so is the path.
LEMMA EnqueueKeeps ==
  ASSUME QueueInv, QueueAssumption, NEW path \in Paths, Enqueue(path),
         worker'.id = worker.id, app' = app
  PROVE  /\ Table' /\ Owners' /\ Room'
         /\ \A k \in Keys : Queued(k) \/ k \in path => Queued(k)'
         /\ nextId' = nextId => Len(pending) # 0
         /\ Len(pending') # 0
<1>1. path \in SUBSET Keys /\ Table
  BY DEF QueueAssumption, QueueInv
<1>2. CASE \E i \in 1..Len(pending), p \in SUBSET Keys :
              pending[i].path \subseteq p /\ path \subseteq p /\ Widen(i, p)
  BY <1>2, WidenKeeps DEF Queued
<1>3. CASE /\ Record(path)
           /\ pending' = Append(pending, [id |-> nextId', path |-> path])
           /\ \/ Len(order) < MaxTasks
              \/ \E id \in ToSet(order) : records[id].status = "finished"
              \/ Len(pending) = 0
  <2>1. /\ Table' /\ Owners' /\ Room'
        /\ Len(pending') = Len(pending) + 1 /\ pending'[Len(pending) + 1].path = path
        /\ \A i \in 1..Len(pending) : pending'[i] = pending[i]
    BY <1>1, <1>3, JobKeeps
  <2>2. Len(pending) \in Nat
    BY <1>1, LenProperties DEF Table
  <2>3. ASSUME NEW k \in Keys, Queued(k) \/ k \in path
        PROVE  Queued(k)'
    BY <2>1, <2>2, <2>3 DEF Queued
  <2>4. nextId' # nextId
    BY <1>1, <1>3 DEF Record, Table
  <2> QED BY <2>1, <2>2, <2>3, <2>4
<1> QED BY <1>1, <1>2, <1>3, EnqueueEffect

\* Nothing about the table: the owners are the same.
LEMMA FrameKeeps ==
  ASSUME QueueInv, UNCHANGED queue, worker'.id = worker.id, app'.id = app.id, app'.flows = app.flows
  PROVE  Table' /\ Owners' /\ Room'
  BY DEF queue, QueueInv, Table, Owners, Room

\* A status is written over, and nothing else of the table.
LEMMA StatusEffect ==
  ASSUME Table, NEW id \in ToSet(order), NEW st \in Statuses, SetStatus(id, st)
  PROVE  /\ Table' /\ pending' = pending /\ order' = order /\ nextId' = nextId
         /\ records'[id].status = st
         /\ \A x \in ToSet(order) : x # id => records'[x] = records[x]
  BY DEF Table, SetStatus

\* A job or a flow starts.
LEMMA StartKeeps ==
  ASSUME QueueInv, NEW id \in {worker.id, app.id} \ {0}, SetStatus(id, "running"),
         worker'.id = worker.id, app'.id = app.id, app'.flows = app.flows
  PROVE  Table' /\ Owners' /\ Room'
<1> USE DEF QueueInv
<1>1. id \in ToSet(order) /\ \A i \in 1..Len(pending) : pending[i].id # id
  BY DEF Owners
<1>2. /\ Table' /\ pending' = pending /\ order' = order /\ nextId' = nextId
      /\ records'[id].status = "running"
      /\ \A x \in ToSet(order) : x # id => records'[x] = records[x]
  BY <1>1, StatusEffect DEF Statuses
<1>3. Owners'
  BY <1>1, <1>2 DEF Owners
<1> QED BY <1>2, <1>3 DEF Room

\* A job or a flow finishes, and its owner lets go of its record.
LEMMA FinishKeeps ==
  ASSUME QueueInv, NEW id \in {worker.id, app.id} \ {0}, SetStatus(id, "finished"),
         \/ id = worker.id /\ worker'.id = 0 /\ app'.id = app.id
         \/ id = app.id /\ app'.id = 0 /\ worker'.id = worker.id,
         app'.flows = app.flows
  PROVE  Table' /\ Owners' /\ Room'
<1> USE DEF QueueInv
<1>1. id \in ToSet(order) /\ \A i \in 1..Len(pending) : pending[i].id # id
  BY DEF Owners
<1>2. /\ Table' /\ pending' = pending /\ order' = order /\ nextId' = nextId
      /\ records'[id].status = "finished"
      /\ \A x \in ToSet(order) : x # id => records'[x] = records[x]
  BY <1>1, StatusEffect DEF Statuses
<1>3. /\ {worker'.id, app'.id} \ {0} = ({worker.id, app.id} \ {0}) \ {id}
      /\ worker'.id = app'.id => worker'.id = 0
  BY DEF Owners
<1>4. Owners'
  <2>1. \A i \in 1..Len(pending) :
          /\ pending[i].id \in ToSet(order)
          /\ records'[pending[i].id] = [path |-> pending[i].path, status |-> "queued"]
    BY <1>1, <1>2 DEF Owners
  <2>2. \A x \in {worker'.id, app'.id} \ {0} :
          /\ x \in ToSet(order) /\ records'[x].status # "finished"
          /\ \A i \in 1..Len(pending) : pending[i].id # x
    BY <1>2, <1>3 DEF Owners
  <2>3. ASSUME NEW x \in ToSet(order)
        PROVE  \/ records'[x].status = "finished" \/ x \in {worker'.id, app'.id}
               \/ \E i \in 1..Len(pending) : pending[i].id = x
    BY <1>2, <1>3 DEF Table, ToSet, Owners
  <2> QED BY <1>2, <1>3, <2>1, <2>2, <2>3 DEF Owners
<1> QED BY <1>2, <1>4 DEF Room

\* The worker takes the oldest job over.
LEMMA TakeKeeps ==
  ASSUME QueueInv, pending # << >>, worker.id = 0, worker'.id = Head(pending).id,
         pending' = Tail(pending), UNCHANGED <<records, order, nextId, app>>
  PROVE  /\ Table' /\ Owners' /\ Room' /\ worker'.id # 0 /\ worker'.id \in Nat
         /\ Head(pending).path \in SUBSET Keys
         /\ \A k \in Keys : Queued(k) => Queued(k)' \/ k \in Head(pending).path
<1> USE DEF QueueInv
<1>1. PICK q, J, h : q = pending /\ J = [id : Nat, path : SUBSET Keys] /\ h = Head(pending).id
  OBVIOUS
<1>2. q \in Seq(J) /\ q # << >>
  BY <1>1 DEF Table
<1>3. /\ Tail(q) \in Seq(J) /\ Len(Tail(q)) = Len(q) - 1 /\ Head(q) = q[1] /\ Len(q) \in Nat /\ Len(q) >= 1
      /\ \A i \in 1..Len(q) - 1 : Tail(q)[i] = q[i + 1]
  BY <1>2
<1>4. /\ pending' \in Seq(J) /\ Len(pending') = Len(pending) - 1 /\ Head(pending) = pending[1]
      /\ Len(pending) \in Nat /\ 1 \in 1..Len(pending)
      /\ \A i \in 1..Len(pending') : pending'[i] = pending[i + 1] /\ i + 1 \in 1..Len(pending) /\ i + 1 # 1
      /\ \A i \in 1..Len(pending) : i = 1 \/ (i - 1 \in 1..Len(pending') /\ pending'[i - 1] = pending[i])
  BY <1>3, <1>1
<1>5. Table'
  BY <1>1, <1>4 DEF Table
<1>6. pending[1].id = h /\ h \in ToSet(order) /\ h # 0 /\ h \in Nat /\ records[h].status = "queued"
  <2>1. /\ pending[1].id \in ToSet(order)
        /\ records[pending[1].id] = [path |-> pending[1].path, status |-> "queued"]
    BY <1>4 DEF Owners
  <2>2. \A x \in ToSet(order) : x # 0 /\ x \in Nat
    <3> SUFFICES ASSUME NEW x \in ToSet(order)
                 PROVE  x # 0 /\ x \in Nat
      OBVIOUS
    <3>1. order \in Seq(Nat) /\ (\A i \in 1..Len(order) : order[i] \in 1..nextId) /\ nextId \in Nat
      BY DEF Table
    <3>2. PICK i \in DOMAIN order : x = order[i]
      BY DEF ToSet
    <3>3. x \in 1..nextId
      BY <3>1, <3>2
    <3> QED BY <3>1, <3>3
  <2> QED BY <1>1, <1>4, <2>1, <2>2
<1>7. Head(pending).path \in SUBSET Keys
  BY <1>4, JobShape
<1>8. Owners'
  <2>1. \A i \in 1..Len(pending') :
          /\ pending'[i].id \in ToSet(order)
          /\ records[pending'[i].id] = [path |-> pending'[i].path, status |-> "queued"]
    BY <1>4 DEF Owners
  <2>2. ASSUME NEW i \in 1..Len(pending'), NEW j \in 1..Len(pending'), pending'[i].id = pending'[j].id
        PROVE  i = j
    BY <1>4, <2>2 DEF Owners
  <2>3. ASSUME NEW x \in {h, app.id} \ {0}
        PROVE  /\ x \in ToSet(order) /\ records[x].status # "finished"
               /\ \A i \in 1..Len(pending') : pending'[i].id # x
    BY <1>4, <1>6 DEF Owners
  <2>4. h # app.id
    BY <1>4, <1>6 DEF Owners
  <2>5. ASSUME NEW x \in ToSet(order)
        PROVE  \/ records[x].status = "finished" \/ x \in {h, app.id}
               \/ \E i \in 1..Len(pending') : pending'[i].id = x
    <3>1. x # 0
      BY DEF Table, ToSet
    <3>2. CASE \E i \in 1..Len(pending) : pending[i].id = x
      BY <3>2, <1>4, <1>6
    <3> QED BY <3>1, <3>2 DEF Owners
  <2> QED BY <1>1, <2>1, <2>2, <2>3, <2>4, <2>5 DEF Owners
<1>9. ASSUME NEW k \in Keys, Queued(k)
      PROVE  Queued(k)' \/ k \in Head(pending).path
  BY <1>9, <1>4 DEF Queued
<1> QED BY <1>1, <1>5, <1>6, <1>7, <1>8, <1>9 DEF Room

\* An app flow opens, over a full table of active records too.
LEMMA OpenKeeps ==
  ASSUME QueueInv, QueueAssumption, Record({}), UNCHANGED <<pending, worker>>,
         app.id = 0, app'.id = nextId', app'.flows = app.flows + 1
  PROVE  Table' /\ Owners' /\ Room' /\ nextId' # 0 /\ nextId' \in Nat
<1> USE DEF QueueInv
<1>1. PICK x : x = nextId'
  OBVIOUS
<1>2. /\ x \in Nat /\ x # 0
      /\ order' \in Seq(Nat) /\ IsInjective(order')
      /\ \A i \in 1..Len(order') : order'[i] \in 1..x
      /\ records' \in [ToSet(order') -> [path : SUBSET Keys, status : Statuses]]
      /\ x \in ToSet(order') /\ x \notin ToSet(order)
      /\ records'[x] = [path |-> {}, status |-> "queued"]
      /\ \A id \in ToSet(order) :
           records[id].status # "finished" => id \in ToSet(order') /\ records'[id] = records[id]
      /\ \A id \in ToSet(order') : id = x \/ (id \in ToSet(order) /\ records'[id] = records[id])
      /\ Len(order') <= Len(order) + 1
  <2>1. nextId' = nextId + 1 /\ nextId \in Nat
    BY DEF Record, Table
  <2>2. x \in Nat /\ x # 0
    BY <1>1, <2>1
  <2> QED BY <1>1, <2>2, RecordEffect
<1>3. Table'
  BY <1>1, <1>2 DEF Table
<1>4. ASSUME NEW i \in 1..Len(pending)
      PROVE  /\ pending[i].id \in ToSet(order') /\ pending[i].id # x
             /\ records'[pending[i].id] = [path |-> pending[i].path, status |-> "queued"]
  <2>1. /\ pending[i].id \in ToSet(order)
        /\ records[pending[i].id] = [path |-> pending[i].path, status |-> "queued"]
    BY DEF Owners
  <2>2. records[pending[i].id].status # "finished"
    BY <2>1
  <2> QED BY <1>2, <2>1, <2>2
<1>5. Owners'
  <2>1. ASSUME NEW id \in {worker.id, x} \ {0}
        PROVE  /\ id \in ToSet(order') /\ records'[id].status # "finished"
               /\ \A i \in 1..Len(pending) : pending[i].id # id
    <3>1. CASE id = x
      <4>1. records'[x].status # "finished"
        BY <1>2
      <4> QED BY <1>2, <1>4, <3>1, <4>1
    <3>2. CASE id # x
      BY <3>2, <1>2 DEF Owners
    <3> QED BY <3>1, <3>2
  <2>2. worker.id # x
    BY <1>2 DEF Owners
  <2>3. ASSUME NEW id \in ToSet(order')
        PROVE  \/ records'[id].status = "finished" \/ id \in {worker.id, x}
               \/ \E i \in 1..Len(pending) : pending[i].id = id
    <3>1. CASE id # x
      <4>1. id \in ToSet(order) /\ records'[id] = records[id]
        BY <1>2, <3>1
      <4>2. \A y \in ToSet(order) : y # 0
        BY DEF Table, ToSet
      <4>3. \/ records[id].status = "finished" \/ id \in {worker.id, app.id}
            \/ \E i \in 1..Len(pending) : pending[i].id = id
        BY <4>1 DEF Owners
      <4> QED BY <4>1, <4>2, <4>3
    <3> QED BY <3>1
  <2>4. \A i, j \in 1..Len(pending) : pending[i].id = pending[j].id => i = j
    BY DEF Owners
  <2> QED BY <1>1, <1>4, <2>1, <2>2, <2>3, <2>4 DEF Owners
<1>6. Room'
  BY <1>2 DEF Table, Shapes, QueueAssumption, Room
<1> QED BY <1>1, <1>2, <1>3, <1>5, <1>6

(***************************************************************************)
(* The settings: what each stored value still waits for.                   *)
(***************************************************************************)

\* Where the worker is still to try its path, and where it remembers a rollback's maps.
Ahead == {"start", "remember", "clone", "apply"}
Trying == {"clone", "apply", "restore"}

\* The stored value of the setting is still a call's to queue.
Unsent(k) == \E c \in Calls : calls[c].at = "persisted" /\ k \in calls[c].path /\ settings[k] = c

\* An apply of the stored value will come, or its call failed before it was queued.
Covered(k) == Unsent(k) \/ Queued(k) \/ Unqueued(k)

\* The stored value is the one a rollback came back to.
Rolled(k) == applied # None /\ k \in Network /\ settings[k] = applied[k]

\* No stored value is left without an apply to come.
Handled ==
  \A k \in Keys :
    \/ tried[k] = settings[k] \/ Rolled(k) \/ Covered(k)
    \/ worker.at \in Ahead /\ k \in worker.path

\* What the worker's copy of the settings misses is covered.
Cloned ==
  worker.at = "apply" =>
    worker.tree \in Trees /\ \A k \in Keys : worker.tree[k] = settings[k] \/ Covered(k)

\* The maps the worker remembers: the one that last came up, and the one it tries, unless
\* a write that landed since is covered.
Remembered ==
  /\ worker.at \in {"clone", "apply"} => worker.applied = applied
  /\ worker.at = "restore" /\ undone /\ worker.path \cap Network # {} => worker.applied = applied
  /\ worker.at \in Trying =>
       /\ worker.attempted \in Maps
       /\ (\A k \in Network : settings[k] = worker.attempted[k]) \/ (\E k \in Network : Covered(k))

\* After a rollback onto the map that last came up, unless its save failed: the stored map is that one, or an
\* apply of the network is to come, or the worker is about to take the map back.
Returned ==
  undone /\ ~unsaved /\ applied = files =>
    \/ \A k \in Network : settings[k] = applied[k]
    \/ \E k \in Network : Covered(k)
    \/ worker.at \in Ahead /\ worker.path \cap Network # {}
    \/ /\ worker.at = "restore" /\ worker.path \cap Network # {}
       /\ \A k \in Network : settings[k] = worker.attempted[k]

\* With jobs queued the worker is there, and if it waits somebody wakes it.
Woken ==
  Len(pending) # 0 =>
    /\ worker.at # "none"
    /\ worker.at = "waiting" => permit \/ \E c \in Calls : calls[c].at = "wake"

\* The value of a call that has not begun is stored nowhere.
Fresh ==
  \A c \in Calls : calls[c].at = "start" =>
    /\ \A k \in Keys : settings[k] # c
    /\ applied \in Maps => \A k \in Network : applied[k] # c
    /\ worker.applied \in Maps => \A k \in Network : worker.applied[k] # c
    /\ worker.attempted \in Maps => \A k \in Network : worker.attempted[k] # c
    /\ worker.at = "apply" => \A k \in Keys : worker.tree[k] # c

\* A network setting the worker has not tried, or does not try, is not what it attempts.
Newest ==
  /\ worker.at = "apply" => \A k \in Network :
       worker.tree[k] = settings[k] \/ settings[k] # worker.attempted[k]
  /\ worker.at = "restore" /\ worker.path \cap Network # {} => \A k \in Network :
       tried[k] = settings[k] \/ settings[k] # worker.attempted[k]

\* Together with QueueInv, the inductive invariant.
LiveInv == Handled /\ Cloned /\ Remembered /\ Returned /\ Woken /\ Fresh /\ Newest

Inv == QueueInv /\ LiveInv

\* Where a call has got to.
LEMMA CallMoves ==
  ASSUME Shapes, NEW c \in Calls, NEW a \in {"persisted", "failed", "wake", "done"}, NEW p \in SUBSET Keys,
         calls' = [calls EXCEPT ![c].at = a, ![c].path = p]
  PROVE  calls' = [calls EXCEPT ![c] = [at |-> a, path |-> p]]
<1>1. calls[c] \in [at : {"start", "persisted", "failed", "wake", "done"}, path : SUBSET Keys]
  BY DEF Shapes
<1>2. [[calls[c] EXCEPT !.at = a] EXCEPT !.path = p] = [at |-> a, path |-> p]
  <2>1. PICK r \in [at : {"start", "persisted", "failed", "wake", "done"}, path : SUBSET Keys] : r = calls[c]
    BY <1>1
  <2>2. [[r EXCEPT !.at = a] EXCEPT !.path = p] = [at |-> a, path |-> p]
    <3>1. [r EXCEPT !.at = a] = [at |-> a, path |-> r.path]
      OBVIOUS
    <3>2. [[at |-> a, path |-> r.path] EXCEPT !.path = p] = [at |-> a, path |-> p]
      OBVIOUS
    <3> QED BY <3>1, <3>2
  <2> QED BY <2>1, <2>2
<1>3. calls' = [calls EXCEPT ![c] = [[calls[c] EXCEPT !.at = a] EXCEPT !.path = p]]
  BY DEF Shapes
<1> QED BY <1>2, <1>3

\* The call persists its write.  (Each of these lemmas also says that the table is kept.)
LEMMA PersistEffect ==
  ASSUME QueueInv, QueueAssumption, NEW c \in Calls, NEW path \in Paths, Persist(c, path)
  PROVE  /\ calls'[c] = [at |-> "persisted", path |-> path]
         /\ \A d \in Calls : d # c => calls'[d] = calls[d]
         /\ QueueInv'
<1> USE DEF QueueInv
<1>1. calls' = [calls EXCEPT ![c] = [at |-> "persisted", path |-> path]]
  BY CallMoves DEF Persist, QueueAssumption
<1>2. /\ calls'[c] = [at |-> "persisted", path |-> path]
      /\ \A d \in Calls : d # c => calls'[d] = calls[d]
      /\ calls' \in [Calls -> [at : {"start", "persisted", "failed", "wake", "done"}, path : SUBSET Keys]]
  BY <1>1 DEF Shapes, QueueAssumption
<1>3. settings' \in Trees
  BY DEF Persist, Trees, Shapes
<1>4. Shapes'
  BY <1>2, <1>3 DEF Persist, network, Shapes
<1>5. Table' /\ Owners' /\ Room'
  BY FrameKeeps DEF Persist
<1> QED BY <1>2, <1>4, <1>5

\* The call fails.
LEMMA EmitFailEffect ==
  ASSUME QueueInv, NEW c \in Calls, EmitFail(c)
  PROVE  /\ calls'[c] = [at |-> "failed", path |-> {}]
         /\ \A d \in Calls : d # c => calls'[d] = calls[d]
         /\ QueueInv'
<1> USE DEF QueueInv
<1>1. calls' = [calls EXCEPT ![c] = [at |-> "failed", path |-> {}]]
  BY CallMoves DEF EmitFail
<1>2. /\ calls'[c] = [at |-> "failed", path |-> {}]
      /\ \A d \in Calls : d # c => calls'[d] = calls[d]
      /\ calls' \in [Calls -> [at : {"start", "persisted", "failed", "wake", "done"}, path : SUBSET Keys]]
  BY <1>1 DEF Shapes
<1>4. Shapes'
  BY <1>2 DEF EmitFail, network, Shapes
<1>5. Table' /\ Owners' /\ Room'
  BY FrameKeeps DEF EmitFail
<1> QED BY <1>2, <1>4, <1>5

\* The call wakes the worker.
LEMMA WakeEffect ==
  ASSUME QueueInv, NEW c \in Calls, Wake(c)
  PROVE  /\ calls'[c].at = "done" /\ calls'[c].path = calls[c].path
         /\ \A d \in Calls : d # c => calls'[d] = calls[d]
         /\ QueueInv'
  BY FrameKeeps DEF QueueInv, Shapes, Wake, network

\* The worker begins its loop, or is where it was.
Begun == worker' = worker \/ (worker.at = "none" /\ worker' = [worker EXCEPT !.at = "next"])

\* Of the worker's fields only `at` may have changed.
LEMMA BegunEffect ==
  ASSUME Shapes, Begun
  PROVE  /\ worker'.id = worker.id /\ worker'.path = worker.path /\ worker'.attempted = worker.attempted
         /\ worker'.applied = worker.applied /\ worker'.tree = worker.tree
         /\ worker'.at = worker.at \/ (worker.at = "none" /\ worker'.at = "next")
         /\ worker' \in [at : Busy \cup {"none", "next", "waiting"}, id : Nat, path : SUBSET Keys,
                         attempted : Maps \cup {None}, applied : Maps \cup {None}, tree : Trees \cup {None}]
BY DEF Shapes, Begun

\* The call enqueues its path, with the worker there.
LEMMA EnqueueApplyEffect ==
  ASSUME QueueInv, QueueAssumption, NEW c \in Calls, EnqueueApply(c)
  PROVE  /\ calls[c].path \in Paths
         /\ calls'[c].at \in {"wake", "done"} /\ calls'[c].path = {}
         /\ nextId' # nextId => calls'[c].at = "wake"
         /\ \A d \in Calls : d # c => calls'[d] = calls[d]
         /\ Begun /\ worker'.at # "none"
         /\ \A k \in Keys : Queued(k) \/ k \in calls[c].path => Queued(k)'
         /\ nextId' = nextId => Len(pending) # 0
         /\ QueueInv'
<1> USE DEF QueueInv
<1>1. PICK a \in {"persisted", "failed", "wake", "done"} : a = IF nextId' # nextId THEN "wake" ELSE "done"
  OBVIOUS
<1>2. calls' = [calls EXCEPT ![c] = [at |-> a, path |-> {}]]
  <2>1. PICK p \in SUBSET Keys : p = {}
    OBVIOUS
  <2>2. calls' = [calls EXCEPT ![c].at = a, ![c].path = p]
    BY <1>1, <2>1 DEF EnqueueApply
  <2>3. calls' = [calls EXCEPT ![c] = [at |-> a, path |-> p]]
    <3>1. PICK r \in [at : {"start", "persisted", "failed", "wake", "done"}, path : SUBSET Keys] : r = calls[c]
      BY DEF Shapes
    <3>2. [r EXCEPT !.at = a] = [at |-> a, path |-> r.path]
      OBVIOUS
    <3>3. [[at |-> a, path |-> r.path] EXCEPT !.path = p] = [at |-> a, path |-> p]
      OBVIOUS
    <3>4. calls' = [calls EXCEPT ![c] = [[calls[c] EXCEPT !.at = a] EXCEPT !.path = p]]
      <4>1. calls \in [Calls -> [at : {"start", "persisted", "failed", "wake", "done"}, path : SUBSET Keys]]
        BY DEF Shapes
      <4> QED BY ONLY c \in Calls, <2>2, <4>1
    <3> QED BY <3>1, <3>2, <3>3, <3>4
  <2> QED BY <2>1, <2>3
<1>3. /\ calls'[c] = [at |-> a, path |-> {}]
      /\ \A d \in Calls : d # c => calls'[d] = calls[d]
      /\ calls' \in [Calls -> [at : {"start", "persisted", "failed", "wake", "done"}, path : SUBSET Keys]]
  BY <1>1, <1>2 DEF Shapes
<1>4. Begun /\ worker'.at # "none"
  BY DEF EnqueueApply, Begun, Shapes
<1>5. /\ worker'.id = worker.id /\ (worker'.at \in Busy <=> worker.at \in Busy)
      /\ worker' \in [at : Busy \cup {"none", "next", "waiting"}, id : Nat, path : SUBSET Keys,
                      attempted : Maps \cup {None}, applied : Maps \cup {None}, tree : Trees \cup {None}]
  BY <1>4, BegunEffect DEF Busy
<1>6. calls[c].path \in Paths /\ Enqueue(calls[c].path) /\ app' = app
  BY DEF EnqueueApply, Shapes
<1>7. PICK path \in Paths : path = calls[c].path
  BY <1>6
<1>8. Enqueue(path)
  BY <1>6, <1>7
<1>9. /\ Table' /\ Owners' /\ Room'
      /\ \A k \in Keys : Queued(k) \/ k \in path => Queued(k)'
      /\ nextId' = nextId => Len(pending) # 0
  BY <1>5, <1>6, <1>8, EnqueueKeeps
<1>10. Shapes'
  BY <1>1, <1>3, <1>5 DEF EnqueueApply, network, Shapes
<1> QED BY <1>1, <1>3, <1>4, <1>6, <1>7, <1>9, <1>10

\* What the worker's own steps do to it and to the queue.
LEMMA WorkerEffect ==
  ASSUME QueueInv
  PROVE  /\ WorkerNext =>
              /\ worker'.at = "start" /\ worker'.path = Head(pending).path
              /\ \A k \in Keys : Queued(k) => Queued(k)' \/ k \in worker'.path
         /\ WorkerWait => worker'.at = "waiting" /\ worker'.path = worker.path
         /\ WorkerWoken => worker'.at = "next" /\ worker'.path = worker.path
         /\ WorkerStart => worker'.at = "remember" /\ worker'.path = worker.path
         /\ WorkerFinish => worker'.at = "next" /\ worker'.path = {}
         /\ WorkerNext \/ WorkerWait \/ WorkerWoken \/ WorkerStart \/ WorkerFinish =>
              /\ QueueInv'
              /\ worker'.attempted = worker.attempted /\ worker'.applied = worker.applied
              /\ worker'.tree = worker.tree
<1> USE DEF QueueInv
<1> DEFINE W == [at : Busy \cup {"none", "next", "waiting"}, id : Nat, path : SUBSET Keys,
                 attempted : Maps \cup {None}, applied : Maps \cup {None}, tree : Trees \cup {None}]
           Kept == worker'.attempted = worker.attempted /\ worker'.applied = worker.applied
                   /\ worker'.tree = worker.tree
<1>1. ASSUME WorkerNext
      PROVE  /\ worker'.at = "start" /\ worker'.path = Head(pending).path
             /\ \A k \in Keys : Queued(k) => Queued(k)' \/ k \in worker'.path
             /\ QueueInv' /\ Kept
  BY <1>1, TakeKeeps DEF WorkerNext, Shapes, Busy, network
<1>2. ASSUME WorkerWait
      PROVE  worker'.at = "waiting" /\ worker'.path = worker.path /\ QueueInv' /\ Kept
  BY <1>2, FrameKeeps DEF WorkerWait, Shapes, network, Busy
<1>3. ASSUME WorkerWoken
      PROVE  worker'.at = "next" /\ worker'.path = worker.path /\ QueueInv' /\ Kept
  BY <1>3, FrameKeeps DEF WorkerWoken, Shapes, network, Busy
<1>4. ASSUME WorkerStart
      PROVE  worker'.at = "remember" /\ worker'.path = worker.path /\ QueueInv' /\ Kept
  BY <1>4, StartKeeps DEF WorkerStart, Shapes, Busy, network
<1>5. ASSUME WorkerFinish
      PROVE  worker'.at = "next" /\ worker'.path = {} /\ QueueInv' /\ Kept
  BY <1>5, FinishKeeps DEF WorkerFinish, Shapes, Busy, network
<1> QED BY <1>1, <1>2, <1>3, <1>4, <1>5

\* What the steps of one apply do.
LEMMA ApplyEffect ==
  ASSUME Inv, QueueAssumption
  PROVE  /\ WorkerRemember =>
              /\ worker'.at = "clone" /\ worker'.applied = applied
              /\ worker'.attempted = NetworkOf(settings) /\ worker'.tree = worker.tree
         /\ WorkerClone =>
              /\ worker'.at = "apply" /\ worker'.tree = settings
              /\ worker'.applied = worker.applied /\ worker'.attempted = worker.attempted
         /\ WorkerApply =>
              /\ worker'.at = "restore" /\ worker'.tree = None
              /\ worker'.applied = worker.applied /\ worker'.attempted = worker.attempted
         /\ WorkerRestore =>
              worker'.at = "finish" /\ worker'.tree = worker.tree
              /\ worker'.applied = None /\ worker'.attempted = None
         /\ WorkerRemember \/ WorkerClone \/ WorkerApply \/ WorkerRestore =>
              QueueInv' /\ worker'.path = worker.path
<1> USE DEF QueueInv, Inv
<1> DEFINE W == [at : Busy \cup {"none", "next", "waiting"}, id : Nat, path : SUBSET Keys,
                 attempted : Maps \cup {None}, applied : Maps \cup {None}, tree : Trees \cup {None}]
<1>0. \A t \in Trees : NetworkOf(t) \in Maps
  BY DEF NetworkOf, Maps, Trees, QueueAssumption
<1>1. ASSUME WorkerRemember
      PROVE  /\ worker'.at = "clone" /\ worker'.applied = applied
             /\ worker'.attempted = NetworkOf(settings) /\ worker'.tree = worker.tree
             /\ QueueInv' /\ worker'.path = worker.path
  BY <1>0, <1>1, FrameKeeps DEF WorkerRemember, Shapes, Busy, network
<1>2. ASSUME WorkerClone
      PROVE  /\ worker'.at = "apply" /\ worker'.tree = settings
             /\ worker'.applied = worker.applied /\ worker'.attempted = worker.attempted
             /\ QueueInv' /\ worker'.path = worker.path
  BY <1>2, FrameKeeps DEF WorkerClone, Shapes, Busy, network
<1>3. ASSUME WorkerApply
      PROVE  /\ worker'.at = "restore" /\ worker'.tree = None
             /\ worker'.applied = worker.applied /\ worker'.attempted = worker.attempted
             /\ QueueInv' /\ worker'.path = worker.path
  <2>1. worker.tree \in Trees
    BY <1>3 DEF WorkerApply, LiveInv, Cloned
  <2>2. /\ worker'.at = "restore" /\ worker'.tree = None
        /\ worker'.applied = worker.applied /\ worker'.attempted = worker.attempted
        /\ worker'.path = worker.path /\ worker'.id = worker.id /\ worker' \in W
    BY <1>3 DEF WorkerApply, Shapes, Busy
  <2>3. tried' \in Trees
    BY <1>3, <2>1 DEF WorkerApply, Trees, Shapes
  <2>4. files' \in Maps /\ applied' \in Maps \cup {None} /\ undone' \in BOOLEAN /\ unsaved' \in BOOLEAN
    <3>1. PICK m \in Maps : m = NetworkOf(worker.tree)
      BY <1>0, <2>1
    <3>2. NetworkOutcome(m) \/ UNCHANGED network
      BY <1>3, <3>1 DEF WorkerApply
    <3>3. files \in Maps /\ applied \in Maps \cup {None} /\ undone \in BOOLEAN /\ unsaved \in BOOLEAN
      BY DEF Shapes
    <3>4. files' \in {files, m} /\ applied' \in {applied, m}
      BY <3>2 DEF NetworkOutcome, network
    <3>5. undone' = TRUE \/ undone' = FALSE \/ undone' = undone
      BY <3>2, Zenon DEF NetworkOutcome, network
    <3>6. undone' \in BOOLEAN
      BY <3>3, <3>5, Zenon
    <3>7. unsaved' = FALSE \/ unsaved' = unsaved
      BY <3>2, Zenon DEF NetworkOutcome, network
    <3>8. unsaved' \in BOOLEAN
      BY <3>3, <3>7, Zenon
    <3> QED BY <3>3, <3>4, <3>6, <3>8
  <2>5. Shapes'
    BY <1>3, <2>2, <2>3, <2>4 DEF WorkerApply, Shapes, Busy
  <2> QED BY <1>3, <2>2, <2>5, FrameKeeps DEF WorkerApply
<1>4. ASSUME WorkerRestore
      PROVE  /\ worker'.at = "finish" /\ worker'.tree = worker.tree
             /\ worker'.applied = None /\ worker'.attempted = None
             /\ QueueInv' /\ worker'.path = worker.path
  <2>2. /\ worker'.at = "finish" /\ worker'.tree = worker.tree
        /\ worker'.applied = None /\ worker'.attempted = None
        /\ worker'.path = worker.path /\ worker'.id = worker.id /\ worker' \in W
    BY <1>4 DEF WorkerRestore, Shapes, Busy
  <2>3. settings' \in Trees
    BY <1>4 DEF Shapes, WorkerRestore, Trees, Maps
  <2>4. unsaved' \in BOOLEAN
    BY <1>4, Zenon DEF Shapes, WorkerRestore
  <2>5. Shapes'
    BY <1>4, <2>2, <2>3, <2>4 DEF WorkerRestore, network, Shapes, Busy
  <2> QED BY <1>4, <2>2, <2>5, FrameKeeps DEF WorkerRestore
<1> QED BY <1>1, <1>2, <1>3, <1>4

\* An app flow touches the table and itself only.
LEMMA AppKeeps ==
  ASSUME QueueInv, QueueAssumption, AppSteps
  PROVE  QueueInv' /\ pending' = pending /\ UNCHANGED <<settings, tried, network, permit, calls, worker>>
<1> USE DEF QueueInv
<1> DEFINE A == [at : {"idle", "opened", "running"}, id : Nat, flows : Nat]
<1>0. pending' = pending /\ UNCHANGED <<settings, tried, network, permit, calls, worker>>
  BY DEF AppSteps, AppOpen, AppStart, AppFinish, SetStatus
<1>1. ASSUME AppOpen PROVE QueueInv'
  <2>1. app.id = 0 /\ Record({})
    BY <1>1 DEF AppOpen, Shapes
  <2>2. app'.at = "opened" /\ app'.id = nextId' /\ app'.flows = app.flows + 1
    BY <1>1 DEF AppOpen, Shapes
  <2>3. Table' /\ Owners' /\ Room' /\ nextId' # 0 /\ nextId' \in Nat
    BY <1>0, <2>1, <2>2, OpenKeeps
  <2>4. PICK n : n = nextId'
    OBVIOUS
  <2>5. app' = [app EXCEPT !.at = "opened", !.id = n, !.flows = app.flows + 1] /\ n \in Nat
    BY <1>1, <2>3, <2>4 DEF AppOpen, Shapes
  <2>6. app' \in A
    <3>1. PICK f \in Nat : f = app.flows + 1
      BY DEF Shapes
    <3> QED BY <2>5, <3>1 DEF Shapes
  <2>7. Shapes'
    BY <1>0, <2>2, <2>3, <2>6 DEF network, Shapes
  <2> QED BY <2>3, <2>7
<1>2. ASSUME AppStart PROVE QueueInv'
  BY <1>2, <1>0, StartKeeps DEF AppStart, Shapes, network
<1>3. ASSUME AppFinish PROVE QueueInv'
  <2>1. app'.at = "idle" /\ app'.id = 0 /\ app'.flows = app.flows /\ app' \in A /\ app.id # 0
    BY <1>3 DEF AppFinish, Shapes
  <2>2. PICK id \in {worker.id, app.id} \ {0} : id = app.id
    BY <2>1
  <2>3. SetStatus(id, "finished")
    BY <1>3, <2>2 DEF AppFinish
  <2>4. Table' /\ Owners' /\ Room'
    BY <1>0, <2>1, <2>2, <2>3, FinishKeeps
  <2>5. Shapes'
    BY <1>0, <1>3, <2>1 DEF AppFinish, network, Shapes
  <2> QED BY <2>4, <2>5
<1> QED BY <1>0, <1>1, <1>2, <1>3 DEF AppSteps

\* Nothing a setting waits for is lost while the settings, the calls and the queue stay.
LEMMA CoveredFrame ==
  ASSUME UNCHANGED <<settings, calls, pending>>, NEW k \in Keys, Covered(k)
  PROVE  Covered(k)'
BY DEF Covered, Unsent, Queued, Unqueued

\* A call's steps: its value becomes what is stored, and is covered until an apply has it.
LEMMA CallsKeepLive ==
  ASSUME Inv, QueueAssumption,
         \A k \in Keys : Covered(k) => Covered(k)',
         \A k \in Keys : \/ settings'[k] = settings[k]
                         \/ Covered(k)' /\ settings'[k] \in Calls /\ calls[settings'[k]].at = "start",
         \A c \in Calls : calls'[c].at = "start" => calls[c].at = "start" /\ \A k \in Keys : settings'[k] # c,
         UNCHANGED <<tried, network>>, Begun, Woken'
  PROVE  LiveInv'
<1> USE DEF Inv, LiveInv, QueueInv
<1>1. /\ tried' = tried /\ applied' = applied /\ files' = files /\ undone' = undone /\ unsaved' = unsaved
      /\ worker'.path = worker.path /\ worker'.attempted = worker.attempted
      /\ worker'.applied = worker.applied /\ worker'.tree = worker.tree
      /\ worker'.at = worker.at \/ (worker.at = "none" /\ worker'.at = "next")
  BY BegunEffect DEF network
<1>2. Network \subseteq Keys
  BY DEF QueueAssumption
<1>3. Handled'
  BY <1>1 DEF Handled, Rolled, Ahead
<1>4. Cloned'
  BY <1>1 DEF Cloned
<1>5. Remembered'
  BY <1>1, <1>2 DEF Remembered, Trying
<1>6. Returned'
  BY <1>1, <1>2 DEF Returned, Ahead
<1>7. Fresh'
  BY <1>1 DEF Fresh
<1>8. Newest'
  BY <1>2, <1>1 DEF Fresh, Remembered, Newest, Trying
<1> QED BY <1>3, <1>4, <1>5, <1>6, <1>7, <1>8

\* A persisted write is its call's to queue.
LEMMA PersistLive ==
  ASSUME Inv, QueueAssumption, NEW c \in Calls, NEW path \in Paths, Persist(c, path)
  PROVE  LiveInv'
<1> USE DEF Inv, LiveInv
<1>1. /\ calls'[c] = [at |-> "persisted", path |-> path]
      /\ \A d \in Calls : d # c => calls'[d] = calls[d]
  BY PersistEffect
<1>2. /\ \A k \in Keys : k \in path => settings'[k] = c
      /\ \A k \in Keys : k \notin path => settings'[k] = settings[k]
      /\ calls[c].at = "start" /\ pending' = pending
  BY DEF Persist, queue
<1>3. \A k \in Keys : k \in path => Covered(k)'
  BY <1>1, <1>2 DEF Covered, Unsent
<1>4. ASSUME NEW k \in Keys, Covered(k), k \notin path PROVE Covered(k)'
  BY <1>2, <1>1, <1>4 DEF Covered, Queued, Unqueued, Unsent
<1>5. ASSUME NEW d \in Calls, calls'[d].at = "start"
      PROVE  calls[d].at = "start" /\ \A k \in Keys : settings'[k] # d
  BY <1>1, <1>5, <1>2 DEF Fresh
<1>6. UNCHANGED <<tried, network>> /\ Begun /\ worker' = worker /\ permit' = permit
  BY DEF Persist, Begun
<1>7. Woken'
  BY <1>1, <1>2, <1>6 DEF Woken
<1>8. \A k \in Keys : \/ settings'[k] = settings[k]
                      \/ Covered(k)' /\ settings'[k] \in Calls /\ calls[settings'[k]].at = "start"
  BY <1>2, <1>3
<1>9. \A k \in Keys : Covered(k) => Covered(k)'
  BY <1>3, <1>4
<1> HIDE DEF Inv, LiveInv
<1> QED BY <1>5, <1>6, <1>7, <1>8, <1>9, CallsKeepLive

\* A call that fails leaves its settings unqueued.
LEMMA EmitFailLive ==
  ASSUME Inv, QueueAssumption, NEW c \in Calls, EmitFail(c)
  PROVE  LiveInv'
<1> USE DEF Inv, LiveInv
<1>1. /\ calls'[c] = [at |-> "failed", path |-> {}]
      /\ \A d \in Calls : d # c => calls'[d] = calls[d]
  BY EmitFailEffect
<1>2. /\ settings' = settings /\ pending' = pending /\ calls[c].at = "persisted"
      /\ UNCHANGED <<tried, network>> /\ Begun /\ worker' = worker /\ permit' = permit
  BY DEF EmitFail, queue, Begun
<1>3. ASSUME NEW k \in Keys, Covered(k) PROVE Covered(k)'
  BY <1>2, <1>1, <1>3 DEF Covered, Queued, Unqueued, Unsent
<1>4. ASSUME NEW d \in Calls, calls'[d].at = "start"
      PROVE  calls[d].at = "start" /\ \A k \in Keys : settings'[k] # d
  BY <1>1, <1>4, <1>2 DEF Fresh
<1>5. Woken'
  BY <1>1, <1>2 DEF Woken
<1> HIDE DEF Inv, LiveInv
<1> QED BY <1>2, <1>3, <1>4, <1>5, CallsKeepLive

\* A permit is left for the worker.
LEMMA WakeLive ==
  ASSUME Inv, QueueAssumption, NEW c \in Calls, Wake(c)
  PROVE  LiveInv'
<1> USE DEF Inv, LiveInv
<1>1. /\ calls'[c].at = "done" /\ calls'[c].path = calls[c].path
      /\ \A d \in Calls : d # c => calls'[d] = calls[d]
  BY WakeEffect
<1>2. /\ settings' = settings /\ pending' = pending /\ calls[c].at = "wake"
      /\ UNCHANGED <<tried, network>> /\ Begun /\ worker' = worker /\ permit' = TRUE
  BY DEF Wake, queue, Begun
<1>3. ASSUME NEW k \in Keys, Covered(k) PROVE Covered(k)'
  BY <1>2, <1>1, <1>3 DEF Covered, Queued, Unqueued, Unsent
<1>4. ASSUME NEW d \in Calls, calls'[d].at = "start"
      PROVE  calls[d].at = "start" /\ \A k \in Keys : settings'[k] # d
  BY <1>1, <1>4, <1>2 DEF Fresh
<1>5. Woken'
  BY <1>2 DEF Woken
<1> HIDE DEF Inv, LiveInv
<1> QED BY <1>2, <1>3, <1>4, <1>5, CallsKeepLive

\* What the call had to queue is queued, by a job of its own or one that takes it in.
LEMMA EnqueueApplyLive ==
  ASSUME Inv, QueueAssumption, NEW c \in Calls, EnqueueApply(c)
  PROVE  LiveInv'
<1> USE DEF Inv, LiveInv
<1>1. /\ calls'[c].at \in {"wake", "done"} /\ calls'[c].path = {}
      /\ nextId' # nextId => calls'[c].at = "wake"
      /\ \A d \in Calls : d # c => calls'[d] = calls[d]
      /\ Begun /\ worker'.at # "none"
      /\ \A k \in Keys : Queued(k) \/ k \in calls[c].path => Queued(k)'
      /\ nextId' = nextId => Len(pending) # 0
  BY EnqueueApplyEffect
<1>2. /\ settings' = settings /\ calls[c].at = "persisted"
      /\ UNCHANGED <<tried, network>> /\ permit' = permit
  BY DEF EnqueueApply
<1>3. ASSUME NEW k \in Keys, Covered(k) PROVE Covered(k)'
  BY <1>1, <1>2, <1>3 DEF Covered, Unqueued, Unsent
<1>4. ASSUME NEW d \in Calls, calls'[d].at = "start"
      PROVE  calls[d].at = "start" /\ \A k \in Keys : settings'[k] # d
  BY <1>1, <1>4, <1>2 DEF Fresh
<1>5. Woken'
  BY <1>1, <1>2 DEF Woken, Begun
<1> HIDE DEF Inv, LiveInv
<1> QED BY <1>1, <1>2, <1>3, <1>4, <1>5, CallsKeepLive

\* Steps that leave the settings, the calls and the queue's jobs alone, the worker included.
LEMMA StillLive ==
  ASSUME Inv, QueueAssumption, UNCHANGED <<settings, tried, network, permit, calls, worker, pending>>
  PROVE  LiveInv'
  BY CoveredFrame, CallsKeepLive DEF Begun, Inv, LiveInv, Fresh, Woken

\* The worker's steps between two applies.
LEMMA BetweenLive ==
  ASSUME Inv, QueueAssumption,
         WorkerNext \/ WorkerWait \/ WorkerWoken \/ WorkerStart \/ WorkerFinish
  PROVE  LiveInv'
<1> USE DEF Inv, LiveInv
<1>1. /\ WorkerNext => worker'.at = "start" /\ \A k \in Keys : Queued(k) => Queued(k)' \/ k \in worker'.path
      /\ WorkerWait => worker'.at = "waiting" /\ worker'.path = worker.path
      /\ WorkerWoken => worker'.at = "next" /\ worker'.path = worker.path
      /\ WorkerStart => worker'.at = "remember" /\ worker'.path = worker.path
      /\ WorkerFinish => worker'.at = "next"
      /\ worker'.attempted = worker.attempted /\ worker'.applied = worker.applied
      /\ worker'.tree = worker.tree
  BY WorkerEffect
<1>2. settings' = settings /\ calls' = calls /\ tried' = tried /\ applied' = applied /\ files' = files /\ undone' = undone
      /\ unsaved' = unsaved
  BY DEF WorkerNext, WorkerWait, WorkerWoken, WorkerStart, WorkerFinish, network
<1>3. ~WorkerNext => pending' = pending
  BY DEF WorkerNext, WorkerWait, WorkerWoken, WorkerStart, WorkerFinish, SetStatus, queue
<1>4. ASSUME NEW k \in Keys, Covered(k) PROVE Covered(k)' \/ (worker'.at \in Ahead /\ k \in worker'.path)
  BY <1>1, <1>2, <1>4, <1>3, CoveredFrame DEF Covered, Unsent, Unqueued, Ahead
<1>5. /\ worker.at \in Ahead => worker'.at \in Ahead /\ worker'.path = worker.path
      /\ worker.at # "restore" /\ worker'.at \notin {"clone", "apply", "restore"}
  BY <1>1 DEF WorkerNext, WorkerWait, WorkerWoken, WorkerStart, WorkerFinish, Ahead
<1>6. Network \subseteq Keys
  BY DEF QueueAssumption
<1>7. Handled'
  BY <1>2, <1>4, <1>5 DEF Handled, Rolled
<1>8. Returned'
  BY <1>4, <1>6, <1>2, <1>5 DEF Returned
<1>9. Cloned' /\ Remembered' /\ Newest'
  BY <1>5 DEF Cloned, Remembered, Newest, Trying
<1>10. Fresh'
  BY <1>1, <1>2, <1>5 DEF Fresh
<1>11. Woken'
  BY <1>1 DEF WorkerWait, queue, Woken
<1> QED BY <1>7, <1>8, <1>9, <1>10, <1>11

\* The worker looks at the settings: the maps of a rollback, then its copy of the tree.
LEMMA LookLive ==
  ASSUME Inv, QueueAssumption, WorkerRemember \/ WorkerClone
  PROVE  LiveInv'
<1> USE DEF Inv, LiveInv, QueueInv
<1>1. /\ WorkerRemember =>
           /\ worker'.at = "clone" /\ worker'.applied = applied
           /\ worker'.attempted = NetworkOf(settings) /\ worker'.tree = worker.tree
      /\ WorkerClone =>
           /\ worker'.at = "apply" /\ worker'.tree = settings
           /\ worker'.applied = worker.applied /\ worker'.attempted = worker.attempted
      /\ worker'.path = worker.path
  BY ApplyEffect
<1>2. /\ settings' = settings /\ calls' = calls /\ tried' = tried /\ applied' = applied
      /\ files' = files /\ undone' = undone /\ unsaved' = unsaved /\ pending' = pending
      /\ WorkerRemember => worker.at = "remember"
      /\ WorkerClone => worker.at = "clone"
  BY DEF WorkerRemember, WorkerClone, network, queue
<1>3. \A k \in Keys : Covered(k) => Covered(k)'
  BY <1>2, CoveredFrame
<1>4. worker.at \in Ahead /\ worker'.at \in Ahead /\ worker'.at \in {"clone", "apply"}
  BY <1>1, <1>2 DEF Ahead
<1>5. /\ Network \subseteq Keys /\ settings \in Trees
      /\ NetworkOf(settings) \in Maps /\ \A k \in Network : NetworkOf(settings)[k] = settings[k]
  BY DEF QueueAssumption, Shapes, NetworkOf, Maps, Trees
<1>6. Handled'
  BY <1>1, <1>2, <1>3, <1>4 DEF Handled, Rolled
<1>7. Cloned'
  BY <1>1, <1>2, <1>5 DEF Cloned
<1>8. Remembered'
  BY <1>1, <1>2, <1>5, <1>3, <1>4 DEF Remembered, Trying
<1>9. Returned'
  BY <1>1, <1>2, <1>3, <1>4, <1>5 DEF Returned, Ahead
<1>10. Fresh'
  BY <1>2, <1>1, <1>5 DEF Fresh
<1>11. Newest'
  BY <1>1, <1>2, <1>4, <1>5 DEF Newest
<1>12. Woken'
  BY <1>1, <1>2 DEF Woken
<1> QED BY <1>6, <1>7, <1>8, <1>9, <1>10, <1>11, <1>12

\* The apply itself: what its copy reaches is tried, and the network came up or not.
LEMMA ApplyLive ==
  ASSUME Inv, QueueAssumption, WorkerApply
  PROVE  LiveInv'
<1> USE DEF Inv, LiveInv, QueueInv
<1>1. /\ worker'.at = "restore" /\ worker'.tree = None
      /\ worker'.applied = worker.applied /\ worker'.attempted = worker.attempted
      /\ worker'.path = worker.path
  BY ApplyEffect
<1>2. /\ settings' = settings /\ calls' = calls /\ pending' = pending /\ permit' = permit
      /\ worker.at = "apply"
  BY DEF WorkerApply, queue
<1>3. \A k \in Keys : Covered(k) => Covered(k)'
  BY <1>2, CoveredFrame
<1>4. /\ worker.tree \in Trees /\ \A k \in Keys : worker.tree[k] = settings[k] \/ Covered(k)
      /\ worker.applied = applied /\ worker.attempted \in Maps
      /\ (\A k \in Network : settings[k] = worker.attempted[k]) \/ (\E k \in Network : Covered(k))
  BY <1>2 DEF Cloned, Remembered, Trying
<1>5. /\ Network \subseteq Keys
      /\ NetworkOf(worker.tree) \in Maps
      /\ \A k \in Network : NetworkOf(worker.tree)[k] = worker.tree[k]
  BY <1>4 DEF QueueAssumption, NetworkOf, Maps, Trees
<1> DEFINE reaches == worker.path \cap Network # {}
<1>6. /\ \A k \in Keys : k \in worker.path => tried'[k] = worker.tree[k]
      /\ \A k \in Keys : k \notin worker.path => tried'[k] \in {tried[k], worker.tree[k]}
      /\ \A k \in Network : reaches => tried'[k] = worker.tree[k]
      /\ \A k \in Keys : ~reaches /\ k \notin worker.path => tried'[k] = tried[k]
  BY <1>5 DEF WorkerApply, Reached
<1>7. /\ ~reaches => applied' = applied /\ files' = files /\ undone' = undone /\ unsaved' = unsaved
      /\ reaches => \/ applied' \in {applied, NetworkOf(worker.tree)} /\ undone' = FALSE
                    \/ applied' = applied /\ undone' = TRUE
  BY DEF WorkerApply, NetworkOutcome, network
<1>8. Handled'
  BY <1>2, <1>3, <1>4, <1>6, <1>7 DEF Handled, Rolled
<1>9. Cloned'
  BY <1>1 DEF Cloned
<1>10. Remembered'
  BY <1>1, <1>4, <1>7, <1>2, <1>3, <1>5 DEF Remembered
<1>11. Returned'
  <2> SUFFICES ASSUME undone', ~unsaved', applied' = files'
               PROVE  \/ \A k \in Network : settings'[k] = applied'[k]
                      \/ \E k \in Network : Covered(k)'
                      \/ reaches /\ \A k \in Network : settings'[k] = worker'.attempted[k]
    BY <1>1, Zenon DEF Returned
  <2>1. CASE reaches
    BY <2>1, <1>1, <1>2, <1>3, <1>4, <1>5
  <2>2. CASE ~reaches
    <3>0. applied' = applied /\ files' = files /\ undone' = undone /\ unsaved' = unsaved
      BY <2>2, <1>7
    <3>1. undone /\ ~unsaved /\ applied = files /\ applied' = applied
      BY ONLY <3>0, undone', ~unsaved', applied' = files', Zenon
    <3>2. (\A k \in Network : settings[k] = applied[k]) \/ \E k \in Network : Covered(k)
      BY <2>2, <3>1, <1>2 DEF Returned
    <3> QED BY <3>1, <3>2, <1>2, <1>3, <1>5
  <2> QED BY <2>1, <2>2
<1>12. Fresh'
  BY <1>2, <1>4, <1>5, <1>7, <1>1 DEF Fresh
<1>13. Newest'
  BY <1>1, <1>2, <1>6 DEF Newest
<1>14. Woken'
  BY <1>1, <1>2 DEF Woken
<1> QED BY <1>8, <1>9, <1>10, <1>11, <1>12, <1>13, <1>14

\* A map that was rolled back is taken back only from what the worker tried.
LEMMA RestoreTakesTried ==
  ASSUME Inv, QueueAssumption, WorkerRestore
  PROVE  \/ /\ \A k \in Keys : settings'[k] = settings[k]
            /\ ~ (/\ worker.path \cap Network # {} /\ worker.applied # None
                  /\ undone /\ \A k \in Network : settings[k] = worker.attempted[k])
            /\ unsaved => unsaved'
         \/ unsaved' /\ \A k \in Keys : settings'[k] = settings[k]
         \/ /\ worker.path \cap Network # {} /\ undone /\ applied \in Maps
            /\ \A k \in Network : settings'[k] = applied[k] /\ tried[k] = settings[k]
            /\ \A k \in Keys \ Network : settings'[k] = settings[k]
<1> USE DEF Inv, LiveInv, QueueInv
<1> DEFINE restores == /\ worker.path \cap Network # {} /\ worker.applied # None
                       /\ undone /\ NetworkOf(settings) = worker.attempted
<1>1. worker.at = "restore" /\ worker.attempted \in Maps /\ Network \subseteq Keys
  BY DEF WorkerRestore, Remembered, Trying, QueueAssumption
<1>2. NetworkOf(settings) = worker.attempted <=> \A k \in Network : settings[k] = worker.attempted[k]
  BY <1>1 DEF Maps, NetworkOf
<1>3. CASE /\ settings' = [k \in Keys |-> IF restores /\ k \in Network THEN worker.applied[k] ELSE settings[k]]
           /\ unsaved' = unsaved
  BY <1>1, <1>2, <1>3 DEF Remembered, Shapes, Newest
<1>4. CASE unsaved' = TRUE /\ settings' = settings
  BY <1>4
<1> QED BY <1>3, <1>4 DEF WorkerRestore

\* After it the stored network map is the one that runs, or a newer write is covered.
LEMMA RestoreLive ==
  ASSUME Inv, QueueAssumption, WorkerRestore
  PROVE  LiveInv'
<1> USE DEF Inv, LiveInv, QueueInv
<1>1. /\ worker'.at = "finish" /\ worker'.tree = worker.tree /\ worker'.applied = None
      /\ worker'.attempted = None /\ worker'.path = worker.path
  BY ApplyEffect
<1>2. /\ calls' = calls /\ pending' = pending /\ permit' = permit /\ tried' = tried
      /\ applied' = applied /\ files' = files /\ undone' = undone
      /\ worker.at = "restore"
  BY DEF WorkerRestore, queue, network
<1>3. Network \subseteq Keys
  BY DEF QueueAssumption
<1>4. ASSUME NEW k \in Keys, settings'[k] = settings[k], Covered(k)
      PROVE  Covered(k)'
  BY <1>2, <1>4 DEF Covered, Unsent, Queued, Unqueued
<1>5. None \notin Maps
  BY DEF QueueAssumption, Maps
<1>6. Handled'
  BY <1>2, <1>4, <1>5, RestoreTakesTried DEF Handled, Rolled, Ahead
<1>7. Returned'
  <2> SUFFICES ASSUME undone, ~unsaved', applied = files
               PROVE  \/ \A k \in Network : settings'[k] = applied[k]
                      \/ \E k \in Network : Covered(k)'
    BY <1>2 DEF Returned
  <2>1. CASE \A k \in Network : settings'[k] = applied[k]
    BY <2>1
  <2>2. CASE ~ \A k \in Network : settings'[k] = applied[k]
    <3>1. /\ \A k \in Keys : settings'[k] = settings[k]
          /\ ~ (/\ worker.path \cap Network # {} /\ worker.applied # None
                /\ undone /\ \A k \in Network : settings[k] = worker.attempted[k])
          /\ ~unsaved
      BY <2>2, RestoreTakesTried
    <3>2. \A k \in Network : Covered(k) => Covered(k)'
      BY <1>3, <1>4, <3>1
    <3>3. ~ \A k \in Network : settings[k] = applied[k]
      BY <2>2, <3>1, <1>3
    <3> QED BY <3>1, <3>2, <3>3, <1>5, <1>2 DEF Shapes, Remembered, Returned, Ahead
  <2> QED BY <2>1, <2>2
<1>7a. \A k \in Keys : settings'[k] = settings[k]
                       \/ (k \in Network /\ applied \in Maps /\ settings'[k] = applied[k])
  BY RestoreTakesTried
<1>8. Fresh'
  BY <1>2, <1>7a, <1>1, <1>5 DEF Fresh
<1>9. Cloned' /\ Remembered' /\ Newest'
  BY <1>1 DEF Cloned, Remembered, Newest, Trying
<1>10. Woken'
  BY <1>1, <1>2 DEF Woken
<1> QED BY <1>6, <1>7, <1>8, <1>9, <1>10

(***************************************************************************)
(* The theorems.                                                           *)
(***************************************************************************)

\* The startup state.
LEMMA InitInv == ASSUME Init, QueueAssumption PROVE Inv
<1>1. /\ settings \in Trees /\ tried = settings /\ Network \subseteq Keys
      /\ \A k \in Keys : settings[k] = None
  BY DEF Init, Trees, QueueAssumption
<1>2. /\ NetworkOf(settings) \in Maps
      /\ applied \in Maps => \A k \in Network : applied[k] = None
  BY <1>1 DEF Init, NetworkOf, Maps, Trees, QueueAssumption
<1>3. /\ files \in Maps /\ applied \in Maps \cup {None} /\ undone = FALSE /\ unsaved = FALSE /\ permit = FALSE
      /\ pending = << >> /\ order = << >> /\ nextId = 0 /\ records = [id \in {} |-> None]
  BY <1>2 DEF Init
<1>4. /\ \A c \in Calls : calls[c] = [at |-> "start", path |-> {}]
      /\ calls \in [Calls -> [at : {"start", "persisted", "failed", "wake", "done"}, path : SUBSET Keys]]
  BY DEF Init
<1>5. /\ worker.at = "none" /\ worker.id = 0 /\ worker.path = {} /\ worker.attempted = None
      /\ worker.applied = None /\ worker.tree = None
      /\ worker \in [at : Busy \cup {"none", "next", "waiting"}, id : Nat, path : SUBSET Keys,
                     attempted : Maps \cup {None}, applied : Maps \cup {None}, tree : Trees \cup {None}]
  BY DEF Init, NoWorker
<1>6. /\ app.at = "idle" /\ app.id = 0 /\ app.flows = 0
      /\ app \in [at : {"idle", "opened", "running"}, id : Nat, flows : Nat]
  BY DEF Init
<1>7. Shapes
  <2>1. undone \in BOOLEAN /\ unsaved \in BOOLEAN /\ permit \in BOOLEAN
    BY <1>3, Zenon
  <2> QED BY <1>1, <1>3, <1>4, <1>5, <1>6, <2>1 DEF Shapes, Busy
<1>8. ToSet(order) = {} /\ Len(order) = 0 /\ Len(pending) = 0
  BY <1>3 DEF ToSet
<1>9. Table
  BY <1>3, <1>8 DEF IsInjective, Table
<1>10. Owners
  BY <1>5, <1>6, <1>8 DEF Owners
<1>11. Room
  BY <1>6, <1>8 DEF Room, QueueAssumption
<1>12. LiveInv
  <2>1. Handled
    BY <1>1 DEF Handled
  <2>2. Cloned /\ Remembered /\ Newest /\ Woken
    BY <1>5, <1>8 DEF Cloned, Remembered, Newest, Woken, Trying
  <2>3. Returned
    BY <1>3 DEF Returned
  <2>4. Fresh
    BY <1>1, <1>2, <1>5 DEF QueueAssumption, Maps, Fresh
  <2> QED BY <2>1, <2>2, <2>3, <2>4 DEF LiveInv
<1> QED BY <1>7, <1>9, <1>10, <1>11, <1>12 DEF Inv, QueueInv

\* Every step keeps the invariant: one case per kind of step.
LEMMA InvKept == ASSUME Inv, QueueAssumption, [Next]_vars PROVE Inv'
<1>1. ASSUME NEW c \in Calls, CallSteps(c) PROVE Inv'
  BY PersistEffect, PersistLive, EmitFailEffect, EmitFailLive, EnqueueApplyEffect, EnqueueApplyLive,
     WakeEffect, WakeLive, <1>1 DEF Inv, CallSteps
<1>2. CASE WorkerNext \/ WorkerWait \/ WorkerWoken \/ WorkerStart \/ WorkerFinish
  BY <1>2, WorkerEffect, BetweenLive DEF Inv
<1>3. CASE WorkerRemember \/ WorkerClone \/ WorkerApply \/ WorkerRestore
  BY <1>3, ApplyEffect, LookLive, ApplyLive, RestoreLive DEF Inv
<1>4. CASE AppSteps
  BY <1>4, AppKeeps, StillLive DEF Inv
<1>5. CASE UNCHANGED vars
  BY <1>5, FrameKeeps, StillLive DEF vars, queue, Inv, QueueInv, Shapes, network
<1> QED BY <1>1, <1>2, <1>3, <1>4, <1>5 DEF Next, WorkerSteps, Finished

\* The invariant holds throughout.
LEMMA InvHolds == Spec => []Inv
BY InitInv, InvKept, QueueAssumption, PTL DEF Spec

\* What the invariant says of a state in which nothing is under way, and of the table.
LEMMA InvSuffices == ASSUME Inv, QueueAssumption PROVE QueueSafe
<1> USE DEF Inv, QueueInv, LiveInv
<1>1. DOMAIN records = ToSet(order) /\ Cardinality(DOMAIN records) = Len(order)
  BY TableCounted
<1>2. TypeOK
  <2>1. undone \in BOOLEAN /\ unsaved \in BOOLEAN /\ permit \in BOOLEAN
    BY Zenon DEF Shapes
  <2>2. /\ settings \in Trees /\ tried \in Trees /\ files \in Maps /\ applied \in Maps \cup {None}
        /\ \A i \in 1..Len(pending) : pending[i].path \subseteq Keys
    BY JobShape DEF Table, Shapes
  <2>3. \A id \in DOMAIN records :
          id \in 1..nextId /\ records[id].path \subseteq Keys /\ records[id].status \in Statuses
    BY <1>1 DEF Table, ToSet
  <2> QED BY ONLY <2>1, <2>2, <2>3, Zenon DEF TypeOK, Trees, Maps
<1>3. ActiveRecorded
  <2>1. Owners /\ Table /\ DOMAIN records = ToSet(order)
    BY <1>1
  <2> QED BY ONLY <2>1, Zenon DEF ActiveRecorded, Owners, Table, Terminal
<1>4. TableBounded
  BY <1>1 DEF TableBounded, Room
<1>5. ASSUME QueueQuiet, NEW k \in Keys PROVE Covered(k) => Unqueued(k)
  BY <1>5 DEF Woken, QueueQuiet, Queued, Covered, Unsent
<1>6. AppliedWhenQuiet
  BY <1>5 DEF AppliedWhenQuiet, QueueQuiet, Ahead, Handled, Rolled
<1>7. StoredMapRuns
  BY <1>5 DEF StoredMapRuns, QueueQuiet, Ahead, QueueAssumption, Returned, Shapes, Maps, NetworkOf
<1> QED BY <1>2, <1>3, <1>4, <1>6, <1>7 DEF QueueSafe

\* For any calls, settings, paths, bound and number of app flows: every job and flow not
\* yet finished has its record, the table outgrows MAX_TASKS by app flows only, and when
\* nothing is under way every stored setting was handed to its reconciler, came back with a
\* rollback, or was never queued, and after a rollback whose save did not fail the stored
\* network map is the one that runs.
THEOREM QueueIsSafe == Spec => []QueueSafe
BY InvHolds, InvSuffices, QueueAssumption, PTL

\* restore_network takes back only settings the worker tried: a write that landed while the
\* apply ran stays, however the writes and the steps of the apply interleave.
THEOREM NewerWritesStay == Spec => NewerWriteStays
<1>1. ASSUME Inv, QueueAssumption, [Next]_vars
      PROVE  [worker.at = "restore" /\ worker'.at = "finish" =>
                \A k \in Keys : settings'[k] # settings[k] => tried[k] = settings[k]]_vars
  <2> SUFFICES ASSUME worker.at = "restore", worker'.at = "finish"
               PROVE  \A k \in Keys : settings'[k] # settings[k] => tried[k] = settings[k]
    OBVIOUS
  <2>1. CASE WorkerRestore
    BY <1>1, <2>1, RestoreTakesTried
  <2>2. CASE settings' = settings
    BY <2>2
  <2>3. WorkerRestore \/ settings' = settings
    <3>1. ASSUME NEW c \in Calls, CallSteps(c) PROVE settings' = settings
      BY <3>1 DEF Persist, CallSteps, EmitFail, EnqueueApply, Wake
    <3>2. CASE WorkerSteps
      BY <3>2 DEF WorkerSteps, WorkerNext, WorkerWait, WorkerWoken, WorkerStart, WorkerRemember,
                  WorkerClone, WorkerApply, WorkerFinish
    <3>3. CASE AppSteps
      BY <3>3 DEF AppSteps, AppOpen, AppStart, AppFinish
    <3>4. CASE UNCHANGED vars
      BY <3>4 DEF vars
    <3> QED BY <1>1, <3>1, <3>2, <3>3, <3>4 DEF Next, Finished
  <2> QED BY <2>1, <2>2, <2>3
<1> QED BY <1>1, InvHolds, QueueAssumption, PTL DEF Spec, NewerWriteStays

==============================================================================
