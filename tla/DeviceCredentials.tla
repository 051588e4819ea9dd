------------------------- MODULE DeviceCredentials -------------------------
(***************************************************************************)
(* Two credentials of the device that are no setting.                      *)
(*                                                                         *)
(* The transient root password (crates/micad/src/transient.rs, the bus     *)
(* method SetTransientRootPassword, apid's transient-root-password action).*)
(* Its hash goes to a marker and then to the shadow file; at the next boot *)
(* mica-shadow-reconcile takes away the hash that the marker names.  On    *)
(* the image /etc/shadow is a link to another file system, which           *)
(* fswrite.rs takes for a mount point: the file is truncated and written   *)
(* through.  A failure or a cut may fall between any two of these writes.  *)
(*                                                                         *)
(* The console's TLS identity (crates/mica-apid/src/{tls,config,lib}.rs,   *)
(* routes/web.rs): one file, and the copy the running server holds, which  *)
(* a replacement reloads under a lock that goes with the request.          *)
(***************************************************************************)
EXTENDS Naturals, FiniteSets

CONSTANTS
    PwCalls,      \* the calls that set a transient root password
    PwMin,        \* MIN_PASSWORD_BYTES, MIN_TRANSIENT_PASSWORD_BYTES
    PwApiMax,     \* MAX_TRANSIENT_PASSWORD_BYTES: what bcrypt reads
    PwBusMax,     \* MAX_PASSWORD_BYTES of micad
    PwLengths,    \* the lengths a password may have
    PwFaults,     \* bound: writes that fail
    PwStops,      \* bound: kills of micad and reboots
    IdRequests,   \* requests to replace the TLS identity
    IdTimes,      \* what the clock may say
    IdStops       \* bound: stops of apid

ASSUME CredentialBounds ==
    /\ PwMin \in Nat /\ PwApiMax \in Nat /\ PwBusMax \in Nat /\ PwMin <= PwApiMax
    /\ PwLengths \subseteq Nat /\ IdTimes \subseteq Nat
    /\ PwFaults \in Nat /\ PwStops \in Nat /\ IdStops \in Nat
    /\ PwCalls \cap {"none", "*", "torn"} = {}
    /\ IdRequests \cap {"none", "first"} = {}

VARIABLES
    pwShadow,     \* root's hash: "*", that of a call, or "torn" when the file has no root line
    pwMarker,     \* the hash the marker names, or "none"
    pwWrite,      \* the write under apply_lock: [call, at], or at "none"
    pwDone,       \* the calls that were made
    pwWant,       \* access.ssh.passwordAuthentication
    pwTold,       \* PasswordAuthentication as the SSH server was last told
    pwFile,       \* ... as its environment file says
    pwMissed,     \* history: the apply that did not come to its end, "apply" before the
                  \* file was written, "restart" after, and is not made up for
    pwQueue,      \* an apply of access.ssh is queued
    pwUp,         \* micad runs
    pwBorn,       \* history: calls of earlier boots
    pwStopped,    \* history: the last call to write the marker did not come to the shadow file
    pwUsed        \* [fault, stop]

VARIABLES
    idFile,       \* identity.pem: the identity, or "none"
    idLive,       \* the identity the server holds, or "none" while it serves no HTTPS
    idLock,       \* the request that holds IdentityStore::write, or "none"
    idReq,        \* request -> [at, id]
    idKey,        \* session.key: "none" or "made"
    idWeb,        \* the listeners file micad rendered: [is, mode, https]
    idUp,         \* apid runs
    idMissed,     \* history: a reload did not come to its end since apid started
    idPair,       \* history: identities whose key is the leaf's
    idClock,
    idStops

pwServer == <<pwTold, pwFile, pwMissed>>
pwVars == <<pwShadow, pwMarker, pwWrite, pwDone, pwWant, pwServer, pwQueue, pwUp, pwBorn,
            pwStopped, pwUsed>>
idVars == <<idFile, idLive, idLock, idReq, idKey, idWeb, idUp, idMissed, idPair, idClock, idStops>>

----------------------------------------------------------------------------
(* The transient root password.                                            *)

PwNoWrite == [call |-> "none", at |-> "none"]

PwInit ==
    /\ pwShadow = "*" /\ pwMarker = "none" /\ pwWrite = PwNoWrite
    /\ pwDone = {} /\ pwBorn = {} /\ pwStopped = FALSE
    /\ pwWant \in BOOLEAN
    /\ pwTold = FALSE /\ pwFile = FALSE /\ pwMissed = "none"
    /\ pwQueue = TRUE /\ pwUp = TRUE
    /\ pwUsed = [fault |-> 0, stop |-> 0]

(* Apid refuses what bcrypt would shorten; micad, which other clients of   *)
(* the bus call too, bounds the input alone.                               *)
ValidateTransientPassword(len, clean) == PwMin <= len /\ len <= PwApiMax /\ clean
ValidatePassword(len, clean) == PwMin <= len /\ len <= PwBusMax /\ clean

(* Under apply_lock.  The shadow file is read and the password hashed; a   *)
(* file without a root line ends it before anything is written.            *)
EnqueueTransientRootPassword(c, console) ==
    /\ pwUp /\ pwWrite = PwNoWrite /\ c \notin pwDone
    /\ pwDone' = pwDone \cup {c}
    /\ \E len \in PwLengths, clean \in BOOLEAN :
          LET taken == /\ console => ValidateTransientPassword(len, clean)
                       /\ ValidatePassword(len, clean)
                       /\ pwShadow # "torn"
          IN  pwWrite' = IF taken THEN [call |-> c, at |-> "marker"] ELSE pwWrite
    /\ UNCHANGED <<pwShadow, pwMarker, pwWant, pwServer, pwQueue, pwUp, pwBorn, pwStopped, pwUsed>>

PwFails ==
    /\ pwUsed.fault < PwFaults
    /\ pwUsed' = [pwUsed EXCEPT !.fault = @ + 1]
    /\ pwWrite' = PwNoWrite

\* Mutant: the shadow file is written before the marker
WriteShadowFirst ==
    /\ pwWrite.at = "marker"
    /\ pwShadow' = pwWrite.call
    /\ pwWrite' = [pwWrite EXCEPT !.at = "truncate"]
    /\ UNCHANGED <<pwMarker, pwDone, pwWant, pwServer, pwQueue, pwUp, pwBorn, pwStopped, pwUsed>>

WriteMarker ==
    /\ pwWrite.at = "marker"
    /\ \/ /\ pwMarker' = pwWrite.call
          /\ pwStopped' = TRUE
          /\ pwWrite' = [pwWrite EXCEPT !.at = "truncate"]
          /\ UNCHANGED pwUsed
       \/ PwFails /\ UNCHANGED <<pwMarker, pwStopped>>
    /\ UNCHANGED <<pwShadow, pwDone, pwWant, pwServer, pwQueue, pwUp, pwBorn>>

(* write_in_place: opened with truncation, then written and synced.        *)
TruncateShadow ==
    /\ pwWrite.at = "truncate"
    /\ \/ /\ pwShadow' = "torn"
          /\ pwWrite' = [pwWrite EXCEPT !.at = "write"]
          /\ UNCHANGED pwUsed
       \/ PwFails /\ UNCHANGED pwShadow
    /\ UNCHANGED <<pwMarker, pwDone, pwWant, pwServer, pwQueue, pwUp, pwBorn, pwStopped>>

RewriteRootHash ==
    /\ pwWrite.at = "write"
    /\ \/ /\ pwShadow' = pwWrite.call
          /\ pwStopped' = FALSE
          /\ pwWrite' = PwNoWrite
          /\ pwQueue' = TRUE
          /\ UNCHANGED pwUsed
       \/ PwFails /\ UNCHANGED <<pwShadow, pwStopped, pwQueue>>
    /\ UNCHANGED <<pwMarker, pwDone, pwWant, pwServer, pwUp, pwBorn>>

SetPasswordAuthentication(on) ==
    /\ pwUp /\ pwWrite = PwNoWrite /\ on # pwWant
    /\ pwWant' = on
    /\ pwQueue' = TRUE
    /\ UNCHANGED <<pwShadow, pwMarker, pwWrite, pwDone, pwServer, pwUp, pwBorn, pwStopped, pwUsed>>

(* The sshd reconciler: passwords are accepted when that is asked for and  *)
(* a marker is there.  An apply may end before the environment file is     *)
(* written, for a home or a key file, or at the restart; nothing queues it *)
(* again, and a later one restarts the server only where it changes the    *)
(* file.                                                                   *)
SshdApply ==
    LET told == pwWant /\ pwMarker # "none"
    IN  /\ pwUp /\ pwQueue /\ pwWrite = PwNoWrite
        /\ pwQueue' = FALSE
        /\ \/ /\ pwFile' = told
              /\ pwTold' = IF told # pwFile THEN told ELSE pwTold
              /\ pwMissed' = IF told # pwFile \/ pwMissed = "apply" THEN "none" ELSE pwMissed
              /\ UNCHANGED <<pwWrite, pwUsed>>
           \/ /\ PwFails
              /\ pwMissed' = IF pwMissed = "none" THEN "apply" ELSE pwMissed
              /\ UNCHANGED <<pwTold, pwFile>>
           \/ /\ PwFails
              /\ told # pwFile /\ pwFile' = told
              /\ pwMissed' = "restart"
              /\ UNCHANGED pwTold
        /\ UNCHANGED <<pwShadow, pwMarker, pwDone, pwWant, pwUp, pwBorn, pwStopped>>

MicadKilled ==
    /\ pwUp /\ pwUsed.stop < PwStops
    /\ pwUsed' = [pwUsed EXCEPT !.stop = @ + 1]
    /\ pwUp' = FALSE
    /\ pwWrite' = PwNoWrite
    /\ pwQueue' = FALSE
    /\ UNCHANGED <<pwShadow, pwMarker, pwDone, pwWant, pwServer, pwBorn, pwStopped>>

(* Every subtree is applied when micad starts.                             *)
MicadStarts ==
    /\ ~pwUp
    /\ pwUp' = TRUE
    /\ pwQueue' = TRUE
    /\ UNCHANGED <<pwShadow, pwMarker, pwWrite, pwDone, pwWant, pwServer, pwBorn, pwStopped, pwUsed>>

(* mica-shadow-reconcile at boot: the hash the marker names is taken away, *)
(* any other is left, and the marker goes.                                 *)
ShadowReconcile ==
    /\ pwShadow' = IF pwMarker # "none" /\ pwShadow = pwMarker THEN "*" ELSE pwShadow
    /\ pwMarker' = "none"

(* A reboot or a cut, at any moment; what the server was told is in /run.  *)
Reboot ==
    /\ pwUsed.stop < PwStops
    /\ pwUsed' = [pwUsed EXCEPT !.stop = @ + 1]
    /\ ShadowReconcile
    /\ pwWrite' = PwNoWrite
    /\ pwTold' = FALSE /\ pwFile' = FALSE /\ pwMissed' = "none"
    /\ pwQueue' = FALSE /\ pwUp' = FALSE
    /\ pwBorn' = pwDone
    /\ UNCHANGED <<pwDone, pwWant, pwStopped>>

PwNext ==
    \/ \E c \in PwCalls, console \in BOOLEAN : EnqueueTransientRootPassword(c, console)
    \/ WriteMarker \/ TruncateShadow \/ RewriteRootHash
    \/ \E on \in BOOLEAN : SetPasswordAuthentication(on)
    \/ SshdApply \/ MicadKilled \/ MicadStarts \/ Reboot

PwSpec == PwInit /\ [][PwNext]_pwVars

----------------------------------------------------------------------------
(* The TLS identity.                                                       *)

WebDefaults == [mode |-> "network", https |-> FALSE]

(* A listeners file that is absent or does not parse reads as the defaults.*)
ReadWeb(file) ==
    IF file.is = "rendered" THEN [mode |-> file.mode, https |-> file.https] ELSE WebDefaults

WebFiles ==
    [is : {"rendered"}, mode : {"network", "local"}, https : BOOLEAN]
        \cup [is : {"absent", "broken"}, mode : {"local"}, https : {FALSE}]

ServesTls(web) == web.https /\ web.mode = "network"

IdIdle == [at |-> "idle", id |-> "none"]

IdInit ==
    /\ idFile = "none" /\ idLive = "none" /\ idLock = "none" /\ idKey = "none"
    /\ idReq = [r \in IdRequests |-> IdIdle]
    /\ idWeb \in {w \in WebFiles : w.is = "absent"}
    /\ idUp = FALSE /\ idMissed = FALSE
    /\ idPair = {"first"}
    /\ idClock \in IdTimes
    /\ idStops = 0

(* The identity is loaded, or generated and published at the first start,  *)
(* only where HTTPS is served; the session key always.                     *)
LoadOrGenerateCertificate ==
    IF ServesTls(ReadWeb(idWeb))
    THEN /\ idFile' = IF idFile = "none" THEN "first" ELSE idFile
         /\ idLive' = idFile'
    ELSE /\ idLive' = "none" /\ UNCHANGED idFile

LoadOrGenerateSessionKey == idKey' = "made"

ApidStarts ==
    /\ ~idUp
    /\ LoadOrGenerateCertificate /\ LoadOrGenerateSessionKey
    /\ idUp' = TRUE /\ idMissed' = FALSE
    /\ UNCHANGED <<idLock, idReq, idWeb, idPair, idClock, idStops>>

(* A listener that is not bound ends apid, with what it generated kept.    *)
BindFails ==
    /\ ~idUp /\ idStops < IdStops
    /\ idStops' = idStops + 1
    /\ idFile' = IF ServesTls(ReadWeb(idWeb)) /\ idFile = "none" THEN "first" ELSE idFile
    /\ LoadOrGenerateSessionKey
    /\ UNCHANGED <<idLive, idLock, idReq, idWeb, idUp, idMissed, idPair, idClock>>

(* Apid is stopped, killed or cut off: the requests under way go with it.  *)
ApidStops ==
    /\ idUp /\ idStops < IdStops
    /\ idStops' = idStops + 1
    /\ idUp' = FALSE /\ idLive' = "none" /\ idLock' = "none"
    /\ idReq' = [r \in IdRequests |->
                    IF idReq[r].at \in {"replace", "reload"} THEN [idReq[r] EXCEPT !.at = "gone"]
                                                              ELSE idReq[r]]
    /\ UNCHANGED <<idFile, idKey, idWeb, idMissed, idPair, idClock>>

(* micad renders access.web; apid reads it when it next starts.            *)
RenderListeners ==
    /\ idWeb' \in {w \in WebFiles : w.is # "absent"}
    /\ idWeb' # idWeb
    /\ UNCHANGED <<idFile, idLive, idLock, idReq, idKey, idUp, idMissed, idPair, idClock, idStops>>

ClockMoves ==
    /\ idClock' \in IdTimes /\ idClock' # idClock
    /\ UNCHANGED <<idFile, idLive, idLock, idReq, idKey, idWeb, idUp, idMissed, idPair, idStops>>

(* An upload: a chain and a key that are PEM and of bounded length, a key  *)
(* that signs and is the leaf's, and a leaf within its validity.           *)
IdentityFromUpload(u) ==
    /\ u.pem /\ u.signs /\ u.match
    /\ u.from <= idClock /\ idClock <= u.to

Uploads ==
    [pem : BOOLEAN, signs : {TRUE}, match : BOOLEAN, from : IdTimes, to : IdTimes]

CertificateUpload(r) ==
    /\ idUp /\ idReq[r].at = "idle"
    /\ \E u \in Uploads :
          /\ idReq' = [idReq EXCEPT ![r] = IF IdentityFromUpload(u) THEN [at |-> "replace", id |-> r]
                                           ELSE [at |-> "refused", id |-> "none"]]
          /\ idPair' = IF u.match THEN idPair \cup {r} ELSE idPair
    /\ UNCHANGED <<idFile, idLive, idLock, idKey, idWeb, idUp, idMissed, idClock, idStops>>

(* A request to generate one: a name of its own, at least one name or      *)
(* address to cover, a validity within bounds.                             *)
CertificateRequest(g) == g.named /\ g.covers /\ g.days

CertificateGenerate(r) ==
    /\ idUp /\ idReq[r].at = "idle"
    /\ \E g \in [named : BOOLEAN, covers : BOOLEAN, days : BOOLEAN] :
          idReq' = [idReq EXCEPT ![r] = IF CertificateRequest(g) THEN [at |-> "replace", id |-> r]
                                        ELSE [at |-> "refused", id |-> "none"]]
    /\ idPair' = idPair \cup {r}
    /\ UNCHANGED <<idFile, idLive, idLock, idKey, idWeb, idUp, idMissed, idClock, idStops>>

IdAnswers(r, to) == idReq' = [idReq EXCEPT ![r].at = to]

(* IdentityStore::replace: one rename under the lock, then the reload,     *)
(* whose parsing is waited for.                                            *)
ReplaceIdentity(r) ==
    /\ idReq[r].at = "replace" /\ idLock = "none"
    /\ \/ /\ idFile' = idReq[r].id
          /\ \/ idLive # "none" /\ IdAnswers(r, "reload") /\ idLock' = r
             \/ idLive = "none" /\ IdAnswers(r, "stored") /\ UNCHANGED idLock
       \/ IdAnswers(r, "failed") /\ UNCHANGED <<idFile, idLock>>
    /\ UNCHANGED <<idLive, idKey, idWeb, idUp, idMissed, idPair, idClock, idStops>>

ReloadIdentity(r) ==
    /\ idReq[r].at = "reload"
    /\ \/ idLive' = idReq[r].id /\ IdAnswers(r, "stored") /\ UNCHANGED idMissed
       \/ IdAnswers(r, "failed") /\ idMissed' = TRUE /\ UNCHANGED idLive
    /\ idLock' = "none"
    /\ UNCHANGED <<idFile, idKey, idWeb, idUp, idPair, idClock, idStops>>

(* A client that leaves drops the request where it waits: for the lock, or *)
(* for the reload, which then does not happen.                             *)
RequestDropped(r) ==
    /\ idReq[r].at \in {"replace", "reload"}
    /\ IdAnswers(r, "gone")
    /\ idMissed' = (idMissed \/ idReq[r].at = "reload")
    /\ idLock' = IF idReq[r].at = "reload" THEN "none" ELSE idLock
    /\ UNCHANGED <<idFile, idLive, idKey, idWeb, idUp, idPair, idClock, idStops>>

IdNext ==
    \/ ApidStarts \/ BindFails \/ ApidStops \/ RenderListeners \/ ClockMoves
    \/ \E r \in IdRequests :
          \/ CertificateUpload(r) \/ CertificateGenerate(r)
          \/ ReplaceIdentity(r) \/ ReloadIdentity(r) \/ RequestDropped(r)

IdSpec == IdInit /\ [][IdNext]_idVars

----------------------------------------------------------------------------
PwTypeOK ==
    /\ pwShadow \in PwCalls \cup {"*", "torn"}
    /\ pwMarker \in PwCalls \cup {"none"}
    /\ pwWrite \in [call : PwCalls \cup {"none"}, at : {"none", "marker", "truncate", "write"}]
    /\ pwDone \subseteq PwCalls /\ pwBorn \subseteq pwDone
    /\ pwWant \in BOOLEAN /\ pwTold \in BOOLEAN /\ pwFile \in BOOLEAN
    /\ pwMissed \in {"none", "apply", "restart"} /\ pwQueue \in BOOLEAN /\ pwUp \in BOOLEAN
    /\ pwStopped \in BOOLEAN
    /\ pwUsed \in [fault : 0 .. PwFaults, stop : 0 .. PwStops]

IdTypeOK ==
    LET ids == IdRequests \cup {"none", "first"}
    IN  /\ idFile \in ids /\ idLive \in ids /\ idLock \in IdRequests \cup {"none"}
        /\ idReq \in [IdRequests -> [at : {"idle", "refused", "replace", "reload", "stored", "failed", "gone"},
                                     id : ids]]
        /\ idKey \in {"none", "made"} /\ idUp \in BOOLEAN /\ idMissed \in BOOLEAN
        /\ idPair \subseteq ids /\ idWeb \in WebFiles

\* "Set once by the operator, gone on the next boot" (transient.rs:1): the hash
\* of a call made in an earlier boot is in the shadow file only after a later
\* call wrote its marker and did not come to write the shadow file.
GoneOnNextBoot == pwShadow \in pwBorn => pwStopped

\* The SSH server accepts passwords only while the marker of a transient one is
\* there, and once its last apply is done only where that is asked for (sshd.rs
\* apply): between the two, no reboot or kill leaves it accepting them.  An apply
\* that failed is not made up for until one comes to its end; where it failed at
\* the restart, until one changes the file.
AcceptedOnlyWhileSet ==
    /\ pwTold => pwMarker # "none"
    /\ pwUp /\ ~pwQueue /\ pwMissed = "none" => (pwTold => pwWant)

\* What the server presents is what the file holds, once no replacement is
\* between the two, unless a reload failed or was dropped with its request
\* (tls.rs IdentityStore::replace).
ServedIsStored ==
    /\ idLive # "none" /\ ~idMissed /\ idLock = "none" => idLive = idFile
    /\ {idFile, idLive} \subseteq idPair \cup {"none"}

CredentialsSafe ==
    PwTypeOK /\ IdTypeOK /\ GoneOnNextBoot /\ AcceptedOnlyWhileSet /\ ServedIsStored
=============================================================================
