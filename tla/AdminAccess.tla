------------------------------ MODULE AdminAccess ------------------------------
(***************************************************************************)
(* The management credentials of mica-apid: the login guard, the browser   *)
(* sessions, the API tokens, and the handlers that read the stored         *)
(* `access` subtree, work on their copy, and write it back over the bus.   *)
(*                                                                         *)
(* micad serialises the writes but offers no compare-and-set except in     *)
(* Claim, so every handler here is a read, some work (argon2, the presence *)
(* channel), a write and what it does once the write is answered.  Each of *)
(* these is a step, and the steps of the requests in flight interleave.    *)
(* The bus call is bounded: apid may give up on a write that micad still   *)
(* carries out, and apid may be restarted under its requests.              *)
(***************************************************************************)
EXTENDS Naturals, FiniteSets

CONSTANTS Requests,      \* requests apid serves at a time
          Tokens,        \* API tokens that can be minted
          MaxTokens,     \* micad_settings::MAX_TOKENS
          MaxServed,     \* bound: requests served in a behaviour
          MaxPassword,   \* bound: administrator passwords ever set
          MaxMarkers,    \* bound: physical-presence assertions made
          MaxRestarts    \* bound: restarts of apid

ASSUME AdmConstants == /\ MaxTokens \in Nat /\ MaxServed \in Nat
                       /\ MaxPassword \in Nat \ {0} /\ MaxMarkers \in Nat
                       /\ MaxRestarts \in Nat
                       /\ Tokens # {} /\ IsFiniteSet(Requests)

VARIABLES access,        \* the stored `access` subtree
          sessions,      \* SessionStore.sessions
          sessionGen,    \* SessionStore.generation
          guard,         \* GuardStore, in memory and in its file
          requests,      \* the handler of each request in flight
          claimLock,     \* AppState.claim is held
          rotationLock,  \* AppState.rotation is held
          marker,        \* the presence marker on disk, 0 for none
          spent,         \* MarkerPresence.spent, 0 for none
          bounds,        \* how much of each bound is used
          seen           \* history the properties speak of

admVars == <<access, sessions, sessionGen, guard, requests, claimLock, rotationLock,
             marker, spent, bounds, seen>>

Passwords == 0..MaxPassword     \* 0: no administrator password is set

Access == [password : Passwords, tokens : SUBSET Tokens, rotation : BOOLEAN,
           generation : 0..MaxServed]

NoTreeRead == [password |-> 0, tokens |-> {}, rotation |-> FALSE, generation |-> 0]

Free == [kind |-> "none", pc |-> "free", id |-> 0, read |-> NoTreeRead, typed |-> 0,
         new |-> 0, gen |-> 0, acting |-> 0, token |-> {}, marker |-> 0]

AdmInit ==
  /\ access \in {NoTreeRead,
                 [NoTreeRead EXCEPT !.password = 1, !.rotation = TRUE],
                 [NoTreeRead EXCEPT !.password = 1, !.tokens = {CHOOSE t \in Tokens : TRUE}]}
  /\ sessions = {} /\ sessionGen = 0
  /\ guard = [failures |-> 0, locked |-> FALSE]
  /\ requests = [r \in Requests |-> Free]
  /\ claimLock = FALSE /\ rotationLock = FALSE
  /\ marker = 0 /\ spent = 0
  /\ bounds = [served |-> 0, password |-> access.password, restarts |-> 0, markers |-> 0]
  /\ seen = [minted |-> access.tokens, taken |-> {}, admitted |-> 0, claims |-> 0,
             rotations |-> [k \in 1..MaxMarkers |-> 0],
             interrupted |-> [k \in 1..MaxMarkers |-> 0], unanswered |-> FALSE]

(***************************************************************************)
(* The login guard.  An attempt is charged before the password is checked. *)
(***************************************************************************)
BeginAttempt(g) == [failures |-> g.failures + 1, locked |-> TRUE]

ConfirmFailure(g) == [g EXCEPT !.locked = TRUE]

RecordSuccess == [failures |-> 0, locked |-> FALSE]

Admitted == seen' = [seen EXCEPT !.admitted = @ + 1]

BackoffOver ==
  /\ guard.locked
  /\ guard' = [guard EXCEPT !.locked = FALSE]
  /\ UNCHANGED <<access, sessions, sessionGen, requests, claimLock, rotationLock,
                 marker, spent, bounds, seen>>

(***************************************************************************)
(* A request takes a free slot; `Become` moves it on.                      *)
(***************************************************************************)
Become(r, q) == requests' = [requests EXCEPT ![r] = q]

At(r, kind, pc) == requests[r].kind = kind /\ requests[r].pc = pc

Serve(r, q) ==
  /\ requests[r] = Free
  /\ bounds.served < MaxServed
  /\ bounds' = [bounds EXCEPT !.served = @ + 1,
                              !.password = IF q.new > @ THEN q.new ELSE @]
  /\ Become(r, [q EXCEPT !.id = bounds.served + 1])

NewPassword == bounds.password + 1

\* The session a credential names, or 0 for a stored bearer token and for the
\* local listener, which are not told apart here.
Actor == {0} \cup {s.id : s \in sessions}

(***************************************************************************)
(* Sessions: sign-in, sign-out, the end of their 24 hours.                 *)
(***************************************************************************)
LoginBegin(r) ==
  /\ ~guard.locked
  /\ \E p \in Passwords :
       Serve(r, [Free EXCEPT !.kind = "login", !.pc = "read", !.typed = p,
                             !.gen = sessionGen])
  /\ guard' = BeginAttempt(guard)
  /\ Admitted
  /\ UNCHANGED <<access, sessions, sessionGen, claimLock, rotationLock, marker, spent>>

LoginRead(r) ==
  /\ At(r, "login", "read")
  /\ Become(r, IF access.password = 0 THEN Free
               ELSE [requests[r] EXCEPT !.pc = "verify", !.read = access])
  /\ UNCHANGED <<access, sessions, sessionGen, guard, claimLock, rotationLock, marker,
                 spent, bounds, seen>>

\* Mutant: a session is created whatever happened to the generation.
LoginVerifyUnchecked(r) ==
  LET q == requests[r]
      verified == q.typed = q.read.password
  IN /\ At(r, "login", "verify")
     /\ Become(r, Free)
     /\ guard' = IF verified THEN RecordSuccess ELSE ConfirmFailure(guard)
     /\ sessions' = IF verified
                    THEN sessions \cup {[id |-> q.id, password |-> q.typed, by |-> "login"]}
                    ELSE sessions
     /\ seen' = IF verified THEN [seen EXCEPT !.admitted = 0] ELSE seen
     /\ UNCHANGED <<access, sessionGen, claimLock, rotationLock, marker, spent, bounds>>

LoginVerify(r) ==
  LET q == requests[r]
      verified == q.typed = q.read.password
      created == verified /\ q.gen = sessionGen
  IN /\ At(r, "login", "verify")
     /\ Become(r, Free)
     /\ guard' = IF created THEN RecordSuccess
                 ELSE IF verified THEN guard ELSE ConfirmFailure(guard)
     /\ sessions' = IF created
                    THEN sessions \cup {[id |-> q.id, password |-> q.typed, by |-> "login"]}
                    ELSE sessions
     /\ seen' = IF created THEN [seen EXCEPT !.admitted = 0] ELSE seen
     /\ UNCHANGED <<access, sessionGen, claimLock, rotationLock, marker, spent, bounds>>

SessionEnds ==
  /\ \E s \in sessions : sessions' = sessions \ {s}
  /\ UNCHANGED <<access, sessionGen, guard, requests, claimLock, rotationLock, marker,
                 spent, bounds, seen>>

RemoveAllExcept(acting) ==
  /\ sessionGen' = sessionGen + 1
  /\ sessions' = {[s EXCEPT !.password = access.password] :
                    s \in {t \in sessions : t.id = acting}}

(***************************************************************************)
(* The handlers that change `access`.  All of them read it first.          *)
(***************************************************************************)
\* A bootstrap credential that was not rotated binds every mutation but the
\* password change and the session routes.
BoundByRotation == access.rotation

ChangeBegin(r) ==
  /\ NewPassword <= MaxPassword
  /\ \E acting \in Actor, p \in Passwords :
       Serve(r, [Free EXCEPT !.kind = "change", !.pc = "read", !.typed = p,
                             !.new = NewPassword, !.acting = acting])
  /\ UNCHANGED <<access, sessions, sessionGen, guard, claimLock, rotationLock, marker,
                 spent, seen>>

MintBegin(r) ==
  /\ ~BoundByRotation
  /\ \E t \in Tokens \ seen.minted :
       /\ Serve(r, [Free EXCEPT !.kind = "mint", !.pc = "read", !.token = {t}])
       /\ seen' = [seen EXCEPT !.minted = @ \cup {t}]
  /\ UNCHANGED <<access, sessions, sessionGen, guard, claimLock, rotationLock, marker, spent>>

RevokeBegin(r) ==
  /\ ~BoundByRotation
  /\ \E t \in seen.minted :
       Serve(r, [Free EXCEPT !.kind = "revoke", !.pc = "read", !.token = {t}])
  /\ UNCHANGED <<access, sessions, sessionGen, guard, claimLock, rotationLock, marker,
                 spent, seen>>

\* The early returns of each handler once it has read `access`.
Refused(q, a) ==
  CASE q.kind = "change" -> a.password = 0 \/ a.password # q.typed
    [] q.kind = "mint"   -> Cardinality(a.tokens) >= MaxTokens
    [] q.kind = "revoke" -> ~(q.token \subseteq a.tokens)

Read(r) ==
  /\ requests[r].kind \in {"change", "mint", "revoke"} /\ requests[r].pc = "read"
  /\ Become(r, IF Refused(requests[r], access) THEN Free
               ELSE [requests[r] EXCEPT !.pc = "write", !.read = access])
  /\ UNCHANGED <<access, sessions, sessionGen, guard, claimLock, rotationLock, marker,
                 spent, bounds, seen>>

\* First-run setup, under the claim lock: the claim check, then the device
\* code, which is charged to the same guard as a login.
SetupBegin(r) ==
  /\ ~claimLock /\ access.password = 0 /\ ~guard.locked
  /\ NewPassword <= MaxPassword
  /\ \E right \in BOOLEAN :
       IF right
       THEN /\ Serve(r, [Free EXCEPT !.kind = "setup", !.pc = "write", !.read = access,
                                     !.new = NewPassword])
            /\ guard' = RecordSuccess
            /\ claimLock' = TRUE
            /\ seen' = [seen EXCEPT !.admitted = 0]
       ELSE /\ bounds.served < MaxServed
            /\ bounds' = [bounds EXCEPT !.served = @ + 1]
            /\ guard' = ConfirmFailure(BeginAttempt(guard))
            /\ Admitted
            /\ UNCHANGED <<requests, claimLock>>
  /\ UNCHANGED <<access, sessions, sessionGen, rotationLock, marker, spent>>

\* Recovery, under the rotation lock: the presence assertion is read inside it.
RecoverBegin(r) ==
  /\ ~rotationLock
  /\ marker # 0 /\ marker # spent
  /\ access.password # 0
  /\ NewPassword <= MaxPassword
  /\ Serve(r, [Free EXCEPT !.kind = "recover", !.pc = "write", !.read = access,
                           !.new = NewPassword, !.marker = marker])
  /\ rotationLock' = TRUE
  /\ UNCHANGED <<access, sessions, sessionGen, guard, claimLock, marker, spent, seen>>

\* The new password could not be hashed or published on the channel.
RecoverAborts(r) ==
  /\ At(r, "recover", "write")
  /\ Become(r, Free)
  /\ rotationLock' = FALSE
  /\ UNCHANGED <<access, sessions, sessionGen, guard, claimLock, marker, spent, bounds, seen>>

\* What a request's write leaves in the store, given what it holds now.
Written(q, now) ==
  CASE q.kind = "change"  -> [q.read EXCEPT !.password = q.new, !.rotation = FALSE]
    [] q.kind = "mint"    -> [now EXCEPT !.tokens = q.read.tokens \cup q.token]
    [] q.kind = "revoke"  -> [now EXCEPT !.tokens = q.read.tokens \ q.token]
    [] q.kind = "recover" -> [q.read EXCEPT !.password = q.new, !.tokens = {},
                              !.rotation = FALSE, !.generation = @ + 1]
    [] q.kind = "setup"   -> IF now.password # 0 THEN now
                             ELSE [q.read EXCEPT !.password = q.new, !.rotation = FALSE]

Taken(q, now) ==
  [seen EXCEPT !.taken = IF q.kind = "recover" THEN @ \cup seen.minted ELSE @,
               !.claims = IF q.kind = "setup" /\ Written(q, now).password = q.new
                          THEN @ + 1 ELSE @,
               !.rotations = [k \in 1..MaxMarkers |->
                                IF q.kind = "recover" /\ k = q.marker THEN @[k] + 1 ELSE @[k]]]

\* micad carries the write out and answers.
Write(r) ==
  LET q == requests[r]
      refused == q.kind = "setup" /\ access.password # 0
  IN /\ q.pc = "write"
     /\ access' = Written(q, access)
     /\ seen' = Taken(q, access)
     /\ Become(r, IF q.kind \in {"mint", "revoke"} \/ refused THEN Free
                  ELSE [q EXCEPT !.pc = "answered", !.read = NoTreeRead])
     /\ claimLock' = (claimLock /\ ~refused)
     /\ UNCHANGED <<sessions, sessionGen, guard, rotationLock, marker, spent, bounds>>

\* micad refuses the write, or it never arrives.
WriteFails(r) ==
  LET q == requests[r]
  IN /\ q.pc \in {"write", "orphan"}
     /\ Become(r, Free)
     /\ claimLock' = (claimLock /\ (q.pc = "orphan" \/ q.kind # "setup"))
     /\ rotationLock' = (rotationLock /\ (q.pc = "orphan" \/ q.kind # "recover"))
     /\ UNCHANGED <<access, sessions, sessionGen, guard, marker, spent, bounds, seen>>

ChangeAnswered(r) ==
  /\ At(r, "change", "answered")
  /\ RemoveAllExcept(requests[r].acting)
  /\ Become(r, Free)
  /\ UNCHANGED <<access, guard, claimLock, rotationLock, marker, spent, bounds, seen>>

SetupAnswered(r) ==
  /\ At(r, "setup", "answered")
  /\ sessions' = sessions \cup {[id |-> requests[r].id, password |-> requests[r].new,
                                 by |-> "setup"]}
  /\ Become(r, Free)
  /\ claimLock' = FALSE
  /\ UNCHANGED <<access, sessionGen, guard, rotationLock, marker, spent, bounds, seen>>

\* The sessions go, the guard is cleared, and the assertion that is on disk by
\* now is spent; removing its file may fail.
RecoverAnswered(r) ==
  /\ At(r, "recover", "answered")
  /\ RemoveAllExcept(0)
  /\ guard' = RecordSuccess
  /\ seen' = [seen EXCEPT !.admitted = 0]
  /\ spent' = IF marker # 0 THEN marker ELSE spent
  /\ marker' \in {0, marker}
  /\ Become(r, Free)
  /\ rotationLock' = FALSE
  /\ UNCHANGED <<access, claimLock, bounds>>

(***************************************************************************)
(* The presence marker, which the board writes.                            *)
(***************************************************************************)
AssertPresence ==
  /\ bounds.markers < MaxMarkers
  /\ bounds' = [bounds EXCEPT !.markers = @ + 1]
  /\ marker' = bounds.markers + 1
  /\ UNCHANGED <<access, sessions, sessionGen, guard, requests, claimLock, rotationLock,
                 spent, seen>>

MarkerExpires ==
  /\ marker # 0
  /\ marker' = 0
  /\ UNCHANGED <<access, sessions, sessionGen, guard, requests, claimLock, rotationLock,
                 spent, bounds, seen>>

(***************************************************************************)
(* Faults: apid gives up on a call micad still works on, or is restarted.  *)
(***************************************************************************)
Interrupt(q) == IF q.kind = "recover" /\ q.pc \in {"write", "answered"} THEN {q.marker} ELSE {}

GiveUp(r) ==
  LET q == requests[r]
  IN /\ q.pc = "write"
     /\ Become(r, [q EXCEPT !.pc = "orphan"])
     /\ claimLock' = (claimLock /\ q.kind # "setup")
     /\ rotationLock' = (rotationLock /\ q.kind # "recover")
     /\ seen' = [seen EXCEPT !.interrupted = [k \in 1..MaxMarkers |->
                                                @[k] + Cardinality({k} \cap Interrupt(q))]]
     /\ UNCHANGED <<access, sessions, sessionGen, guard, marker, spent, bounds>>

OrphanLands(r) ==
  LET q == requests[r]
  IN /\ q.pc = "orphan"
     /\ access' = Written(q, access)
     /\ seen' = [Taken(q, access) EXCEPT !.unanswered = @ \/ q.kind \in {"change", "recover"}]
     /\ Become(r, Free)
     /\ UNCHANGED <<sessions, sessionGen, guard, claimLock, rotationLock, marker, spent, bounds>>

\* The guard comes back from its file, or starts clean where the file is
\* unreadable or a write of it failed; the sessions and the memory of the spent
\* assertion do not.
Restart ==
  /\ bounds.restarts < MaxRestarts
  /\ bounds' = [bounds EXCEPT !.restarts = @ + 1]
  /\ sessions' = {} /\ sessionGen' = 0 /\ spent' = 0
  /\ claimLock' = FALSE /\ rotationLock' = FALSE
  /\ requests' = [r \in Requests |->
                    IF requests[r].pc \in {"write", "orphan"}
                    THEN [requests[r] EXCEPT !.pc = "orphan"] ELSE Free]
  /\ \E kept \in BOOLEAN :
       /\ guard' = IF kept THEN guard ELSE RecordSuccess
       /\ seen' = [seen EXCEPT !.admitted = IF kept THEN @ ELSE 0,
                               !.interrupted =
                [k \in 1..MaxMarkers |->
                   @[k] + Cardinality({r \in Requests : k \in Interrupt(requests[r])}
                                      \cup {s \in {spent} : s = k /\ s = marker})]]
  /\ UNCHANGED <<access, marker>>

AdmNext ==
  \/ \E r \in Requests :
       \/ LoginBegin(r) \/ LoginRead(r) \/ LoginVerify(r)
       \/ ChangeBegin(r) \/ MintBegin(r) \/ RevokeBegin(r) \/ Read(r)
       \/ SetupBegin(r) \/ RecoverBegin(r) \/ RecoverAborts(r)
       \/ Write(r) \/ WriteFails(r)
       \/ ChangeAnswered(r) \/ SetupAnswered(r) \/ RecoverAnswered(r)
       \/ GiveUp(r) \/ OrphanLands(r)
  \/ BackoffOver \/ SessionEnds \/ AssertPresence \/ MarkerExpires \/ Restart

AdmSpec == AdmInit /\ [][AdmNext]_admVars

--------------------------------------------------------------------------------
Pending(kinds) == \E r \in Requests : requests[r].kind \in kinds /\ requests[r].pc = "answered"

\* The state has the shape the handlers expect, and each lock is held by the
\* one request of its kind that apid is still serving.
AdmTypeOK ==
  /\ access \in Access
  /\ \A s \in sessions : s.id \in 1..MaxServed /\ s.password \in Passwords
  /\ sessionGen \in Nat
  /\ guard \in [failures : Nat, locked : BOOLEAN]
  /\ marker \in 0..MaxMarkers /\ spent \in 0..MaxMarkers
  /\ claimLock = (\E r \in Requests : requests[r].kind = "setup"
                                      /\ requests[r].pc \in {"write", "answered"})
  /\ rotationLock = (\E r \in Requests : requests[r].kind = "recover"
                                         /\ requests[r].pc \in {"write", "answered"})

\* A session is only as old as the password: once a password change or a
\* recovery has been answered, no session signed in under an earlier password
\* is accepted, a login racing it included.  Excepted are a write apid gave up
\* on and the session setup opens, which is not checked against a later change.
SessionsOfCurrentPassword ==
  seen.unanswered \/ Pending({"change", "recover"})
  \/ \A s \in sessions : s.by = "login" => s.password = access.password

\* Every attempt the guard let through since the last success is in its count,
\* however many were in flight together and whether apid was restarted, unless
\* it then could not read the guard's file (auth.rs, GuardStore::load).
AttemptsCharged == seen.admitted <= guard.failures

\* A device is claimed once: of several setups, over restarts of apid and
\* calls it gave up on, one claims.
ClaimedOnce == seen.claims <= 1

\* One rotation per presence assertion: a second request never reuses it, unless
\* apid stopped between the write and spending the assertion, or was restarted
\* over a spent one whose file it could not remove.
OneRotationPerAssertion ==
  \A k \in 1..MaxMarkers : seen.rotations[k] <= 1 + seen.interrupted[k]

\* Recovery takes every token: one that existed when a recovery wrote `access`
\* never authenticates again.
RecoveryRevokesTokens == access.tokens \cap seen.taken = {}

\* The administrator's access through racing requests, restarts and cut
\* rotations: sessions of the current password only, every guess charged, one
\* claim, and one rotation for an assertion.
AdminSafe ==
    AdmTypeOK /\ SessionsOfCurrentPassword /\ AttemptsCharged /\ ClaimedOnce /\ OneRotationPerAssertion

=============================================================================
