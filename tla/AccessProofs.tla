---------------------------- MODULE AccessProofs ----------------------------
(***************************************************************************)
(* What apid grants, serves and shows while others change it, for any      *)
(* number of requests, passwords, tokens, assertions of presence, codes,   *)
(* connections, bundles, generations, tasks, restarts and power cuts: the  *)
(* administrator of a device, the setup over Bluetooth, the access cache,  *)
(* the console bundle and the task mirror.                                 *)
(*                                                                         *)
(* AdminSafe is not inductive: the invariant adds which request holds      *)
(* which lock, that every password yet to be written is its own, that a    *)
(* login past its reads is judged against the password in force or will be *)
(* refused by its generation, and what every assertion of presence has     *)
(* been and may still be used for. The proof first states what each action *)
(* does to every variable, with the types, and then goes through the       *)
(* actions once for each part.                                             *)
(***************************************************************************)
EXTENDS AdminAccess, ProvisioningSession, AccessCache, UiBundles, TaskMirror,
        FiniteSetTheorems, SequenceTheorems, TLAPS


\* The kinds of request, and the places of one.
Kinds == {"none", "login", "change", "mint", "revoke", "setup", "recover"}
Places == {"free", "read", "verify", "write", "answered", "orphan"}
\* A request, a session, the bounds used and what was seen, field by field.
Req == [kind : Kinds, pc : Places, id : 0..MaxServed, read : Access, typed : Passwords,
        new : Passwords, gen : Nat, acting : 0..MaxServed, token : SUBSET Tokens,
        marker : 0..MaxMarkers]
Session == [id : 1..MaxServed, password : Passwords, by : {"login", "setup"}]
Bounds == [served : 0..MaxServed, password : Passwords, restarts : Nat, markers : 0..MaxMarkers]
Seen == [minted : SUBSET Tokens, taken : SUBSET Tokens, admitted : Nat, claims : Nat,
         rotations : [1..MaxMarkers -> Nat], interrupted : [1..MaxMarkers -> Nat],
         unanswered : BOOLEAN]

\* Where a request of each kind may be.
Placed(q) ==
  \/ q.kind = "none" /\ q.pc = "free"
  \/ q.kind = "login" /\ q.pc \in {"read", "verify"}
  \/ q.kind = "change" /\ q.pc \in {"read", "write", "answered", "orphan"}
  \/ q.kind \in {"mint", "revoke"} /\ q.pc \in {"read", "write", "orphan"}
  \/ q.kind \in {"setup", "recover"} /\ q.pc \in {"write", "answered", "orphan"}

\* What a request carries: the password it sets was numbered for it, the assertion it
\* read was made, the tree it read is no newer than the requests served.
Carries(q) ==
  /\ q.kind \in {"change", "setup", "recover"} => q.new \in 1..bounds.password
  /\ q.kind = "recover" => /\ q.marker \in 1..bounds.markers
                           /\ q.pc # "answered" => q.read.generation < bounds.served
  /\ q.read.generation <= bounds.served
  /\ q.kind # "none" => q.id # 0

\* Types, and what ties the requests under way to the numbers given out.
AdmTypes ==
  /\ access \in Access /\ sessions \subseteq Session /\ sessionGen \in Nat
  /\ guard \in [failures : Nat, locked : BOOLEAN]
  /\ requests \in [Requests -> Req]
  /\ claimLock \in BOOLEAN /\ rotationLock \in BOOLEAN
  /\ marker \in 0..bounds.markers /\ spent \in 0..bounds.markers
  /\ bounds \in Bounds /\ seen \in Seen
  /\ access.generation <= bounds.served /\ access.password <= bounds.password
  /\ \A r \in Requests : Placed(requests[r]) /\ Carries(requests[r])

\* What the assumptions on the constants come to.
LEMMA AdmFacts ==
  /\ MaxServed \in Nat /\ MaxPassword \in Nat \ {0} /\ MaxMarkers \in Nat /\ MaxRestarts \in Nat
  /\ NoTreeRead \in Access /\ NoTreeRead.generation = 0 /\ NoTreeRead.password = 0
  /\ Free \in Req /\ Free.kind = "none" /\ Free.pc = "free" /\ Free.read = NoTreeRead
  /\ Free.new = 0 /\ Free.marker = 0
  BY AdmConstants DEF NoTreeRead, Access, Passwords, Free, Req, Kinds, Places

\* A request moves and the others stay.
LEMMA Becomes ==
  ASSUME requests \in [Requests -> Req], NEW r \in Requests, NEW q \in Req, Become(r, q)
  PROVE /\ requests' \in [Requests -> Req] /\ requests'[r] = q
        /\ \A s \in Requests : s # r => requests'[s] = requests[s]
  BY DEF Become

\* The fields of the bounds.
LEMMA BoundsTyped ==
  ASSUME bounds \in Bounds
  PROVE /\ bounds.served \in 0..MaxServed /\ bounds.password \in Passwords
        /\ bounds.restarts \in Nat /\ bounds.markers \in 0..MaxMarkers
        /\ bounds.served \in Nat /\ bounds.password \in Nat /\ bounds.markers \in Nat
  BY AdmFacts DEF Bounds, Passwords

\* A slot taken by a request q.
LEMMA Serves ==
  ASSUME AdmTypes, NEW r \in Requests, NEW q \in Req, Serve(r, q),
         q.new \in {0, bounds.password + 1}
  PROVE /\ requests[r] = Free
        /\ requests' \in [Requests -> Req] /\ bounds' \in Bounds
        /\ requests'[r] = [q EXCEPT !.id = bounds.served + 1]
        /\ \A s \in Requests : s # r => requests'[s] = requests[s]
        /\ bounds'.served = bounds.served + 1 /\ bounds'.markers = bounds.markers
        /\ bounds'.restarts = bounds.restarts
        /\ bounds'.password = (IF q.new = 0 THEN bounds.password ELSE q.new)
        /\ bounds.served + 1 \in 1..MaxServed
  <1> USE AdmFacts
  <1>1. bounds.served \in 0..MaxServed /\ bounds.password \in Passwords /\ bounds.markers \in 0..MaxMarkers
        /\ bounds \in Bounds /\ bounds.password \in Nat
    BY BoundsTyped DEF AdmTypes
  <1>2. bounds.served + 1 \in 1..MaxServed
    BY <1>1 DEF Serve
  <1>3. q.new \in Passwords
    BY DEF Req
  <1> DEFINE new == [q EXCEPT !.id = bounds.served + 1]
  <1>4. new \in Req
    BY <1>2 DEF Req
  <1>5. requests[r] = Free /\ Become(r, new)
    BY DEF Serve
  <1> HIDE DEF new
  <1>6. /\ requests' \in [Requests -> Req] /\ requests'[r] = new
        /\ \A s \in Requests : s # r => requests'[s] = requests[s]
    BY <1>4, <1>5, Becomes DEF AdmTypes
  <1>7. /\ bounds' \in Bounds
        /\ bounds'.served = bounds.served + 1 /\ bounds'.markers = bounds.markers
        /\ bounds'.restarts = bounds.restarts
        /\ bounds'.password = (IF q.new > bounds.password THEN q.new ELSE bounds.password)
    <2> DEFINE pw == IF q.new > bounds.password THEN q.new ELSE bounds.password
               n == bounds.served + 1
    <2>1. pw \in Passwords /\ n \in 0..MaxServed
      BY <1>1, <1>2, <1>3
    <2>2. bounds' = [bounds EXCEPT !.served = n, !.password = pw]
      BY DEF Serve
    <2> HIDE DEF pw, n
    <2>3. /\ bounds' \in Bounds /\ bounds'.served = n /\ bounds'.markers = bounds.markers
          /\ bounds'.restarts = bounds.restarts /\ bounds'.password = pw
      BY <1>1, <2>1, <2>2 DEF Bounds
    <2> QED BY <2>3 DEF pw, n
  <1>8. bounds'.password = (IF q.new = 0 THEN bounds.password ELSE q.new)
    BY <1>1, <1>7
  <1> QED BY <1>2, <1>5, <1>6, <1>7, <1>8 DEF new

\* What is carried stays right as the bounds are used up.
LEMMA CarriesOn ==
  ASSUME AdmTypes, bounds' \in Bounds, bounds.served <= bounds'.served,
         bounds.password <= bounds'.password, bounds.markers <= bounds'.markers,
         NEW r \in Requests, NEW s \in Requests, requests'[s] = requests[r]
  PROVE Placed(requests[s])' /\ Carries(requests[s])'
  BY AdmFacts DEF AdmTypes, Bounds, Passwords, Req, Access, Placed, Carries

\* A request carries what it must once it is taken in,
LEMMA ServeCarries ==
  ASSUME AdmTypes, NEW r \in Requests, NEW q \in Req, Serve(r, q),
         q.new \in {0, bounds.password + 1}, Placed(q),
         q.kind \in {"change", "setup", "recover"} => q.new # 0,
         q.kind = "recover" => q.marker \in 1..bounds.markers,
         q.read.generation <= bounds.served
  PROVE \A s \in Requests : (Placed(requests[s]) /\ Carries(requests[s]))'
  <1> USE AdmFacts
  <1>1. bounds \in Bounds /\ bounds.served \in Nat /\ bounds.password \in Nat /\ bounds.markers \in Nat
    BY BoundsTyped DEF AdmTypes
  <1>2. /\ bounds' \in Bounds
        /\ requests'[r] = [q EXCEPT !.id = bounds.served + 1]
        /\ \A s \in Requests : s # r => requests'[s] = requests[s]
        /\ bounds'.served = bounds.served + 1 /\ bounds'.markers = bounds.markers
        /\ bounds'.password = (IF q.new = 0 THEN bounds.password ELSE q.new)
    BY Serves
  <1>3. /\ bounds.served <= bounds'.served /\ bounds.password <= bounds'.password
        /\ bounds.markers <= bounds'.markers
    BY <1>1, <1>2
  <1>4. ASSUME NEW s \in Requests, s # r PROVE (Placed(requests[s]) /\ Carries(requests[s]))'
    BY <1>2, <1>3, <1>4, CarriesOn
  <1>5. (Placed(requests[r]) /\ Carries(requests[r]))'
    BY <1>2, <1>1 DEF Req, Access, Passwords, Placed, Carries
  <1> QED BY <1>4, <1>5

\* A request that moves to q while no bound is used.
LEMMA BecomeCarries ==
  ASSUME AdmTypes, NEW r \in Requests, NEW q \in Req, Become(r, q), UNCHANGED bounds,
         Placed(q), Carries(q)
  PROVE /\ requests' \in [Requests -> Req]
        /\ \A s \in Requests : (Placed(requests[s]) /\ Carries(requests[s]))'
  BY Becomes DEF AdmTypes, Placed, Carries

\* and nothing once it ends.
LEMMA FreeCarries == ASSUME AdmTypes PROVE Placed(Free) /\ Carries(Free)
  BY AdmFacts, BoundsTyped DEF Placed, Carries, AdmTypes

\* A step that takes in a request keeps the types,
LEMMA ServedTypes ==
  ASSUME AdmTypes, NEW r \in Requests, NEW q \in Req, Serve(r, q),
         q.new \in {0, bounds.password + 1}, Placed(q),
         q.kind \in {"change", "setup", "recover"} => q.new # 0,
         q.kind = "recover" => q.marker \in 1..bounds.markers,
         q.read.generation <= bounds.served,
         UNCHANGED <<access, sessions, sessionGen, marker, spent>>,
         guard' \in [failures : Nat, locked : BOOLEAN],
         claimLock' \in BOOLEAN, rotationLock' \in BOOLEAN, seen' \in Seen
  PROVE AdmTypes'
  <1>1. \A s \in Requests : (Placed(requests[s]) /\ Carries(requests[s]))'
    BY ServeCarries
  <1>2. /\ requests' \in [Requests -> Req] /\ bounds' \in Bounds
        /\ bounds'.served = bounds.served + 1 /\ bounds'.markers = bounds.markers
        /\ bounds'.password = (IF q.new = 0 THEN bounds.password ELSE q.new)
    BY Serves
  <1>3. /\ bounds.served \in Nat /\ bounds.password \in Nat
        /\ access.generation \in Nat /\ access.password \in Nat
        /\ access.generation <= bounds.served /\ access.password <= bounds.password
    BY BoundsTyped, AdmFacts DEF AdmTypes, Access, Passwords
  <1>4. access.generation <= bounds'.served /\ access.password <= bounds'.password
    BY <1>2, <1>3
  <1> QED BY <1>1, <1>2, <1>4 DEF AdmTypes

\* and so does one that moves a request.
LEMMA MovedTypes ==
  ASSUME AdmTypes, NEW r \in Requests, NEW q \in Req, Become(r, q), UNCHANGED bounds,
         Placed(q), Carries(q), sessions' \subseteq Session, sessionGen' \in Nat,
         guard' \in [failures : Nat, locked : BOOLEAN],
         claimLock' \in BOOLEAN, rotationLock' \in BOOLEAN, seen' \in Seen,
         marker' \in 0..bounds.markers, spent' \in 0..bounds.markers,
         access' \in Access, access'.generation <= bounds.served,
         access'.password <= bounds.password
  PROVE AdmTypes'
  BY BecomeCarries DEF AdmTypes

\* The password a write leaves is the request's own, or the one that was stored.
LEMMA WrittenTyped ==
  ASSUME AdmTypes, NEW r \in Requests, requests[r].pc \in {"write", "orphan"}
  PROVE /\ Written(requests[r], access) \in Access
        /\ Written(requests[r], access).generation <= bounds.served
        /\ Written(requests[r], access).password <= bounds.password
        /\ requests[r].kind \in {"change", "mint", "revoke", "setup", "recover"}
        /\ Written(requests[r], access).password =
             IF \/ requests[r].kind \in {"change", "recover"}
                \/ requests[r].kind = "setup" /\ access.password = 0
             THEN requests[r].new ELSE access.password
  <1> DEFINE q == requests[r]
  <1>1. /\ q \in Req /\ Placed(q) /\ Carries(q) /\ access \in Access
        /\ access.generation <= bounds.served /\ access.password <= bounds.password
        /\ q.pc \in {"write", "orphan"}
    BY DEF AdmTypes
  <1> HIDE DEF q
  <1>2. /\ bounds.served \in 0..MaxServed /\ bounds.served \in Nat /\ bounds.password \in Nat
    BY BoundsTyped DEF AdmTypes
  <1>3. q.kind \in {"change", "mint", "revoke", "setup", "recover"}
    BY <1>1 DEF Placed
  <1>4. q.read \in Access /\ q.new \in Passwords /\ q.token \subseteq Tokens
    BY <1>1 DEF Req
  <1>5. q.read.generation \in Nat /\ q.new \in Nat /\ q.read.generation <= bounds.served
    BY <1>1, <1>4, AdmFacts DEF Access, Passwords, Carries
  <1>6. q.kind \in {"change", "setup", "recover"} => q.new <= bounds.password
    BY <1>1, <1>2, <1>5 DEF Carries
  <1> DEFINE w == Written(q, access)
  <1>7. CASE q.kind = "change"
    BY <1>7, <1>4, <1>3, <1>5, <1>6 DEF Written, Access, q
  <1>8. CASE q.kind = "setup"
    BY <1>8, <1>1, <1>3, <1>4, <1>5, <1>6 DEF Written, q, Access
  <1>9. CASE q.kind = "mint"
    BY <1>9, <1>1, <1>4, <1>3 DEF Written, Access, q
  <1>10. CASE q.kind = "revoke"
    BY <1>10, <1>1, <1>4, <1>3 DEF Written, Access, q
  <1>11. CASE q.kind = "recover"
    <2>1. w = [q.read EXCEPT !.password = q.new, !.tokens = {},
                              !.rotation = FALSE, !.generation = q.read.generation + 1]
      BY <1>11 DEF Written
    <2>2. q.read.generation < bounds.served
      BY <1>11, <1>1 DEF Carries
    <2>3. q.read.generation + 1 \in 0..MaxServed /\ q.read.generation + 1 <= bounds.served
      BY <2>2, <1>2, <1>5, AdmFacts
    <2>4. w \in Access /\ w.generation = q.read.generation + 1 /\ w.password = q.new
      BY <2>1, <2>3, <1>4 DEF Access
    <2> QED BY <2>3, <2>4, <1>3, <1>6, <1>11 DEF q
  <1> QED BY <1>3, <1>7, <1>8, <1>9, <1>10, <1>11

\* What the history records of a write.
LEMMA TakenTyped ==
  ASSUME AdmTypes, NEW r \in Requests, requests[r].pc \in {"write", "orphan"}
  PROVE LET q == requests[r]
            t == Taken(q, access)
        IN /\ t \in Seen /\ t.admitted = seen.admitted /\ t.unanswered = seen.unanswered
           /\ t.interrupted = seen.interrupted
           /\ t.claims = IF q.kind = "setup" /\ Written(q, access).password = q.new
                         THEN seen.claims + 1 ELSE seen.claims
           /\ \A k \in 1..MaxMarkers :
                t.rotations[k] = IF q.kind = "recover" /\ k = q.marker
                                 THEN seen.rotations[k] + 1 ELSE seen.rotations[k]
  <1> DEFINE q == requests[r]
             c == IF q.kind = "setup" /\ Written(q, access).password = q.new
                  THEN seen.claims + 1 ELSE seen.claims
             ro == [k \in 1..MaxMarkers |->
                      IF q.kind = "recover" /\ k = q.marker
                      THEN seen.rotations[k] + 1 ELSE seen.rotations[k]]
             ta == IF q.kind = "recover" THEN seen.taken \cup seen.minted ELSE seen.taken
  <1>1. /\ seen \in Seen /\ seen.claims \in Nat /\ seen.rotations \in [1..MaxMarkers -> Nat]
        /\ seen.taken \subseteq Tokens /\ seen.minted \subseteq Tokens
    BY DEF AdmTypes, Seen
  <1>2. c \in Nat /\ ta \subseteq Tokens
    BY <1>1
  <1>3. ro \in [1..MaxMarkers -> Nat]
    <2> DEFINE f == seen.rotations
    <2>1. f \in [1..MaxMarkers -> Nat]
      BY <1>1
    <2> HIDE DEF f
    <2>2. \A k \in 1..MaxMarkers : f[k] \in Nat
      BY <2>1
    <2>3. \A k \in 1..MaxMarkers : f[k] + 1 \in Nat
      BY <2>2
    <2> QED BY <2>2, <2>3 DEF f
  <1>4. Taken(q, access) = [seen EXCEPT !.taken = ta, !.claims = c, !.rotations = ro]
    BY DEF Taken
  <1>5. \A k \in 1..MaxMarkers :
          ro[k] = IF q.kind = "recover" /\ k = q.marker
                  THEN seen.rotations[k] + 1 ELSE seen.rotations[k]
    OBVIOUS
  <1>6. c = IF q.kind = "setup" /\ Written(q, access).password = q.new
            THEN seen.claims + 1 ELSE seen.claims
    OBVIOUS
  <1> HIDE DEF c, ro, ta
  <1>7. /\ Taken(q, access) \in Seen /\ Taken(q, access).admitted = seen.admitted
        /\ Taken(q, access).unanswered = seen.unanswered
        /\ Taken(q, access).interrupted = seen.interrupted
        /\ Taken(q, access).claims = c /\ Taken(q, access).rotations = ro
    BY <1>1, <1>2, <1>3, <1>4 DEF Seen
  <1> QED BY <1>5, <1>6, <1>7

\* The fields of what was seen.
LEMMA SeenFields ==
  ASSUME seen \in Seen
  PROVE /\ seen.minted \subseteq Tokens /\ seen.taken \subseteq Tokens /\ seen.admitted \in Nat
        /\ seen.claims \in Nat /\ seen.rotations \in [1..MaxMarkers -> Nat]
        /\ seen.interrupted \in [1..MaxMarkers -> Nat] /\ seen.unanswered \in BOOLEAN
  BY DEF Seen

\* A history in which only the count of attempts changed.
LEMMA AdmittedSeen ==
  ASSUME seen \in Seen, NEW n \in Nat, seen' = [seen EXCEPT !.admitted = n]
  PROVE /\ seen' \in Seen /\ seen'.admitted = n /\ seen'.minted = seen.minted
        /\ seen'.taken = seen.taken /\ seen'.claims = seen.claims
        /\ seen'.rotations = seen.rotations /\ seen'.interrupted = seen.interrupted
        /\ seen'.unanswered = seen.unanswered
  BY DEF Seen

\* The throttle stays typed, whatever an attempt does to it.
LEMMA GuardTyped ==
  ASSUME guard \in [failures : Nat, locked : BOOLEAN]
  PROVE /\ BeginAttempt(guard) \in [failures : Nat, locked : BOOLEAN]
        /\ BeginAttempt(guard).failures = guard.failures + 1
        /\ ConfirmFailure(guard) \in [failures : Nat, locked : BOOLEAN]
        /\ ConfirmFailure(guard).failures = guard.failures
        /\ ConfirmFailure(BeginAttempt(guard)) \in [failures : Nat, locked : BOOLEAN]
        /\ ConfirmFailure(BeginAttempt(guard)).failures = guard.failures + 1
        /\ RecordSuccess \in [failures : Nat, locked : BOOLEAN]
        /\ RecordSuccess.failures = 0 /\ guard.failures \in Nat
  <1>1. guard.failures \in Nat /\ guard.failures + 1 \in Nat
    OBVIOUS
  <1>2. /\ BeginAttempt(guard) \in [failures : Nat, locked : BOOLEAN]
        /\ BeginAttempt(guard).failures = guard.failures + 1
    BY <1>1 DEF BeginAttempt
  <1>3. /\ ConfirmFailure(guard) \in [failures : Nat, locked : BOOLEAN]
        /\ ConfirmFailure(guard).failures = guard.failures
    BY DEF ConfirmFailure
  <1>4. /\ ConfirmFailure(BeginAttempt(guard)) \in [failures : Nat, locked : BOOLEAN]
        /\ ConfirmFailure(BeginAttempt(guard)).failures = BeginAttempt(guard).failures
    BY <1>2 DEF ConfirmFailure
  <1>5. RecordSuccess \in [failures : Nat, locked : BOOLEAN] /\ RecordSuccess.failures = 0
    BY DEF RecordSuccess
  <1> QED BY <1>1, <1>2, <1>3, <1>4, <1>5

\* No request but r moves.
Others(r) == \A s \in Requests : s # r => requests'[s] = requests[s]

\* A slot is taken by a request that carries what q does.
Enters(r, q) ==
  /\ requests[r] = Free /\ Others(r)
  /\ requests'[r] \in Req
  /\ requests'[r].kind = q.kind /\ requests'[r].pc = q.pc /\ requests'[r].read = q.read
  /\ requests'[r].new = q.new /\ requests'[r].gen = q.gen /\ requests'[r].marker = q.marker
  /\ bounds'.markers = bounds.markers /\ bounds'.restarts = bounds.restarts
  /\ bounds'.password = (IF q.new = 0 THEN bounds.password ELSE q.new)

\* What taking in a request comes to,
LEMMA ServeEnters ==
  ASSUME AdmTypes, NEW r \in Requests, NEW q \in Req, Serve(r, q),
         q.new \in {0, bounds.password + 1}
  PROVE Enters(r, q)
  <1>1. /\ requests[r] = Free
        /\ requests'[r] = [q EXCEPT !.id = bounds.served + 1]
        /\ requests' \in [Requests -> Req]
        /\ \A s \in Requests : s # r => requests'[s] = requests[s]
        /\ bounds'.markers = bounds.markers /\ bounds'.restarts = bounds.restarts
        /\ bounds'.password = (IF q.new = 0 THEN bounds.password ELSE q.new)
    BY Serves
  <1>2. /\ requests'[r].kind = q.kind /\ requests'[r].pc = q.pc /\ requests'[r].read = q.read
        /\ requests'[r].new = q.new /\ requests'[r].gen = q.gen /\ requests'[r].marker = q.marker
    BY <1>1 DEF Req
  <1> QED BY <1>1, <1>2 DEF Enters, Others

\* The effect of each action, with the types after it.
LEMMA LoginBegins ==
  ASSUME AdmTypes, NEW r \in Requests, LoginBegin(r)
  PROVE /\ AdmTypes'
        /\ \E q \in Req : /\ Enters(r, q) /\ q.kind = "login" /\ q.pc = "read" /\ q.new = 0
                          /\ q.gen = sessionGen
        /\ UNCHANGED <<access, sessions, sessionGen, claimLock, rotationLock, marker, spent>>
        /\ guard'.failures = guard.failures + 1 /\ seen'.admitted = seen.admitted + 1
        /\ seen'.claims = seen.claims /\ seen'.rotations = seen.rotations
        /\ seen'.interrupted = seen.interrupted /\ seen'.unanswered = seen.unanswered
  <1> USE AdmFacts
  <1>1. PICK p \in Passwords : Serve(r, [Free EXCEPT !.kind = "login", !.pc = "read", !.typed = p,
                                               !.gen = sessionGen])
    BY DEF LoginBegin
  <1> DEFINE q == [Free EXCEPT !.kind = "login", !.pc = "read", !.typed = p, !.gen = sessionGen]
  <1>2. /\ q \in Req /\ q.kind = "login" /\ q.pc = "read" /\ q.new = 0 /\ q.read = NoTreeRead
        /\ q.gen = sessionGen
    BY DEF Req, Kinds, Places, AdmTypes, Free
  <1> HIDE DEF q
  <1>3. Serve(r, q)
    BY <1>1 DEF q
  <1>4. guard' \in [failures : Nat, locked : BOOLEAN] /\ guard'.failures = guard.failures + 1
    BY GuardTyped DEF AdmTypes, LoginBegin
  <1>5. /\ seen' \in Seen /\ seen'.admitted = seen.admitted + 1
        /\ seen'.claims = seen.claims /\ seen'.rotations = seen.rotations
        /\ seen'.interrupted = seen.interrupted /\ seen'.unanswered = seen.unanswered
    <2>1. seen \in Seen /\ seen' = [seen EXCEPT !.admitted = seen.admitted + 1]
      BY DEF AdmTypes, LoginBegin, Admitted
    <2>2. seen.admitted + 1 \in Nat
      BY <2>1, SeenFields
    <2> QED BY <2>1, <2>2, AdmittedSeen
  <1>6. UNCHANGED <<access, sessions, sessionGen, claimLock, rotationLock, marker, spent>>
    BY DEF LoginBegin
  <1>7. claimLock \in BOOLEAN /\ rotationLock \in BOOLEAN /\ bounds.served \in Nat
    BY BoundsTyped DEF AdmTypes
  <1>8. Placed(q)
    BY <1>2 DEF Placed
  <1>9. q.read.generation <= bounds.served
    BY <1>2, <1>7
  <1>10. AdmTypes'
    BY <1>2, <1>3, <1>4, <1>5, <1>6, <1>7, <1>8, <1>9, ServedTypes
  <1>11. Enters(r, q)
    BY <1>2, <1>3, ServeEnters
  <1> QED BY <1>2, <1>4, <1>5, <1>6, <1>10, <1>11

LEMMA ChangeBegins ==
  ASSUME AdmTypes, NEW r \in Requests, ChangeBegin(r)
  PROVE /\ AdmTypes'
        /\ \E q \in Req : /\ Enters(r, q) /\ q.kind = "change" /\ q.pc = "read"
                          /\ q.new = bounds.password + 1
        /\ UNCHANGED <<access, sessions, sessionGen, guard, claimLock, rotationLock, marker,
                       spent, seen>>
  <1> USE AdmFacts
  <1>1. PICK acting \in Actor, p \in Passwords :
          Serve(r, [Free EXCEPT !.kind = "change", !.pc = "read", !.typed = p,
                                !.new = NewPassword, !.acting = acting])
    BY DEF ChangeBegin
  <1>2. acting \in 0..MaxServed
    BY DEF Actor, AdmTypes, Session
  <1>3. bounds.password \in Nat /\ bounds.served \in Nat
    BY BoundsTyped DEF AdmTypes
  <1>4. bounds.password + 1 \in Passwords
    BY <1>3 DEF ChangeBegin, NewPassword, Passwords
  <1> DEFINE n == bounds.password + 1
             q == [Free EXCEPT !.kind = "change", !.pc = "read", !.typed = p,
                                !.new = n, !.acting = acting]
  <1> HIDE DEF n
  <1>5. /\ q \in Req /\ q.kind = "change" /\ q.pc = "read" /\ q.new = n /\ q.read = NoTreeRead
    BY <1>2, <1>4 DEF Req, Kinds, Places, Free, n
  <1> HIDE DEF q
  <1>6. Serve(r, q)
    BY <1>1 DEF q, n, NewPassword
  <1>7. UNCHANGED <<access, sessions, sessionGen, guard, claimLock, rotationLock, marker,
                    spent, seen>>
    BY DEF ChangeBegin
  <1>8. Placed(q)
    BY <1>5 DEF Placed
  <1>9. /\ claimLock \in BOOLEAN /\ rotationLock \in BOOLEAN /\ seen \in Seen
        /\ guard \in [failures : Nat, locked : BOOLEAN]
    BY DEF AdmTypes
  <1>10. q.read.generation <= bounds.served /\ q.new # 0 /\ q.new = bounds.password + 1
    BY <1>3, <1>5 DEF n
  <1>11. AdmTypes'
    BY <1>5, <1>6, <1>7, <1>8, <1>9, <1>10, ServedTypes
  <1>12. Enters(r, q)
    BY <1>5, <1>6, <1>10, ServeEnters
  <1> QED BY <1>5, <1>7, <1>10, <1>11, <1>12

LEMMA TokenBegins ==
  ASSUME AdmTypes, NEW r \in Requests, MintBegin(r) \/ RevokeBegin(r)
  PROVE /\ AdmTypes'
        /\ \E q \in Req : /\ Enters(r, q) /\ q.kind \in {"mint", "revoke"} /\ q.pc = "read"
                          /\ q.new = 0
        /\ UNCHANGED <<access, sessions, sessionGen, guard, claimLock, rotationLock, marker, spent>>
        /\ seen'.admitted = seen.admitted /\ seen'.claims = seen.claims
        /\ seen'.rotations = seen.rotations /\ seen'.interrupted = seen.interrupted
        /\ seen'.unanswered = seen.unanswered
  <1> USE AdmFacts
  <1>1. seen \in Seen /\ seen.minted \subseteq Tokens /\ bounds.served \in Nat
    BY SeenFields, BoundsTyped DEF AdmTypes
  <1>2. PICK k \in {"mint", "revoke"}, t \in Tokens :
          /\ Serve(r, [Free EXCEPT !.kind = k, !.pc = "read", !.token = {t}])
          /\ \/ seen' = seen
             \/ seen' = [seen EXCEPT !.minted = seen.minted \cup {t}]
    BY <1>1 DEF MintBegin, RevokeBegin
  <1>3. /\ seen' \in Seen /\ seen'.admitted = seen.admitted /\ seen'.claims = seen.claims
        /\ seen'.rotations = seen.rotations /\ seen'.interrupted = seen.interrupted
        /\ seen'.unanswered = seen.unanswered
    <2> DEFINE m == seen.minted \cup {t}
    <2>1. m \subseteq Tokens
      BY <1>1
    <2>2. seen' = seen \/ seen' = [seen EXCEPT !.minted = m]
      BY <1>2
    <2> HIDE DEF m
    <2> QED BY <1>1, <2>1, <2>2 DEF Seen
  <1> DEFINE q == [Free EXCEPT !.kind = k, !.pc = "read", !.token = {t}]
  <1>4. /\ q \in Req /\ q.kind = k /\ q.pc = "read" /\ q.new = 0 /\ q.read = NoTreeRead
    BY DEF Req, Kinds, Places, Free
  <1> HIDE DEF q
  <1>5. Serve(r, q)
    BY <1>2 DEF q
  <1>6. UNCHANGED <<access, sessions, sessionGen, guard, claimLock, rotationLock, marker, spent>>
    BY DEF MintBegin, RevokeBegin
  <1>7. Placed(q)
    BY <1>4 DEF Placed
  <1>8. /\ claimLock \in BOOLEAN /\ rotationLock \in BOOLEAN
        /\ guard \in [failures : Nat, locked : BOOLEAN]
    BY DEF AdmTypes
  <1>9. q.read.generation <= bounds.served /\ q.kind \notin {"change", "setup", "recover"}
    BY <1>1, <1>4
  <1>10. AdmTypes'
    BY <1>3, <1>4, <1>5, <1>6, <1>7, <1>8, <1>9, ServedTypes
  <1>11. Enters(r, q)
    BY <1>4, <1>5, ServeEnters
  <1> QED BY <1>3, <1>4, <1>6, <1>10, <1>11

LEMMA SetupBegins ==
  ASSUME AdmTypes, NEW r \in Requests, SetupBegin(r)
  PROVE /\ AdmTypes'
        /\ UNCHANGED <<access, sessions, sessionGen, rotationLock, marker, spent>>
        /\ seen'.claims = seen.claims /\ seen'.rotations = seen.rotations
        /\ seen'.interrupted = seen.interrupted /\ seen'.unanswered = seen.unanswered
        /\ \/ /\ \E q \in Req : /\ Enters(r, q) /\ q.kind = "setup" /\ q.pc = "write"
                                /\ q.new = bounds.password + 1
              /\ ~claimLock /\ claimLock' = TRUE
              /\ guard'.failures = 0 /\ seen'.admitted = 0
           \/ /\ UNCHANGED <<requests, claimLock>>
              /\ bounds'.password = bounds.password /\ bounds'.markers = bounds.markers
              /\ guard'.failures = guard.failures + 1 /\ seen'.admitted = seen.admitted + 1
  <1> USE AdmFacts
  <1>1. UNCHANGED <<access, sessions, sessionGen, rotationLock, marker, spent>>
    BY DEF SetupBegin
  <1>2. /\ access \in Access /\ access.generation <= bounds.served /\ seen \in Seen
        /\ guard \in [failures : Nat, locked : BOOLEAN] /\ rotationLock \in BOOLEAN
        /\ claimLock \in BOOLEAN /\ bounds \in Bounds
    BY DEF AdmTypes
  <1>3. /\ bounds.password \in Nat /\ bounds.served \in Nat /\ bounds.served \in 0..MaxServed
        /\ seen.admitted \in Nat /\ access.generation \in Nat
    BY <1>2, BoundsTyped, SeenFields DEF Access
  <1>4. ~claimLock /\ bounds.password + 1 \in Passwords
    BY <1>3 DEF SetupBegin, NewPassword, Passwords
  <1>5. CASE /\ Serve(r, [Free EXCEPT !.kind = "setup", !.pc = "write", !.read = access,
                                     !.new = NewPassword])
             /\ guard' = RecordSuccess
             /\ claimLock' = TRUE
             /\ seen' = [seen EXCEPT !.admitted = 0]
    <2> DEFINE n == bounds.password + 1
               q == [Free EXCEPT !.kind = "setup", !.pc = "write", !.read = access, !.new = n]
    <2> HIDE DEF n
    <2>1. /\ q \in Req /\ q.kind = "setup" /\ q.pc = "write" /\ q.new = n /\ q.read = access
      BY <1>2, <1>4 DEF Req, Kinds, Places, Free, n
    <2> HIDE DEF q
    <2>2. Serve(r, q)
      BY <1>5 DEF q, n, NewPassword
    <2>3. Placed(q)
      BY <2>1 DEF Placed
    <2>4. q.read.generation <= bounds.served /\ q.new # 0 /\ q.new = bounds.password + 1
      BY <1>2, <1>3, <2>1 DEF n
    <2>5. /\ seen' \in Seen /\ seen'.admitted = 0 /\ seen'.claims = seen.claims
          /\ seen'.rotations = seen.rotations /\ seen'.interrupted = seen.interrupted
          /\ seen'.unanswered = seen.unanswered
      BY <1>2, <1>5, AdmittedSeen
    <2>6. guard' \in [failures : Nat, locked : BOOLEAN] /\ guard'.failures = 0
      BY <1>2, <1>5, GuardTyped
    <2>7. claimLock' = TRUE
      BY <1>5
    <2>8. AdmTypes'
      BY <1>1, <1>2, <2>1, <2>2, <2>3, <2>4, <2>5, <2>6, <2>7, ServedTypes
    <2>9. Enters(r, q)
      BY <2>1, <2>2, <2>4, ServeEnters
    <2> QED BY <1>1, <1>4, <2>1, <2>4, <2>5, <2>6, <2>7, <2>8, <2>9
  <1>6. CASE /\ bounds.served < MaxServed
             /\ bounds' = [bounds EXCEPT !.served = @ + 1]
             /\ guard' = ConfirmFailure(BeginAttempt(guard))
             /\ Admitted
             /\ UNCHANGED <<requests, claimLock>>
    <2>1. /\ bounds' \in Bounds /\ bounds'.served = bounds.served + 1
          /\ bounds'.password = bounds.password /\ bounds'.markers = bounds.markers
      <3> DEFINE n == bounds.served + 1
      <3>1. n \in 0..MaxServed
        BY <1>3, <1>6
      <3>2. bounds' = [bounds EXCEPT !.served = n]
        BY <1>6
      <3> HIDE DEF n
      <3>3. /\ bounds' \in Bounds /\ bounds'.served = n
            /\ bounds'.password = bounds.password /\ bounds'.markers = bounds.markers
        BY <1>2, <3>1, <3>2 DEF Bounds
      <3> QED BY <3>3 DEF n
    <2>2. guard' \in [failures : Nat, locked : BOOLEAN] /\ guard'.failures = guard.failures + 1
      BY <1>2, <1>6, GuardTyped
    <2>3. /\ seen' \in Seen /\ seen'.admitted = seen.admitted + 1 /\ seen'.claims = seen.claims
          /\ seen'.rotations = seen.rotations /\ seen'.interrupted = seen.interrupted
          /\ seen'.unanswered = seen.unanswered
      BY <1>3, <1>6, <1>2, AdmittedSeen DEF Admitted
    <2>4. \A s \in Requests : (Placed(requests[s]) /\ Carries(requests[s]))'
      BY <1>2, <1>3, <1>6, <2>1, BoundsTyped, CarriesOn
    <2>5. access.generation <= bounds'.served
      BY <1>2, <1>3, <2>1
    <2>6. AdmTypes'
      BY <1>1, <1>6, <2>1, <2>2, <2>3, <2>4, <2>5 DEF AdmTypes
    <2> QED BY <1>1, <1>6, <2>1, <2>2, <2>3, <2>6
  <1> QED BY <1>5, <1>6 DEF SetupBegin

LEMMA RecoverBegins ==
  ASSUME AdmTypes, NEW r \in Requests, RecoverBegin(r)
  PROVE /\ AdmTypes'
        /\ \E q \in Req : /\ Enters(r, q) /\ q.kind = "recover" /\ q.pc = "write"
                          /\ q.new = bounds.password + 1 /\ q.marker = marker
        /\ ~rotationLock /\ rotationLock' = TRUE /\ marker # 0 /\ marker # spent
        /\ marker \in 1..MaxMarkers /\ access.password # 0
        /\ UNCHANGED <<access, sessions, sessionGen, guard, claimLock, marker, spent, seen>>
  <1> USE AdmFacts
  <1>1. UNCHANGED <<access, sessions, sessionGen, guard, claimLock, marker, spent, seen>>
    BY DEF RecoverBegin
  <1>2. /\ access \in Access /\ access.generation <= bounds.served /\ seen \in Seen
        /\ guard \in [failures : Nat, locked : BOOLEAN]
        /\ claimLock \in BOOLEAN /\ bounds \in Bounds /\ marker \in 0..bounds.markers
    BY DEF AdmTypes
  <1>3. /\ bounds.password \in Nat /\ bounds.served \in Nat /\ bounds.markers \in 0..MaxMarkers
        /\ access.generation \in Nat
    BY <1>2, BoundsTyped DEF Access
  <1>4. ~rotationLock /\ rotationLock' = TRUE /\ bounds.password + 1 \in Passwords
        /\ marker # 0 /\ marker # spent /\ access.password # 0
    BY <1>3 DEF RecoverBegin, NewPassword, Passwords
  <1>5. marker \in 1..bounds.markers /\ marker \in 0..MaxMarkers /\ marker \in 1..MaxMarkers
    BY <1>2, <1>3, <1>4
  <1> DEFINE n == bounds.password + 1
             q == [Free EXCEPT !.kind = "recover", !.pc = "write", !.read = access,
                               !.new = n, !.marker = marker]
  <1> HIDE DEF n
  <1>6. /\ q \in Req /\ q.kind = "recover" /\ q.pc = "write" /\ q.new = n /\ q.read = access
        /\ q.marker = marker
    BY <1>2, <1>4, <1>5 DEF Req, Kinds, Places, Free, n
  <1> HIDE DEF q
  <1>7. Serve(r, q)
    BY DEF RecoverBegin, q, n, NewPassword
  <1>8. Placed(q)
    BY <1>6 DEF Placed
  <1>9. q.read.generation <= bounds.served /\ q.new # 0 /\ q.new = bounds.password + 1
    BY <1>2, <1>3, <1>6 DEF n
  <1>10. AdmTypes'
    BY <1>1, <1>2, <1>4, <1>5, <1>6, <1>7, <1>8, <1>9, ServedTypes
  <1>11. Enters(r, q)
    BY <1>6, <1>7, <1>9, ServeEnters
  <1> QED BY <1>1, <1>4, <1>5, <1>6, <1>9, <1>10, <1>11

\* Request r becomes q, the others stay.
Moves(r, q) == Others(r) /\ requests'[r] = q /\ UNCHANGED bounds

\* and what moving one does; every action below is one of the two or touches no
\* request.
LEMMA BecomeMoves ==
  ASSUME AdmTypes, NEW r \in Requests, NEW q \in Req, Become(r, q), UNCHANGED bounds
  PROVE Moves(r, q)
  BY Becomes DEF Moves, Others, AdmTypes

LEMMA LoginReads ==
  ASSUME AdmTypes, NEW r \in Requests, LoginRead(r)
  PROVE /\ AdmTypes'
        /\ requests[r].kind = "login"
        /\ UNCHANGED <<access, sessions, sessionGen, guard, claimLock, rotationLock, marker,
                       spent, bounds, seen>>
        /\ \/ Moves(r, Free)
           \/ /\ access.password # 0
              /\ \E q \in Req : /\ Moves(r, q) /\ q.kind = "login" /\ q.pc = "verify"
                                /\ q.read = access /\ q.gen = requests[r].gen
  <1> USE AdmFacts
  <1>1. /\ UNCHANGED <<access, sessions, sessionGen, guard, claimLock, rotationLock, marker,
                       spent, bounds, seen>>
        /\ requests[r].kind = "login"
    BY DEF LoginRead, At
  <1>2. /\ access \in Access /\ access.generation <= bounds.served /\ seen \in Seen
        /\ guard \in [failures : Nat, locked : BOOLEAN] /\ sessions \subseteq Session
        /\ claimLock \in BOOLEAN /\ rotationLock \in BOOLEAN /\ sessionGen \in Nat
        /\ marker \in 0..bounds.markers /\ spent \in 0..bounds.markers
        /\ access.password <= bounds.password /\ Carries(requests[r]) /\ requests[r] \in Req
    BY DEF AdmTypes
  <1>3. CASE Become(r, Free)
    BY <1>1, <1>2, <1>3, FreeCarries, MovedTypes, BecomeMoves
  <1>4. CASE access.password # 0 /\ Become(r, [requests[r] EXCEPT !.pc = "verify", !.read = access])
    <2> DEFINE q == [requests[r] EXCEPT !.pc = "verify", !.read = access]
    <2>1. /\ q \in Req /\ q.kind = "login" /\ q.pc = "verify" /\ q.read = access
          /\ q.gen = requests[r].gen /\ q.id = requests[r].id
      BY <1>1, <1>2 DEF Req, Places
    <2> HIDE DEF q
    <2>2. Become(r, q)
      BY <1>4 DEF q
    <2>3. Placed(q) /\ Carries(q)
      BY <1>1, <1>2, <2>1 DEF Placed, Carries
    <2>4. AdmTypes'
      BY <1>1, <1>2, <2>1, <2>2, <2>3, MovedTypes
    <2>5. Moves(r, q)
      BY <1>1, <2>1, <2>2, BecomeMoves
    <2> QED BY <1>1, <1>4, <2>1, <2>4, <2>5
  <1> QED BY <1>3, <1>4 DEF LoginRead

LEMMA Reads ==
  ASSUME AdmTypes, NEW r \in Requests, Read(r)
  PROVE /\ AdmTypes'
        /\ requests[r].kind \in {"change", "mint", "revoke"} /\ requests[r].pc = "read"
        /\ UNCHANGED <<access, sessions, sessionGen, guard, claimLock, rotationLock, marker,
                       spent, bounds, seen>>
        /\ \/ Moves(r, Free)
           \/ \E q \in Req : /\ Moves(r, q) /\ q.kind = requests[r].kind /\ q.pc = "write"
                             /\ q.new = requests[r].new
  <1> USE AdmFacts
  <1>1. /\ UNCHANGED <<access, sessions, sessionGen, guard, claimLock, rotationLock, marker,
                       spent, bounds, seen>>
        /\ requests[r].kind \in {"change", "mint", "revoke"} /\ requests[r].pc = "read"
    BY DEF Read
  <1>2. /\ access \in Access /\ access.generation <= bounds.served /\ seen \in Seen
        /\ guard \in [failures : Nat, locked : BOOLEAN] /\ sessions \subseteq Session
        /\ claimLock \in BOOLEAN /\ rotationLock \in BOOLEAN /\ sessionGen \in Nat
        /\ marker \in 0..bounds.markers /\ spent \in 0..bounds.markers
        /\ access.password <= bounds.password /\ Carries(requests[r]) /\ requests[r] \in Req
    BY DEF AdmTypes
  <1>3. CASE Become(r, Free)
    BY <1>1, <1>2, <1>3, FreeCarries, MovedTypes, BecomeMoves
  <1>4. CASE Become(r, [requests[r] EXCEPT !.pc = "write", !.read = access])
    <2> DEFINE q == [requests[r] EXCEPT !.pc = "write", !.read = access]
    <2>1. /\ q \in Req /\ q.kind = requests[r].kind /\ q.pc = "write" /\ q.read = access
          /\ q.new = requests[r].new /\ q.id = requests[r].id
      BY <1>2 DEF Req, Places
    <2> HIDE DEF q
    <2>2. Become(r, q)
      BY <1>4 DEF q
    <2>3. Placed(q) /\ Carries(q)
      BY <1>1, <1>2, <2>1 DEF Placed, Carries
    <2>4. AdmTypes'
      BY <1>1, <1>2, <2>1, <2>2, <2>3, MovedTypes
    <2>5. Moves(r, q)
      BY <1>1, <2>1, <2>2, BecomeMoves
    <2> QED BY <1>1, <2>1, <2>4, <2>5
  <1> QED BY <1>3, <1>4 DEF Read

LEMMA LoginVerifies ==
  ASSUME AdmTypes, NEW r \in Requests, LoginVerify(r)
  PROVE /\ AdmTypes' /\ Moves(r, Free)
        /\ requests[r].kind = "login" /\ requests[r].pc = "verify"
        /\ UNCHANGED <<access, sessionGen, claimLock, rotationLock, marker, spent, bounds>>
        /\ \/ /\ requests[r].gen = sessionGen
              /\ \E s \in Session : /\ sessions' = sessions \cup {s}
                                    /\ s.password = requests[r].read.password
              /\ guard'.failures = 0 /\ seen'.admitted = 0
           \/ /\ sessions' = sessions /\ guard'.failures = guard.failures
              /\ seen'.admitted = seen.admitted
        /\ seen'.claims = seen.claims /\ seen'.rotations = seen.rotations
        /\ seen'.interrupted = seen.interrupted /\ seen'.unanswered = seen.unanswered
  <1> USE AdmFacts
  <1>1. /\ UNCHANGED <<access, sessionGen, claimLock, rotationLock, marker, spent, bounds>>
        /\ requests[r].kind = "login" /\ requests[r].pc = "verify" /\ Become(r, Free)
    BY DEF LoginVerify, At
  <1>2. /\ access \in Access /\ access.generation <= bounds.served /\ seen \in Seen
        /\ guard \in [failures : Nat, locked : BOOLEAN] /\ sessions \subseteq Session
        /\ claimLock \in BOOLEAN /\ rotationLock \in BOOLEAN /\ sessionGen \in Nat
        /\ marker \in 0..bounds.markers /\ spent \in 0..bounds.markers
        /\ access.password <= bounds.password
    BY DEF AdmTypes
  <1> DEFINE q == requests[r]
  <1>21. q \in Req /\ Carries(q) /\ q.kind = "login"
    BY <1>1 DEF AdmTypes
  <1> HIDE DEF q
  <1>3. Moves(r, Free)
    BY <1>1, BecomeMoves
  <1>4. q.id \in 1..MaxServed /\ q.typed \in Passwords
    BY <1>21 DEF Carries, Req
  <1> DEFINE created == q.typed = q.read.password /\ q.gen = sessionGen
             new == [id |-> q.id, password |-> q.typed, by |-> "login"]
  <1>5. CASE created
    <2>1. sessions' = sessions \cup {new} /\ guard' = RecordSuccess
          /\ seen' = [seen EXCEPT !.admitted = 0]
      BY <1>5 DEF LoginVerify, q
    <2>2. new \in Session /\ new.password = q.read.password
      BY <1>4, <1>5 DEF Session
    <2> HIDE DEF new
    <2>3. /\ seen' \in Seen /\ seen'.admitted = 0 /\ seen'.claims = seen.claims
          /\ seen'.rotations = seen.rotations /\ seen'.interrupted = seen.interrupted
          /\ seen'.unanswered = seen.unanswered
      BY <1>2, <2>1, AdmittedSeen
    <2>4. guard' \in [failures : Nat, locked : BOOLEAN] /\ guard'.failures = 0
      BY <1>2, <2>1, GuardTyped
    <2>5. sessions' \subseteq Session
      BY <1>2, <2>1, <2>2
    <2>6. AdmTypes'
      BY <1>1, <1>2, <2>3, <2>4, <2>5, FreeCarries, MovedTypes
    <2>7. requests[r].gen = sessionGen
      BY <1>5 DEF q
    <2>8. \E s \in Session : sessions' = sessions \cup {s} /\ s.password = requests[r].read.password
      BY <2>1, <2>2 DEF q
    <2> QED BY <1>1, <1>3, <2>3, <2>4, <2>6, <2>7, <2>8
  <1>6. CASE ~created
    BY <1>6, <1>2, GuardTyped, <1>1, FreeCarries, MovedTypes, <1>3 DEF LoginVerify, q
  <1> QED BY <1>5, <1>6

\* A request ends and leaves `access` as it is.
LEMMA Ends ==
  ASSUME AdmTypes, NEW r \in Requests, Become(r, Free), UNCHANGED <<access, bounds>>,
         sessions' \subseteq Session, sessionGen' \in Nat,
         guard' \in [failures : Nat, locked : BOOLEAN],
         claimLock' \in BOOLEAN, rotationLock' \in BOOLEAN, seen' \in Seen,
         marker' \in 0..bounds.markers, spent' \in 0..bounds.markers
  PROVE AdmTypes' /\ Moves(r, Free)
  BY FreeCarries, AdmFacts, MovedTypes, BecomeMoves DEF AdmTypes

LEMMA Drops ==
  ASSUME AdmTypes, NEW r \in Requests, RecoverAborts(r) \/ WriteFails(r)
  PROVE /\ AdmTypes' /\ Moves(r, Free)
        /\ requests[r].pc \in {"write", "orphan"}
        /\ claimLock' = (claimLock /\ (requests[r].pc = "orphan" \/ requests[r].kind # "setup"))
        /\ rotationLock' = (rotationLock /\ (requests[r].pc = "orphan" \/ requests[r].kind # "recover"))
        /\ UNCHANGED <<access, sessions, sessionGen, guard, marker, spent, bounds, seen>>
  BY Ends DEF AdmTypes, RecoverAborts, At, WriteFails

\* Ending the sessions but the acting one, which is moved to the current password.
LEMMA Removes ==
  ASSUME AdmTypes, NEW acting, RemoveAllExcept(acting)
  PROVE /\ sessions' \subseteq Session /\ sessionGen' = sessionGen + 1 /\ sessionGen' \in Nat
        /\ \A s \in sessions' : s.password = access.password
        /\ acting = 0 => sessions' = {}
        /\ \A s \in sessions' : \E t \in sessions : t.by = s.by
  BY DEF AdmTypes, Access, RemoveAllExcept, Session

LEMMA ChangeAnswers ==
  ASSUME AdmTypes, NEW r \in Requests, ChangeAnswered(r)
  PROVE /\ AdmTypes' /\ Moves(r, Free)
        /\ requests[r].kind = "change" /\ requests[r].pc = "answered"
        /\ sessionGen' = sessionGen + 1
        /\ \A s \in sessions' : s.password = access.password
        /\ \A s \in sessions' : \E t \in sessions : t.by = s.by
        /\ UNCHANGED <<access, guard, claimLock, rotationLock, marker, spent, bounds, seen>>
  BY Removes, Ends DEF AdmTypes, ChangeAnswered, At

LEMMA SetupAnswers ==
  ASSUME AdmTypes, NEW r \in Requests, SetupAnswered(r)
  PROVE /\ AdmTypes' /\ Moves(r, Free)
        /\ requests[r].kind = "setup" /\ requests[r].pc = "answered"
        /\ claimLock' = FALSE
        /\ \E s \in Session : sessions' = sessions \cup {s} /\ s.by = "setup"
        /\ UNCHANGED <<access, sessionGen, guard, rotationLock, marker, spent, bounds, seen>>
  <1>1. /\ seen \in Seen /\ guard \in [failures : Nat, locked : BOOLEAN]
        /\ sessionGen \in Nat /\ rotationLock \in BOOLEAN /\ sessions \subseteq Session
        /\ marker \in 0..bounds.markers /\ spent \in 0..bounds.markers
    BY DEF AdmTypes
  <1>2. /\ requests[r].kind = "setup" /\ requests[r].pc = "answered" /\ Become(r, Free)
        /\ UNCHANGED <<access, sessionGen, guard, rotationLock, marker, spent, bounds, seen>>
        /\ claimLock' = FALSE
    BY DEF SetupAnswered, At
  <1> DEFINE q == requests[r]
             new == [id |-> q.id, password |-> q.new, by |-> "setup"]
  <1>3. q \in Req /\ Carries(q) /\ q.kind = "setup"
    BY <1>2 DEF AdmTypes
  <1>4. sessions' = sessions \cup {new}
    BY DEF SetupAnswered
  <1> HIDE DEF q
  <1>5. q.id \in 1..MaxServed /\ q.new \in Passwords
    BY <1>3, AdmFacts DEF Req, Carries
  <1>6. new \in Session /\ new.by = "setup"
    BY <1>5 DEF Session
  <1> HIDE DEF new
  <1>7. sessions' \subseteq Session
    BY <1>1, <1>4, <1>6
  <1>8. AdmTypes' /\ Moves(r, Free)
    BY <1>1, <1>2, <1>7, Ends
  <1> QED BY <1>2, <1>4, <1>6, <1>8

LEMMA RecoverAnswers ==
  ASSUME AdmTypes, NEW r \in Requests, RecoverAnswered(r)
  PROVE /\ AdmTypes' /\ Moves(r, Free)
        /\ requests[r].kind = "recover" /\ requests[r].pc = "answered"
        /\ sessionGen' = sessionGen + 1 /\ sessions' = {} /\ rotationLock' = FALSE
        /\ guard'.failures = 0 /\ seen'.admitted = 0
        /\ spent' = (IF marker # 0 THEN marker ELSE spent) /\ marker' \in {0, marker}
        /\ seen'.claims = seen.claims /\ seen'.rotations = seen.rotations
        /\ seen'.interrupted = seen.interrupted /\ seen'.unanswered = seen.unanswered
        /\ UNCHANGED <<access, claimLock, bounds>>
  <1>1. /\ seen \in Seen /\ guard \in [failures : Nat, locked : BOOLEAN] /\ claimLock \in BOOLEAN
        /\ marker \in 0..bounds.markers /\ spent \in 0..bounds.markers
    BY DEF AdmTypes
  <1>2. /\ requests[r].kind = "recover" /\ requests[r].pc = "answered" /\ Become(r, Free)
        /\ UNCHANGED <<access, claimLock, bounds>>
        /\ RemoveAllExcept(0) /\ guard' = RecordSuccess /\ rotationLock' = FALSE
        /\ seen' = [seen EXCEPT !.admitted = 0]
        /\ spent' = (IF marker # 0 THEN marker ELSE spent) /\ marker' \in {0, marker}
    BY DEF RecoverAnswered, At
  <1>3. /\ sessions' \subseteq Session /\ sessionGen' = sessionGen + 1 /\ sessionGen' \in Nat
        /\ sessions' = {}
    BY <1>2, Removes
  <1>4. /\ seen' \in Seen /\ seen'.admitted = 0 /\ seen'.claims = seen.claims
        /\ seen'.rotations = seen.rotations /\ seen'.interrupted = seen.interrupted
        /\ seen'.unanswered = seen.unanswered
    BY <1>1, <1>2, AdmittedSeen
  <1>5. guard' \in [failures : Nat, locked : BOOLEAN] /\ guard'.failures = 0
    BY <1>1, <1>2, GuardTyped
  <1>6. marker' \in 0..bounds.markers /\ spent' \in 0..bounds.markers
    BY BoundsTyped, <1>1, <1>2 DEF AdmTypes
  <1>7. AdmTypes' /\ Moves(r, Free)
    BY <1>1, <1>2, <1>3, <1>4, <1>5, <1>6, Ends
  <1> QED BY <1>2, <1>3, <1>4, <1>5, <1>7

\* The request holds lock k: apid has not answered it.
Holds(q, k) == q.kind = k /\ q.pc \in {"write", "answered"}

LEMMA GivesUp ==
  ASSUME AdmTypes, NEW r \in Requests, GiveUp(r)
  PROVE /\ AdmTypes' /\ requests[r].pc = "write"
        /\ \E q \in Req : /\ Moves(r, q) /\ q.kind = requests[r].kind /\ q.pc = "orphan"
                          /\ q.new = requests[r].new /\ q.marker = requests[r].marker
        /\ claimLock' = (claimLock /\ requests[r].kind # "setup")
        /\ rotationLock' = (rotationLock /\ requests[r].kind # "recover")
        /\ seen'.admitted = seen.admitted /\ seen'.claims = seen.claims
        /\ seen'.rotations = seen.rotations /\ seen'.unanswered = seen.unanswered
        /\ \A k \in 1..MaxMarkers :
             seen'.interrupted[k] = IF requests[r].kind = "recover" /\ k = requests[r].marker
                                    THEN seen.interrupted[k] + 1 ELSE seen.interrupted[k]
        /\ UNCHANGED <<access, sessions, sessionGen, guard, marker, spent, bounds>>
  <1>1. /\ access \in Access /\ access.generation <= bounds.served /\ seen \in Seen
        /\ guard \in [failures : Nat, locked : BOOLEAN] /\ sessions \subseteq Session
        /\ claimLock \in BOOLEAN /\ rotationLock \in BOOLEAN /\ sessionGen \in Nat
        /\ marker \in 0..bounds.markers /\ spent \in 0..bounds.markers
        /\ access.password <= bounds.password
        /\ requests[r] \in Req /\ Carries(requests[r]) /\ Placed(requests[r])
    BY DEF AdmTypes
  <1>2. /\ requests[r].pc = "write"
        /\ claimLock' = (claimLock /\ requests[r].kind # "setup")
        /\ rotationLock' = (rotationLock /\ requests[r].kind # "recover")
        /\ UNCHANGED <<access, sessions, sessionGen, guard, marker, spent, bounds>>
    BY DEF GiveUp
  <1> DEFINE q == [requests[r] EXCEPT !.pc = "orphan"]
             i == [k \in 1..MaxMarkers |->
                     seen.interrupted[k] + Cardinality({k} \cap Interrupt(requests[r]))]
  <1>3. Become(r, q) /\ seen' = [seen EXCEPT !.interrupted = i]
    BY DEF GiveUp
  <1>4. /\ q \in Req /\ q.kind = requests[r].kind /\ q.pc = "orphan" /\ q.read = requests[r].read
        /\ q.new = requests[r].new /\ q.marker = requests[r].marker /\ q.id = requests[r].id
    BY <1>1 DEF Req, Places
  <1> HIDE DEF q
  <1>5. Placed(q) /\ Carries(q)
    BY <1>1, <1>2, <1>4 DEF Placed, Carries
  <1>6. \A k \in 1..MaxMarkers : seen.interrupted[k] \in Nat
    BY <1>1, SeenFields
  <1>7. ASSUME NEW k \in 1..MaxMarkers
        PROVE Cardinality({k} \cap Interrupt(requests[r])) =
                IF requests[r].kind = "recover" /\ k = requests[r].marker THEN 1 ELSE 0
    <2>1. {k} \cap Interrupt(requests[r]) =
            IF requests[r].kind = "recover" /\ k = requests[r].marker THEN {k} ELSE {}
      BY <1>2 DEF Interrupt
    <2> QED BY <2>1, FS_EmptySet, FS_Singleton
  <1>8. \A k \in 1..MaxMarkers :
          i[k] = IF requests[r].kind = "recover" /\ k = requests[r].marker
                 THEN seen.interrupted[k] + 1 ELSE seen.interrupted[k]
    BY <1>6, <1>7
  <1>9. i \in [1..MaxMarkers -> Nat]
    BY <1>6, <1>7
  <1> HIDE DEF i
  <1>10. /\ seen' \in Seen /\ seen'.admitted = seen.admitted /\ seen'.claims = seen.claims
         /\ seen'.rotations = seen.rotations /\ seen'.unanswered = seen.unanswered
         /\ seen'.interrupted = i
    BY <1>1, <1>3, <1>9 DEF Seen
  <1>11. claimLock' \in BOOLEAN /\ rotationLock' \in BOOLEAN
    BY <1>2
  <1>12. AdmTypes'
    BY <1>1, <1>2, <1>3, <1>4, <1>5, <1>10, <1>11, MovedTypes
  <1>13. Moves(r, q)
    BY <1>2, <1>3, <1>4, BecomeMoves
  <1> QED BY <1>2, <1>4, <1>8, <1>10, <1>12, <1>13

\* The write of a request reaches micad, while apid waits for it or after.
LEMMA Writes ==
  ASSUME AdmTypes, NEW r \in Requests, Write(r)
  PROVE /\ AdmTypes' /\ requests[r].pc = "write"
        /\ requests[r].kind \in {"change", "mint", "revoke", "setup", "recover"}
        /\ access'.password = (IF \/ requests[r].kind \in {"change", "recover"}
                                  \/ requests[r].kind = "setup" /\ access.password = 0
                               THEN requests[r].new ELSE access.password)
        /\ \E q \in Req : /\ Moves(r, q)
                          /\ IF \/ requests[r].kind \in {"mint", "revoke"}
                                \/ requests[r].kind = "setup" /\ access.password # 0
                             THEN q = Free
                             ELSE /\ q.kind = requests[r].kind /\ q.pc = "answered"
                                  /\ q.marker = requests[r].marker
        /\ claimLock' = (claimLock /\ ~(requests[r].kind = "setup" /\ access.password # 0))
        /\ seen'.admitted = seen.admitted /\ seen'.unanswered = seen.unanswered
        /\ seen'.interrupted = seen.interrupted
        /\ seen'.claims = (IF requests[r].kind = "setup" /\ access'.password = requests[r].new
                           THEN seen.claims + 1 ELSE seen.claims)
        /\ \A k \in 1..MaxMarkers :
             seen'.rotations[k] = IF requests[r].kind = "recover" /\ k = requests[r].marker
                                  THEN seen.rotations[k] + 1 ELSE seen.rotations[k]
        /\ UNCHANGED <<sessions, sessionGen, guard, rotationLock, marker, spent, bounds>>
  <1> USE AdmFacts
  <1>1. /\ guard \in [failures : Nat, locked : BOOLEAN] /\ sessions \subseteq Session
        /\ claimLock \in BOOLEAN /\ rotationLock \in BOOLEAN /\ sessionGen \in Nat
        /\ marker \in 0..bounds.markers /\ spent \in 0..bounds.markers
        /\ requests[r] \in Req /\ Carries(requests[r]) /\ Placed(requests[r])
        /\ bounds.served \in Nat
    BY BoundsTyped DEF AdmTypes
  <1> DEFINE refused == requests[r].kind = "setup" /\ access.password # 0
             next == [requests[r] EXCEPT !.pc = "answered", !.read = NoTreeRead]
             q == IF requests[r].kind \in {"mint", "revoke"} \/ refused THEN Free ELSE next
  <1>2. /\ requests[r].pc = "write" /\ access' = Written(requests[r], access)
        /\ seen' = Taken(requests[r], access) /\ Become(r, q)
        /\ claimLock' = (claimLock /\ ~refused)
        /\ UNCHANGED <<sessions, sessionGen, guard, rotationLock, marker, spent, bounds>>
    BY DEF Write
  <1>3. /\ access' \in Access /\ access'.generation <= bounds.served
        /\ access'.password <= bounds.password
        /\ requests[r].kind \in {"change", "mint", "revoke", "setup", "recover"}
        /\ access'.password = (IF \/ requests[r].kind \in {"change", "recover"}
                                  \/ requests[r].kind = "setup" /\ access.password = 0
                               THEN requests[r].new ELSE access.password)
    BY <1>2, WrittenTyped
  <1>4. /\ seen' \in Seen
        /\ seen'.admitted = seen.admitted /\ seen'.unanswered = seen.unanswered
        /\ seen'.interrupted = seen.interrupted
        /\ seen'.claims = (IF requests[r].kind = "setup" /\ access'.password = requests[r].new
                           THEN seen.claims + 1 ELSE seen.claims)
        /\ \A k \in 1..MaxMarkers :
             seen'.rotations[k] = IF requests[r].kind = "recover" /\ k = requests[r].marker
                                  THEN seen.rotations[k] + 1 ELSE seen.rotations[k]
    BY <1>2, TakenTyped
  <1>5. /\ next \in Req /\ next.kind = requests[r].kind /\ next.pc = "answered"
        /\ next.marker = requests[r].marker /\ next.new = requests[r].new
        /\ next.id = requests[r].id /\ next.read = NoTreeRead
    BY <1>1 DEF Req, Places
  <1> HIDE DEF next
  <1>6. CASE requests[r].kind \in {"mint", "revoke"} \/ refused
    <2>1. q = Free /\ Placed(q) /\ Carries(q) /\ q \in Req
      BY <1>6, FreeCarries
    <2> HIDE DEF q
    <2>2. AdmTypes'
      BY <1>1, <1>2, <1>3, <1>4, <2>1, MovedTypes
    <2>3. Moves(r, q)
      BY <1>2, <2>1, BecomeMoves
    <2> QED BY <1>2, <1>3, <1>4, <1>6, <2>1, <2>2, <2>3
  <1>7. CASE ~(requests[r].kind \in {"mint", "revoke"} \/ refused)
    <2>1. q = next
      BY <1>7
    <2>2. q \in Req /\ q.kind = requests[r].kind /\ q.pc = "answered" /\ q.marker = requests[r].marker
      BY <2>1, <1>5
    <2>3. Placed(q)
      BY <1>3, <1>7, <2>2 DEF Placed
    <2>4. Carries(q)
      BY <1>1, <1>5, <2>1 DEF Carries
    <2> HIDE DEF q
    <2>5. AdmTypes'
      BY <1>1, <1>2, <1>3, <1>4, <2>2, <2>3, <2>4, MovedTypes
    <2>6. Moves(r, q)
      BY <1>2, <2>2, BecomeMoves
    <2> QED BY <1>2, <1>3, <1>4, <1>7, <2>2, <2>5, <2>6
  <1> QED BY <1>6, <1>7

LEMMA OrphanWrites ==
  ASSUME AdmTypes, NEW r \in Requests, OrphanLands(r)
  PROVE /\ AdmTypes' /\ requests[r].pc = "orphan" /\ Moves(r, Free)
        /\ requests[r].kind \in {"change", "mint", "revoke", "setup", "recover"}
        /\ access'.password = (IF \/ requests[r].kind \in {"change", "recover"}
                                  \/ requests[r].kind = "setup" /\ access.password = 0
                               THEN requests[r].new ELSE access.password)
        /\ seen'.admitted = seen.admitted
        /\ seen'.unanswered = (seen.unanswered \/ requests[r].kind \in {"change", "recover"})
        /\ seen'.interrupted = seen.interrupted
        /\ seen'.claims = (IF requests[r].kind = "setup" /\ access'.password = requests[r].new
                           THEN seen.claims + 1 ELSE seen.claims)
        /\ \A k \in 1..MaxMarkers :
             seen'.rotations[k] = IF requests[r].kind = "recover" /\ k = requests[r].marker
                                  THEN seen.rotations[k] + 1 ELSE seen.rotations[k]
        /\ UNCHANGED <<sessions, sessionGen, guard, claimLock, rotationLock, marker, spent, bounds>>
  <1> USE AdmFacts
  <1>1. /\ guard \in [failures : Nat, locked : BOOLEAN] /\ sessions \subseteq Session
        /\ claimLock \in BOOLEAN /\ rotationLock \in BOOLEAN /\ sessionGen \in Nat
        /\ marker \in 0..bounds.markers /\ spent \in 0..bounds.markers
        /\ bounds.served \in Nat /\ seen.unanswered \in BOOLEAN
    BY BoundsTyped, SeenFields DEF AdmTypes
  <1> DEFINE t == Taken(requests[r], access)
             u == t.unanswered \/ requests[r].kind \in {"change", "recover"}
  <1>2. /\ requests[r].pc = "orphan" /\ access' = Written(requests[r], access)
        /\ seen' = [t EXCEPT !.unanswered = u] /\ Become(r, Free)
        /\ UNCHANGED <<sessions, sessionGen, guard, claimLock, rotationLock, marker, spent, bounds>>
    BY DEF OrphanLands
  <1>3. /\ access' \in Access /\ access'.generation <= bounds.served
        /\ access'.password <= bounds.password
        /\ requests[r].kind \in {"change", "mint", "revoke", "setup", "recover"}
        /\ access'.password = (IF \/ requests[r].kind \in {"change", "recover"}
                                  \/ requests[r].kind = "setup" /\ access.password = 0
                               THEN requests[r].new ELSE access.password)
    BY <1>2, WrittenTyped
  <1>4. /\ t \in Seen
        /\ t.admitted = seen.admitted /\ t.unanswered = seen.unanswered
        /\ t.interrupted = seen.interrupted
        /\ t.claims = (IF requests[r].kind = "setup" /\ access'.password = requests[r].new
                           THEN seen.claims + 1 ELSE seen.claims)
        /\ \A k \in 1..MaxMarkers :
             t.rotations[k] = IF requests[r].kind = "recover" /\ k = requests[r].marker
                                  THEN seen.rotations[k] + 1 ELSE seen.rotations[k]
    BY <1>2, TakenTyped
  <1>5. u \in BOOLEAN
    BY <1>1, <1>4
  <1>6. u = (seen.unanswered \/ requests[r].kind \in {"change", "recover"})
    BY <1>4
  <1> HIDE DEF t, u
  <1>7. /\ seen' \in Seen /\ seen'.admitted = t.admitted /\ seen'.unanswered = u
        /\ seen'.interrupted = t.interrupted /\ seen'.claims = t.claims
        /\ seen'.rotations = t.rotations
    BY <1>2, <1>4, <1>5 DEF Seen
  <1>8. AdmTypes'
    BY <1>1, <1>2, <1>3, <1>7, FreeCarries, MovedTypes
  <1>9. Moves(r, Free)
    BY <1>2, BecomeMoves
  <1> QED BY <1>2, <1>3, <1>4, <1>6, <1>7, <1>8, <1>9

LEMMA Asides ==
  ASSUME AdmTypes, BackoffOver \/ SessionEnds \/ AssertPresence \/ MarkerExpires
  PROVE /\ AdmTypes'
        /\ UNCHANGED <<access, sessionGen, requests, claimLock, rotationLock, spent, seen>>
        /\ bounds'.password = bounds.password
        /\ sessions' \subseteq sessions /\ guard'.failures = guard.failures
        /\ \/ UNCHANGED <<marker, bounds>>
           \/ marker # 0 /\ marker' = 0 /\ UNCHANGED bounds
           \/ marker' = bounds.markers + 1 /\ bounds'.markers = bounds.markers + 1
  <1>1. CASE BackoffOver \/ SessionEnds
    BY <1>1 DEF BackoffOver, SessionEnds, AdmTypes, Placed, Carries
  <1>2. CASE MarkerExpires
    BY <1>2, BoundsTyped DEF MarkerExpires, AdmTypes, Placed, Carries
  <1>3. CASE AssertPresence
    <2>1. /\ UNCHANGED <<access, sessions, sessionGen, guard, requests, claimLock, rotationLock,
                 spent, seen>>
          /\ marker' = bounds.markers + 1 /\ bounds.markers < MaxMarkers
      BY <1>3 DEF AssertPresence
    <2>2. bounds \in Bounds /\ bounds.markers \in 0..MaxMarkers /\ bounds.markers \in Nat
          /\ bounds.password \in Nat /\ bounds.served \in Nat
      BY BoundsTyped DEF AdmTypes
    <2>3. /\ bounds' \in Bounds /\ bounds'.markers = bounds.markers + 1
          /\ bounds'.password = bounds.password /\ bounds'.served = bounds.served
      <3> DEFINE n == bounds.markers + 1
      <3>1. n \in 0..MaxMarkers
        BY <2>1, <2>2, AdmFacts
      <3>2. bounds' = [bounds EXCEPT !.markers = n]
        BY <1>3 DEF AssertPresence
      <3> HIDE DEF n
      <3>3. /\ bounds' \in Bounds /\ bounds'.markers = n
            /\ bounds'.password = bounds.password /\ bounds'.served = bounds.served
        BY <2>2, <3>1, <3>2 DEF Bounds
      <3> QED BY <3>3 DEF n
    <2>4. \A s \in Requests : (Placed(requests[s]) /\ Carries(requests[s]))'
      BY <2>2, <2>3, <2>1, CarriesOn
    <2>5. marker' \in 0..bounds'.markers /\ spent' \in 0..bounds'.markers
      BY <2>1, <2>2, <2>3 DEF AdmTypes
    <2>6. AdmTypes'
      BY <2>1, <2>3, <2>4, <2>5 DEF AdmTypes
    <2> QED BY <2>1, <2>3, <2>6
  <1> QED BY <1>1, <1>2, <1>3

LEMMA Restarts ==
  ASSUME AdmTypes, Restart
  PROVE /\ AdmTypes'
        /\ sessions' = {} /\ sessionGen' = 0 /\ spent' = 0
        /\ claimLock' = FALSE /\ rotationLock' = FALSE
        /\ UNCHANGED <<access, marker>>
        /\ \/ guard' = guard /\ seen'.admitted = seen.admitted
           \/ guard' = RecordSuccess /\ seen'.admitted = 0
        /\ bounds'.password = bounds.password /\ bounds'.markers = bounds.markers
        /\ \A r \in Requests :
             IF requests[r].pc \in {"write", "orphan"}
             THEN /\ requests'[r].kind = requests[r].kind /\ requests'[r].pc = "orphan"
                  /\ requests'[r].new = requests[r].new /\ requests'[r].marker = requests[r].marker
             ELSE requests'[r] = Free
        /\ seen'.claims = seen.claims
        /\ seen'.rotations = seen.rotations /\ seen'.unanswered = seen.unanswered
        /\ \A k \in 1..MaxMarkers :
             /\ seen'.interrupted[k] >= seen.interrupted[k]
             /\ \/ spent = k /\ spent = marker
                \/ \E r \in Requests : Holds(requests[r], "recover") /\ requests[r].marker = k
                => seen'.interrupted[k] >= seen.interrupted[k] + 1
  <1> USE AdmFacts
  <1>1. /\ sessions' = {} /\ sessionGen' = 0 /\ spent' = 0
        /\ claimLock' = FALSE /\ rotationLock' = FALSE
        /\ UNCHANGED <<access, marker>>
    BY DEF Restart
  <1>2. /\ bounds' \in Bounds /\ bounds'.password = bounds.password
        /\ bounds'.markers = bounds.markers /\ bounds'.served = bounds.served
    BY BoundsTyped DEF AdmTypes, Restart, Bounds
  <1>3. ASSUME NEW r \in Requests
        PROVE /\ requests'[r] \in Req
              /\ IF requests[r].pc \in {"write", "orphan"}
                 THEN /\ requests'[r].kind = requests[r].kind /\ requests'[r].pc = "orphan"
                      /\ requests'[r].new = requests[r].new
                      /\ requests'[r].marker = requests[r].marker
                      /\ requests'[r].read = requests[r].read /\ requests'[r].id = requests[r].id
                 ELSE requests'[r] = Free
    BY DEF Restart, AdmTypes, Req, Places
  <1>4. requests' \in [Requests -> Req]
    BY <1>3 DEF Restart
  <1>5. ASSUME NEW r \in Requests PROVE (Placed(requests[r]) /\ Carries(requests[r]))'
    BY BoundsTyped, <1>2, <1>3 DEF AdmTypes, Placed, Carries
  <1> DEFINE C(k) == {r \in Requests : k \in Interrupt(requests[r])}
                     \cup {s \in {spent} : s = k /\ s = marker}
             i == [k \in 1..MaxMarkers |-> seen.interrupted[k] + Cardinality(C(k))]
  <1>6. ASSUME NEW k \in 1..MaxMarkers
        PROVE /\ IsFiniteSet(C(k)) /\ Cardinality(C(k)) \in Nat
              /\ C(k) # {} => Cardinality(C(k)) # 0
    <2>1. IsFiniteSet(Requests \cup {spent})
      BY AdmConstants, FS_AddElement
    <2>2. C(k) \subseteq Requests \cup {spent}
      OBVIOUS
    <2>3. IsFiniteSet(C(k))
      BY <2>1, <2>2, FS_Subset
    <2> QED BY <2>3, FS_CardinalityType, FS_EmptySet
  <1>7. ASSUME NEW k \in 1..MaxMarkers,
               \/ spent = k /\ spent = marker
               \/ \E r \in Requests : Holds(requests[r], "recover") /\ requests[r].marker = k
        PROVE C(k) # {}
    BY <1>7 DEF Interrupt, Holds
  <1>8. seen \in Seen /\ \A k \in 1..MaxMarkers : seen.interrupted[k] \in Nat
    BY SeenFields DEF AdmTypes
  <1>9. PICK a \in Nat : /\ seen' = [seen EXCEPT !.admitted = a, !.interrupted = i]
                         /\ \/ guard' = guard /\ a = seen.admitted
                            \/ guard' = RecordSuccess /\ a = 0
    BY <1>8, SeenFields DEF Restart
  <1> HIDE DEF C
  <1>10. \A k \in 1..MaxMarkers : i[k] = seen.interrupted[k] + Cardinality(C(k))
    OBVIOUS
  <1>11. i \in [1..MaxMarkers -> Nat]
    BY <1>6, <1>8
  <1> HIDE DEF i
  <1>12. /\ seen' \in Seen /\ seen'.admitted = a /\ seen'.claims = seen.claims
         /\ seen'.rotations = seen.rotations /\ seen'.unanswered = seen.unanswered
         /\ seen'.interrupted = i
    BY <1>8, <1>9, <1>11 DEF Seen
  <1>13. ASSUME NEW k \in 1..MaxMarkers
         PROVE /\ seen'.interrupted[k] >= seen.interrupted[k]
               /\ C(k) # {} => seen'.interrupted[k] >= seen.interrupted[k] + 1
    BY <1>10, <1>12, <1>6, <1>8
  <1>14. AdmTypes'
    <2>1. 0 \in 0..bounds.markers
      BY BoundsTyped DEF AdmTypes
    <2>2. guard' \in [failures : Nat, locked : BOOLEAN]
      BY <1>9, GuardTyped DEF AdmTypes
    <2> QED BY <1>1, <1>2, <1>4, <1>5, <1>12, <2>1, <2>2 DEF AdmTypes
  <1> QED BY <1>1, <1>2, <1>3, <1>7, <1>9, <1>12, <1>13, <1>14

\* Each lock is held exactly while one request of its kind is served.
LockIs(lock, k) ==
  /\ lock = (\E r \in Requests : Holds(requests[r], k))
  /\ \A r, s \in Requests : Holds(requests[r], k) /\ Holds(requests[s], k) => r = s

\* claim_lock is held by the one setup under way, rotation_lock by the one recovery.
LocksHeld == LockIs(claimLock, "setup") /\ LockIs(rotationLock, "recover")

\* A lock through a step of one request.
LEMMA LockMoves ==
  ASSUME NEW k, NEW r \in Requests, NEW l, NEW m, LockIs(l, k), Others(r),
         Holds(requests[r], k)' /\ ~Holds(requests[r], k) => ~l,
         m = (Holds(requests[r], k)' \/ (l /\ ~Holds(requests[r], k)))
  PROVE /\ m = (\E s \in Requests : Holds(requests[s], k)')
        /\ \A s, t \in Requests : Holds(requests[s], k)' /\ Holds(requests[t], k)' => s = t
  BY DEF Others, Holds, LockIs

\* Each action keeps both locks held by one request at most.
LEMMA LocksHeldStep ==
  ASSUME AdmTypes, LocksHeld, AdmNext
  PROVE LocksHeld'
  <1> DEFINE H(r, k) == Holds(requests[r], k)
  <1>0. claimLock \in BOOLEAN /\ rotationLock \in BOOLEAN
        /\ LockIs(claimLock, "setup") /\ LockIs(rotationLock, "recover")
    BY DEF AdmTypes, LocksHeld
  <1>1. ASSUME NEW r \in Requests, Others(r),
               H(r, "setup")' /\ ~H(r, "setup") => ~claimLock,
               claimLock' = (H(r, "setup")' \/ (claimLock /\ ~H(r, "setup"))),
               H(r, "recover")' /\ ~H(r, "recover") => ~rotationLock,
               rotationLock' = (H(r, "recover")' \/ (rotationLock /\ ~H(r, "recover")))
        PROVE LocksHeld'
    BY <1>0, <1>1, LockMoves DEF LocksHeld, LockIs
  <1>2. ASSUME NEW r \in Requests, H(r, "setup") PROVE claimLock
    BY <1>0, <1>2 DEF LockIs
  <1>3. ASSUME NEW r \in Requests, H(r, "recover") PROVE rotationLock
    BY <1>0, <1>3 DEF LockIs
  <1>4. ASSUME NEW r \in Requests,
               \/ LoginBegin(r) \/ ChangeBegin(r) \/ MintBegin(r) \/ RevokeBegin(r) \/ RecoverBegin(r)
               \/ SetupBegin(r) /\ requests' # requests
        PROVE LocksHeld'
    <2>1. ~Holds(Free, "setup") /\ ~Holds(Free, "recover")
      BY AdmFacts DEF Holds
    <2>2. CASE LoginBegin(r) \/ ChangeBegin(r) \/ MintBegin(r) \/ RevokeBegin(r)
      BY <2>2, LoginBegins, ChangeBegins, TokenBegins, <1>0, <1>1, <2>1 DEF Enters, Holds
    <2>3. CASE RecoverBegin(r)
      BY <2>3, RecoverBegins, <1>0, <1>1, <2>1 DEF Enters, Holds
    <2>4. CASE SetupBegin(r) /\ requests' # requests
      BY <2>4, SetupBegins, <1>0, <1>1, <2>1 DEF Enters, Holds
    <2> QED BY <1>4, <2>2, <2>3, <2>4
  <1>5. ASSUME NEW r \in Requests, SetupBegin(r), requests' = requests PROVE LocksHeld'
    BY <1>5, AdmFacts, SetupBegins DEF Enters, LocksHeld, LockIs, Holds
  <1>6. ASSUME NEW r \in Requests, LoginRead(r) \/ LoginVerify(r) \/ Read(r)
        PROVE LocksHeld'
    BY <1>6, LoginReads, LoginVerifies, Reads, AdmFacts, <1>0, <1>1 DEF Moves, Holds
  <1>7. ASSUME NEW r \in Requests, RecoverAborts(r) \/ WriteFails(r) PROVE LocksHeld'
    BY <1>7, Drops, AdmFacts, <1>0, <1>1 DEF Moves, Holds
  <1>8. ASSUME NEW r \in Requests, ChangeAnswered(r) PROVE LocksHeld'
    BY <1>8, ChangeAnswers, AdmFacts, <1>0, <1>1 DEF Moves, Holds
  <1>9. ASSUME NEW r \in Requests, SetupAnswered(r) PROVE LocksHeld'
    BY <1>9, SetupAnswers, AdmFacts, <1>0, <1>1 DEF Moves, Holds
  <1>10. ASSUME NEW r \in Requests, RecoverAnswered(r) PROVE LocksHeld'
    BY <1>10, RecoverAnswers, AdmFacts, <1>0, <1>1 DEF Moves, Holds
  <1>11. ASSUME NEW r \in Requests, GiveUp(r) PROVE LocksHeld'
    BY <1>11, GivesUp, <1>0, <1>1 DEF Moves, Holds
  <1>12. ASSUME NEW r \in Requests, Write(r) PROVE LocksHeld'
    <2> DEFINE refused == requests[r].kind = "setup" /\ access.password # 0
    <2>1. /\ Others(r) /\ requests[r].pc = "write" /\ UNCHANGED rotationLock
          /\ claimLock' = (claimLock /\ ~refused)
          /\ IF requests[r].kind \in {"mint", "revoke"} \/ refused
             THEN requests'[r] = Free
             ELSE requests'[r].kind = requests[r].kind /\ requests'[r].pc = "answered"
      BY <1>12, Writes DEF Moves
    <2>2. CASE refused
      BY <2>1, <2>2, AdmFacts, <1>0, <1>1 DEF Holds
    <2>3. CASE ~refused
      <3>1. (H(r, "setup")' <=> H(r, "setup")) /\ (H(r, "recover")' <=> H(r, "recover"))
        BY <2>1, <2>3, AdmFacts DEF Holds
      <3>2. claimLock' = claimLock
        BY <1>0, <2>1, <2>3
      <3> HIDE DEF H
      <3> QED BY <1>0, <1>1, <1>2, <1>3, <2>1, <3>1, <3>2
    <2> QED BY <2>2, <2>3
  <1>13. ASSUME NEW r \in Requests, OrphanLands(r) PROVE LocksHeld'
    BY <1>13, OrphanWrites, AdmFacts, <1>0, <1>1 DEF Moves, Holds
  <1>14. CASE BackoffOver \/ SessionEnds \/ AssertPresence \/ MarkerExpires
    BY <1>14, Asides DEF LocksHeld, LockIs, Holds
  <1>15. CASE Restart
    BY <1>15, Restarts, AdmFacts DEF Holds, LocksHeld, LockIs
  <1> QED BY <1>4, <1>5, <1>6, <1>7, <1>8, <1>9, <1>10, <1>11, <1>12, <1>13, <1>14, <1>15
      DEF AdmNext

\* The request may still set the password.
Sets(q) == q.kind \in {"change", "setup", "recover"} /\ q.pc \in {"read", "write", "orphan"}

\* Every password that may yet be written is new and its own, and a device is claimed
\* once.
PassInv ==
  /\ \A r \in Requests : Sets(requests[r]) => requests[r].new # access.password
  /\ \A r, s \in Requests : Sets(requests[r]) /\ Sets(requests[s]) /\ r # s
                            => requests[r].new # requests[s].new
  /\ seen.claims <= 1 /\ (seen.claims = 1 => access.password # 0)

\* Passwords are numbered as they are typed.
LEMMA Numbered ==
  ASSUME AdmTypes
  PROVE /\ access.password \in Nat /\ access.password < bounds.password + 1
        /\ seen.claims \in Nat
        /\ \A r \in Requests : Sets(requests[r]) =>
             /\ requests[r].new \in Nat /\ requests[r].new # 0
             /\ requests[r].new < bounds.password + 1
  <1>1. /\ access.password \in Nat /\ access.password <= bounds.password /\ bounds.password \in Nat
        /\ seen.claims \in Nat
    BY BoundsTyped, SeenFields, AdmFacts DEF AdmTypes, Access, Passwords
  <1>2. ASSUME NEW r \in Requests, Sets(requests[r]) PROVE requests[r].new \in 1..bounds.password
    BY <1>2 DEF AdmTypes, Carries, Sets
  <1> QED BY <1>1, <1>2

\* A step that writes no password, and one that does.
LEMMA PassMoves ==
  ASSUME AdmTypes, PassInv, NEW r \in Requests, Others(r),
         access'.password = access.password, seen'.claims = seen.claims,
         Sets(requests[r])' =>
           \/ Sets(requests[r]) /\ requests'[r].new = requests[r].new
           \/ requests'[r].new = bounds.password + 1
  PROVE PassInv'
  BY Numbered, BoundsTyped DEF Others, Sets, AdmTypes, PassInv

LEMMA PassWrites ==
  ASSUME AdmTypes, PassInv, NEW r \in Requests, Others(r), ~Sets(requests[r])',
         requests[r].kind \in {"change", "mint", "revoke", "setup", "recover"},
         requests[r].pc \in {"write", "orphan"},
         access'.password = (IF \/ requests[r].kind \in {"change", "recover"}
                                \/ requests[r].kind = "setup" /\ access.password = 0
                             THEN requests[r].new ELSE access.password),
         seen'.claims = (IF requests[r].kind = "setup" /\ access'.password = requests[r].new
                         THEN seen.claims + 1 ELSE seen.claims)
  PROVE PassInv'
  BY Numbered DEF Others, Sets, PassInv

\* Each action keeps the passwords apart.
LEMMA PassStep ==
  ASSUME AdmTypes, PassInv, AdmNext
  PROVE PassInv'
  <1> USE AdmFacts
  <1>0. ~Sets(Free)
    BY DEF Sets
  <1>1. ASSUME NEW r \in Requests,
               LoginBegin(r) \/ ChangeBegin(r) \/ MintBegin(r) \/ RevokeBegin(r) \/ RecoverBegin(r)
        PROVE PassInv'
    <2>1. /\ access' = access /\ seen'.claims = seen.claims
          /\ \E q \in Req : /\ Enters(r, q)
                            /\ q.kind \in {"change", "recover"} => q.new = bounds.password + 1
                            /\ q.kind # "setup"
      BY LoginBegins, ChangeBegins, TokenBegins, RecoverBegins, <1>1
    <2>2. /\ Others(r) /\ requests'[r].kind # "setup"
          /\ requests'[r].kind \in {"change", "recover"} => requests'[r].new = bounds.password + 1
      BY <2>1 DEF Enters
    <2>3. Sets(requests[r])' => requests'[r].new = bounds.password + 1
      BY <2>2 DEF Sets
    <2> QED BY <2>1, <2>2, <2>3, PassMoves
  <1>2. ASSUME NEW r \in Requests, SetupBegin(r) PROVE PassInv'
    <2>1. access' = access /\ seen'.claims = seen.claims
      BY <1>2, SetupBegins
    <2>2. CASE requests' = requests
      BY <2>1, <2>2 DEF PassInv, Sets
    <2>3. CASE \E q \in Req : Enters(r, q) /\ q.new = bounds.password + 1
      BY <2>3, <2>1, PassMoves DEF Enters
    <2> QED BY <1>2, <2>2, <2>3, SetupBegins
  <1>3. ASSUME NEW r \in Requests,
               \/ LoginRead(r) \/ LoginVerify(r) \/ Read(r) \/ RecoverAborts(r) \/ WriteFails(r)
               \/ ChangeAnswered(r) \/ SetupAnswered(r) \/ RecoverAnswered(r) \/ GiveUp(r)
        PROVE PassInv'
    <2>1. /\ access' = access /\ seen'.claims = seen.claims /\ Others(r)
          /\ Sets(requests[r])' => Sets(requests[r]) /\ requests'[r].new = requests[r].new
      <3>1. CASE LoginRead(r)
        BY <3>1, LoginReads DEF Moves, Sets
      <3>2. CASE Read(r)
        BY <3>2, Reads, <1>0 DEF Moves, Sets
      <3>3. CASE GiveUp(r)
        BY <3>3, GivesUp DEF Moves, Sets
      <3>4. CASE \/ LoginVerify(r) \/ RecoverAborts(r) \/ WriteFails(r)
                 \/ ChangeAnswered(r) \/ SetupAnswered(r) \/ RecoverAnswered(r)
        BY <3>4, LoginVerifies, Drops, ChangeAnswers, SetupAnswers, RecoverAnswers, <1>0 DEF Moves, Sets
      <3> QED BY <1>3, <3>1, <3>2, <3>3, <3>4
    <2> QED BY <2>1, PassMoves
  <1>4. ASSUME NEW r \in Requests, Write(r) \/ OrphanLands(r) PROVE PassInv'
    BY Writes, OrphanWrites, <1>4, <1>0, PassWrites DEF Moves, Sets
  <1>5. CASE BackoffOver \/ SessionEnds \/ AssertPresence \/ MarkerExpires
    BY <1>5, Asides DEF PassInv, Sets
  <1>6. CASE Restart
    BY <1>6, Restarts, <1>0 DEF Sets, PassInv
  <1> QED BY <1>1, <1>2, <1>3, <1>4, <1>5, <1>6 DEF AdmNext

\* A login at its password check, begun since the last time the sessions were ended.
Checks(q) == q.kind = "login" /\ q.pc = "verify"

\* A change was written and its caller has not ended the sessions yet, or went away.
Unsettled == seen.unanswered \/ Pending({"change", "recover"})

\* The sessions, and the logins at their password check, are of the password in force,
\* unless a change is unsettled.
SessInv ==
  /\ access.password = 0 => \A s \in sessions : s.by # "login"
  /\ \A r \in Requests : requests[r].kind = "login" => requests[r].gen <= sessionGen
  /\ \A r \in Requests : Checks(requests[r]) => access.password # 0
  /\ Unsettled \/ \A s \in sessions : s.by = "login" => s.password = access.password
  /\ \/ Unsettled
     \/ \A r \in Requests : Checks(requests[r]) /\ requests[r].gen = sessionGen
                            => requests[r].read.password = access.password

\* A step that ends no session.
LEMMA SessMoves ==
  ASSUME SessInv, NEW r \in Requests, Others(r),
         access'.password = access.password, sessionGen' = sessionGen,
         seen'.unanswered = seen.unanswered,
         ~(requests[r].kind \in {"change", "recover"} /\ requests[r].pc = "answered"),
         \A s \in sessions' : \/ s \in sessions \/ s.by # "login"
                              \/ /\ Checks(requests[r]) /\ requests[r].gen = sessionGen
                                 /\ s.password = requests[r].read.password,
         requests'[r].kind = "login" => requests'[r].gen <= sessionGen,
         Checks(requests[r])' => requests'[r].read.password = access.password /\ access.password # 0
  PROVE SessInv'
  BY DEF Others, Checks, Unsettled, Pending, SessInv

\* The write of a password: the claim finds no session, the others are remembered.
LEMMA SessWrites ==
  ASSUME AdmTypes, SessInv, NEW r \in Requests, Others(r),
         requests[r].pc \in {"write", "orphan"},
         requests[r].kind \in {"change", "mint", "revoke", "setup", "recover"},
         requests'[r].kind # "login",
         access'.password = (IF \/ requests[r].kind \in {"change", "recover"}
                                \/ requests[r].kind = "setup" /\ access.password = 0
                             THEN requests[r].new ELSE access.password),
         UNCHANGED <<sessions, sessionGen>>,
         IF requests[r].kind \in {"change", "recover"} THEN Unsettled'
         ELSE seen'.unanswered = seen.unanswered
  PROVE SessInv'
  BY SessMoves, Numbered DEF Checks, Sets, Others, SessInv

\* The sessions of an earlier password are ended, and the logins under way with them.
LEMMA SessEnds ==
  ASSUME AdmTypes, SessInv, UNCHANGED access,
         \A s \in sessions' : s.password = access.password,
         \A s \in sessions' : \E t \in sessions : t.by = s.by,
         \A s \in Requests : requests'[s].kind = "login" =>
           requests'[s] = requests[s] /\ sessionGen' = sessionGen + 1
  PROVE SessInv'
  BY DEF Checks, AdmTypes, Req, SessInv

\* Each action keeps the sessions of the password in force.
LEMMA SessStep ==
  ASSUME AdmTypes, SessInv, AdmNext
  PROVE SessInv'
  <1> USE AdmFacts
  <1>0. ~Checks(Free) /\ sessionGen \in Nat
    BY DEF Checks, AdmTypes
  <1>1. ASSUME NEW r \in Requests,
               \/ LoginBegin(r) \/ ChangeBegin(r) \/ MintBegin(r) \/ RevokeBegin(r) \/ RecoverBegin(r)
        PROVE SessInv'
    <2>1. /\ UNCHANGED <<access, sessions, sessionGen>> /\ seen'.unanswered = seen.unanswered
          /\ \E q \in Req : /\ Enters(r, q) /\ q.pc \in {"read", "write"}
                            /\ q.kind = "login" => q.gen = sessionGen
      BY LoginBegins, ChangeBegins, TokenBegins, RecoverBegins, <1>1
    <2>2. /\ Others(r) /\ requests[r] = Free /\ requests'[r].pc \in {"read", "write"}
          /\ requests'[r].kind = "login" => requests'[r].gen <= sessionGen
      BY <1>0, <2>1 DEF Enters
    <2>3. ~Checks(requests[r])'
      BY <2>2 DEF Checks
    <2> QED BY <2>1, <2>2, <2>3, SessMoves
  <1>2. ASSUME NEW r \in Requests, SetupBegin(r) PROVE SessInv'
    BY <1>2, SetupBegins, SessMoves DEF SessInv, Checks, Unsettled, Pending, Enters
  <1>3. ASSUME NEW r \in Requests, LoginRead(r) PROVE SessInv'
    BY <1>3, LoginReads, <1>0, SessMoves DEF Moves, SessInv, Checks
  <1>4. ASSUME NEW r \in Requests, LoginVerify(r) PROVE SessInv'
    BY <1>4, LoginVerifies, SessMoves DEF Moves, Checks
  <1>5. ASSUME NEW r \in Requests,
               Read(r) \/ RecoverAborts(r) \/ WriteFails(r) \/ SetupAnswered(r) \/ GiveUp(r)
        PROVE SessInv'
    <2>1. /\ UNCHANGED <<access, sessionGen>> /\ Others(r) /\ requests'[r].kind # "login"
          /\ seen'.unanswered = seen.unanswered
          /\ requests[r].kind = "setup" \/ requests[r].pc # "answered"
          /\ \A s \in sessions' : s \in sessions \/ s.by # "login"
      <3>1. CASE Read(r)
        BY <3>1, Reads DEF Moves
      <3>2. CASE RecoverAborts(r) \/ WriteFails(r)
        BY <3>2, Drops DEF Moves
      <3>3. CASE SetupAnswered(r)
        BY <3>3, SetupAnswers DEF Moves
      <3>4. CASE GiveUp(r)
        BY <3>4, GivesUp DEF AdmTypes, Moves, Placed
      <3> QED BY <1>5, <3>1, <3>2, <3>3, <3>4
    <2>2. ~Checks(requests[r])'
      BY <2>1 DEF Checks
    <2> QED BY <2>1, <2>2, SessMoves
  <1>6. ASSUME NEW r \in Requests, ChangeAnswered(r) \/ RecoverAnswered(r) PROVE SessInv'
    BY ChangeAnswers, RecoverAnswers, <1>6, SessEnds DEF Moves, Others
  <1>7. ASSUME NEW r \in Requests, Write(r) PROVE SessInv'
    BY <1>7, Writes, SessWrites DEF Moves, Unsettled, Pending
  <1>8. ASSUME NEW r \in Requests, OrphanLands(r) PROVE SessInv'
    BY <1>8, OrphanWrites, SeenFields, SessWrites DEF Moves, Unsettled, AdmTypes
  <1>9. CASE BackoffOver \/ SessionEnds \/ AssertPresence \/ MarkerExpires
    BY <1>9, Asides DEF SessInv, Checks, Unsettled, Pending
  <1>10. CASE Restart
    BY <1>10, Restarts, SessEnds DEF AdmTypes, Placed
  <1> QED BY <1>1, <1>2, <1>3, <1>4, <1>5, <1>6, <1>7, <1>8, <1>9, <1>10 DEF AdmNext

\* The request may still rotate the password under assertion k.
Uses(q, k) == q.kind = "recover" /\ q.marker = k /\ q.pc \in {"write", "orphan"}

\* The requests that may still rotate under assertion k.
Using(k) == {r \in Requests : Uses(requests[r], k)}

\* apid is serving a recovery under assertion k.
Serving(q, k) == Holds(q, "recover") /\ q.marker = k

\* Assertion k is on disk, unspent, and no recovery is being served under it.
Ready(k) == k = marker /\ marker # spent /\ \A r \in Requests : ~Serving(requests[r], k)

\* Rotations made and still possible under an assertion are paid for by the interruptions
\* seen, and by one more once the assertion is in use, spent or gone.
RotInv ==
  /\ \A k \in 1..MaxMarkers : seen.rotations[k] + Cardinality(Using(k))
                              <= seen.interrupted[k] + (IF Ready(k) THEN 0 ELSE 1)
  /\ \A k \in 1..MaxMarkers : k > bounds.markers => seen.rotations[k] = 0

\* They can be counted, now and after the step.
LEMMA UsingFinite ==
  ASSUME NEW k
  PROVE IsFiniteSet(Using(k)) /\ Cardinality(Using(k)) \in Nat
  BY AdmConstants, FS_Subset, FS_CardinalityType DEF Using

LEMMA UsingFinitePrime ==
  ASSUME NEW k
  PROVE (IsFiniteSet(Using(k)) /\ Cardinality(Using(k)) \in Nat)'
  BY AdmConstants, FS_Subset, FS_CardinalityType DEF Using

\* One request moves: the count of the uses changes by what it gains or gives up.
LEMMA UsingMoves ==
  ASSUME NEW r \in Requests, Others(r), NEW k
  PROVE Cardinality(Using(k))' + (IF Uses(requests[r], k) THEN 1 ELSE 0)
          = Cardinality(Using(k)) + (IF Uses(requests[r], k)' THEN 1 ELSE 0)
  <1> DEFINE A == Using(k)
             B == Using(k)'
  <1>1. /\ IsFiniteSet(A) /\ Cardinality(A) \in Nat /\ IsFiniteSet(B) /\ Cardinality(B) \in Nat
    BY UsingFinite, UsingFinitePrime
  <1>2. \A s \in Requests : s # r => (s \in A <=> s \in B)
    BY DEF Others, Using, Uses
  <1>3. A \subseteq Requests /\ B \subseteq Requests
        /\ (r \in A <=> Uses(requests[r], k)) /\ (r \in B <=> Uses(requests[r], k)')
    BY DEF Using
  <1> HIDE DEF A, B
  <1>4. CASE r \in A /\ r \in B
    BY <1>2, <1>3, <1>4, <1>1 DEF A, B
  <1>5. CASE r \notin A /\ r \notin B
    BY <1>2, <1>3, <1>5, <1>1 DEF A, B
  <1>6. CASE r \in A /\ r \notin B
    BY <1>2, <1>3, <1>6, <1>1, FS_AddElement DEF A, B
  <1>7. CASE r \notin A /\ r \in B
    BY <1>2, <1>3, <1>7, <1>1, FS_AddElement DEF A, B
  <1> QED BY <1>4, <1>5, <1>6, <1>7

\* The counters are numbers.
LEMMA Counts ==
  ASSUME AdmTypes, NEW k \in 1..MaxMarkers
  PROVE seen.rotations[k] \in Nat /\ seen.interrupted[k] \in Nat
  BY SeenFields DEF AdmTypes

\* A step that changes no use, no rotation, and leaves an assertion unready that was.
LEMMA RotKeeps ==
  ASSUME AdmTypes, RotInv, NEW r \in Requests, Others(r), bounds'.markers = bounds.markers,
         seen'.rotations = seen.rotations, seen'.interrupted = seen.interrupted,
         \A k \in 1..MaxMarkers : /\ Uses(requests[r], k)' <=> Uses(requests[r], k)
                                  /\ Ready(k)' => Ready(k)
  PROVE RotInv'
  BY UsingMoves, UsingFinite, UsingFinitePrime, Counts DEF RotInv

\* What an assertion is ready for depends on the marker and on who is served under it.
LEMMA ReadyKeeps ==
  ASSUME NEW r \in Requests, Others(r), UNCHANGED <<marker, spent>>, NEW k,
         Serving(requests[r], k) => Serving(requests[r], k)'
  PROVE Ready(k)' => Ready(k)
  BY DEF Others, Serving, Holds, Ready

\* A request other than a recovery is no concern of the assertions.
LEMMA RotAside ==
  ASSUME AdmTypes, RotInv, NEW r \in Requests, Others(r), bounds'.markers = bounds.markers,
         seen'.rotations = seen.rotations, seen'.interrupted = seen.interrupted,
         UNCHANGED <<marker, spent>>,
         requests[r].kind # "recover", requests'[r].kind # "recover"
  PROVE RotInv'
  BY ReadyKeeps, RotKeeps DEF Uses, Serving, Holds

\* What a rotation is paid with, for each assertion, when request r moves and a rotations
\* and b interruptions are counted.
Pays(r, k, a, b) ==
  a + (IF Uses(requests[r], k)' THEN 1 ELSE 0) + (IF Ready(k) THEN 0 ELSE 1)
    <= (IF Uses(requests[r], k) THEN 1 ELSE 0) + b + (IF Ready(k)' THEN 0 ELSE 1)

\* A step that rotates or ends uses up what was counted for it.
LEMMA RotPays ==
  ASSUME AdmTypes, AdmTypes', RotInv, NEW r \in Requests, Others(r), NEW k \in 1..MaxMarkers,
         NEW a \in {0, 1}, NEW b \in {0, 1},
         seen'.rotations[k] = seen.rotations[k] + a,
         seen'.interrupted[k] = seen.interrupted[k] + b,
         Pays(r, k, a, b)
  PROVE seen'.rotations[k] + Cardinality(Using(k))'
          <= seen'.interrupted[k] + (IF Ready(k)' THEN 0 ELSE 1)
  <1> DEFINE u == IF Uses(requests[r], k) THEN 1 ELSE 0
             v == IF Uses(requests[r], k)' THEN 1 ELSE 0
             d == IF Ready(k) THEN 0 ELSE 1
             e == IF Ready(k)' THEN 0 ELSE 1
  <1>1. Cardinality(Using(k))' + u = Cardinality(Using(k)) + v
    BY UsingMoves
  <1>0. /\ u \in {0, 1} /\ v \in {0, 1} /\ d \in {0, 1} /\ e \in {0, 1}
        /\ a + v + d <= u + b + e
    BY DEF Pays
  <1>2. /\ Cardinality(Using(k))' \in Nat /\ Cardinality(Using(k)) \in Nat
        /\ seen.rotations[k] \in Nat /\ seen.interrupted[k] \in Nat
    BY UsingFinite, UsingFinitePrime, Counts
  <1>3. seen.rotations[k] + Cardinality(Using(k)) <= seen.interrupted[k] + d
    BY DEF RotInv
  <1> DEFINE x == Cardinality(Using(k))
             y == Cardinality(Using(k))'
             m == seen.rotations[k]
             i == seen.interrupted[k]
  <1>4. x \in Nat /\ y \in Nat /\ m \in Nat /\ i \in Nat /\ y + u = x + v /\ m + x <= i + d
    BY <1>1, <1>2, <1>3
  <1>5. m + a + y <= i + b + e
    <2> HIDE DEF x, y, m, i, u, v, d, e
    <2> QED BY <1>0, <1>4
  <1> QED BY <1>5

\* Each action keeps every rotation paid for.
LEMMA RotStep ==
  ASSUME AdmTypes, AdmTypes', LocksHeld, RotInv, AdmNext
  PROVE RotInv'
  <1> USE AdmFacts
  <1>1. ASSUME NEW r \in Requests,
               \/ LoginBegin(r) \/ ChangeBegin(r) \/ MintBegin(r) \/ RevokeBegin(r)
        PROVE RotInv'
    BY LoginBegins, ChangeBegins, TokenBegins, <1>1, RotAside DEF Enters
  <1>2. ASSUME NEW r \in Requests, SetupBegin(r) PROVE RotInv'
    <2>1. /\ UNCHANGED <<marker, spent>>
          /\ seen'.rotations = seen.rotations /\ seen'.interrupted = seen.interrupted
      BY <1>2, SetupBegins
    <2>2. CASE requests' = requests /\ bounds'.markers = bounds.markers
      BY <2>1, <2>2 DEF RotInv, Using, Uses, Ready, Serving, Holds
    <2>3. CASE \E q \in Req : Enters(r, q) /\ q.kind = "setup"
      BY <2>3, <2>1, RotAside DEF Enters
    <2> QED BY <1>2, <2>2, <2>3, SetupBegins
  <1>3. ASSUME NEW r \in Requests,
               LoginRead(r) \/ LoginVerify(r) \/ Read(r) \/ ChangeAnswered(r) \/ SetupAnswered(r)
        PROVE RotInv'
    <2>1. /\ UNCHANGED <<marker, spent, bounds>> /\ Others(r)
          /\ seen'.rotations = seen.rotations /\ seen'.interrupted = seen.interrupted
          /\ requests[r].kind # "recover" /\ requests'[r].kind # "recover"
      <3>1. CASE Read(r)
        BY <3>1, Reads DEF Moves
      <3>2. CASE LoginRead(r)
        BY <3>2, LoginReads DEF Moves
      <3>3. CASE LoginVerify(r)
        BY <3>3, LoginVerifies DEF Moves
      <3>4. CASE ChangeAnswered(r) \/ SetupAnswered(r)
        BY <3>4, ChangeAnswers, SetupAnswers DEF Moves
      <3> QED BY <1>3, <3>1, <3>2, <3>3, <3>4
    <2> QED BY <2>1, RotAside
  <1>4. ASSUME NEW r \in Requests, RecoverBegin(r) PROVE RotInv'
    <2>1. /\ UNCHANGED <<marker, spent, seen>> /\ ~rotationLock /\ marker # spent
          /\ \E q \in Req : /\ Enters(r, q) /\ q.kind = "recover" /\ q.pc = "write"
                            /\ q.marker = marker
      BY <1>4, RecoverBegins
    <2>2. /\ Others(r) /\ requests[r] = Free /\ requests'[r].kind = "recover"
          /\ requests'[r].pc = "write" /\ requests'[r].marker = marker
          /\ bounds'.markers = bounds.markers
      BY <2>1 DEF Enters
    <2>3. \A s \in Requests : ~Holds(requests[s], "recover")
      BY <2>1 DEF LocksHeld, LockIs
    <2>4. ASSUME NEW k \in 1..MaxMarkers
          PROVE seen'.rotations[k] + Cardinality(Using(k))'
                  <= seen'.interrupted[k] + (IF Ready(k)' THEN 0 ELSE 1)
      <3>1. seen'.rotations[k] = seen.rotations[k] + 0 /\ seen'.interrupted[k] = seen.interrupted[k] + 0
        BY <2>1, Counts
      <3>2. ~Uses(requests[r], k)
        BY <2>2 DEF Uses
      <3>3. CASE k = marker
        <4>1. Ready(k)
          BY <2>1, <2>3, <3>3 DEF Ready, Serving
        <4>2. Serving(requests[r], k)' /\ Uses(requests[r], k)'
          BY <2>2, <3>3 DEF Serving, Holds, Uses
        <4>3. ~Ready(k)'
          BY <4>2 DEF Ready
        <4>4. Pays(r, k, 0, 0)
          BY <3>2, <4>1, <4>2, <4>3 DEF Pays
        <4> QED BY <2>2, <3>1, <4>4, RotPays
      <3>4. CASE k # marker
        <4>1. ~Ready(k) /\ ~Ready(k)'
          BY <2>1, <3>4 DEF Ready
        <4>2. ~Uses(requests[r], k)'
          BY <2>2, <3>4 DEF Uses
        <4>3. Pays(r, k, 0, 0)
          BY <3>2, <4>1, <4>2 DEF Pays
        <4> QED BY <2>2, <3>1, <4>3, RotPays
      <3> QED BY <3>3, <3>4
    <2> QED BY <2>1, <2>2, <2>4 DEF RotInv
  <1>5. ASSUME NEW r \in Requests, RecoverAborts(r) \/ WriteFails(r) PROVE RotInv'
    <2>1. /\ UNCHANGED <<marker, spent, seen, bounds>> /\ Others(r) /\ requests'[r] = Free
          /\ requests[r].pc \in {"write", "orphan"}
      BY <1>5, Drops DEF Moves
    <2>2. CASE requests[r].kind # "recover"
      BY <2>1, <2>2, RotAside
    <2>3. CASE requests[r].kind = "recover"
      <3>1. ASSUME NEW k \in 1..MaxMarkers
            PROVE seen'.rotations[k] + Cardinality(Using(k))'
                  <= seen'.interrupted[k] + (IF Ready(k)' THEN 0 ELSE 1)
        <4>1. seen'.rotations[k] = seen.rotations[k] + 0 /\ seen'.interrupted[k] = seen.interrupted[k] + 0
          BY <2>1, Counts
        <4>2. ~Uses(requests[r], k)'
          BY <2>1 DEF Uses
        <4>3. CASE k = requests[r].marker
          <5>1. Uses(requests[r], k)
            BY <2>1, <2>3, <4>3 DEF Uses
          <5>2. Pays(r, k, 0, 0)
            BY <4>2, <5>1 DEF Pays
          <5> QED BY <2>1, <4>1, <5>2, RotPays
        <4>4. CASE k # requests[r].marker
          <5>1. ~Uses(requests[r], k) /\ ~Serving(requests[r], k)
            BY <4>4 DEF Uses, Serving
          <5>2. Ready(k)' => Ready(k)
            BY <2>1, <5>1, ReadyKeeps
          <5>3. Pays(r, k, 0, 0)
            BY <4>2, <5>1, <5>2 DEF Pays
          <5> QED BY <2>1, <4>1, <5>3, RotPays
        <4> QED BY <4>3, <4>4
      <3> QED BY <2>1, <3>1 DEF RotInv
    <2> QED BY <2>2, <2>3
  <1>6. ASSUME NEW r \in Requests, GiveUp(r) PROVE RotInv'
    <2>1. /\ UNCHANGED <<marker, spent, bounds>> /\ Others(r) /\ requests[r].pc = "write"
          /\ requests'[r].kind = requests[r].kind /\ requests'[r].pc = "orphan"
          /\ requests'[r].marker = requests[r].marker
          /\ seen'.rotations = seen.rotations
          /\ \A k \in 1..MaxMarkers :
               seen'.interrupted[k] = IF requests[r].kind = "recover" /\ k = requests[r].marker
                                      THEN seen.interrupted[k] + 1 ELSE seen.interrupted[k]
      BY <1>6, GivesUp DEF Moves
    <2>2. ASSUME NEW k \in 1..MaxMarkers
          PROVE seen'.rotations[k] + Cardinality(Using(k))'
                  <= seen'.interrupted[k] + (IF Ready(k)' THEN 0 ELSE 1)
      <3>1. seen'.rotations[k] = seen.rotations[k] + 0
        BY <2>1, Counts
      <3>2. Uses(requests[r], k)' <=> Uses(requests[r], k)
        BY <2>1 DEF Uses
      <3>3. CASE requests[r].kind = "recover" /\ k = requests[r].marker
        <4>1. seen'.interrupted[k] = seen.interrupted[k] + 1
          BY <2>1, <3>3
        <4>2. Pays(r, k, 0, 1)
          BY <3>2 DEF Pays
        <4> QED BY <2>1, <3>1, <4>1, <4>2, RotPays
      <3>4. CASE ~(requests[r].kind = "recover" /\ k = requests[r].marker)
        BY <2>1, <3>4, Counts, ReadyKeeps, <3>2, <3>1, RotPays DEF Serving, Holds, Pays
      <3> QED BY <3>3, <3>4
    <2> QED BY <2>1, <2>2 DEF RotInv
  <1>7. ASSUME NEW r \in Requests, Write(r) \/ OrphanLands(r) PROVE RotInv'
    <2>1. /\ UNCHANGED <<marker, spent, bounds>> /\ Others(r) /\ requests[r].pc \in {"write", "orphan"}
          /\ seen'.interrupted = seen.interrupted
          /\ \A k \in 1..MaxMarkers :
               seen'.rotations[k] = IF requests[r].kind = "recover" /\ k = requests[r].marker
                                    THEN seen.rotations[k] + 1 ELSE seen.rotations[k]
          /\ requests'[r] = Free \/ requests'[r].pc = "answered"
          /\ requests[r].kind = "recover" /\ requests[r].pc = "write" =>
               /\ requests'[r].kind = "recover" /\ requests'[r].pc = "answered"
               /\ requests'[r].marker = requests[r].marker
      BY Writes, OrphanWrites, <1>7 DEF Moves
    <2>2. ASSUME NEW k \in 1..MaxMarkers
          PROVE seen'.rotations[k] + Cardinality(Using(k))'
                  <= seen'.interrupted[k] + (IF Ready(k)' THEN 0 ELSE 1)
      <3>1. seen'.interrupted[k] = seen.interrupted[k] + 0
        BY <2>1, Counts
      <3>2. ~Uses(requests[r], k)'
        BY <2>1 DEF Uses
      <3>3. Serving(requests[r], k) => Serving(requests[r], k)'
        BY <2>1 DEF Serving, Holds
      <3>4. Ready(k)' => Ready(k)
        BY <2>1, <3>3, ReadyKeeps
      <3>5. CASE requests[r].kind = "recover" /\ k = requests[r].marker
        <4>1. seen'.rotations[k] = seen.rotations[k] + 1
          BY <2>1, <3>5
        <4>2. Uses(requests[r], k)
          BY <2>1, <3>5 DEF Uses
        <4>3. Pays(r, k, 1, 0)
          BY <3>2, <3>4, <4>2 DEF Pays
        <4> QED BY <2>1, <3>1, <4>1, <4>3, RotPays
      <3>6. CASE ~(requests[r].kind = "recover" /\ k = requests[r].marker)
        BY <2>1, <3>6, Counts, <3>2, <3>4, <3>1, RotPays DEF Pays
      <3> QED BY <3>5, <3>6
    <2>3. ASSUME NEW k \in 1..MaxMarkers, k > bounds'.markers PROVE seen'.rotations[k] = 0
      BY <2>1, <2>3, BoundsTyped DEF AdmTypes, Carries, RotInv
    <2> QED BY <2>2, <2>3 DEF RotInv
  <1>8. ASSUME NEW r \in Requests, RecoverAnswered(r) PROVE RotInv'
    <2>1. /\ UNCHANGED bounds /\ Others(r) /\ requests'[r] = Free /\ requests[r].pc = "answered"
          /\ seen'.rotations = seen.rotations /\ seen'.interrupted = seen.interrupted
          /\ spent' = (IF marker # 0 THEN marker ELSE spent) /\ marker' \in {0, marker}
      BY <1>8, RecoverAnswers DEF Moves
    <2>2. ASSUME NEW k \in 1..MaxMarkers
          PROVE (Uses(requests[r], k)' <=> Uses(requests[r], k)) /\ ~Ready(k)'
      BY <2>1 DEF Uses, Ready
    <2> QED BY <2>1, <2>2, RotKeeps
  <1>9. CASE BackoffOver \/ SessionEnds \/ AssertPresence \/ MarkerExpires
    <2>1. /\ UNCHANGED <<requests, spent, seen>>
          /\ \/ UNCHANGED <<marker, bounds>>
             \/ marker' = 0 /\ UNCHANGED bounds
             \/ marker' = bounds.markers + 1 /\ bounds'.markers = bounds.markers + 1
      BY <1>9, Asides
    <2>2. bounds.markers \in Nat
      BY BoundsTyped DEF AdmTypes
    <2>3. ASSUME NEW k \in 1..MaxMarkers
          PROVE seen'.rotations[k] + Cardinality(Using(k))'
                  <= seen'.interrupted[k] + (IF Ready(k)' THEN 0 ELSE 1)
      <3>1. Using(k)' = Using(k)
        BY <2>1 DEF Using, Uses
      <3>2. /\ Cardinality(Using(k)) \in Nat
            /\ seen.rotations[k] \in Nat /\ seen.interrupted[k] \in Nat
        BY UsingFinite, Counts
      <3>3. seen.rotations[k] + Cardinality(Using(k)) <= seen.interrupted[k] + (IF Ready(k) THEN 0 ELSE 1)
        BY DEF RotInv
      <3>4. CASE Ready(k)' => Ready(k)
        BY <3>2, <3>3, <3>4, <2>1, <3>1
      <3>5. CASE Ready(k)' /\ ~Ready(k)
        <4>1. k = marker' /\ marker' # marker
          BY <2>1, <3>5 DEF Ready, Serving, Holds
        <4>2. k = bounds.markers + 1
          BY <2>1, <4>1
        <4>3. seen.rotations[k] = 0
          BY <2>2, <4>2 DEF RotInv
        <4>4. Using(k) = {}
          BY <2>2, <4>2 DEF AdmTypes, Carries, Uses, Using
        <4>5. Cardinality(Using(k)) = 0
          BY <4>4, FS_EmptySet
        <4>6. seen.rotations[k] + Cardinality(Using(k)) <= seen.interrupted[k] + (IF Ready(k)' THEN 0 ELSE 1)
          BY <3>2, <4>3, <4>5
        <4> QED BY <2>1, <3>1, <4>6
      <3> QED BY <3>4, <3>5
    <2>4. ASSUME NEW k \in 1..MaxMarkers, k > bounds'.markers PROVE seen'.rotations[k] = 0
      BY <2>1, <2>2, <2>4 DEF RotInv
    <2> QED BY <2>3, <2>4 DEF RotInv
  <1>10. CASE Restart
    <2>1. /\ spent' = 0 /\ marker' = marker /\ seen'.rotations = seen.rotations
          /\ bounds'.markers = bounds.markers
          /\ \A r \in Requests :
               IF requests[r].pc \in {"write", "orphan"}
               THEN /\ requests'[r].kind = requests[r].kind /\ requests'[r].pc = "orphan"
                    /\ requests'[r].marker = requests[r].marker
               ELSE requests'[r] = Free
      BY <1>10, Restarts
    <2>2. ASSUME NEW k \in 1..MaxMarkers
          PROVE seen'.rotations[k] + Cardinality(Using(k))'
                  <= seen'.interrupted[k] + (IF Ready(k)' THEN 0 ELSE 1)
      <3>1. Using(k)' = Using(k)
        BY <2>1 DEF Uses, Using
      <3>2. /\ Cardinality(Using(k)) \in Nat
            /\ seen.rotations[k] \in Nat /\ seen.interrupted[k] \in Nat
        BY UsingFinite, Counts
      <3>3. seen'.interrupted[k] \in Nat
        BY DEF AdmTypes, Seen
      <3>4. seen.rotations[k] + Cardinality(Using(k)) <= seen.interrupted[k] + (IF Ready(k) THEN 0 ELSE 1)
        BY DEF RotInv
      <3>5. /\ seen'.interrupted[k] >= seen.interrupted[k]
            /\ \/ spent = k /\ spent = marker
               \/ \E r \in Requests : Holds(requests[r], "recover") /\ requests[r].marker = k
               => seen'.interrupted[k] >= seen.interrupted[k] + 1
        BY <1>10, Restarts
      <3>6. CASE Ready(k)' /\ ~Ready(k)
        BY <2>1, <3>6, <3>5, <3>2, <3>3, <3>4, <3>1 DEF Ready, Serving
      <3>7. CASE Ready(k)' => Ready(k)
        BY <3>2, <3>3, <3>4, <3>5, <3>7, <2>1, <3>1
      <3> QED BY <3>6, <3>7
    <2> QED BY <2>1, <2>2 DEF RotInv
  <1> QED BY <1>1, <1>2, <1>3, <1>4, <1>5, <1>6, <1>7, <1>8, <1>9, <1>10 DEF AdmNext

\* The inductive invariant.
AdmInv == AdmTypes /\ LocksHeld /\ PassInv /\ SessInv /\ AttemptsCharged /\ RotInv

\* Each action keeps the types.
LEMMA TypesStep ==
  ASSUME AdmTypes, AdmNext
  PROVE AdmTypes'
  <1>1. ASSUME NEW r \in Requests,
               \/ LoginBegin(r) \/ LoginRead(r) \/ LoginVerify(r)
               \/ ChangeBegin(r) \/ MintBegin(r) \/ RevokeBegin(r) \/ Read(r)
               \/ SetupBegin(r) \/ RecoverBegin(r) \/ RecoverAborts(r)
               \/ Write(r) \/ WriteFails(r)
               \/ ChangeAnswered(r) \/ SetupAnswered(r) \/ RecoverAnswered(r)
               \/ GiveUp(r) \/ OrphanLands(r)
        PROVE AdmTypes'
    BY <1>1, LoginBegins, LoginReads, LoginVerifies, ChangeBegins, TokenBegins, Reads,
       SetupBegins, RecoverBegins, Drops, Writes, ChangeAnswers, SetupAnswers, RecoverAnswers,
       GivesUp, OrphanWrites
  <1> QED BY <1>1, Asides, Restarts DEF AdmNext

\* Each action charges the attempt it admits.
LEMMA ChargedStep ==
  ASSUME AdmTypes, AttemptsCharged, AdmNext
  PROVE AttemptsCharged'
  <1>1. seen.admitted \in Nat /\ guard.failures \in Nat
    BY SeenFields, GuardTyped DEF AdmTypes
  <1>2. \/ guard'.failures = guard.failures + 1 /\ seen'.admitted = seen.admitted + 1
        \/ guard'.failures = 0 /\ seen'.admitted = 0
        \/ guard'.failures = guard.failures /\ seen'.admitted = seen.admitted
    <2>1. ASSUME NEW r \in Requests, LoginBegin(r) \/ LoginVerify(r) \/ SetupBegin(r) \/ RecoverAnswered(r)
          PROVE \/ guard'.failures = guard.failures + 1 /\ seen'.admitted = seen.admitted + 1
                \/ guard'.failures = 0 /\ seen'.admitted = 0
                \/ guard'.failures = guard.failures /\ seen'.admitted = seen.admitted
      BY <2>1, LoginBegins, LoginVerifies, SetupBegins, RecoverAnswers
    <2>2. ASSUME NEW r \in Requests,
               \/ LoginRead(r) \/ ChangeBegin(r) \/ MintBegin(r) \/ RevokeBegin(r) \/ Read(r)
               \/ RecoverBegin(r) \/ RecoverAborts(r) \/ Write(r) \/ WriteFails(r)
               \/ ChangeAnswered(r) \/ SetupAnswered(r) \/ GiveUp(r) \/ OrphanLands(r)
          PROVE guard'.failures = guard.failures /\ seen'.admitted = seen.admitted
      BY <2>2, LoginReads, ChangeBegins, TokenBegins, Reads, RecoverBegins, Drops, Writes,
         ChangeAnswers, SetupAnswers, GivesUp, OrphanWrites
    <2>3. CASE \/ BackoffOver \/ SessionEnds \/ AssertPresence \/ MarkerExpires
      BY <2>3, Asides
    <2>4. CASE Restart
      BY <2>4, Restarts, GuardTyped DEF AdmTypes
    <2> QED BY <2>1, <2>2, <2>3, <2>4 DEF AdmNext
  <1> QED BY <1>1, <1>2 DEF AttemptsCharged

\* The device starts unclaimed.
LEMMA AdmStart == AdmInit => AdmInv
  <1> SUFFICES ASSUME AdmInit PROVE AdmInv
    OBVIOUS
  <1> USE AdmFacts
  <1>1. /\ access \in Access /\ access.generation = 0 /\ access.password \in {0, 1}
    <2> DEFINE t == CHOOSE u \in Tokens : TRUE
    <2>1. t \in Tokens
      BY AdmConstants
    <2>2. \/ access = NoTreeRead
          \/ access = [NoTreeRead EXCEPT !.password = 1, !.rotation = TRUE]
          \/ access = [NoTreeRead EXCEPT !.password = 1, !.tokens = {t}]
      BY DEF AdmInit
    <2> HIDE DEF t
    <2>3. 0 \in Passwords /\ 1 \in Passwords /\ 0 \in 0..MaxServed
      BY DEF Passwords
    <2> DEFINE x == [NoTreeRead EXCEPT !.password = 1, !.rotation = TRUE]
               y == [NoTreeRead EXCEPT !.password = 1, !.tokens = {t}]
    <2>4. x \in Access /\ x.generation = 0 /\ x.password = 1
      BY <2>3 DEF Access
    <2>5. y \in Access /\ y.generation = 0 /\ y.password = 1
      BY <2>1, <2>3 DEF Access
    <2> HIDE DEF x, y
    <2>6. access = NoTreeRead \/ access = x \/ access = y
      BY <2>2 DEF x, y
    <2> QED BY <2>4, <2>5, <2>6
  <1>2. /\ sessions = {} /\ sessionGen = 0 /\ claimLock = FALSE /\ rotationLock = FALSE
        /\ marker = 0 /\ spent = 0 /\ guard = [failures |-> 0, locked |-> FALSE]
        /\ requests = [r \in Requests |-> Free]
    BY DEF AdmInit
  <1>3. bounds = [served |-> 0, password |-> access.password, restarts |-> 0, markers |-> 0]
    BY DEF AdmInit
  <1>4. /\ bounds \in Bounds /\ bounds.served = 0 /\ bounds.markers = 0
        /\ bounds.password = access.password
    BY <1>1, <1>3 DEF Bounds, Passwords
  <1>5. /\ seen \in Seen /\ seen.admitted = 0 /\ seen.claims = 0
        /\ \A k \in 1..MaxMarkers : seen.rotations[k] = 0 /\ seen.interrupted[k] = 0
    BY <1>1 DEF AdmInit, Seen, Access
  <1>6. \A r \in Requests : requests[r] = Free /\ Placed(requests[r]) /\ Carries(requests[r])
    BY <1>2, <1>4 DEF Placed, Carries
  <1>7. AdmTypes
    <2>1. guard \in [failures : Nat, locked : BOOLEAN] /\ requests \in [Requests -> Req]
      BY <1>2
    <2>2. access.generation <= bounds.served /\ access.password <= bounds.password
          /\ marker \in 0..bounds.markers /\ spent \in 0..bounds.markers
      BY <1>1, <1>2, <1>4
    <2> QED BY <1>1, <1>2, <1>4, <1>5, <1>6, <2>1, <2>2 DEF AdmTypes
  <1>8. LocksHeld
    BY <1>2, <1>6 DEF LocksHeld, LockIs, Holds
  <1>9. PassInv
    BY <1>5, <1>6 DEF PassInv, Sets
  <1>10. SessInv
    BY <1>2, <1>6 DEF SessInv, Checks
  <1>11. AttemptsCharged
    BY <1>2, <1>5 DEF AttemptsCharged
  <1>12. RotInv
    <2>1. \A k \in 1..MaxMarkers : Using(k) = {}
      BY <1>6 DEF Using, Uses
    <2>2. \A k \in 1..MaxMarkers : Cardinality(Using(k)) = 0
      BY <2>1, FS_EmptySet
    <2> QED BY <1>5, <2>2 DEF RotInv
  <1> QED BY <1>7, <1>8, <1>9, <1>10, <1>11, <1>12 DEF AdmInv

\* The invariant says what is promised.
LEMMA AdmImplies == AdmInv => AdminSafe
  <1> SUFFICES ASSUME AdmInv PROVE AdminSafe
    OBVIOUS
  <1> USE AdmFacts
  <1>1. AdmTypes
    BY DEF AdmInv
  <1>2. AdmTypeOK
    BY <1>1, BoundsTyped DEF AdmTypes, Session, AdmInv, LocksHeld, LockIs, Holds, AdmTypeOK
  <1>3. SessionsOfCurrentPassword
    BY DEF AdmInv, SessInv, Unsettled, SessionsOfCurrentPassword
  <1>4. ClaimedOnce
    BY DEF AdmInv, PassInv, ClaimedOnce
  <1>5. OneRotationPerAssertion
    BY <1>1, UsingFinite, Counts DEF AdmInv, RotInv, OneRotationPerAssertion
  <1> QED BY <1>2, <1>3, <1>4, <1>5 DEF AdmInv, AdminSafe

\* Whatever logins, changes, tokens, claims and recoveries race, and wherever apid is
\* killed or gives up on its write: once a change or a recovery is answered no login
\* session is of an earlier password, every attempt let through is charged, a device is
\* claimed once, and an assertion of presence is used for one rotation, and one more
\* for each time apid stopped before spending it or could not remove it (login,
\* change_password, setup, recover, LoginGuard), for any number of requests, passwords,
\* tokens, assertions and restarts.
THEOREM AdministratorIsSafe == AdmSpec => []AdminSafe
  <1>1. AdmInv /\ [AdmNext]_admVars => AdmInv'
    <2> SUFFICES ASSUME AdmInv, [AdmNext]_admVars PROVE AdmInv'
      OBVIOUS
    <2>1. CASE AdmNext
      BY <2>1, TypesStep, LocksHeldStep, PassStep, SessStep, ChargedStep, RotStep DEF AdmInv
    <2>2. CASE UNCHANGED admVars
      <3> USE <2>2 DEF admVars
      <3>1. AdmTypes'
        BY DEF AdmInv, AdmTypes, Placed, Carries
      <3>2. LocksHeld'
        BY DEF AdmInv, LocksHeld, LockIs, Holds
      <3>3. PassInv'
        BY DEF AdmInv, PassInv, Sets
      <3>4. SessInv'
        BY DEF AdmInv, SessInv, Checks, Unsettled, Pending
      <3>5. AttemptsCharged'
        BY DEF AdmInv, AttemptsCharged
      <3>6. RotInv'
        BY DEF AdmInv, RotInv, Using, Uses, Ready, Serving, Holds
      <3> QED BY <3>1, <3>2, <3>3, <3>4, <3>5, <3>6 DEF AdmInv
    <2> QED BY <2>1, <2>2
  <1> QED BY <1>1, AdmStart, AdmImplies, PTL DEF AdmSpec

(***************************************************************************)
(* The provisioning session (ProvisioningSession).  SessionSafe is not     *)
(* inductive: the invariant adds that every answered exchange is in the    *)
(* lockout file's count and none starts under a lockout, that the makers   *)
(* of the present generation work on the password micad was last told, and *)
(* that an engine that takes the device for unclaimed has the claim still  *)
(* to hear of.  The first lemmas say what the windows are and what         *)
(* settling leaves of an engine; then one lemma for each input.            *)
(***************************************************************************)
\* A phone's connection, the engine, a task that makes a verifier, and the history,
\* field by field.
Phases == {"none", "idle", "params", "confirm", "ready"}
Auths == {"none", "temp-code", "password"}
Conn == [phase : Phases, auth : Auths, record : {"none", "password", "code"} \X Nat,
         level : 0..MaxLevel]
SesEngine == [claimed : BOOLEAN, atBoot : BOOLEAN, bootClosed : BOOLEAN, bootOver : BOOLEAN,
              route : {"never", "up", "lost", "due"}, manual : BOOLEAN, code : Nat, conn : Conn]
Maker == [password : 1..LastPassword, sesGeneration : Nat]
SesPast == [guesses : Nat, told : 0..LastPassword, stale : BOOLEAN, abandoned : BOOLEAN]

\* What the variables hold.
SesTypes ==
  /\ sesPassword \in 0..LastPassword
  /\ engine \in SesEngine
  /\ lockout \in [failures : 0..MaxFailures - 1, level : 0..MaxLevel, locked : BOOLEAN]
  /\ verifier \in 0..LastPassword
  /\ sesGeneration \in Nat
  /\ makers \subseteq Maker
  /\ \A m \in makers : m.sesGeneration <= sesGeneration
  /\ used \in [codes : Nat, reboots : Nat, logins : Nat]
  /\ past \in SesPast

\* A code is on show only while its window is the open one.
CodeInv == engine.code # 0 => engine.claimed /\ engine.manual

\* Every answered exchange is charged, and none is answered under a lockout.
GuessInv ==
  /\ past.guesses <= IF lockout.locked THEN MaxFailures ELSE lockout.failures
  /\ engine.conn.phase = "params" => ~lockout.locked
  /\ engine.conn.phase \in {"params", "confirm"} => engine.conn.auth # "none"

\* The verifier, and the ones being made in this generation, are of the password
\* micad was last told.
VerifierInv ==
  ~past.stale =>
    /\ verifier # 0 => verifier = past.told
    /\ \A m \in makers : m.sesGeneration = sesGeneration => m.password = past.told

\* Whatever still takes the device for unclaimed will hear of the claim, or its signal failed.
ClaimInv ==
  sesPassword # 0 /\ (~engine.claimed \/ (engine.conn.phase # "none" /\ engine.conn.auth = "none"))
    => <<"claimed", 0>> \in calls \/ <<"unheard", 0>> \in calls

SesInv == SesTypes /\ CodeInv /\ GuessInv /\ VerifierInv /\ ClaimInv /\ LockoutVoidsCode

--------------------------------------------------------------------------------
\* Which window an engine has open.
LEMMA WindowIs ==
  ASSUME NEW e \in SesEngine
  PROVE  /\ Window(e) \in {"unclaimed", "closed", "manual", "boot", "offline"}
         /\ Window(e) = "manual" <=> (e.claimed /\ e.manual)
         /\ Window(e) = "unclaimed" => ~e.claimed
  <1> DEFINE boot == ~e.bootClosed /\ ~e.bootOver
  <1>0. /\ e.claimed \in BOOLEAN /\ e.manual \in BOOLEAN /\ e.atBoot \in BOOLEAN
    BY DEF SesEngine
  <1>1. CASE ~e.claimed
    BY <1>1 DEF Window
  <1>2. CASE e.claimed /\ e.manual
    BY <1>2 DEF Window
  <1>3. CASE e.claimed /\ ~e.manual /\ boot /\ e.atBoot
    BY <1>3 DEF Window
  <1>4. CASE e.claimed /\ ~e.manual /\ ~(boot /\ e.atBoot)
    BY <1>4 DEF Window
  <1> QED BY <1>0, <1>1, <1>2, <1>3, <1>4

\* What settling leaves of an engine.
LEMMA SettleIs ==
  ASSUME NEW e \in SesEngine, NEW r \in BOOLEAN, NEW s, s = Settle(e, r)
  PROVE  /\ s \in SesEngine
         /\ s.conn = e.conn
         /\ s.claimed = (IF r THEN sesPassword # 0 ELSE e.claimed)
         /\ s.manual = e.manual
         /\ s.code \in {0, e.code}
         /\ s.code # 0 => s.claimed /\ s.manual
  <1> DEFINE f == IF r THEN [e EXCEPT !.claimed = (sesPassword # 0)] ELSE e
  <1>1. (sesPassword # 0) \in BOOLEAN
    OBVIOUS
  <1>2. f \in SesEngine
    BY <1>1 DEF SesEngine
  <1>3. /\ f.conn = e.conn /\ f.manual = e.manual /\ f.code = e.code
        /\ f.claimed = (IF r THEN sesPassword # 0 ELSE e.claimed)
    BY DEF SesEngine
  <1>4. s = [f EXCEPT !.code = IF Window(f) = "manual" THEN @ ELSE 0]
    BY DEF Settle
  <1> HIDE DEF f
  <1>5. Window(f) = "manual" <=> (f.claimed /\ f.manual)
    BY <1>2, WindowIs
  <1>6. /\ s \in SesEngine /\ s.conn = f.conn /\ s.claimed = f.claimed /\ s.manual = f.manual
        /\ s.code = IF Window(f) = "manual" THEN f.code ELSE 0
    BY <1>2, <1>4 DEF SesEngine
  <1> QED BY <1>3, <1>5, <1>6

\* What an input does to the engine, whatever the input is.
LEMMA EngineSettles ==
  ASSUME SesInv, NEW e \in SesEngine, NEW r \in BOOLEAN, engine' = Settle(e, r),
         UNCHANGED <<sesPassword, calls>>,
         r \/ e.claimed = engine.claimed,
         e.conn.phase # "none" /\ e.conn.auth = "none"
           => ~engine.claimed \/ (engine.conn.phase # "none" /\ engine.conn.auth = "none")
  PROVE  /\ engine' \in SesEngine /\ engine'.conn = e.conn /\ engine'.code \in {0, e.code}
         /\ CodeInv' /\ ClaimInv'
  <1> DEFINE s == Settle(e, r)
  <1>1. /\ s \in SesEngine /\ s.conn = e.conn
        /\ s.claimed = (IF r THEN sesPassword # 0 ELSE e.claimed)
        /\ s.code \in {0, e.code} /\ (s.code # 0 => s.claimed /\ s.manual)
    BY SettleIs
  <1>2. engine' = s
    OBVIOUS
  <1> HIDE DEF s
  <1>3. CodeInv'
    BY <1>1, <1>2 DEF CodeInv
  <1>4. ASSUME sesPassword # 0, ~s.claimed PROVE ~engine.claimed
    BY <1>1, <1>4
  <1>5. ClaimInv'
    BY <1>1, <1>2, <1>4 DEF ClaimInv, SesInv
  <1> QED BY <1>1, <1>2, <1>3, <1>5

\* The connection of a phone that was just admitted.
LEMMA AdmittedIs ==
  ASSUME NEW a \in Auths, NEW c, c = [NoConn EXCEPT !.phase = "idle", !.auth = a]
  PROVE  c \in Conn /\ c.phase = "idle" /\ c.auth = a
  <1>1. NoConn \in Conn
    BY SesConstants DEF NoConn, Conn, Phases, Auths
  <1> HIDE DEF NoConn
  <1> QED BY <1>1 DEF Conn, Phases

LEMMA AdmitStep == SesInv /\ Admit => SesInv'
  <1> SUFFICES ASSUME SesInv, Admit PROVE SesInv'
    OBVIOUS
  <1> DEFINE c == [NoConn EXCEPT !.phase = "idle", !.auth = AuthOf(Window(engine))]
             e == [engine EXCEPT !.conn = c]
  <1>1. engine \in SesEngine
    BY DEF SesInv, SesTypes
  <1>2. Window(engine) \in {"unclaimed", "manual", "boot", "offline"}
        /\ (Window(engine) = "unclaimed" => ~engine.claimed)
    BY <1>1, WindowIs DEF Admit
  <1>3. AuthOf(Window(engine)) \in Auths /\ (AuthOf(Window(engine)) = "none" => ~engine.claimed)
    BY <1>2 DEF AuthOf, Auths
  <1>5. c \in Conn /\ c.phase = "idle" /\ c.auth = AuthOf(Window(engine))
    BY <1>3, AdmittedIs
  <1> HIDE DEF c
  <1>6. e \in SesEngine /\ e.conn = c /\ e.code = engine.code /\ e.claimed = engine.claimed
    BY <1>1, <1>5 DEF SesEngine
  <1>7. engine' = Settle(e, FALSE)
    BY DEF Admit, c
  <1> HIDE DEF e
  <1>8. /\ engine' \in SesEngine /\ engine'.conn = c /\ engine'.code \in {0, engine.code}
        /\ CodeInv' /\ ClaimInv'
    BY <1>3, <1>5, <1>6, <1>7, EngineSettles DEF Admit
  <1>9. engine.conn.phase = "none"
    BY DEF Admit
  <1> USE DEF Admit
  <1>10. SesTypes'
    BY <1>8 DEF SesInv, SesTypes
  <1>11. GuessInv'
    BY <1>5, <1>8 DEF SesInv, GuessInv
  <1>12. VerifierInv'
    BY DEF SesInv, VerifierInv
  <1>13. LockoutVoidsCode'
    BY <1>5, <1>8, <1>9 DEF SesInv, LockoutVoidsCode
  <1> QED BY <1>8, <1>10, <1>11, <1>12, <1>13 DEF SesInv

\* An engine whose phone is at another place of the exchange.
LEMMA PhaseIs ==
  ASSUME NEW e \in SesEngine, NEW p \in Phases, NEW f, f = [e EXCEPT !.conn.phase = p]
  PROVE  /\ f \in SesEngine /\ f.conn.phase = p /\ f.conn.auth = e.conn.auth
         /\ f.code = e.code /\ f.claimed = e.claimed
  <1>1. e.conn \in Conn
    BY DEF SesEngine
  <1> DEFINE c == [e.conn EXCEPT !.phase = p]
  <1>2. c \in Conn /\ c.phase = p /\ c.auth = e.conn.auth
    BY <1>1 DEF Conn
  <1>3. f = [e EXCEPT !.conn = c]
    BY <1>1 DEF SesEngine, Conn
  <1> HIDE DEF c
  <1> QED BY <1>2, <1>3 DEF SesEngine

\* The phone of an unclaimed device needs no exchange.
LEMMA StartedIs ==
  ASSUME NEW e \in SesEngine, NEW f, f = [e EXCEPT !.conn.phase = "ready"]
  PROVE  /\ f \in SesEngine /\ f.conn.phase = "ready" /\ f.conn.auth = e.conn.auth
         /\ f.code = e.code /\ f.claimed = e.claimed
  BY PhaseIs DEF Phases

LEMMA StartPakeStep == SesInv /\ StartPake => SesInv'
  <1> SUFFICES ASSUME SesInv, StartPake PROVE SesInv'
    OBVIOUS
  <1> DEFINE w == Window(engine)
             p == IF engine.conn.phase = "confirm" THEN "idle" ELSE engine.conn.phase
             idle == [engine EXCEPT !.conn.phase = p]
             record == RecordFor(w)
             c == [phase |-> "params", auth |-> AuthOf(w), record |-> record, level |-> 0]
             e == CASE w = "closed" -> idle
                    [] w = "unclaimed" -> [idle EXCEPT !.conn.phase = "ready"]
                    [] w \notin {"closed", "unclaimed"}
                         /\ (record[2] = 0 \/ lockout.locked) -> idle
                    [] OTHER -> [idle EXCEPT !.conn = c]
  <1>1. engine \in SesEngine /\ engine.conn \in Conn /\ lockout.locked \in BOOLEAN
    BY DEF SesInv, SesTypes, SesEngine
  <1>2. p \in Phases /\ p # "confirm"
    BY <1>1 DEF Conn, Phases
  <1>3. engine' = Settle(e, FALSE)
    BY <1>1 DEF StartPake, SesEngine, Conn
  <1>4. /\ idle \in SesEngine /\ idle.conn.phase = p /\ idle.conn.auth = engine.conn.auth
        /\ idle.code = engine.code /\ idle.claimed = engine.claimed
    <2> HIDE DEF p
    <2> DEFINE k == [engine.conn EXCEPT !.phase = p]
    <2>1. k \in Conn /\ k.phase = p /\ k.auth = engine.conn.auth
      BY <1>1, <1>2 DEF Conn
    <2>2. idle = [engine EXCEPT !.conn = k]
      BY <1>1 DEF SesEngine, Conn
    <2> HIDE DEF k, idle
    <2> QED BY <1>1, <2>1, <2>2 DEF SesEngine
  <1>5. w \in {"unclaimed", "closed", "manual", "boot", "offline"}
    BY <1>1, WindowIs
  <1>6. w \notin {"closed", "unclaimed"} => AuthOf(w) \in {"temp-code", "password"}
    BY <1>5 DEF AuthOf
  <1>7. record \in {"none", "password", "code"} \X Nat
    BY <1>1, <1>5 DEF RecordFor, SesInv, SesTypes, SesEngine
  <1>8. w \notin {"closed", "unclaimed"} => c \in Conn
    BY <1>6, <1>7, SesConstants DEF Conn, Phases, Auths
  <1>9. engine.conn.phase # "none"
    BY DEF StartPake
  <1> DEFINE Good(f) == /\ f \in SesEngine /\ f.code = engine.code /\ f.claimed = engine.claimed
                        /\ f.conn.auth = "none" => engine.conn.auth = "none"
                        /\ f.conn.phase # "confirm"
                        /\ f.conn.phase = "params" => ~lockout.locked /\ f.conn.auth # "none"
  <1>10. Good(idle)
    BY <1>2, <1>4 DEF SesInv, GuessInv
  <1>11. ASSUME NEW f, f = [idle EXCEPT !.conn.phase = "ready"] PROVE Good(f)
    <2>1. /\ f \in SesEngine /\ f.conn.phase = "ready" /\ f.conn.auth = idle.conn.auth
          /\ f.code = idle.code /\ f.claimed = idle.claimed
      <3> HIDE DEF idle
      <3> QED BY ONLY <1>4, <1>11, StartedIs, Zenon
    <2> QED BY <2>1, <1>4
  <1>12. ASSUME NEW f, w \notin {"closed", "unclaimed"}, ~lockout.locked, f = [idle EXCEPT !.conn = c]
         PROVE Good(f)
    <2> HIDE DEF c, idle
    <2>1. f \in SesEngine /\ f.conn = c /\ f.code = idle.code /\ f.claimed = idle.claimed
      BY <1>4, <1>8, <1>12 DEF SesEngine
    <2>2. c.phase = "params" /\ c.auth = AuthOf(w)
      BY DEF c
    <2> QED BY <1>4, <1>6, <1>12, <2>1, <2>2
  <1>13. Good(e)
    <2> HIDE DEF Good, idle, record, c, w
    <2>1. CASE w = "closed"
      BY <1>10, <2>1
    <2>2. CASE w = "unclaimed"
      BY <2>2, <1>11
    <2>3. CASE w \notin {"closed", "unclaimed"} /\ (record[2] = 0 \/ lockout.locked)
      BY <2>3, <1>10
    <2>4. CASE w \notin {"closed", "unclaimed"} /\ ~(record[2] = 0 \/ lockout.locked)
      BY <2>4, <1>12
    <2> QED BY <2>1, <2>2, <2>3, <2>4
  <1> HIDE DEF e
  <1>14. /\ engine' \in SesEngine /\ engine'.conn = e.conn /\ engine'.code \in {0, engine.code}
         /\ CodeInv' /\ ClaimInv'
    BY <1>3, <1>9, <1>13, EngineSettles DEF StartPake
  <1> HIDE DEF w, p, idle, record, c
  <1>15. /\ past' \in SesPast /\ past'.guesses = past.guesses /\ past'.told = past.told
         /\ past'.stale = past.stale
         /\ (past.abandoned \/ engine.conn.phase = "confirm") => past'.abandoned
    BY DEF StartPake, Abandoned, SesInv, SesTypes, SesPast
  <1>16. UNCHANGED <<sesPassword, lockout, verifier, sesGeneration, makers, calls, used>>
    BY DEF StartPake
  <1>17. SesTypes'
    BY <1>14, <1>15, <1>16 DEF SesInv, SesTypes
  <1>18. GuessInv'
    BY <1>13, <1>14, <1>15, <1>16 DEF SesInv, GuessInv
  <1>19. VerifierInv'
    BY <1>15, <1>16 DEF SesInv, VerifierInv
  <1>20. LockoutVoidsCode'
    BY <1>13, <1>14, <1>15, <1>16 DEF SesInv, LockoutVoidsCode
  <1> QED BY <1>14, <1>17, <1>18, <1>19, <1>20 DEF SesInv

LEMMA ShareStep == SesInv /\ Share => SesInv'
  <1> SUFFICES ASSUME SesInv, Share PROVE SesInv'
    OBVIOUS
  <1> DEFINE e == [engine EXCEPT !.conn.phase = "confirm", !.conn.level = lockout.level]
  <1>1. /\ engine \in SesEngine /\ lockout.level \in 0..MaxLevel /\ lockout.locked \in BOOLEAN
        /\ lockout.failures \in 0..MaxFailures - 1
    BY DEF SesInv, SesTypes
  <1>2. /\ e \in SesEngine /\ e.conn.phase = "confirm" /\ e.conn.auth = engine.conn.auth
        /\ e.code = engine.code /\ e.claimed = engine.claimed
    <2> DEFINE c == [engine.conn EXCEPT !.phase = "confirm", !.level = lockout.level]
    <2>1. engine.conn \in Conn
      BY <1>1 DEF SesEngine
    <2>2. c \in Conn /\ c.phase = "confirm" /\ c.auth = engine.conn.auth
      BY <1>1, <2>1 DEF Conn, Phases
    <2>3. e = [engine EXCEPT !.conn = c]
      BY <1>1, <2>1 DEF SesEngine, Conn
    <2> HIDE DEF c, e
    <2> QED BY <1>1, <2>2, <2>3 DEF SesEngine
  <1>3. engine' = Settle(e, FALSE)
    BY DEF Share
  <1>4. engine.conn.phase = "params" /\ ~lockout.locked /\ engine.conn.auth # "none"
    BY DEF Share, SesInv, GuessInv
  <1> HIDE DEF e
  <1>5. /\ engine' \in SesEngine /\ engine'.conn = e.conn /\ CodeInv' /\ ClaimInv'
    BY <1>2, <1>3, <1>4, EngineSettles DEF Share
  <1>6. UNCHANGED <<sesPassword, verifier, sesGeneration, makers, calls, used>>
    BY DEF Share
  <1>7. /\ past' \in SesPast /\ past'.guesses = past.guesses + 1 /\ past'.told = past.told
        /\ past'.stale = past.stale
    <2>1. past \in SesPast /\ past.guesses + 1 \in Nat
      BY DEF SesInv, SesTypes, SesPast
    <2>2. past' = [past EXCEPT !.guesses = past.guesses + 1, !.abandoned = FALSE]
      BY DEF Share
    <2> QED BY <2>1, <2>2 DEF SesPast
  <1>8. /\ lockout' \in [failures : 0..MaxFailures - 1, level : 0..MaxLevel, locked : BOOLEAN]
        /\ IF lockout.failures + 1 >= MaxFailures THEN lockout'.locked
           ELSE ~lockout'.locked /\ lockout'.failures = lockout.failures + 1
    BY <1>1, SesConstants, <1>4 DEF Share, Charge, SesInv, SesTypes
  <1>9. SesTypes'
    BY <1>5, <1>6, <1>7, <1>8 DEF SesInv, SesTypes
  <1>10. past.guesses <= lockout.failures /\ past.guesses \in Nat
    BY <1>4 DEF SesInv, GuessInv, SesTypes, SesPast
  <1>11. past'.guesses <= IF lockout'.locked THEN MaxFailures ELSE lockout'.failures
    BY <1>1, <1>7, <1>8, <1>10, SesConstants
  <1>12. GuessInv'
    BY <1>2, <1>4, <1>5, <1>11 DEF GuessInv
  <1>13. VerifierInv'
    BY <1>6, <1>7 DEF SesInv, VerifierInv
  <1>14. LockoutVoidsCode'
    BY <1>2, <1>5 DEF LockoutVoidsCode
  <1> QED BY <1>5, <1>9, <1>12, <1>13, <1>14 DEF SesInv

LEMMA ShareRefusedStep == SesInv /\ ShareRefused => SesInv'
  <1> SUFFICES ASSUME SesInv, ShareRefused PROVE SesInv'
    OBVIOUS
  <1> DEFINE e == [engine EXCEPT !.conn.phase = "idle"]
  <1>1. engine \in SesEngine
    BY DEF SesInv, SesTypes
  <1>2. /\ e \in SesEngine /\ e.conn.phase = "idle" /\ e.conn.auth = engine.conn.auth
        /\ e.code = engine.code /\ e.claimed = engine.claimed
    BY <1>1, PhaseIs DEF Phases
  <1>3. engine' = Settle(e, FALSE)
    BY DEF ShareRefused
  <1>4. engine.conn.phase = "params"
    BY DEF ShareRefused
  <1> HIDE DEF e
  <1>5. /\ engine' \in SesEngine /\ engine'.conn = e.conn /\ engine'.code \in {0, engine.code}
        /\ CodeInv' /\ ClaimInv'
    BY <1>2, <1>3, <1>4, EngineSettles DEF ShareRefused
  <1>6. UNCHANGED <<sesPassword, lockout, verifier, sesGeneration, makers, calls, used, past>>
    BY DEF ShareRefused
  <1>7. SesTypes'
    BY <1>5, <1>6 DEF SesInv, SesTypes
  <1>8. GuessInv' /\ LockoutVoidsCode'
    BY <1>2, <1>4, <1>5, <1>6 DEF SesInv, GuessInv, LockoutVoidsCode
  <1>9. VerifierInv'
    BY <1>6 DEF SesInv, VerifierInv
  <1> QED BY <1>5, <1>7, <1>8, <1>9 DEF SesInv

LEMMA ConfirmValidStep == SesInv /\ ConfirmValid => SesInv'
  <1> SUFFICES ASSUME SesInv, ConfirmValid PROVE SesInv'
    OBVIOUS
  <1> DEFINE e == [engine EXCEPT !.conn.phase = "ready", !.conn.level = 0]
  <1>1. engine \in SesEngine /\ engine.conn.level \in 0..MaxLevel /\ 0 \in 0..MaxLevel
    BY SesConstants DEF SesInv, SesTypes, SesEngine, Conn
  <1>2. /\ e \in SesEngine /\ e.conn.phase = "ready" /\ e.conn.auth = engine.conn.auth
        /\ e.code = engine.code /\ e.claimed = engine.claimed
    <2> DEFINE c == [engine.conn EXCEPT !.phase = "ready", !.level = 0]
    <2>1. engine.conn \in Conn
      BY <1>1 DEF SesEngine
    <2>2. c \in Conn /\ c.phase = "ready" /\ c.auth = engine.conn.auth
      BY <1>1, <2>1 DEF Conn, Phases
    <2>3. e = [engine EXCEPT !.conn = c]
      BY <1>1, <2>1 DEF SesEngine, Conn
    <2> HIDE DEF c, e
    <2> QED BY <1>1, <2>2, <2>3 DEF SesEngine
  <1>3. engine' = Settle(e, FALSE)
    BY DEF ConfirmValid
  <1>4. engine.conn.phase = "confirm"
    BY DEF ConfirmValid
  <1> HIDE DEF e
  <1>5. /\ engine' \in SesEngine /\ engine'.conn = e.conn /\ CodeInv' /\ ClaimInv'
    BY <1>2, <1>3, <1>4, EngineSettles DEF ConfirmValid
  <1>6. UNCHANGED <<sesPassword, verifier, sesGeneration, makers, calls, used>>
    BY DEF ConfirmValid
  <1>7. /\ past' \in SesPast /\ past'.guesses = 0 /\ past'.told = past.told
        /\ past'.stale = past.stale
    BY DEF ConfirmValid, SesInv, SesTypes, SesPast
  <1>8. /\ lockout' \in [failures : 0..MaxFailures - 1, level : 0..MaxLevel, locked : BOOLEAN]
        /\ ~lockout'.locked /\ lockout'.failures = 0
    BY <1>1, SesConstants DEF ConfirmValid, Succeed
  <1>9. SesTypes'
    BY <1>5, <1>6, <1>7, <1>8 DEF SesInv, SesTypes
  <1>10. GuessInv' /\ LockoutVoidsCode'
    BY <1>2, <1>5, <1>7, <1>8 DEF GuessInv, LockoutVoidsCode
  <1>11. VerifierInv'
    BY <1>6, <1>7 DEF SesInv, VerifierInv
  <1> QED BY <1>5, <1>9, <1>10, <1>11 DEF SesInv

LEMMA ConfirmInvalidStep == SesInv /\ ConfirmInvalid => SesInv'
  <1> SUFFICES ASSUME SesInv, ConfirmInvalid PROVE SesInv'
    OBVIOUS
  <1> DEFINE idle == [engine EXCEPT !.conn.phase = "idle", !.conn.level = 0]
             e == IF lockout.locked THEN [idle EXCEPT !.manual = FALSE, !.code = 0] ELSE idle
  <1>1. engine \in SesEngine /\ 0 \in 0..MaxLevel
    BY SesConstants DEF SesInv, SesTypes
  <1>2. /\ idle \in SesEngine /\ idle.conn.phase = "idle" /\ idle.conn.auth = engine.conn.auth
        /\ idle.code = engine.code /\ idle.claimed = engine.claimed
    <2> DEFINE c == [engine.conn EXCEPT !.phase = "idle", !.level = 0]
    <2>1. engine.conn \in Conn
      BY <1>1 DEF SesEngine
    <2>2. c \in Conn /\ c.phase = "idle" /\ c.auth = engine.conn.auth
      BY <1>1, <2>1 DEF Conn, Phases
    <2>3. idle = [engine EXCEPT !.conn = c]
      BY <1>1, <2>1 DEF SesEngine, Conn
    <2> HIDE DEF c, idle
    <2> QED BY <1>1, <2>2, <2>3 DEF SesEngine
  <1>3. engine' = Settle(e, FALSE)
    BY DEF ConfirmInvalid
  <1>4. engine.conn.phase = "confirm"
    BY DEF ConfirmInvalid
  <1> HIDE DEF idle
  <1>5. /\ e \in SesEngine /\ e.conn = idle.conn /\ e.claimed = idle.claimed
        /\ lockout.locked => e.code = 0
    BY <1>2 DEF SesEngine
  <1> HIDE DEF e
  <1>6. /\ engine' \in SesEngine /\ engine'.conn = e.conn /\ engine'.code \in {0, e.code}
        /\ CodeInv' /\ ClaimInv'
    BY <1>2, <1>3, <1>4, <1>5, EngineSettles DEF ConfirmInvalid
  <1>7. UNCHANGED <<sesPassword, lockout, verifier, sesGeneration, makers, calls, used, past>>
    BY DEF ConfirmInvalid
  <1>8. SesTypes'
    BY <1>6, <1>7 DEF SesInv, SesTypes
  <1>9. GuessInv' /\ LockoutVoidsCode'
    BY <1>2, <1>5, <1>6, <1>7 DEF SesInv, GuessInv, LockoutVoidsCode
  <1>10. VerifierInv'
    BY <1>7 DEF SesInv, VerifierInv
  <1> QED BY <1>6, <1>8, <1>9, <1>10 DEF SesInv

LEMMA DisconnectedStep == SesInv /\ Disconnected => SesInv'
  <1> SUFFICES ASSUME SesInv, Disconnected PROVE SesInv'
    OBVIOUS
  <1> DEFINE e == [engine EXCEPT !.conn = NoConn]
  <1>1. engine \in SesEngine /\ NoConn \in Conn /\ NoConn.phase = "none"
    BY SesConstants DEF SesInv, SesTypes, NoConn, Conn, Phases, Auths
  <1>2. /\ e \in SesEngine /\ e.conn.phase = "none" /\ e.code = engine.code
    BY <1>1 DEF SesEngine
  <1>3. engine' = Settle(e, TRUE)
    BY DEF Disconnected, Tick
  <1> HIDE DEF e
  <1>4. /\ engine' \in SesEngine /\ engine'.conn = e.conn /\ engine'.code \in {0, engine.code}
        /\ CodeInv' /\ ClaimInv'
    BY <1>2, <1>3, EngineSettles DEF Disconnected
  <1>5. UNCHANGED <<sesPassword, lockout, verifier, sesGeneration, makers, calls, used>>
    BY DEF Disconnected
  <1>6. /\ past' \in SesPast /\ past'.guesses = past.guesses /\ past'.told = past.told
        /\ past'.stale = past.stale
        /\ (past.abandoned \/ engine.conn.phase = "confirm") => past'.abandoned
    BY DEF Disconnected, Abandoned, SesInv, SesTypes, SesPast
  <1>7. SesTypes'
    BY <1>4, <1>5, <1>6 DEF SesInv, SesTypes
  <1>8. GuessInv' /\ LockoutVoidsCode'
    BY <1>2, <1>4, <1>5, <1>6 DEF SesInv, GuessInv, LockoutVoidsCode
  <1>9. VerifierInv'
    BY <1>5, <1>6 DEF SesInv, VerifierInv
  <1> QED BY <1>4, <1>7, <1>8, <1>9 DEF SesInv

\* An input that leaves the phone where it is, or where nothing of the exchange is
\* pending ends its connection, and makes no code.
LEMMA QuietInput ==
  ASSUME SesInv, NEW e \in SesEngine, engine' = Settle(e, TRUE),
         UNCHANGED <<sesPassword, lockout, verifier, sesGeneration, makers, calls, used, past>>,
         e.conn = engine.conn \/ (engine.conn.phase # "confirm" /\ e.conn = NoConn),
         e.code \in {0, engine.code}
  PROVE  SesInv'
  <1>0. NoConn.phase = "none"
    BY DEF NoConn
  <1>1. /\ engine' \in SesEngine /\ engine'.conn = e.conn /\ engine'.code \in {0, e.code}
        /\ CodeInv' /\ ClaimInv'
    BY <1>0, EngineSettles
  <1>2. SesTypes'
    BY <1>1 DEF SesInv, SesTypes
  <1>3. GuessInv' /\ LockoutVoidsCode'
    BY <1>0, <1>1 DEF SesInv, GuessInv, LockoutVoidsCode
  <1>4. VerifierInv'
    BY DEF SesInv, VerifierInv
  <1> QED BY <1>1, <1>2, <1>3, <1>4 DEF SesInv

LEMMA FinishSetupStep == SesInv /\ FinishSetup => SesInv'
  <1> SUFFICES ASSUME SesInv, FinishSetup PROVE SesInv'
    OBVIOUS
  <1> DEFINE e == [engine EXCEPT !.bootClosed = TRUE, !.manual = FALSE, !.code = 0, !.conn = NoConn,
                                 !.route = IF @ = "due" THEN "lost" ELSE @]
  <1>1. engine \in SesEngine /\ NoConn \in Conn
    BY SesConstants DEF SesInv, SesTypes, NoConn, Conn, Phases, Auths
  <1>2. e \in SesEngine /\ e.conn = NoConn /\ e.code = 0
    BY <1>1 DEF SesEngine
  <1>3. engine' = Settle(e, TRUE)
    BY DEF FinishSetup, Tick
  <1>4. engine.conn.phase # "confirm"
    BY DEF FinishSetup
  <1> HIDE DEF e
  <1> QED BY <1>2, <1>3, <1>4, QuietInput DEF FinishSetup

LEMMA CloseManualStep == SesInv /\ CloseManual => SesInv'
  <1> SUFFICES ASSUME SesInv, CloseManual PROVE SesInv'
    OBVIOUS
  <1> DEFINE e == [engine EXCEPT !.manual = FALSE, !.code = 0]
  <1>1. engine \in SesEngine
    BY DEF SesInv, SesTypes
  <1>2. e \in SesEngine /\ e.conn = engine.conn /\ e.code \in {0, engine.code}
    BY <1>1 DEF SesEngine
  <1>3. engine' = Settle(e, TRUE)
    BY DEF CloseManual, Tick
  <1> HIDE DEF e
  <1> QED BY <1>2, <1>3, QuietInput DEF CloseManual

LEMMA RouteStep == SesInv /\ Route => SesInv'
  <1> SUFFICES ASSUME SesInv, Route PROVE SesInv'
    OBVIOUS
  <1>0. PICK route \in {"up", "lost", "due"} : Tick([engine EXCEPT !.route = route])
    BY DEF Route
  <1> DEFINE e == [engine EXCEPT !.route = route]
  <1>1. engine \in SesEngine
    BY DEF SesInv, SesTypes
  <1>2. e \in SesEngine /\ e.conn = engine.conn /\ e.code \in {0, engine.code}
    BY <1>1, <1>0 DEF SesEngine
  <1>3. engine' = Settle(e, TRUE)
    BY <1>0 DEF Route, Tick
  <1> HIDE DEF e
  <1> QED BY <1>2, <1>3, QuietInput DEF Route

LEMMA BootPassesStep == SesInv /\ BootPasses => SesInv'
  <1> SUFFICES ASSUME SesInv, BootPasses PROVE SesInv'
    OBVIOUS
  <1> DEFINE e == [engine EXCEPT !.bootOver = TRUE]
  <1>1. engine \in SesEngine
    BY DEF SesInv, SesTypes
  <1>2. e \in SesEngine /\ e.conn = engine.conn /\ e.code \in {0, engine.code}
    BY <1>1 DEF SesEngine
  <1>3. engine' = Settle(e, TRUE)
    BY DEF BootPasses, Tick
  <1> HIDE DEF e
  <1> QED BY <1>2, <1>3, QuietInput DEF BootPasses

LEMMA ManualExpiresStep == SesInv /\ ManualExpires => SesInv'
  <1> SUFFICES ASSUME SesInv, ManualExpires PROVE SesInv'
    OBVIOUS
  <1> DEFINE e == [engine EXCEPT !.manual = FALSE]
  <1>1. engine \in SesEngine
    BY DEF SesInv, SesTypes
  <1>2. e \in SesEngine /\ e.conn = engine.conn /\ e.code \in {0, engine.code}
    BY <1>1 DEF SesEngine
  <1>3. engine' = Settle(e, TRUE)
    BY DEF ManualExpires, Tick
  <1> HIDE DEF e
  <1> QED BY <1>2, <1>3, QuietInput DEF ManualExpires

LEMMA OpenManualStep == SesInv /\ OpenManual => SesInv'
  <1> SUFFICES ASSUME SesInv, OpenManual PROVE SesInv'
    OBVIOUS
  <1> DEFINE opens == engine.claimed /\ ~lockout.locked
             e == IF opens THEN [engine EXCEPT !.manual = TRUE, !.code = used.codes + 1] ELSE engine
  <1>1. engine \in SesEngine /\ used.codes + 1 \in Nat
    BY DEF SesInv, SesTypes
  <1>2. /\ e \in SesEngine /\ e.conn = engine.conn /\ e.claimed = engine.claimed
        /\ lockout.locked => e.code = engine.code
    BY <1>1 DEF SesEngine
  <1>3. engine' = Settle(e, TRUE)
    BY DEF OpenManual, Tick
  <1> HIDE DEF e
  <1>4. UNCHANGED <<sesPassword, lockout, verifier, sesGeneration, makers, calls, past>>
    BY DEF OpenManual
  <1>5. /\ engine' \in SesEngine /\ engine'.conn = engine.conn /\ engine'.code \in {0, e.code}
        /\ CodeInv' /\ ClaimInv'
    BY <1>2, <1>3, <1>4, EngineSettles
  <1>6. used' \in [codes : Nat, reboots : Nat, logins : Nat]
    BY DEF OpenManual, SesInv, SesTypes
  <1>7. SesTypes'
    BY <1>4, <1>5, <1>6 DEF SesInv, SesTypes
  <1>8. GuessInv' /\ LockoutVoidsCode'
    BY <1>2, <1>4, <1>5 DEF SesInv, GuessInv, LockoutVoidsCode
  <1>9. VerifierInv'
    BY <1>4 DEF SesInv, VerifierInv
  <1> QED BY <1>5, <1>7, <1>8, <1>9 DEF SesInv

LEMMA LockExpiresStep == SesInv /\ LockExpires => SesInv'
  <1> SUFFICES ASSUME SesInv, LockExpires PROVE SesInv'
    OBVIOUS
  <1>1. engine \in SesEngine
    BY DEF SesInv, SesTypes
  <1>2. engine' = Settle(engine, TRUE)
    BY DEF LockExpires, Tick
  <1>3. UNCHANGED <<sesPassword, verifier, sesGeneration, makers, calls, used>>
    BY DEF LockExpires
  <1>4. engine' \in SesEngine /\ engine'.conn = engine.conn /\ CodeInv' /\ ClaimInv'
    BY <1>1, <1>2, <1>3, EngineSettles
  <1>5. /\ past' \in SesPast /\ past'.guesses = 0 /\ past'.told = past.told
        /\ past'.stale = past.stale
    BY DEF LockExpires, SesInv, SesTypes, SesPast
  <1>6. /\ lockout' \in [failures : 0..MaxFailures - 1, level : 0..MaxLevel, locked : BOOLEAN]
        /\ ~lockout'.locked
    BY DEF LockExpires, SesInv, SesTypes
  <1>7. SesTypes'
    BY <1>3, <1>4, <1>5, <1>6 DEF SesInv, SesTypes
  <1>8. GuessInv' /\ LockoutVoidsCode'
    BY <1>6, <1>4, <1>5 DEF SesInv, GuessInv, LockoutVoidsCode
  <1>9. VerifierInv'
    BY <1>3, <1>5 DEF SesInv, VerifierInv
  <1> QED BY <1>4, <1>7, <1>8, <1>9 DEF SesInv

LEMMA ClaimedElsewhereStep == SesInv /\ ClaimedElsewhere => SesInv'
  <1> SUFFICES ASSUME SesInv, ClaimedElsewhere PROVE SesInv'
    OBVIOUS
  <1> DEFINE ends == engine.conn.phase # "none" /\ engine.conn.auth = "none"
             known == [engine EXCEPT !.claimed = (sesPassword # 0)]
             e == IF ends THEN [known EXCEPT !.conn = NoConn] ELSE known
             s == Settle(e, TRUE)
  <1>1. /\ engine \in SesEngine /\ (sesPassword # 0) \in BOOLEAN
        /\ NoConn \in Conn /\ NoConn.phase = "none"
    BY SesConstants DEF SesInv, SesTypes, NoConn, Conn, Phases, Auths
  <1>2. known \in SesEngine /\ known.conn = engine.conn /\ known.code = engine.code
    BY <1>1 DEF SesEngine
  <1>3. engine' = s
    BY DEF ClaimedElsewhere, Tick
  <1> HIDE DEF known
  <1>4. /\ e \in SesEngine /\ e.conn = (IF ends THEN NoConn ELSE engine.conn) /\ e.code = engine.code
    BY <1>1, <1>2 DEF SesEngine
  <1> HIDE DEF e
  <1>5. /\ s \in SesEngine /\ s.conn = e.conn /\ s.claimed = (sesPassword # 0)
        /\ s.code \in {0, e.code} /\ (s.code # 0 => s.claimed /\ s.manual)
    BY <1>4, SettleIs
  <1> HIDE DEF s
  <1>6. UNCHANGED <<sesPassword, lockout, verifier, sesGeneration, makers, used, past>>
    BY DEF ClaimedElsewhere
  <1>7. SesTypes'
    BY <1>3, <1>5, <1>6 DEF SesInv, SesTypes
  <1>8. CodeInv'
    BY <1>3, <1>5 DEF CodeInv
  <1>9. ClaimInv'
    BY <1>1, <1>3, <1>4, <1>5, <1>6 DEF ClaimInv
  <1>10. GuessInv' /\ LockoutVoidsCode'
    BY <1>1, <1>3, <1>4, <1>5, <1>6 DEF SesInv, GuessInv, LockoutVoidsCode
  <1>11. VerifierInv'
    BY <1>6 DEF SesInv, VerifierInv
  <1> QED BY <1>7, <1>8, <1>9, <1>10, <1>11 DEF SesInv

LEMMA StorePasswordStep == SesInv /\ StorePassword => SesInv'
  BY SesConstants DEF StorePassword, SesInv, SesTypes, CodeInv, GuessInv, LockoutVoidsCode, ClaimInv,
     VerifierInv

LEMMA LoginStep == SesInv /\ Login => SesInv'
  BY DEF Login, SesInv, SesTypes, CodeInv, GuessInv, LockoutVoidsCode, ClaimInv, VerifierInv

LEMMA PasswordSetStep == SesInv /\ PasswordSet => SesInv'
  <1> SUFFICES ASSUME SesInv, PasswordSet PROVE SesInv'
    OBVIOUS
  <1>1. PICK p \in 1..LastPassword :
          /\ calls' = calls \ {<<"set", p>>}
          /\ verifier' = 0
          /\ sesGeneration' = sesGeneration + 1
          /\ makers' = makers \cup {[password |-> p, sesGeneration |-> sesGeneration + 1]}
          /\ past' = [past EXCEPT !.told = p, !.stale = FALSE]
          /\ UNCHANGED <<sesPassword, engine, lockout, used>>
    BY DEF PasswordSet
  <1>2. /\ past' \in SesPast /\ past'.told = p /\ past'.guesses = past.guesses
        /\ past'.abandoned = past.abandoned
    <2>1. past \in SesPast /\ p \in 0..LastPassword
      BY SesConstants DEF SesInv, SesTypes
    <2>2. past' = [past EXCEPT !.told = p, !.stale = FALSE]
      BY <1>1
    <2> QED BY <2>1, <2>2 DEF SesPast
  <1>3. sesGeneration \in Nat /\ sesGeneration' \in Nat
    BY <1>1 DEF SesInv, SesTypes
  <1>4. \A m \in makers' : /\ m \in Maker /\ m.sesGeneration <= sesGeneration'
                           /\ m.sesGeneration = sesGeneration' => m.password = p
    BY <1>1, <1>3 DEF SesInv, SesTypes, Maker
  <1>5. makers' \subseteq Maker
    BY <1>4
  <1>6. SesTypes'
    BY <1>1, <1>2, <1>3, <1>4, <1>5, SesConstants DEF SesInv, SesTypes
  <1>7. CodeInv' /\ GuessInv' /\ LockoutVoidsCode'
    BY <1>1, <1>2 DEF SesInv, CodeInv, GuessInv, LockoutVoidsCode
  <1>8. ClaimInv'
    BY <1>1 DEF SesInv, ClaimInv
  <1>9. VerifierInv'
    BY <1>1, <1>2, <1>4 DEF VerifierInv
  <1> QED BY <1>6, <1>7, <1>8, <1>9 DEF SesInv

LEMMA LoggedInStep == SesInv /\ LoggedIn => SesInv'
  <1> SUFFICES ASSUME SesInv, LoggedIn PROVE SesInv'
    OBVIOUS
  <1>1. PICK p \in 1..LastPassword :
          /\ calls' = calls \ {<<"login", p>>}
          /\ lockout' = NoLockout
          /\ makers' = (IF verifier = 0
                        THEN makers \cup {[password |-> p, sesGeneration |-> sesGeneration]}
                        ELSE makers)
          /\ past' = [past EXCEPT !.guesses = 0, !.abandoned = FALSE,
                                  !.stale = @ \/ p # past.told]
          /\ UNCHANGED <<sesPassword, engine, verifier, sesGeneration, used>>
    BY DEF LoggedIn
  <1>2. past \in SesPast /\ past.stale \in BOOLEAN /\ (past.stale \/ p # past.told) \in BOOLEAN
    BY DEF SesInv, SesTypes, SesPast
  <1>3. /\ past' \in SesPast /\ past'.told = past.told /\ past'.guesses = 0
        /\ past'.stale = (past.stale \/ p # past.told)
    BY <1>1, <1>2 DEF SesPast
  <1>4. sesGeneration \in Nat
    BY DEF SesInv, SesTypes
  <1>5. \A m \in makers' : m \in makers \/ m = [password |-> p, sesGeneration |-> sesGeneration]
    BY <1>1
  <1>6. \A m \in makers' : m \in Maker /\ m.sesGeneration <= sesGeneration'
    BY <1>1, <1>4, <1>5 DEF SesInv, SesTypes, Maker
  <1>7. /\ lockout' \in [failures : 0..MaxFailures - 1, level : 0..MaxLevel, locked : BOOLEAN]
        /\ ~lockout'.locked /\ lockout'.failures = 0
    BY <1>1, SesConstants DEF NoLockout
  <1>8. makers' \subseteq Maker
    BY <1>6
  <1>9. SesTypes'
    BY <1>1, <1>3, <1>6, <1>7, <1>8 DEF SesInv, SesTypes
  <1>10. CodeInv' /\ GuessInv' /\ LockoutVoidsCode'
    BY <1>1, <1>3, <1>7 DEF SesInv, CodeInv, GuessInv, LockoutVoidsCode
  <1>11. ClaimInv'
    BY <1>1 DEF SesInv, ClaimInv
  <1>12. VerifierInv'
    <2> SUFFICES ASSUME ~past'.stale
                 PROVE  /\ verifier' # 0 => verifier' = past'.told
                        /\ \A m \in makers' : m.sesGeneration = sesGeneration' => m.password = past'.told
      BY DEF VerifierInv
    <2>1. ~past.stale /\ p = past.told
      BY <1>3
    <2> QED BY <1>1, <1>3, <1>5, <2>1 DEF SesInv, VerifierInv
  <1> QED BY <1>9, <1>10, <1>11, <1>12 DEF SesInv

LEMMA VerifierMadeStep == SesInv /\ VerifierMade => SesInv'
  BY DEF VerifierMade, SesInv, SesTypes, Maker, CodeInv, GuessInv, LockoutVoidsCode, ClaimInv, VerifierInv

LEMMA RebootStep == SesInv /\ Reboot => SesInv'
  <1> SUFFICES ASSUME SesInv, Reboot PROVE SesInv'
    OBVIOUS
  <1>1. PICK over \in {FALSE, engine.bootOver} : engine' = NewEngine(sesPassword # 0, over)
    BY DEF Reboot
  <1>2. UNCHANGED <<sesPassword, lockout, verifier>> /\ sesGeneration' = 0 /\ makers' = {}
    BY DEF Reboot
  <1>3. /\ NoConn \in Conn /\ NoConn.phase = "none" /\ (sesPassword # 0) \in BOOLEAN
        /\ over \in BOOLEAN
    <2>1. NoConn \in Conn /\ NoConn.phase = "none"
      BY SesConstants DEF NoConn, Conn, Phases, Auths
    <2>2. engine.bootOver \in BOOLEAN
      BY DEF SesInv, SesTypes, SesEngine
    <2>3. over \in BOOLEAN
      BY <1>1, <2>2, Zenon
    <2> QED BY <2>1, <2>3
  <1>4. /\ engine' \in SesEngine /\ engine'.conn = NoConn /\ engine'.code = 0
        /\ engine'.claimed = (sesPassword # 0)
    BY <1>1, <1>3 DEF NewEngine, SesEngine
  <1>5. /\ past' \in SesPast /\ past'.guesses = past.guesses /\ past'.told = past.told
        /\ past'.stale = past.stale
    BY DEF Reboot, Abandoned, SesInv, SesTypes, SesPast
  <1>6. used' \in [codes : Nat, reboots : Nat, logins : Nat]
    BY DEF Reboot, SesInv, SesTypes
  <1>7. SesTypes'
    BY <1>2, <1>4, <1>5, <1>6 DEF SesInv, SesTypes
  <1>8. CodeInv' /\ GuessInv' /\ LockoutVoidsCode'
    BY <1>2, <1>3, <1>4, <1>5 DEF SesInv, CodeInv, GuessInv, LockoutVoidsCode
  <1>9. ClaimInv'
    BY <1>2, <1>3, <1>4 DEF ClaimInv
  <1>10. VerifierInv'
    BY <1>2, <1>5 DEF SesInv, VerifierInv
  <1> QED BY <1>7, <1>8, <1>9, <1>10 DEF SesInv

LEMMA SesStart == SesInit => SesInv
  <1> SUFFICES ASSUME SesInit PROVE SesInv
    OBVIOUS
  <1>1. /\ NoConn \in Conn /\ NoConn.phase = "none" /\ (sesPassword # 0) \in BOOLEAN
    BY SesConstants DEF NoConn, Conn, Phases, Auths
  <1>2. /\ engine \in SesEngine /\ engine.conn = NoConn /\ engine.code = 0
        /\ engine.claimed = (sesPassword # 0)
    BY <1>1 DEF SesInit, NewEngine, SesEngine
  <1>3. sesPassword \in 0..LastPassword /\ verifier \in {0, sesPassword}
    BY SesConstants DEF SesInit
  <1>4. past \in SesPast /\ past.guesses = 0 /\ past.told = sesPassword
    BY <1>3 DEF SesInit, SesPast
  <1>5. /\ lockout \in [failures : 0..MaxFailures - 1, level : 0..MaxLevel, locked : BOOLEAN]
        /\ ~lockout.locked /\ lockout.failures = 0
    BY SesConstants DEF SesInit, NoLockout
  <1>6. /\ sesGeneration = 0 /\ makers = {}
        /\ used \in [codes : Nat, reboots : Nat, logins : Nat]
    BY DEF SesInit
  <1>7. SesTypes
    BY <1>2, <1>3, <1>4, <1>5, <1>6, SesConstants DEF SesTypes
  <1>8. CodeInv /\ GuessInv /\ LockoutVoidsCode
    BY <1>1, <1>2, <1>4, <1>5 DEF CodeInv, GuessInv, LockoutVoidsCode
  <1>9. ClaimInv /\ VerifierInv
    BY <1>1, <1>2, <1>3, <1>4, <1>6 DEF ClaimInv, VerifierInv
  <1> QED BY <1>7, <1>8, <1>9 DEF SesInv

LEMMA SesImplies == SesInv => SessionSafe
  <1> SUFFICES ASSUME SesInv PROVE SessionSafe
    OBVIOUS
  <1>1. engine \in SesEngine /\ engine.conn.phase \in Phases
    BY DEF SesInv, SesTypes, SesEngine, Conn
  <1>2. engine.code # 0 => Window(engine) = "manual"
    BY <1>1, WindowIs DEF SesInv, CodeInv
  <1>3. SesTypeOK
    BY <1>1, <1>2 DEF SesInv, SesTypes, SesTypeOK, Phases
  <1>4. GuessesBounded
    BY SesConstants DEF SesInv, SesTypes, SesPast, GuessInv, GuessesBounded
  <1>5. VerifierIsOfPassword
    BY DEF SesInv, VerifierInv, VerifierIsOfPassword
  <1>6. UnclaimedSessionEnds
    BY DEF SesInv, ClaimInv, UnclaimedSessionEnds
  <1> QED BY <1>3, <1>4, <1>5, <1>6 DEF SesInv, SessionSafe

\* However phones connect and are cut off, passwords are set, logins reported, lockouts
\* begin and end and micad restarts: between two lockouts, logins or successes at most
\* MaxFailures exchanges are answered, the verifier on disk is of the password micad was
\* last told, a session that needed no authentication ends with the claim, and a lockout
\* voids the code on show (Engine::share, confirm, settle, claimed_elsewhere, password_set,
\* make_verifier), for every limit of failures and any number of passwords, windows,
\* logins and restarts.
THEOREM SessionIsSafe == SesSpec => []SessionSafe
  <1>1. SesInv /\ [SesNext]_sesVars => SesInv'
    <2> SUFFICES ASSUME SesInv, [SesNext]_sesVars PROVE SesInv'
      OBVIOUS
    <2>1. CASE SesNext
      BY <2>1, AdmitStep, StartPakeStep, ShareStep, ShareRefusedStep, ConfirmValidStep,
         ConfirmInvalidStep, DisconnectedStep, FinishSetupStep, OpenManualStep, CloseManualStep,
         RouteStep, BootPassesStep, ManualExpiresStep, LockExpiresStep, ClaimedElsewhereStep,
         StorePasswordStep, LoginStep, PasswordSetStep, LoggedInStep, VerifierMadeStep, RebootStep
         DEF SesNext
    <2>2. CASE UNCHANGED sesVars
      BY <2>2 DEF sesVars, SesInv, SesTypes, CodeInv, GuessInv, VerifierInv, ClaimInv,
                  LockoutVoidsCode
    <2> QED BY <2>1, <2>2
  <1> QED BY <1>1, SesStart, SesImplies, PTL DEF SesSpec


(***************************************************************************)
(* The access cache: it never holds a subtree from before an answered      *)
(* write, and holds the stored one unless a change is still being          *)
(* signalled.                                                              *)
(***************************************************************************)

\* A write on its way to the cache: persisted and not yet signalled, or some
\* signal not yet received.
Coming(u) ==
  wire > 0 \/ \E w \in Writers : writers[w].at = "persisted" /\ writers[w].version = u

\* The writes a subtree lacks were never signalled or are on their way.
Excused(read) == \A u \in (read + 1)..stored : u \in silent \/ Coming(u)

\* What the cache and each read that could still fill it hold.
CacheInv ==
  /\ TypeOK
  /\ acked <= stored
  /\ \A w \in Writers : writers[w].version <= stored
  /\ ~synchronised => value = None
  /\ value # None => acked <= value /\ value <= stored
  /\ \A r \in Readers :
       /\ readers[r].generation <= generation
       /\ readers[r].at = "read" =>
            /\ readers[r].value \in Nat /\ readers[r].value <= stored
            /\ readers[r].generation = generation => acked <= readers[r].value

\* What is cached under a live subscription, and what a read could still fill
\* it with, is excused for all it lacks.
LagInv ==
  watcher = "live" =>
    /\ value # None => Excused(value)
    /\ \A r \in Readers :
         (readers[r].at = "read" /\ readers[r].generation = generation)
         => Excused(readers[r].value)

LEMMA InitCacheInv == Init => CacheInv /\ LagInv
  <1> SUFFICES ASSUME Init PROVE CacheInv /\ LagInv
    OBVIOUS
  <1> USE CacheAssumption DEF Init, NoRead, NoWrite
  <1>1. /\ \A r \in Readers : readers[r].at = "idle" /\ readers[r].generation = 0
        /\ \A w \in Writers : writers[w].version = 0
    OBVIOUS
  <1>2. TypeOK
    <2>1. /\ {stored, wire, acked, lapses, generation} \subseteq Nat
          /\ watcher = "dialling" /\ synchronised = FALSE /\ value = None
      OBVIOUS
    <2>2. readers \in [Readers -> [at : {"idle", "missed", "sampled", "read"},
                                  generation : Nat, value : Nat \cup {None}]]
      OBVIOUS
    <2>3. writers \in [Writers -> [at : {"idle", "persisted", "emitted"},
                                  version : Nat, awaited : BOOLEAN]]
      OBVIOUS
    <2> QED BY <2>1, <2>2, <2>3 DEF TypeOK
  <1>3. CacheInv
    BY <1>1, <1>2 DEF CacheInv
  <1>4. LagInv
    BY <1>1 DEF LagInv
  <1> QED BY <1>3, <1>4

LEMMA CacheStep == CacheInv /\ [Next]_vars => CacheInv'
  <1> SUFFICES ASSUME CacheInv, [Next]_vars PROVE CacheInv'
    OBVIOUS
  <1> USE CacheAssumption DEF CacheInv, TypeOK, NoRead, NoWrite, cache
  <1>1. ASSUME NEW w \in Writers, NEW awaited \in BOOLEAN, Persist(w, awaited)
        PROVE CacheInv'
    BY <1>1 DEF Persist
  <1>2. ASSUME NEW w \in Writers, Emit(w) PROVE CacheInv'
    BY <1>2 DEF Emit
  <1>3. ASSUME NEW w \in Writers, EmitFail(w) PROVE CacheInv'
    <2>1. \A v \in Writers : writers'[v].version <= stored'
      BY <1>3 DEF EmitFail
    <2>2. TypeOK'
      BY <1>3 DEF EmitFail
    <2> QED BY <1>3, <2>1, <2>2 DEF EmitFail
  <1>4. ASSUME NEW w \in Writers, Timeout(w) PROVE CacheInv'
    BY <1>4 DEF Timeout
  <1>5. ASSUME NEW w \in Writers, Answered(w) PROVE CacheInv'
    BY <1>5 DEF Answered, Drop
  <1>6. CASE WatcherMatch
    BY <1>6 DEF WatcherMatch
  <1>7. CASE WatcherSubscribed
    BY <1>7 DEF WatcherSubscribed
  <1>8. CASE WatcherSignal
    BY <1>8 DEF WatcherSignal, Drop
  <1>9. CASE WatcherEnds
    BY <1>9 DEF WatcherEnds, Subscribed
  <1>10. CASE WatcherLapsed
    <2>1. TypeOK'
      <3>1. {stored, wire, acked, lapses, generation}' \subseteq Nat
        BY <1>10 DEF WatcherLapsed
      <3>2. watcher' = "dialling" /\ synchronised' = FALSE /\ value' = None
        BY <1>10 DEF WatcherLapsed
      <3> QED BY <1>10, <3>1, <3>2 DEF WatcherLapsed
    <2>2. \A r \in Readers : readers[r].generation < generation'
      BY <1>10 DEF WatcherLapsed
    <2> QED BY <1>10, <2>1, <2>2 DEF WatcherLapsed
  <1>11. ASSUME NEW r \in Readers, ReaderMiss(r) PROVE CacheInv'
    BY <1>11 DEF ReaderMiss
  <1>12. ASSUME NEW r \in Readers, ReaderSample(r) PROVE CacheInv'
    <2>1. /\ readers'[r] = [at |-> "sampled", generation |-> generation,
                           value |-> readers[r].value]
          /\ \A q \in Readers : q # r => readers'[q] = readers[q]
      BY <1>12 DEF ReaderSample
    <2>2. TypeOK'
      <3> DEFINE AReader == [at : {"idle", "missed", "sampled", "read"},
                          generation : Nat, value : Nat \cup {None}]
      <3>1. readers'[r] \in AReader
        BY <2>1
      <3>2. readers' \in [Readers -> AReader]
        <4>1. readers \in [Readers -> AReader] /\ readers' = [readers EXCEPT ![r] = readers'[r]]
          BY <1>12 DEF ReaderSample
        <4> HIDE DEF AReader
        <4> QED BY <3>1, <4>1
      <3> QED BY <1>12, <3>2 DEF ReaderSample
    <2> QED BY <1>12, <2>1, <2>2 DEF ReaderSample
  <1>13. ASSUME NEW r \in Readers, ReaderRead(r) PROVE CacheInv'
    <2>1. /\ readers'[r] = [at |-> "read", generation |-> readers[r].generation,
                           value |-> stored]
          /\ \A q \in Readers : q # r => readers'[q] = readers[q]
      BY <1>13 DEF ReaderRead
    <2>2. TypeOK'
      <3> DEFINE AReader == [at : {"idle", "missed", "sampled", "read"},
                          generation : Nat, value : Nat \cup {None}]
      <3>1. readers'[r] \in AReader
        BY <2>1
      <3>2. readers' \in [Readers -> AReader]
        <4>1. readers \in [Readers -> AReader] /\ readers' = [readers EXCEPT ![r] = readers'[r]]
          BY <1>13 DEF ReaderRead
        <4> HIDE DEF AReader
        <4> QED BY <3>1, <4>1
      <3> QED BY <1>13, <3>2 DEF ReaderRead
    <2> QED BY <1>13, <2>1, <2>2 DEF ReaderRead
  <1>14. ASSUME NEW r \in Readers, ReaderFails(r) PROVE CacheInv'
    BY <1>14 DEF ReaderFails
  <1>15. ASSUME NEW r \in Readers, ReaderFill(r) PROVE CacheInv'
    BY <1>15 DEF ReaderFill, Fill
  <1>16. CASE UNCHANGED vars
    BY <1>16 DEF vars
  <1> QED
    BY <1>1, <1>2, <1>3, <1>4, <1>5, <1>6, <1>7, <1>8, <1>9, <1>10, <1>11,
       <1>12, <1>13, <1>14, <1>15, <1>16
    DEF Next, WriterSteps, WatcherSteps, ReaderSteps

LEMMA LagStep == CacheInv /\ LagInv /\ [Next]_vars => LagInv'
  <1> SUFFICES ASSUME CacheInv, LagInv, [Next]_vars PROVE LagInv'
    OBVIOUS
  <1> USE CacheAssumption DEF CacheInv, LagInv, Excused, Coming, TypeOK, NoRead, NoWrite, cache
  <1>1. ASSUME NEW w \in Writers, NEW awaited \in BOOLEAN, Persist(w, awaited)
        PROVE LagInv'
    <2>1. \A u \in Nat : Coming(u) => Coming(u)'
      BY <1>1 DEF Persist
    <2>2. Coming(stored)' /\ stored' = stored + 1
      BY <1>1 DEF Persist
    <2>3. ASSUME NEW read \in Nat, Excused(read) PROVE Excused(read)'
      <3> SUFFICES ASSUME NEW u \in (read + 1)..(stored + 1)
                   PROVE u \in silent \/ Coming(u)'
        BY <1>1 DEF Persist
      <3>0. stored \in Nat
        OBVIOUS
      <3>1. CASE u <= stored
        BY <2>1, <2>3, <3>1
      <3>2. CASE u = stored + 1
        <4> HIDE DEF Coming
        <4> QED BY <2>2, <3>2
      <3> HIDE DEF CacheInv, LagInv, Excused, Coming, TypeOK
      <3> QED BY <3>0, <3>1, <3>2
    <2> HIDE DEF Excused, Coming
    <2> QED BY <1>1, <2>3 DEF Persist
  <1>2. ASSUME NEW w \in Writers, Emit(w) PROVE LagInv'
    BY <1>2 DEF Emit, Subscribed
  <1>3. ASSUME NEW w \in Writers, EmitFail(w) PROVE LagInv'
    BY <1>3 DEF EmitFail
  <1>4. ASSUME NEW w \in Writers, Timeout(w) PROVE LagInv'
    BY <1>4 DEF Timeout
  <1>5. ASSUME NEW w \in Writers, Answered(w) PROVE LagInv'
    <2>1. \A v \in Writers : writers[v].at = "persisted" => writers'[v].at = "persisted"
      BY <1>5 DEF Answered
    <2>2. \A u \in Nat : Coming(u) => Coming(u)'
      BY <1>5, <2>1 DEF Answered
    <2>3. CASE writers[w].awaited
      BY <1>5, <2>2, <2>3 DEF Answered, Drop
    <2>4. CASE ~writers[w].awaited
      BY <1>5, <2>2, <2>4 DEF Answered
    <2> QED BY <2>3, <2>4
  <1>6. CASE WatcherMatch
    BY <1>6 DEF WatcherMatch
  <1>7. CASE WatcherSubscribed
    BY <1>7 DEF WatcherSubscribed
  <1>8. CASE WatcherSignal
    BY <1>8 DEF WatcherSignal, Drop
  <1>9. CASE WatcherEnds
    BY <1>9 DEF WatcherEnds
  <1>10. CASE WatcherLapsed
    BY <1>10 DEF WatcherLapsed
  <1>11. ASSUME NEW r \in Readers, ReaderMiss(r) PROVE LagInv'
    BY <1>11 DEF ReaderMiss
  <1>12. ASSUME NEW r \in Readers, ReaderSample(r) PROVE LagInv'
    BY <1>12 DEF ReaderSample
  <1>13. ASSUME NEW r \in Readers, ReaderRead(r) PROVE LagInv'
    BY <1>13 DEF ReaderRead
  <1>14. ASSUME NEW r \in Readers, ReaderFails(r) PROVE LagInv'
    BY <1>14 DEF ReaderFails
  <1>15. ASSUME NEW r \in Readers, ReaderFill(r) PROVE LagInv'
    BY <1>15 DEF ReaderFill, Fill
  <1>16. CASE UNCHANGED vars
    BY <1>16 DEF vars
  <1> QED
    BY <1>1, <1>2, <1>3, <1>4, <1>5, <1>6, <1>7, <1>8, <1>9, <1>10, <1>11,
       <1>12, <1>13, <1>14, <1>15, <1>16
    DEF Next, WriterSteps, WatcherSteps, ReaderSteps

\* The cache, the reads and the writes keep their shapes, and the cache serves
\* only under a subscription (access_cache.rs).
THEOREM CacheTypeCorrect == Spec => []TypeOK
  <1>1. Init => CacheInv
    BY InitCacheInv
  <1>2. CacheInv => TypeOK
    BY DEF CacheInv
  <1> QED BY <1>1, <1>2, CacheStep, PTL DEF Spec

\* Once apid's own write to `access` is answered, no request is served a
\* subtree from before it, with signals lost, late or never emitted
\* (routes/tokens.rs write_tokens, access_cache.rs fill).
THEOREM AnsweredWritesAreSeen == Spec => []OwnWriteSeen
  <1>1. Init => CacheInv
    BY InitCacheInv
  <1>2. CacheInv => OwnWriteSeen
    BY DEF CacheInv, TypeOK, OwnWriteSeen
  <1> QED BY <1>1, <1>2, CacheStep, PTL DEF Spec

\* A live cache lacks no write whose SettingsChanged was emitted and received
\* (access_cache.rs, credential.rs access_settings).
THEOREM CacheIsFresh == Spec => []FreshUnlessSignalled
  <1>1. Init => CacheInv /\ LagInv
    BY InitCacheInv
  <1>2. CacheInv /\ LagInv /\ [Next]_vars => (CacheInv /\ LagInv)'
    BY CacheStep, LagStep
  <1>3. CacheInv /\ LagInv => FreshUnlessSignalled
    BY DEF CacheInv, LagInv, Excused, TypeOK, Coming, FreshUnlessSignalled
  <1> QED BY <1>1, <1>2, <1>3, PTL DEF Spec

\* The whole promise of the access cache: well formed, no signalled write
\* missing, no answered write of apid missing (access_cache.rs,
\* routes/credential.rs).
THEOREM CacheIsSafe == Spec => []CacheSafe
  <1>1. TypeOK /\ FreshUnlessSignalled /\ OwnWriteSeen => CacheSafe
    BY DEF CacheSafe
  <1> QED BY <1>1, CacheTypeCorrect, CacheIsFresh, AnsweredWritesAreSeen, PTL

(***************************************************************************)
(* The UI bundle store. ServedIsRecorded is not inductive: the invariant   *)
(* adds that at most one task works on the store while no client went      *)
(* away, that the tree a task is about to rename or to point at was synced *)
(* and has its record, and that the one it is about to remove is not       *)
(* served.                                                                 *)
(***************************************************************************)

\* The packages; a tree, a request and a blocking task, field by field.
Pkgs == DOMAIN UiPackages \cup {"none"}
Tree == [pkg : Pkgs, part : {"none", "part", "half", "whole", "torn"}, synced : BOOLEAN]
Request == [op : {"none", "upload", "activate", "delete", "deactivate"},
            gen : UiGens \cup {0}, pkg : Pkgs, client : BOOLEAN]
Task == [op : {"none", "start", "upload", "activate", "delete", "deactivate"},
         at : {"none", "begun", "extracting", "staged", "synced", "renamed", "point", "recheck",
               "trash", "unrecord"},
         gen : UiGens \cup {0}, pkg : Pkgs]

\* The types, with the generation an operation is about.
UiTypeOK ==
  /\ uiTree \in [UiGens -> Tree] /\ uiStaging \in [UiGens -> Tree]
  /\ uiRecord \in [UiGens -> Tree]
  /\ uiCurrent \in UiGens \cup {0} /\ uiUp \in BOOLEAN
  /\ uiReqs \in [UiRequests -> Request]
  /\ uiTasks \in [UiTaskers -> Task]
  /\ uiUsed \in [op : Nat, cut : Nat, drop : Nat]
  /\ \A r \in UiRequests : uiReqs[r].op = "delete" => uiReqs[r].gen \in UiGens
  /\ \A t \in UiTaskers :
       uiTasks[t].op = "delete"
       \/ uiTasks[t].at \in {"extracting", "synced", "renamed", "point", "trash", "unrecord"}
       => uiTasks[t].gen \in UiGens

\* Start-up runs alone, and so does the task of a request that holds the lock: no two
\* run unless a client went away.
UiAlone ==
  /\ uiUp => uiTasks["start"] = NoTask
  /\ ~uiUp => \A r \in UiRequests : uiReqs[r] = UiFree /\ uiTasks[r] = NoTask
  /\ uiUsed.drop = 0 => \A r \in UiRequests : uiTasks[r] # NoTask => uiLock = r

\* What each task relies on where it stands.
UiRelied(t) ==
  LET g == uiTasks[t].gen IN
  /\ uiTasks[t].at = "synced" => uiStaging[g].synced /\ uiTree[g] = NoTree
  /\ uiTasks[t].at \in {"renamed", "trash", "unrecord"} => uiCurrent # g
  /\ uiTasks[t].at = "renamed" => uiTree[g] # NoTree
  /\ uiTasks[t].at = "point" => uiTree[g] # NoTree /\ SameDigest(uiRecord[g], uiTree[g])

\* While every client stays, what a task counts on is so.
UiSound ==
  uiUsed.drop = 0 =>
    /\ \A g \in UiGens : uiTree[g].synced
    /\ \A t \in UiTaskers : UiRelied(t)

\* The inductive invariant.
UiInv == UiTypeOK /\ UiAlone /\ UiSound /\ ServedIsRecorded

\* What nothing is.
LEMMA UiConstants ==
  /\ NoTree \in Tree /\ NoTask \in Task /\ UiFree \in Request
  /\ NoTask.at = "none" /\ NoTask.op = "none" /\ NoTask.gen = 0
  /\ UiFree.op = "none"
  /\ "start" \in UiTaskers /\ "start" \notin UiRequests /\ "none" \notin UiRequests
  /\ UiTaskers = UiRequests \cup {"start"} /\ 0 \notin UiGens
  BY UiAssumption DEF NoTree, Tree, Pkgs, NoTask, Task, UiFree, Request, UiTaskers

\* A task that goes on.
LEMMA GoesOn ==
  ASSUME UiTypeOK, NEW t \in UiTaskers, NEW at, Goes(t, at),
         at \in {"staged", "synced", "renamed", "point", "recheck", "trash", "unrecord"}
  PROVE /\ uiTasks' \in [UiTaskers -> Task]
        /\ uiTasks'[t].at = at /\ uiTasks'[t].op = uiTasks[t].op
        /\ uiTasks'[t].gen = uiTasks[t].gen
        /\ \A u \in UiTaskers : u # t => uiTasks'[u] = uiTasks[u]
        /\ UNCHANGED <<uiLock, uiReqs>>
  BY DEF UiTypeOK, Goes, Task

\* A task that is over.
LEMMA IsOver ==
  ASSUME UiTypeOK, NEW t \in UiTaskers, Over(t)
  PROVE /\ uiTasks' \in [UiTaskers -> Task] /\ uiReqs' \in [UiRequests -> Request]
        /\ uiTasks'[t] = NoTask
        /\ \A u \in UiTaskers : u # t => uiTasks'[u] = uiTasks[u]
        /\ t \in UiRequests => uiReqs'[t] = UiFree
        /\ \A r \in UiRequests : r # t => uiReqs'[r] = uiReqs[r]
        /\ uiLock # t => uiLock' = uiLock
  BY UiConstants DEF UiTypeOK, Over

\* No two tasks run, unless a client went away.
LEMMA RunsAlone ==
  ASSUME UiAlone, uiUp \in BOOLEAN, uiUsed.drop = 0,
         NEW t \in UiTaskers, uiTasks[t] # NoTask,
         NEW u \in UiTaskers, u # t
  PROVE uiTasks[u] = NoTask
  BY UiConstants DEF UiAlone

\* The task t moved, or is over, and no other did.
Moved(t) ==
  \/ /\ uiTasks' \in [UiTaskers -> Task]
     /\ \A u \in UiTaskers : u # t => uiTasks'[u] = uiTasks[u]
     /\ uiTasks'[t].op = "delete" \/ uiTasks'[t].at \in {"extracting", "synced", "renamed", "point", "trash", "unrecord"}
        => uiTasks'[t].gen \in UiGens
     /\ UNCHANGED <<uiLock, uiReqs>>
  \/ Over(t)

\* A step of one task: nothing another task relies on can change under it.
LEMMA UiTaskStep ==
  ASSUME UiInv, NEW t \in UiTaskers, uiTasks[t] # NoTask, Moved(t),
         UNCHANGED <<uiUp, uiUsed>>,
         uiTree' \in [UiGens -> Tree], uiStaging' \in [UiGens -> Tree],
         uiRecord' \in [UiGens -> Tree], uiCurrent' \in UiGens \cup {0},
         uiUsed.drop = 0 => /\ \A g \in UiGens : uiTree'[g].synced
                            /\ UiRelied(t)' /\ ServedIsRecorded'
  PROVE UiInv'
  <1> USE DEF UiInv
  <1>1. /\ uiTasks' \in [UiTaskers -> Task] /\ uiReqs' \in [UiRequests -> Request]
        /\ \A u \in UiTaskers : u # t => uiTasks'[u] = uiTasks[u]
        /\ \A r \in UiRequests : r # t => uiReqs'[r] = uiReqs[r]
        /\ t \in UiRequests => uiReqs'[t] \in {UiFree, uiReqs[t]}
        /\ uiTasks'[t].op = "delete" \/ uiTasks'[t].at \in {"extracting", "synced", "renamed", "point", "trash", "unrecord"}
           => uiTasks'[t].gen \in UiGens
        /\ uiLock' = uiLock \/ (uiLock = t /\ uiTasks'[t] = NoTask)
    BY IsOver, UiConstants DEF Moved, UiTypeOK
  <1>2. UiTypeOK'
    BY <1>1, UiConstants DEF UiTypeOK
  <1>3. UiAlone'
    BY UiConstants, <1>1 DEF UiAlone
  <1>4. UiSound'
    <2> SUFFICES ASSUME uiUsed.drop = 0, NEW u \in UiTaskers, u # t PROVE UiRelied(u)'
      BY DEF UiSound
    <2>1. uiTasks'[u] = NoTask
      BY <1>1, RunsAlone DEF UiTypeOK
    <2> QED BY <2>1, UiConstants DEF UiRelied
  <1>5. ServedIsRecorded'
    BY DEF ServedIsRecorded
  <1> QED BY <1>2, <1>3, <1>4, <1>5

\* The store starts as a power cut may have left it.
LEMMA UiInitInv == UiInit => UiInv
  <1> SUFFICES ASSUME UiInit PROVE UiInv
    OBVIOUS
  <1> USE UiConstants DEF UiInit
  <1>1. [NoTask EXCEPT !.op = "start", !.at = "staged"] \in Task
        /\ [NoTask EXCEPT !.op = "start", !.at = "staged"].op = "start"
        /\ [NoTask EXCEPT !.op = "start", !.at = "staged"].at = "staged"
    BY DEF NoTask, Task, Pkgs
  <1>2. uiTasks \in [UiTaskers -> Task]
        /\ \A t \in UiTaskers : uiTasks[t].at \in {"none", "staged"} /\ uiTasks[t].op \in {"none", "start"}
        /\ \A r \in UiRequests : uiTasks[r] = NoTask
    BY <1>1
  <1>3. uiUsed \in [op : Nat, cut : Nat, drop : Nat]
    OBVIOUS
  <1>4. UiTypeOK
    BY <1>2, <1>3 DEF UiTypeOK
  <1>5. UiAlone
    BY <1>2 DEF UiAlone
  <1>6. UiSound
    BY <1>2 DEF UiSound, UiRelied, NoTree
  <1> QED BY <1>4, <1>5, <1>6 DEF UiInv, ServedIsRecorded

\* A request that is made.
LEMMA AskStep ==
  ASSUME UiInv, NEW r \in UiRequests, NEW op \in {"upload", "activate", "delete", "deactivate"},
         NEW g \in UiGens \cup {0}, NEW p \in Pkgs, op = "delete" => g \in UiGens,
         UiAsk(r, op, g, p)
  PROVE UiInv'
  <1> USE UiConstants DEF UiInv
  <1> DEFINE new == [op |-> op, gen |-> g, pkg |-> p, client |-> TRUE]
  <1>1. new \in Request /\ uiReqs' = [uiReqs EXCEPT ![r] = new]
    BY DEF Request, UiAsk
  <1>2. uiReqs' \in [UiRequests -> Request]
        /\ \A q \in UiRequests : uiReqs'[q] = IF q = r THEN new ELSE uiReqs[q]
    BY <1>1 DEF UiTypeOK
  <1>3. uiUsed' \in [op : Nat, cut : Nat, drop : Nat] /\ uiUsed'.drop = uiUsed.drop
    BY DEF UiAsk, UiCount, UiTypeOK
  <1>4. uiUp /\ UNCHANGED <<uiTree, uiStaging, uiRecord, uiCurrent, uiUp, uiLock, uiTasks>>
    BY DEF UiAsk, uiStore
  <1>5. UiTypeOK'
    BY <1>2, <1>3, <1>4 DEF UiTypeOK
  <1>6. UiAlone'
    BY <1>2, <1>3, <1>4 DEF UiAlone
  <1>7. UiSound' /\ ServedIsRecorded'
    BY <1>3, <1>4 DEF UiSound, UiRelied, ServedIsRecorded
  <1> QED BY <1>5, <1>6, <1>7

\* Each step of a request or of its task keeps the invariant.
LEMMA LockedStep == ASSUME UiInv, NEW r \in UiRequests, Locked(r) PROVE UiInv'
  <1> USE UiConstants DEF UiInv
  <1> DEFINE new == [op |-> uiReqs[r].op, at |-> "begun", gen |-> uiReqs[r].gen, pkg |-> uiReqs[r].pkg]
  <1>1. new \in Task /\ uiTasks' = [uiTasks EXCEPT ![r] = new]
        /\ (new.op = "delete" => new.gen \in UiGens) /\ new.at = "begun"
    BY DEF Request, Task, Locked, UiTypeOK
  <1>2. uiTasks' \in [UiTaskers -> Task]
        /\ \A u \in UiTaskers : uiTasks'[u] = IF u = r THEN new ELSE uiTasks[u]
    BY <1>1 DEF UiTypeOK
  <1> HIDE DEF new
  <1>3. UNCHANGED <<uiTree, uiStaging, uiRecord, uiCurrent, uiUp, uiReqs, uiUsed>>
        /\ uiLock = "none" /\ uiLock' = r /\ uiReqs[r].op # "none"
    BY DEF Locked, uiStore
  <1>4. UiTypeOK'
    BY <1>1, <1>2, <1>3 DEF UiTypeOK
  <1>5. UiAlone'
    BY <1>3, <1>2 DEF UiAlone
  <1>6. UiSound'
    BY <1>1, <1>2, <1>3 DEF UiSound, UiRelied
  <1> QED BY <1>3, <1>4, <1>5, <1>6 DEF ServedIsRecorded

LEMMA DroppedStep == ASSUME UiInv, NEW r \in UiRequests, Dropped(r) PROVE UiInv'
  BY UiConstants DEF UiInv, Dropped, UiCount, UiTypeOK, uiStore, UiAlone, UiSound, ServedIsRecorded

\* A task that is over relies on nothing.
LEMMA OverRelies == ASSUME UiTypeOK, NEW t \in UiTaskers, Over(t) PROVE UiRelied(t)'
  BY IsOver, UiConstants DEF UiRelied

\* A task that goes on, to where its operation has a generation.
LEMMA GoesMoved ==
  ASSUME UiTypeOK, NEW t \in UiTaskers, NEW at, Goes(t, at),
         at \in {"staged", "synced", "renamed", "point", "recheck", "trash", "unrecord"},
         at \in {"staged", "recheck"} \/ uiTasks[t].gen \in UiGens
  PROVE Moved(t)
  BY GoesOn DEF UiTypeOK, Moved

\* A step that changes no installed tree, no record and not the selection.
LEMMA ServedKept ==
  ASSUME UiInv, UNCHANGED <<uiTree, uiRecord, uiCurrent, uiUsed>>
  PROVE /\ uiUsed.drop = 0 => (\A g \in UiGens : uiTree'[g].synced) /\ ServedIsRecorded'
        /\ uiTree' \in [UiGens -> Tree] /\ uiRecord' \in [UiGens -> Tree]
        /\ uiCurrent' \in UiGens \cup {0}
  BY DEF UiInv, UiSound, ServedIsRecorded, UiTypeOK

LEMMA ExtractStep == ASSUME UiInv, NEW t \in UiTaskers, Extract(t) PROVE UiInv'
  <1> USE UiConstants DEF UiInv
  <1>1. uiTasks[t] # NoTask /\ UNCHANGED <<uiTree, uiRecord, uiCurrent, uiUp, uiUsed>>
        /\ uiTasks[t].op = "upload"
    BY DEF Extract, TaskAt
  <1>2. PICK g \in UiGens :
          \/ uiStaging' = [uiStaging EXCEPT ![g] = NoTree] /\ Over(t)
          \/ /\ \E part \in {"part", "half"} :
                   uiStaging' = [uiStaging EXCEPT ![g] = TreeOf(uiTasks[t].pkg, part, FALSE)]
             /\ uiTasks' = [uiTasks EXCEPT ![t].gen = g, ![t].at = "extracting"]
             /\ UNCHANGED <<uiLock, uiReqs>>
    BY DEF Extract
  <1>3. CASE Over(t) /\ uiStaging' = [uiStaging EXCEPT ![g] = NoTree]
    BY <1>3, <1>1, UiTaskStep, ServedKept, OverRelies DEF UiTypeOK, Moved
  <1>4. CASE /\ \E part \in {"part", "half"} :
                   uiStaging' = [uiStaging EXCEPT ![g] = TreeOf(uiTasks[t].pkg, part, FALSE)]
             /\ uiTasks' = [uiTasks EXCEPT ![t].gen = g, ![t].at = "extracting"]
             /\ UNCHANGED <<uiLock, uiReqs>>
    <2>1. PICK part \in {"part", "half"} :
            uiStaging' = [uiStaging EXCEPT ![g] = TreeOf(uiTasks[t].pkg, part, FALSE)]
      BY <1>4
    <2>2. TreeOf(uiTasks[t].pkg, part, FALSE) \in Tree
      BY DEF TreeOf, Tree, UiTypeOK, Task
    <2>3. uiStaging' \in [UiGens -> Tree]
      BY <2>1, <2>2 DEF UiTypeOK
    <2>4. /\ uiTasks' \in [UiTaskers -> Task]
          /\ uiTasks'[t].gen = g /\ uiTasks'[t].at = "extracting"
          /\ \A u \in UiTaskers : u # t => uiTasks'[u] = uiTasks[u]
      BY <1>4 DEF UiTypeOK, Task
    <2>5. Moved(t) /\ UiRelied(t)'
      BY <1>4, <2>4 DEF Moved, UiRelied
    <2> QED BY <1>1, <2>3, <2>5, UiTaskStep, ServedKept
  <1> QED BY <1>2, <1>3, <1>4

LEMMA ExtractedStep == ASSUME UiInv, NEW t \in UiTaskers, Extracted(t) PROVE UiInv'
  <1> USE UiConstants DEF UiInv
  <1>1. uiTasks[t] # NoTask /\ UNCHANGED <<uiTree, uiRecord, uiCurrent, uiUp, uiUsed>>
        /\ uiTasks[t].gen \in UiGens
    BY DEF Extracted, TaskAt, UiTypeOK
  <1>2. CASE Over(t) /\ UNCHANGED uiStaging
    BY <1>2, <1>1, UiTaskStep, ServedKept, OverRelies DEF UiTypeOK, Moved
  <1>3. CASE /\ uiStaging' = [uiStaging EXCEPT ![uiTasks[t].gen] = TreeOf(uiTasks[t].pkg, "whole", FALSE)]
             /\ Goes(t, "staged")
    <2>1. TreeOf(uiTasks[t].pkg, "whole", FALSE) \in Tree
      BY DEF TreeOf, Tree, UiTypeOK, Task
    <2>2. uiStaging' \in [UiGens -> Tree]
      BY <1>3, <2>1 DEF UiTypeOK
    <2>3. Moved(t)
      BY <1>3, GoesMoved
    <2>4. uiTasks'[t].at = "staged"
      BY <1>3, GoesOn
    <2>5. UiRelied(t)'
      BY <2>4 DEF UiRelied
    <2> QED BY <1>1, <2>2, <2>3, <2>5, UiTaskStep, ServedKept
  <1> QED BY <1>2, <1>3 DEF Extracted

LEMMA InstallStep == ASSUME UiInv, NEW t \in UiTaskers, InstallStaged(t) PROVE UiInv'
  <1> USE UiConstants DEF UiInv
  <1> DEFINE g == uiTasks[t].gen
  <1>1. uiTasks[t] # NoTask /\ UNCHANGED <<uiTree, uiRecord, uiCurrent, uiUp, uiUsed>>
        /\ g \in UiGens
    BY DEF InstallStaged, UiTypeOK, Task
  <1>2. CASE UiRefused(t, g)
    <2>1. uiStaging' \in [UiGens -> Tree]
      BY <1>2 DEF InstallStaged, UiTypeOK
    <2>2. Moved(t) /\ UiRelied(t)'
      <3>1. CASE t = "start"
        BY <1>2, <3>1, GoesMoved, GoesOn DEF InstallStaged, UiRelied
      <3>2. CASE t # "start"
        BY <1>2, <3>2, OverRelies DEF InstallStaged, Moved
      <3> QED BY <3>1, <3>2
    <2> QED BY <1>1, <2>1, <2>2, UiTaskStep, ServedKept
  <1>3. CASE ~UiRefused(t, g)
    <2>1. uiStaging' = [uiStaging EXCEPT ![g].synced = TRUE] /\ Goes(t, "synced")
      BY <1>3 DEF InstallStaged
    <2>2. uiStaging' \in [UiGens -> Tree] /\ uiStaging'[g].synced = TRUE
      BY <1>1, <2>1 DEF UiTypeOK, Tree
    <2>3. uiTree'[g] = NoTree
      BY <1>1, <1>3 DEF UiRefused
    <2>4. Moved(t)
      BY <1>1, <2>1, GoesMoved
    <2>5. uiTasks'[t].gen = g /\ uiTasks'[t].at = "synced"
      BY <2>1, GoesOn
    <2>6. UiRelied(t)'
      BY <2>2, <2>3, <2>5 DEF UiRelied
    <2> QED BY <1>1, <2>2, <2>4, <2>6, UiTaskStep, ServedKept
  <1> QED BY <1>2, <1>3

LEMMA RenamedStep == ASSUME UiInv, NEW t \in UiTaskers, Renamed(t) PROVE UiInv'
  <1> USE UiConstants DEF UiInv
  <1> DEFINE g == uiTasks[t].gen
  <1>1. uiTasks[t] # NoTask /\ UNCHANGED <<uiRecord, uiCurrent, uiUp, uiUsed>> /\ g \in UiGens
    BY DEF Renamed, UiTypeOK
  <1>2. CASE uiStaging[g] = NoTree
    <2>1. UNCHANGED <<uiTree, uiStaging>> /\ uiStaging' \in [UiGens -> Tree]
      BY <1>2 DEF Renamed, UiTypeOK
    <2>2. Moved(t) /\ UiRelied(t)'
      <3>1. CASE t = "start"
        BY <1>2, <3>1, GoesMoved, GoesOn DEF Renamed, UiRelied
      <3>2. CASE t # "start"
        BY <1>2, <3>2, OverRelies DEF Renamed, Moved
      <3> QED BY <3>1, <3>2
    <2> QED BY <1>1, <2>1, <2>2, UiTaskStep, ServedKept
  <1>3. CASE uiStaging[g] # NoTree
    BY <1>3, <1>1, GoesMoved, GoesOn, UiTaskStep DEF Renamed, UiTypeOK, UiSound, UiRelied, ServedIsRecorded
  <1> QED BY <1>2, <1>3

LEMMA WriteRecordStep == ASSUME UiInv, NEW t \in UiTaskers, WriteRecord(t) PROVE UiInv'
  <1> USE UiConstants DEF UiInv
  <1> DEFINE g == uiTasks[t].gen
             new == [uiTree[g] EXCEPT !.synced = TRUE]
  <1>1. uiTasks[t] # NoTask /\ UNCHANGED <<uiTree, uiStaging, uiCurrent, uiUp, uiUsed>>
        /\ g \in UiGens /\ uiRecord' = [uiRecord EXCEPT ![g] = new]
    BY DEF WriteRecord, UiTypeOK
  <1>2. new \in Tree /\ SameDigest(new, uiTree[g])
    BY <1>1 DEF UiTypeOK, Tree, SameDigest
  <1> HIDE DEF new
  <1>3. /\ uiTree' \in [UiGens -> Tree] /\ uiStaging' \in [UiGens -> Tree]
        /\ uiRecord' \in [UiGens -> Tree] /\ uiCurrent' \in UiGens \cup {0}
    BY <1>1, <1>2 DEF UiTypeOK
  <1>4. \A h \in UiGens : uiRecord'[h] = IF h = g THEN new ELSE uiRecord[h]
    BY <1>1 DEF UiTypeOK
  <1>5. uiUsed.drop = 0 => (\A h \in UiGens : uiTree'[h].synced) /\ ServedIsRecorded'
    BY <1>1, <1>2, <1>3, <1>4 DEF UiSound, ServedIsRecorded, UiTypeOK
  <1>6. CASE t = "start"
    <2>1. Goes(t, "point")
      BY <1>6 DEF WriteRecord
    <2>2. Moved(t)
      BY <1>1, <2>1, GoesMoved
    <2>3. uiTasks'[t].gen = g /\ uiTasks'[t].at = "point"
      BY <2>1, GoesOn
    <2>4. ASSUME uiUsed.drop = 0 PROVE UiRelied(t)'
      BY <2>4, <1>1, <1>2, <1>4, <2>3 DEF UiSound, UiRelied, WriteRecord
    <2> QED BY <1>1, <1>3, <1>5, <2>2, <2>4, UiTaskStep
  <1>7. CASE t # "start"
    BY <1>7, <1>1, <1>3, <1>5, OverRelies, UiTaskStep DEF WriteRecord, Moved
  <1> QED BY <1>6, <1>7

LEMMA SelectStep == ASSUME UiInv, NEW t \in UiTaskers, SelectGeneration(t) PROVE UiInv'
  <1> USE UiConstants DEF UiInv
  <1> DEFINE g == uiTasks[t].gen
  <1>1. /\ uiTasks[t] # NoTask /\ UNCHANGED <<uiTree, uiStaging, uiRecord, uiCurrent, uiUp, uiUsed>>
        /\ uiStaging' \in [UiGens -> Tree]
    BY DEF SelectGeneration, TaskAt, uiStore, UiTypeOK
  <1>2. CASE InspectGeneration(g) /\ uiCurrent # g
    BY <1>2, GoesMoved, GoesOn, <1>1, UiTaskStep, ServedKept DEF SelectGeneration, InspectGeneration,
       Generations, UiRelied
  <1>3. CASE ~(InspectGeneration(g) /\ uiCurrent # g)
    BY <1>3, <1>1, UiTaskStep, ServedKept, OverRelies DEF SelectGeneration, Moved
  <1> QED BY <1>2, <1>3

LEMMA PointStep == ASSUME UiInv, NEW t \in UiTaskers, PointCurrentAt(t) PROVE UiInv'
  <1> USE UiConstants DEF UiInv
  <1> DEFINE g == uiTasks[t].gen
  <1>1. /\ uiTasks[t] # NoTask /\ UNCHANGED <<uiTree, uiStaging, uiRecord, uiUp, uiUsed>>
        /\ g \in UiGens /\ uiCurrent' = g
    BY DEF PointCurrentAt, UiTypeOK
  <1>2. /\ uiTree' \in [UiGens -> Tree] /\ uiStaging' \in [UiGens -> Tree]
        /\ uiRecord' \in [UiGens -> Tree] /\ uiCurrent' \in UiGens \cup {0}
    BY <1>1 DEF UiTypeOK
  <1>3. uiUsed.drop = 0 => (\A h \in UiGens : uiTree'[h].synced) /\ ServedIsRecorded'
    BY <1>1 DEF UiSound, UiRelied, PointCurrentAt, ServedIsRecorded
  <1>4. Moved(t) /\ UiRelied(t)'
    <2>1. CASE t = "start"
      BY <2>1, GoesMoved, GoesOn DEF PointCurrentAt, UiRelied
    <2>2. CASE t # "start"
      BY <2>2, OverRelies DEF PointCurrentAt, Moved
    <2> QED BY <2>1, <2>2
  <1> QED BY <1>1, <1>2, <1>3, <1>4, UiTaskStep

LEMMA RemoveCurrentStep == ASSUME UiInv, NEW t \in UiTaskers, RemoveCurrent(t) PROVE UiInv'
  BY UiConstants, UiTaskStep, OverRelies DEF UiInv, RemoveCurrent, TaskAt, UiTypeOK, UiSound,
     ServedIsRecorded, Moved

LEMMA DeleteBeginsStep == ASSUME UiInv, NEW t \in UiTaskers, DeleteBegins(t) PROVE UiInv'
  <1> USE UiConstants DEF UiInv
  <1> DEFINE g == uiTasks[t].gen
  <1>1. /\ uiTasks[t] # NoTask /\ UNCHANGED <<uiTree, uiStaging, uiRecord, uiCurrent, uiUp, uiUsed>>
        /\ g \in UiGens /\ uiStaging' \in [UiGens -> Tree]
    BY DEF DeleteBegins, TaskAt, uiStore, UiTypeOK
  <1>2. CASE uiCurrent = g \/ uiTree[g] = NoTree
    BY <1>2, <1>1, UiTaskStep, ServedKept, OverRelies DEF DeleteBegins, Moved
  <1>3. CASE ~(uiCurrent = g \/ uiTree[g] = NoTree)
    BY <1>3, <1>1, GoesMoved, GoesOn, UiTaskStep, ServedKept DEF DeleteBegins, UiRelied
  <1> QED BY <1>2, <1>3

LEMMA TrashedStep == ASSUME UiInv, NEW t \in UiTaskers, Trashed(t) PROVE UiInv'
  <1> USE UiConstants DEF UiInv
  <1> DEFINE g == uiTasks[t].gen
  <1>1. /\ uiTasks[t] # NoTask /\ UNCHANGED <<uiStaging, uiRecord, uiCurrent, uiUp, uiUsed>>
        /\ g \in UiGens /\ uiTree' = [uiTree EXCEPT ![g] = NoTree] /\ Goes(t, "unrecord")
    BY DEF Trashed, TaskAt, UiTypeOK
  <1>2. /\ uiTree' \in [UiGens -> Tree] /\ uiStaging' \in [UiGens -> Tree]
        /\ uiRecord' \in [UiGens -> Tree] /\ uiCurrent' \in UiGens \cup {0}
    BY <1>1 DEF UiTypeOK
  <1>3. \A h \in UiGens : uiTree'[h] = IF h = g THEN NoTree ELSE uiTree[h]
    BY <1>1 DEF UiTypeOK
  <1>4. Moved(t)
    BY <1>1, GoesMoved
  <1>5. uiTasks'[t].gen = g /\ uiTasks'[t].at = "unrecord"
    BY <1>1, GoesOn
  <1>6. ASSUME uiUsed.drop = 0
        PROVE (\A h \in UiGens : uiTree'[h].synced) /\ UiRelied(t)' /\ ServedIsRecorded'
    BY <1>6, <1>3, <1>1, <1>5, <1>2 DEF UiSound, UiRelied, Trashed, TaskAt, NoTree, ServedIsRecorded
  <1> QED BY <1>1, <1>2, <1>4, <1>6, UiTaskStep

LEMMA RemoveRecordStep == ASSUME UiInv, NEW t \in UiTaskers, RemoveRecord(t) PROVE UiInv'
  <1> USE UiConstants DEF UiInv
  <1> DEFINE g == uiTasks[t].gen
  <1>1. /\ uiTasks[t] # NoTask /\ UNCHANGED <<uiTree, uiStaging, uiCurrent, uiUp, uiUsed>>
        /\ g \in UiGens /\ uiRecord' = [uiRecord EXCEPT ![g] = NoTree] /\ Over(t)
    BY DEF RemoveRecord, TaskAt, UiTypeOK
  <1>2. /\ uiTree' \in [UiGens -> Tree] /\ uiStaging' \in [UiGens -> Tree]
        /\ uiRecord' \in [UiGens -> Tree] /\ uiCurrent' \in UiGens \cup {0}
    BY <1>1 DEF UiTypeOK
  <1>3. \A h \in UiGens : uiRecord'[h] = IF h = g THEN NoTree ELSE uiRecord[h]
    BY <1>1 DEF UiTypeOK
  <1>4. ASSUME uiUsed.drop = 0
        PROVE (\A h \in UiGens : uiTree'[h].synced) /\ ServedIsRecorded'
    BY <1>4, <1>1, <1>2, <1>3 DEF UiSound, UiRelied, RemoveRecord, TaskAt, ServedIsRecorded
  <1> QED BY <1>1, <1>2, <1>4, UiTaskStep, OverRelies DEF Moved

LEMMA PickUpStep == ASSUME UiInv, PickUpStaged PROVE UiInv'
  <1> USE UiConstants DEF UiInv
  <1> DEFINE t == "start"
  <1>1. /\ uiTasks[t] # NoTask /\ UNCHANGED <<uiTree, uiStaging, uiRecord, uiCurrent, uiUp, uiUsed>>
        /\ uiStaging' \in [UiGens -> Tree] /\ t \in UiTaskers
    BY DEF PickUpStaged, TaskAt, uiStore, UiTypeOK
  <1>2. CASE Goes(t, "recheck")
    <2>1. Moved(t)
      BY <1>1, <1>2, GoesMoved
    <2>2. uiTasks'[t].at = "recheck"
      BY <1>1, <1>2, GoesOn
    <2>3. UiRelied(t)'
      BY <2>2 DEF UiRelied
    <2> HIDE DEF t
    <2> QED BY <1>1, <2>1, <2>3, UiTaskStep, ServedKept
  <1>3. CASE \E g \in UiGens : uiTasks' = [uiTasks EXCEPT !["start"].gen = g]
                               /\ UNCHANGED <<uiLock, uiReqs>>
    <2>1. PICK g \in UiGens : uiTasks' = [uiTasks EXCEPT !["start"].gen = g]
                               /\ UNCHANGED <<uiLock, uiReqs>>
      BY <1>3
    <2>2. /\ uiTasks' \in [UiTaskers -> Task]
          /\ uiTasks'[t].gen = g /\ uiTasks'[t].at = "staged"
          /\ \A u \in UiTaskers : u # t => uiTasks'[u] = uiTasks[u]
      BY <2>1 DEF UiTypeOK, Task, PickUpStaged, TaskAt
    <2>3. Moved(t)
      BY <2>1, <2>2 DEF Moved
    <2>4. UiRelied(t)'
      BY <2>2 DEF UiRelied
    <2> HIDE DEF t
    <2> QED BY <1>1, <2>3, <2>4, UiTaskStep, ServedKept
  <1> QED BY <1>2, <1>3 DEF PickUpStaged

LEMMA RecheckStep == ASSUME UiInv, RecheckActive PROVE UiInv'
  BY UiConstants, IsOver DEF UiInv, RecheckActive, TaskAt, UiAlone, Over, UiTypeOK, UiSound, UiRelied,
     ServedIsRecorded

LEMMA StageStep ==
  ASSUME UiInv, NEW g \in UiGens, NEW p \in DOMAIN UiPackages, StageByHand(g, p) PROVE UiInv'
  <1> USE UiConstants DEF UiInv
  <1> DEFINE new == TreeOf(p, "whole", TRUE)
  <1>1. new \in Tree /\ new.synced = TRUE
    BY DEF TreeOf, Tree, Pkgs
  <1>2. uiStaging' = [uiStaging EXCEPT ![g] = new]
        /\ UNCHANGED <<uiTree, uiRecord, uiCurrent, uiUp, uiLock, uiReqs, uiTasks>>
    BY DEF StageByHand
  <1> HIDE DEF new
  <1>3. uiStaging' \in [UiGens -> Tree]
        /\ \A h \in UiGens : uiStaging'[h] = IF h = g THEN new ELSE uiStaging[h]
    BY <1>1, <1>2 DEF UiTypeOK
  <1>4. uiUsed' \in [op : Nat, cut : Nat, drop : Nat] /\ uiUsed'.drop = uiUsed.drop
    BY DEF StageByHand, UiCount, UiTypeOK
  <1>5. UiTypeOK'
    BY <1>2, <1>3, <1>4 DEF UiTypeOK
  <1>6. UiAlone' /\ ServedIsRecorded'
    BY <1>2, <1>4 DEF UiAlone, ServedIsRecorded
  <1>7. UiSound'
    BY <1>2, <1>4, <1>1, <1>3 DEF UiSound, UiTypeOK, UiRelied
  <1> QED BY <1>5, <1>6, <1>7

\* A start finds every tree that was installed as it was: all are synced.
LEMMA StartsStep == ASSUME UiInv, NEW cut \in BOOLEAN, UiStarts(cut) PROVE UiInv'
  <1> USE UiConstants DEF UiInv
  <1>1. \A t \in Tree : Torn(t) \subseteq Tree /\ (t.synced => Torn(t) = {t})
    BY DEF Torn, Tree
  <1>2. /\ uiTree' \in [UiGens -> Tree] /\ uiStaging' \in [UiGens -> Tree]
        /\ uiUsed.drop = 0 => uiTree' = uiTree
    BY <1>1 DEF UiStarts, UiTypeOK, UiSound
  <1>3. /\ UNCHANGED <<uiRecord, uiCurrent>> /\ uiUp' = FALSE
        /\ uiUsed' \in [op : Nat, cut : Nat, drop : Nat] /\ uiUsed'.drop = uiUsed.drop
    BY DEF UiStarts, UiCount, UiTypeOK
  <1>4. /\ uiReqs' \in [UiRequests -> Request]
        /\ \A r \in UiRequests : uiReqs'[r] = UiFree
    BY DEF UiStarts
  <1>5. [NoTask EXCEPT !.op = "start", !.at = "staged"] \in Task
        /\ [NoTask EXCEPT !.op = "start", !.at = "staged"].op = "start"
        /\ [NoTask EXCEPT !.op = "start", !.at = "staged"].at = "staged"
    BY DEF NoTask, Task, Pkgs
  <1>6. uiTasks' \in [UiTaskers -> Task]
        /\ \A t \in UiTaskers : uiTasks'[t].at \in {"none", "staged"} /\ uiTasks'[t].op \in {"none", "start"}
        /\ \A r \in UiRequests : uiTasks'[r] = NoTask
    BY <1>5 DEF UiStarts
  <1>7. UiTypeOK'
    BY <1>2, <1>3, <1>4, <1>6 DEF UiTypeOK
  <1>8. UiAlone'
    BY <1>3, <1>4, <1>6 DEF UiAlone
  <1>9. UiSound'
    BY <1>2, <1>3, <1>6 DEF UiSound, UiRelied
  <1>10. ServedIsRecorded'
    BY <1>2, <1>3 DEF ServedIsRecorded
  <1> QED BY <1>7, <1>8, <1>9, <1>10

\* Every step does.
LEMMA UiStep == UiInv /\ [UiNext]_uiVars => UiInv'
  <1> SUFFICES ASSUME UiInv, [UiNext]_uiVars PROVE UiInv'
    OBVIOUS
  <1>1. ASSUME NEW r \in UiRequests, NEW p \in DOMAIN UiPackages, Upload(r, p) PROVE UiInv'
    BY <1>1, AskStep DEF Upload, Pkgs
  <1>2. ASSUME NEW r \in UiRequests, NEW g \in UiGens, Activate(r, g) \/ Delete(r, g) PROVE UiInv'
    BY <1>2, AskStep DEF Activate, Delete, Pkgs
  <1>3. ASSUME NEW r \in UiRequests, Deactivate(r) PROVE UiInv'
    BY <1>3, AskStep DEF Deactivate, Pkgs
  <1>4. ASSUME NEW r \in UiRequests, Locked(r) \/ Dropped(r) PROVE UiInv'
    BY <1>4, LockedStep, DroppedStep
  <1>5. ASSUME NEW t \in UiTaskers,
               \/ Extract(t) \/ Extracted(t) \/ InstallStaged(t) \/ Renamed(t) \/ WriteRecord(t)
        PROVE UiInv'
    BY <1>5, ExtractStep, ExtractedStep, InstallStep, RenamedStep, WriteRecordStep
  <1>6. ASSUME NEW t \in UiTaskers,
               \/ SelectGeneration(t) \/ PointCurrentAt(t) \/ RemoveCurrent(t)
               \/ DeleteBegins(t) \/ Trashed(t) \/ RemoveRecord(t)
        PROVE UiInv'
    BY <1>6, SelectStep, PointStep, RemoveCurrentStep, DeleteBeginsStep, TrashedStep,
       RemoveRecordStep
  <1>7. CASE PickUpStaged \/ RecheckActive
    BY <1>7, PickUpStep, RecheckStep
  <1>8. ASSUME NEW g \in UiGens, NEW p \in DOMAIN UiPackages, StageByHand(g, p) PROVE UiInv'
    BY <1>8, StageStep
  <1>9. ASSUME NEW cut \in BOOLEAN, UiStarts(cut) PROVE UiInv'
    BY <1>9, StartsStep
  <1>10. CASE UNCHANGED uiVars
    BY <1>10 DEF uiVars, UiInv, UiTypeOK, UiAlone, UiSound, UiRelied, ServedIsRecorded
  <1> QED BY <1>1, <1>2, <1>3, <1>4, <1>5, <1>6, <1>7, <1>8, <1>9, <1>10 DEF UiNext

\* The console that is served is a tree that is there, with the digest recorded for
\* it, for any number of generations, requests, kills and power cuts, as long as no
\* client goes away (install_staged, select_generation, delete_generation).
THEOREM ConsoleIsRecorded == UiSpec => []ServedIsRecorded
  <1>1. UiInit => UiInv
    BY UiInitInv
  <1>2. UiInv /\ [UiNext]_uiVars => UiInv'
    BY UiStep
  <1>3. UiInv => ServedIsRecorded
    BY DEF UiInv
  <1> QED BY <1>1, <1>2, <1>3, PTL DEF UiSpec

(***************************************************************************)
(* The task mirror. The invariant adds what may be said of a task by a     *)
(* publisher, a list, a signal on its way, the mirror, its stale copy and  *)
(* a request that has read: the generation a request sampled decides       *)
(* whether what it read may still enter the mirror.                        *)
(***************************************************************************)

\* What a signal, a mirror, a publisher and a request may say of a task.
Said == {"queued", "running", "finished"}
Shown == {"absent", "queued", "running", "finished", "interrupted"}
Pub == [at : {"idle", "list", "store", "signal", "applying", "done"}, task : Tasks \cup {All},
        says : Said \cup {"absent"}, list : [Tasks -> Statuses]]
MirrorRead == [at : {"idle", "missed", "stale", "sampled", "read"}, task : Tasks \cup {All},
               stale : Shown, mirrorGeneration : Nat, got : [Tasks -> Shown]]

\* Types, and the watcher that is live has synchronised.
MirrorTypes ==
  /\ MirrorTypeOK
  /\ since \in Nat /\ restarts \in Nat /\ mirrorGeneration \in Nat /\ since <= restarts
  /\ mirrorWatcher \in {"dialling", "matched", "live", "ended"}
  /\ mirrorSynchronised \in BOOLEAN /\ loaded \in BOOLEAN
  /\ mirrorWatcher = "live" => mirrorSynchronised
  /\ pubs \in [Publishers -> Pub]
  /\ mirrorWire \in Seq(Tasks \X Said)
  /\ mirrorReaders \in [MirrorReaders -> MirrorRead]

\* The worker has started its task and not finished it.
Applies(q) == q.at = "applying" \/ (q.at \in {"list", "store", "signal"} /\ q.says = "running")

\* A publisher speaks of a task of the micad that runs, and so does its list and the
\* one that is stored.
MicadInv ==
  /\ \A p \in Publishers :
       /\ pubs[p].at \in {"list", "store", "signal", "applying"} =>
            pubs[p].task \in Tasks /\ status[pubs[p].task] \notin {"absent", "gone"}
       /\ pubs[p].at \in {"list", "store", "signal"} => pubs[p].says \in Said
       /\ \A t \in Tasks : pubs[p].list[t] # "absent" => status[t] \notin {"absent", "gone"}
  /\ \A t \in Tasks : live[t] # "absent" => status[t] \notin {"absent", "gone"}
  /\ Applies(pubs[Worker]) => status[pubs[Worker].task] = "running"

\* What may be said of a task: nothing before micad made it, and that it was
\* interrupted only once its record is.
Known(t, v) ==
  /\ v # "absent" => status[t] # "absent"
  /\ v = "interrupted" => status[t] \in {"evicted", "gone"}

\* The mirror and its stale copy say what may be said.
RegistryInv == \A t \in Tasks : Known(t, tasks[t]) /\ Known(t, stale[t])

\* A signal is of a task micad made, and under a subscription to the micad that
\* runs of one of its own.
WireInv ==
  /\ ~MirrorSubscribed => mirrorWire = << >>
  /\ \A i \in 1..Len(mirrorWire) :
       /\ status[mirrorWire[i][1]] # "absent"
       /\ MirrorSubscribed /\ since = restarts => status[mirrorWire[i][1]] # "gone"

\* What a request holds; what it could still fill the mirror with is not active
\* if its task is gone.
ReaderInv(r) ==
  LET q == mirrorReaders[r] IN
  /\ q.at = "missed" => q.task \in Tasks
  /\ q.mirrorGeneration <= mirrorGeneration
  /\ q.task \in Tasks => Known(q.task, q.stale)
  /\ \A t \in Tasks :
       /\ Known(t, q.got[t])
       /\ (q.at = "read" /\ q.mirrorGeneration = mirrorGeneration
           /\ mirrorWatcher = "live" /\ since = restarts /\ status[t] = "gone")
          => q.got[t] \notin {"queued", "running"}

\* The inductive invariant.
MirrorInv ==
  /\ MirrorTypes /\ MicadInv /\ RegistryInv /\ WireInv
  /\ \A r \in MirrorReaders : ReaderInv(r)
  /\ EarlierTaskNotActive

\* What nothing is.
LEMMA MirrorConstants ==
  /\ Nothing \in [Tasks -> Statuses] /\ Nothing \in [Tasks -> Shown]
  /\ \A t \in Tasks : Nothing[t] = "absent"
  /\ NoPub \in Pub /\ NoPub.at = "idle" /\ NoPub.list = Nothing
  /\ NoMirrorRead \in MirrorRead /\ NoMirrorRead.at = "idle" /\ NoMirrorRead.task = All
  /\ NoMirrorRead.got = Nothing /\ NoMirrorRead.mirrorGeneration = 0
  /\ NoMirrorRead.stale = "absent" /\ All \notin Tasks
  /\ Statuses \cup {"interrupted"} = Shown /\ Worker \in Publishers
  BY MirrorAssumption DEF Nothing, Statuses, Shown, NoPub, Pub, NoMirrorRead, MirrorRead, Said,
     Publishers

\* Nothing is known at first.
LEMMA MirrorInitInv == MirrorInit => MirrorInv
  <1> SUFFICES ASSUME MirrorInit PROVE MirrorInv
    OBVIOUS
  <1> USE MirrorConstants DEF MirrorInit
  <1>1. MirrorTypes
    <2>1. status \in [Tasks -> Statuses \cup {"evicted", "gone"}]
      OBVIOUS
    <2>2. MirrorTypeOK
      BY <2>1 DEF MirrorTypeOK
    <2>3. pubs \in [Publishers -> Pub] /\ mirrorReaders \in [MirrorReaders -> MirrorRead]
      OBVIOUS
    <2>4. mirrorWire \in Seq(Tasks \X Said)
      OBVIOUS
    <2>5. since = 0 /\ restarts = 0 /\ mirrorGeneration = 0 /\ 0 <= 0 /\ 0 \in Nat
      OBVIOUS
    <2>6. mirrorWatcher = "dialling" /\ mirrorSynchronised = FALSE /\ loaded = FALSE
      OBVIOUS
    <2> QED BY ONLY <2>2, <2>3, <2>4, <2>5, <2>6 DEF MirrorTypes
  <1>2. MicadInv
    BY DEF MicadInv, Applies
  <1>3. RegistryInv
    BY DEF RegistryInv, Known
  <1>4. WireInv
    BY DEF WireInv, MirrorSubscribed
  <1>5. \A r \in MirrorReaders : ReaderInv(r)
    BY DEF ReaderInv, Known
  <1>6. EarlierTaskNotActive
    BY DEF EarlierTaskNotActive
  <1> QED BY <1>1, <1>2, <1>3, <1>4, <1>5, <1>6 DEF MirrorInv

\* What is known of a task stays known: none goes back to absent, none comes back.
LEMMA KnownKept ==
  ASSUME NEW t \in Tasks, NEW v, Known(t, v),
         status[t] # "absent" => status'[t] # "absent",
         status[t] \in {"evicted", "gone"} => status'[t] \in {"evicted", "gone"}
  PROVE Known(t, v)'
  BY DEF Known

\* The requests and the registry know no less when tasks only move forward.
LEMMA ReadersKept ==
  ASSUME MirrorInv, UNCHANGED <<mirrorReaders, mirrorGeneration, mirrorWatcher, since, restarts>>,
         \A t \in Tasks : /\ status[t] # "absent" => status'[t] # "absent"
                          /\ status[t] = "gone" <=> status'[t] = "gone"
                          /\ status[t] = "evicted" => status'[t] = "evicted"
  PROVE \A r \in MirrorReaders : ReaderInv(r)'
  BY KnownKept DEF MirrorInv, MirrorTypes, MirrorRead, ReaderInv

\* Each step of micad, of the watcher and of a request keeps the invariant.
LEMMA TransitionStep ==
  ASSUME MirrorInv, NEW p \in Publishers, NEW t \in Tasks, NEW says \in Said,
         status[t] \notin {"evicted", "gone"}, p # Worker => status[t] # "running",
         Transition(p, t, says)
  PROVE MirrorInv'
  <1> USE DEF MirrorInv
  <1> DEFINE new == [NoPub EXCEPT !.at = "list", !.task = t, !.says = says]
  <1>1. /\ status' = [status EXCEPT ![t] = says]
        /\ pubs' = [pubs EXCEPT ![p] = new]
    BY DEF Transition
  <1>u. UNCHANGED <<live, restarts, mirrorWire, mirrorWatcher, since, mirrorLapses,
                    mirrorSynchronised, loaded, mirrorGeneration, tasks, stale, mirrorReaders>>
    BY DEF Transition, bus, registry
  <1>2. new \in Pub /\ new.at = "list" /\ new.task = t /\ new.says = says /\ new.list = Nothing
    BY MirrorConstants DEF NoPub, Pub
  <1> HIDE DEF new
  <1>3. /\ status' \in [Tasks -> Statuses \cup {"evicted", "gone"}]
        /\ \A u \in Tasks : status'[u] = IF u = t THEN says ELSE status[u]
    BY <1>1 DEF MirrorTypes, MirrorTypeOK, Said, Statuses
  <1>4. /\ pubs' \in [Publishers -> Pub]
        /\ \A o \in Publishers : pubs'[o] = IF o = p THEN new ELSE pubs[o]
    BY <1>1, <1>2 DEF MirrorTypes
  <1>5. \A u \in Tasks : /\ status[u] # "absent" => status'[u] # "absent"
                         /\ status[u] = "gone" <=> status'[u] = "gone"
                         /\ status[u] = "evicted" => status'[u] = "evicted"
    BY <1>3 DEF Said
  <1>6. MirrorTypes'
    BY <1>u, <1>3, <1>4 DEF MirrorTypes, MirrorTypeOK
  <1>7a. Applies(pubs'[Worker]) => status'[pubs'[Worker].task] = "running"
    BY <1>2, <1>3, <1>4, MirrorConstants DEF Applies, MicadInv
  <1>7. MicadInv'
    BY <1>u, <1>5, <1>2, <1>3, <1>4, <1>7a, MirrorConstants DEF MicadInv, Said
  <1>8. RegistryInv'
    BY <1>u, <1>5, KnownKept DEF RegistryInv
  <1>9. WireInv'
    BY <1>u, <1>5 DEF MirrorTypes, WireInv, MirrorSubscribed
  <1>10. EarlierTaskNotActive'
    BY <1>u, <1>5 DEF EarlierTaskNotActive
  <1> QED BY <1>u, <1>5, <1>6, <1>7, <1>8, <1>9, <1>10, ReadersKept

\* A step of a publisher that leaves every task as it is.
LEMMA PublisherStep ==
  ASSUME MirrorInv, NEW p \in Publishers, NEW new \in Pub, pubs' = [pubs EXCEPT ![p] = new],
         UNCHANGED <<status, restarts, mirrorWatcher, since, mirrorLapses, registry, mirrorReaders>>,
         live' \in [Tasks -> Statuses],
         \A t \in Tasks : live'[t] # "absent" => status[t] \notin {"absent", "gone"},
         new.at \in {"list", "store", "signal", "applying"} =>
           new.task \in Tasks /\ status[new.task] \notin {"absent", "gone"},
         new.at \in {"list", "store", "signal"} => new.says \in Said,
         \A t \in Tasks : new.list[t] # "absent" => status[t] \notin {"absent", "gone"},
         mirrorWire' \in Seq(Tasks \X Said), WireInv',
         p = Worker /\ Applies(new) => status[new.task] = "running"
  PROVE MirrorInv'
  BY ReadersKept, MirrorConstants DEF MirrorInv, registry, MirrorTypes, MirrorTypeOK, MicadInv, RegistryInv, Known,
     EarlierTaskNotActive

LEMMA WireKept ==
  ASSUME MirrorInv, UNCHANGED <<status, restarts, mirrorWire, mirrorWatcher, since>>
  PROVE WireInv' /\ mirrorWire' \in Seq(Tasks \X Said)
  BY DEF MirrorInv, MirrorTypes, WireInv, MirrorSubscribed

LEMMA TakeListStep == ASSUME MirrorInv, NEW p \in Publishers, TakeList(p) PROVE MirrorInv'
  <1> DEFINE list == RecordList
             new == [pubs[p] EXCEPT !.at = "store", !.list = list]
  <1>1. pubs[p] \in Pub /\ pubs[p].at = "list" /\ pubs' = [pubs EXCEPT ![p] = new]
    BY DEF MirrorInv, MirrorTypes, TakeList
  <1>2. list \in [Tasks -> Statuses]
    BY DEF MirrorInv, MirrorTypes, MirrorTypeOK, Statuses, RecordList, Recorded
  <1>3. \A t \in Tasks : list[t] # "absent" => status[t] \notin {"absent", "gone"}
    BY DEF RecordList, Recorded
  <1> HIDE DEF list
  <1>4. /\ new \in Pub /\ new.at = "store" /\ new.task = pubs[p].task /\ new.says = pubs[p].says
        /\ new.list = list
    BY <1>1, <1>2 DEF Pub
  <1> HIDE DEF new
  <1>5. /\ UNCHANGED <<status, live, restarts, mirrorWire, mirrorWatcher, since, mirrorLapses,
                       registry, mirrorReaders>>
        /\ live' \in [Tasks -> Statuses]
        /\ \A t \in Tasks : live'[t] # "absent" => status[t] \notin {"absent", "gone"}
    BY DEF TakeList, bus, MirrorInv, MicadInv, MirrorTypes, MirrorTypeOK
  <1>6. /\ new.task \in Tasks /\ status[new.task] \notin {"absent", "gone"} /\ new.says \in Said
        /\ \A t \in Tasks : new.list[t] # "absent" => status[t] \notin {"absent", "gone"}
    BY <1>1, <1>3, <1>4 DEF MirrorInv, MicadInv
  <1>7. WireInv' /\ mirrorWire' \in Seq(Tasks \X Said)
    BY <1>5, WireKept
  <1>8. p = Worker /\ Applies(new) => status[new.task] = "running"
    BY <1>1, <1>4 DEF MirrorInv, MicadInv, Applies
  <1> QED BY <1>1, <1>4, <1>5, <1>6, <1>7, <1>8, PublisherStep

LEMMA StoreListStep == ASSUME MirrorInv, NEW p \in Publishers, StoreList(p) PROVE MirrorInv'
  <1> DEFINE new == [pubs[p] EXCEPT !.at = "signal", !.list = Nothing]
  <1>1. /\ pubs[p] \in Pub /\ pubs[p].at = "store" /\ pubs' = [pubs EXCEPT ![p] = new]
        /\ live' = pubs[p].list
    BY DEF MirrorInv, MirrorTypes, StoreList
  <1>2. /\ new \in Pub /\ new.at = "signal" /\ new.task = pubs[p].task /\ new.says = pubs[p].says
        /\ new.list = Nothing
    BY <1>1, MirrorConstants DEF Pub
  <1> HIDE DEF new
  <1>3. /\ UNCHANGED <<status, restarts, mirrorWire, mirrorWatcher, since, mirrorLapses,
                       registry, mirrorReaders>>
        /\ live' \in [Tasks -> Statuses]
        /\ \A t \in Tasks : live'[t] # "absent" => status[t] \notin {"absent", "gone"}
    BY <1>1 DEF StoreList, bus, MirrorInv, MicadInv, Pub
  <1>4. /\ new.task \in Tasks /\ status[new.task] \notin {"absent", "gone"} /\ new.says \in Said
        /\ \A t \in Tasks : new.list[t] # "absent" => status[t] \notin {"absent", "gone"}
    BY <1>1, <1>2, MirrorConstants DEF MirrorInv, MicadInv
  <1>5. WireInv' /\ mirrorWire' \in Seq(Tasks \X Said)
    BY <1>3, WireKept
  <1>6. p = Worker /\ Applies(new) => status[new.task] = "running"
    BY <1>1, <1>2 DEF MirrorInv, MicadInv, Applies
  <1> QED BY <1>1, <1>2, <1>3, <1>4, <1>5, <1>6, PublisherStep

LEMMA EmitStep == ASSUME MirrorInv, NEW p \in Publishers, EmitTaskChanged(p) PROVE MirrorInv'
  <1> DEFINE next == IF p # Worker THEN "done"
                     ELSE IF pubs[p].says = "running" THEN "applying" ELSE "idle"
             new == [NoPub EXCEPT !.at = next, !.task = IF next = "applying" THEN pubs[p].task ELSE All]
  <1>1. /\ pubs[p] \in Pub /\ pubs[p].at = "signal" /\ pubs' = [pubs EXCEPT ![p] = new]
        /\ pubs[p].task \in Tasks /\ status[pubs[p].task] \notin {"absent", "gone"}
        /\ pubs[p].says \in Said
    BY DEF MirrorInv, MirrorTypes, MicadInv, EmitTaskChanged
  <1>2. /\ new \in Pub /\ new.at \in {"done", "applying", "idle"} /\ new.list = Nothing
        /\ new.at = "applying" => new.task = pubs[p].task /\ pubs[p].says = "running"
    BY <1>1, MirrorConstants DEF Pub, NoPub
  <1> HIDE DEF new
  <1>3. /\ UNCHANGED <<status, live, restarts, mirrorWatcher, since, mirrorLapses,
                       registry, mirrorReaders>>
        /\ live' \in [Tasks -> Statuses]
        /\ \A t \in Tasks : live'[t] # "absent" => status[t] \notin {"absent", "gone"}
    BY <1>1 DEF EmitTaskChanged, MirrorInv, MicadInv, MirrorTypes, MirrorTypeOK
  <1>4. \A t \in Tasks : new.list[t] # "absent" => status[t] \notin {"absent", "gone"}
    BY <1>2, MirrorConstants
  <1>5. WireInv' /\ mirrorWire' \in Seq(Tasks \X Said)
    <2>1. CASE ~MirrorSubscribed
      BY <1>3, <2>1, WireKept DEF EmitTaskChanged
    <2>2. CASE MirrorSubscribed
      <3> DEFINE signal == <<pubs[p].task, pubs[p].says>>
      <3>1. signal \in Tasks \X Said /\ signal[1] = pubs[p].task
        BY <1>1
      <3>2. mirrorWire' = Append(mirrorWire, signal) /\ mirrorWire \in Seq(Tasks \X Said)
        BY <2>2 DEF EmitTaskChanged, MirrorInv, MirrorTypes
      <3> HIDE DEF signal
      <3>3. /\ mirrorWire' \in Seq(Tasks \X Said)
            /\ \A i \in 1..Len(mirrorWire') :
                 mirrorWire'[i] = signal \/ (i \in 1..Len(mirrorWire) /\ mirrorWire'[i] = mirrorWire[i])
        BY <3>1, <3>2
      <3>4. /\ UNCHANGED <<status, since, restarts, mirrorWatcher>> /\ MirrorSubscribed'
            /\ MirrorSubscribed
        BY <1>3, <2>2 DEF MirrorSubscribed
      <3>5. ASSUME NEW i \in 1..Len(mirrorWire')
            PROVE /\ status'[mirrorWire'[i][1]] # "absent"
                  /\ since' = restarts' => status'[mirrorWire'[i][1]] # "gone"
        BY <1>1, <3>1, <3>4, <3>3 DEF MirrorInv, WireInv
      <3> QED BY <3>3, <3>4, <3>5 DEF WireInv
    <2> QED BY <2>1, <2>2
  <1>6. p = Worker /\ Applies(new) => status[new.task] = "running"
    BY <1>1, <1>2 DEF MirrorInv, MicadInv, Applies
  <1> QED BY <1>1, <1>2, <1>3, <1>4, <1>5, <1>6, PublisherStep

\* A finished record is dropped: what was known of its task stays so.
LEMMA EvictStep == ASSUME MirrorInv, NEW t \in Tasks, Evict(t) PROVE MirrorInv'
  <1> USE DEF MirrorInv
  <1>1. /\ status[t] = "finished" /\ status' = [status EXCEPT ![t] = "evicted"]
        /\ live' \in {live, RecordList'}
    BY DEF Evict
  <1>u. UNCHANGED <<pubs, restarts, mirrorWire, mirrorWatcher, since, mirrorLapses,
                    mirrorSynchronised, loaded, mirrorGeneration, tasks, stale, mirrorReaders>>
    BY DEF Evict, bus, registry
  <1>2. /\ status' \in [Tasks -> Statuses \cup {"evicted", "gone"}]
        /\ \A u \in Tasks : status'[u] = IF u = t THEN "evicted" ELSE status[u]
    BY <1>1 DEF MirrorTypes, MirrorTypeOK
  <1>3. \A u \in Tasks : /\ status[u] # "absent" => status'[u] # "absent"
                         /\ status[u] = "gone" <=> status'[u] = "gone"
                         /\ status[u] = "evicted" => status'[u] = "evicted"
                         /\ status[u] = "running" => status'[u] = "running"
    BY <1>1, <1>2
  <1>4. RecordList' \in [Tasks -> Statuses]
        /\ \A u \in Tasks : RecordList'[u] # "absent" => status'[u] \notin {"absent", "gone"}
    BY <1>2 DEF RecordList, Recorded, Statuses
  <1>5. live' \in [Tasks -> Statuses]
        /\ \A u \in Tasks : live'[u] # "absent" => status'[u] \notin {"absent", "gone"}
    BY <1>3, <1>4, <1>1 DEF MirrorTypes, MirrorTypeOK, MicadInv
  <1>6. MirrorTypes'
    BY <1>u, <1>2, <1>5 DEF MirrorTypes, MirrorTypeOK
  <1>7a. Applies(pubs[Worker]) => status'[pubs[Worker].task] = "running"
    BY <1>3, MirrorConstants DEF MicadInv, Applies
  <1>7. MicadInv'
    BY <1>u, <1>3, <1>5, <1>7a DEF MicadInv
  <1>8. RegistryInv'
    BY <1>u, <1>3, KnownKept DEF RegistryInv
  <1>9. WireInv'
    BY <1>u, <1>3 DEF MirrorTypes, WireInv, MirrorSubscribed
  <1>10. EarlierTaskNotActive'
    BY <1>u, <1>3 DEF EarlierTaskNotActive
  <1> QED BY <1>u, <1>3, <1>6, <1>7, <1>8, <1>9, <1>10, ReadersKept

LEMMA RestartStep == ASSUME MirrorInv, MicadRestarts PROVE MirrorInv'
  <1> USE DEF MirrorInv
  <1>1. /\ status' = [t \in Tasks |-> IF status[t] = "absent" THEN "absent" ELSE "gone"]
        /\ restarts' = restarts + 1 /\ live' = Nothing
    BY DEF MicadRestarts
  <1>u. UNCHANGED <<mirrorWire, mirrorWatcher, since, mirrorLapses, mirrorSynchronised, loaded,
                    mirrorGeneration, tasks, stale, mirrorReaders>>
    BY DEF MicadRestarts, bus, registry
  <1>2. /\ status' \in [Tasks -> Statuses \cup {"evicted", "gone"}]
        /\ \A t \in Tasks : status'[t] = IF status[t] = "absent" THEN "absent" ELSE "gone"
    BY <1>1 DEF Statuses
  <1>3. restarts' \in Nat /\ since' # restarts' /\ since' <= restarts'
    BY <1>1, <1>u DEF MirrorTypes
  <1>4. /\ pubs' \in [Publishers -> Pub]
        /\ \A p \in Publishers : pubs'[p].at \in {"idle", "done"} /\ pubs'[p].list = Nothing
    BY MirrorConstants DEF MicadRestarts, NoPub, Pub
  <1>5. MirrorTypes'
    BY <1>1, <1>u, <1>2, <1>3, <1>4, MirrorConstants DEF MirrorTypes, MirrorTypeOK
  <1>6. MicadInv'
    BY <1>1, <1>4, MirrorConstants DEF MicadInv, Applies
  <1>7. \A t \in Tasks : \A v : Known(t, v) => Known(t, v)'
    BY <1>2 DEF Known
  <1>8. RegistryInv'
    BY <1>u, <1>7 DEF RegistryInv
  <1>9. WireInv'
    BY <1>u, <1>2, <1>3 DEF MirrorTypes, WireInv, MirrorSubscribed
  <1>10. EarlierTaskNotActive'
    BY <1>3 DEF EarlierTaskNotActive
  <1>11. \A r \in MirrorReaders : ReaderInv(r)'
    BY <1>u, <1>3, <1>7 DEF ReaderInv
  <1> QED BY <1>5, <1>6, <1>8, <1>9, <1>10, <1>11

LEMMA MicadKept == ASSUME MirrorInv, UNCHANGED micad PROVE MicadInv'
  BY DEF MirrorInv, MicadInv, micad

LEMMA MatchStep == ASSUME MirrorInv, MirrorWatchMatch PROVE MirrorInv'
  BY MicadKept DEF MirrorInv, MirrorWatchMatch, micad, registry, MirrorTypes, MirrorTypeOK, RegistryInv,
     Known, EarlierTaskNotActive, WireInv, MirrorSubscribed, ReaderInv

\* A new generation makes every read that is under way useless to the mirror.
LEMMA NewGeneration ==
  ASSUME MirrorInv, mirrorGeneration' = mirrorGeneration + 1, UNCHANGED <<status, mirrorReaders>>
  PROVE \A r \in MirrorReaders : ReaderInv(r)'
  BY DEF MirrorInv, MirrorTypes, MirrorRead, ReaderInv, Known

LEMMA SubscribedStep == ASSUME MirrorInv, MirrorWatchSubscribed PROVE MirrorInv'
  <1> USE DEF MirrorInv
  <1>1. /\ mirrorWatcher = "matched" /\ mirrorWatcher' = "live"
        /\ mirrorSynchronised' = TRUE /\ loaded' = FALSE
        /\ mirrorGeneration' = mirrorGeneration + 1
        /\ tasks' = Nothing /\ UNCHANGED micad
        /\ UNCHANGED <<status, live, pubs, restarts, mirrorWire, since, stale, mirrorReaders>>
    BY DEF MirrorWatchSubscribed, micad
  <1>2. MirrorTypes'
    <2>1. mirrorGeneration' \in Nat
      BY <1>1 DEF MirrorTypes
    <2> QED BY <1>1, <2>1, MirrorConstants DEF MirrorTypes, MirrorTypeOK
  <1>3. RegistryInv' /\ EarlierTaskNotActive'
    BY <1>1, MirrorConstants DEF RegistryInv, Known, EarlierTaskNotActive
  <1>4. WireInv'
    BY <1>1 DEF WireInv, MirrorSubscribed
  <1> QED BY <1>1, <1>2, <1>3, <1>4, MicadKept, NewGeneration

LEMMA UpdateStep == ASSUME MirrorInv, WatcherUpdate PROVE MirrorInv'
  <1> USE DEF MirrorInv
  <1> DEFINE u == Head(mirrorWire)[1]
             v == Head(mirrorWire)[2]
  <1>1. /\ mirrorWatcher = "live" /\ mirrorWire # << >> /\ mirrorWire' = Tail(mirrorWire)
        /\ mirrorGeneration' = mirrorGeneration + 1
        /\ tasks' = [tasks EXCEPT ![u] = v] /\ stale' = [stale EXCEPT ![u] = "absent"]
    BY DEF WatcherUpdate
  <1>f. /\ UNCHANGED micad
        /\ UNCHANGED <<status, live, pubs, restarts, mirrorWatcher, since, mirrorSynchronised,
                       loaded, mirrorReaders>>
    BY DEF WatcherUpdate, micad
  <1>2. /\ mirrorWire \in Seq(Tasks \X Said) /\ Head(mirrorWire) = mirrorWire[1]
        /\ 1 \in 1..Len(mirrorWire) /\ Head(mirrorWire) \in Tasks \X Said
        /\ Tail(mirrorWire) \in Seq(Tasks \X Said)
        /\ \A i \in 1..Len(Tail(mirrorWire)) :
             i + 1 \in 1..Len(mirrorWire) /\ Tail(mirrorWire)[i] = mirrorWire[i + 1]
    BY <1>1 DEF MirrorTypes
  <1>3. /\ u \in Tasks /\ v \in Said /\ status[u] # "absent"
        /\ since = restarts => status[u] # "gone"
    BY <1>1, <1>2 DEF WireInv, MirrorSubscribed
  <1> HIDE DEF u, v
  <1>4. /\ tasks' \in [Tasks -> Statuses \cup {"interrupted"}]
        /\ stale' \in [Tasks -> Statuses \cup {"interrupted"}]
        /\ \A t \in Tasks : /\ tasks'[t] = IF t = u THEN v ELSE tasks[t]
                            /\ stale'[t] = IF t = u THEN "absent" ELSE stale[t]
    BY <1>1, <1>3 DEF MirrorTypes, MirrorTypeOK, Said, Statuses
  <1>5. mirrorSynchronised
    BY <1>1 DEF MirrorTypes
  <1>6. MirrorTypes'
    BY <1>1, <1>2, <1>f, <1>4, <1>5 DEF MirrorTypes, MirrorTypeOK
  <1>7. RegistryInv'
    BY <1>f, <1>3, <1>4 DEF RegistryInv, Known, Said
  <1>8. EarlierTaskNotActive'
    BY <1>f, <1>3, <1>4 DEF EarlierTaskNotActive
  <1>9. WireInv'
    BY <1>1, <1>f, <1>2 DEF WireInv, MirrorSubscribed
  <1> QED BY <1>1, <1>f, <1>6, <1>7, <1>8, <1>9, MicadKept, NewGeneration

LEMMA EndsStep == ASSUME MirrorInv, MirrorWatchEnds PROVE MirrorInv'
  BY MicadKept DEF MirrorInv, MirrorWatchEnds, micad, registry, MirrorTypes, MirrorTypeOK, RegistryInv,
     Known, EarlierTaskNotActive, WireInv, MirrorSubscribed, ReaderInv

LEMMA LapsedStep == ASSUME MirrorInv, MirrorWatchLapsed PROVE MirrorInv'
  <1> USE DEF MirrorInv
  <1>1. /\ mirrorWatcher = "ended" /\ mirrorWatcher' = "dialling"
        /\ mirrorSynchronised' = FALSE /\ loaded' = FALSE
        /\ mirrorGeneration' = mirrorGeneration + 1
        /\ tasks' = Nothing /\ UNCHANGED micad
        /\ UNCHANGED <<status, live, pubs, restarts, mirrorWire, since, mirrorReaders>>
    BY DEF MirrorWatchLapsed, micad
  <1>2. /\ stale' \in [Tasks -> Statuses \cup {"interrupted"}]
        /\ \A t \in Tasks : stale'[t] \in {tasks[t], stale[t]}
    BY DEF MirrorWatchLapsed, MirrorTypes, MirrorTypeOK
  <1>3. MirrorTypes'
    <2>1. mirrorGeneration' \in Nat
      BY <1>1 DEF MirrorTypes
    <2> QED BY <1>1, <1>2, <2>1, MirrorConstants DEF MirrorTypes, MirrorTypeOK
  <1>4. RegistryInv'
    BY <1>1, <1>2, MirrorConstants DEF RegistryInv, Known
  <1>5. EarlierTaskNotActive'
    BY <1>1 DEF EarlierTaskNotActive
  <1>6. WireInv'
    BY <1>1 DEF WireInv, MirrorSubscribed
  <1> QED BY <1>1, <1>3, <1>4, <1>5, <1>6, MicadKept, NewGeneration

\* A step of a request that leaves the mirror alone.
LEMMA ReaderMoves ==
  ASSUME MirrorInv, NEW r \in MirrorReaders, NEW new \in MirrorRead,
         mirrorReaders' = [mirrorReaders EXCEPT ![r] = new],
         UNCHANGED <<micad, bus, registry>>, ReaderInv(r)'
  PROVE MirrorInv'
  BY MicadKept DEF MirrorInv, micad, bus, registry, MirrorTypes, MirrorTypeOK, RegistryInv, Known,
     EarlierTaskNotActive, WireInv, MirrorSubscribed, ReaderInv

\* A request that has read nothing yet.
LEMMA UnreadOK ==
  ASSUME MirrorInv, NEW r \in MirrorReaders, NEW new \in MirrorRead,
         mirrorReaders'[r] = new, UNCHANGED <<status, mirrorGeneration>>,
         new.at # "read", new.at = "missed" => new.task \in Tasks,
         new.mirrorGeneration <= mirrorGeneration,
         new.task \in Tasks => Known(new.task, new.stale),
         \A t \in Tasks : Known(t, new.got[t])
  PROVE ReaderInv(r)'
  BY DEF ReaderInv, Known

LEMMA NothingKnown == ASSUME NEW t \in Tasks PROVE Known(t, "absent")
  BY DEF Known

LEMMA GetStep ==
  ASSUME MirrorInv, NEW r \in MirrorReaders, (\E t \in Tasks : GetTask(r, t)) \/ GetList(r)
  PROVE MirrorInv'
  <1>1. \E new \in MirrorRead :
          /\ mirrorReaders' = [mirrorReaders EXCEPT ![r] = new]
          /\ new.at # "read" /\ (new.at = "missed" => new.task \in Tasks)
          /\ new.mirrorGeneration = 0 /\ new.stale = "absent" /\ new.got = Nothing
    <2>1. ASSUME NEW t \in Tasks, GetTask(r, t)
          PROVE \E new \in MirrorRead :
                  /\ mirrorReaders' = [mirrorReaders EXCEPT ![r] = new]
                  /\ new.at # "read" /\ (new.at = "missed" => new.task \in Tasks)
                  /\ new.mirrorGeneration = 0 /\ new.stale = "absent" /\ new.got = Nothing
      <3>1. [NoMirrorRead EXCEPT !.at = "missed", !.task = t] \in MirrorRead
        BY MirrorConstants DEF NoMirrorRead, MirrorRead
      <3> USE <3>1
      <3> WITNESS [NoMirrorRead EXCEPT !.at = "missed", !.task = t] \in MirrorRead
      <3> QED BY <2>1, MirrorConstants DEF GetTask, NoMirrorRead, MirrorRead
    <2>2. CASE GetList(r)
      <3>1. [NoMirrorRead EXCEPT !.at = "stale"] \in MirrorRead
        BY MirrorConstants DEF NoMirrorRead, MirrorRead
      <3> USE <3>1
      <3> WITNESS [NoMirrorRead EXCEPT !.at = "stale"] \in MirrorRead
      <3> QED BY <2>2, MirrorConstants DEF GetList, NoMirrorRead, MirrorRead
    <2> QED BY <2>1, <2>2
  <1>2. PICK new \in MirrorRead :
          /\ mirrorReaders' = [mirrorReaders EXCEPT ![r] = new]
          /\ new.at # "read" /\ (new.at = "missed" => new.task \in Tasks)
          /\ new.mirrorGeneration = 0 /\ new.stale = "absent" /\ new.got = Nothing
    BY <1>1
  <1>3. mirrorReaders'[r] = new /\ UNCHANGED <<micad, bus, registry>>
    BY <1>2 DEF MirrorInv, MirrorTypes, GetTask, GetList
  <1>4. UNCHANGED <<status, mirrorGeneration>> /\ 0 <= mirrorGeneration
    BY <1>3 DEF micad, registry, MirrorInv, MirrorTypes
  <1>5. \A u \in Tasks : Known(u, new.got[u])
    BY <1>2, MirrorConstants, NothingKnown
  <1>6. new.task \in Tasks => Known(new.task, new.stale)
    BY <1>2, NothingKnown
  <1>7. ReaderInv(r)'
    BY <1>2, <1>3, <1>4, <1>5, <1>6, UnreadOK
  <1> QED BY <1>2, <1>3, <1>7, ReaderMoves

LEMMA SampleStep ==
  ASSUME MirrorInv, NEW r \in MirrorReaders, SampleStale(r) \/ SampleGeneration(r)
  PROVE MirrorInv'
  <1> USE DEF MirrorInv
  <1> DEFINE q == mirrorReaders[r]
  <1>1. q \in MirrorRead /\ ReaderInv(r)
    BY DEF MirrorTypes
  <1>2. UNCHANGED <<micad, bus, registry>> /\ UNCHANGED <<status, mirrorGeneration>>
    BY DEF SampleStale, SampleGeneration, micad, registry
  <1>3. CASE SampleStale(r)
    <2> DEFINE new == [q EXCEPT !.at = "stale", !.stale = stale[q.task]]
    <2>1. q.at = "missed" /\ q.task \in Tasks /\ mirrorReaders' = [mirrorReaders EXCEPT ![r] = new]
      BY <1>1, <1>3 DEF SampleStale, ReaderInv
    <2>2. stale[q.task] \in Shown /\ Known(q.task, stale[q.task])
      BY <2>1, MirrorConstants DEF MirrorTypes, MirrorTypeOK, RegistryInv
    <2>3. /\ new \in MirrorRead /\ new.at = "stale" /\ new.task = q.task /\ new.got = q.got
          /\ new.mirrorGeneration = q.mirrorGeneration /\ new.stale = stale[q.task]
      BY <1>1, <2>2 DEF MirrorRead
    <2> HIDE DEF new
    <2>4. mirrorReaders'[r] = new
      BY <2>1 DEF MirrorTypes
    <2>5. ReaderInv(r)'
      BY <1>1, <1>2, <2>2, <2>3, <2>4, UnreadOK DEF ReaderInv
    <2> QED BY <1>2, <2>1, <2>3, <2>5, ReaderMoves
  <1>4. CASE SampleGeneration(r)
    <2> DEFINE new == [q EXCEPT !.at = "sampled", !.mirrorGeneration = mirrorGeneration]
    <2>1. mirrorReaders' = [mirrorReaders EXCEPT ![r] = new] /\ mirrorGeneration \in Nat
      BY <1>4 DEF SampleGeneration, MirrorTypes
    <2>2. /\ new \in MirrorRead /\ new.at = "sampled" /\ new.task = q.task /\ new.got = q.got
          /\ new.mirrorGeneration = mirrorGeneration /\ new.stale = q.stale
      BY <1>1, <2>1 DEF MirrorRead
    <2> HIDE DEF new
    <2>3. mirrorReaders'[r] = new /\ new.mirrorGeneration <= mirrorGeneration
      BY <2>1, <2>2 DEF MirrorTypes
    <2>4. ReaderInv(r)'
      BY <1>1, <1>2, <2>2, <2>3, UnreadOK DEF ReaderInv
    <2> QED BY <1>2, <2>1, <2>2, <2>4, ReaderMoves
  <1> QED BY <1>3, <1>4

\* A request that has read: what it got is known, and not active of a task that is
\* gone at the time.
LEMMA ReadOK ==
  ASSUME MirrorInv, NEW r \in MirrorReaders, NEW got \in [Tasks -> Shown],
         mirrorReaders[r].at = "sampled",
         mirrorReaders' = [mirrorReaders EXCEPT ![r] =
                             [mirrorReaders[r] EXCEPT !.at = "read", !.got = got]],
         UNCHANGED <<micad, bus, registry>>,
         \A t \in Tasks : /\ Known(t, got[t])
                          /\ status[t] = "gone" => got[t] \notin {"queued", "running"}
  PROVE MirrorInv'
  <1> DEFINE q == mirrorReaders[r]
             new == [q EXCEPT !.at = "read", !.got = got]
  <1>1. q \in MirrorRead /\ ReaderInv(r)
    BY DEF MirrorInv, MirrorTypes
  <1>2. /\ new \in MirrorRead /\ new.at = "read" /\ new.task = q.task /\ new.got = got
        /\ new.mirrorGeneration = q.mirrorGeneration /\ new.stale = q.stale
    BY <1>1 DEF MirrorRead
  <1>3. mirrorReaders'[r] = new /\ mirrorReaders' = [mirrorReaders EXCEPT ![r] = new]
    BY DEF MirrorInv, MirrorTypes
  <1> HIDE DEF new
  <1>4. UNCHANGED <<status, mirrorGeneration>>
    BY DEF micad, registry
  <1>5. ReaderInv(r)'
    BY <1>1, <1>2, <1>3, <1>4 DEF ReaderInv, Known
  <1> QED BY <1>2, <1>3, <1>5, ReaderMoves

LEMMA ReadTaskStep == ASSUME MirrorInv, NEW r \in MirrorReaders, ReadTask(r) PROVE MirrorInv'
  <1> USE DEF MirrorInv
  <1> DEFINE q == mirrorReaders[r]
             t == q.task
             answer == AnswerOf(t, q.stale)
  <1>1. /\ q \in MirrorRead /\ ReaderInv(r) /\ q.at = "sampled" /\ t \in Tasks
        /\ UNCHANGED <<micad, bus, registry>>
    BY DEF MirrorTypes, MirrorRead, ReadTask
  <1>2. status[t] \in Statuses \cup {"evicted", "gone"} /\ q.stale \in Shown /\ Known(t, q.stale)
    BY <1>1 DEF MirrorTypes, MirrorTypeOK, MirrorRead, ReaderInv
  <1>3. /\ answer \in Shown /\ Known(t, answer)
        /\ status[t] = "gone" => answer \notin {"queued", "running"}
    BY <1>1, <1>2 DEF AnswerOf, Known, Shown, Statuses, Recorded
  <1>4. CASE answer = "absent"
    <2>1. mirrorReaders' = [mirrorReaders EXCEPT ![r] = NoMirrorRead]
      BY <1>4 DEF ReadTask
    <2>2. mirrorReaders'[r] = NoMirrorRead /\ UNCHANGED <<status, mirrorGeneration>>
          /\ 0 <= mirrorGeneration
      BY <1>1, <2>1 DEF MirrorTypes, micad, registry
    <2>3. \A u \in Tasks : Known(u, NoMirrorRead.got[u])
      BY MirrorConstants, NothingKnown
    <2>4. ReaderInv(r)'
      BY <2>2, <2>3, UnreadOK, MirrorConstants
    <2> QED BY <1>1, <2>1, <2>4, ReaderMoves, MirrorConstants
  <1>5. CASE answer # "absent"
    <2> DEFINE got == [Nothing EXCEPT ![t] = answer]
    <2>1. mirrorReaders' = [mirrorReaders EXCEPT ![r] = [q EXCEPT !.at = "read", !.got = got]]
      BY <1>5 DEF ReadTask
    <2>2. got \in [Tasks -> Shown] /\ \A u \in Tasks : got[u] = IF u = t THEN answer ELSE "absent"
      BY <1>1, <1>3, MirrorConstants
    <2> HIDE DEF got, answer
    <2>3. \A u \in Tasks : /\ Known(u, got[u])
                           /\ status[u] = "gone" => got[u] \notin {"queued", "running"}
      BY <1>3, <2>2, NothingKnown
    <2> QED BY <1>1, <2>1, <2>2, <2>3, ReadOK
  <1> QED BY <1>4, <1>5

LEMMA ReadListStep == ASSUME MirrorInv, NEW r \in MirrorReaders, ReadList(r) PROVE MirrorInv'
  <1> USE DEF MirrorInv
  <1>1. live \in [Tasks -> Shown]
    BY DEF MirrorTypes, MirrorTypeOK, Statuses, Shown
  <1>2. \A t \in Tasks : live[t] # "interrupted"
    BY DEF MirrorTypes, MirrorTypeOK, Statuses
  <1>3. \A t \in Tasks : /\ Known(t, live[t])
                         /\ status[t] = "gone" => live[t] \notin {"queued", "running"}
    BY <1>2 DEF MicadInv, Known
  <1>4. /\ mirrorReaders' = [mirrorReaders EXCEPT ![r] =
                               [mirrorReaders[r] EXCEPT !.at = "read", !.got = live]]
        /\ mirrorReaders[r].at = "sampled" /\ UNCHANGED <<micad, bus, registry>>
    BY DEF ReadList
  <1> QED BY <1>1, <1>3, <1>4, ReadOK

LEMMA AnswerStep == ASSUME MirrorInv, NEW r \in MirrorReaders, Answer(r) PROVE MirrorInv'
  <1> USE DEF MirrorInv
  <1> DEFINE q == mirrorReaders[r]
             t == q.task
             taken == q.mirrorGeneration
  <1>1. /\ q \in MirrorRead /\ ReaderInv(r) /\ q.at = "read"
        /\ q.got \in [Tasks -> Statuses \cup {"interrupted"}]
        /\ mirrorReaders' = [mirrorReaders EXCEPT ![r] = NoMirrorRead]
    BY MirrorConstants DEF MirrorTypes, MirrorRead, Answer
  <1>f. /\ UNCHANGED <<micad, bus, mirrorSynchronised, mirrorGeneration>>
        /\ UNCHANGED <<status, live, pubs, restarts, mirrorWire, mirrorWatcher, since,
                       mirrorSynchronised, mirrorGeneration>>
    BY DEF Answer, FillTask, FillList, micad, bus
  <1>2. /\ tasks' \in [Tasks -> Statuses \cup {"interrupted"}]
        /\ stale' \in [Tasks -> Statuses \cup {"interrupted"}]
        /\ \A u \in Tasks : /\ tasks'[u] = tasks[u] \/ (Mutable(taken) /\ tasks'[u] = q.got[u])
                            /\ stale'[u] \in {stale[u], "absent"}
        /\ ~mirrorSynchronised => tasks' = tasks /\ loaded' = loaded
        /\ loaded' \in BOOLEAN
    <2>1. CASE t = All
      BY <2>1, <1>1 DEF Answer, FillList, Mutable, MirrorTypes, MirrorTypeOK, Statuses
    <2>2. CASE t # All
      <3>1. FillTask(taken, t, q.got[t]) /\ t \in Tasks
        BY <1>1, <2>2 DEF Answer, MirrorRead
      <3> QED BY <1>1, <3>1 DEF FillTask, Mutable, MirrorTypes, MirrorTypeOK, Statuses
    <2> QED BY <2>1, <2>2
  <1>3. /\ mirrorReaders' \in [MirrorReaders -> MirrorRead]
        /\ \A p \in MirrorReaders : mirrorReaders'[p] = IF p = r THEN NoMirrorRead ELSE mirrorReaders[p]
    BY <1>1, MirrorConstants DEF MirrorTypes
  <1>4. MirrorTypes'
    BY <1>f, <1>2, <1>3 DEF MirrorTypes, MirrorTypeOK
  <1>5. RegistryInv'
    BY <1>1, <1>f, <1>2 DEF ReaderInv, RegistryInv, Known
  <1>6. EarlierTaskNotActive'
    BY <1>1, <1>f, <1>2 DEF Mutable, ReaderInv, EarlierTaskNotActive
  <1>7. WireInv'
    BY <1>f DEF WireInv, MirrorSubscribed
  <1>8. \A p \in MirrorReaders : ReaderInv(p)'
    BY MirrorConstants, NothingKnown, <1>f, <1>3, UnreadOK DEF MirrorTypes, ReaderInv, Known
  <1> QED BY <1>f, <1>4, <1>5, <1>6, <1>7, <1>8, MicadKept

\* Every step does.
LEMMA MirrorStep == MirrorInv /\ [MirrorNext]_mirrorVars => MirrorInv'
  <1> SUFFICES ASSUME MirrorInv, [MirrorNext]_mirrorVars PROVE MirrorInv'
    OBVIOUS
  <1>1. ASSUME NEW c \in Calls, NEW t \in Tasks, Queue(c, t) PROVE MirrorInv'
    BY <1>1, TransitionStep, MirrorAssumption DEF Queue, Said, Publishers
  <1>2. ASSUME NEW t \in Tasks, Start(t) \/ Evict(t) PROVE MirrorInv'
    BY <1>2, TransitionStep, EvictStep, MirrorConstants DEF Start, Said
  <1>3. CASE Finish
    BY <1>3, MirrorConstants, TransitionStep DEF Finish, MirrorInv, MicadInv, Said, Applies
  <1>4. ASSUME NEW p \in Publishers, TakeList(p) \/ StoreList(p) \/ EmitTaskChanged(p)
        PROVE MirrorInv'
    BY <1>4, TakeListStep, StoreListStep, EmitStep
  <1>5. CASE MicadRestarts
    BY <1>5, RestartStep
  <1>6. CASE MirrorWatchSteps
    BY <1>6, MatchStep, SubscribedStep, UpdateStep, EndsStep, LapsedStep DEF MirrorWatchSteps
  <1>7. ASSUME NEW r \in MirrorReaders, MirrorReaderSteps(r) PROVE MirrorInv'
    BY <1>7, GetStep, SampleStep, ReadTaskStep, ReadListStep, AnswerStep DEF MirrorReaderSteps
  <1>8. CASE UNCHANGED mirrorVars
    BY <1>8 DEF mirrorVars, micad, bus, registry, MirrorInv, MirrorTypes, MirrorTypeOK, MicadInv,
       RegistryInv, Known, WireInv, MirrorSubscribed, ReaderInv, EarlierTaskNotActive
  <1> QED BY <1>1, <1>2, <1>3, <1>4, <1>5, <1>6, <1>7, <1>8 DEF MirrorNext, MicadSteps

\* Whatever reads and signals were under way across a lapse or a restart, apid serves
\* no task of an earlier micad as active under a subscription made to the one that runs,
\* and none as interrupted that micad has a record of (task_registry.rs, task_record).
THEOREM MirrorServesNoGhost == MirrorSpec => []MirrorSafe
  <1>1. MirrorInit => MirrorInv
    BY MirrorInitInv
  <1>2. MirrorInv /\ [MirrorNext]_mirrorVars => MirrorInv'
    BY MirrorStep
  <1>3. MirrorInv => MirrorSafe
    BY DEF MirrorInv, MirrorTypes, MirrorSafe, RegistryInv, Known, InterruptedIsDropped
  <1> QED BY <1>1, <1>2, <1>3, PTL DEF MirrorSpec
=============================================================================
