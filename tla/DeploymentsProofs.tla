-------------------------- MODULE DeploymentsProofs --------------------------
(***************************************************************************)
(* A device's deployments and core sets, on either backend, for any        *)
(* deployments, sets, objects, components, attempts and bound of the list  *)
(* of failed ids: StoreSafe holds through every operation, interruption    *)
(* and loss of a copy of the boot records, the last confirmed entry is     *)
(* lost only to a verdict on it, and the records are used as a register.   *)
(*                                                                         *)
(* StoreSafe is far from inductive.  The invariant, DpStore, has a part    *)
(* for each thing a later step relies on:                                  *)
(*   DpTypes, DpSteps  what is held at each step of each operation;        *)
(*   DpSets            the set state is readable, what it names is whole;  *)
(*   DpTrial           what a set alone on trial has left;                 *)
(*   DpFloor           nothing rejected or confirmed is above the floor;   *)
(*   DpCurrent         DATA's current has an entry;                        *)
(*   DpStored          what may boot or runs is on SYSTEM;                 *)
(*   DpRuns            each runs the set it was confirmed with, and can;   *)
(*   DpKept            until a copy is lost: DATA and the records agree on *)
(*                     verdicts (DpData) and on the entries (DpNames),     *)
(*                     generations tell them apart (DpApart), launches are *)
(*                     counted (DpLaunches), a settlement was foreseen     *)
(*                     (DpWritable), and the older copy of the records     *)
(*                     names nothing that is gone (DpOlder).               *)
(***************************************************************************)
EXTENDS Deployments, FiniteSetTheorems, SequenceTheorems, TLAPS

\* An identifier or none, and what the variables hold.
Dep0 == Deployments \cup {None}
Set0 == Sets \cup {None}
StateT == [highest : Nat, current : Dep0, fallback : Dep0, candidate : Dep0,
           failed : Seq(Deployments)]
Bindings == UNION {[ds -> Sets] : ds \in SUBSET Deployments}
SetsT == [current : Sets, pending : Set0, pair : Dep0, bound : Bindings]
TrialT == [id : Set0, left : 0..TrialAttempts]
CoreT == [set : Set0, pending : BOOLEAN, paired : BOOLEAN]
JobT == [state : StateT, deployment : Dep0, set : Set0, writable : BOOLEAN,
         over : BOOLEAN, drop : SUBSET (Deployments \cup Sets)]
HistT == [failed : SUBSET Deployments, confirmedWith : [Deployments -> Set0],
          launches : [Deployments -> Nat], trialBoots : Nat, mixed : BOOLEAN,
          crossed : BOOLEAN, decayed : BOOLEAN, unbound : BOOLEAN]

\* A list of boot records: one entry or two.
IsList(f) == \E a, b \in Deployments : f \in [{a, b} -> Tries]

\* A list of failed ids within its bound.
Bounded(st) == Len(st.failed) <= MaxFailed

DpTypes ==
  /\ IsList(records) /\ (stale # None => IsList(stale))
  /\ (Backend = "uefi" => stale = None)
  /\ state \in StateT /\ Bounded(state)
  /\ sets \in SetsT /\ trial \in TrialT
  /\ descriptors \in SUBSET Deployments /\ envelopes \in SUBSET Sets
  /\ pc \in Pcs /\ booted \in Dep0 /\ core \in CoreT
  /\ job \in JobT /\ Bounded(job.state)
  /\ history \in HistT

Confirming == {"confirm.state", "confirm.retain", "confirm.again"}
Preparing == {"install.again", "install.state", "install.collect", "install.forget",
              "install.objects", "install.descriptor", "install.components",
              "install.envelope", "install.sets", "install.entry"}

\* Which step of which operation holds what: a confirmation has the booted entry
\* uncounted and current, an installation has it alone until the new one's is made.
DpSteps ==
  /\ booted = None <=> pc = "off"
  /\ pc # "off" => booted \in DOMAIN records
  /\ pc \in {"off", "init"} => core = NoCore
  /\ pc \in {"off", "init", "composed", "idle"} => job = NoJob
  /\ pc \in Confirming => records[booted] = None /\ job.state.current = booted
  /\ pc \in Preparing \cup {"install.done"} => job.deployment \in Deployments \ {booted}
  /\ pc \in Preparing => DOMAIN records = {booted} /\ records[booted] = None
  /\ pc \in {"install.components", "install.envelope", "set.envelope", "set.trial", "set.state"} => job.set \in Sets

-----------------------------------------------------------------------------
LEMMA NoneIsApart ==
  /\ None \notin Deployments /\ None \notin Sets /\ None \notin Nat
  /\ Attempts \in Nat /\ Attempts > 0 /\ TrialAttempts \in Nat /\ TrialAttempts > 0
  /\ MaxFailed \in Nat /\ MaxFailed > 0
  /\ Generation \in [Deployments -> Nat]
BY RulesAssumption

LEMMA ListFacts ==
  ASSUME NEW f, IsList(f)
  PROVE  /\ DOMAIN f \in SUBSET Deployments /\ DOMAIN f # {}
         /\ f \in [DOMAIN f -> Tries]
         /\ IsFiniteSet(DOMAIN f) /\ Cardinality(DOMAIN f) \in 1..2
         /\ IsRecords(f)
<1>1. PICK a, b \in Deployments : f \in [{a, b} -> Tries]
  BY DEF IsList
<1>2. DOMAIN f = {a, b}
  BY <1>1
<1>3. IsFiniteSet({a}) /\ Cardinality({a}) = 1
  BY FS_Singleton
<1>4. IsFiniteSet({a, b}) /\ Cardinality({a, b}) \in 1..2
  <2>1. CASE a = b
    BY <2>1, <1>3
  <2>2. CASE a # b
    <3>1. {a, b} = {a} \cup {b} /\ b \notin {a}
      BY <2>2
    <3> HIDE <2>2
    <3>2. IsFiniteSet({a} \cup {b}) /\ Cardinality({a} \cup {b}) = Cardinality({a}) + 1
      BY <1>3, <3>1, FS_AddElement
    <3> QED BY <3>1, <3>2, <1>3
  <2> QED BY <2>1, <2>2
<1> QED BY <1>1, <1>2, <1>4 DEF IsRecords

LEMMA RegisterList ==
  ASSUME NEW f, IsList(f)
  PROVE  f \in UNION {[ds -> Tries] : ds \in {ds \in SUBSET Deployments : Cardinality(ds) \in 1..2}}
BY ListFacts

LEMMA SubList ==
  ASSUME NEW f, IsList(f), NEW S, S \subseteq DOMAIN f, S # {}
  PROVE  /\ IsList(Restrict(f, S)) /\ DOMAIN Restrict(f, S) = S
         /\ \A x \in S : Restrict(f, S)[x] = f[x]
  BY DEF IsList, Restrict

LEMMA SetList ==
  ASSUME NEW f, IsList(f), NEW d \in DOMAIN f, NEW v \in Tries
  PROVE  /\ IsList([f EXCEPT ![d] = v]) /\ DOMAIN [f EXCEPT ![d] = v] = DOMAIN f
         /\ [f EXCEPT ![d] = v][d] = v
         /\ \A e \in DOMAIN f \ {d} : [f EXCEPT ![d] = v][e] = f[e]
BY DEF IsList

\* The newest of some entries is one of them and none is newer.
LEMMA NewestIs ==
  ASSUME NEW f, IsList(f), NEW S, S \subseteq DOMAIN f, S # {}
  PROVE  /\ Newest(S) \in S /\ Newest(S) \in Deployments
         /\ \A e \in S : Generation[Newest(S)] >= Generation[e]
  BY NoneIsApart, ListFacts DEF IsList, Newest

-----------------------------------------------------------------------------
\* DATA's state.

LEMMA NoStateType == NoState \in StateT /\ Bounded(NoState) /\ Failed(NoState) = {}
  BY NoneIsApart DEF NoState, StateT, Dep0, Bounded, Failed, Range

LEMMA EffectiveFacts ==
  ASSUME NEW rs, IsList(rs), NEW st \in StateT
  PROVE  LET eff == EffectiveState(rs, st) IN
         /\ eff \in StateT /\ eff.failed = st.failed
         /\ eff.highest >= st.highest /\ \A d \in DOMAIN rs : eff.highest >= Generation[d]
         /\ eff.fallback \in DOMAIN rs \cup {None}
         /\ eff.current \in DOMAIN rs \cup {st.current}
<1> DEFINE entries == DOMAIN rs
           uncounted == {d \in entries : rs[d] = None /\ d \notin Failed(st)}
           confirmed == Newest(uncounted)
           moved == uncounted # {} /\ st.current # confirmed
           eff == EffectiveState(rs, st)
<1>1. entries \in SUBSET Deployments /\ entries # {}
  BY ListFacts
<1>2. Newest(entries) \in entries /\ \A e \in entries : Generation[Newest(entries)] >= Generation[e]
  BY <1>1, NewestIs
<1>3. uncounted # {} => confirmed \in entries
  BY NewestIs
<1>4. /\ eff.failed = st.failed
      /\ eff.highest = MaxOf(st.highest, Generation[Newest(entries)])
      /\ eff.current = IF moved THEN confirmed ELSE st.current
      /\ eff.fallback \in entries \cup {None}
  BY <1>1 DEF EffectiveState, Keep
<1>5. st.highest \in Nat /\ Generation[Newest(entries)] \in Nat /\ \A e \in entries : Generation[e] \in Nat
  BY <1>1, <1>2, NoneIsApart DEF StateT
<1>6. eff.highest \in Nat /\ eff.highest >= st.highest /\ \A d \in entries : eff.highest >= Generation[d]
  BY <1>2, <1>4, <1>5 DEF MaxOf
<1>7. eff.candidate \in entries \cup {None, st.candidate}
  <2> DEFINE C(c, fb) == {d \in entries : /\ Generation[d] > Generation[c]
                                   /\ rs[d] \notin {None, 0}
                                   /\ d \notin Failed(st) \cup {fb}}
  <2>1. eff.candidate = IF eff.current = None THEN st.candidate
                        ELSE IF C(eff.current, eff.fallback) = {} THEN None
                        ELSE Newest(C(eff.current, eff.fallback))
    BY DEF EffectiveState
  <2>2. \A c, fb : C(c, fb) # {} => Newest(C(c, fb)) \in entries
    BY NewestIs
  <2> HIDE DEF C, eff
  <2> QED BY <2>1, <2>2
<1>8. eff = [highest |-> eff.highest, current |-> eff.current, fallback |-> eff.fallback,
             candidate |-> eff.candidate, failed |-> eff.failed]
  BY DEF EffectiveState
<1>9. st.current \in Dep0 /\ st.candidate \in Dep0 /\ st.failed \in Seq(Deployments)
  BY DEF StateT
<1>10. eff.current \in entries \cup {st.current}
  BY <1>3, <1>4
<1> HIDE DEF eff
<1>11. eff \in StateT
  BY <1>1, <1>4, <1>6, <1>7, <1>8, <1>9, <1>10 DEF StateT, Dep0
<1> QED BY <1>4, <1>6, <1>10, <1>11 DEF eff

LEMMA PushFailedFacts ==
  ASSUME NEW f \in Seq(Deployments), Len(f) <= MaxFailed, NEW d \in Deployments
  PROVE  /\ PushFailed(f, d) \in Seq(Deployments) /\ Len(PushFailed(f, d)) <= MaxFailed
         /\ Range(PushFailed(f, d)) \subseteq Range(f) \cup {d}
         /\ d \in Range(PushFailed(f, d))
<1> DEFINE g == IF Len(f) = MaxFailed THEN Tail(f) ELSE f
<1>1. Len(f) \in Nat /\ MaxFailed \in Nat /\ MaxFailed > 0
  BY NoneIsApart
<1>2. g \in Seq(Deployments) /\ Len(g) < MaxFailed /\ Range(g) \subseteq Range(f)
  BY <1>1 DEF Range
<1> HIDE DEF g
<1>3. Append(g, d) \in Seq(Deployments) /\ Len(Append(g, d)) = Len(g) + 1
      /\ DOMAIN Append(g, d) = 1..(Len(g) + 1) /\ DOMAIN g = 1..Len(g)
      /\ (\A i \in 1..Len(g) : Append(g, d)[i] = g[i]) /\ Append(g, d)[Len(g) + 1] = d
  BY <1>2
<1>4. Len(g) \in Nat
  BY <1>2
<1>5. Range(Append(g, d)) \subseteq Range(g) \cup {d} /\ d \in Range(Append(g, d))
  BY <1>4, <1>3 DEF Range
<1>6. PushFailed(f, d) = Append(g, d)
  BY DEF PushFailed, g
<1> QED BY <1>1, <1>2, <1>3, <1>4, <1>5, <1>6

\* What confirm is about to record.
LEMMA ConfirmedFacts ==
  ASSUME NEW rs, IsList(rs), NEW st \in StateT, Bounded(st), NEW b \in DOMAIN rs
  PROVE  LET cs == ConfirmedState(rs, st, b)
             spent == {d \in DOMAIN rs \ {b} : rs[d] = 0 /\ d \notin Failed(st)} IN
         /\ cs \in StateT /\ Bounded(cs) /\ cs.current = b
         /\ cs.highest = EffectiveState(rs, st).highest
         /\ cs.fallback \in DOMAIN rs \cup {None}
         /\ Failed(cs) \subseteq Failed(st) \cup spent
         /\ spent = {} => cs.failed = st.failed
<1> DEFINE eff == EffectiveState(rs, st)
           spent == {d \in DOMAIN rs \ {b} : rs[d] = 0 /\ d \notin Failed(st)}
           failed == IF spent = {} THEN eff.failed ELSE PushFailed(eff.failed, Newest(spent))
           cs == ConfirmedState(rs, st, b)
           others == {d \in DOMAIN rs : d # b /\ Usable(rs, d)}
           fb == IF eff.current = b
                 THEN IF eff.fallback # None /\ eff.fallback # b /\ Usable(rs, eff.fallback)
                      THEN eff.fallback ELSE None
                 ELSE IF eff.current # None /\ Usable(rs, eff.current) THEN eff.current
                 ELSE IF others = {} THEN None ELSE Newest(others)
           cd == IF eff.candidate \in Range(failed) \cup {b} THEN None ELSE eff.candidate
<1>1. eff \in StateT /\ eff.failed = st.failed
  BY EffectiveFacts
<1>2. DOMAIN rs \in SUBSET Deployments
  BY ListFacts
<1>3. spent # {} => Newest(spent) \in spent
  BY NewestIs
<1>4. others # {} => Newest(others) \in others
  BY NewestIs
<1>5. st.failed \in Seq(Deployments) /\ Len(st.failed) <= MaxFailed
  BY DEF StateT, Bounded
<1>6. failed \in Seq(Deployments) /\ Len(failed) <= MaxFailed
      /\ Range(failed) \subseteq Range(st.failed) \cup spent
  <2>1. CASE spent = {}
    BY <2>1, <1>1, <1>5
  <2>2. CASE spent # {}
    <3>1. Newest(spent) \in Deployments
      BY <2>2, <1>2, <1>3
    <3>2. failed = PushFailed(st.failed, Newest(spent))
      BY <2>2, <1>1
    <3> HIDE DEF failed, spent
    <3> QED BY <2>2, <1>3, <1>5, <3>1, <3>2, PushFailedFacts
  <2> QED BY <2>1, <2>2
<1>7. fb \in DOMAIN rs \cup {None}
  BY <1>4 DEF Usable
<1>8. cs = [eff EXCEPT !.current = b, !.fallback = fb, !.candidate = cd, !.failed = failed]
  BY <1>1 DEF ConfirmedState, Keep, Failed
<1>9. cd \in Dep0
  BY <1>1 DEF StateT, Dep0
<1>10. spent = {} => failed = st.failed
  BY <1>1
<1>11. b \in Dep0 /\ fb \in Dep0
  BY <1>2, <1>7 DEF Dep0
<1> HIDE DEF eff, failed, fb, cd, cs
<1>12. /\ cs \in StateT /\ cs.current = b /\ cs.highest = eff.highest /\ cs.fallback = fb
       /\ cs.failed = failed
  BY <1>1, <1>6, <1>8, <1>9, <1>11 DEF StateT
<1> QED BY <1>6, <1>7, <1>10, <1>12 DEF Failed, Bounded, eff, cs

\* What reject is about to record.
LEMMA RejectedFacts ==
  ASSUME NEW rs, IsList(rs), NEW st \in StateT, Bounded(st), NEW d \in DOMAIN rs
  PROVE  LET rj == RejectedState(rs, st, d) IN
         /\ rj \in StateT /\ Bounded(rj)
         /\ rj.current = EffectiveState(rs, st).current
         /\ rj.fallback = EffectiveState(rs, st).fallback
         /\ rj.highest = EffectiveState(rs, st).highest
         /\ d \in Failed(rj) /\ Failed(rj) \subseteq Failed(st) \cup {d}
         /\ (d \in Failed(st) => rj.failed = st.failed)
<1> DEFINE eff == EffectiveState(rs, st)
           failed == IF d \in Range(eff.failed) THEN eff.failed ELSE PushFailed(eff.failed, d)
           cd == IF eff.candidate = d THEN None ELSE eff.candidate
           rj == RejectedState(rs, st, d)
<1>1. eff \in StateT /\ eff.failed = st.failed
  BY EffectiveFacts
<1>2. d \in Deployments
  BY ListFacts
<1>5. st.failed \in Seq(Deployments) /\ Len(st.failed) <= MaxFailed
  BY DEF StateT, Bounded
<1>6. failed \in Seq(Deployments) /\ Len(failed) <= MaxFailed
      /\ Range(failed) \subseteq Range(st.failed) \cup {d} /\ d \in Range(failed)
      /\ (d \in Range(st.failed) => failed = st.failed)
  BY <1>1, <1>2, <1>5, PushFailedFacts
<1>8. rj = [eff EXCEPT !.failed = failed, !.candidate = cd]
  BY <1>1 DEF RejectedState
<1>9. cd \in Dep0
  BY <1>1 DEF StateT, Dep0
<1> HIDE DEF eff, failed, cd, rj
<1>12. /\ rj \in StateT /\ rj.current = eff.current /\ rj.highest = eff.highest
       /\ rj.failed = failed /\ rj.fallback = eff.fallback
  BY <1>1, <1>6, <1>8, <1>9 DEF StateT
<1> QED BY <1>6, <1>12 DEF Failed, Bounded, eff, rj

-----------------------------------------------------------------------------
\* SYSTEM's set state.

\* The set a deployment runs when it is not the one a pending set came with, and the
\* set it runs at all when no set is tried alone.
Held(ss, d) == IF d \in DOMAIN ss.bound THEN ss.bound[d] ELSE ss.current
Runkits(ss, d) == IF Paired(ss) = d THEN ss.pending ELSE Held(ss, d)

LEMMA SetsFields ==
  ASSUME NEW ss \in SetsT
  PROVE  /\ ss.current \in Sets /\ ss.pending \in Set0 /\ ss.pair \in Dep0
         /\ DOMAIN ss.bound \in SUBSET Deployments
         /\ ss.bound \in [DOMAIN ss.bound -> Sets]
         /\ ss.current # None
         /\ \A d \in DOMAIN ss.bound : ss.bound[d] \in Sets /\ ss.bound[d] # None
         /\ ss = [current |-> ss.current, pending |-> ss.pending, pair |-> ss.pair,
                  bound |-> ss.bound]
  BY NoneIsApart DEF SetsT, Bindings

LEMMA BindingType ==
  ASSUME NEW ds \in SUBSET Deployments, NEW f \in [ds -> Sets]
  PROVE  f \in Bindings
BY DEF Bindings

LEMMA NamedIs ==
  ASSUME NEW ss \in SetsT, NEW s
  PROVE  s \in NamedSets(ss) <=> \/ s = ss.current
                                 \/ (s = ss.pending /\ s # None)
                                 \/ (\E d \in DOMAIN ss.bound : s = ss.bound[d])
BY SetsFields DEF NamedSets, Range

\* A settlement names no set that was not named, leaves the booted deployment on the current
\* set and every other retained one on the set it held.
SettlesWell(ss, tr, rs, b, ran) ==
  LET new == Settlement(ss, tr, rs, b, ran)
      kind == SettlementKind(ss, tr, rs, b, ran)
      retained == RetainedDeployments(rs, b)
  IN
  /\ kind \in {"committed", "dropped", "unchanged"}
  /\ kind = "committed" => ss.pending # None /\ ss.pending = ran
  /\ new \in SetsT
  /\ DOMAIN new.bound \subseteq retained \ {b}
  /\ NamedSets(new) \subseteq NamedSets(ss)
  /\ new.pending = IF kind = "unchanged" THEN ss.pending ELSE None
  /\ new.pair = IF new.pending = None THEN None ELSE ss.pair
  /\ new.current = IF Bound(ss, b) # None THEN Bound(ss, b)
                   ELSE IF kind = "committed" THEN ss.pending ELSE ss.current
  /\ \A e \in retained \ {b} : Held(new, e) = Held(ss, e)

LEMMA SettlementFacts ==
  ASSUME NEW ss \in SetsT, NEW tr, NEW rs, IsList(rs), NEW b \in DOMAIN rs, NEW ran
  PROVE  SettlesWell(ss, tr, rs, b, ran)
<1> DEFINE new == Settlement(ss, tr, rs, b, ran)
           kind == SettlementKind(ss, tr, rs, b, ran)
           retained == RetainedDeployments(rs, b)
           others == retained \ {b}
           own == Bound(ss, b)
           cur1 == IF kind = "committed" THEN ss.pending ELSE ss.current
           pend == IF kind = "unchanged" THEN ss.pending ELSE None
           bound1 == IF kind = "committed" THEN Merge(ss.bound, [d \in others |-> ss.current])
                     ELSE ss.bound
           bound2 == Restrict(bound1, DOMAIN bound1 \ {b})
           back == own # None /\ cur1 # own
           cur3 == IF back THEN own ELSE cur1
           bound3 == IF back THEN Merge(bound2, [d \in others |-> cur1]) ELSE bound2
           kept == {d \in DOMAIN bound3 \cap retained : bound3[d] # cur3}
           bound4 == Restrict(bound3, kept)
           settled == CASE kind = "committed" ->
                             MakeCurrent([ss EXCEPT !.pending = None], ss.pending, others)
                        [] kind = "dropped" -> [ss EXCEPT !.pending = None]
                        [] OTHER -> ss
           unbound == [settled EXCEPT !.bound = Restrict(@, DOMAIN @ \ {b})]
           returned == IF Bound(settled, b) # None /\ unbound.current # Bound(settled, b)
                       THEN MakeCurrent(unbound, Bound(settled, b), others) ELSE unbound
           paired == [returned EXCEPT !.pair = IF returned.pending = None THEN None ELSE @]
<1>101. /\ kind \in {"committed", "dropped", "unchanged"}
        /\ kind = "committed" => ss.pending # None /\ ss.pending = ran
  BY DEF SettlementKind
<1>102. new = [paired EXCEPT !.bound = Restrict(@, {d \in DOMAIN @ \cap retained : @[d] # paired.current})]
  BY DEF Settlement
<1>103. /\ ss = [current |-> ss.current, pending |-> ss.pending, pair |-> ss.pair, bound |-> ss.bound]
        /\ ss.current # None
  BY SetsFields
<1> HIDE DEF kind, new, retained, others, bound1, bound2, bound3, bound4, kept
<1>104. settled = [current |-> cur1, pending |-> pend, pair |-> ss.pair, bound |-> bound1]
  <2>1. PICK c, p, q, f : c = ss.current /\ p = ss.pending /\ q = ss.pair /\ f = ss.bound
    OBVIOUS
  <2>2. ss = [current |-> c, pending |-> p, pair |-> q, bound |-> f] /\ c # None
    BY <2>1, <1>103
  <2>3. CASE kind = "committed"
    BY <2>1, <2>2, <2>3 DEF MakeCurrent, bound1
  <2>4. CASE kind = "dropped"
    BY <2>1, <2>2, <2>4 DEF bound1
  <2>5. CASE kind = "unchanged"
    BY <2>1, <2>2, <2>5 DEF bound1
  <2> HIDE DEF settled, cur1, pend
  <2> QED BY <1>101, <2>3, <2>4, <2>5
<1>105. Bound(settled, b) = own
  <2>1. settled.bound = bound1
    BY <1>104
  <2>2. b \in DOMAIN bound1 <=> b \in DOMAIN ss.bound
    BY DEF bound1, Merge, others
  <2>3. b \in DOMAIN ss.bound => bound1[b] = ss.bound[b]
    BY DEF bound1, Merge, others
  <2> HIDE DEF settled
  <2> QED BY <2>1, <2>2, <2>3 DEF Bound
<1> HIDE DEF settled
<1>106. unbound = [current |-> cur1, pending |-> pend, pair |-> ss.pair, bound |-> bound2]
  BY <1>104 DEF bound2
<1>107. cur1 # None
  BY <1>101, <1>103
<1>108. returned = [current |-> cur3, pending |-> pend, pair |-> ss.pair, bound |-> bound3]
  <2> HIDE DEF unbound, own, cur1, pend
  <2>1. CASE back
    BY <1>105, <1>106, <1>107, <2>1 DEF MakeCurrent, bound3
  <2>2. CASE ~back
    BY <1>105, <1>106, <2>2 DEF bound3
  <2> QED BY <2>1, <2>2
<1> HIDE DEF returned, cur3, pend
<1>109. paired = [current |-> cur3, pending |-> pend, pair |-> IF pend = None THEN None ELSE ss.pair,
                bound |-> bound3]
  BY <1>108
<1> HIDE DEF paired
<1>1010. new = [current |-> cur3, pending |-> pend, pair |-> IF pend = None THEN None ELSE ss.pair,
              bound |-> bound4]
  BY <1>102, <1>109 DEF bound4, kept
<1>1. /\ kind \in {"committed", "dropped", "unchanged"}
      /\ kind = "committed" => ss.pending # None /\ ss.pending = ran
      /\ new = [current |-> cur3, pending |-> pend, pair |-> IF pend = None THEN None ELSE ss.pair,
                bound |-> Restrict(bound3, kept)]
  BY <1>101, <1>1010 DEF bound4
<1>2. PICK c, p, q, f : c = ss.current /\ p = ss.pending /\ q = ss.pair /\ f = ss.bound
  OBVIOUS
<1>3. /\ c \in Sets /\ p \in Set0 /\ q \in Dep0 /\ DOMAIN f \in SUBSET Deployments
      /\ f \in [DOMAIN f -> Sets] /\ None \notin Sets /\ None \notin Deployments
      /\ \A d \in DOMAIN f : f[d] \in Sets /\ f[d] # None
  BY <1>2, SetsFields, NoneIsApart
<1>4. retained \in SUBSET Deployments /\ b \in Deployments
  BY ListFacts DEF RetainedDeployments, retained
<1> USE DEF others, bound1, bound2, bound3, cur3, pend, kept
<1>5. own = (IF b \in DOMAIN f THEN f[b] ELSE None) /\ (own # None <=> b \in DOMAIN f)
  BY <1>2, <1>3 DEF Bound
<1>6. cur1 = (IF kind = "committed" THEN p ELSE c) /\ cur1 \in Sets
  BY <1>1, <1>2, <1>3 DEF Set0
<1>7. /\ DOMAIN bound1 = DOMAIN f \cup (IF kind = "committed" THEN others ELSE {})
      /\ \A d \in DOMAIN bound1 : bound1[d] = IF d \in DOMAIN f THEN f[d] ELSE c
  BY <1>2 DEF Merge
<1> HIDE DEF bound1, cur1, own
<1>8. /\ DOMAIN bound2 = DOMAIN bound1 \ {b}
      /\ \A d \in DOMAIN bound2 : bound2[d] = bound1[d]
  BY DEF Restrict
<1> HIDE DEF bound2
<1>9. /\ DOMAIN bound3 = DOMAIN bound2 \cup (IF back THEN others ELSE {})
      /\ \A d \in DOMAIN bound3 : bound3[d] = IF d \in DOMAIN bound2 THEN bound2[d] ELSE cur1
  BY DEF Merge
<1> HIDE DEF bound3
<1>10. cur3 = IF own # None THEN own ELSE cur1
  OBVIOUS
<1>11. cur3 \in Sets
  BY <1>3, <1>5, <1>6, <1>10
<1>12. \A d \in DOMAIN bound3 : d # b /\ d \in DOMAIN f \cup others
  BY <1>7, <1>8, <1>9
<1>13. \A d \in DOMAIN bound3 : bound3[d] \in {c, cur1} \cup {f[e] : e \in DOMAIN f}
                                 /\ bound3[d] \in Sets
  BY <1>3, <1>6, <1>7, <1>8, <1>9
<1>14. PICK g : g = Restrict(bound3, kept)
  OBVIOUS
<1>15. DOMAIN g = kept /\ \A d \in kept : g[d] = bound3[d]
  BY <1>14 DEF Restrict
<1>16. kept \in SUBSET Deployments /\ g \in [kept -> Sets] /\ kept \subseteq retained \ {b}
  BY <1>14, <1>4, <1>12, <1>13 DEF Restrict
<1>17. g \in Bindings
  BY <1>16, BindingType
<1>18. \A e \in others : (IF e \in kept THEN bound3[e] ELSE cur3) = IF e \in DOMAIN f THEN f[e] ELSE c
  BY <1>7, <1>8, <1>9, <1>6
<1>19. pend \in Set0 /\ (pend # None => pend = p)
  BY <1>2, <1>3 DEF Set0
<1> HIDE DEF kept, pend, cur3, others
<1>20. /\ new.current = cur3 /\ new.pending = pend /\ new.bound = g
       /\ new.pair = (IF pend = None THEN None ELSE q) /\ new \in SetsT
  BY <1>1, <1>2, <1>3, <1>11, <1>14, <1>17, <1>19 DEF SetsT, Dep0
<1>21. NamedSets(new) \subseteq NamedSets(ss)
  BY <1>15, <1>20, NamedIs, <1>13, <1>19, <1>5, <1>6, <1>3, <1>10, <1>2 DEF kept
<1>22. \A e \in retained \ {b} : Held(new, e) = Held(ss, e)
  BY <1>2, <1>15, <1>18, <1>20 DEF Held, others
<1>23. new.current = IF Bound(ss, b) # None THEN Bound(ss, b)
                     ELSE IF kind = "committed" THEN ss.pending ELSE ss.current
  BY <1>2, <1>6, <1>10, <1>20 DEF own
<1> QED BY <1>1, <1>2, <1>15, <1>16, <1>20, <1>21, <1>22, <1>23 DEF SettlesWell, new, kind, retained, pend

-----------------------------------------------------------------------------
\* The types and the steps, action by action.

LEMMA NoJobType == NoJob \in JobT /\ Bounded(NoJob.state) /\ NoJob.state = NoState /\ NoCore \in CoreT
<1>1. NoState \in StateT /\ Bounded(NoState)
  BY NoStateType
<1> HIDE DEF NoState
<1> QED BY <1>1 DEF NoJob, JobT, NoCore, CoreT, Dep0, Set0

LEMMA JobFields ==
  ASSUME NEW j \in JobT
  PROVE  /\ j.state \in StateT /\ j.deployment \in Dep0 /\ j.set \in Set0
         /\ j.writable \in BOOLEAN /\ j.over \in BOOLEAN /\ j.drop \in SUBSET (Deployments \cup Sets)
BY DEF JobT

LEMMA InitTypes == Init => DpTypes /\ DpSteps
<1> SUFFICES ASSUME Init PROVE DpTypes /\ DpSteps
  OBVIOUS
<1> USE DEF Init
<1>1. IsList(records)
  BY DeviceAssumption DEF Tries, IsList
<1>2. (stale # None => IsList(stale)) /\ (Backend = "uefi" => stale = None)
  BY <1>1, DeviceAssumption
<1>3. sets \in SetsT
  <2>1. [d \in {} |-> None] \in [{} -> Sets]
    OBVIOUS
  <2>2. [d \in {} |-> None] \in Bindings
    BY <2>1, BindingType
  <2> QED BY <2>2, DeviceAssumption DEF SetsT, Set0, Dep0
<1>4. trial \in TrialT
  BY NoneIsApart DEF NoTrial, TrialT, Set0
<1>5. history \in HistT
  BY DEF NoHistory, HistT, Set0
<1>6. state \in StateT /\ Bounded(state)
  BY NoStateType
<1>7. job \in JobT /\ Bounded(job.state) /\ core \in CoreT
  BY NoJobType
<1>8. pc \in Pcs /\ booted \in Dep0 /\ descriptors \in SUBSET Deployments /\ envelopes \in SUBSET Sets
  BY DeviceAssumption DEF Pcs, Dep0
<1> QED BY <1>1, <1>2, <1>3, <1>4, <1>5, <1>6, <1>7, <1>8 DEF DpTypes, DpSteps, Confirming, Preparing

\* Every save of the records leaves lists, whichever the backend.
LEMMA SavedLists ==
  ASSUME DpTypes, NEW f, IsList(f), SaveRecords(f)
  PROVE  IsList(records') /\ (stale' # None => IsList(stale')) /\ (Backend = "uefi" => stale' = None)
         /\ records' = f
BY DEF SaveRecords, DpTypes

LEMMA SavedStates ==
  ASSUME DpTypes, NEW st \in StateT, Bounded(st), SaveState(st)
  PROVE  state' \in StateT /\ Bounded(state') /\ state' = st /\ history' \in HistT
         /\ history'.failed = history.failed \cup Failed(st)
<1>1. Failed(st) \in SUBSET Deployments
  BY DEF StateT, Failed, Range
<1>2. history \in HistT
  BY DEF DpTypes
<1> QED BY <1>1, <1>2 DEF SaveState, HistT

LEMMA LoadTypes ==
  ASSUME DpTypes, DpSteps, Load
  PROVE  DpTypes' /\ DpSteps'
<1> DEFINE usable == {d \in DOMAIN records : Usable(records, d)}
           n == Newest(usable)
<1>1. IsList(records) /\ usable # {}
  BY DEF Load, DpTypes
<1>2. n \in usable /\ n \in DOMAIN records /\ n \in Deployments /\ records[n] # 0
  BY <1>1, NewestIs DEF Usable
<1> HIDE DEF n
<1>3. /\ pc = "off" /\ booted' = n /\ pc' = "init"
      /\ IF records[n] = None THEN UNCHANGED <<records, stale, history>>
         ELSE /\ SaveRecords([records EXCEPT ![n] = records[n] - 1])
              /\ history' = [history EXCEPT !.launches[n] = Counted(history.launches[n], Attempts)]
      /\ UNCHANGED <<state, sets, trial, descriptors, objects, envelopes, components, core, job>>
  BY DEF Load, n, onSystem
<1>4. history' \in HistT
  BY <1>2, NoneIsApart, <1>3 DEF DpTypes, HistT, Counted
<1>5. /\ IsList(records') /\ (stale' # None => IsList(stale')) /\ (Backend = "uefi" => stale' = None)
      /\ DOMAIN records' = DOMAIN records
  BY <1>3, <1>1, <1>2, ListFacts, NoneIsApart, SetList, SavedLists DEF DpTypes, Tries
<1>6. "init" \in Pcs
  BY DEF Pcs
<1> QED BY <1>2, <1>3, <1>4, <1>5, <1>6, NoneIsApart DEF DpTypes, DpSteps, Dep0, Confirming, Preparing

\* What the runkit composes over d: the set, and that it is tried alone only while a boot of
\* it is left.
LEMMA ComposedFacts ==
  ASSUME DpTypes, NEW d \in Deployments, NEW tr \in TrialT
  PROVE  LET found == Composed(d, tr)
             tries == /\ sets.pending # None /\ Paired(sets) = None /\ Bound(sets, d) = None
                      /\ ~TrialIsOver(tr, sets.pending) /\ SetUsable(sets.pending, d)
         IN
         /\ found.set \in Set0 /\ found.pending \in BOOLEAN /\ found.paired \in BOOLEAN
         /\ found.paired <=> Paired(sets) = d
         /\ found.pending <=> (Paired(sets) = d \/ tries)
         /\ found.set = IF tries THEN sets.pending ELSE Runkits(sets, d)
         /\ found.ok <=> found.set # None /\ SetUsable(found.set, d)
<1> DEFINE alone == /\ sets.pending # None /\ Paired(sets) = None
                    /\ ~TrialIsOver(tr, sets.pending)
           must(id) == [set |-> id, pending |-> FALSE, paired |-> FALSE,
                        ok |-> id # None /\ SetUsable(id, d)]
           found == Composed(d, tr)
<1>1. /\ sets.current \in Sets /\ sets.pending \in Set0 /\ sets.current # None
      /\ \A e \in DOMAIN sets.bound : sets.bound[e] \in Sets /\ sets.bound[e] # None
      /\ None \notin Deployments
  BY SetsFields, NoneIsApart DEF DpTypes
<1>2. Bound(sets, d) # None <=> d \in DOMAIN sets.bound
  BY <1>1 DEF Bound
<1>3. d \in DOMAIN sets.bound => Bound(sets, d) = sets.bound[d]
  BY DEF Bound
<1>4. found = IF Paired(sets) = d
                THEN [must(sets.pending) EXCEPT !.pending = TRUE, !.paired = TRUE]
              ELSE IF Bound(sets, d) # None THEN must(Bound(sets, d))
              ELSE IF alone /\ SetUsable(sets.pending, d)
                THEN [must(sets.pending) EXCEPT !.pending = TRUE]
              ELSE must(sets.current)
  BY DEF Composed, Composition
<1>5. found = IF Paired(sets) = d
                THEN [set |-> sets.pending, pending |-> TRUE, paired |-> TRUE,
                      ok |-> sets.pending # None /\ SetUsable(sets.pending, d)]
              ELSE IF Bound(sets, d) # None THEN must(Bound(sets, d))
              ELSE IF alone /\ SetUsable(sets.pending, d)
                THEN [set |-> sets.pending, pending |-> TRUE, paired |-> FALSE,
                      ok |-> sets.pending # None /\ SetUsable(sets.pending, d)]
              ELSE must(sets.current)
  BY <1>4
<1> HIDE DEF found, alone
<1>6. CASE Paired(sets) = d
  <2>1. found.set = sets.pending /\ found.pending = TRUE /\ found.paired = TRUE
        /\ (found.ok <=> sets.pending # None /\ SetUsable(sets.pending, d))
    BY <1>5, <1>6
  <2>2. Runkits(sets, d) = sets.pending /\ Paired(sets) # None
    BY <1>1, <1>6 DEF Runkits
  <2> QED BY <2>1, <2>2, <1>1, <1>6 DEF found
<1>7. CASE Paired(sets) # d /\ d \in DOMAIN sets.bound
  <2>1. found = must(sets.bound[d])
    BY <1>2, <1>3, <1>5, <1>7
  <2>2. found.set = sets.bound[d] /\ found.pending = FALSE /\ found.paired = FALSE
        /\ (found.ok <=> sets.bound[d] # None /\ SetUsable(sets.bound[d], d))
    BY <2>1
  <2>3. Runkits(sets, d) = sets.bound[d] /\ Bound(sets, d) # None /\ sets.bound[d] \in Set0
    BY <1>1, <1>2, <1>7 DEF Runkits, Held, Set0
  <2> QED BY <2>2, <2>3, <1>7 DEF found
<1>8. CASE Paired(sets) # d /\ d \notin DOMAIN sets.bound /\ alone /\ SetUsable(sets.pending, d)
  <2>1. found.set = sets.pending /\ found.pending = TRUE /\ found.paired = FALSE
        /\ (found.ok <=> sets.pending # None /\ SetUsable(sets.pending, d))
    BY <1>2, <1>5, <1>8
  <2> QED BY <2>1, <1>1, <1>2, <1>8 DEF found, alone
<1>9. CASE Paired(sets) # d /\ d \notin DOMAIN sets.bound /\ ~(alone /\ SetUsable(sets.pending, d))
  <2>1. found = must(sets.current)
    BY <1>2, <1>5, <1>9
  <2>2. found.set = sets.current /\ found.pending = FALSE /\ found.paired = FALSE
        /\ (found.ok <=> sets.current # None /\ SetUsable(sets.current, d))
    BY <2>1
  <2>3. Runkits(sets, d) = sets.current /\ sets.current \in Set0
    BY <1>1, <1>9 DEF Runkits, Held, Set0
  <2> QED BY <2>2, <2>3, <1>9 DEF found, alone
<1> QED BY <1>6, <1>7, <1>8, <1>9

LEMMA NoTrialType == NoTrial \in TrialT /\ NoTrial.left = 0 /\ NoTrial.id = None
BY NoneIsApart DEF NoTrial, TrialT, Set0

LEMMA SpentType ==
  ASSUME NEW ss \in SetsT, NEW tr \in TrialT, NEW d
  PROVE  SpentTrial(ss, tr, d) \in TrialT
  BY NoneIsApart DEF TrialT, SpentTrial, TrialIsOver

LEMMA ComposeTypes ==
  ASSUME DpTypes, DpSteps, NEW spends \in BOOLEAN, Compose(spends)
  PROVE  DpTypes' /\ DpSteps'
<1> DEFINE tried == IF spends THEN trial ELSE NoTrial
           found == Composed(booted, tried)
<1>1. pc = "init" /\ booted \in Deployments /\ tried \in TrialT
  BY NoTrialType DEF Compose, DpTypes, DpSteps, Dep0
<1>2. found.set \in Set0 /\ found.pending \in BOOLEAN /\ found.paired \in BOOLEAN
  BY <1>1, ComposedFacts
<1> HIDE DEF found, tried
<1>3. /\ core' = [set |-> found.set, pending |-> found.pending, paired |-> found.paired]
      /\ trial' = (IF spends THEN SpentTrial(sets, trial, booted) ELSE trial)
      /\ history' = (IF found.pending /\ ~found.paired
                     THEN [history EXCEPT !.trialBoots = Counted(history.trialBoots, TrialAttempts)]
                     ELSE history)
      /\ pc' = "composed"
      /\ UNCHANGED <<records, stale, state, sets, descriptors, objects, envelopes, components, booted, job>>
  BY DEF Compose, found, tried, onSystem
<1>4. core' \in CoreT
  BY <1>2, <1>3 DEF CoreT
<1>5. trial' \in TrialT
  BY <1>3, SpentType DEF DpTypes
<1>6. history' \in HistT
  BY NoneIsApart, <1>3 DEF DpTypes, HistT, Counted
<1>7. "composed" \in Pcs
  BY DEF Pcs
<1> QED BY <1>1, <1>3, <1>4, <1>5, <1>6, <1>7 DEF DpTypes, DpSteps, Confirming, Preparing

LEMMA StartTypes ==
  ASSUME DpTypes, DpSteps, Start
  PROVE  DpTypes' /\ DpSteps'
  BY DEF Pcs, DpTypes, DpSteps, Start, durable, Confirming, Preparing

\* An entry spent because another can boot.
LEMMA RetireTypes ==
  ASSUME DpTypes, NEW d, Retires(records, d), SaveRecords([records EXCEPT ![d] = 0])
  PROVE  /\ IsList(records') /\ (stale' # None => IsList(stale')) /\ (Backend = "uefi" => stale' = None)
         /\ DOMAIN records' = DOMAIN records
  BY NoneIsApart, SetList, SavedLists DEF Retires, DpTypes, Tries

LEMMA BootFailsTypes ==
  ASSUME DpTypes, DpSteps, BootFails
  PROVE  DpTypes' /\ DpSteps'
  BY RetireTypes, NoJobType DEF BootFails, DpTypes, Pcs, Dep0, DpSteps, PowerOff, onSystem, Confirming,
     Preparing

LEMMA CrashTypes ==
  ASSUME DpTypes, DpSteps, Crash
  PROVE  DpTypes' /\ DpSteps'
  BY NoJobType DEF Pcs, Dep0, DpTypes, DpSteps, Crash, PowerOff, onSystem, Confirming, Preparing

LEMMA DecayTypes ==
  ASSUME DpTypes, DpSteps, Decay
  PROVE  DpTypes' /\ DpSteps'
  BY DEF Decay, DpTypes, HistT, DpSteps, onSystem, Confirming, Preparing

LEMMA AbortTypes ==
  ASSUME DpTypes, DpSteps, Abort
  PROVE  DpTypes' /\ DpSteps'
  BY NoJobType DEF Pcs, DpTypes, DpSteps, Abort, durable, Confirming, Preparing

LEMMA ConfirmTypes ==
  ASSUME DpTypes, DpSteps, Confirm
  PROVE  DpTypes' /\ DpSteps'
<1> DEFINE cs == ConfirmedState(records, state, booted)
           w == Settlement(sets, trial, records, booted, core.set) # sets
<1>1. IsList(records) /\ booted \in DOMAIN records /\ booted \in Deployments
  BY ListFacts DEF Confirm, ConfirmOk, DpTypes
<1>2. cs \in StateT /\ Bounded(cs) /\ cs.current = booted
  BY <1>1, ConfirmedFacts DEF DpTypes
<1> HIDE DEF cs, w
<1>3. /\ pc = "idle" /\ pc' = "confirm.state"
      /\ job' = [NoJob EXCEPT !.state = cs, !.writable = w]
      /\ IF records[booted] = None THEN UNCHANGED <<records, stale>>
         ELSE SaveRecords([records EXCEPT ![booted] = None])
      /\ UNCHANGED <<state, sets, trial, descriptors, objects, envelopes, components, booted, core, history>>
  BY DEF Confirm, cs, w, onSystem
<1>4. w \in BOOLEAN
  BY DEF w
<1>5. job' \in JobT /\ job'.state = cs
  <2>1. NoJob \in JobT
    BY NoJobType
  <2> HIDE DEF NoJob
  <2> QED BY <1>2, <1>3, <1>4, <2>1 DEF JobT
<1>6. /\ IsList(records') /\ (stale' # None => IsList(stale')) /\ (Backend = "uefi" => stale' = None)
      /\ DOMAIN records' = DOMAIN records /\ records'[booted] = None
  BY <1>3, <1>1, SetList, SavedLists DEF DpTypes, Tries
<1>7. "confirm.state" \in Pcs
  BY DEF Pcs
<1> QED BY <1>1, <1>2, <1>3, <1>5, <1>6, <1>7 DEF DpTypes, DpSteps, Confirming, Preparing

LEMMA ConfirmStateTypes ==
  ASSUME DpTypes, DpSteps, ConfirmState
  PROVE  DpTypes' /\ DpSteps'
  BY JobFields, SavedStates DEF DpTypes, ConfirmState, Pcs, DpSteps, onSystem, Confirming, Preparing

LEMMA RetainedList ==
  ASSUME DpTypes, DpSteps, pc \in Confirming
  PROVE  LET keep == DOMAIN records \cap Retained(job.state) IN
         /\ booted \in keep /\ booted \in Deployments
         /\ IsList(Restrict(records, keep)) /\ DOMAIN Restrict(records, keep) = keep
         /\ \A x \in keep : Restrict(records, keep)[x] = records[x]
  BY ListFacts, NoneIsApart, SubList DEF DpSteps, DpTypes, Confirming, Retained

LEMMA ConfirmRetainTypes ==
  ASSUME DpTypes, DpSteps, ConfirmRetain
  PROVE  DpTypes' /\ DpSteps'
<1> DEFINE keep == DOMAIN records \cap Retained(job.state)
<1>1. pc = "confirm.retain" /\ SaveRecords(Restrict(records, keep))
      /\ pc' \in {"confirm.again", "settle"}
      /\ UNCHANGED <<state, sets, trial, descriptors, objects, envelopes, components, booted, core, job, history>>
  BY DEF ConfirmRetain, AfterRetain, onSystem
<1>2. /\ booted \in keep /\ booted \in Deployments
      /\ IsList(Restrict(records, keep)) /\ DOMAIN Restrict(records, keep) = keep
      /\ \A x \in keep : Restrict(records, keep)[x] = records[x]
  BY <1>1, RetainedList DEF Confirming
<1> HIDE DEF keep
<1>3. /\ IsList(records') /\ (stale' # None => IsList(stale')) /\ (Backend = "uefi" => stale' = None)
      /\ DOMAIN records' = keep /\ records'[booted] = records[booted]
  BY <1>1, <1>2, SavedLists
<1>4. "confirm.again" \in Pcs /\ "settle" \in Pcs
  BY DEF Pcs
<1> QED BY <1>1, <1>2, <1>3, <1>4 DEF DpTypes, DpSteps, Confirming, Preparing

LEMMA ConfirmAgainTypes ==
  ASSUME DpTypes, DpSteps, ConfirmAgain
  PROVE  DpTypes' /\ DpSteps'
  BY SavedLists DEF ConfirmAgain, DpTypes, Pcs, DpSteps, onSystem, Confirming, Preparing

LEMMA SettleTypes ==
  ASSUME DpTypes, DpSteps, Settle
  PROVE  DpTypes' /\ DpSteps'
<1> DEFINE settled == Settlement(sets, trial, records, booted, core.set)
           kind == SettlementKind(sets, trial, records, booted, core.set)
           lost == NamedSets(sets) \ NamedSets(settled)
           cross == history.crossed \/ Paired(sets) \in DOMAIN settled.bound
<1>1. IsList(records) /\ booted \in DOMAIN records /\ booted \in Deployments /\ pc = "settle"
  BY ListFacts DEF Settle, DpSteps, DpTypes
<1>2. settled \in SetsT /\ sets \in SetsT
  BY <1>1, SettlementFacts DEF DpTypes, SettlesWell
<1>3. lost \in SUBSET Sets
  BY <1>2, NamedIs, SetsFields DEF Set0
<1> HIDE DEF settled, kind, lost, cross
<1>4. /\ sets' = settled
      /\ history' = [history EXCEPT !.confirmedWith[booted] = core.set, !.crossed = cross]
      /\ \/ settled = sets /\ pc' = "idle" /\ job' = NoJob
         \/ settled # sets /\ pc' = "settle.trial"
            /\ job' = [job EXCEPT !.over = (kind # "unchanged"), !.drop = lost]
      /\ UNCHANGED <<records, stale, state, trial, descriptors, objects, envelopes, components, booted, core>>
  BY DEF Settle, settled, kind, lost, cross, onSystem
<1>5. cross \in BOOLEAN
  BY DEF DpTypes, HistT, cross
<1>6. history' \in HistT
  BY <1>1, <1>4, <1>5 DEF DpTypes, CoreT, HistT
<1>7. job' \in JobT /\ Bounded(job'.state)
  BY NoJobType, <1>3, <1>4 DEF DpTypes, JobT
<1>8. "idle" \in Pcs /\ "settle.trial" \in Pcs
  BY DEF Pcs
<1> QED BY <1>1, <1>2, <1>4, <1>6, <1>7, <1>8 DEF DpTypes, DpSteps, Confirming, Preparing

LEMMA SettleTrialTypes ==
  ASSUME DpTypes, DpSteps, SettleTrial
  PROVE  DpTypes' /\ DpSteps'
  BY NoTrialType DEF SettleTrial, DpTypes, Pcs, DpSteps, onSystem, Confirming, Preparing

LEMMA SettleEnvelopeTypes ==
  ASSUME DpTypes, DpSteps, NEW s \in Sets, SettleEnvelope(s)
  PROVE  DpTypes' /\ DpSteps'
  BY DEF SettleEnvelope, DpTypes, JobT, DpSteps, Confirming, Preparing

LEMMA SettleComponentsTypes ==
  ASSUME DpTypes, DpSteps, SettleComponents
  PROVE  DpTypes' /\ DpSteps'
  BY NoJobType DEF Pcs, SettleComponents, DpTypes, DpSteps, Confirming, Preparing

LEMMA FailBootTypes ==
  ASSUME DpTypes, DpSteps, FailBoot
  PROVE  DpTypes' /\ DpSteps'
  BY RetireTypes DEF FailBoot, DpTypes, DpSteps, onSystem, Confirming, Preparing

LEMMA RejectEntryTypes ==
  ASSUME DpTypes, DpSteps, pc = "idle", NEW d, RejectEntry(d)
  PROVE  DpTypes' /\ DpSteps' /\ DOMAIN records' = DOMAIN records /\ d \in DOMAIN records
         /\ records' = [records EXCEPT ![d] = 0]
<1> DEFINE rj == RejectedState(records, state, d)
<1>1. IsList(records) /\ d \in DOMAIN records
  BY DEF RejectEntry, RejectOk, DpTypes
<1>2. rj \in StateT /\ Bounded(rj)
  BY <1>1, RejectedFacts DEF DpTypes
<1> HIDE DEF rj
<1>3. /\ pc' = "reject.state"
      /\ job' = [NoJob EXCEPT !.state = rj]
      /\ IF records[d] = 0 THEN UNCHANGED <<records, stale>> ELSE SaveRecords([records EXCEPT ![d] = 0])
      /\ UNCHANGED <<state, sets, trial, descriptors, objects, envelopes, components, booted, core, history>>
  BY DEF RejectEntry, rj, onSystem
<1>5. job' \in JobT /\ job'.state = rj
  <2>1. NoJob \in JobT
    BY NoJobType
  <2> HIDE DEF NoJob
  <2> QED BY <1>2, <1>3, <2>1 DEF JobT
<1>6. /\ IsList(records') /\ (stale' # None => IsList(stale')) /\ (Backend = "uefi" => stale' = None)
      /\ DOMAIN records' = DOMAIN records /\ records' = [records EXCEPT ![d] = 0]
  BY <1>1, ListFacts, <1>3, NoneIsApart, SetList, SavedLists DEF DpTypes, Tries
<1>7. "reject.state" \in Pcs
  BY DEF Pcs
<1> QED BY <1>1, <1>2, <1>3, <1>5, <1>6, <1>7 DEF DpTypes, DpSteps, Confirming, Preparing

LEMMA RejectStateTypes ==
  ASSUME DpTypes, DpSteps, RejectState
  PROVE  DpTypes' /\ DpSteps'
  BY JobFields, SavedStates, NoJobType DEF DpTypes, RejectState, Pcs, DpSteps, onSystem, Confirming,
     Preparing

LEMMA InstallTypes ==
  ASSUME DpTypes, DpSteps, NEW d \in Deployments, NEW latest, NEW choice \in Set0,
         Install(d, latest, choice)
  PROVE  DpTypes' /\ DpSteps'
<1> DEFINE st == [EffectiveState(records, state) EXCEPT !.fallback = None, !.candidate = None]
<1>1. /\ pc = "idle" /\ IsList(records) /\ booted \in DOMAIN records /\ records[booted] = None
      /\ d \notin DOMAIN records /\ booted \in Deployments
  BY ListFacts DEF Install, InstallOk, DpTypes
<1>2. st \in StateT /\ Bounded(st)
  <2>1. EffectiveState(records, state) \in StateT /\ EffectiveState(records, state).failed = state.failed
    BY <1>1, EffectiveFacts DEF DpTypes
  <2>2. st \in StateT /\ st.failed = state.failed
    BY <2>1 DEF StateT, Dep0
  <2> HIDE DEF st
  <2> QED BY <2>2 DEF Bounded, DpTypes
<1> HIDE DEF st
<1>3. /\ SaveRecords(Restrict(records, {booted}))
      /\ job' = [NoJob EXCEPT !.state = st, !.deployment = d, !.set = choice]
      /\ pc' \in {"install.again", "install.state"}
      /\ UNCHANGED <<state, sets, trial, descriptors, objects, envelopes, components, booted, core, history>>
  BY DEF Install, st, onSystem, AfterRetain
<1>4. job' \in JobT /\ job'.state = st /\ job'.deployment = d
  <2>1. NoJob \in JobT
    BY NoJobType
  <2> HIDE DEF NoJob
  <2> QED BY <1>2, <1>3, <2>1 DEF JobT, Dep0
<1>5. /\ IsList(Restrict(records, {booted})) /\ DOMAIN Restrict(records, {booted}) = {booted}
      /\ Restrict(records, {booted})[booted] = records[booted]
  BY <1>1, SubList
<1>6. /\ IsList(records') /\ (stale' # None => IsList(stale')) /\ (Backend = "uefi" => stale' = None)
      /\ DOMAIN records' = {booted} /\ records'[booted] = None
  BY <1>1, <1>3, <1>5, SavedLists
<1>7. "install.again" \in Pcs /\ "install.state" \in Pcs
  BY DEF Pcs
<1> QED BY <1>1, <1>2, <1>3, <1>4, <1>6, <1>7 DEF DpTypes, DpSteps, Confirming, Preparing

LEMMA InstallAgainTypes ==
  ASSUME DpTypes, DpSteps, InstallAgain
  PROVE  DpTypes' /\ DpSteps'
  BY SavedLists DEF InstallAgain, DpTypes, Pcs, DpSteps, onSystem, Confirming, Preparing

LEMMA InstallStateTypes ==
  ASSUME DpTypes, DpSteps, InstallState
  PROVE  DpTypes' /\ DpSteps'
  BY JobFields, SavedStates DEF DpTypes, InstallState, Pcs, DpSteps, onSystem, Confirming, Preparing

\* The steps of an installation that only write SYSTEM.
LEMMA InstallWritesTypes ==
  ASSUME DpTypes, DpSteps,
         \/ InstallCollect \/ InstallForget \/ InstallObjects \/ InstallDescriptor
         \/ InstallComponents \/ InstallEnvelope
  PROVE  DpTypes' /\ DpSteps'
<1>1. /\ "install.forget" \in Pcs /\ "install.objects" \in Pcs /\ "install.descriptor" \in Pcs
      /\ "install.sets" \in Pcs /\ "install.components" \in Pcs /\ "install.envelope" \in Pcs
  BY DEF Pcs
<1>2. job.set \in Set0 /\ (job.set # None => job.set \in Sets) /\ job.deployment \in Dep0
  BY JobFields DEF DpTypes, Set0
<1>3. CASE InstallCollect
  BY <1>1, <1>3 DEF InstallCollect, DpTypes, DpSteps, Confirming, Preparing
<1>4. CASE InstallForget
  BY <1>1, <1>4 DEF InstallForget, DpTypes, DpSteps, Confirming, Preparing
<1>5. CASE InstallObjects
  BY <1>1, <1>5 DEF InstallObjects, DpTypes, DpSteps, Confirming, Preparing
<1>6. CASE InstallDescriptor
  BY <1>6, <1>1, <1>2 DEF InstallDescriptor, DpTypes, DpSteps, Preparing, Confirming
<1>7. CASE InstallComponents
  BY <1>1, <1>7 DEF InstallComponents, PublishComponents, DpTypes, DpSteps, Confirming, Preparing
<1>8. CASE InstallEnvelope
  BY <1>8, <1>1 DEF InstallEnvelope, PublishEnvelope, DpTypes, DpSteps, Confirming, Preparing
<1> QED BY <1>3, <1>4, <1>5, <1>6, <1>7, <1>8

\* Bindings restricted to some deployments.
LEMMA RestrictedBound ==
  ASSUME NEW ss \in SetsT, NEW S
  PROVE  LET f == Restrict(ss.bound, DOMAIN ss.bound \cap S) IN
         /\ f \in Bindings /\ DOMAIN f = DOMAIN ss.bound \cap S
         /\ \A x \in DOMAIN f : f[x] = ss.bound[x]
  BY SetsFields, BindingType DEF Restrict

LEMMA InstallSetsTypes ==
  ASSUME DpTypes, DpSteps, InstallSets
  PROVE  DpTypes' /\ DpSteps'
<1> DEFINE f == Restrict(sets.bound, DOMAIN sets.bound \cap {booted})
           q == IF job.set = None THEN None ELSE job.deployment
           p == IF job.set = None THEN sets.pending ELSE job.set
<1>1. sets \in SetsT /\ f \in Bindings
  BY RestrictedBound DEF DpTypes
<1>2. q \in Dep0 /\ p \in Set0
  BY <1>1, SetsFields, JobFields DEF DpTypes, Set0, Dep0
<1>3. "install.entry" \in Pcs
  BY DEF Pcs
<1> HIDE DEF f, q, p
<1>4. /\ pc = "install.sets" /\ pc' = "install.entry"
      /\ sets' = [sets EXCEPT !.pair = q, !.pending = p, !.bound = f]
      /\ UNCHANGED <<records, stale, state, trial, descriptors, objects, envelopes, components, booted, core, job, history>>
  BY DEF InstallSets, f, q, p, onSystem
<1>5. sets' \in SetsT
  BY <1>1, <1>2, <1>4 DEF SetsT
<1> QED BY <1>3, <1>4, <1>5 DEF DpTypes, DpSteps, Confirming, Preparing

LEMMA InstallEntryTypes ==
  ASSUME DpTypes, DpSteps, InstallEntry
  PROVE  /\ DpTypes' /\ DpSteps'
         /\ DOMAIN records' = {job.deployment, booted}
         /\ records'[job.deployment] = Attempts /\ records'[booted] = None
<1> DEFINE m == Merge([x \in {job.deployment} |-> Attempts], records)
<1>1. /\ pc = "install.entry" /\ booted \in Deployments /\ IsList(records)
      /\ job.deployment \in Deployments \ {booted}
      /\ DOMAIN records = {booted} /\ records[booted] = None
  BY ListFacts DEF InstallEntry, DpTypes, DpSteps, Preparing
<1>2. records \in [{booted} -> Tries]
  BY <1>1, ListFacts
<1>3. Attempts \in Tries
  BY NoneIsApart DEF Tries
<1>4. IsList(m) /\ DOMAIN m = {job.deployment, booted} /\ m[job.deployment] = Attempts /\ m[booted] = None
  <2>1. PICK nd, nb : nd = job.deployment /\ nb = booted
    OBVIOUS
  <2>2. /\ nb \in Deployments /\ nd \in Deployments \ {nb} /\ records \in [{nb} -> Tries]
        /\ records[nb] = None
    BY <2>1, <1>1, <1>2
  <2>3. m = Merge([x \in {nd} |-> Attempts], records)
    BY <2>1
  <2> HIDE DEF m
  <2>4. IsList(m) /\ DOMAIN m = {nd, nb} /\ m[nd] = Attempts /\ m[nb] = records[nb]
    BY <2>2, <2>3, <1>3 DEF IsList, Merge
  <2> QED BY <2>1, <2>2, <2>4
<1>5. SaveRecords(m)
  BY DEF InstallEntry
<1> HIDE DEF m
<1>6. /\ IsList(records') /\ (stale' # None => IsList(stale')) /\ (Backend = "uefi" => stale' = None)
      /\ records' = m
  BY <1>4, <1>5, SavedLists
<1>7. history' \in HistT
  BY <1>1 DEF DpTypes, InstallEntry, HistT
<1>8. "install.done" \in Pcs
  BY DEF Pcs
<1>9. pc' = "install.done" /\ UNCHANGED <<state, sets, trial, descriptors, objects, envelopes, components, booted, core, job>>
  BY DEF InstallEntry, onSystem
<1> QED BY <1>1, <1>4, <1>6, <1>7, <1>8, <1>9 DEF DpTypes, DpSteps, Confirming, Preparing

LEMMA InstallDoneTypes ==
  ASSUME DpTypes, DpSteps, InstallDone
  PROVE  DpTypes' /\ DpSteps'
<1> DEFINE st == [job.state EXCEPT !.highest = Generation[job.deployment],
                                   !.candidate = job.deployment]
<1>1. pc = "install.done" /\ job.deployment \in Deployments /\ job.state \in StateT /\ Bounded(job.state)
  BY JobFields DEF InstallDone, DpTypes, DpSteps
<1>2. Generation[job.deployment] \in Nat
  BY <1>1, NoneIsApart
<1>3. st \in StateT /\ Bounded(st)
  BY <1>1, <1>2 DEF StateT, Dep0, Bounded
<1>4. SaveState(st)
  BY DEF InstallDone
<1> HIDE DEF st
<1>5. state' \in StateT /\ Bounded(state') /\ history' \in HistT
  BY <1>3, <1>4, SavedStates
<1>6. "idle" \in Pcs
  BY DEF Pcs
<1> QED BY <1>1, <1>5, <1>6, NoJobType DEF DpTypes, DpSteps, InstallDone, onSystem, Confirming, Preparing

LEMMA InstallSetTypes ==
  ASSUME DpTypes, DpSteps, NEW s \in Sets, InstallSet(s)
  PROVE  DpTypes' /\ DpSteps'
<1>1. job' \in JobT /\ job'.state = NoState /\ job'.set = s
  <2>1. NoJob \in JobT /\ NoJob.state = NoState
    BY NoJobType
  <2> HIDE DEF NoJob
  <2> QED BY <2>1 DEF InstallSet, JobT, Set0
<1>2. Bounded(job'.state)
  BY <1>1, NoStateType
<1>3. "set.envelope" \in Pcs
  BY DEF Pcs
<1>4. pc = "idle" /\ pc' = "set.envelope"
      /\ UNCHANGED <<records, stale, state, sets, trial, descriptors, objects, envelopes, booted, core, history>>
  BY DEF InstallSet, PublishComponents
<1> QED BY <1>1, <1>2, <1>3, <1>4 DEF DpTypes, DpSteps, Confirming, Preparing

LEMMA SetEnvelopeTypes ==
  ASSUME DpTypes, DpSteps, SetEnvelope
  PROVE  DpTypes' /\ DpSteps'
  BY DEF SetEnvelope, PublishEnvelope, DpTypes, DpSteps, Pcs, Confirming, Preparing

LEMMA SetTrialTypes ==
  ASSUME DpTypes, DpSteps, SetTrial
  PROVE  DpTypes' /\ DpSteps'
<1>1. trial' \in TrialT
  BY NoneIsApart DEF SetTrial, TrialT, DpSteps, Set0
<1>2. history' \in HistT
  BY DEF DpTypes, SetTrial, HistT
<1>3. "set.state" \in Pcs
  BY DEF Pcs
<1>4. pc = "set.trial" /\ pc' = "set.state"
      /\ UNCHANGED <<records, stale, state, sets, descriptors, objects, envelopes, components, booted, core, job>>
  BY DEF SetTrial, onSystem
<1> QED BY <1>1, <1>2, <1>3, <1>4 DEF DpTypes, DpSteps, Confirming, Preparing

LEMMA SetPendingTypes ==
  ASSUME DpTypes, DpSteps, SetPending
  PROVE  DpTypes' /\ DpSteps'
<1> DEFINE f == Restrict(sets.bound, DOMAIN sets.bound \cap RetainedDeployments(records, None))
           h == history.unbound \/ (stale # None /\ \E d \in DOMAIN sets.bound \ RetainedDeployments(records, None) : Usable(stale, d))
<1>1. sets \in SetsT /\ f \in Bindings
  BY RestrictedBound DEF DpTypes
<1>2. job.set \in Sets /\ pc = "set.state"
  BY DEF SetPending, DpSteps
<1>3. "idle" \in Pcs
  BY DEF Pcs
<1>4. h \in BOOLEAN
  BY DEF DpTypes, HistT
<1> HIDE DEF f, h
<1>5. /\ pc' = "idle" /\ job' = NoJob
      /\ sets' = [sets EXCEPT !.pair = None, !.pending = job.set, !.bound = f]
      /\ history' = [history EXCEPT !.unbound = h]
      /\ UNCHANGED <<records, stale, state, trial, descriptors, objects, envelopes, components, booted, core>>
  BY DEF SetPending, f, h, onSystem
<1>6. sets' \in SetsT
  BY <1>1, <1>2, <1>5 DEF SetsT, Set0, Dep0
<1>7. history' \in HistT
  BY <1>4, <1>5 DEF DpTypes, HistT
<1> QED BY <1>2, <1>3, <1>5, <1>6, <1>7, NoJobType DEF DpTypes, DpSteps, Confirming, Preparing

LEMMA GcTypes ==
  ASSUME DpTypes, DpSteps, Gc \/ GcAgain \/ GcCollect \/ GcForget
  PROVE  DpTypes' /\ DpSteps' /\ records' = records
<1>1. "gc.again" \in Pcs /\ "gc.collect" \in Pcs /\ "gc.forget" \in Pcs /\ "idle" \in Pcs
  BY DEF Pcs
<1>2. CASE Gc
  <2> DEFINE drop == descriptors \ Kept
  <2>1. drop \in SUBSET Deployments
    BY DEF DpTypes
  <2> HIDE DEF drop
  <2>2. /\ IsList(records') /\ (stale' # None => IsList(stale')) /\ (Backend = "uefi" => stale' = None)
        /\ records' = records
    BY <1>2, SavedLists DEF Gc, DpTypes
  <2>3. /\ job' = [NoJob EXCEPT !.drop = drop] /\ pc = "idle" /\ pc' \in {"gc.again", "gc.collect"}
        /\ UNCHANGED <<state, sets, trial, descriptors, objects, envelopes, components, booted, core, history>>
    BY <1>2 DEF Gc, drop, onSystem, AfterRetain
  <2>4. job' \in JobT /\ Bounded(job'.state)
    <3>1. NoJob \in JobT /\ Bounded(NoJob.state)
      BY NoJobType
    <3>2. job'.state = NoJob.state /\ job' \in JobT
      <4> HIDE DEF NoJob
      <4> QED BY <2>1, <2>3, <3>1 DEF JobT
    <3> QED BY <3>1, <3>2
  <2> QED BY <1>1, <2>2, <2>3, <2>4 DEF DpTypes, DpSteps, Confirming, Preparing
<1>3. CASE GcAgain
  BY <1>3, SavedLists, <1>1 DEF GcAgain, DpTypes, DpSteps, onSystem, Confirming, Preparing
<1>4. CASE GcCollect
  BY <1>1, <1>4 DEF GcCollect, DpTypes, DpSteps, Confirming, Preparing
<1>5. CASE GcForget
  BY <1>1, <1>5, NoJobType DEF GcForget, DpTypes, DpSteps, Confirming, Preparing
<1> QED BY <1>2, <1>3, <1>4, <1>5

DpInv == DpTypes /\ DpSteps

LEMMA DpInvStep == DpInv /\ [Next]_vars => DpInv'
<1> SUFFICES ASSUME DpTypes, DpSteps, [Next]_vars PROVE DpTypes' /\ DpSteps'
  BY DEF DpInv
<1>1. CASE BootSteps
  BY <1>1, LoadTypes, ComposeTypes, StartTypes, BootFailsTypes DEF BootSteps
<1>2. CASE ConfirmSteps
  BY <1>2, ConfirmTypes, ConfirmStateTypes, ConfirmRetainTypes, ConfirmAgainTypes, SettleTypes,
     SettleTrialTypes, SettleComponentsTypes, SettleEnvelopeTypes DEF ConfirmSteps
<1>3. CASE InstallSteps
  BY InstallTypes, InstallWritesTypes, InstallAgainTypes, InstallStateTypes, InstallSetsTypes,
     InstallEntryTypes, InstallDoneTypes, <1>3 DEF Set0, InstallSteps
<1>4. CASE SetSteps
  BY <1>4, InstallSetTypes, SetEnvelopeTypes, SetTrialTypes, SetPendingTypes DEF SetSteps
<1>5. CASE OperatorSteps
  BY FailBootTypes, RejectStateTypes, RejectEntryTypes, GcTypes, <1>5 DEF Rollback, Reject, OperatorSteps
<1>6. CASE Abort \/ Crash \/ Decay
  BY <1>6, AbortTypes, CrashTypes, DecayTypes
<1>7. CASE UNCHANGED vars
  BY <1>7 DEF vars, durable, DpTypes, DpSteps
<1> QED BY <1>1, <1>2, <1>3, <1>4, <1>5, <1>6, <1>7 DEF Next

LEMMA DpInvAlways == Spec => []DpInv
<1>1. Init => DpInv
  BY InitTypes DEF DpInv
<1> QED BY <1>1, DpInvStep, PTL DEF Spec

LEMMA TypesHold == DpInv => TypeOK
<1> SUFFICES ASSUME DpInv PROVE TypeOK
  OBVIOUS
<1>1. \A st \in StateT : Bounded(st) => IsState(st)
  BY DEF StateT, Failed, Range, IsState, Dep0, Bounded
<1>2. IsRecords(records) /\ (stale # None => IsRecords(stale))
  BY ListFacts DEF DpInv, DpTypes
<1>3. IsState(state) /\ IsState(job.state)
  BY <1>1, JobFields DEF DpInv, DpTypes
<1>4. /\ {sets.current, sets.pending} \subseteq Sets \cup {None}
      /\ sets.pair \in Deployments \cup {None}
      /\ DOMAIN sets.bound \subseteq Deployments /\ Range(sets.bound) \subseteq Sets
  BY SetsFields DEF DpInv, DpTypes, Set0, Dep0, Range
<1>5. trial.id \in Sets \cup {None} /\ trial.left \in 0..TrialAttempts
  BY DEF DpInv, DpTypes, TrialT, Set0
<1> QED BY <1>2, <1>3, <1>4, <1>5 DEF TypeOK, DpInv, DpTypes, DpSteps, Dep0

\* What a step may do to the records: nothing, or a save of a list by the rules below.
LEMMA ConfirmedStep ==
  ASSUME DpTypes, DpSteps, [Next]_vars, HasConfirmed(records), ~HasConfirmed(records'),
         ~(history'.decayed /\ ~history.decayed)
  PROVE  \E d \in DOMAIN records \cap DOMAIN records' :
           /\ records[d] = None /\ records'[d] = 0
           /\ OtherUsable(records', d)
<1> DEFINE Goal == \E d \in DOMAIN records \cap DOMAIN records' :
             records[d] = None /\ records'[d] = 0 /\ OtherUsable(records', d)
<1>0. /\ IsList(records) /\ None # 0
      /\ records \in [DOMAIN records -> Tries]
  BY ListFacts, NoneIsApart DEF DpTypes
<1>1. records' # records
  BY DEF HasConfirmed
\* An entry is spent while another can boot.
<1>2. ASSUME NEW d \in DOMAIN records, records' = [records EXCEPT ![d] = 0], OtherUsable(records, d)
      PROVE  Goal
  <2>1. \A e \in DOMAIN records \ {d} : records'[e] = records[e]
    BY <1>2
  <2>2. DOMAIN records' = DOMAIN records /\ records'[d] = 0
    BY <1>2
  <2>3. records[d] = None
    BY <2>1, <2>2 DEF HasConfirmed
  <2>4. OtherUsable(records', d)
    BY <1>2, <2>1, <2>2 DEF OtherUsable, Usable
  <2> QED BY <2>2, <2>3, <2>4
<1>3. CASE Load
  <2> DEFINE usable == {e \in DOMAIN records : Usable(records, e)}
             n == Newest(usable)
  <2>1. n \in usable
    BY <1>0, <1>3, NewestIs DEF Load
  <2>2. records[n] # None /\ records' = [records EXCEPT ![n] = records[n] - 1]
    BY <1>1, <1>3 DEF Load, SaveRecords
  <2> HIDE DEF n
  <2>3. \A e \in DOMAIN records : records[e] = None => records'[e] = None
    BY <2>1, <2>2
  <2>4. DOMAIN records' = DOMAIN records
    BY <2>2
  <2> QED BY <2>3, <2>4 DEF HasConfirmed
<1>4. CASE BootFails \/ FailBoot
  <2>1. Retires(records, booted) /\ records' = [records EXCEPT ![booted] = 0]
    BY <1>1, <1>4 DEF BootFails, FailBoot, SaveRecords
  <2> QED BY <2>1, <1>2 DEF Retires
<1>5. CASE Rollback \/ \E d \in Deployments : Reject(d)
  <2>1. PICK d : RejectEntry(d) /\ pc = "idle"
    BY <1>5 DEF Rollback, Reject
  <2>2. records' = [records EXCEPT ![d] = 0] /\ d \in DOMAIN records
    BY <2>1, RejectEntryTypes
  <2>3. OtherUsable(records, d)
    BY <2>1 DEF RejectEntry, RejectOk
  <2> QED BY <2>2, <2>3, <1>2
\* A confirmation, an installation keep the booted entry uncounted.
<1>6. ASSUME booted \in DOMAIN records', records'[booted] = None PROVE Goal
  BY <1>6 DEF HasConfirmed
<1>7. CASE Confirm
  <2>1. booted \in DOMAIN records /\ records' = [records EXCEPT ![booted] = None]
    BY <1>1, <1>7 DEF Confirm, ConfirmOk, SaveRecords
  <2> QED BY <2>1, <1>6
<1>8. CASE ConfirmRetain
  <2> DEFINE keep == DOMAIN records \cap Retained(job.state)
  <2>1. pc \in Confirming /\ records[booted] = None
    BY <1>8 DEF ConfirmRetain, Confirming, DpSteps
  <2>2. /\ booted \in keep /\ DOMAIN Restrict(records, keep) = keep
        /\ \A x \in keep : Restrict(records, keep)[x] = records[x]
    BY <2>1, RetainedList
  <2>3. records' = Restrict(records, keep)
    BY <1>8 DEF ConfirmRetain, SaveRecords
  <2> HIDE DEF keep
  <2> QED BY <2>1, <2>2, <2>3, <1>6
<1>9. CASE \E d \in Deployments, latest, choice \in Sets \cup {None} : Install(d, latest, choice)
  <2>1. booted \in DOMAIN records /\ records[booted] = None /\ records' = Restrict(records, {booted})
    BY <1>9 DEF Install, InstallOk, SaveRecords
  <2>2. booted \in DOMAIN records' /\ records'[booted] = None
    BY <2>1 DEF Restrict
  <2> QED BY <2>2, <1>6
<1>10. CASE InstallEntry
  BY <1>10, <1>6, InstallEntryTypes
<1>11. CASE Decay
  BY <1>11 DEF Decay, DpTypes, HistT
<1>12. CASE Abort \/ Crash \/ Start \/ ConfirmState \/ ConfirmAgain \/ Settle \/ SettleTrial
            \/ SettleComponents \/ (\E s \in Sets : SettleEnvelope(s))
            \/ (\E spends \in BOOLEAN : Compose(spends))
  BY <1>1, <1>12 DEF Abort, Crash, Start, ConfirmState, ConfirmAgain, Settle, SettleTrial,
     SettleComponents, SettleEnvelope, Compose, SaveRecords, durable
<1>13. CASE InstallAgain \/ InstallState \/ InstallCollect \/ InstallForget \/ InstallObjects
            \/ InstallDescriptor \/ InstallComponents \/ InstallEnvelope \/ InstallSets \/ InstallDone
  BY <1>1, <1>13 DEF InstallAgain, InstallState, InstallCollect, InstallForget, InstallObjects,
     InstallDescriptor, InstallComponents, InstallEnvelope, InstallSets, InstallDone,
     PublishComponents, PublishEnvelope, SaveRecords
<1>14. CASE RejectState \/ Gc \/ GcAgain \/ GcCollect \/ GcForget \/ SetSteps
  BY <1>1, <1>14 DEF RejectState, Gc, GcAgain, GcCollect, GcForget, SetSteps, InstallSet, SetEnvelope,
     SetTrial, SetPending, PublishComponents, PublishEnvelope, SaveRecords
<1>15. CASE UNCHANGED vars
  BY <1>1, <1>15 DEF vars, durable
<1> QED BY <1>3, <1>4, <1>5, <1>7, <1>8, <1>9, <1>10, <1>11, <1>12, <1>13, <1>14, <1>15
        DEF Next, BootSteps, ConfirmSteps, InstallSteps, SetSteps, OperatorSteps

\* No interruption and no operation costs the device its last confirmed entry: only a verdict
\* on it does, taken while another entry has a boot left, or the loss of the copy of the
\* records that had it (deployments.rs, set_tries and retain_entries).
THEOREM TheConfirmedEntryStays == Spec => ConfirmedKept
<1> DEFINE Step == HasConfirmed(records) /\ ~HasConfirmed(records') /\ ~(history'.decayed /\ ~history.decayed) =>
       \E d \in DOMAIN records \cap DOMAIN records' :
         /\ records[d] = None /\ records'[d] = 0
         /\ OtherUsable(records', d)
<1>1. DpInv /\ [Next]_vars => [Step]_vars
  BY ConfirmedStep DEF DpInv
<1>2. Spec => []DpInv
  BY DpInvAlways
<1> QED BY <1>1, <1>2, PTL DEF Spec, ConfirmedKept

\* What a step does to the two copies of the records.
LEMMA CopiesStep ==
  ASSUME DpTypes, DpSteps, [Next]_vars
  PROVE  \/ stale' \in {records, None}
         \/ UNCHANGED <<records, stale>>
         \/ UNCHANGED records /\ stale' = None
         \/ stale # None /\ records' = stale /\ stale' = None
<1>1. \A f : SaveRecords(f) => stale' \in {records, None}
  BY DEF SaveRecords
<1>2. CASE BootSteps
  BY <1>1, <1>2 DEF BootSteps, Load, Compose, Start, BootFails, durable
<1>3. CASE ConfirmSteps
  BY <1>1, <1>3 DEF ConfirmSteps, Confirm, ConfirmState, ConfirmRetain, ConfirmAgain, Settle,
     SettleTrial, SettleComponents, SettleEnvelope
<1>4. CASE InstallSteps
  BY <1>1, <1>4 DEF InstallSteps, Install, InstallAgain, InstallState, InstallCollect, InstallForget, InstallObjects,
     InstallDescriptor, InstallComponents, InstallEnvelope, InstallSets, InstallEntry, InstallDone,
     PublishComponents, PublishEnvelope
<1>5. CASE SetSteps
  BY <1>5 DEF SetSteps, InstallSet, SetEnvelope,
     SetTrial, SetPending, PublishComponents, PublishEnvelope
<1>6. CASE OperatorSteps
  BY <1>1, <1>6 DEF OperatorSteps, FailBoot, Rollback, Reject, RejectEntry, RejectState, Gc, GcAgain, GcCollect, GcForget
<1>7. CASE Abort \/ Crash \/ Decay
  BY <1>7 DEF Abort, Crash, Decay, durable
<1>8. CASE UNCHANGED vars
  BY <1>8 DEF vars, durable
<1> QED BY <1>2, <1>3, <1>4, <1>5, <1>6, <1>7, <1>8 DEF Next

\* The store uses the records as the register that RecordRegister promises and BootEnvironment
\* implements: it reads the newest, saves one list at a time, and an older copy is the
\* previous list (deployments.rs over the boot environment).
THEOREM TheRecordsAreARegister == Spec => RecordsAreRegister
<1> DEFINE L == UNION {[ds -> Tries] : ds \in {ds \in SUBSET Deployments : Cardinality(ds) \in 1..2}}
<1>1. Init => Register!Init
  BY InitTypes, RegisterList DEF DpTypes, Register!Init
<1>2. DpInv /\ [Next]_vars => [Register!Next]_(Register!vars)
  <2> SUFFICES ASSUME DpInv, [Next]_vars PROVE [Register!Next]_(Register!vars)
    OBVIOUS
  <2>1. IsList(records')
    BY DpInvStep DEF DpInv, DpTypes
  <2>2. records' \in L
    BY <2>1, RegisterList
  <2> HIDE DEF L
  <2>3. CASE stale' \in {records, None}
    BY <2>3, <2>2 DEF Register!Write, Register!Next, L
  <2>4. CASE UNCHANGED <<records, stale>>
    BY <2>4 DEF Register!vars
  <2>5. CASE UNCHANGED records /\ stale' = None
    BY <2>5 DEF Register!Next, Register!Forget
  <2>6. CASE stale # None /\ records' = stale /\ stale' = None
    BY <2>6 DEF Register!Next, Register!Revert
  <2> QED BY <2>3, <2>4, <2>5, <2>6, CopiesStep DEF DpInv
<1>3. Spec => []DpInv
  BY DpInvAlways
<1> QED BY <1>1, <1>2, <1>3, PTL DEF Spec, RecordsAreRegister, Register!Spec

-----------------------------------------------------------------------------
\* The boot is past the composition: core says what runs.
Up == pc \notin {"off", "init"}
Binds == {"install.again", "install.state", "install.collect", "install.forget",
          "install.objects", "install.descriptor", "install.components",
          "install.envelope", "install.sets"}
SetPcs == {"set.envelope", "set.trial", "set.state"}

Whole(s) == s \in envelopes /\ ComponentsOf[s] \subseteq components

\* SYSTEM's set state: its readers accept it and every set it names is there; what runs is
\* what the pair or the binding of the booted deployment says.
DpSets ==
  /\ SetStateOk(sets)
  /\ \A s \in NamedSets(sets) : Whole(s)
  /\ IsFiniteSet(DOMAIN sets.bound) /\ Cardinality(DOMAIN sets.bound) <= 2
  /\ Up => core.set \in Sets /\ <<core.set, booted>> \in Runs
  /\ Up /\ booted \in DOMAIN sets.bound /\ Paired(sets) # booted => core.set = sets.bound[booted]
  /\ Up /\ Paired(sets) = booted => core.set = sets.pending
  /\ ~history.crossed => Paired(sets) \notin DOMAIN sets.bound
  /\ pc \in Binds \cup SetPcs => sets.pending = None
  /\ pc \in Binds => IF job.set = None THEN <<sets.current, job.deployment>> \in Runs
                     ELSE <<job.set, job.deployment>> \in Runs /\ job.set # sets.current
  /\ pc \in SetPcs => job.set # sets.current
  /\ pc \in {"install.envelope", "set.envelope"} => ComponentsOf[job.set] \subseteq components
  /\ pc \in {"set.trial", "set.state"} => Whole(job.set)
  /\ pc = "install.sets" => job.set = None \/ Whole(job.set)
  /\ pc = "install.entry" => <<Runkits(sets, job.deployment), job.deployment>> \in Runs
  /\ pc \in {"settle.trial", "settle.release"} => job.drop \cap NamedSets(sets) = {}

\* What a set alone on trial has left.
DpTrial == history.trialBoots + trial.left <= TrialAttempts

\* The generation floor: nothing rejected or confirmed is above it.
DpFloor ==
  /\ \A d \in Deployments : (d \in history.failed \/ history.confirmedWith[d] # None) => Generation[d] <= state.highest
  /\ Failed(state) \subseteq history.failed
  /\ pc \in {"confirm.state", "reject.state"} =>
       /\ job.state.highest >= state.highest
       /\ \A d \in DOMAIN records : job.state.highest >= Generation[d]
       /\ Failed(job.state) \subseteq history.failed \cup DOMAIN records
  /\ pc \in {"confirm.retain", "confirm.again", "settle"} => Generation[booted] <= state.highest
  /\ pc \in Preparing \cup {"install.done"} =>
       /\ job.state.highest >= state.highest /\ Failed(job.state) \subseteq history.failed
       /\ job.state.highest < Generation[job.deployment]
       /\ job.state.current = booted
  /\ pc \in Preparing => job.deployment \notin history.failed /\ history.confirmedWith[job.deployment] = None

\* What DATA has as current has an entry, unless the one entry left is confirmed.
Sole(list) == \E d \in Deployments : DOMAIN list = {d} /\ list[d] = None /\ d \notin Failed(state)
DpCurrent ==
  /\ state.current \in DOMAIN records \/ Sole(records)
  /\ pc \in {"confirm.retain", "confirm.again"} => state.current = booted
  /\ pc \in Preparing \ {"install.again", "install.state"} => state.current = booted
  /\ pc = "reject.state" => job.state.current \in DOMAIN records

\* DATA and the records say the same of what was rejected.
Spent(d) == d \in DOMAIN records => records[d] = 0
DpData ==
  /\ \A d \in history.failed : Spent(d)
  /\ booted \in history.failed => booted \in Failed(state) /\ OtherUsable(records, booted)
  /\ pc = "confirm.state" => /\ \A d \in Failed(job.state) : Spent(d)
                             /\ booted \notin history.failed
  /\ pc = "reject.state" =>
       /\ \A d \in Failed(job.state) : Spent(d)
       /\ booted \in history.failed \cup Failed(job.state) =>
            booted \in Failed(job.state) /\ OtherUsable(records, booted)
  /\ pc \in Preparing \cup {"install.done"} => booted \notin history.failed

\* What a deployment on trial has left.
DpLaunches ==
  /\ \A d \in DOMAIN records : records[d] # None => history.launches[d] + records[d] <= Attempts
  /\ \A d \in Deployments : history.launches[d] <= Attempts

\* What may boot or is running is on SYSTEM.
Live == {d \in DOMAIN records : Usable(records, d)} \cup ({booted} \ {None})
DpStored ==
  /\ DOMAIN records \subseteq descriptors
  /\ \A d \in Live : Stored(d)
  /\ pc \in {"gc.again", "gc.collect", "gc.forget"} => job.drop \cap (DOMAIN records \cup {booted}) = {}
  /\ pc = "install.descriptor" => ObjectsOf[job.deployment] \subseteq objects
  /\ pc \in {"install.components", "install.envelope", "install.sets", "install.entry"} => Stored(job.deployment)

\* Each runs the set it was confirmed with, and can.
DpRuns ==
  /\ \A d \in Live : /\ <<Runkits(sets, d), d>> \in Runs
                     /\ history.confirmedWith[d] \in {None, Runkits(sets, d)}
  /\ Up /\ Paired(sets) # booted /\ booted \notin DOMAIN sets.bound => core.set \in {sets.current, sets.pending}
  /\ pc = "composed" /\ ~core.pending => core.set = Runkits(sets, booted)
  /\ pc = "set.state" => records[booted] = None

\* Generations tell the entries apart; one on trial is the newer, and what is newer than the
\* one that runs is on trial or spent.
DpApart ==
  /\ \A d, e \in DOMAIN records : Generation[d] = Generation[e] => d = e
  /\ \A d, e \in DOMAIN records : d # e /\ records[e] \notin {None, 0} => Generation[d] < Generation[e]
  /\ booted # None => \A e \in DOMAIN records : records[e] = None => Generation[e] <= Generation[booted]

\* A state names the entries: what it has as current or fallback is not on trial, a running
\* current that is spent leaves another to boot, and an entry with a boot left below another
\* that has one or runs is confirmed, and is current or the fallback of that other.
Named(st) ==
  /\ st.current \in DOMAIN records => records[st.current] \in {None, 0}
  /\ st.fallback \in DOMAIN records => records[st.fallback] \in {None, 0}
  /\ booted # None /\ st.current = booted /\ records[booted] = 0 => OtherUsable(records, booted)
  /\ \A d, e \in DOMAIN records :
       Usable(records, d) /\ (Usable(records, e) \/ e = booted) /\ Generation[d] < Generation[e] =>
         records[d] = None /\ (st.current = d \/ (st.current = e /\ st.fallback = d))
DpNames ==
  /\ Named(state)
  /\ pc \in {"confirm.state", "reject.state"} => Named(job.state)
  /\ pc \in {"confirm.state", "confirm.retain"} =>
       \A d \in DOMAIN records : Usable(records, d) => d \in Retained(job.state)
  /\ pc \in Preparing \cup {"install.done"} => Generation[booted] < Generation[job.deployment] /\ job.state.fallback = None
  /\ pc \in Preparing \ {"install.again", "install.state"} => state.fallback = None
  /\ pc = "install.done" => DOMAIN records = {booted, job.deployment} /\ records[booted] = None

\* What a settlement has to write was foreseen when the confirmation began.
DpWritable ==
  pc \in Confirming \cup {"settle"} =>
    job.writable \/ Settlement(sets, trial, records, booted, core.set) = sets

\* What the older copy of the records names: all of it is on SYSTEM still, what may boot has
\* its set, and DATA's current is there as well.  While anything they need goes, the copies
\* say the same.
Left(list) == {d \in DOMAIN list : Usable(list, d)}
Alike == {"settle", "settle.trial", "settle.release", "gc.again", "gc.collect", "gc.forget"}
         \cup (Preparing \ {"install.again"})
DpOlder ==
  stale # None =>
    /\ DOMAIN stale \subseteq descriptors
    /\ \A d \in Left(stale) : Stored(d)
    /\ \A d \in DOMAIN records \ DOMAIN stale : records[d] = Attempts
    /\ state.current \in DOMAIN stale \/ Sole(stale)
    /\ pc \in Alike => stale = records
    /\ ~history.unbound /\ ~history.mixed /\ ~history.crossed =>
         \A d \in Left(stale) : /\ <<Runkits(sets, d), d>> \in Runs
                                /\ history.confirmedWith[d] \in {None, Runkits(sets, d)}

DpKept ==
  ~history.decayed =>
     DpData /\ DpLaunches /\ DpApart /\ DpNames /\ DpWritable /\ DpOlder

\* A binding that an entry needs is gone, or was given in error.
Misbound == history.mixed \/ history.crossed \/ (history.decayed /\ history.unbound)

-----------------------------------------------------------------------------
\* What an action writes of the history.

LEMMA SavedHistory ==
  ASSUME history \in HistT, NEW st, SaveState(st)
  PROVE  /\ history'.failed = history.failed \cup Failed(st)
         /\ history'.confirmedWith = history.confirmedWith /\ history'.launches = history.launches
         /\ history'.trialBoots = history.trialBoots /\ history'.mixed = history.mixed
         /\ history'.crossed = history.crossed /\ history'.decayed = history.decayed
         /\ history'.unbound = history.unbound
BY DEF SaveState, HistT

\* A step that leaves the history's other facts alone.
SameHistory ==
  /\ history'.failed = history.failed /\ history'.confirmedWith = history.confirmedWith
  /\ history'.launches = history.launches /\ history'.trialBoots = history.trialBoots
  /\ history'.mixed = history.mixed /\ history'.crossed = history.crossed
  /\ history'.decayed = history.decayed

LEMMA EndedHistory ==
  ASSUME DpTypes, Abort \/ Crash
  PROVE  SameHistory
BY DEF Abort, Crash, SameHistory

-----------------------------------------------------------------------------
\* The set state.

\* Steps that write no set, keep what runs and hold none under way.
SetsIdle ==
  /\ UNCHANGED <<sets, envelopes, components, core, booted>>
  /\ history'.crossed = history.crossed
  /\ pc \notin {"off", "init"}
  /\ pc' \in {"idle", "confirm.state", "confirm.retain", "confirm.again", "settle",
              "reject.state", "install.done", "gc.again", "gc.collect", "gc.forget"}

LEMMA SetsIdleKeeps ==
  ASSUME DpSets, SetsIdle
  PROVE  DpSets'
BY DEF DpSets, SetsIdle, Up, Binds, SetPcs, Whole

LEMMA SetsIdleIs ==
  ASSUME DpTypes, DpSteps,
         \/ Start \/ Confirm \/ ConfirmState \/ ConfirmRetain \/ ConfirmAgain
         \/ FailBoot \/ Rollback \/ (\E d \in Deployments : Reject(d)) \/ RejectState
         \/ Gc \/ GcAgain \/ GcCollect \/ GcForget \/ InstallDone \/ InstallEntry \/ Abort
  PROVE  SetsIdle
<1>0. history \in HistT
  BY DEF DpTypes
<1>1. CASE Start \/ Confirm \/ ConfirmRetain \/ ConfirmAgain
  BY <1>1 DEF Start, Confirm, ConfirmRetain, ConfirmAgain, AfterRetain, SetsIdle, durable, onSystem
<1>2. CASE ConfirmState
  BY <1>0, <1>2, SavedHistory DEF ConfirmState, SetsIdle, onSystem
<1>3. CASE RejectState
  BY <1>0, <1>3, SavedHistory DEF RejectState, SetsIdle, onSystem
<1>4. CASE InstallDone
  BY <1>0, <1>4, SavedHistory DEF InstallDone, SetsIdle, onSystem
<1>5. CASE FailBoot \/ Rollback \/ (\E d \in Deployments : Reject(d))
  BY <1>5 DEF FailBoot, Rollback, Reject, RejectEntry, SetsIdle, onSystem
<1>6. CASE Gc \/ GcAgain \/ GcCollect \/ GcForget
  BY <1>6 DEF Gc, GcAgain, GcCollect, GcForget, AfterRetain, SetsIdle, onSystem
<1>7. CASE InstallEntry
  BY <1>0, <1>7 DEF InstallEntry, SetsIdle, onSystem, HistT
<1>8. CASE Abort
  BY <1>8, EndedHistory DEF Abort, SetsIdle, SameHistory, durable
<1> QED BY <1>1, <1>2, <1>3, <1>4, <1>5, <1>6, <1>7, <1>8

\* The installation's steps before the set state is written.
LEMMA SetsPrepared ==
  ASSUME DpTypes, DpSteps, DpSets,
         \/ InstallAgain \/ InstallState \/ InstallCollect \/ InstallForget
         \/ InstallObjects \/ InstallDescriptor
  PROVE  DpSets'
<1> DEFINE Prepared == /\ UNCHANGED <<sets, envelopes, components, core, booted, job>>
                       /\ history'.crossed = history.crossed
                       /\ pc \in Binds /\ pc' \in Binds \ {"install.envelope"}
                       /\ pc' = "install.sets" => job.set = None
<1>1. ASSUME Prepared PROVE DpSets'
  BY <1>1 DEF DpSets, Up, Binds, SetPcs, Whole
<1>2. CASE InstallState
  BY <1>2, SavedHistory, <1>1 DEF InstallState, DpTypes, onSystem, Binds
<1>3. CASE InstallAgain \/ InstallCollect \/ InstallForget \/ InstallObjects \/ InstallDescriptor
  <2>1. Prepared
    BY <1>3 DEF InstallAgain, InstallCollect, InstallForget, InstallObjects, InstallDescriptor, onSystem, Binds
  <2> QED BY <1>1, <2>1
<1> QED BY <1>2, <1>3

\* The machine is off, or only loaded: nothing runs.
LEMMA SetsOff ==
  ASSUME DpTypes, DpSteps, DpSets, Load \/ BootFails \/ Crash \/ Decay
  PROVE  DpSets'
<1> DEFINE Off == /\ UNCHANGED <<sets, envelopes, components>>
                  /\ history'.crossed = history.crossed /\ pc' \in {"off", "init"}
<1>1. ASSUME Off PROVE DpSets'
  BY <1>1 DEF DpSets, Up, Binds, SetPcs, Whole
<1>2. CASE Load
  BY <1>1, <1>2 DEF Load, onSystem, DpTypes, HistT
<1>3. CASE BootFails
  BY <1>1, <1>3 DEF BootFails, PowerOff, onSystem
<1>4. CASE Crash
  BY <1>1, <1>4, EndedHistory DEF Crash, PowerOff, onSystem, SameHistory
<1>5. CASE Decay
  BY <1>1, <1>5, EndedHistory DEF Decay, onSystem, DpTypes, DpSteps, HistT
<1> QED BY <1>2, <1>3, <1>4, <1>5

\* What the runkit composed: found, with or without a boot of a set alone spent.
LEMMA ComposedIs ==
  ASSUME DpTypes, DpSteps, NEW spends \in BOOLEAN, Compose(spends)
  PROVE  LET tried == IF spends THEN trial ELSE NoTrial
             tries == /\ sets.pending # None /\ Paired(sets) = None /\ Bound(sets, booted) = None
                      /\ ~TrialIsOver(tried, sets.pending) /\ SetUsable(sets.pending, booted)
         IN
         /\ booted \in Deployments /\ tried \in TrialT
         /\ core'.set = (IF tries THEN sets.pending ELSE Runkits(sets, booted))
         /\ core'.pending <=> (Paired(sets) = booted \/ tries)
         /\ core'.paired <=> Paired(sets) = booted
         /\ core'.set # None /\ SetUsable(core'.set, booted)
         /\ booted' = booted /\ sets' = sets
         /\ history' = (IF core'.pending /\ ~core'.paired
                        THEN [history EXCEPT !.trialBoots = Counted(history.trialBoots, TrialAttempts)]
                        ELSE history)
<1> DEFINE tried == IF spends THEN trial ELSE NoTrial
           found == Composed(booted, tried)
           tries == /\ sets.pending # None /\ Paired(sets) = None /\ Bound(sets, booted) = None
                    /\ ~TrialIsOver(tried, sets.pending) /\ SetUsable(sets.pending, booted)
<1>1. pc = "init" /\ booted \in Deployments /\ tried \in TrialT
  BY NoTrialType DEF Compose, DpTypes, DpSteps, Dep0
<1> HIDE DEF tried
<1>2. /\ found.paired <=> Paired(sets) = booted
      /\ found.pending <=> (Paired(sets) = booted \/ tries)
      /\ found.set = (IF tries THEN sets.pending ELSE Runkits(sets, booted))
      /\ found.ok <=> found.set # None /\ SetUsable(found.set, booted)
      /\ found.pending \in BOOLEAN /\ found.paired \in BOOLEAN
  BY <1>1, ComposedFacts
<1> HIDE DEF found, tries
<1>3. /\ found.ok
      /\ core' = [set |-> found.set, pending |-> found.pending, paired |-> found.paired]
      /\ history' = (IF found.pending /\ ~found.paired
                     THEN [history EXCEPT !.trialBoots = Counted(history.trialBoots, TrialAttempts)]
                     ELSE history)
      /\ booted' = booted /\ sets' = sets
  BY DEF Compose, found, tried
<1>4. core'.set = found.set /\ core'.pending = found.pending /\ core'.paired = found.paired
  BY <1>3
<1> QED BY <1>1, <1>2, <1>3, <1>4 DEF tried, tries

LEMMA ComposeSets ==
  ASSUME DpTypes, DpSteps, DpSets, NEW spends \in BOOLEAN, Compose(spends)
  PROVE  DpSets'
<1>1. /\ core'.set \in {sets.pending, Runkits(sets, booted)}
      /\ Paired(sets) = booted \/ booted \in DOMAIN sets.bound => core'.set = Runkits(sets, booted)
      /\ core'.set # None /\ SetUsable(core'.set, booted) /\ booted \in Deployments
  BY NoneIsApart, SetsFields, ComposedIs DEF DpTypes, Bound
<1>2. core'.set \in Sets /\ <<core'.set, booted>> \in Runs
  BY <1>1 DEF SetUsable, DpTypes
<1>3. /\ UNCHANGED <<sets, envelopes, components, booted, job>> /\ pc' = "composed"
      /\ history'.crossed = history.crossed
  BY DEF Compose, onSystem, DpTypes, HistT
<1> QED BY <1>1, <1>2, <1>3 DEF DpSets, Up, Binds, SetPcs, Whole, Runkits, Held

\* A settlement leaves no pending set that is current, and what runs is current afterwards.
LEMMA SettledSets ==
  ASSUME DpTypes, DpSteps, DpSets, Settle
  PROVE  /\ SetStateOk(sets') /\ sets' \in SetsT
         /\ NamedSets(sets') \subseteq NamedSets(sets)
         /\ DOMAIN sets'.bound \subseteq DOMAIN records \ {booted}
         /\ Paired(sets') # booted
         /\ Paired(sets') \in {None, Paired(sets)}
         /\ history'.crossed = (history.crossed \/ Paired(sets) \in DOMAIN sets'.bound)
<1> DEFINE new == Settlement(sets, trial, records, booted, core.set)
           kind == SettlementKind(sets, trial, records, booted, core.set)
           retained == RetainedDeployments(records, booted)
<1>1. /\ IsList(records) /\ booted \in DOMAIN records /\ pc = "settle" /\ sets \in SetsT
      /\ sets' = new
  BY DEF Settle, DpSteps, DpTypes
<1>2. /\ kind \in {"committed", "dropped", "unchanged"}
      /\ kind = "committed" => sets.pending # None /\ sets.pending = core.set
      /\ new \in SetsT
      /\ DOMAIN new.bound \subseteq retained \ {booted}
      /\ NamedSets(new) \subseteq NamedSets(sets)
      /\ new.pending = IF kind = "unchanged" THEN sets.pending ELSE None
      /\ new.pair = IF new.pending = None THEN None ELSE sets.pair
      /\ new.current = IF Bound(sets, booted) # None THEN Bound(sets, booted)
                       ELSE IF kind = "committed" THEN sets.pending ELSE sets.current
      /\ \A e \in retained \ {booted} : Held(new, e) = Held(sets, e)
  <2>1. SettlesWell(sets, trial, records, booted, core.set)
    BY <1>1, SettlementFacts
  <2> QED BY <2>1 DEF SettlesWell
<1>3. kind = "unchanged" => sets.pending = None \/ sets.pending # core.set
  BY DEF SettlementKind
<1>4. retained \subseteq DOMAIN records
  BY DEF RetainedDeployments
<1>5. booted \in Deployments /\ None \notin Deployments
  BY <1>1, ListFacts, NoneIsApart
<1>6. Up
  BY <1>1 DEF Up
<1>7. history'.crossed = (history.crossed \/ Paired(sets) \in DOMAIN new.bound)
  BY DEF DpTypes, Settle, HistT
<1> HIDE DEF new, kind, retained
<1>8. Paired(new) \in {None, Paired(sets)}
  BY <1>2 DEF Paired
<1>9. kind = "unchanged" /\ sets.pending # None => Paired(sets) # booted
  BY <1>3, <1>6 DEF DpSets
<1>10. Paired(new) # booted
  BY <1>2, <1>5, <1>9 DEF Paired
<1>11. kind = "unchanged" /\ sets.pending # None /\ Bound(sets, booted) # None =>
         Bound(sets, booted) = core.set
  BY <1>6, <1>9 DEF DpSets, Bound
<1>12. SetStateOk(new)
  BY <1>2, <1>3, <1>11 DEF SetStateOk, DpSets
<1> QED BY <1>1, <1>2, <1>4, <1>7, <1>8, <1>10, <1>12

\* At most two of the entries are bound.
LEMMA FewBound ==
  ASSUME NEW f, IsList(f), NEW S, S \subseteq DOMAIN f
  PROVE  IsFiniteSet(S) /\ Cardinality(S) <= 2
  BY ListFacts, FS_Subset, FS_CardinalityType

LEMMA SettleSets ==
  ASSUME DpTypes, DpSteps, DpSets, Settle
  PROVE  DpSets'
<1>1. /\ SetStateOk(sets') /\ NamedSets(sets') \subseteq NamedSets(sets)
      /\ DOMAIN sets'.bound \subseteq DOMAIN records \ {booted}
      /\ Paired(sets') # booted
      /\ Paired(sets') \in {None, Paired(sets)}
      /\ history'.crossed = (history.crossed \/ Paired(sets) \in DOMAIN sets'.bound)
  BY SettledSets
<1>2. IsList(records) /\ pc = "settle" /\ UNCHANGED <<records, envelopes, components, booted, core>>
  BY DEF Settle, DpTypes, onSystem
<1>3. IsFiniteSet(DOMAIN sets'.bound) /\ Cardinality(DOMAIN sets'.bound) <= 2
  BY <1>1, <1>2, FewBound
<1>4. None \notin DOMAIN sets'.bound
  BY <1>2, ListFacts, <1>1, NoneIsApart
<1>5. \/ pc' = "idle"
      \/ pc' = "settle.trial" /\ job'.drop \cap NamedSets(sets') = {}
  <2> DEFINE settled == Settlement(sets, trial, records, booted, core.set)
             kind == SettlementKind(sets, trial, records, booted, core.set)
  <2>1. job \in JobT
    BY DEF DpTypes
  <2>2. /\ sets' = settled
        /\ \/ pc' = "idle"
           \/ /\ pc' = "settle.trial"
              /\ job' = [job EXCEPT !.over = (kind # "unchanged"), !.drop = NamedSets(sets) \ NamedSets(settled)]
    BY DEF Settle
  <2> HIDE DEF settled, kind
  <2> QED BY <2>1, <2>2 DEF JobT
<1>6. ~history'.crossed => Paired(sets') \notin DOMAIN sets'.bound
  BY <1>1, <1>4
<1>7. Up
  BY <1>2 DEF Up
<1> QED BY <1>1, <1>2, <1>3, <1>5, <1>6, <1>7 DEF DpSets, Up, Binds, SetPcs, Whole

LEMMA SettleTrialSets ==
  ASSUME DpTypes, DpSteps, DpSets, SettleTrial
  PROVE  DpSets'
BY DEF DpSets, SettleTrial, onSystem, Up, Binds, SetPcs, Whole

LEMMA SettleEnvelopeSets ==
  ASSUME DpTypes, DpSteps, DpSets, NEW s \in Sets, SettleEnvelope(s)
  PROVE  DpSets'
  BY DEF SettleEnvelope, DpTypes, JobT, DpSets, Up, Binds, SetPcs, Whole

LEMMA SettleComponentsSets ==
  ASSUME DpTypes, DpSteps, DpSets, SettleComponents
  PROVE  DpSets'
  BY DEF DpSets, Whole, HeldComponents, SettleComponents, Up, Binds, SetPcs

\* The set an installation chose runs on the new root and is not the current one.
LEMMA InstallSetsChoice ==
  ASSUME DpTypes, DpSteps, DpSets, NEW d \in Deployments, NEW latest \in Set0, NEW choice \in Set0,
         Install(d, latest, choice)
  PROVE  DpSets'
<1>1. /\ UNCHANGED <<sets, envelopes, components, booted, core, history>>
      /\ job' = [NoJob EXCEPT !.state = [EffectiveState(records, state) EXCEPT
                                           !.fallback = None, !.candidate = None],
                              !.deployment = d, !.set = choice]
      /\ pc = "idle" /\ pc' \in {"install.again", "install.state"}
      /\ choice \in CoreChoices(sets, d, latest)
  BY DEF Install, InstallOk, AfterRetain, onSystem
<1>2. job'.set = choice /\ job'.deployment = d
  BY <1>1 DEF NoJob
<1>3. sets.pending = None
  BY <1>1 DEF CoreChoices
<1>4. choice = None => <<sets.current, d>> \in Runs
  BY <1>1 DEF CoreChoices, NewerImageSet
<1>5. choice # None => <<choice, d>> \in Runs /\ choice # sets.current
  BY RulesAssumption, SetsFields, <1>1 DEF DpTypes, Set0, NewerImageSet, CoreChoices
<1> QED BY <1>1, <1>2, <1>3, <1>4, <1>5 DEF DpSets, Up, Binds, SetPcs, Whole

LEMMA PublishSets ==
  ASSUME DpTypes, DpSteps, DpSets, InstallComponents \/ InstallEnvelope \/ SetEnvelope
  PROVE  DpSets'
  BY DEF InstallComponents, PublishComponents, DpSets, Up, Binds, SetPcs, Whole, InstallEnvelope,
     PublishEnvelope, SetEnvelope

LEMMA InstallSetSets ==
  ASSUME DpTypes, DpSteps, DpSets, NEW s \in Sets, InstallSet(s)
  PROVE  DpSets'
  BY DEF InstallSet, NoJob, InstallSetOk, PublishComponents, DpSets, Up, Binds, SetPcs, Whole

LEMMA SetTrialSets ==
  ASSUME DpTypes, DpSteps, DpSets, SetTrial
  PROVE  DpSets'
  BY DEF SetTrial, DpTypes, HistT, onSystem, DpSets, Up, Binds, SetPcs, Whole

\* A write of the set state that drops bindings and names at most one set more.
LEMMA RewrittenSets ==
  ASSUME NEW ss \in SetsT, NEW new \in SetsT, NEW S, ss.pending = None,
         IsFiniteSet(DOMAIN ss.bound), Cardinality(DOMAIN ss.bound) <= 2,
         new.current = ss.current, new.bound = Restrict(ss.bound, DOMAIN ss.bound \cap S)
  PROVE  /\ DOMAIN new.bound = DOMAIN ss.bound \cap S
         /\ \A d \in DOMAIN new.bound : new.bound[d] = ss.bound[d]
         /\ IsFiniteSet(DOMAIN new.bound) /\ Cardinality(DOMAIN new.bound) <= 2
         /\ NamedSets(new) \subseteq NamedSets(ss) \cup ({new.pending} \ {None})
<1>1. /\ DOMAIN new.bound = DOMAIN ss.bound \cap S
      /\ \A d \in DOMAIN new.bound : new.bound[d] = ss.bound[d]
  BY DEF Restrict
<1>3. IsFiniteSet(DOMAIN new.bound) /\ Cardinality(DOMAIN new.bound) <= 2
  BY <1>1, FS_Subset, FS_CardinalityType
<1>4. NamedSets(new) \subseteq NamedSets(ss) \cup ({new.pending} \ {None})
  <2> SUFFICES ASSUME NEW s \in NamedSets(new) PROVE s \in NamedSets(ss) \/ (s = new.pending /\ s # None)
    OBVIOUS
  <2>1. s = new.current \/ (s = new.pending /\ s # None) \/ \E d \in DOMAIN new.bound : s = new.bound[d]
    BY NamedIs
  <2>2. (s = new.pending /\ s # None) \/ s = ss.current \/ \E d \in DOMAIN ss.bound : s = ss.bound[d]
    BY <2>1, <1>1
  <2> QED BY <2>2, NamedIs
<1> QED BY <1>1, <1>3, <1>4

\* What install and set-install write of the set state.
LEMMA InstallSetsIs ==
  ASSUME DpTypes, DpSteps, DpSets, InstallSets
  PROVE  /\ pc = "install.sets" /\ sets \in SetsT /\ sets' \in SetsT /\ sets.pending = None
         /\ booted \in Deployments /\ job.deployment \in Deployments \ {booted} /\ None \notin Deployments
         /\ sets'.current = sets.current /\ sets'.pending = job.set
         /\ DOMAIN sets'.bound = DOMAIN sets.bound \cap {booted}
         /\ \A d \in DOMAIN sets'.bound : sets'.bound[d] = sets.bound[d]
         /\ IsFiniteSet(DOMAIN sets'.bound) /\ Cardinality(DOMAIN sets'.bound) <= 2
         /\ NamedSets(sets') \subseteq NamedSets(sets) \cup ({job.set} \ {None})
         /\ Paired(sets) = None /\ Paired(sets') = IF job.set = None THEN None ELSE job.deployment
<1> DEFINE q == IF job.set = None THEN None ELSE job.deployment
           p == IF job.set = None THEN sets.pending ELSE job.set
<1>1. /\ pc = "install.sets" /\ sets \in SetsT /\ sets.pending = None
      /\ IsFiniteSet(DOMAIN sets.bound) /\ Cardinality(DOMAIN sets.bound) <= 2
      /\ booted \in DOMAIN records /\ IsList(records) /\ job.deployment \in Deployments \ {booted}
  BY DEF InstallSets, DpSets, DpTypes, DpSteps, Preparing, Binds
<1>2. p = job.set /\ p \in Set0 /\ q \in Dep0
  BY <1>1, JobFields DEF DpTypes, Set0, Dep0
<1>3. booted \in Deployments /\ None \notin Deployments
  BY <1>1, ListFacts, NoneIsApart
<1>4. sets' = [sets EXCEPT !.pair = q, !.pending = p, !.bound = Restrict(sets.bound, DOMAIN sets.bound \cap {booted})]
  BY DEF InstallSets
<1> HIDE DEF p, q
<1>6. sets' \in SetsT
  BY InstallSetsTypes DEF DpTypes
<1>7. /\ sets'.current = sets.current /\ sets'.pending = p /\ sets'.pair = q
      /\ sets'.bound = Restrict(sets.bound, DOMAIN sets.bound \cap {booted})
  BY <1>1, <1>4 DEF SetsT
<1>8. Paired(sets) = None /\ Paired(sets') = IF p = None THEN None ELSE q
  BY <1>1, <1>7 DEF Paired
<1>5. /\ DOMAIN sets'.bound = DOMAIN sets.bound \cap {booted}
      /\ \A d \in DOMAIN sets'.bound : sets'.bound[d] = sets.bound[d]
      /\ IsFiniteSet(DOMAIN sets'.bound) /\ Cardinality(DOMAIN sets'.bound) <= 2
      /\ NamedSets(sets') \subseteq NamedSets(sets) \cup ({p} \ {None})
  BY <1>1, <1>6, <1>7, RewrittenSets
<1> QED BY <1>1, <1>2, <1>3, <1>5, <1>6, <1>7, <1>8 DEF q

LEMMA InstallSetsSets ==
  ASSUME DpTypes, DpSteps, DpSets, InstallSets
  PROVE  DpSets'
  BY InstallSetsIs DEF InstallSets, onSystem, SetStateOk, DpSets, Binds, Runkits, Held, Up, SetPcs, Whole

LEMMA SetPendingIs ==
  ASSUME DpTypes, DpSteps, DpSets, SetPending
  PROVE  LET retained == RetainedDeployments(records, None) IN
         /\ pc = "set.state" /\ sets \in SetsT /\ sets' \in SetsT /\ sets.pending = None
         /\ booted \in Deployments /\ None \notin Deployments
         /\ sets'.current = sets.current /\ sets'.pending = job.set
         /\ DOMAIN sets'.bound = DOMAIN sets.bound \cap retained
         /\ \A d \in DOMAIN sets'.bound : sets'.bound[d] = sets.bound[d]
         /\ IsFiniteSet(DOMAIN sets'.bound) /\ Cardinality(DOMAIN sets'.bound) <= 2
         /\ NamedSets(sets') \subseteq NamedSets(sets) \cup {job.set}
         /\ Paired(sets) = None /\ Paired(sets') = None
<1> DEFINE retained == RetainedDeployments(records, None)
<1>1. /\ pc = "set.state" /\ sets \in SetsT /\ sets.pending = None
      /\ IsFiniteSet(DOMAIN sets.bound) /\ Cardinality(DOMAIN sets.bound) <= 2
      /\ booted \in DOMAIN records /\ IsList(records)
  BY DEF SetPending, DpSets, DpTypes, DpSteps, SetPcs
<1>2. job.set \in Set0 /\ None \in Dep0
  BY <1>1, JobFields DEF DpTypes, Set0, Dep0
<1>3. booted \in Deployments /\ None \notin Deployments
  BY <1>1, ListFacts, NoneIsApart
<1>4. sets' = [sets EXCEPT !.pair = None, !.pending = job.set, !.bound = Restrict(sets.bound, DOMAIN sets.bound \cap retained)]
  BY DEF SetPending
<1> HIDE DEF retained
<1>6. sets' \in SetsT
  BY SetPendingTypes DEF DpTypes
<1>7. /\ sets'.current = sets.current /\ sets'.pending = job.set /\ sets'.pair = None
      /\ sets'.bound = Restrict(sets.bound, DOMAIN sets.bound \cap retained)
  BY <1>1, <1>4 DEF SetsT
<1>8. Paired(sets) = None /\ Paired(sets') = None
  BY <1>1, <1>7 DEF Paired
<1>5. /\ DOMAIN sets'.bound = DOMAIN sets.bound \cap retained
      /\ \A d \in DOMAIN sets'.bound : sets'.bound[d] = sets.bound[d]
      /\ IsFiniteSet(DOMAIN sets'.bound) /\ Cardinality(DOMAIN sets'.bound) <= 2
      /\ NamedSets(sets') \subseteq NamedSets(sets) \cup ({sets'.pending} \ {None})
  BY <1>1, <1>6, <1>7, RewrittenSets
<1> QED BY <1>1, <1>3, <1>5, <1>6, <1>7, <1>8 DEF retained

LEMMA SetPendingSets ==
  ASSUME DpTypes, DpSteps, DpSets, SetPending
  PROVE  DpSets'
  BY SetPendingIs, SetsFields DEF SetPending, onSystem, DpTypes, HistT, SetStateOk, DpSets, SetPcs, Up,
     Binds, Whole

LEMMA InitSets == Init => DpSets
  BY InitTypes, NamedIs, FS_EmptySet DEF DpTypes, Init, Whole, DpSets, SetStateOk, Up, Binds, SetPcs

LEMMA SetsStep ==
  ASSUME DpTypes, DpSteps, DpSets, [Next]_vars
  PROVE  DpSets'
<1>1. CASE \/ Start \/ Confirm \/ ConfirmState \/ ConfirmRetain \/ ConfirmAgain
           \/ FailBoot \/ Rollback \/ (\E d \in Deployments : Reject(d)) \/ RejectState
           \/ Gc \/ GcAgain \/ GcCollect \/ GcForget \/ InstallDone \/ InstallEntry \/ Abort
  BY <1>1, SetsIdleIs, SetsIdleKeeps
<1>2. CASE \/ InstallAgain \/ InstallState \/ InstallCollect \/ InstallForget
           \/ InstallObjects \/ InstallDescriptor
  BY <1>2, SetsPrepared
<1>3. CASE Load \/ BootFails \/ Crash \/ Decay
  BY <1>3, SetsOff
<1>4. CASE \E spends \in BOOLEAN : Compose(spends)
  BY <1>4, ComposeSets
<1>5. CASE Settle \/ SettleTrial \/ SettleComponents \/ (\E s \in Sets : SettleEnvelope(s))
  BY <1>5, SettleSets, SettleTrialSets, SettleComponentsSets, SettleEnvelopeSets
<1>6. CASE \E d \in Deployments, latest, choice \in Sets \cup {None} : Install(d, latest, choice)
  BY <1>6, InstallSetsChoice DEF Set0
<1>7. CASE InstallComponents \/ InstallEnvelope \/ SetEnvelope
  BY <1>7, PublishSets
<1>8. CASE InstallSets \/ SetTrial \/ SetPending \/ (\E s \in Sets : InstallSet(s))
  BY <1>8, InstallSetsSets, SetTrialSets, SetPendingSets, InstallSetSets
<1>9. CASE UNCHANGED vars
  BY <1>9 DEF vars, durable, DpSets, Up, Whole
<1> QED BY <1>1, <1>2, <1>3, <1>4, <1>5, <1>6, <1>7, <1>8, <1>9
        DEF Next, BootSteps, ConfirmSteps, InstallSteps, SetSteps, OperatorSteps

-----------------------------------------------------------------------------
\* The trial of a set alone and the generation floor.

\* The steps that count nothing and save no state.
QuietStep ==
  \/ Start \/ BootFails \/ Abort \/ Crash
  \/ Confirm \/ ConfirmRetain \/ ConfirmAgain
  \/ SettleTrial \/ SettleComponents \/ (\E s \in Sets : SettleEnvelope(s))
  \/ FailBoot \/ Rollback \/ (\E d \in Deployments : Reject(d))
  \/ Gc \/ GcAgain \/ GcCollect \/ GcForget
  \/ (\E d \in Deployments, latest, choice \in Sets \cup {None} : Install(d, latest, choice))
  \/ InstallAgain \/ InstallCollect \/ InstallForget \/ InstallObjects \/ InstallDescriptor
  \/ InstallComponents \/ InstallEnvelope \/ InstallSets
  \/ (\E s \in Sets : InstallSet(s)) \/ SetEnvelope \/ SetPending
  \/ UNCHANGED vars

LEMMA QuietHistory ==
  ASSUME DpTypes, QuietStep
  PROVE  SameHistory /\ state' = state /\ (history.unbound => history'.unbound)
<1>1. CASE Abort \/ Crash
  BY <1>1, EndedHistory DEF Abort, Crash, durable
<1>2. CASE SetPending
  BY <1>2 DEF SetPending, SameHistory, DpTypes, HistT
<1>3. CASE \/ Start \/ BootFails \/ Confirm \/ ConfirmRetain \/ ConfirmAgain
           \/ SettleTrial \/ SettleComponents \/ (\E s \in Sets : SettleEnvelope(s))
           \/ FailBoot \/ Rollback \/ (\E d \in Deployments : Reject(d))
  BY <1>3 DEF Start, BootFails, Confirm, ConfirmRetain, ConfirmAgain, SettleTrial, SettleComponents,
     SettleEnvelope, FailBoot, Rollback, Reject, RejectEntry, SameHistory, durable
<1>4. CASE \/ Gc \/ GcAgain \/ GcCollect \/ GcForget
           \/ (\E d \in Deployments, latest, choice \in Sets \cup {None} : Install(d, latest, choice))
           \/ InstallAgain \/ InstallCollect \/ InstallForget \/ InstallObjects \/ InstallDescriptor
           \/ InstallComponents \/ InstallEnvelope \/ InstallSets
  BY <1>4 DEF Gc, GcAgain, GcCollect, GcForget, Install, InstallAgain, InstallCollect, InstallForget,
     InstallObjects, InstallDescriptor, InstallComponents, InstallEnvelope, InstallSets,
     PublishComponents, PublishEnvelope, SameHistory
<1>5. CASE (\E s \in Sets : InstallSet(s)) \/ SetEnvelope \/ UNCHANGED vars
  BY <1>5 DEF InstallSet, SetEnvelope, PublishComponents, PublishEnvelope, SameHistory, vars, durable
<1> QED BY <1>1, <1>2, <1>3, <1>4, <1>5 DEF QuietStep

\* The steps that do: a launch, a composition, a settlement, a state saved, an entry made, a
\* set's trial begun and the loss of a copy of the records.
LEMMA NextIs ==
  ASSUME [Next]_vars
  PROVE  \/ QuietStep \/ Load \/ (\E spends \in BOOLEAN : Compose(spends)) \/ Settle
         \/ ConfirmState \/ RejectState \/ InstallState \/ InstallDone \/ InstallEntry
         \/ SetTrial \/ Decay
BY DEF Next, BootSteps, ConfirmSteps, InstallSteps, SetSteps, OperatorSteps, QuietStep

LEMMA TrialStep ==
  ASSUME DpTypes, DpSteps, DpTrial, [Next]_vars
  PROVE  DpTrial'
<1>0. /\ trial \in TrialT /\ history \in HistT /\ trial.left \in Nat /\ trial.left <= TrialAttempts
      /\ history.trialBoots \in Nat
      /\ TrialAttempts \in Nat /\ history.trialBoots + trial.left <= TrialAttempts
  BY NoneIsApart DEF DpTypes, TrialT, HistT, DpTrial
<1>1. CASE SettleTrial
  BY <1>1, QuietHistory, NoTrialType, <1>0 DEF QuietStep, SettleTrial, DpTrial, SameHistory
<1>2. CASE QuietStep /\ ~SettleTrial
  <2>1. SameHistory
    BY <1>2, QuietHistory
  <2>2. trial' = trial
    <3>1. CASE \/ Start \/ BootFails \/ Abort \/ Crash \/ Confirm \/ ConfirmRetain \/ ConfirmAgain
               \/ SettleComponents \/ (\E s \in Sets : SettleEnvelope(s))
               \/ FailBoot \/ Rollback \/ (\E d \in Deployments : Reject(d))
      BY <3>1 DEF Start, BootFails, Abort, Crash, Confirm, ConfirmRetain, ConfirmAgain, SettleComponents,
         SettleEnvelope, FailBoot, Rollback, Reject, RejectEntry, durable
    <3>2. CASE \/ Gc \/ GcAgain \/ GcCollect \/ GcForget
               \/ (\E d \in Deployments, latest, choice \in Sets \cup {None} : Install(d, latest, choice))
               \/ InstallAgain \/ InstallCollect \/ InstallForget \/ InstallObjects \/ InstallDescriptor
               \/ InstallComponents \/ InstallEnvelope \/ InstallSets
      BY <3>2 DEF Gc, GcAgain, GcCollect, GcForget, Install, InstallAgain, InstallCollect, InstallForget,
         InstallObjects, InstallDescriptor, InstallComponents, InstallEnvelope, InstallSets,
         PublishComponents, PublishEnvelope
    <3>3. CASE (\E s \in Sets : InstallSet(s)) \/ SetEnvelope \/ SetPending \/ UNCHANGED vars
      BY <3>3 DEF InstallSet, SetEnvelope, SetPending, PublishComponents, PublishEnvelope, vars, durable
    <3> QED BY <1>2, <3>1, <3>2, <3>3 DEF QuietStep
  <2> QED BY <2>1, <2>2 DEF DpTrial, SameHistory
<1>3. CASE \E spends \in BOOLEAN : Compose(spends)
  <2>1. PICK spends \in BOOLEAN : Compose(spends)
    BY <1>3
  <2> DEFINE tried == IF spends THEN trial ELSE NoTrial
             tries == /\ sets.pending # None /\ Paired(sets) = None /\ Bound(sets, booted) = None
                      /\ ~TrialIsOver(tried, sets.pending) /\ SetUsable(sets.pending, booted)
  <2>2. /\ booted \in Deployments /\ tried \in TrialT
        /\ core'.pending <=> (Paired(sets) = booted \/ tries)
        /\ core'.paired <=> Paired(sets) = booted
        /\ history' = (IF core'.pending /\ ~core'.paired
                       THEN [history EXCEPT !.trialBoots = Counted(history.trialBoots, TrialAttempts)]
                       ELSE history)
    BY <2>1, ComposedIs
  <2>3. trial' = IF spends THEN SpentTrial(sets, trial, booted) ELSE trial
    BY <2>1 DEF Compose
  <2>4. tries => spends
    BY NoTrialType DEF TrialIsOver
  <2>5. CASE core'.pending /\ ~core'.paired
    BY <2>2, <2>4, <2>5, <2>3, <1>0 DEF SpentTrial, TrialIsOver, TrialT, HistT, Counted, DpTrial
  <2>6. CASE ~(core'.pending /\ ~core'.paired)
    BY <2>2, <2>6, <2>3, <1>0 DEF SpentTrial, TrialT, DpTrial
  <2> QED BY <2>5, <2>6
<1>4. CASE SetTrial
  BY <1>0, <1>4 DEF SetTrial, HistT, DpTrial
<1>5. CASE ConfirmState \/ RejectState \/ InstallState \/ InstallDone
  BY <1>0, <1>5, SavedHistory DEF ConfirmState, RejectState, InstallState, InstallDone, DpTrial
<1>6. CASE Load \/ Settle \/ InstallEntry \/ Decay
  BY <1>0, <1>6 DEF Load, Settle, InstallEntry, Decay, HistT, DpTrial
<1> QED BY <1>1, <1>2, <1>3, <1>4, <1>5, <1>6, NextIs

LEMMA InitTrial == Init => DpTrial
BY NoneIsApart DEF Init, DpTrial, NoTrial, NoHistory

FloorPcs == {"confirm.state", "reject.state", "confirm.retain", "confirm.again", "settle",
             "install.done"} \cup Preparing

\* A step that records no verdict and holds none.
LEMMA FloorIdle ==
  ASSUME DpFloor, state' = state, history'.failed = history.failed,
         history'.confirmedWith = history.confirmedWith, pc' \notin FloorPcs
  PROVE  DpFloor'
BY DEF DpFloor, FloorPcs

\* What is about to be saved is above the floor.
LEMMA ConfirmFloor ==
  ASSUME DpTypes, DpSteps, DpFloor, Confirm
  PROVE  DpFloor'
<1> DEFINE cs == ConfirmedState(records, state, booted)
           eff == EffectiveState(records, state)
           spent == {d \in DOMAIN records \ {booted} : records[d] = 0 /\ d \notin Failed(state)}
<1>1. IsList(records) /\ booted \in DOMAIN records /\ state \in StateT /\ Bounded(state)
  BY DEF Confirm, ConfirmOk, DpTypes
<1>2. /\ eff.highest >= state.highest /\ \A d \in DOMAIN records : eff.highest >= Generation[d]
  BY <1>1, EffectiveFacts
<1>3. cs.highest = eff.highest /\ Failed(cs) \subseteq Failed(state) \cup spent
  BY <1>1, ConfirmedFacts
<1>4. /\ job'.state = cs /\ pc' = "confirm.state"
      /\ UNCHANGED <<state, history, booted>>
  BY DEF Confirm, NoJob
<1>5. DOMAIN records' = DOMAIN records
  BY <1>1 DEF Confirm, SaveRecords
<1>6. Failed(cs) \subseteq history.failed \cup DOMAIN records
  BY <1>3 DEF DpFloor
<1> HIDE DEF cs, eff, spent
<1> QED BY <1>2, <1>3, <1>4, <1>5, <1>6 DEF DpFloor, Preparing

LEMMA RejectFloor ==
  ASSUME DpTypes, DpSteps, DpFloor, pc = "idle", NEW e, RejectEntry(e)
  PROVE  DpFloor'
<1> DEFINE rj == RejectedState(records, state, e)
           eff == EffectiveState(records, state)
<1>1. IsList(records) /\ e \in DOMAIN records /\ state \in StateT /\ Bounded(state)
  BY DEF RejectEntry, RejectOk, DpTypes
<1>2. /\ eff.highest >= state.highest /\ \A d \in DOMAIN records : eff.highest >= Generation[d]
  BY <1>1, EffectiveFacts
<1>3. rj.highest = eff.highest /\ Failed(rj) \subseteq Failed(state) \cup {e}
  BY <1>1, RejectedFacts
<1>4. /\ job'.state = rj /\ pc' = "reject.state"
      /\ UNCHANGED <<state, history, booted>>
  BY DEF RejectEntry, NoJob
<1>5. DOMAIN records' = DOMAIN records
  BY RejectEntryTypes
<1>6. Failed(rj) \subseteq history.failed \cup DOMAIN records
  BY <1>1, <1>3 DEF DpFloor
<1> HIDE DEF rj, eff
<1> QED BY <1>2, <1>3, <1>4, <1>5, <1>6 DEF DpFloor, Preparing

\* The verdict is saved: the floor rises to it.
LEMMA VerdictFloor ==
  ASSUME DpTypes, DpSteps, DpFloor, ConfirmState \/ RejectState
  PROVE  DpFloor'
<1>1. /\ pc \in {"confirm.state", "reject.state"} /\ SaveState(job.state)
      /\ pc' \in {"confirm.retain", "idle"} /\ UNCHANGED <<records, booted>>
      /\ job.state \in StateT /\ state \in StateT /\ history \in HistT
      /\ booted \in DOMAIN records /\ IsList(records)
  BY JobFields DEF ConfirmState, RejectState, DpTypes, DpSteps
<1>2. /\ history'.failed = history.failed \cup Failed(job.state)
      /\ history'.confirmedWith = history.confirmedWith /\ state' = job.state
  BY <1>1, SavedHistory DEF SaveState
<1>3. /\ job.state.highest >= state.highest
      /\ \A d \in DOMAIN records : job.state.highest >= Generation[d]
      /\ Failed(job.state) \subseteq history.failed \cup DOMAIN records
  BY <1>1 DEF DpFloor
<1>4. job.state.highest \in Nat /\ state.highest \in Nat
  BY <1>1 DEF StateT
<1>5. \A d \in Deployments : Generation[d] \in Nat
  BY NoneIsApart
<1>6. \A d \in Deployments : (d \in history'.failed \/ history'.confirmedWith[d] # None) =>
        Generation[d] <= state'.highest
  BY <1>2, <1>3, <1>4, <1>5 DEF DpFloor
<1>7. Generation[booted] <= state'.highest
  BY <1>1, <1>2, <1>3, <1>4, <1>5, ListFacts
<1> QED BY <1>1, <1>2, <1>6, <1>7 DEF DpFloor, Preparing

\* An installation is above it.
LEMMA InstallFloor ==
  ASSUME DpTypes, DpSteps, DpFloor, NEW d \in Deployments, NEW latest, NEW choice,
         Install(d, latest, choice)
  PROVE  DpFloor'
<1> DEFINE eff == EffectiveState(records, state)
<1>1. IsList(records) /\ state \in StateT
  BY DEF DpTypes
<1>2. eff \in StateT /\ eff.highest >= state.highest /\ eff.failed = state.failed
  BY <1>1, EffectiveFacts
<1>3. Generation[d] > eff.highest /\ eff.current = booted
  BY DEF Install, InstallOk
<1>4. /\ job' = [NoJob EXCEPT !.state = [eff EXCEPT !.fallback = None, !.candidate = None],
                              !.deployment = d, !.set = choice]
      /\ pc' \in {"install.again", "install.state"}
      /\ UNCHANGED <<state, history, booted>>
  BY DEF Install, AfterRetain
<1> HIDE DEF eff
<1>5. job'.state = [eff EXCEPT !.fallback = None, !.candidate = None] /\ job'.deployment = d
  BY <1>4 DEF NoJob
<1>6. job'.state.highest = eff.highest /\ job'.state.failed = state.failed /\ job'.state.current = booted
  BY <1>2, <1>3, <1>5 DEF StateT
<1>7. Failed(job'.state) = Failed(state)
  BY <1>6 DEF Failed
<1>8. eff.highest \in Nat /\ state.highest \in Nat /\ Generation[d] \in Nat
  BY <1>1, <1>2, NoneIsApart DEF StateT
<1>9. d \notin history.failed /\ history.confirmedWith[d] = None
  BY <1>2, <1>3, <1>8 DEF DpFloor
<1> QED BY <1>2, <1>3, <1>4, <1>5, <1>6, <1>7, <1>8, <1>9 DEF DpFloor, Preparing

\* The installation's steps keep what it holds.
LEMMA PreparedFloor ==
  ASSUME DpTypes, DpSteps, DpFloor,
         \/ InstallAgain \/ InstallState \/ InstallCollect \/ InstallForget \/ InstallObjects
         \/ InstallDescriptor \/ InstallComponents \/ InstallEnvelope \/ InstallSets \/ InstallEntry
  PROVE  DpFloor'
<1>1. CASE \/ InstallAgain \/ InstallCollect \/ InstallForget \/ InstallObjects
           \/ InstallDescriptor \/ InstallComponents \/ InstallEnvelope \/ InstallSets
  <2>1. SameHistory /\ state' = state
    BY <1>1, QuietHistory DEF QuietStep
  <2>2. pc \in Preparing /\ pc' \in Preparing /\ UNCHANGED <<job, booted>>
    BY <1>1 DEF InstallAgain, InstallCollect, InstallForget, InstallObjects, InstallDescriptor,
       InstallComponents, InstallEnvelope, InstallSets, PublishComponents, PublishEnvelope, Preparing
  <2> QED BY <2>1, <2>2 DEF DpFloor, SameHistory, Preparing
<1>2. CASE InstallEntry
  BY <1>2 DEF InstallEntry, DpTypes, HistT, DpFloor, Preparing
<1>3. CASE InstallState
  BY <1>3, JobFields, SavedHistory, NoneIsApart DEF InstallState, DpTypes, DpFloor, Preparing, SaveState,
     StateT
<1> QED BY <1>1, <1>2, <1>3

LEMMA InstallDoneFloor ==
  ASSUME DpTypes, DpSteps, DpFloor, InstallDone
  PROVE  DpFloor'
<1> DEFINE st == [job.state EXCEPT !.highest = Generation[job.deployment], !.candidate = job.deployment]
<1>1. /\ pc = "install.done" /\ pc' = "idle" /\ SaveState(st) /\ history \in HistT
      /\ job.state \in StateT /\ state \in StateT /\ job.deployment \in Deployments
  BY JobFields DEF InstallDone, DpTypes, DpSteps
<1>2. st.highest = Generation[job.deployment] /\ st.failed = job.state.failed
  BY <1>1 DEF StateT
<1>3. Failed(st) \subseteq history.failed
  BY <1>1, <1>2 DEF DpFloor, Failed
<1> HIDE DEF st
<1>4. /\ history'.failed = history.failed
      /\ history'.confirmedWith = history.confirmedWith /\ state' = st
  BY <1>1, <1>3, SavedHistory DEF SaveState
<1>5. job.state.highest \in Nat /\ state.highest \in Nat /\ \A d \in Deployments : Generation[d] \in Nat
  BY <1>1, NoneIsApart DEF StateT
<1>6. job.state.highest >= state.highest /\ job.state.highest < Generation[job.deployment]
  BY <1>1 DEF DpFloor
<1>7. \A d \in Deployments : (d \in history'.failed \/ history'.confirmedWith[d] # None) =>
        Generation[d] <= state'.highest
  BY <1>1, <1>2, <1>4, <1>5, <1>6 DEF DpFloor
<1> QED BY <1>1, <1>3, <1>4, <1>7 DEF DpFloor, Preparing

LEMMA SettleFloor ==
  ASSUME DpTypes, DpSteps, DpFloor, Settle
  PROVE  DpFloor'
  BY DEF Settle, DpTypes, HistT, DpFloor, Preparing

LEMMA FloorStep ==
  ASSUME DpTypes, DpSteps, DpFloor, [Next]_vars
  PROVE  DpFloor'
<1>1. CASE Confirm \/ ConfirmState \/ RejectState \/ Settle \/ InstallDone
  BY <1>1, ConfirmFloor, VerdictFloor, SettleFloor, InstallDoneFloor
<1>2. CASE Rollback \/ \E d \in Deployments : Reject(d)
  BY <1>2, RejectFloor DEF Rollback, Reject
<1>3. CASE ConfirmRetain \/ ConfirmAgain
  BY <1>3 DEF ConfirmRetain, ConfirmAgain, AfterRetain, DpFloor, Preparing
<1>4. CASE \E d \in Deployments, latest, choice \in Sets \cup {None} : Install(d, latest, choice)
  BY <1>4, InstallFloor
<1>5. CASE \/ InstallAgain \/ InstallState \/ InstallCollect \/ InstallForget \/ InstallObjects
           \/ InstallDescriptor \/ InstallComponents \/ InstallEnvelope \/ InstallSets \/ InstallEntry
  BY <1>5, PreparedFloor
<1>6. CASE UNCHANGED vars
  BY <1>6 DEF vars, durable, DpFloor
<1>7. CASE \/ Start \/ BootFails \/ Abort \/ Crash \/ SettleTrial \/ SettleComponents
           \/ (\E s \in Sets : SettleEnvelope(s)) \/ FailBoot
           \/ Gc \/ GcAgain \/ GcCollect \/ GcForget
           \/ (\E s \in Sets : InstallSet(s)) \/ SetEnvelope \/ SetPending
  <2>1. SameHistory /\ state' = state
    BY <1>7, QuietHistory DEF QuietStep
  <2>2. pc' \in {"off", "idle", "settle.release", "set.envelope", "set.trial", "gc.again", "gc.collect", "gc.forget"}
    <3>1. CASE \/ Start \/ BootFails \/ Abort \/ Crash \/ SettleTrial \/ SettleComponents
               \/ (\E s \in Sets : SettleEnvelope(s)) \/ FailBoot
      BY <3>1 DEF Start, BootFails, Abort, Crash, PowerOff, SettleTrial, SettleComponents, SettleEnvelope, FailBoot
    <3>2. CASE \/ Gc \/ GcAgain \/ GcCollect \/ GcForget
               \/ (\E s \in Sets : InstallSet(s)) \/ SetEnvelope \/ SetPending
      BY <3>2 DEF Gc, GcAgain, GcCollect, GcForget, AfterRetain, InstallSet, SetEnvelope, SetPending,
         PublishComponents, PublishEnvelope
    <3> QED BY <1>7, <3>1, <3>2
  <2>3. pc' \notin FloorPcs
    BY <2>2 DEF FloorPcs, Preparing
  <2> QED BY <2>1, <2>3, FloorIdle DEF SameHistory
<1>8. CASE Load \/ (\E spends \in BOOLEAN : Compose(spends)) \/ SetTrial \/ Decay
  BY <1>8, FloorIdle DEF Load, Compose, SetTrial, Decay, DpTypes, HistT, FloorPcs, Preparing
<1> QED BY <1>1, <1>2, <1>3, <1>4, <1>5, <1>6, <1>7, <1>8, NextIs DEF QuietStep

LEMMA InitFloor == Init => DpFloor
BY NoStateType DEF Init, DpFloor, NoHistory, Preparing

-----------------------------------------------------------------------------
\* What DATA has as current, whatever becomes of the copies of the records.

Currents == {"confirm.retain", "confirm.again", "reject.state"} \cup (Preparing \ {"install.again", "install.state"})

LEMMA TwoEntries ==
  ASSUME NEW f, IsList(f), NEW x \in DOMAIN f, NEW y \in DOMAIN f, NEW z \in DOMAIN f, x # y, x # z
  PROVE  y = z
BY DEF IsList

\* What the loader loads.
LEMMA LoadIs ==
  ASSUME DpTypes, Load
  PROVE  /\ booted' \in DOMAIN records /\ Usable(records, booted') /\ booted' \in Deployments
         /\ \A e \in DOMAIN records : Usable(records, e) => Generation[booted'] >= Generation[e]
         /\ DOMAIN records' = DOMAIN records
         /\ \A d \in DOMAIN records : d # booted' => records'[d] = records[d]
         /\ records[booted'] = None => records' = records /\ history' = history
         /\ records[booted'] # None =>
              /\ records'[booted'] = records[booted'] - 1 /\ records[booted'] \in 1..Attempts
              /\ history' = [history EXCEPT !.launches[booted'] = Counted(history.launches[booted'], Attempts)]
<1> DEFINE usable == {d \in DOMAIN records : Usable(records, d)}
           n == Newest(usable)
<1>1. IsList(records) /\ usable # {}
  BY DEF Load, DpTypes
<1>2. n \in usable /\ n \in Deployments /\ \A e \in usable : Generation[n] >= Generation[e]
  BY <1>1, NewestIs
<1> HIDE DEF n
<1>3. /\ booted' = n
      /\ IF records[n] = None THEN UNCHANGED <<records, stale, history>>
         ELSE /\ records' = [records EXCEPT ![n] = records[n] - 1]
              /\ history' = [history EXCEPT !.launches[n] = Counted(history.launches[n], Attempts)]
  BY DEF Load, n, SaveRecords
<1>4. records[n] \in Tries /\ records[n] # 0
  BY <1>1, <1>2, ListFacts DEF Usable
<1>5. records[n] # None => records[n] \in 1..Attempts
  BY <1>4, NoneIsApart DEF Tries
<1> QED BY <1>2, <1>3, <1>5

\* An entry spent because another has a boot left: there are two.
LEMMA SpentIsOfTwo ==
  ASSUME DpTypes, DpCurrent, NEW e, e \in DOMAIN records, OtherUsable(records, e)
  PROVE  state.current \in DOMAIN records
BY DEF DpCurrent, Sole, OtherUsable

\* A step that spends or confirms an entry, or writes neither records nor state.
LEMMA CurrentKept ==
  ASSUME DpCurrent, state' = state, DOMAIN records' = DOMAIN records,
         Sole(records) => records' = records \/ state.current \in DOMAIN records, pc' \notin Currents
  PROVE  DpCurrent'
BY DEF DpCurrent, Currents, Sole

LEMMA CurrentSaved ==
  ASSUME DpTypes, DpSteps, DpFloor, DpCurrent, ConfirmState \/ RejectState \/ InstallState \/ InstallDone
  PROVE  DpCurrent'
  BY JobFields DEF ConfirmState, SaveState, DpSteps, Confirming, DpCurrent, Preparing, RejectState,
     InstallState, DpFloor, InstallDone, DpTypes, StateT

LEMMA CurrentVerdicts ==
  ASSUME DpTypes, DpSteps, DpCurrent,
         \/ Load \/ BootFails \/ FailBoot \/ Confirm \/ Rollback \/ (\E d \in Deployments : Reject(d))
  PROVE  DpCurrent'
<1>0. IsList(records) /\ records \in [DOMAIN records -> Tries] /\ state \in StateT /\ Bounded(state)
  BY ListFacts DEF DpTypes
<1>1. CASE Load
  BY <1>1, LoadIs, CurrentKept DEF Load, Currents, Preparing, Sole
<1>2. CASE BootFails \/ FailBoot
  BY <1>2, SpentIsOfTwo, CurrentKept DEF BootFails, FailBoot, PowerOff, Currents, Preparing, SaveRecords,
     Retires
<1>3. CASE Confirm
  BY <1>3, <1>0, CurrentKept DEF Confirm, SaveRecords, ConfirmOk, Sole, Currents, Preparing
<1>4. CASE Rollback \/ (\E d \in Deployments : Reject(d))
  <2>1. PICK d : RejectEntry(d)
    BY <1>4 DEF Rollback, Reject
  <2>2. d \in DOMAIN records /\ OtherUsable(records, d)
    BY <2>1 DEF RejectEntry, RejectOk
  <2>3. state.current \in DOMAIN records
    BY <2>2, SpentIsOfTwo
  <2>4. /\ pc' = "reject.state" /\ state' = state /\ job'.state = RejectedState(records, state, d)
        /\ DOMAIN records' = DOMAIN records
    BY <2>1 DEF RejectEntry, NoJob, SaveRecords
  <2>5. PICK rs, st : rs = records /\ st = state
    OBVIOUS
  <2>6. RejectedState(rs, st, d).current = EffectiveState(rs, st).current
    BY <1>0, <2>2, <2>5, RejectedFacts
  <2>7. EffectiveState(rs, st).current \in DOMAIN rs \cup {st.current}
    BY <1>0, <2>5, EffectiveFacts
  <2> QED BY <2>3, <2>4, <2>5, <2>6, <2>7 DEF DpCurrent, Preparing
<1> QED BY <1>1, <1>2, <1>3, <1>4

LEMMA CurrentEntries ==
  ASSUME DpTypes, DpSteps, DpCurrent,
         \/ ConfirmRetain \/ InstallEntry
         \/ (\E d \in Deployments, latest, choice \in Sets \cup {None} : Install(d, latest, choice))
  PROVE  DpCurrent'
<1>1. CASE ConfirmRetain
  <2> DEFINE keep == DOMAIN records \cap Retained(job.state)
  <2>1. /\ pc = "confirm.retain" /\ pc' \in {"confirm.again", "settle"} /\ UNCHANGED <<state, booted>>
        /\ records' = Restrict(records, keep)
    BY <1>1 DEF ConfirmRetain, AfterRetain, SaveRecords
  <2>2. booted \in DOMAIN Restrict(records, keep)
    BY <2>1, RetainedList DEF Confirming
  <2> QED BY <2>1, <2>2 DEF DpCurrent, Preparing
<1>2. CASE InstallEntry
  BY <1>2, InstallEntryTypes DEF InstallEntry, DpCurrent, Preparing
<1>3. CASE \E d \in Deployments, latest, choice \in Sets \cup {None} : Install(d, latest, choice)
  <2>1. PICK d \in Deployments, latest, choice \in Sets \cup {None} : Install(d, latest, choice)
    BY <1>3
  <2>2. /\ booted \in DOMAIN records /\ records[booted] = None
        /\ booted \notin Failed(EffectiveState(records, state))
        /\ records' = Restrict(records, {booted}) /\ state' = state
        /\ pc' \in {"install.again", "install.state"}
    BY <2>1 DEF Install, InstallOk, SaveRecords, AfterRetain
  <2>3. EffectiveState(records, state).failed = state.failed
    BY EffectiveFacts DEF DpTypes
  <2>4. DOMAIN records' = {booted} /\ records'[booted] = None /\ booted \in Deployments
    BY ListFacts, <2>2 DEF DpTypes, Restrict
  <2>5. Sole(records)'
    BY <2>2, <2>3, <2>4 DEF Sole, Failed
  <2> QED BY <2>2, <2>5 DEF DpCurrent, Preparing
<1> QED BY <1>1, <1>2, <1>3

LEMMA CurrentStep ==
  ASSUME DpTypes, DpSteps, DpFloor, DpCurrent, [Next]_vars, ~Decay
  PROVE  DpCurrent'
<1>1. CASE ConfirmState \/ RejectState \/ InstallState \/ InstallDone
  BY <1>1, CurrentSaved
<1>2. CASE \/ Load \/ BootFails \/ FailBoot \/ Confirm \/ Rollback \/ (\E d \in Deployments : Reject(d))
  BY <1>2, CurrentVerdicts
<1>3. CASE \/ ConfirmRetain \/ InstallEntry
           \/ (\E d \in Deployments, latest, choice \in Sets \cup {None} : Install(d, latest, choice))
  BY <1>3, CurrentEntries
<1>4. CASE \/ InstallAgain \/ InstallCollect \/ InstallForget \/ InstallObjects \/ InstallDescriptor
           \/ InstallComponents \/ InstallEnvelope \/ InstallSets
  <2>1. /\ UNCHANGED <<records, state, booted, job>> /\ pc \in Preparing
        /\ pc' \in Preparing \/ pc' = "install.state"
        /\ pc \in {"install.again", "install.state"} => pc' = "install.state"
    BY <1>4 DEF InstallAgain, InstallCollect, InstallForget, InstallObjects, InstallDescriptor,
       InstallComponents, InstallEnvelope, InstallSets, PublishComponents, PublishEnvelope, SaveRecords, Preparing
  <2> QED BY <2>1 DEF DpCurrent, Preparing, Sole
<1>5. CASE \/ (\E spends \in BOOLEAN : Compose(spends)) \/ Start \/ ConfirmAgain \/ Settle \/ SettleTrial
           \/ SettleComponents \/ (\E s \in Sets : SettleEnvelope(s)) \/ Abort \/ Crash
  <2>1. UNCHANGED <<records, state>> /\ pc' \notin Currents
    BY <1>5 DEF Compose, Start, ConfirmAgain, Settle, SettleTrial, SettleComponents, SettleEnvelope, Abort, Crash,
       PowerOff, SaveRecords, durable, Currents, Preparing
  <2> QED BY <2>1, CurrentKept
<1>6. CASE SetSteps \/ Gc \/ GcAgain \/ GcCollect \/ GcForget
  <2>1. UNCHANGED <<records, state>> /\ pc' \notin Currents
    BY <1>6 DEF SetSteps, InstallSet, SetEnvelope, SetTrial, SetPending, PublishComponents, PublishEnvelope,
       Gc, GcAgain, GcCollect, GcForget, AfterRetain, SaveRecords, Currents, Preparing
  <2> QED BY <2>1, CurrentKept
<1>7. CASE UNCHANGED vars
  BY <1>7 DEF vars, durable, DpCurrent, Sole
<1> QED BY <1>1, <1>2, <1>3, <1>4, <1>5, <1>6, <1>7
        DEF Next, BootSteps, ConfirmSteps, InstallSteps, OperatorSteps

LEMMA InitCurrent == Init => DpCurrent
  BY NoStateType, DeviceAssumption DEF Init, Sole, DpCurrent, Preparing

-----------------------------------------------------------------------------
\* What the records and DATA say of each other.

DataPcs == {"confirm.state", "confirm.retain", "confirm.again", "reject.state", "install.done"} \cup Preparing

\* A step that writes neither and holds no verdict.
LEMMA DataIdle ==
  ASSUME DpTypes, DpData, UNCHANGED <<records, state>>, history'.failed = history.failed,
         booted' \in {booted, None}, pc' \notin DataPcs
  PROVE  DpData'
  BY NoneIsApart DEF DpTypes, HistT, DpData, DataPcs, Spent

LEMMA RetireData ==
  ASSUME DpTypes, DpSteps, DpData, FailBoot \/ BootFails
  PROVE  DpData'
  BY DataIdle, NoneIsApart DEF FailBoot, BootFails, PowerOff, DataPcs, Preparing, SaveRecords, Retires,
     DpData, Spent, DpTypes, HistT

LEMMA LoadData ==
  ASSUME DpTypes, DpSteps, DpData, Load
  PROVE  DpData'
<1> DEFINE usable == {d \in DOMAIN records : Usable(records, d)}
           n == Newest(usable)
<1>1. IsList(records) /\ usable # {}
  BY DEF Load, DpTypes
<1>2. n \in usable /\ n \in DOMAIN records /\ records[n] # 0
  BY <1>1, NewestIs DEF Usable
<1> HIDE DEF n
<1>3. /\ state' = state /\ booted' = n /\ pc' = "init" /\ history'.failed = history.failed
  BY DEF Load, n, DpTypes, HistT
<1>4. n \notin history.failed
  BY <1>2 DEF DpData, Spent
<1>5. CASE records[n] = None
  BY <1>5, <1>3, <1>4 DEF Load, n, DpData, Preparing, Spent
<1>6. CASE records[n] # None
  BY <1>6, <1>3, <1>4 DEF Load, n, SaveRecords, DpData, Preparing, Spent
<1> QED BY <1>5, <1>6

LEMMA ConfirmData ==
  ASSUME DpTypes, DpSteps, DpFloor, DpData, Confirm
  PROVE  DpData'
<1> DEFINE cs == ConfirmedState(records, state, booted)
           spent == {d \in DOMAIN records \ {booted} : records[d] = 0 /\ d \notin Failed(state)}
<1>1. IsList(records) /\ booted \in DOMAIN records /\ state \in StateT /\ Bounded(state)
      /\ booted \notin Failed(cs)
  BY DEF Confirm, ConfirmOk, DpTypes
<1>2. Failed(cs) \subseteq Failed(state) \cup spent /\ (spent = {} => cs.failed = state.failed)
  BY <1>1, ConfirmedFacts
<1>3. /\ job'.state = cs /\ pc' = "confirm.state"
      /\ UNCHANGED <<state, history, booted>>
  BY DEF Confirm, NoJob
<1>4. /\ DOMAIN records' = DOMAIN records /\ records'[booted] = None
      /\ \A d \in DOMAIN records : d # booted => records'[d] = records[d]
  BY <1>1, ListFacts DEF Confirm, SaveRecords
<1> HIDE DEF cs
<1>5. booted \notin history.failed
  BY <1>1, TwoEntries, <1>2 DEF DpData, OtherUsable, Usable, Failed
<1>6. \A d \in Failed(cs) : d \in DOMAIN records => records'[d] = 0
  BY <1>1, <1>2, <1>4 DEF DpData, DpFloor, Spent
<1>7. \A d \in history.failed : d \in DOMAIN records => records'[d] = 0
  BY <1>4, <1>5 DEF DpData, Spent
<1> QED BY <1>3, <1>4, <1>5, <1>6, <1>7 DEF DpData, Preparing, Spent

LEMMA ConfirmStateData ==
  ASSUME DpTypes, DpSteps, DpFloor, DpData, ConfirmState
  PROVE  DpData'
  BY SavedHistory, NoneIsApart DEF ConfirmState, DpTypes, DpSteps, Confirming, SaveState, DpData, Spent,
     Preparing

LEMMA ConfirmRetainData ==
  ASSUME DpTypes, DpSteps, DpFloor, DpData, ConfirmRetain \/ ConfirmAgain
  PROVE  DpData'
<1>1. /\ pc \in Confirming /\ pc' \in {"confirm.again", "settle"} /\ pc # "confirm.state"
      /\ UNCHANGED <<state, booted, history>>
      /\ booted \in DOMAIN records /\ records[booted] = None
  BY DEF ConfirmRetain, ConfirmAgain, AfterRetain, DpSteps, Confirming
<1>2. /\ DOMAIN records' \subseteq DOMAIN records /\ booted \in DOMAIN records'
      /\ \A d \in DOMAIN records' : records'[d] = records[d]
  <2>1. CASE ConfirmAgain
    BY <1>1, <2>1 DEF ConfirmAgain, SaveRecords
  <2>2. CASE ConfirmRetain
    <3> DEFINE keep == DOMAIN records \cap Retained(job.state)
    <3>1. /\ booted \in keep /\ DOMAIN Restrict(records, keep) = keep
          /\ \A x \in keep : Restrict(records, keep)[x] = records[x]
      BY <1>1, RetainedList
    <3>2. records' = Restrict(records, keep)
      BY <2>2 DEF ConfirmRetain, SaveRecords
    <3> QED BY <3>1, <3>2
  <2> QED BY <2>1, <2>2
<1>4. booted \notin history.failed
  BY <1>1, NoneIsApart DEF DpData, Spent
<1> QED BY <1>1, <1>2, <1>4 DEF DpData, Preparing, Spent

LEMMA RejectData ==
  ASSUME DpTypes, DpSteps, DpFloor, DpData, pc = "idle", NEW e, RejectEntry(e)
  PROVE  DpData'
<1> DEFINE rj == RejectedState(records, state, e)
<1>1. IsList(records) /\ e \in DOMAIN records /\ state \in StateT /\ Bounded(state)
      /\ OtherUsable(records, e) /\ booted \in DOMAIN records
  BY DEF RejectEntry, RejectOk, DpTypes, DpSteps
<1>2. e \in Failed(rj) /\ Failed(rj) \subseteq Failed(state) \cup {e}
  BY <1>1, RejectedFacts
<1>4. /\ job'.state = rj /\ pc' = "reject.state"
      /\ UNCHANGED <<state, history, booted>>
  BY DEF RejectEntry, NoJob
<1>5. DOMAIN records' = DOMAIN records /\ records' = [records EXCEPT ![e] = 0]
  BY RejectEntryTypes
<1>6. records'[e] = 0 /\ \A d \in DOMAIN records : d # e => records'[d] = records[d]
  BY <1>1, <1>5
<1>8. OtherUsable(records', e)
  BY <1>1, <1>5, <1>6 DEF OtherUsable, Usable
<1>9. booted \in history.failed => booted = e
  BY <1>1, TwoEntries DEF DpData, Spent, OtherUsable, Usable
<1> HIDE DEF rj
<1>10. Failed(state) \subseteq history.failed
  BY DEF DpFloor
<1>11. \A d \in Failed(rj) \cup history.failed : d \in DOMAIN records => records'[d] = 0
  BY <1>2, <1>6, <1>10 DEF DpData, Spent
<1>12. booted \in history.failed \cup Failed(rj) => booted = e
  BY <1>2, <1>9, <1>10
<1>13. booted \in history.failed => booted \in Failed(state)
  BY DEF DpData
<1> QED BY <1>2, <1>4, <1>5, <1>8, <1>11, <1>12, <1>13 DEF DpData, Preparing, Spent

LEMMA RejectStateData ==
  ASSUME DpTypes, DpSteps, DpFloor, DpData, RejectState
  PROVE  DpData'
  BY SavedHistory DEF RejectState, DpTypes, SaveState, DpData, Preparing, Spent

LEMMA InstallData ==
  ASSUME DpTypes, DpSteps, DpFloor, DpData, NEW d \in Deployments, NEW latest, NEW choice,
         Install(d, latest, choice)
  PROVE  DpData'
  BY EffectiveFacts, ListFacts, NoneIsApart DEF Install, InstallOk, SaveRecords, AfterRetain, DpTypes,
     Failed, Restrict, DpData, Spent, Preparing

LEMMA PreparedData ==
  ASSUME DpTypes, DpSteps, DpFloor, DpData,
         \/ InstallAgain \/ InstallState \/ InstallCollect \/ InstallForget \/ InstallObjects
         \/ InstallDescriptor \/ InstallComponents \/ InstallEnvelope \/ InstallSets
  PROVE  DpData'
<1>1. CASE InstallState
  BY <1>1, SavedHistory DEF InstallState, DpTypes, DpSteps, DpFloor, Preparing, SaveState, DpData, Spent
<1>2. CASE InstallAgain
  BY <1>2 DEF InstallAgain, SaveRecords, DpData, Preparing, Spent
<1>3. CASE \/ InstallCollect \/ InstallForget \/ InstallObjects
           \/ InstallDescriptor \/ InstallComponents \/ InstallEnvelope \/ InstallSets
  BY <1>3 DEF InstallCollect, InstallForget, InstallObjects, InstallDescriptor, InstallComponents,
     InstallEnvelope, InstallSets, PublishComponents, PublishEnvelope, Preparing, DpData, Spent
<1> QED BY <1>1, <1>2, <1>3

LEMMA InstallEntryData ==
  ASSUME DpTypes, DpSteps, DpFloor, DpData, InstallEntry
  PROVE  DpData'
  BY InstallEntryTypes DEF InstallEntry, DpTypes, HistT, DpFloor, DpData, Preparing, Spent

LEMMA InstallDoneData ==
  ASSUME DpTypes, DpSteps, DpFloor, DpData, InstallDone
  PROVE  DpData'
<1> DEFINE st == [job.state EXCEPT !.highest = Generation[job.deployment], !.candidate = job.deployment]
<1>1. /\ pc = "install.done" /\ pc' = "idle" /\ SaveState(st) /\ history \in HistT
      /\ job.state \in StateT /\ UNCHANGED <<records, booted>> /\ booted \in DOMAIN records
  BY JobFields DEF InstallDone, DpTypes, DpSteps
<1>2. st.current = job.state.current /\ st.failed = job.state.failed
  BY <1>1 DEF StateT
<1>3. Failed(st) \subseteq history.failed /\ st.current = booted
  BY <1>1, <1>2 DEF DpFloor, Failed
<1> HIDE DEF st
<1>4. history'.failed = history.failed /\ state' = st
  BY <1>1, <1>3, SavedHistory DEF SaveState
<1>5. booted \notin history.failed
  BY <1>1 DEF DpData
<1> QED BY <1>1, <1>3, <1>4, <1>5 DEF DpData, Preparing, Spent

LEMMA DataStep ==
  ASSUME DpTypes, DpSteps, DpFloor, DpData, [Next]_vars, ~Decay
  PROVE  DpData'
<1>1. CASE Confirm \/ ConfirmState \/ ConfirmRetain \/ ConfirmAgain
  BY <1>1, ConfirmData, ConfirmStateData, ConfirmRetainData
<1>2. CASE Rollback \/ \E d \in Deployments : Reject(d)
  BY <1>2, RejectData DEF Rollback, Reject
<1>3. CASE RejectState \/ InstallEntry \/ InstallDone \/ Load \/ FailBoot \/ BootFails
  BY <1>3, RejectStateData, InstallEntryData, InstallDoneData, LoadData, RetireData
<1>4. CASE \E d \in Deployments, latest, choice \in Sets \cup {None} : Install(d, latest, choice)
  BY <1>4, InstallData
<1>5. CASE \/ InstallAgain \/ InstallState \/ InstallCollect \/ InstallForget \/ InstallObjects
           \/ InstallDescriptor \/ InstallComponents \/ InstallEnvelope \/ InstallSets
  BY <1>5, PreparedData
<1>6. CASE UNCHANGED vars
  BY <1>6 DEF vars, durable, DpData, Spent
<1>7. CASE \/ Start \/ Abort \/ Crash \/ SettleTrial \/ SettleComponents
           \/ (\E s \in Sets : SettleEnvelope(s))
           \/ Gc \/ GcAgain \/ GcCollect \/ GcForget
           \/ (\E s \in Sets : InstallSet(s)) \/ SetEnvelope \/ SetPending
  <2>1. SameHistory /\ state' = state
    BY <1>7, QuietHistory DEF QuietStep
  <2>2. /\ pc' \in {"off", "idle", "settle.release", "set.envelope", "set.trial", "gc.again", "gc.collect", "gc.forget"}
        /\ booted' \in {booted, None} /\ records' = records
    <3>1. CASE \/ Start \/ Abort \/ Crash \/ SettleTrial \/ SettleComponents
               \/ (\E s \in Sets : SettleEnvelope(s))
      BY <3>1 DEF Start, Abort, Crash, PowerOff, SettleTrial, SettleComponents, SettleEnvelope, durable
    <3>2. CASE \/ Gc \/ GcAgain \/ GcCollect \/ GcForget
               \/ (\E s \in Sets : InstallSet(s)) \/ SetEnvelope \/ SetPending
      BY <3>2 DEF Gc, GcAgain, GcCollect, GcForget, AfterRetain, InstallSet, SetEnvelope, SetPending,
         PublishComponents, PublishEnvelope, SaveRecords
    <3> QED BY <1>7, <3>1, <3>2
  <2>3. pc' \notin DataPcs
    BY <2>2 DEF DataPcs, Preparing
  <2> QED BY <2>1, <2>2, <2>3, DataIdle DEF SameHistory
<1>8. CASE (\E spends \in BOOLEAN : Compose(spends)) \/ SetTrial \/ Settle
  BY <1>8, DataIdle DEF Compose, SetTrial, Settle, DpTypes, HistT, DataPcs, Preparing
<1> QED BY <1>1, <1>2, <1>3, <1>4, <1>5, <1>6, <1>7, <1>8, NextIs DEF QuietStep

LEMMA InitData == Init => DpData
  BY NoStateType DEF Init, DpData, NoHistory, Preparing, Spent

-----------------------------------------------------------------------------
\* What a step makes of the entries.

\* Every step but a launch, a new entry and the loss of a copy keeps each entry, drops it,
\* confirms it or spends it; only the booted one is confirmed.
LEMMA EntriesStep ==
  ASSUME DpTypes, DpSteps, [Next]_vars, ~Load, ~InstallEntry, ~Decay
  PROVE  /\ DOMAIN records' \subseteq DOMAIN records
         /\ \A d \in DOMAIN records' : \/ records'[d] \in {records[d], 0}
                                       \/ records'[d] = None /\ d = booted
<1> DEFINE Kept2 == /\ DOMAIN records' \subseteq DOMAIN records
                    /\ \A d \in DOMAIN records' : \/ records'[d] \in {records[d], 0}
                                                  \/ records'[d] = None /\ d = booted
<1>0. IsList(records) /\ records \in [DOMAIN records -> Tries]
  BY ListFacts DEF DpTypes
<1>1. CASE records' = records
  BY <1>1
<1>2. CASE BootFails \/ FailBoot
  BY <1>0, <1>2 DEF BootFails, FailBoot, SaveRecords
<1>3. CASE Confirm
  BY <1>0, <1>3 DEF Confirm, SaveRecords
<1>4. CASE ConfirmRetain
  BY <1>4 DEF ConfirmRetain, SaveRecords, Restrict
<1>5. CASE Rollback \/ \E d \in Deployments : Reject(d)
  BY <1>0, <1>5 DEF Rollback, Reject, RejectEntry, SaveRecords
<1>6. CASE \E d \in Deployments, latest, choice \in Sets \cup {None} : Install(d, latest, choice)
  BY <1>6 DEF Install, InstallOk, SaveRecords, Restrict
<1>7. CASE Abort \/ Crash \/ Start \/ ConfirmState \/ ConfirmAgain \/ Settle \/ SettleTrial
            \/ SettleComponents \/ (\E s \in Sets : SettleEnvelope(s))
            \/ (\E spends \in BOOLEAN : Compose(spends))
  BY <1>1, <1>7 DEF Abort, Crash, Start, ConfirmState, ConfirmAgain, Settle, SettleTrial,
     SettleComponents, SettleEnvelope, Compose, SaveRecords, durable
<1>8. CASE InstallAgain \/ InstallState \/ InstallCollect \/ InstallForget \/ InstallObjects
            \/ InstallDescriptor \/ InstallComponents \/ InstallEnvelope \/ InstallSets \/ InstallDone
  BY <1>1, <1>8 DEF InstallAgain, InstallState, InstallCollect, InstallForget, InstallObjects,
     InstallDescriptor, InstallComponents, InstallEnvelope, InstallSets, InstallDone,
     PublishComponents, PublishEnvelope, SaveRecords
<1>9. CASE RejectState \/ Gc \/ GcAgain \/ GcCollect \/ GcForget \/ SetSteps
  BY <1>1, <1>9 DEF RejectState, Gc, GcAgain, GcCollect, GcForget, SetSteps, InstallSet, SetEnvelope,
     SetTrial, SetPending, PublishComponents, PublishEnvelope, SaveRecords
<1>10. CASE UNCHANGED vars
  BY <1>1, <1>10 DEF vars, durable
<1> QED BY <1>2, <1>3, <1>4, <1>5, <1>6, <1>7, <1>8, <1>9, <1>10
        DEF Next, BootSteps, ConfirmSteps, InstallSteps, SetSteps, OperatorSteps

\* Who runs changes with the power alone.
LEMMA BootedStep ==
  ASSUME [Next]_vars, ~Load
  PROVE  booted' \in {booted, None}
<1>1. CASE BootSteps \/ ConfirmSteps
  BY <1>1 DEF BootSteps, Compose, Start, BootFails, PowerOff, ConfirmSteps, Confirm, ConfirmState,
     ConfirmRetain, ConfirmAgain, Settle, SettleTrial, SettleComponents, SettleEnvelope
<1>2. CASE InstallSteps \/ SetSteps
  BY <1>2 DEF InstallSteps, Install, InstallAgain, InstallState, InstallCollect, InstallForget, InstallObjects,
     InstallDescriptor, InstallComponents, InstallEnvelope, InstallSets, InstallEntry, InstallDone,
     PublishComponents, PublishEnvelope, SetSteps, InstallSet, SetEnvelope, SetTrial, SetPending
<1>3. CASE OperatorSteps
  BY <1>3 DEF OperatorSteps, FailBoot, Rollback, Reject, RejectEntry, RejectState, Gc, GcAgain, GcCollect, GcForget
<1>4. CASE Abort \/ Crash \/ Decay \/ UNCHANGED vars
  BY <1>4 DEF Abort, Crash, PowerOff, Decay, vars
<1> QED BY <1>1, <1>2, <1>3, <1>4 DEF Next

LEMMA LiveStep ==
  ASSUME DpTypes, DpSteps, [Next]_vars, ~InstallEntry, ~Decay
  PROVE  Live' \subseteq Live
  BY NoneIsApart, LoadIs, BootedStep, EntriesStep, DpInvStep, ListFacts DEF DpTypes, Live, Usable, DpInv

LEMMA LiveIs ==
  ASSUME DpTypes, DpSteps
  PROVE  /\ Live \subseteq Deployments /\ Live \subseteq DOMAIN records
         /\ pc \in Preparing => Live = {booted}
  BY ListFacts, NoneIsApart DEF DpTypes, DpSteps, Live, Usable, Preparing

LEMMA InstallEntryLive ==
  ASSUME DpTypes, DpSteps, InstallEntry
  PROVE  Live' \subseteq {booted, job.deployment} /\ booted \in Live /\ booted' = booted
  BY InstallEntryTypes, NoneIsApart DEF DpSteps, Live, InstallEntry, Preparing, Usable

\* Attempts.
LEMMA LaunchesStep ==
  ASSUME DpTypes, DpSteps, DpLaunches, [Next]_vars, ~Decay
  PROVE  DpLaunches'
<1>0. /\ history \in HistT /\ IsList(records) /\ DOMAIN records \in SUBSET Deployments /\ Attempts \in Nat
      /\ \A d \in Deployments : history.launches[d] \in Nat
  BY ListFacts, NoneIsApart DEF DpTypes, HistT
<1>1. CASE Load
  BY <1>1, LoadIs, <1>0 DEF DpLaunches, HistT, Counted
<1>2. CASE InstallEntry
  BY <1>2, InstallEntryTypes, <1>0 DEF InstallEntry, DpSteps, Preparing, HistT, DpLaunches
<1>3. CASE ~Load /\ ~InstallEntry
  <2>1. history'.launches = history.launches
    BY QuietHistory, <1>0, SavedHistory, <1>3, NextIs DEF SameHistory, ConfirmState, RejectState,
       InstallState, InstallDone, Compose, Settle, SetTrial, HistT
  <2>2. /\ DOMAIN records' \subseteq DOMAIN records
        /\ \A d \in DOMAIN records' : \/ records'[d] \in {records[d], 0}
                                      \/ records'[d] = None /\ d = booted
    BY <1>3, EntriesStep
  <2> QED BY <1>0, <2>1, <2>2 DEF DpLaunches
<1> QED BY <1>1, <1>2, <1>3

LEMMA InitLaunches == Init => DpLaunches
BY NoneIsApart DEF Init, DpLaunches, NoHistory

-----------------------------------------------------------------------------
\* What may boot or is running is on SYSTEM.

Storing == {"gc.again", "gc.collect", "gc.forget", "install.descriptor", "install.components",
            "install.envelope", "install.sets", "install.entry"}

LEMMA StoredIdle ==
  ASSUME DpStored, Live' \subseteq Live, DOMAIN records' \subseteq DOMAIN records,
         descriptors \subseteq descriptors', objects \subseteq objects', pc' \notin Storing
  PROVE  DpStored'
BY DEF DpStored, Stored, Storing

\* The steps that touch neither descriptors nor objects nor prepare to.
LEMMA StoredIdleIs ==
  ASSUME \/ Load \/ (\E spends \in BOOLEAN : Compose(spends)) \/ Start \/ BootFails \/ ConfirmSteps
         \/ (\E d \in Deployments, latest, choice \in Sets \cup {None} : Install(d, latest, choice))
         \/ InstallAgain \/ InstallState \/ InstallDone \/ SetSteps
         \/ FailBoot \/ Rollback \/ RejectState \/ (\E d \in Deployments : Reject(d))
         \/ Abort \/ Crash
  PROVE  UNCHANGED <<descriptors, objects>> /\ pc' \notin Storing
<1>1. CASE Load \/ (\E spends \in BOOLEAN : Compose(spends)) \/ Start \/ BootFails \/ Abort \/ Crash
  BY <1>1 DEF Load, Compose, Start, BootFails, PowerOff, Abort, Crash, durable, onSystem, Storing
<1>2. CASE ConfirmSteps
  BY <1>2 DEF ConfirmSteps, Confirm, ConfirmState, ConfirmRetain, ConfirmAgain, AfterRetain, Settle, SettleTrial,
     SettleComponents, SettleEnvelope, onSystem, Storing
<1>3. CASE SetSteps
  BY <1>3 DEF SetSteps, InstallSet, SetEnvelope, SetTrial, SetPending, PublishComponents, PublishEnvelope,
     onSystem, Storing
<1>4. CASE \/ (\E d \in Deployments, latest, choice \in Sets \cup {None} : Install(d, latest, choice))
           \/ InstallAgain \/ InstallState \/ InstallDone
  BY <1>4 DEF Install, InstallAgain, InstallState, InstallDone, AfterRetain, onSystem, Storing
<1>5. CASE FailBoot \/ Rollback \/ RejectState \/ (\E d \in Deployments : Reject(d))
  BY <1>5 DEF FailBoot, Rollback, RejectState, Reject, RejectEntry, onSystem, Storing
<1> QED BY <1>1, <1>2, <1>3, <1>4, <1>5

\* A collection spares what the new entry's installation and what runs needs.
LEMMA InstallStored ==
  ASSUME DpTypes, DpSteps, DpStored, Live' \subseteq Live, DOMAIN records' \subseteq DOMAIN records,
         \/ InstallCollect \/ InstallForget \/ InstallObjects \/ InstallDescriptor
         \/ InstallComponents \/ InstallEnvelope \/ InstallSets
  PROVE  DpStored'
<1>1. CASE InstallCollect \/ InstallForget
  BY <1>1, LiveIs DEF InstallCollect, InstallForget, DpSteps, Preparing, Storing, DpStored, Stored
<1>2. CASE InstallObjects
  BY <1>2 DEF InstallObjects, DpStored, Stored
<1>3. CASE InstallDescriptor
  BY <1>3 DEF InstallDescriptor, DpStored, Stored
<1>4. CASE InstallComponents \/ InstallEnvelope \/ InstallSets
  BY <1>4 DEF InstallComponents, InstallEnvelope, InstallSets, PublishComponents, PublishEnvelope, onSystem,
     DpStored, Stored
<1> QED BY <1>1, <1>2, <1>3, <1>4

LEMMA GcStored ==
  ASSUME DpTypes, DpSteps, DpStored, Live' \subseteq Live, Gc \/ GcAgain \/ GcCollect \/ GcForget
  PROVE  DpStored'
  BY LiveIs DEF Gc, GcAgain, GcCollect, GcForget, SaveRecords, NoJob, AfterRetain, onSystem, Kept, DpStored,
     Stored

LEMMA StoredStep ==
  ASSUME DpTypes, DpSteps, DpStored, [Next]_vars, ~Decay
  PROVE  DpStored'
<1>1. CASE InstallEntry
  BY <1>1, InstallEntryLive, InstallEntryTypes DEF InstallEntry, onSystem, DpStored, Stored
<1>2. CASE ~InstallEntry
  <2>0. Live' \subseteq Live /\ DOMAIN records' \subseteq DOMAIN records
    BY <1>2, LiveStep, EntriesStep, LoadIs
  <2>1. CASE \/ Load \/ (\E spends \in BOOLEAN : Compose(spends)) \/ Start \/ BootFails \/ ConfirmSteps
             \/ (\E d \in Deployments, latest, choice \in Sets \cup {None} : Install(d, latest, choice))
             \/ InstallAgain \/ InstallState \/ InstallDone \/ SetSteps
             \/ FailBoot \/ Rollback \/ RejectState \/ (\E d \in Deployments : Reject(d))
             \/ Abort \/ Crash
    BY <2>1, StoredIdleIs, <2>0, StoredIdle
  <2>2. CASE \/ InstallCollect \/ InstallForget \/ InstallObjects \/ InstallDescriptor
             \/ InstallComponents \/ InstallEnvelope \/ InstallSets
    BY <2>0, <2>2, InstallStored
  <2>3. CASE Gc \/ GcAgain \/ GcCollect \/ GcForget
    BY <2>0, <2>3, GcStored
  <2>4. CASE UNCHANGED vars
    BY <2>4 DEF vars, durable, DpStored, Stored, Live
  <2> QED BY <1>2, <2>1, <2>2, <2>3, <2>4 DEF Next, BootSteps, InstallSteps, OperatorSteps
<1> QED BY <1>1, <1>2

LEMMA InitStored == Init => DpStored
  BY NoneIsApart DEF Init, Live, Usable, DpStored, Stored

-----------------------------------------------------------------------------
\* Each entry runs the set it was confirmed with.

\* A step that writes no set state.
LEMMA RunsIdle ==
  ASSUME DpRuns, Live' \subseteq Live, sets' = sets, history'.confirmedWith = history.confirmedWith,
         \/ pc' \in {"off", "init"}
         \/ pc \notin {"off", "init"} /\ UNCHANGED <<core, booted>>,
         pc' \notin {"composed", "set.state"}
  PROVE  DpRuns'
BY DEF DpRuns, Up, Runkits, Held

LEMMA ComposeRuns ==
  ASSUME DpTypes, DpSteps, DpSets, DpRuns, Live' \subseteq Live, NEW spends \in BOOLEAN, Compose(spends)
  PROVE  DpRuns'
  BY ComposedIs DEF Compose, DpTypes, HistT, DpRuns, Up, Runkits, Held

LEMMA InstallSetsRuns ==
  ASSUME DpTypes, DpSteps, DpSets, DpRuns, Live' \subseteq Live, InstallSets
  PROVE  DpRuns'
<1>1. /\ pc = "install.sets" /\ sets.pending = None
      /\ booted \in Deployments /\ job.deployment \in Deployments \ {booted} /\ None \notin Deployments
      /\ sets'.current = sets.current
      /\ DOMAIN sets'.bound = DOMAIN sets.bound \cap {booted}
      /\ \A d \in DOMAIN sets'.bound : sets'.bound[d] = sets.bound[d]
      /\ Paired(sets) = None /\ Paired(sets') = IF job.set = None THEN None ELSE job.deployment
  BY InstallSetsIs
<1>2. pc' = "install.entry" /\ UNCHANGED <<booted, core, history>>
  BY DEF InstallSets
<1>3. Live = {booted}
  BY <1>1, LiveIs DEF Preparing
<1>4. Paired(sets) # booted /\ Paired(sets') # booted
  BY <1>1
<1>5. Runkits(sets', booted) = Runkits(sets, booted)
  BY <1>1, <1>4 DEF Runkits, Held
<1>6. Up /\ core.set \in Sets /\ None \notin Sets
  BY <1>1, NoneIsApart DEF Up, DpSets
<1>7. booted \notin DOMAIN sets'.bound => core.set = sets.current
  BY <1>1, <1>4, <1>6 DEF DpRuns
<1> QED BY <1>1, <1>2, <1>3, <1>5, <1>7 DEF DpRuns, Up

LEMMA InstallEntryRuns ==
  ASSUME DpTypes, DpSteps, DpSets, DpFloor, DpRuns, InstallEntry
  PROVE  DpRuns'
  BY InstallEntryLive DEF InstallEntry, DpTypes, HistT, DpSets, DpFloor, Preparing, DpRuns, Up, Runkits,
     Held

LEMMA SetTrialRuns ==
  ASSUME DpTypes, DpSteps, DpRuns, Live' \subseteq Live, SetTrial, ~history'.mixed
  PROVE  DpRuns'
  BY DEF SetTrial, DpTypes, HistT, DpRuns, Up, Runkits, Held

LEMMA SetPendingRuns ==
  ASSUME DpTypes, DpSteps, DpSets, DpRuns, Live' \subseteq Live, SetPending
  PROVE  DpRuns'
<1>1. /\ pc = "set.state" /\ sets.pending = None
      /\ booted \in Deployments /\ None \notin Deployments
      /\ sets'.current = sets.current
      /\ DOMAIN sets'.bound = DOMAIN sets.bound \cap RetainedDeployments(records, None)
      /\ \A d \in DOMAIN sets'.bound : sets'.bound[d] = sets.bound[d]
      /\ Paired(sets) = None /\ Paired(sets') = None
  BY SetPendingIs
<1>2. /\ pc' = "idle" /\ UNCHANGED <<records, booted, core>>
      /\ history'.confirmedWith = history.confirmedWith
  BY DEF SetPending, DpTypes, HistT
<1>3. booted \in DOMAIN records /\ records[booted] = None /\ None # 0
  BY <1>1, NoneIsApart DEF DpSteps, DpRuns
<1>4. Live \subseteq RetainedDeployments(records, None) /\ Live \subseteq Deployments /\ booted \in Live
  BY <1>1, <1>3, LiveIs DEF Live, Usable, RetainedDeployments
<1>5. \A d \in Live : Runkits(sets', d) = Runkits(sets, d)
  BY <1>1, <1>4 DEF Runkits, Held
<1>6. Up /\ core.set \in Sets /\ None \notin Sets
  BY <1>1, NoneIsApart DEF Up, DpSets
<1>7. booted \notin DOMAIN sets'.bound => core.set = sets.current
  BY <1>1, <1>4, <1>6 DEF DpRuns
<1> QED BY <1>1, <1>2, <1>5, <1>7 DEF DpRuns, Up

\* A settlement leaves each entry its set: the booted one what runs, the other what it held, the
\* pair that waits included.
LEMMA SettleRuns ==
  ASSUME DpTypes, DpSteps, DpSets, DpRuns, Settle, ~history.crossed, ~history'.crossed
  PROVE  DpRuns'
<1> DEFINE new == Settlement(sets, trial, records, booted, core.set)
           kind == SettlementKind(sets, trial, records, booted, core.set)
           retained == RetainedDeployments(records, booted)
<1>1. /\ IsList(records) /\ booted \in DOMAIN records /\ pc = "settle" /\ sets \in SetsT
      /\ sets' = new /\ UNCHANGED <<records, booted, core>> /\ pc' \in {"idle", "settle.trial"}
  BY DEF Settle, DpSteps, DpTypes
<1>2. /\ kind \in {"committed", "dropped", "unchanged"}
      /\ kind = "committed" => sets.pending # None /\ sets.pending = core.set
      /\ DOMAIN new.bound \subseteq retained \ {booted}
      /\ new.pending = IF kind = "unchanged" THEN sets.pending ELSE None
      /\ new.pair = IF new.pending = None THEN None ELSE sets.pair
      /\ new.current = IF Bound(sets, booted) # None THEN Bound(sets, booted)
                       ELSE IF kind = "committed" THEN sets.pending ELSE sets.current
      /\ \A e \in retained \ {booted} : Held(new, e) = Held(sets, e)
  <2>1. SettlesWell(sets, trial, records, booted, core.set)
    BY <1>1, SettlementFacts
  <2> QED BY <2>1 DEF SettlesWell
<1>3. booted \in Deployments /\ None \notin Deployments /\ None \notin Sets
  BY <1>1, ListFacts, NoneIsApart
<1>4. /\ history'.confirmedWith[booted] = core.set
      /\ \A d \in Deployments : d # booted => history'.confirmedWith[d] = history.confirmedWith[d]
      /\ Paired(sets) \notin DOMAIN new.bound
  BY <1>3 DEF DpTypes, Settle, HistT
<1>5. Up /\ core.set \in Sets /\ <<core.set, booted>> \in Runs
  BY <1>1 DEF Up, DpSets
<1>6. /\ sets.pending # None /\ sets.pending = core.set => kind = "committed"
      /\ Paired(sets) # None /\ Paired(sets) \in retained \ {booted} => kind # "dropped"
  BY DEF SettlementKind, Paired
<1> HIDE DEF new, kind
<1>7. Paired(sets') # booted /\ Paired(sets') \in {None, Paired(sets)}
  BY SettledSets
<1>8. new.current = core.set
  BY <1>2, <1>5, <1>1, SetsFields, <1>3, <1>6 DEF Bound, DpSets, DpRuns
<1>9. booted \notin DOMAIN new.bound
  BY <1>2
<1>10. Runkits(new, booted) = core.set
  BY <1>1, <1>7, <1>8, <1>9 DEF Runkits, Held
<1>11. ASSUME NEW e \in retained \ {booted}, e \in Deployments PROVE Runkits(new, e) = Runkits(sets, e)
  BY <1>2, <1>3, <1>11, <1>1, <1>7, <1>6, <1>4, <1>8 DEF Runkits, Paired, DpSets, Held, SetStateOk
<1>12. Live' = Live /\ Live \subseteq Deployments /\ Live \subseteq retained
  BY <1>1, LiveIs DEF Live, Usable, RetainedDeployments
<1> HIDE DEF retained
<1>13. \A d \in Live : /\ <<Runkits(new, d), d>> \in Runs
                       /\ history'.confirmedWith[d] \in {None, Runkits(new, d)}
  BY <1>4, <1>5, <1>10, <1>11, <1>12 DEF DpRuns
<1> QED BY <1>1, <1>8, <1>12, <1>13 DEF DpRuns

LEMMA RunsStep ==
  ASSUME DpTypes, DpSteps, DpSets, DpFloor, DpRuns, [Next]_vars, ~Decay,
         ~history.crossed, ~history'.mixed, ~history'.crossed
  PROVE  DpRuns'
<1>1. CASE InstallEntry
  BY <1>1, InstallEntryRuns
<1>2. CASE Settle
  BY <1>2, SettleRuns
<1>3. CASE ~InstallEntry /\ ~Settle
  <2>0. Live' \subseteq Live
    BY <1>3, LiveStep
  <2>1. CASE (\E spends \in BOOLEAN : Compose(spends)) \/ InstallSets \/ SetTrial \/ SetPending
    BY <2>0, <2>1, ComposeRuns, InstallSetsRuns, SetTrialRuns, SetPendingRuns
  <2>2. CASE Load \/ BootFails \/ Crash
    BY <2>2, EndedHistory, <2>0, RunsIdle DEF Load, BootFails, Crash, PowerOff, SameHistory, DpTypes, HistT
  <2>3. CASE UNCHANGED vars
    BY <2>3 DEF vars, durable, DpRuns, Up, Live
  <2>4. CASE \/ Start \/ Confirm \/ ConfirmState \/ ConfirmRetain \/ ConfirmAgain
             \/ FailBoot \/ Rollback \/ (\E d \in Deployments : Reject(d)) \/ RejectState
             \/ Gc \/ GcAgain \/ GcCollect \/ GcForget \/ InstallDone \/ Abort
    BY <2>4, SetsIdleIs, QuietHistory, SavedHistory, <2>0, RunsIdle DEF SameHistory, ConfirmState,
       RejectState, InstallDone, DpTypes, QuietStep, SetsIdle
  <2>5. CASE \/ SettleTrial \/ SettleComponents \/ (\E s \in Sets : SettleEnvelope(s))
             \/ (\E d \in Deployments, latest, choice \in Sets \cup {None} : Install(d, latest, choice))
             \/ InstallAgain \/ InstallState \/ InstallCollect \/ InstallForget
             \/ InstallObjects \/ InstallDescriptor \/ InstallComponents \/ InstallEnvelope
             \/ (\E s \in Sets : InstallSet(s)) \/ SetEnvelope
    <3>1. history'.confirmedWith = history.confirmedWith
      BY SavedHistory, <2>5, QuietHistory DEF InstallState, DpTypes, QuietStep, SameHistory
    <3>2. /\ UNCHANGED <<sets, core, booted>> /\ pc \notin {"off", "init"}
          /\ pc' \notin {"composed", "set.state"}
      <4>1. CASE \/ SettleTrial \/ SettleComponents \/ (\E s \in Sets : SettleEnvelope(s))
                 \/ (\E s \in Sets : InstallSet(s)) \/ SetEnvelope
        BY <4>1 DEF SettleTrial, SettleComponents, SettleEnvelope, InstallSet, SetEnvelope,
           PublishComponents, PublishEnvelope
      <4>2. CASE \/ (\E d \in Deployments, latest, choice \in Sets \cup {None} : Install(d, latest, choice))
                 \/ InstallAgain \/ InstallState \/ InstallCollect \/ InstallForget
                 \/ InstallObjects \/ InstallDescriptor \/ InstallComponents \/ InstallEnvelope
        BY <4>2 DEF Install, InstallAgain, InstallState, InstallCollect, InstallForget, InstallObjects,
           InstallDescriptor, InstallComponents, InstallEnvelope, PublishComponents, PublishEnvelope, AfterRetain
      <4> QED BY <2>5, <4>1, <4>2
    <3> QED BY <2>0, <3>1, <3>2, RunsIdle
  <2> QED BY <1>3, <2>1, <2>2, <2>3, <2>4, <2>5
          DEF Next, BootSteps, ConfirmSteps, InstallSteps, SetSteps, OperatorSteps
<1> QED BY <1>1, <1>2, <1>3

LEMMA InitRuns == Init => DpRuns
<1> SUFFICES ASSUME Init PROVE DpRuns
  OBVIOUS
<1>1. Live = {Factory} /\ Factory \in Deployments
  BY NoneIsApart, DeviceAssumption DEF Init, Live, Usable
<1>2. Runkits(sets, Factory) = FactorySet /\ history.confirmedWith[Factory] = None
  BY <1>1, NoneIsApart DEF Init, Runkits, Held, Paired, NoHistory
<1> QED BY <1>1, <1>2, DeviceAssumption DEF Init, DpRuns, Up

-----------------------------------------------------------------------------
\* Which entries DATA's state names.

\* The effective state: current is the newest confirmed entry not rejected, or what the state
\* has; the fallback is what the state has as current or fallback; the candidate is on trial
\* above current, and there is one if such an entry is.
Unrejected(rs, st) == {d \in DOMAIN rs : rs[d] = None /\ d \notin Failed(st)}
Candidates(rs, st, c, f) == {d \in DOMAIN rs : Generation[d] > Generation[c] /\ rs[d] \notin {None, 0}
                                               /\ d \notin Failed(st) \cup {f}}
EffectiveNames(rs, st) ==
  LET eff == EffectiveState(rs, st)
      uncounted == Unrejected(rs, st)
  IN
  /\ eff.failed = st.failed
  /\ uncounted = {} => eff.current = st.current
  /\ uncounted # {} => eff.current \in uncounted /\ \A e \in uncounted : Generation[eff.current] >= Generation[e]
  /\ eff.fallback \in {None, st.current, st.fallback} /\ eff.fallback \in DOMAIN rs \cup {None}
  /\ eff.current = st.current /\ st.fallback \in DOMAIN rs => eff.fallback = st.fallback
  /\ eff.current # st.current /\ Usable(rs, st.current) /\ st.current \notin Failed(st) => eff.fallback = st.current
  /\ eff.current # None => /\ eff.candidate \in Candidates(rs, st, eff.current, eff.fallback) \cup {None}
                           /\ Candidates(rs, st, eff.current, eff.fallback) # {} => eff.candidate # None

LEMMA EffectiveNamed ==
  ASSUME NEW rs, IsList(rs), NEW st \in StateT
  PROVE  EffectiveNames(rs, st)
<1> DEFINE uncounted == Unrejected(rs, st)
           confirmed == Newest(uncounted)
           moved == uncounted # {} /\ st.current # confirmed
           eff == EffectiveState(rs, st)
           ok(d) == d # confirmed /\ Usable(rs, d) /\ d \notin Failed(st)
           kept == IF ~moved THEN st.fallback
                   ELSE IF st.current # None /\ ok(st.current) THEN st.current
                   ELSE IF st.fallback # None /\ ok(st.fallback) THEN st.fallback ELSE None
           C == Candidates(rs, st, eff.current, eff.fallback)
<1>1. DOMAIN rs \in SUBSET Deployments /\ None \notin Deployments
  BY ListFacts, NoneIsApart
<1>2. uncounted # {} => confirmed \in uncounted /\ \A e \in uncounted : Generation[confirmed] >= Generation[e]
  BY NewestIs DEF Unrejected
<1>3. /\ eff.failed = st.failed
      /\ eff.current = IF moved THEN confirmed ELSE st.current
      /\ eff.fallback = IF kept # None /\ kept \in DOMAIN rs THEN kept ELSE None
  BY DEF EffectiveState, Keep, Unrejected
<1>4. eff.candidate = IF eff.current = None THEN st.candidate
                      ELSE IF C = {} THEN None ELSE Newest(C)
  BY DEF EffectiveState, Candidates
<1>5. C # {} => Newest(C) \in C /\ Newest(C) # None
  <2>1. C \subseteq DOMAIN rs
    BY DEF Candidates
  <2> HIDE DEF C
  <2>2. C # {} => Newest(C) \in C
    BY <2>1, NewestIs
  <2> QED BY <1>1, <2>1, <2>2
<1> HIDE DEF eff, C, confirmed, uncounted
<1>6. uncounted = {} => eff.current = st.current
  BY <1>3
<1>7. uncounted # {} => eff.current \in uncounted /\ \A e \in uncounted : Generation[eff.current] >= Generation[e]
  BY <1>2, <1>3
<1>8. eff.fallback \in {None, st.current, st.fallback} /\ eff.fallback \in DOMAIN rs \cup {None}
  BY <1>3
<1>9. eff.current = st.current /\ st.fallback \in DOMAIN rs => eff.fallback = st.fallback
  BY <1>1, <1>3
<1>10. eff.current # st.current /\ Usable(rs, st.current) /\ st.current \notin Failed(st) => eff.fallback = st.current
  BY <1>1, <1>3 DEF Usable
<1>11. eff.current # None => eff.candidate \in C \cup {None} /\ (C # {} => eff.candidate # None)
  BY <1>4, <1>5
<1> QED BY <1>3, <1>6, <1>7, <1>8, <1>9, <1>10, <1>11 DEF EffectiveNames, eff, uncounted, C

\* What confirm records: the booted entry current, and as fallback and candidate what follows.
ConfirmedNames(rs, st, b) ==
  LET cs == ConfirmedState(rs, st, b)
      eff == EffectiveState(rs, st)
      spent == {d \in DOMAIN rs \ {b} : rs[d] = 0 /\ d \notin Failed(st)}
  IN
  /\ cs.current = b
  /\ eff.current = b => cs.fallback = IF eff.fallback # None /\ eff.fallback # b /\ Usable(rs, eff.fallback)
                                      THEN eff.fallback ELSE None
  /\ eff.current # b /\ Usable(rs, eff.current) /\ eff.current # None => cs.fallback = eff.current
  /\ eff.current # b /\ ~Usable(rs, eff.current) =>
       cs.fallback = None \/ (cs.fallback \in DOMAIN rs \ {b} /\ Usable(rs, cs.fallback))
  /\ spent = {} /\ eff.candidate \notin Failed(st) \cup {b} => cs.candidate = eff.candidate

LEMMA ConfirmedNamed ==
  ASSUME NEW rs, IsList(rs), NEW st \in StateT, NEW b \in DOMAIN rs
  PROVE  ConfirmedNames(rs, st, b)
<1> DEFINE eff == EffectiveState(rs, st)
           spent == {d \in DOMAIN rs \ {b} : rs[d] = 0 /\ d \notin Failed(st)}
           failed == IF spent = {} THEN eff.failed ELSE PushFailed(eff.failed, Newest(spent))
           cs == ConfirmedState(rs, st, b)
           others == {d \in DOMAIN rs : d # b /\ Usable(rs, d)}
           fb == IF eff.current = b
                 THEN IF eff.fallback # None /\ eff.fallback # b /\ Usable(rs, eff.fallback)
                      THEN eff.fallback ELSE None
                 ELSE IF eff.current # None /\ Usable(rs, eff.current) THEN eff.current
                 ELSE IF others = {} THEN None ELSE Newest(others)
           cd == IF eff.candidate \in Range(failed) \cup {b} THEN None ELSE eff.candidate
<1>1. eff \in StateT /\ eff.failed = st.failed
  BY EffectiveFacts
<1>2. others # {} => Newest(others) \in others
  BY NewestIs
<1>3. cs = [eff EXCEPT !.current = b, !.fallback = fb, !.candidate = cd, !.failed = failed]
  BY <1>1 DEF ConfirmedState, Keep, Failed
<1>4. spent = {} => failed = st.failed
  BY <1>1
<1> HIDE DEF eff, failed, cs, fb, cd
<1>5. cs.current = b /\ cs.fallback = fb /\ cs.candidate = cd
  BY <1>1, <1>3 DEF StateT
<1> HIDE DEF others, spent
<1>6. spent = {} /\ eff.candidate \notin Failed(st) \cup {b} => cd = eff.candidate
  BY <1>4 DEF cd, Failed
<1>7. /\ eff.current = b => fb = IF eff.fallback # None /\ eff.fallback # b /\ Usable(rs, eff.fallback)
                                 THEN eff.fallback ELSE None
      /\ eff.current # b /\ Usable(rs, eff.current) /\ eff.current # None => fb = eff.current
      /\ eff.current # b /\ ~Usable(rs, eff.current) =>
           fb = None \/ (fb \in DOMAIN rs \ {b} /\ Usable(rs, fb))
  BY <1>2 DEF fb, others
<1> QED BY <1>5, <1>6, <1>7 DEF ConfirmedNames, cs, eff, spent

-----------------------------------------------------------------------------
\* A step that drops entries, but none that a verdict would need.
LEMMA NamesRestricted ==
  ASSUME DpTypes, NEW st, Named(st), DOMAIN records' \subseteq DOMAIN records,
         \A d \in DOMAIN records' : records'[d] = records[d],
         booted' \in {booted, None}, booted' = None \/ records' = records \/ records'[booted] # 0
  PROVE  Named(st)'
  BY ListFacts, NoneIsApart DEF DpTypes, Named, Usable

\* An entry spent because another has a boot left.
LEMMA NamesSpent ==
  ASSUME DpTypes, DpSteps, NEW st, Named(st), NEW x \in DOMAIN records, OtherUsable(records, x),
         records' = [records EXCEPT ![x] = 0], booted' \in {booted, None}
  PROVE  Named(st)' /\ OtherUsable(records, x)'
  BY ListFacts, NoneIsApart, TwoEntries DEF DpTypes, DpSteps, OtherUsable, Usable, Named

LEMMA LoadNames ==
  ASSUME DpTypes, NEW st, Named(st), Load
  PROVE  Named(st)'
  BY LoadIs, NoneIsApart DEF Named, Usable

\* Generations.
LEMMA ApartStep ==
  ASSUME DpTypes, DpSteps, DpNames, DpApart, [Next]_vars, ~Decay
  PROVE  DpApart'
  BY NoneIsApart, LoadIs, ListFacts, InstallEntryTypes, EntriesStep, BootedStep DEF DpTypes, Usable,
     DpApart, InstallEntry, DpNames, Preparing, DpSteps

LEMMA InitApart == Init => DpApart
BY DEF Init, DpApart

-----------------------------------------------------------------------------
\* What the effective state names under the invariant: an entry that is not on trial, and a
\* fallback that is not either.
LEMMA EffectiveEntry ==
  ASSUME DpTypes, DpFloor, DpCurrent, DpData, Named(state)
  PROVE  LET eff == EffectiveState(records, state) IN
         /\ eff.current \in DOMAIN records /\ records[eff.current] \in {None, 0}
         /\ eff.fallback \in DOMAIN records \cup {None}
         /\ eff.fallback # None => records[eff.fallback] \in {None, 0}
         /\ \A d \in DOMAIN records : Usable(records, d) => d \notin Failed(state)
<1> DEFINE eff == EffectiveState(records, state)
<1>1. IsList(records) /\ state \in StateT /\ None \notin DOMAIN records
  BY ListFacts, NoneIsApart DEF DpTypes
<1>2. EffectiveNames(records, state)
  BY <1>1, EffectiveNamed
<1>3. \A d \in DOMAIN records : Usable(records, d) => d \notin Failed(state)
  BY DEF DpFloor, DpData, DpCurrent, Spent, Usable
<1>4. CASE Unrejected(records, state) = {}
  BY <1>4, <1>2, <1>1, <1>3 DEF Sole, Unrejected, EffectiveNames, DpData, DpCurrent, Named
<1>5. CASE Unrejected(records, state) # {}
  BY <1>2, <1>5, <1>1, <1>3 DEF EffectiveNames, Unrejected, Named
<1> QED BY <1>4, <1>5

\* Of two entries, what is not the one is the other.
LEMMA TheOther ==
  ASSUME IsList(records), NEW b \in DOMAIN records, NEW o \in DOMAIN records, NEW x \in DOMAIN records, o # b, x # b
  PROVE  x = o
BY TwoEntries

\* A confirmation names every entry with a boot left, and as its fallback the older.
LEMMA ConfirmNames ==
  ASSUME DpTypes, DpSteps, DpFloor, DpCurrent, DpData, DpApart, DpNames, Confirm
  PROVE  DpNames'
<1> DEFINE eff == EffectiveState(records, state)
           cs == ConfirmedState(records, state, booted)
           spent == {d \in DOMAIN records \ {booted} : records[d] = 0 /\ d \notin Failed(state)}
<1>1. /\ IsList(records) /\ state \in StateT /\ booted \in DOMAIN records
      /\ DOMAIN records \in SUBSET Deployments /\ None \notin DOMAIN records /\ None # 0
      /\ \A d \in DOMAIN records : Generation[d] \in Nat
  BY ListFacts, NoneIsApart DEF Confirm, ConfirmOk, DpTypes
<1>2. EffectiveNames(records, state)
  BY <1>1, EffectiveNamed
<1>3. ConfirmedNames(records, state, booted)
  BY <1>1, ConfirmedNamed
<1>4. /\ eff.current \in DOMAIN records /\ records[eff.current] \in {None, 0}
      /\ eff.fallback \in DOMAIN records \cup {None}
      /\ eff.fallback # None => records[eff.fallback] \in {None, 0}
      /\ \A d \in DOMAIN records : Usable(records, d) => d \notin Failed(state)
  BY EffectiveEntry DEF DpNames
<1> HIDE DEF eff, cs
<1>5. /\ cs.current = booted
      /\ eff.current = booted => cs.fallback = IF eff.fallback # None /\ eff.fallback # booted /\ Usable(records, eff.fallback)
                                      THEN eff.fallback ELSE None
      /\ eff.current # booted /\ Usable(records, eff.current) /\ eff.current # None => cs.fallback = eff.current
      /\ eff.current # booted /\ ~Usable(records, eff.current) =>
           cs.fallback = None \/ (cs.fallback \in DOMAIN records \ {booted} /\ Usable(records, cs.fallback))
      /\ spent = {} /\ eff.candidate \notin Failed(state) \cup {booted} => cs.candidate = eff.candidate
  BY <1>3 DEF ConfirmedNames, cs, eff
<1>6. /\ job'.state = cs /\ pc' = "confirm.state" /\ UNCHANGED <<state, booted>>
  BY DEF Confirm, NoJob, cs
<1>7. /\ DOMAIN records' = DOMAIN records /\ records'[booted] = None
      /\ \A d \in DOMAIN records : d # booted => records'[d] = records[d]
  BY <1>1, ListFacts DEF Confirm, SaveRecords
<1>8. cs.fallback \in DOMAIN records => cs.fallback # booted /\ records[cs.fallback] = None
  BY <1>1, <1>4, <1>5, TheOther DEF Usable
<1>9. ASSUME NEW o \in DOMAIN records \ {booted}, Usable(records, o)
      PROVE  /\ Generation[o] < Generation[booted] => cs.fallback = o /\ records[o] = None
             /\ cs.fallback = o \/ cs.candidate = o
  BY <1>1, <1>4, <1>9, TheOther, <1>5, <1>2 DEF DpApart, Usable, Unrejected, EffectiveNames, eff, DpNames,
     Named, Candidates
<1>10. \A d \in DOMAIN records' : Usable(records', d) => d \in Retained(cs)
  BY <1>7, <1>1, <1>5, <1>9 DEF Retained, Usable
<1>11. Named(job.state)'
  BY <1>1, <1>5, <1>7, <1>8, TheOther, <1>9, <1>6 DEF Usable, Named
<1>12. Named(state)'
  <2>1. PICK st : st = state
    OBVIOUS
  <2>2. Named(st)
    BY <2>1 DEF DpNames
  <2>3. ASSUME NEW d \in DOMAIN records, NEW e \in DOMAIN records, Usable(records', d), Usable(records', e),
               Generation[d] < Generation[e]
        PROVE  /\ records'[d] = None
               /\ st.current = d \/ (st.current = e /\ st.fallback = d)
    <3>1. CASE d # booted
      BY <1>1, <2>3, <1>7, <3>1, TheOther, <2>2 DEF Usable, Named
    <3>2. CASE d = booted
      <4>1. e # booted /\ records'[e] = records[e] /\ records[e] # 0
        BY <1>1, <2>3, <1>7, <3>2 DEF Usable
      <4>2. records[e] # None
        BY <1>1, <2>3, <3>2 DEF DpApart
      <4>3. state.current # e
        BY <4>1, <4>2 DEF DpNames, Named
      <4>4. state.current \in DOMAIN records
        <5>1. ASSUME NEW x, DOMAIN records = {x} PROVE FALSE
          BY <1>1, <2>3, <5>1, <4>1
        <5>2. ~Sole(records)
          BY <5>1 DEF Sole
        <5> QED BY <5>2 DEF DpData, DpCurrent
      <4>5. state.current = booted
        BY <1>1, <4>1, <4>3, <4>4, TheOther
      <4> QED BY <1>7, <2>1, <3>2, <4>5
    <3> QED BY <3>1, <3>2
  <2>4. /\ st.current \in DOMAIN records' => records'[st.current] \in {None, 0}
        /\ st.fallback \in DOMAIN records' => records'[st.fallback] \in {None, 0}
        /\ records'[booted] # 0
    BY <1>1, <1>7, <2>2 DEF Named
  <2>5. Named(st)'
    BY <1>1, <1>6, <1>7, <2>3, <2>4 DEF Named, Usable
  <2> QED BY <1>6, <2>1, <2>5 DEF Named
<1> QED BY <1>6, <1>10, <1>11, <1>12 DEF DpNames, Preparing

LEMMA RejectNames ==
  ASSUME DpTypes, DpSteps, DpFloor, DpCurrent, DpData, DpApart, DpNames, pc = "idle", NEW e, RejectEntry(e)
  PROVE  DpNames'
<1> DEFINE eff == EffectiveState(records, state)
           rj == RejectedState(records, state, e)
<1>1. /\ IsList(records) /\ state \in StateT /\ Bounded(state) /\ booted \in DOMAIN records
      /\ e \in DOMAIN records /\ OtherUsable(records, e)
      /\ DOMAIN records \in SUBSET Deployments /\ None \notin DOMAIN records /\ None # 0
      /\ \A d \in DOMAIN records : Generation[d] \in Nat
  BY ListFacts, NoneIsApart DEF RejectEntry, RejectOk, DpTypes, DpSteps
<1>2. EffectiveNames(records, state)
  BY <1>1, EffectiveNamed
<1>3. rj.current = eff.current /\ rj.fallback = eff.fallback
  BY <1>1, RejectedFacts
<1>4. /\ eff.current \in DOMAIN records /\ records[eff.current] \in {None, 0}
      /\ eff.fallback \in DOMAIN records \cup {None}
      /\ eff.fallback # None => records[eff.fallback] \in {None, 0}
      /\ \A d \in DOMAIN records : Usable(records, d) => d \notin Failed(state)
  BY EffectiveEntry DEF DpNames
<1>5. /\ job'.state = rj /\ pc' = "reject.state" /\ UNCHANGED <<state, booted>>
  BY DEF RejectEntry, NoJob
<1>6. DOMAIN records' = DOMAIN records /\ records' = [records EXCEPT ![e] = 0]
  BY RejectEntryTypes
<1> HIDE DEF eff, rj
<1>7. Named(state)
  BY DEF DpNames
<1>8. Named(state)' /\ OtherUsable(records, e)'
  BY <1>1, <1>5, <1>6, <1>7, NamesSpent DEF Named
<1>9. PICK u \in DOMAIN records \ {e} : Usable(records, u)
  BY <1>1 DEF OtherUsable
<1>10. \A x \in DOMAIN records \ {e} : x = u
  BY <1>1, <1>9, TheOther
<1>11. records'[e] = 0 /\ records'[u] = records[u]
  BY <1>1, <1>6, <1>9
<1>12. ASSUME NEW d \in DOMAIN records, NEW g \in DOMAIN records, Usable(records', d), Usable(records', g) \/ g = booted,
              Generation[d] < Generation[g]
       PROVE  records'[d] = None /\ (eff.current = d \/ (eff.current = g /\ eff.fallback = d))
  BY <1>10, <1>11, <1>12, <1>1, <1>7, <1>9, <1>4, <1>2 DEF Usable, Named, Unrejected, EffectiveNames, eff
<1>13. Named(job.state)'
  BY <1>1, <1>3, <1>4, <1>6, <1>8, <1>9, <1>10, <1>11, <1>5, <1>12 DEF Usable, Named
<1> QED BY <1>5, <1>8, <1>13 DEF DpNames, Preparing

NamePcs == {"confirm.state", "reject.state", "confirm.retain", "install.done"} \cup Preparing

LEMMA NamesIdle ==
  ASSUME DpTypes, DpNames, UNCHANGED <<records, state>>, booted' \in {booted, None}, pc' \notin NamePcs
  PROVE  DpNames'
  BY NamesRestricted DEF DpNames, Named, NamePcs

LEMMA RetireNames ==
  ASSUME DpTypes, DpSteps, DpNames, FailBoot \/ BootFails
  PROVE  DpNames'
  BY NamesIdle, NamesSpent DEF FailBoot, BootFails, PowerOff, NamePcs, Preparing, SaveRecords, Retires,
     DpNames, Named

LEMMA BootNames ==
  ASSUME DpTypes, DpSteps, DpNames, Load
  PROVE  DpNames'
  BY LoadNames DEF Load, DpNames, Named, Preparing

\* The state confirm or reject held becomes DATA's.
LEMMA SavedNames ==
  ASSUME DpTypes, DpSteps, DpNames, ConfirmState \/ RejectState
  PROVE  DpNames'
  BY DEF ConfirmState, RejectState, SaveState, DpNames, Named, Preparing

LEMMA ConfirmRetainNames ==
  ASSUME DpTypes, DpSteps, DpNames, ConfirmRetain \/ ConfirmAgain
  PROVE  DpNames'
<1>1. /\ pc \in Confirming /\ pc' \in {"confirm.again", "settle"} /\ pc' \notin NamePcs
      /\ UNCHANGED <<state, booted>> /\ booted \in DOMAIN records /\ records[booted] = None /\ None # 0
  BY NoneIsApart DEF ConfirmRetain, ConfirmAgain, AfterRetain, DpSteps, Confirming, NamePcs, Preparing
<1>2. CASE ConfirmAgain
  BY <1>1, <1>2, NamesIdle DEF ConfirmAgain, SaveRecords
<1>3. CASE ConfirmRetain
  <2> DEFINE keep == DOMAIN records \cap Retained(job.state)
  <2>1. /\ booted \in keep /\ DOMAIN Restrict(records, keep) = keep
        /\ \A x \in keep : Restrict(records, keep)[x] = records[x]
    BY <1>1, RetainedList
  <2>2. records' = Restrict(records, keep)
    BY <1>3 DEF ConfirmRetain, SaveRecords
  <2>3. PICK st : st = state
    OBVIOUS
  <2>4. Named(st)
    BY <2>3 DEF DpNames
  <2>5. Named(st)'
    BY <1>1, <2>1, <2>2, <2>4, NamesRestricted
  <2>6. Named(state)'
    BY <1>1, <2>3, <2>5 DEF Named
  <2> QED BY <1>1, <2>6 DEF DpNames, NamePcs
<1> QED BY <1>2, <1>3

LEMMA InstallNames ==
  ASSUME DpTypes, DpSteps, DpNames, NEW d \in Deployments, NEW latest, NEW choice,
         Install(d, latest, choice)
  PROVE  DpNames'
<1>1. /\ booted \in DOMAIN records /\ records[booted] = None /\ None # 0
      /\ \A e \in DOMAIN records : Generation[d] > Generation[e]
      /\ records' = Restrict(records, {booted})
      /\ pc' \in {"install.again", "install.state"} /\ UNCHANGED <<state, booted>>
      /\ IsList(records) /\ state \in StateT
  BY NoneIsApart DEF Install, InstallOk, SaveRecords, AfterRetain, DpTypes
<1>2. DOMAIN records' = {booted} /\ records'[booted] = records[booted]
  BY <1>1 DEF Restrict
<1>3. EffectiveState(records, state) \in StateT
  BY <1>1, EffectiveFacts
<1>4. job'.deployment = d /\ job'.state.fallback = None
  BY <1>3 DEF Install, StateT, NoJob
<1>5. PICK st : st = state
  OBVIOUS
<1>6. Named(st)
  BY <1>5 DEF DpNames
<1>7. Named(st)'
  BY <1>1, <1>2, <1>6, NamesRestricted
<1>8. Named(state)'
  BY <1>1, <1>5, <1>7 DEF Named
<1>9. Generation[booted] < Generation[d]
  BY <1>1, ListFacts, NoneIsApart
<1> QED BY <1>1, <1>4, <1>8, <1>9 DEF DpNames, Preparing

LEMMA PreparedNames ==
  ASSUME DpTypes, DpSteps, DpFloor, DpNames,
         \/ InstallAgain \/ InstallState \/ InstallCollect \/ InstallForget \/ InstallObjects
         \/ InstallDescriptor \/ InstallComponents \/ InstallEnvelope \/ InstallSets
  PROVE  DpNames'
<1>1. CASE InstallState
  BY <1>1, ListFacts, NoneIsApart DEF InstallState, SaveState, DpTypes, DpSteps, Preparing, DpFloor,
     DpNames, Named
<1>2. CASE InstallAgain
  BY <1>2 DEF InstallAgain, SaveRecords, DpNames, Named, Preparing
<1>3. CASE \/ InstallCollect \/ InstallForget \/ InstallObjects
           \/ InstallDescriptor \/ InstallComponents \/ InstallEnvelope \/ InstallSets
  BY <1>3 DEF InstallCollect, InstallForget, InstallObjects, InstallDescriptor, InstallComponents,
     InstallEnvelope, InstallSets, PublishComponents, PublishEnvelope, Preparing, DpNames, Named
<1> QED BY <1>1, <1>2, <1>3

LEMMA InstallEntryNames ==
  ASSUME DpTypes, DpSteps, DpCurrent, DpData, DpNames, InstallEntry
  PROVE  DpNames'
<1>1. /\ DOMAIN records' = {job.deployment, booted} /\ records'[booted] = None
  BY InstallEntryTypes
<1>2. /\ pc = "install.entry" /\ pc' = "install.done" /\ UNCHANGED <<state, booted, job>>
      /\ booted \in Deployments /\ job.deployment \in Deployments /\ None \notin Deployments /\ None # 0
  BY ListFacts, NoneIsApart DEF InstallEntry, DpSteps, DpTypes, Preparing
<1>3. /\ state.current = booted /\ state.fallback = None
      /\ Generation[booted] < Generation[job.deployment] /\ job.state.fallback = None
  BY <1>2 DEF DpData, DpCurrent, DpNames, Preparing
<1>4. Generation[booted] \in Nat /\ Generation[job.deployment] \in Nat
  BY <1>2, NoneIsApart
<1>5. Named(state)'
  BY <1>1, <1>2, <1>3, <1>4 DEF Named
<1> QED BY <1>1, <1>2, <1>3, <1>5 DEF DpNames, Preparing

LEMMA InstallDoneNames ==
  ASSUME DpTypes, DpSteps, DpFloor, DpNames, InstallDone
  PROVE  DpNames'
<1> DEFINE st == [job.state EXCEPT !.highest = Generation[job.deployment], !.candidate = job.deployment]
<1>1. /\ pc = "install.done" /\ pc' = "idle" /\ state' = st
      /\ job.state \in StateT /\ UNCHANGED <<records, booted>> /\ booted \in Deployments
      /\ job.deployment \in Deployments /\ None \notin Deployments /\ None # 0
  BY JobFields, ListFacts, NoneIsApart DEF InstallDone, SaveState, DpTypes, DpSteps
<1>2. st.current = job.state.current /\ st.fallback = job.state.fallback
  BY <1>1 DEF StateT
<1>3. /\ job.state.current = booted /\ job.state.fallback = None
      /\ Generation[booted] < Generation[job.deployment]
      /\ DOMAIN records = {booted, job.deployment} /\ records[booted] = None
  BY <1>1 DEF DpFloor, DpNames
<1>4. Generation[booted] \in Nat /\ Generation[job.deployment] \in Nat
  BY <1>1, NoneIsApart
<1> HIDE DEF st
<1>5. Named(state)'
  BY <1>1, <1>2, <1>3, <1>4 DEF Named
<1> QED BY <1>1, <1>5 DEF DpNames, Preparing

LEMMA NamesStep ==
  ASSUME DpTypes, DpSteps, DpFloor, DpCurrent, DpData, DpApart, DpNames, [Next]_vars, ~Decay
  PROVE  DpNames'
<1>1. CASE Confirm \/ ConfirmState \/ ConfirmRetain \/ ConfirmAgain
  BY <1>1, ConfirmNames, SavedNames, ConfirmRetainNames
<1>2. CASE Rollback \/ \E d \in Deployments : Reject(d)
  BY <1>2, RejectNames DEF Rollback, Reject
<1>3. CASE RejectState \/ InstallEntry \/ InstallDone \/ Load \/ FailBoot \/ BootFails
  BY <1>3, SavedNames, InstallEntryNames, InstallDoneNames, BootNames, RetireNames
<1>4. CASE \E d \in Deployments, latest, choice \in Sets \cup {None} : Install(d, latest, choice)
  BY <1>4, InstallNames
<1>5. CASE \/ InstallAgain \/ InstallState \/ InstallCollect \/ InstallForget \/ InstallObjects
           \/ InstallDescriptor \/ InstallComponents \/ InstallEnvelope \/ InstallSets
  BY <1>5, PreparedNames
<1>6. CASE UNCHANGED vars
  BY <1>6 DEF vars, durable, DpNames, Named
<1>7. CASE \/ Start \/ Abort \/ Crash \/ SettleTrial \/ SettleComponents
           \/ (\E s \in Sets : SettleEnvelope(s))
           \/ Gc \/ GcAgain \/ GcCollect \/ GcForget
           \/ (\E s \in Sets : InstallSet(s)) \/ SetEnvelope \/ SetPending \/ SetTrial \/ Settle
           \/ (\E spends \in BOOLEAN : Compose(spends))
  <2>2. /\ pc' \in {"off", "idle", "settle.trial", "settle.release", "set.envelope", "set.trial", "set.state",
                    "gc.again", "gc.collect", "gc.forget", "composed"}
        /\ booted' \in {booted, None} /\ records' = records /\ state' = state
    <3>1. CASE \/ Start \/ Abort \/ Crash \/ SettleTrial \/ SettleComponents
               \/ (\E s \in Sets : SettleEnvelope(s)) \/ Settle
               \/ (\E spends \in BOOLEAN : Compose(spends))
      BY <3>1 DEF Start, Abort, Crash, PowerOff, SettleTrial, SettleComponents, SettleEnvelope, Settle,
         Compose, durable
    <3>2. CASE \/ Gc \/ GcAgain \/ GcCollect \/ GcForget
               \/ (\E s \in Sets : InstallSet(s)) \/ SetEnvelope \/ SetPending \/ SetTrial
      BY <3>2 DEF Gc, GcAgain, GcCollect, GcForget, AfterRetain, SaveRecords, InstallSet, SetEnvelope, SetPending,
         SetTrial, PublishComponents, PublishEnvelope
    <3> QED BY <1>7, <3>1, <3>2
  <2>3. pc' \notin NamePcs
    BY <2>2 DEF NamePcs, Preparing
  <2> QED BY <2>2, <2>3, NamesIdle
<1> QED BY <1>1, <1>2, <1>3, <1>4, <1>5, <1>6, <1>7
        DEF Next, BootSteps, ConfirmSteps, InstallSteps, SetSteps, OperatorSteps

LEMMA InitNames == Init => DpNames
  BY NoneIsApart, DeviceAssumption DEF Init, NoState, DpNames, Named, Preparing

-----------------------------------------------------------------------------
\* The older copy of the records.

\* No step takes back what the history says of the records and the sets.
LEMMA FlagsStep ==
  ASSUME DpTypes, [Next]_vars
  PROVE  /\ history.decayed => history'.decayed
         /\ history.mixed => history'.mixed
         /\ history.crossed => history'.crossed
         /\ history.unbound => history'.unbound
         /\ Decay => history'.decayed
<1>0. history \in HistT
  BY DEF DpTypes
<1>1. CASE QuietStep
  BY <1>1, QuietHistory DEF SameHistory, Decay, DpTypes, HistT
<1>2. CASE ConfirmState \/ RejectState \/ InstallState \/ InstallDone
  BY <1>0, <1>2, SavedHistory DEF ConfirmState, RejectState, InstallState, InstallDone, Decay, HistT
<1>3. CASE Load \/ InstallEntry \/ Decay \/ Settle \/ SetTrial \/ (\E spends \in BOOLEAN : Compose(spends))
  BY <1>0, <1>3 DEF Load, InstallEntry, Decay, Settle, SetTrial, Compose, HistT
<1> QED BY <1>1, <1>2, <1>3, NextIs

\* A save makes the older copy what the newest was and touches nothing either needs; any other
\* step leaves the two or loses the older.
Saves ==
  /\ stale' = records
  /\ UNCHANGED <<descriptors, objects, sets, state>>
  /\ history'.confirmedWith = history.confirmedWith

LEMMA SavesStep ==
  ASSUME DpTypes, DpSteps, [Next]_vars, ~Decay
  PROVE  stale' = None \/ Saves \/ UNCHANGED <<records, stale>>
<1>0. history \in HistT
  BY DEF DpTypes
<1>1. \A f : SaveRecords(f) => stale' \in {records, None}
  BY DEF SaveRecords
<1>2. CASE Load
  BY <1>0, <1>1, <1>2 DEF Load, Saves, onSystem, HistT
<1>3. CASE InstallEntry
  BY <1>0, <1>1, <1>3 DEF InstallEntry, Saves, onSystem, HistT
<1>4. CASE BootFails \/ Confirm \/ ConfirmRetain \/ ConfirmAgain \/ FailBoot \/ Rollback
           \/ (\E d \in Deployments : Reject(d))
  BY <1>1, <1>4 DEF BootFails, Confirm, ConfirmRetain, ConfirmAgain, FailBoot, Rollback, Reject, RejectEntry,
     Saves, onSystem
<1>5. CASE \/ (\E d \in Deployments, latest, choice \in Sets \cup {None} : Install(d, latest, choice))
           \/ InstallAgain \/ Gc \/ GcAgain
  BY <1>1, <1>5 DEF Install, InstallAgain, Gc, GcAgain, Saves, onSystem
<1>6. CASE \/ (\E spends \in BOOLEAN : Compose(spends)) \/ Start \/ ConfirmState \/ Settle \/ SettleTrial
           \/ SettleComponents \/ (\E s \in Sets : SettleEnvelope(s)) \/ Abort \/ UNCHANGED vars
  BY <1>6 DEF Compose, Start, ConfirmState, Settle, SettleTrial, SettleComponents, SettleEnvelope, Abort, vars, durable
<1>7. CASE Crash
  BY <1>7 DEF Crash
<1>8. CASE \/ InstallState \/ InstallCollect \/ InstallForget \/ InstallObjects \/ InstallDescriptor
           \/ InstallComponents \/ InstallEnvelope \/ InstallSets \/ InstallDone
           \/ SetSteps \/ RejectState \/ GcCollect \/ GcForget
  BY <1>8 DEF InstallState, InstallCollect, InstallForget, InstallObjects, InstallDescriptor, InstallComponents,
     InstallEnvelope, InstallSets, InstallDone, PublishComponents, PublishEnvelope, SetSteps, InstallSet, SetEnvelope,
     SetTrial, SetPending, RejectState, GcCollect, GcForget
<1> QED BY <1>2, <1>3, <1>4, <1>5, <1>6, <1>7, <1>8
        DEF Next, BootSteps, ConfirmSteps, InstallSteps, OperatorSteps

\* While the copies may differ nothing leaves SYSTEM, and only set-install moves a binding.
LEMMA ApartKeeps ==
  ASSUME DpTypes, DpSteps, [Next]_vars, ~Decay, pc \notin Alike
  PROVE  /\ UNCHANGED <<descriptors, objects>>
         /\ sets' = sets \/ SetPending
         /\ history'.confirmedWith = history.confirmedWith
<1>0. history \in HistT
  BY DEF DpTypes
<1>1. /\ ~Settle /\ ~SettleTrial /\ ~SettleComponents /\ ~(\E s \in Sets : SettleEnvelope(s))
      /\ ~InstallState /\ ~InstallCollect /\ ~InstallForget /\ ~InstallObjects /\ ~InstallDescriptor
      /\ ~InstallComponents /\ ~InstallEnvelope /\ ~InstallSets /\ ~InstallEntry
      /\ ~GcAgain /\ ~GcCollect /\ ~GcForget
  BY DEF Settle, SettleTrial, SettleComponents, SettleEnvelope, InstallState, InstallCollect, InstallForget,
     InstallObjects, InstallDescriptor, InstallComponents, InstallEnvelope, InstallSets, InstallEntry,
     PublishComponents, PublishEnvelope, GcAgain, GcCollect, GcForget, Alike, Preparing
<1>2. CASE Load \/ (\E spends \in BOOLEAN : Compose(spends)) \/ SetTrial
  BY <1>0, <1>2 DEF Load, Compose, SetTrial, onSystem, HistT
<1>3. CASE ConfirmState \/ RejectState \/ InstallDone
  BY <1>0, <1>3, SavedHistory DEF ConfirmState, RejectState, InstallDone, onSystem
<1>4. CASE \/ Start \/ BootFails \/ Confirm \/ ConfirmRetain \/ ConfirmAgain \/ FailBoot \/ Rollback
           \/ (\E d \in Deployments : Reject(d)) \/ Abort \/ Crash \/ UNCHANGED vars
  BY <1>4 DEF Start, BootFails, Confirm, ConfirmRetain, ConfirmAgain, FailBoot, Rollback, Reject, RejectEntry,
     Abort, Crash, vars, durable, onSystem
<1>5. CASE \/ (\E d \in Deployments, latest, choice \in Sets \cup {None} : Install(d, latest, choice))
           \/ InstallAgain \/ Gc \/ (\E s \in Sets : InstallSet(s)) \/ SetEnvelope
  BY <1>5 DEF Install, InstallAgain, Gc, InstallSet, SetEnvelope, PublishComponents, PublishEnvelope, onSystem
<1>6. CASE SetPending
  BY <1>0, <1>6 DEF SetPending, onSystem, HistT
<1> QED BY <1>1, <1>2, <1>3, <1>4, <1>5, <1>6
        DEF Next, BootSteps, ConfirmSteps, InstallSteps, SetSteps, OperatorSteps

\* Before anything the records need goes, both copies say the same.
LEMMA AlikeStep ==
  ASSUME DpTypes, DpSteps, stale # None /\ pc \in Alike => stale = records, [Next]_vars, ~Decay, pc' \in Alike
  PROVE  stale' = None \/ stale' = records'
<1>0. Backend = "fit" \/ stale = None
  BY DeviceAssumption DEF DpTypes
<1>1. CASE ConfirmRetain
  BY <1>1 DEF ConfirmRetain, AfterRetain, SaveRecords, Alike, Preparing
<1>2. CASE \E d \in Deployments, latest, choice \in Sets \cup {None} : Install(d, latest, choice)
  BY <1>2 DEF Install, AfterRetain, SaveRecords, Alike, Preparing
<1>3. CASE ConfirmAgain \/ InstallAgain \/ GcAgain
  BY <1>3 DEF ConfirmAgain, InstallAgain, GcAgain, SaveRecords
<1>4. CASE Gc
  BY <1>0, <1>4 DEF Gc, SaveRecords
<1>5. CASE pc \in Alike /\ UNCHANGED <<records, stale>>
  BY <1>5
<1>6. CASE \/ Settle \/ SettleTrial \/ SettleComponents \/ (\E s \in Sets : SettleEnvelope(s))
           \/ InstallState \/ InstallCollect \/ InstallForget \/ InstallObjects \/ InstallDescriptor
           \/ InstallComponents \/ InstallEnvelope \/ InstallSets \/ GcCollect \/ GcForget \/ UNCHANGED vars
  <2>1. CASE \/ Settle \/ SettleTrial \/ SettleComponents \/ (\E s \in Sets : SettleEnvelope(s))
             \/ GcCollect \/ GcForget \/ UNCHANGED vars
    BY <1>5, <2>1 DEF Settle, SettleTrial, SettleComponents, SettleEnvelope, GcCollect, GcForget, vars, durable, Alike
  <2>2. CASE \/ InstallState \/ InstallCollect \/ InstallForget \/ InstallObjects \/ InstallDescriptor
             \/ InstallComponents \/ InstallEnvelope \/ InstallSets
    BY <1>5, <2>2 DEF InstallState, InstallCollect, InstallForget, InstallObjects, InstallDescriptor,
       InstallComponents, InstallEnvelope, InstallSets, PublishComponents, PublishEnvelope, Alike, Preparing
  <2> QED BY <1>6, <2>1, <2>2
<1>7. /\ ~BootSteps /\ ~Confirm /\ ~ConfirmState /\ ~InstallEntry /\ ~InstallDone /\ ~SetSteps /\ ~Abort /\ ~Crash
      /\ ~FailBoot /\ ~Rollback /\ ~RejectState /\ ~(\E d \in Deployments : Reject(d))
  <2>1. ~BootSteps /\ ~Confirm /\ ~ConfirmState /\ ~InstallEntry /\ ~InstallDone /\ ~Abort /\ ~Crash
    BY DEF BootSteps, Load, Compose, Start, BootFails, PowerOff, Confirm, ConfirmState, InstallEntry, InstallDone,
       Abort, Crash, Alike, Preparing
  <2>2. ~SetSteps /\ ~FailBoot /\ ~Rollback /\ ~RejectState /\ ~(\E d \in Deployments : Reject(d))
    BY DEF SetSteps, InstallSet, SetEnvelope, SetTrial, SetPending, PublishComponents, PublishEnvelope, FailBoot,
       Rollback, RejectState, Reject, RejectEntry, Alike, Preparing
  <2> QED BY <2>1, <2>2
<1> QED BY <1>1, <1>2, <1>3, <1>4, <1>6, <1>7 DEF Next, ConfirmSteps, InstallSteps, OperatorSteps

\* What the newest copy may boot is on SYSTEM and has its set.
LEMMA LeftIsLive ==
  Left(records) \subseteq Live
BY DEF Left, Live

\* A state that is saved has a current that both copies name: its entry was launched.
LEMMA SavedCurrent ==
  ASSUME DpTypes, DpSteps, DpFloor, DpCurrent, DpNames, stale # None,
         \A d \in DOMAIN records \ DOMAIN stale : records[d] = Attempts,
         ConfirmState \/ RejectState \/ InstallState \/ InstallDone
  PROVE  state'.current \in DOMAIN stale
<1>0. Attempts # 0 /\ Attempts # None /\ job.state \in StateT
  BY NoneIsApart, JobFields DEF DpTypes
<1>1. CASE ConfirmState \/ InstallState \/ InstallDone
  BY <1>1, <1>0 DEF ConfirmState, InstallState, InstallDone, DpSteps, Confirming, Preparing, DpNames,
     SaveState, DpFloor, StateT
<1>2. CASE RejectState
  BY <1>2, <1>0 DEF RejectState, SaveState, DpCurrent, DpNames, Named
<1> QED BY <1>1, <1>2

\* The older copy names only what boots still.
LEMMA OlderStep ==
  ASSUME DpTypes, DpSteps, DpSets, DpFloor, DpCurrent, DpNames, DpStored, DpOlder, [Next]_vars, ~Decay, DpStored',
         ~history.mixed /\ ~history.crossed => DpRuns,
         ~history'.mixed /\ ~history'.crossed => DpRuns'
  PROVE  DpOlder'
<1> SUFFICES ASSUME stale' # None PROVE DpOlder'
  BY DEF DpOlder
<1>1. pc' \in Alike => stale' = records'
  BY AlikeStep DEF DpOlder
<1>2. /\ history.mixed => history'.mixed
      /\ history.crossed => history'.crossed
      /\ history.unbound => history'.unbound
  BY FlagsStep
<1>3. \A d \in DOMAIN records' \ DOMAIN stale' : records'[d] = Attempts
  BY InstallEntryTypes, LoadIs, EntriesStep, SavesStep DEF DpOlder, Saves, InstallEntry, DpSteps
<1>4. CASE Saves
  BY LeftIsLive, <1>4, <1>2, <1>1, <1>3 DEF DpStored, Saves, Stored, DpCurrent, Sole, DpRuns, DpOlder
<1>5. CASE UNCHANGED <<records, stale>>
  <2>1. DOMAIN stale' \subseteq descriptors' /\ \A d \in Left(stale') : Stored(d)'
    BY <1>5, ApartKeeps DEF DpOlder, Left, Live, DpStored, Stored
  <2>2. (state.current \in DOMAIN stale \/ Sole(stale))'
    BY <1>5, SavedCurrent, QuietHistory, NextIs DEF DpOlder, Sole, Load, Compose, Settle, InstallEntry,
       SetTrial
  <2>3. ASSUME ~history'.unbound, ~history'.mixed, ~history'.crossed, NEW d \in Left(stale')
        PROVE  /\ <<Runkits(sets', d), d>> \in Runs
               /\ history'.confirmedWith[d] \in {None, Runkits(sets', d)}
    <3>1. CASE pc \in Alike
      BY <1>5, <2>3, <3>1 DEF DpOlder, Left, Live, DpRuns
    <3>2. CASE pc \notin Alike
      <4>1. /\ <<Runkits(sets, d), d>> \in Runs
            /\ history.confirmedWith[d] \in {None, Runkits(sets, d)}
        BY <1>2, <1>5, <2>3 DEF DpOlder
      <4>2. history'.confirmedWith = history.confirmedWith /\ (sets' = sets \/ SetPending)
        BY <3>2, ApartKeeps
      <4>3. ASSUME SetPending PROVE Runkits(sets', d) = Runkits(sets, d)
        <5>1. /\ None \notin Deployments /\ sets'.current = sets.current
              /\ DOMAIN sets'.bound = DOMAIN sets.bound \cap RetainedDeployments(records, None)
              /\ \A e \in DOMAIN sets'.bound : sets'.bound[e] = sets.bound[e]
              /\ Paired(sets) = None /\ Paired(sets') = None
          BY <4>3, SetPendingIs
        <5>2. history'.unbound =
                (history.unbound \/ (stale # None /\ \E e \in DOMAIN sets.bound \ RetainedDeployments(records, None) :
                                                       Usable(stale, e)))
          BY <4>3 DEF DpTypes, SetPending, HistT
        <5>3. stale = stale' /\ d \in DOMAIN stale /\ Usable(stale, d)
          BY <1>5, <2>3 DEF Left
        <5>4. d \in DOMAIN sets.bound => d \in DOMAIN sets'.bound
          BY <2>3, <5>1, <5>2, <5>3
        <5>5. d # None
          BY <5>3, <5>1, ListFacts DEF DpTypes
        <5> QED BY <5>1, <5>4, <5>5 DEF Runkits, Held
      <4> QED BY <4>1, <4>2, <4>3
    <3> QED BY <3>1, <3>2
  <2> QED BY <1>1, <1>3, <2>1, <2>2, <2>3 DEF DpOlder
<1> QED BY <1>4, <1>5, SavesStep

LEMMA InitOlder == Init => DpOlder
  BY InitStored, InitRuns, InitCurrent, LeftIsLive DEF DpOlder, Init, DpStored, DpRuns, DpCurrent

\* The loss of the newest copy leaves what the older names.
LEMMA DecayKeeps ==
  ASSUME DpTypes, DpSteps, DpOlder, Decay
  PROVE  /\ DpStored' /\ DpCurrent'
         /\ ~history'.mixed /\ ~history'.crossed /\ ~history'.unbound => DpRuns'
<1>1. /\ pc = "off" /\ booted = None /\ stale # None /\ records' = stale
      /\ UNCHANGED <<pc, booted, state, sets, descriptors, objects>>
  BY DEF Decay, DpSteps, onSystem
<1>2. /\ history'.confirmedWith = history.confirmedWith /\ history'.mixed = history.mixed
      /\ history'.crossed = history.crossed /\ history'.unbound = history.unbound
  BY DEF Decay, DpTypes, HistT
<1>3. Live' = Left(stale)
  BY <1>1 DEF Live, Left
<1>4. DpStored'
  BY <1>1, <1>3 DEF DpOlder, DpStored, Stored
<1>5. DpCurrent'
  BY <1>1 DEF DpOlder, DpCurrent, Sole, Preparing
<1>6. ~history'.mixed /\ ~history'.crossed /\ ~history'.unbound => DpRuns'
  BY <1>1, <1>2, <1>3 DEF DpOlder, DpRuns, Up
<1> QED BY <1>4, <1>5, <1>6

-----------------------------------------------------------------------------
\* Whether a settlement has anything to write.

\* The records tell a settlement only which deployments are retained.
LEMMA SettlementSame ==
  ASSUME NEW ss, NEW tr, NEW r1, NEW r2, NEW b, NEW ran,
         RetainedDeployments(r1, b) = RetainedDeployments(r2, b)
  PROVE  Settlement(ss, tr, r1, b, ran) = Settlement(ss, tr, r2, b, ran)
<1>1. SettlementKind(ss, tr, r1, b, ran) = SettlementKind(ss, tr, r2, b, ran)
  BY DEF SettlementKind
<1> QED BY <1>1 DEF Settlement

\* Nothing between the decision and the settlement changes what is retained.
LEMMA WritableStep ==
  ASSUME DpTypes, DpSteps, DpNames, DpWritable, [Next]_vars, ~Decay
  PROVE  DpWritable'
<1>1. CASE Confirm
  <2>1. PICK r1, r2 : r1 = records /\ r2 = records'
    OBVIOUS
  <2>2. booted \in DOMAIN records /\ IsList(records)
    BY <1>1 DEF Confirm, ConfirmOk, DpTypes
  <2>3. /\ DOMAIN r2 = DOMAIN r1 /\ \A d \in DOMAIN r1 : d # booted => r2[d] = r1[d]
    BY <2>2, ListFacts, <1>1, <2>1 DEF Confirm, SaveRecords
  <2>4. RetainedDeployments(r1, booted) = RetainedDeployments(r2, booted)
    BY <2>3 DEF RetainedDeployments
  <2>5. PICK ss, tr, b, ran : ss = sets /\ tr = trial /\ b = booted /\ ran = core.set
    OBVIOUS
  <2>6. Settlement(ss, tr, r1, b, ran) = Settlement(ss, tr, r2, b, ran)
    BY <2>4, <2>5, SettlementSame
  <2>7. UNCHANGED <<sets, trial, booted, core>> /\ job'.writable = (Settlement(ss, tr, r1, b, ran) # ss)
    BY <1>1, <2>1, <2>5 DEF Confirm, NoJob
  <2> QED BY <2>1, <2>5, <2>6, <2>7 DEF DpWritable
<1>2. CASE ConfirmRetain
  <2> DEFINE keep == DOMAIN records \cap Retained(job.state)
  <2>1. pc = "confirm.retain" /\ pc' \in {"confirm.again", "settle"} /\ UNCHANGED <<sets, trial, booted, core, job>>
        /\ booted \in DOMAIN records /\ records[booted] = None /\ job.state.current = booted
    BY <1>2 DEF ConfirmRetain, AfterRetain, DpSteps, Confirming
  <2>2. /\ booted \in keep /\ DOMAIN Restrict(records, keep) = keep
        /\ \A x \in keep : Restrict(records, keep)[x] = records[x]
    BY <2>1, RetainedList DEF Confirming
  <2>3. records' = Restrict(records, keep)
    BY <1>2 DEF ConfirmRetain, SaveRecords
  <2>4. \A d \in DOMAIN records : records[d] # 0 => d \in keep
    BY <2>1 DEF DpNames, Usable
  <2>5. RetainedDeployments(records, booted) = RetainedDeployments(records', booted)
    BY <2>2, <2>3, <2>4 DEF RetainedDeployments
  <2>6. PICK ss, tr, b, ran, r1, r2 : ss = sets /\ tr = trial /\ b = booted /\ ran = core.set
                                       /\ r1 = records /\ r2 = records'
    OBVIOUS
  <2>7. Settlement(ss, tr, r1, b, ran) = Settlement(ss, tr, r2, b, ran)
    BY <2>5, <2>6, SettlementSame
  <2>8. job.writable \/ Settlement(ss, tr, r1, b, ran) = ss
    BY <2>1, <2>6 DEF DpWritable, Confirming
  <2> QED BY <2>1, <2>6, <2>7, <2>8 DEF DpWritable
<1>3. CASE ConfirmState \/ ConfirmAgain
  BY <1>3 DEF ConfirmState, ConfirmAgain, SaveRecords, Confirming, DpWritable
<1>4. CASE UNCHANGED vars
  BY <1>4 DEF vars, durable, DpWritable
<1>5. CASE ~(Confirm \/ ConfirmRetain \/ ConfirmState \/ ConfirmAgain) /\ Next
  <2>1. pc' \notin Confirming \cup {"settle"}
    <3>1. CASE BootSteps \/ Settle \/ SettleTrial \/ SettleComponents \/ (\E s \in Sets : SettleEnvelope(s))
               \/ Abort \/ Crash
      BY <3>1 DEF BootSteps, Load, Compose, Start, BootFails, PowerOff, Settle, SettleTrial, SettleComponents,
         SettleEnvelope, Abort, Crash, Confirming
    <3>2. CASE InstallSteps
      BY <3>2 DEF InstallSteps, Install, InstallAgain, InstallState, InstallCollect, InstallForget, InstallObjects,
         InstallDescriptor, InstallComponents, InstallEnvelope, InstallSets, InstallEntry, InstallDone,
         PublishComponents, PublishEnvelope, AfterRetain, Confirming
    <3>3. CASE SetSteps
      BY <3>3 DEF SetSteps, InstallSet, SetEnvelope, SetTrial, SetPending, PublishComponents, PublishEnvelope, Confirming
    <3>4. CASE OperatorSteps
      BY <3>4 DEF OperatorSteps, FailBoot, Rollback, Reject, RejectEntry, RejectState, Gc, GcAgain, GcCollect,
         GcForget, AfterRetain, Confirming
    <3> QED BY <1>5, <3>1, <3>2, <3>3, <3>4 DEF Next, ConfirmSteps
  <2> QED BY <2>1 DEF DpWritable
<1> QED BY <1>1, <1>2, <1>3, <1>4, <1>5

LEMMA InitWritable == Init => DpWritable
BY DEF Init, DpWritable, Confirming

-----------------------------------------------------------------------------
\* The whole invariant.
DpStore ==
  /\ DpInv /\ DpSets /\ DpTrial /\ DpFloor /\ DpCurrent /\ DpStored
  /\ Misbound \/ DpRuns
  /\ DpKept

LEMMA DpStoreStep == DpStore /\ [Next]_vars => DpStore'
<1> SUFFICES ASSUME DpStore, [Next]_vars PROVE DpStore'
  OBVIOUS
<1>1. DpInv' /\ DpTypes /\ DpSteps /\ DpSets /\ DpTrial /\ DpFloor /\ DpCurrent /\ DpStored
  BY DpInvStep DEF DpStore, DpInv
<1>2. DpSets' /\ DpTrial' /\ DpFloor'
  BY <1>1, SetsStep, TrialStep, FloorStep
<1>3. /\ history.decayed => history'.decayed
      /\ history.mixed => history'.mixed
      /\ history.crossed => history'.crossed
      /\ history.unbound => history'.unbound
      /\ Decay => history'.decayed
  BY <1>1, FlagsStep
<1>4. CASE Decay
  BY <1>4, <1>1, DecayKeeps, <1>2, <1>3 DEF Decay, DpStore, DpKept, Misbound
<1>5. CASE ~Decay
  <2>1. DpStored' /\ DpCurrent'
    BY <1>1, <1>5, StoredStep, CurrentStep
  <2>2. ~Misbound' => ~Misbound
    BY <1>3 DEF Misbound
  <2>3. ~Misbound' => DpRuns'
    BY <2>2, <1>1, <1>5, RunsStep DEF DpStore, Misbound
  <2>4. ASSUME ~history'.decayed
        PROVE  (DpData /\ DpLaunches /\ DpApart /\ DpNames /\ DpWritable /\ DpOlder)'
    <3>1. ~history.decayed /\ DpData /\ DpLaunches /\ DpApart /\ DpNames /\ DpWritable /\ DpOlder
      BY <1>3, <2>4 DEF DpStore, DpKept
    <3>2. DpData' /\ DpLaunches'
      BY <1>1, <1>5, <3>1, DataStep, LaunchesStep
    <3>3. DpApart' /\ DpNames' /\ DpWritable'
      BY <1>1, <1>5, <3>1, ApartStep, NamesStep, WritableStep
    <3>4. /\ ~history.mixed /\ ~history.crossed => DpRuns
          /\ ~history'.mixed /\ ~history'.crossed => DpRuns'
      BY <2>3, <2>4, <3>1 DEF DpStore, Misbound
    <3>5. DpOlder'
      BY <1>1, <1>5, <2>1, <3>1, <3>4, OlderStep
    <3> QED BY <3>2, <3>3, <3>5
  <2> QED BY <1>1, <1>2, <2>1, <2>3, <2>4 DEF DpStore, DpKept
<1> QED BY <1>4, <1>5

LEMMA DpStoreAlways == Spec => []DpStore
<1>1. Init => DpStore
  BY InitTypes, InitSets, InitTrial, InitFloor, InitCurrent, InitData, InitLaunches, InitStored, InitApart, InitNames,
     InitWritable, InitRuns, InitOlder DEF DpStore, DpInv, DpKept
<1> QED BY <1>1, DpStoreStep, PTL DEF Spec

-----------------------------------------------------------------------------
\* What the invariant says of the store.

\* A set that runs over d by the state composes over it, whatever is left of a set on trial.
LEMMA ItComposes ==
  ASSUME DpTypes, DpSets, NEW d \in Deployments, <<Runkits(sets, d), d>> \in Runs, NEW tr \in TrialT
  PROVE  Composed(d, tr).ok
<1>1. Runkits(sets, d) \in Sets /\ Runkits(sets, d) # None /\ d # None
  BY RulesAssumption, NoneIsApart
<1>2. Runkits(sets, d) \in NamedSets(sets)
  BY <1>1, NamedIs DEF DpTypes, Runkits, Held, Paired
<1>3. SetUsable(Runkits(sets, d), d)
  BY <1>2 DEF DpSets, Whole, SetUsable
<1> DEFINE found == Composed(d, tr)
           tries == /\ sets.pending # None /\ Paired(sets) = None /\ Bound(sets, d) = None
                    /\ ~TrialIsOver(tr, sets.pending) /\ SetUsable(sets.pending, d)
<1>4. /\ found.set = IF tries THEN sets.pending ELSE Runkits(sets, d)
      /\ found.ok <=> found.set # None /\ SetUsable(found.set, d)
  BY ComposedFacts
<1> QED BY <1>1, <1>3, <1>4

\* Every entry with a boot left boots, of the records and of their older copy.
LEMMA EntriesAreWhole ==
  ASSUME DpStore
  PROVE  EntriesBoot
<1>1. DpTypes /\ DpSets /\ DpStored
  BY DEF DpStore, DpInv
<1>2. trial \in TrialT /\ NoTrial \in TrialT /\ DOMAIN records \in SUBSET Deployments
  BY <1>1, NoTrialType, ListFacts DEF DpTypes
<1>3. ASSUME NEW d \in DOMAIN records, Usable(records, d)
      PROVE  Stored(d) /\ ((history.decayed /\ history.unbound) \/ Composes(d))
  BY <1>2, <1>3, <1>1, ItComposes DEF Live, DpStore, DpRuns, DpStored, Composes, Misbound
<1>4. ASSUME stale # None, ~history.decayed, NEW d \in DOMAIN stale, Usable(stale, d)
      PROVE  Stored(d) /\ (history.unbound \/ Composes(d))
  BY <1>4, <1>1, ListFacts, <1>2, ItComposes DEF Left, DpStore, DpKept, DpTypes, DpOlder, Composes
<1> QED BY <1>3, <1>4 DEF EntriesBoot

\* The readers accept both states.
LEMMA StateIsReadable ==
  ASSUME DpStore
  PROVE  StateReadable
  BY DEF DpStore, DpCurrent, Sole, EffectiveOk, DpSets, Whole, StateReadable

\* A boot composes the set its deployment was confirmed with.
LEMMA OwnSetBoots ==
  ASSUME DpStore
  PROVE  BootsConfirmedSetApart
  BY DEF BootsConfirmedSetApart, BootsConfirmedSet, Misbound, DpStore, DpInv, DpSteps, Live, DpRuns

\* Trials are bounded, a rejected release has no boot, and a settlement can be written.
LEMMA VerdictsHold ==
  ASSUME DpStore, ~history.decayed
  PROVE  TrialsBounded /\ RejectedNeverReturns /\ SettleWritable
<1>1. DpTypes /\ DpTrial /\ DpData /\ DpLaunches /\ DpWritable
  BY DEF DpStore, DpInv, DpKept
<1>2. TrialsBounded
  BY <1>1, NoneIsApart DEF DpTypes, HistT, TrialT, DpTrial, DpLaunches, TrialsBounded
<1>3. RejectedNeverReturns
  BY <1>1 DEF DpData, Spent, Usable, RejectedNeverReturns
<1>4. SettleWritable
  BY <1>1 DEF DpWritable, SettleWritable
<1> QED BY <1>2, <1>3, <1>4

\* With no operation under way micad reads the store and says of it what is so.
LEMMA ReportsAreTrue ==
  ASSUME DpStore, ~history.decayed
  PROVE  ReportsHold
<1> SUFFICES ASSUME pc = "idle" PROVE ReportsHold
  BY DEF ReportsHold
<1> DEFINE eff == EffectiveState(records, state)
           left == {d \in DOMAIN records : Usable(records, d)}
           next == Newest(left)
<1>1. DpTypes /\ DpSteps /\ DpSets /\ DpFloor /\ DpCurrent /\ DpData /\ DpStored /\ DpApart /\ DpNames /\ Named(state)
  BY DEF DpStore, DpInv, DpKept, DpNames
<1>2. /\ IsList(records) /\ state \in StateT /\ booted \in DOMAIN records /\ booted # None
      /\ DOMAIN records \in SUBSET Deployments /\ None \notin DOMAIN records /\ None # 0
      /\ \A d \in DOMAIN records : Generation[d] \in Nat
  BY <1>1, ListFacts, NoneIsApart DEF DpTypes, DpSteps
<1>3. EffectiveNames(records, state)
  BY <1>2, EffectiveNamed
<1>4. /\ eff.current \in DOMAIN records /\ records[eff.current] \in {None, 0}
      /\ eff.fallback \in DOMAIN records \cup {None}
      /\ eff.fallback # None => records[eff.fallback] \in {None, 0}
      /\ \A d \in DOMAIN records : Usable(records, d) => d \notin Failed(state)
  BY <1>1, EffectiveEntry
<1>5. left # {} => next \in left /\ \A e \in left : Generation[next] >= Generation[e]
  BY <1>2, NewestIs
<1>6. PICK e : e = eff
  OBVIOUS
<1>7. Failed(e) = Failed(state)
  BY <1>3, <1>6 DEF EffectiveNames, Failed
<1>8. /\ Status.boot = booted /\ Status.state = e /\ Status.deployments = records
      /\ Status.pending = sets.pending
  BY <1>6 DEF Status
<1>9. e.candidate \in Candidates(records, state, e.current, e.fallback) \cup {None}
      /\ (Candidates(records, state, e.current, e.fallback) # {} => e.candidate # None)
  BY <1>2, <1>3, <1>4, <1>6 DEF EffectiveNames
<1>10. StateReadable
  BY StateIsReadable
<1>11. StatusServed
  <2>1. e.candidate \in DOMAIN records \cup {None}
    BY <1>9 DEF Candidates
  <2>2. Retained(e) \subseteq DOMAIN records
    BY <1>4, <1>6, <2>1 DEF Retained
  <2>3. Parses(Status)
    BY <1>1, <1>2, <1>8, <2>2 DEF Parses, DpApart
  <2> QED BY <1>1, <1>10, <2>3 DEF StatusServed, StateReadable, Described, SetsDescribed, DpStored
<1>12. RollbackAsked <=> /\ ReceiptOk /\ RollbackOk(records, state, booted)
                         /\ RejectOk(records, state, booted)
  <2>1. RollbackAsked <=> RollbackRefused(Status) = None
    BY <1>11 DEF RollbackAsked, ActionPasses
  <2>2. RollbackRefused(Status) = None <=>
          /\ e.candidate = None /\ e.current = booted /\ booted \notin Failed(e)
          /\ e.fallback \notin Failed(e) \cup {None, booted} /\ Usable(records, e.fallback)
    BY <1>8, RefusalAssumption DEF RollbackRefused
  <2>3. RollbackOk(records, state, booted) <=>
          /\ e.candidate = None /\ e.current = booted /\ booted \notin Failed(e)
          /\ e.fallback \notin Failed(e) \cup {None, booted} /\ Usable(records, e.fallback)
    BY <1>6, <1>10 DEF RollbackOk, StateReadable
  <2>4. e.fallback \notin {None, booted} /\ Usable(records, e.fallback) => RejectOk(records, state, booted)
    BY <1>2, <1>6, <1>10 DEF RejectOk, StateReadable, OtherUsable, Usable
  <2>5. ReceiptOk
    BY <1>2 DEF ReceiptOk
  <2> QED BY <2>1, <2>2, <2>3, <2>4, <2>5
<1>13. ASSUME Phase(Status) \in {"succeeded", "rolled-back"} PROVE next = booted
  <2>1. e.candidate = None /\ e.current = booted
    BY <1>8, <1>13 DEF Phase, CorePhase
  <2>2. \A x \in DOMAIN records \ {booted} : Usable(records, x) => records[x] = None
    BY <1>1, <1>2, <1>4, <1>6, <2>1, <1>9 DEF Usable, DpApart, Candidates
  <2>3. \A x \in DOMAIN records \ {booted} :
          Usable(records, x) => booted \in Unrejected(records, state) /\ Generation[booted] > Generation[x]
    BY <1>4, <2>2, <1>3, <1>6, <2>1, <1>1, <1>2 DEF Unrejected, EffectiveNames, DpApart
  <2>4. booted \in left
    BY <1>2, <2>3, <1>3, <1>6, <2>1, <1>1 DEF Usable, Unrejected, EffectiveNames, Named, OtherUsable
  <2>5. next \in left /\ Generation[next] >= Generation[booted]
    BY <1>5, <2>4
  <2> HIDE DEF next
  <2> QED BY <1>2, <2>3, <2>5
<1>14. ASSUME Phase(Status) = "reboot-required", sets.pending = None PROVE next # booted
  <2>1. booted \in Failed(e) \/ e.candidate \notin {None, booted}
    BY <1>8, <1>14 DEF Phase, CorePhase
  <2>2. CASE booted \in Failed(e)
    BY <1>1, <1>7, <2>2, <1>2, <1>5 DEF DpFloor, DpData, Spent, OtherUsable, Usable
  <2>3. CASE e.candidate \notin {None, booted}
    <3>1. e.candidate \in DOMAIN records /\ records[e.candidate] \notin {None, 0}
      BY <1>9, <2>3 DEF Candidates
    <3>2. Generation[booted] < Generation[e.candidate] /\ e.candidate \in left
      BY <1>1, <1>2, <2>3, <3>1 DEF DpApart, Usable
    <3>3. next \in left /\ Generation[next] >= Generation[e.candidate]
      BY <1>5, <3>2
    <3> HIDE DEF next
    <3> QED BY <1>2, <3>1, <3>2, <3>3
  <2> QED BY <2>1, <2>2, <2>3
<1> QED BY <1>11, <1>12, <1>13, <1>14 DEF ReportsHold

LEMMA StoreHolds == DpStore => StoreSafe
  BY TypesHold, EntriesAreWhole, StateIsReadable, OwnSetBoots, VerdictsHold, ReportsAreTrue DEF DpStore,
     StoreSafe, EntriesSafe, SettleWritable, ReportsHold

\* On either backend, with any number of deployments, sets, objects and attempts, whatever is
\* interrupted and whichever copy of the records is lost: every entry the loader can take has
\* its objects and composes, its readers accept the state, a boot that is no trial composes
\* the set its deployment was confirmed with, trials are bounded, a rejected release has no
\* boot, and what micad reports of the running deployment is what the loader will do.
THEOREM StoreIsSafe == Spec => []StoreSafe
BY DpStoreAlways, StoreHolds, PTL

=============================================================================
