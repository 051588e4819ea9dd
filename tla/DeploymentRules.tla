-------------------------- MODULE DeploymentRules ---------------------------
(***************************************************************************)
(* The decisions of mica-deploy and the runkit as operators on the durable *)
(* facts they read: the native boot records, DATA's deployments.json,      *)
(* SYSTEM's set state and DATA's set trial.  Deployments.tla applies them  *)
(* step by step, with interruptions in between.                            *)
(*                                                                         *)
(* Boot records are a function from the (at most two) deployments that     *)
(* have an entry to the attempts left: None for a confirmed one.  A        *)
(* deployment's id is the digest of its descriptor, so its generation,     *)
(* objects and image set are functions of the id.                          *)
(***************************************************************************)
EXTENDS Integers, Sequences, FiniteSets, Functions

CONSTANTS
  Deployments,    \* deployment ids
  Sets,           \* core set ids
  None,           \* Option::None
  Generation,     \* generation of each deployment
  Channel,        \* channel of each set
  SetGeneration,  \* generation of each set within its channel
  GENERAL,        \* the channel a system update may move core along
  ImageSet,       \* the core set a deployment's image carries, or None
  Runs,           \* <<set, deployment>>: the set selects on its root
  Attempts,       \* boots a new deployment is given: 3
  TrialAttempts,  \* boots a new set alone is given: TRIAL_ATTEMPTS, 3
  MaxFailed       \* bound of State.failed: 128

ASSUME RulesAssumption ==
  /\ None \notin Deployments \cup Sets \cup Nat
  /\ Generation \in [Deployments -> Nat \ {0}]
  /\ SetGeneration \in [Sets -> Nat]
  /\ ImageSet \in [Deployments -> Sets \cup {None}]
  /\ Runs \subseteq Sets \X Deployments
  /\ Attempts \in Nat \ {0} /\ TrialAttempts \in Nat \ {0}
  /\ MaxFailed \in Nat \ {0}

-----------------------------------------------------------------------------
(* Boot records *)

\* The entry has a boot left: uncounted, or with attempts.
Usable(records, d) == d \in DOMAIN records /\ records[d] # 0

\* Another entry could be booted instead of d.
OtherUsable(records, d) == \E e \in DOMAIN records \ {d} : Usable(records, e)

\* The entry of the highest generation among ds (entries are sorted by it).
Newest(ds) == CHOOSE d \in ds : \A e \in ds : Generation[d] >= Generation[e]

MaxOf(n, m) == IF n >= m THEN n ELSE m

-----------------------------------------------------------------------------
(* DATA's deployments.json *)

\* State::default.
NoState == [highest |-> 0, current |-> None, fallback |-> None,
            candidate |-> None, failed |-> << >>]

Failed(state) == Range(state.failed)

\* A failed id pushed, the oldest dropped at the bound.
PushFailed(failed, d) ==
  Append(IF Len(failed) = MaxFailed THEN Tail(failed) ELSE failed, d)

\* id if P(id), else None: Option::filter.
Keep(id, P(_)) == IF id # None /\ P(id) THEN id ELSE None

(***************************************************************************)
(* effective_state: the records are committed before DATA, so what they    *)
(* say wins.  The newest uncounted entry that is not failed is current;    *)
(* the fallback is an entry; the candidate is what is on trial above       *)
(* current.                                                                *)
(***************************************************************************)
EffectiveState(records, state) ==
  LET entries == DOMAIN records
      failed == Failed(state)
      highest == IF entries = {} THEN state.highest
                 ELSE MaxOf(state.highest, Generation[Newest(entries)])
      uncounted == {d \in entries : records[d] = None /\ d \notin failed}
      confirmed == Newest(uncounted)
      moved == uncounted # {} /\ state.current # confirmed
      usable(d) == d # confirmed /\ Usable(records, d) /\ d \notin failed
      current == IF moved THEN confirmed ELSE state.current
      kept == IF ~moved THEN state.fallback
              ELSE IF Keep(state.current, usable) # None THEN state.current
              ELSE Keep(state.fallback, usable)
      isEntry(d) == d \in entries
      fallback == Keep(kept, isEntry)
      candidates == {d \in entries :
                       /\ Generation[d] > Generation[current]
                       /\ records[d] \notin {None, 0}
                       /\ d \notin failed \cup {fallback}}
  IN [highest |-> highest, current |-> current, fallback |-> fallback,
      candidate |-> IF current = None THEN state.candidate
                    ELSE IF candidates = {} THEN None ELSE Newest(candidates),
      failed |-> state.failed]

\* effective_state answers: the confirmed deployment has an entry.
EffectiveOk(records, state) ==
  LET uncounted == {d \in DOMAIN records : records[d] = None /\ d \notin Failed(state)}
  IN uncounted # {} \/ state.current \in DOMAIN records \cup {None}

-----------------------------------------------------------------------------
(* confirm, rollback and reject *)

\* The state confirm records: spent entries failed, the booted one current,
\* the deployment it replaces its fallback.
ConfirmedState(records, state, booted) ==
  LET effective == EffectiveState(records, state)
      spent == {d \in DOMAIN records \ {booted} :
                  records[d] = 0 /\ d \notin Failed(effective)}
      failed == IF spent = {} THEN effective.failed
                ELSE PushFailed(effective.failed, Newest(spent))
      usable(d) == Usable(records, d)
      other(d) == d # booted /\ Usable(records, d)
      others == {d \in DOMAIN records : other(d)}
      fallback == IF effective.current = booted THEN Keep(effective.fallback, other)
                  ELSE IF Keep(effective.current, usable) # None THEN effective.current
                  ELSE IF others = {} THEN None ELSE Newest(others)
  IN [effective EXCEPT
        !.current = booted,
        !.fallback = fallback,
        !.candidate = IF @ \in Range(failed) \cup {booted} THEN None ELSE @,
        !.failed = failed]

\* confirm's refusals: the booted entry exists, was launched, is not rejected.
ConfirmOk(records, state, booted) ==
  /\ EffectiveOk(records, state)
  /\ booted \in DOMAIN records
  /\ records[booted] # Attempts
  /\ booted \notin Failed(ConfirmedState(records, state, booted))

\* The entries confirm retains.
Retained(state) == {state.current, state.fallback, state.candidate} \ {None}

\* reject's refusals: the entry exists, another can boot, it is not the
\* fallback.
RejectOk(records, state, d) ==
  /\ EffectiveOk(records, state)
  /\ d \in DOMAIN records
  /\ OtherUsable(records, d)
  /\ EffectiveState(records, state).fallback # d

RejectedState(records, state, d) ==
  [EffectiveState(records, state) EXCEPT
     !.failed = IF d \in Range(@) THEN @ ELSE PushFailed(@, d),
     !.candidate = IF @ = d THEN None ELSE @]

\* rollback's refusals before it rejects the booted deployment.
RollbackOk(records, state, booted) ==
  LET effective == EffectiveState(records, state) IN
  /\ EffectiveOk(records, state)
  /\ effective.candidate = None
  /\ effective.current = booted
  /\ booted \notin Failed(effective)
  /\ effective.fallback \notin Failed(effective) \cup {None, booted}
  /\ Usable(records, effective.fallback)

\* Faulty variant: retires the last bootable entry.
RetiresAlone(records, d) ==
  d \in DOMAIN records /\ records[d] = None

\* retire_failed_confirmed acts: an uncounted entry, and another can boot.
Retires(records, d) ==
  /\ d \in DOMAIN records /\ records[d] = None
  /\ OtherUsable(records, d)

-----------------------------------------------------------------------------
(* SYSTEM's set state *)

NoTrial == [id |-> None, left |-> 0]

\* SetState::paired: a pair means nothing without a pending set.
Paired(sets) == IF sets.pending = None THEN None ELSE sets.pair

\* The set the deployment is bound to, or None.
Bound(sets, d) == IF d \in DOMAIN sets.bound THEN sets.bound[d] ELSE None

NamedSets(sets) ==
  ({sets.current, sets.pending} \cup Range(sets.bound)) \ {None}

\* read_state's refusal.
SetStateOk(sets) == sets.pending = None \/ sets.pending # sets.current

\* trial_is_over: the trial is gone, another set's, or spent.
TrialIsOver(trial, pending) == trial.id # pending \/ trial.left = 0

\* retained_deployments.
RetainedDeployments(records, booted) ==
  {d \in DOMAIN records : records[d] # 0 \/ d = booted}

Merge(f, g) == [x \in DOMAIN f \cup DOMAIN g |->
                  IF x \in DOMAIN f THEN f[x] ELSE g[x]]

\* make_current: the set is current, and each other retained deployment that
\* is not bound is bound to the set it ran.
MakeCurrent(sets, id, others) ==
  [sets EXCEPT
     !.current = id,
     !.bound = IF sets.current = None THEN @
               ELSE Merge(@, [d \in others |-> sets.current])]

\* Faulty variant: a set whose trial ran out becomes current.
SettlementKindSpentCommits(sets, trial, records, booted, ran) ==
  CASE sets.pending = None -> "unchanged"
    [] sets.pending # None /\ sets.pending = ran -> "committed"
    [] sets.pending \notin {None, ran} /\ Paired(sets) # None ->
         IF Paired(sets) # booted /\ Paired(sets) \in RetainedDeployments(records, booted)
         THEN "unchanged" ELSE "dropped"
    [] OTHER -> IF TrialIsOver(trial, sets.pending) THEN "committed" ELSE "unchanged"

\* The verdict of a healthy boot on the pending set.
SettlementKind(sets, trial, records, booted, ran) ==
  LET paired == Paired(sets)
      waits == paired # booted /\ paired \in RetainedDeployments(records, booted)
  IN CASE sets.pending = None -> "unchanged"
       [] sets.pending # None /\ sets.pending = ran -> "committed"
       [] sets.pending \notin {None, ran} /\ paired # None ->
            IF waits THEN "unchanged" ELSE "dropped"
       [] OTHER -> IF TrialIsOver(trial, sets.pending) THEN "dropped" ELSE "unchanged"

\* settlement: the set state that verdict leaves.
Settlement(sets, trial, records, booted, ran) ==
  LET retained == RetainedDeployments(records, booted)
      others == retained \ {booted}
      kind == SettlementKind(sets, trial, records, booted, ran)
      settled ==
        CASE kind = "committed" ->
               MakeCurrent([sets EXCEPT !.pending = None], sets.pending, others)
          [] kind = "dropped" -> [sets EXCEPT !.pending = None]
          [] OTHER -> sets
      own == Bound(settled, booted)
      unbound == [settled EXCEPT
                    !.bound = Restrict(@, DOMAIN @ \ {booted})]
      returned == IF own # None /\ unbound.current # own
                  THEN MakeCurrent(unbound, own, others) ELSE unbound
      paired == [returned EXCEPT
                   !.pair = IF returned.pending = None THEN None ELSE @]
  IN [paired EXCEPT
        !.bound = Restrict(@, {d \in DOMAIN @ \cap retained :
                                 @[d] # paired.current})]

(***************************************************************************)
(* composition: what the runkit puts over the root of deployment d.  The   *)
(* set a pair or a binding names must be usable; a set alone is tried when *)
(* a boot of its trial can be spent, and passed over when it is not usable.*)
(***************************************************************************)
Composition(sets, trial, d, usable(_)) ==
  LET must(id) == [set |-> id, pending |-> FALSE, paired |-> FALSE,
                   ok |-> id # None /\ usable(id)]
      tries == /\ sets.pending # None /\ Paired(sets) = None
               /\ ~TrialIsOver(trial, sets.pending)
  IN IF Paired(sets) = d
       THEN [must(sets.pending) EXCEPT !.pending = TRUE, !.paired = TRUE]
     ELSE IF Bound(sets, d) # None THEN must(Bound(sets, d))
     ELSE IF tries /\ usable(sets.pending)
       THEN [must(sets.pending) EXCEPT !.pending = TRUE]
     ELSE must(sets.current)

\* spend_attempt: the trial once the runkit has looked at a set alone.
SpentTrial(sets, trial, d) ==
  IF /\ Bound(sets, d) = None
     /\ sets.pending # None /\ Paired(sets) = None
     /\ ~TrialIsOver(trial, sets.pending)
  THEN [trial EXCEPT !.left = @ - 1] ELSE trial

-----------------------------------------------------------------------------
(* Which set a new deployment boots with *)

\* newer_image_set: the device follows general, below the image's set.
NewerImageSet(sets, d) ==
  LET image == ImageSet[d] IN
  /\ image # None /\ sets.current # None
  /\ Channel[image] = GENERAL /\ Channel[sets.current] = GENERAL
  /\ SetGeneration[sets.current] < SetGeneration[image]

(***************************************************************************)
(* core_choice: None keeps the device's set; otherwise the set installed   *)
(* as a pair, the channel's latest before the image's own.  The choices    *)
(* allowed for d given the channel's latest set (None when not fetched):   *)
(* empty when install refuses.                                             *)
(***************************************************************************)
CoreChoices(sets, d, latest) ==
  LET image == ImageSet[d]
      offered == /\ latest # None /\ Channel[latest] = GENERAL
                 /\ SetGeneration[latest] >= SetGeneration[image]
                 /\ <<latest, d>> \in Runs
  IN IF sets.pending # None \/ sets.current = None THEN {}
     ELSE IF ~NewerImageSet(sets, d)
       THEN IF <<sets.current, d>> \in Runs THEN {None} ELSE {}
     ELSE IF offered THEN {latest}
     ELSE IF <<image, d>> \in Runs THEN {image} ELSE {}
=============================================================================
