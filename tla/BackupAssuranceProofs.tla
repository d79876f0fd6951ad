------------------------ MODULE BackupAssuranceProofs ------------------------
(***************************************************************************)
(* Proofs about BackupAssurance for any number of replicas, conditions,    *)
(* policies, rows, failures and changes, whether or not leases expire      *)
(* under a running tick and whatever the caches hold.                      *)
(***************************************************************************)
EXTENDS BackupAssurance, SequenceTheorems, FiniteSetTheorems, NaturalsInduction,
        WellFoundedInduction, TLAPS

-----------------------------------------------------------------------------
(* The inductive invariant *)

FenceBounded == ~lease.live => lease.fence < MaxFence

\* Every row has the intents of the transitions it has made.
IntentsFit ==
    \A i \in Id :
        /\ intents[<<i, "opened">>] # NoIntent <=> exceptions[i].state \in {"open", "resolved"}
        /\ intents[<<i, "resolved">>] # NoIntent <=> exceptions[i].state = "resolved"

\* A transition that was made: a deleted row may have been resolved first.
Made(k) ==
    exceptions[k[1]].state \in
        IF k[2] = "opened" THEN {"open", "resolved", "deleted"} ELSE {"resolved", "deleted"}

\* The outbox names no transition twice and only transitions that were made.
QueuedOnce ==
    /\ \A n \in 1 .. Len(outbox) : Made(outbox[n])
    /\ \A m, n \in 1 .. Len(outbox) : outbox[m] = outbox[n] => m = n
    /\ \A k \in IntentKey : intents[k] # NoIntent => \E n \in 1 .. Len(outbox) : outbox[n] = k
    /\ \A k \in IntentKey : sends[k] > 0 => \E n \in 1 .. Len(outbox) : outbox[n] = k

\* A tick holds jobs while it drains only, and one at least while it marks.
JobsQueued ==
    \A r \in Replica :
        ~At(r, "idle") =>
            /\ ticks[r].jobs \subseteq 1 .. Len(outbox)
            /\ ticks[r].at \notin {"emit", "mark"} => ticks[r].jobs = {}
            /\ At(r, "mark") => ticks[r].jobs # {}

\* The intents a tick has claimed and not sent yet, by their places.
Owed(r) ==
    IF At(r, "emit") THEN ticks[r].jobs
    ELSE IF At(r, "mark") THEN ticks[r].jobs \ {FirstJob(r)} ELSE {}

Owing(k) == {r \in Replica : \E n \in Owed(r) : outbox[n] = k}

\* Every send, made or owed by a claimer, has spent an attempt of its intent.
SendsCovered ==
    \A k \in IntentKey :
        /\ IsFiniteSet(Owing(k))
        /\ sends[k] + Cardinality(Owing(k)) <= MaxAttempts
        /\ intents[k] # NoIntent => sends[k] + Cardinality(Owing(k)) <= intents[k].attempts

\* What was carried is in the feed, and stays there.
Carried ==
    /\ \A k \in IntentKey : feed[k].recent => feed[k].entries > 0
    /\ \A r \in Replica : At(r, "mark") /\ ticks[r].emitted => feed[Job(r)].entries > 0

AssuranceInv ==
    /\ TypeOK /\ FenceBounded /\ OneOpenPerCondition /\ IntentsFit /\ QueuedOnce
    /\ JobsQueued /\ SendsCovered /\ Carried /\ DeliveredWasCarried

-----------------------------------------------------------------------------
(* Jobs and what they owe *)

\* A set of numbers that is not empty has a least member.
LEMMA LeastOf ==
    ASSUME NEW S \in SUBSET Nat, S # {}
    PROVE  \E n \in S : \A m \in S : n <= m
<1> DEFINE R == {p \in Nat \X Nat : p[1] < p[2]}
<1>1. R = OpToRel(<, Nat)
  BY DEF OpToRel
<1>2. IsWellFoundedOn(R, Nat)
  BY <1>1, NatLessThanWellFounded
<1> HIDE DEF R
<1>3. PICK n \in S : \A m \in S : ~(<<m, n>> \in R)
  BY <1>2, WFMin
<1>4. \A m \in S : ~(m < n)
  BY <1>3 DEF R
<1>5. QED BY <1>4

\* The first job is one of the jobs, and stands for an intent.
LEMMA JobQueued ==
    ASSUME TypeOK, JobsQueued, NEW r \in Replica, At(r, "emit") \/ At(r, "mark"), ticks[r].jobs # {}
    PROVE  /\ ticks[r] \in Tick /\ FirstJob(r) \in ticks[r].jobs
           /\ FirstJob(r) \in 1 .. Len(outbox) /\ Job(r) = outbox[FirstJob(r)]
           /\ Job(r) \in IntentKey
<1>1. ticks[r] \in Tick
  BY DEF TypeOK, NoTick, At
<1>2. ticks[r].jobs \in SUBSET Nat /\ ticks[r].jobs \subseteq 1 .. Len(outbox)
  BY <1>1 DEF Tick, JobsQueued, At
<1>3. FirstJob(r) \in ticks[r].jobs
  BY <1>2, LeastOf DEF FirstJob
<1>4. \A n \in 1 .. Len(outbox) : outbox[n] \in IntentKey
  BY ElementOfSeq DEF TypeOK
<1>5. QED BY <1>1, <1>2, <1>3, <1>4 DEF Job

LEMMA OwedPlaces ==
    ASSUME JobsQueued, NEW r \in Replica
    PROVE  Owed(r) \subseteq 1 .. Len(outbox)
  BY DEF JobsQueued, Owed, At

LEMMA OwedSame ==
    ASSUME NEW r \in Replica, ticks'[r] = ticks[r]
    PROVE  /\ Owed(r)' = Owed(r) /\ FirstJob(r)' = FirstJob(r)
           /\ \A l : At(r, l)' <=> At(r, l)
<1>1. FirstJob(r)' = FirstJob(r)
  BY DEF FirstJob
<1>2. QED BY <1>1 DEF Owed, At

\* Owing no more than before is covered by what was spent before.
LEMMA OwingLess ==
    ASSUME SendsCovered, TypeOK, NEW k \in IntentKey, NEW S, S \subseteq Owing(k)
    PROVE  /\ IsFiniteSet(S)
           /\ sends[k] + Cardinality(S) <= MaxAttempts
           /\ intents[k] # NoIntent => sends[k] + Cardinality(S) <= intents[k].attempts
<1>1. IsFiniteSet(S) /\ Cardinality(S) <= Cardinality(Owing(k))
  BY FS_Subset DEF SendsCovered
<1>2. /\ Cardinality(S) \in Nat /\ Cardinality(Owing(k)) \in Nat
      /\ sends[k] \in Nat /\ MaxAttempts \in Nat
  BY <1>1, FS_CardinalityType, AssuranceAssumption DEF SendsCovered, TypeOK
<1>3. intents[k] # NoIntent => intents[k].attempts \in Nat
  BY DEF TypeOK, Intent
<1>4. QED BY <1>1, <1>2, <1>3 DEF SendsCovered

-----------------------------------------------------------------------------
(* Steps that leave the tables alone *)

tables == <<exceptions, intents, outbox, feed, sends>>

\* One tick moves, and owes nothing afterwards.
LEMMA LocalGood ==
    ASSUME AssuranceInv, TypeOK', FenceBounded', UNCHANGED tables,
           NEW r \in Replica, NEW t, ticks' = [ticks EXCEPT ![r] = t],
           t = NoTick \/ (t \in Tick /\ t.jobs = {} /\ t.at # "mark")
    PROVE  AssuranceInv'
<1> USE DEF AssuranceInv
<1>1. UNCHANGED <<exceptions, intents, outbox, feed, sends>>
  BY DEF tables
<1>2. OneOpenPerCondition' /\ IntentsFit' /\ QueuedOnce' /\ DeliveredWasCarried'
  BY <1>1 DEF OneOpenPerCondition, Open, IntentsFit, QueuedOnce, Made, DeliveredWasCarried
<1>3. ticks'[r] = t /\ \A q \in Replica : q # r => ticks'[q] = ticks[q]
  BY DEF TypeOK
<1>4. JobsQueued'
  BY <1>1, <1>3 DEF JobsQueued, At, NoTick
<1>5. Owed(r)' = {}
  BY <1>3 DEF Owed, At, NoTick
<1>6. \A q \in Replica : Owed(q)' \subseteq Owed(q)
  BY <1>3, <1>5, OwedSame
<1>7. SendsCovered'
  <2>1. \A k \in IntentKey : Owing(k)' \subseteq Owing(k)
    BY <1>1, <1>6 DEF Owing
  <2> QED BY <1>1, <2>1, OwingLess DEF SendsCovered
<1>8. Carried'
  <2>1. ~At(r, "mark")'
    BY <1>3 DEF At, NoTick
  <2>2. ASSUME NEW q \in Replica, q # r
        PROVE  (At(q, "mark")' <=> At(q, "mark")) /\ Job(q)' = Job(q) /\ ticks'[q] = ticks[q]
    BY <1>1, <1>3, <2>2, OwedSame DEF Job
  <2> QED BY <1>1, <2>1, <2>2 DEF Carried
<1>9. QED BY <1>2, <1>4, <1>7, <1>8

\* No tick moves.
LEMMA AsideGood ==
    ASSUME AssuranceInv, TypeOK', FenceBounded', UNCHANGED <<tables, ticks>>
    PROVE  AssuranceInv'
<1> USE DEF AssuranceInv
<1>1. UNCHANGED <<exceptions, intents, outbox, feed, sends, ticks>>
  BY DEF tables
<1>2. OneOpenPerCondition' /\ IntentsFit' /\ QueuedOnce' /\ DeliveredWasCarried' /\ JobsQueued'
  BY <1>1 DEF OneOpenPerCondition, Open, IntentsFit, QueuedOnce, Made, DeliveredWasCarried,
     JobsQueued, At
<1>3. \A q \in Replica : Owed(q)' = Owed(q) /\ Job(q)' = Job(q)
  BY <1>1, OwedSame DEF Job
<1>4. \A k \in IntentKey : Owing(k)' = Owing(k)
  BY <1>1, <1>3 DEF Owing
<1>5. SendsCovered' /\ Carried'
  BY <1>1, <1>3, <1>4 DEF SendsCovered, Carried, At
<1>6. QED BY <1>2, <1>5

LEMMA LeaseGood ==
    ASSUME AssuranceInv, NEW r \in Replica, Acquire(r)
    PROVE  AssuranceInv'
<1> USE DEF AssuranceInv
<1> DEFINE t == [at |-> "policies", active |-> {}, ok |-> FALSE, asof |-> 0, findings |-> {},
                 reported |-> {}, open |-> {}, matched |-> {}, jobs |-> {}, emitted |-> FALSE]
<1>1. /\ UNCHANGED <<world, policies, cache, exceptions, intents, outbox, feed, sends, failures, changes>>
      /\ ticks' = [ticks EXCEPT ![r] = t]
      /\ lease' = [holder |-> r, live |-> TRUE, fence |-> tenure(r)]
      /\ lease.holder = r \/ ~lease.live
  BY DEF Acquire, Step
<1>2. t \in Tick /\ t.jobs = {} /\ t.at # "mark"
  BY AssuranceAssumption DEF Tick
<1> HIDE DEF t
<1>3. tenure(r) \in 0 .. MaxFence
  BY <1>1, AssuranceAssumption DEF TypeOK, FenceBounded, tenure
<1>4. /\ lease' \in [holder : Replica \union {"none"}, live : BOOLEAN, fence : 0 .. MaxFence]
      /\ FenceBounded'
  BY <1>1, <1>3 DEF FenceBounded
<1>5. TypeOK'
  BY <1>1, <1>2, <1>4 DEF TypeOK
<1>6. QED BY <1>1, <1>2, <1>4, <1>5, LocalGood DEF tables

LEMMA LeaseEndsGood ==
    ASSUME AssuranceInv, LeaseExpires \/ \E r \in Replica : Release(r) \/ Browse(r) \/ CacheEnds(r)
    PROVE  AssuranceInv'
<1> USE DEF AssuranceInv
<1>1. UNCHANGED <<world, policies, exceptions, intents, outbox, feed, sends, ticks, failures, changes>>
  BY DEF LeaseExpires, Release, Browse, CacheEnds
<1>2. /\ lease' \in [holder : Replica \union {"none"}, live : BOOLEAN, fence : 0 .. MaxFence]
      /\ FenceBounded'
  <2>1. lease' = lease \/ (lease.fence < MaxFence /\ lease' = [lease EXCEPT !.live = FALSE])
    BY DEF LeaseExpires, Release, Browse, CacheEnds
  <2> QED BY <2>1 DEF TypeOK, FenceBounded
<1>3. cache' \in [Replica -> View \union {NoView}]
  <2>1. ASSUME NEW r \in Replica PROVE Fetched(r) \in View \union {NoView}
    BY DEF TypeOK, Fetched, View
  <2>2. cache' = cache
        \/ \E r \in Replica, v \in View \union {NoView} : cache' = [cache EXCEPT ![r] = v]
    BY <2>1 DEF LeaseExpires, Release, Browse, CacheEnds
  <2> QED BY <2>2 DEF TypeOK
<1>4. TypeOK'
  BY <1>1, <1>2, <1>3 DEF TypeOK
<1>5. QED BY <1>1, <1>2, <1>4, AsideGood DEF tables

LEMMA ChangesGood ==
    ASSUME AssuranceInv,
           (\E c \in Condition : WorldChanges(c)) \/ (\E p \in Policy : WritePolicy(p))
    PROVE  AssuranceInv'
<1> USE DEF AssuranceInv
<1>1. UNCHANGED <<cache, lease, exceptions, intents, outbox, feed, sends, ticks, failures>>
  BY DEF WorldChanges, WritePolicy
<1>2. changes' \in 0 .. MaxChanges
  BY AssuranceAssumption DEF WorldChanges, WritePolicy, Change, TypeOK
<1>3. world' \in [Condition -> Level]
  BY DEF WorldChanges, WritePolicy, TypeOK
<1>4. policies' \in [Policy -> {"none", "disabled", "enabled"}]
  BY DEF WorldChanges, WritePolicy, TypeOK
<1>5. TypeOK' /\ FenceBounded'
  BY <1>1, <1>2, <1>3, <1>4 DEF TypeOK, FenceBounded
<1>6. QED BY <1>1, <1>5, AsideGood DEF tables

\* Before and after the drain a tick has no jobs.
LEMMA NoJobs ==
    ASSUME TypeOK, JobsQueued, NEW r \in Replica, ~At(r, "idle"), ~At(r, "emit"), ~At(r, "mark")
    PROVE  ticks[r] \in Tick /\ ticks[r].jobs = {}
  BY DEF TypeOK, NoTick, At, JobsQueued

LEMMA FindingsTyped ==
    ASSUME NEW active \in SUBSET Policy
    PROVE  /\ \A holding : Evaluations(active, holding) \subseteq SUBSET Finding
           /\ UnknownFinding(active) \subseteq SUBSET Finding
<1>1. ASSUME NEW holding, NEW found \in Evaluations(active, holding) PROVE found \subseteq Finding
  <2> DEFINE reported == {c \in Condition : holding[c] # "clear"}
  <2>1. CASE active = {}
    BY <1>1, <2>1 DEF Evaluations
  <2>2. CASE active # {}
    <3>1. PICK cites \in [reported -> active] :
              found = {[condition |-> c, policy |-> cites[c], hold |-> holding[c] = "held"] :
                          c \in reported}
      BY <1>1, <2>2 DEF Evaluations
    <3>2. ASSUME NEW c \in reported
          PROVE  [condition |-> c, policy |-> cites[c], hold |-> holding[c] = "held"] \in Finding
      <4>1. c \in Identity /\ cites[c] \in Policy /\ (holding[c] = "held") \in BOOLEAN
        BY <3>1 DEF Identity
      <4> QED BY <4>1 DEF Finding
    <3> QED BY <3>1, <3>2
  <2> QED BY <2>1, <2>2
<1>2. ASSUME NEW found \in UnknownFinding(active) PROVE found \subseteq Finding
  <2>1. \A p \in active : [condition |-> Unknown, policy |-> p, hold |-> FALSE] \in Finding
    BY DEF Finding, Identity
  <2> QED BY <1>2, <2>1 DEF UnknownFinding
<1>3. QED BY <1>1, <1>2

LEMMA ConditionsTyped ==
    ASSUME NEW found \in SUBSET Finding
    PROVE  Conditions(found) \in SUBSET Identity
  BY DEF Conditions, Finding

LEMMA FailTyped ==
    ASSUME TypeOK, Fail
    PROVE  failures' \in 0 .. MaxFailures
  BY AssuranceAssumption DEF TypeOK, Fail

\* A tick up to its reconciliation, and the end of it.
LEMMA TickGood ==
    ASSUME AssuranceInv, NEW r \in Replica,
           \/ ListPolicies(r) \/ Collect(r) \/ CollectFails(r) \/ ListOpenExceptions(r)
           \/ FindingsDone(r) \/ ResolveDone(r) \/ DrainDone(r) \/ TickEnds(r)
    PROVE  AssuranceInv'
<1> USE DEF AssuranceInv
<1>1. UNCHANGED <<world, policies, exceptions, intents, outbox, lease, feed, sends, changes>>
  BY DEF ListPolicies, Collect, CollectFails, ListOpenExceptions, FindingsDone, ResolveDone,
     DrainDone, TickEnds
<1>2. failures' \in 0 .. MaxFailures
  <2>1. failures' = failures \/ Fail
    BY DEF ListPolicies, Collect, CollectFails, ListOpenExceptions, FindingsDone, ResolveDone,
       DrainDone, TickEnds
  <2> QED BY <2>1, FailTyped DEF TypeOK
<1>3. Fetched(r) \in View \union {NoView} /\ Fetched(r).asof \in 0 .. MaxChanges
  BY AssuranceAssumption DEF TypeOK, Fetched, View, NoView
<1>4. cache' \in [Replica -> View \union {NoView}]
  <2>1. cache' = cache \/ cache' = [cache EXCEPT ![r] = Fetched(r)]
    BY DEF ListPolicies, Collect, CollectFails, ListOpenExceptions, FindingsDone, ResolveDone,
       DrainDone, TickEnds
  <2> QED BY <1>3, <2>1 DEF TypeOK
<1>5. \E t : /\ ticks' = [ticks EXCEPT ![r] = t]
             /\ t = NoTick \/ (t \in Tick /\ t.jobs = {} /\ t.at # "mark")
  <2>1. CASE TickEnds(r)
    BY <2>1 DEF TickEnds, Step
  <2>2. CASE DrainDone(r)
    <3>1. ticks[r] \in Tick /\ ticks[r].jobs = {}
      BY <2>2 DEF DrainDone, At, TypeOK, NoTick
    <3>2. [ticks[r] EXCEPT !.at = "prune"] \in Tick
      BY <3>1 DEF Tick
    <3> QED BY <2>2, <3>1, <3>2 DEF DrainDone, Step, Tick
  <2>3. CASE \/ ListPolicies(r) \/ Collect(r) \/ CollectFails(r) \/ ListOpenExceptions(r)
             \/ FindingsDone(r) \/ ResolveDone(r)
    <3>1. ~At(r, "idle") /\ ~At(r, "emit") /\ ~At(r, "mark")
      BY <2>3 DEF ListPolicies, Collect, CollectFails, ListOpenExceptions, FindingsDone,
         ResolveDone, At
    <3>2. ticks[r] \in Tick /\ ticks[r].jobs = {} /\ ticks[r].active \in SUBSET Policy
      BY <3>1, NoJobs DEF Tick
    <3>3. CASE ListPolicies(r)
      <4> DEFINE t == [ticks[r] EXCEPT !.at = "collect", !.active = Enabled]
      <4>1. t \in Tick /\ t.jobs = {} /\ t.at # "mark"
        BY <3>2 DEF Tick, Enabled
      <4>2. ticks' = [ticks EXCEPT ![r] = NoTick] \/ ticks' = [ticks EXCEPT ![r] = t]
        BY <3>3 DEF ListPolicies, Step
      <4> HIDE DEF t
      <4> QED BY <4>1, <4>2
    <3>4. CASE Collect(r)
      <4>1. PICK found \in Evaluations(ticks[r].active, Fetched(r).holding) :
                ticks' = [ticks EXCEPT ![r] =
                    [ticks[r] EXCEPT !.at = "list", !.ok = TRUE, !.asof = Fetched(r).asof,
                                     !.active = {},
                                     !.findings = found, !.reported = Conditions(found)]]
        BY <3>4 DEF Collect, Step
      <4>2. found \in SUBSET Finding
        BY <3>2, <4>1, FindingsTyped
      <4> DEFINE t == [ticks[r] EXCEPT !.at = "list", !.ok = TRUE, !.asof = Fetched(r).asof,
                                       !.active = {},
                                       !.findings = found, !.reported = Conditions(found)]
      <4>3. t \in Tick /\ t.jobs = {} /\ t.at # "mark"
        BY <1>3, <3>2, <4>2, ConditionsTyped DEF Tick
      <4>4. ticks' = [ticks EXCEPT ![r] = t]
        BY <4>1
      <4> HIDE DEF t
      <4> QED BY <4>3, <4>4
    <3>5. CASE CollectFails(r)
      <4>1. PICK found \in UnknownFinding(ticks[r].active) :
                ticks' = [ticks EXCEPT ![r] =
                    [ticks[r] EXCEPT !.at = "list", !.active = {},
                                     !.findings = found, !.reported = Conditions(found)]]
        BY <3>5 DEF CollectFails, Step
      <4>2. found \in SUBSET Finding
        BY <3>2, <4>1, FindingsTyped
      <4> DEFINE t == [ticks[r] EXCEPT !.at = "list", !.active = {},
                                       !.findings = found, !.reported = Conditions(found)]
      <4>3. t \in Tick /\ t.jobs = {} /\ t.at # "mark"
        BY <3>2, <4>2, ConditionsTyped DEF Tick
      <4>4. ticks' = [ticks EXCEPT ![r] = t]
        BY <4>1
      <4> HIDE DEF t
      <4> QED BY <4>3, <4>4
    <3>6. CASE ListOpenExceptions(r)
      <4> DEFINE t == [ticks[r] EXCEPT !.at = "reconcile", !.open = {i \in Id : Open(i)}]
      <4>1. t \in Tick /\ t.jobs = {} /\ t.at # "mark"
        BY <3>2 DEF Tick
      <4>2. ticks' = [ticks EXCEPT ![r] = t]
        BY <3>6 DEF ListOpenExceptions, Step
      <4> HIDE DEF t
      <4> QED BY <4>1, <4>2
    <3>7. CASE FindingsDone(r) \/ ResolveDone(r)
      <4>1. PICK l \in {"resolve", "drain"} :
                ticks' = [ticks EXCEPT ![r] = [ticks[r] EXCEPT !.at = l]]
        BY <3>7 DEF FindingsDone, ResolveDone, Step, afterFindings
      <4>2. [ticks[r] EXCEPT !.at = l] \in Tick
        BY <3>2, <4>1 DEF Tick
      <4> QED BY <3>2, <4>1, <4>2 DEF Tick
    <3> QED BY <2>3, <3>3, <3>4, <3>5, <3>6, <3>7
  <2> QED BY <2>1, <2>2, <2>3
<1>6. TypeOK' /\ FenceBounded'
  <2>1. ticks' \in [Replica -> Tick \union {NoTick}]
    BY <1>5 DEF TypeOK
  <2> QED BY <1>1, <1>2, <1>4, <2>1 DEF TypeOK, FenceBounded
<1>7. QED BY <1>1, <1>5, <1>6, LocalGood DEF tables

\* A finding that is dealt with keeps the tick's type, and its lack of jobs.
LEMMA HandledTyped ==
    ASSUME AssuranceInv, NEW r \in Replica, At(r, "reconcile"),
           NEW f, NEW rows \in SUBSET Id, Handled(r, f, rows)
    PROVE  \E t : /\ ticks' = [ticks EXCEPT ![r] = t]
                  /\ t \in Tick /\ t.jobs = {} /\ t.at = "reconcile"
<1> DEFINE t == [ticks[r] EXCEPT !.findings = ticks[r].findings \ {f},
                                 !.matched = ticks[r].matched \union rows]
<1>1. ticks[r] \in Tick /\ ticks[r].jobs = {}
  BY NoJobs DEF AssuranceInv, At
<1>2. t \in Tick /\ t.jobs = {} /\ t.at = "reconcile"
  BY <1>1 DEF Tick, At
<1>3. ticks' = [ticks EXCEPT ![r] = t]
  BY DEF Handled, AssuranceInv, TypeOK
<1>4. QED BY <1>2, <1>3

LEMMA FindingGood ==
    ASSUME AssuranceInv, NEW r \in Replica, ObserveFinding(r) \/ OpensNothing(r) \/ OpenContended(r)
    PROVE  AssuranceInv'
<1> USE DEF AssuranceInv
<1>1. /\ At(r, "reconcile")
      /\ UNCHANGED <<world, policies, cache, exceptions, intents, outbox, lease, feed, sends, changes>>
  BY DEF ObserveFinding, OpensNothing, OpenContended
<1>2. failures' \in 0 .. MaxFailures
  <2>1. failures' = failures \/ Fail
    BY DEF ObserveFinding, OpensNothing, OpenContended
  <2> QED BY <2>1, FailTyped DEF TypeOK
<1>3. ticks[r] \in Tick /\ ticks[r].open \subseteq Id
  BY <1>1, NoJobs DEF At, Tick
<1>4. PICK f \in ticks[r].findings, rows \in SUBSET Id : Handled(r, f, rows)
  <2>1. \A f : Known(r, f) \in SUBSET Id /\ OpenRows(f.condition) \in SUBSET Id
    BY <1>3 DEF Known, OpenRows
  <2> QED BY <2>1 DEF ObserveFinding, OpensNothing, OpenContended
<1>5. PICK t : ticks' = [ticks EXCEPT ![r] = t] /\ t \in Tick /\ t.jobs = {} /\ t.at = "reconcile"
  BY <1>1, <1>4, HandledTyped
<1>6. TypeOK' /\ FenceBounded'
  <2>1. ticks' \in [Replica -> Tick \union {NoTick}]
    BY <1>5 DEF TypeOK
  <2> QED BY <1>1, <1>2, <2>1 DEF TypeOK, FenceBounded
<1>7. QED BY <1>1, <1>5, <1>6, LocalGood DEF tables

-----------------------------------------------------------------------------
(* Transitions and their intents *)

\* A transition made for the first time, its intent and its place: whatever
\* else holds of the rows, nothing was owed or sent for it.
LEMMA EnqueueGood ==
    ASSUME AssuranceInv, NEW k \in IntentKey, ~Made(k), Enqueue(k),
           \A j \in IntentKey : Made(j) => Made(j)', Made(k)',
           UNCHANGED <<feed, sends>>,
           NEW r \in Replica, NEW t, ticks' = [ticks EXCEPT ![r] = t],
           t \in Tick, t.jobs = {}, t.at \notin {"emit", "mark"}
    PROVE  /\ intents' \in [IntentKey -> Intent \union {NoIntent}] /\ outbox' \in Seq(IntentKey)
           /\ ticks' \in [Replica -> Tick \union {NoTick}]
           /\ QueuedOnce' /\ JobsQueued' /\ SendsCovered' /\ Carried' /\ DeliveredWasCarried'
<1> USE DEF AssuranceInv
<1> DEFINE new == [state |-> "pending", attempts |-> 0]
<1>1. intents' = [intents EXCEPT ![k] = new] /\ outbox' = Append(outbox, k)
  BY DEF Enqueue
<1>2. new \in Intent /\ new # NoIntent /\ new.attempts = 0 /\ new.state = "pending"
  BY AssuranceAssumption DEF Intent, NoIntent
<1> HIDE DEF new
<1>3. intents' \in [IntentKey -> Intent \union {NoIntent}]
      /\ intents'[k] = new /\ \A j \in IntentKey : j # k => intents'[j] = intents[j]
  BY <1>1, <1>2 DEF TypeOK
<1>4. /\ outbox \in Seq(IntentKey) /\ Len(outbox) \in Nat /\ outbox' \in Seq(IntentKey)
      /\ Len(outbox') = Len(outbox) + 1 /\ outbox'[Len(outbox) + 1] = k
      /\ \A n \in 1 .. Len(outbox) : outbox'[n] = outbox[n] /\ outbox[n] \in IntentKey
  BY <1>1, AppendProperties, LenProperties, ElementOfSeq DEF TypeOK
<1>5. \A n \in 1 .. Len(outbox) : outbox[n] # k
  BY DEF QueuedOnce
<1>6. QueuedOnce'
  <2>1. \A n \in 1 .. Len(outbox') : n \in 1 .. Len(outbox) \/ n = Len(outbox) + 1
    BY <1>4
  <2>2. \A n \in 1 .. Len(outbox') : Made(outbox[n])'
    <3>1. ASSUME NEW n \in 1 .. Len(outbox') PROVE Made(outbox[n])'
      <4>1. PICK j \in IntentKey : j = outbox'[n]
        BY <1>4, <2>1
      <4>2. Made(j)'
        BY <1>4, <2>1, <4>1 DEF QueuedOnce
      <4> QED BY <4>1, <4>2 DEF Made
    <3> QED BY <3>1
  <2>3. \A m, n \in 1 .. Len(outbox') : outbox'[m] = outbox'[n] => m = n
    BY <1>4, <1>5, <2>1 DEF QueuedOnce
  <2>4. \A j \in IntentKey : j # k =>
            ((\E n \in 1 .. Len(outbox) : outbox[n] = j) => \E n \in 1 .. Len(outbox') : outbox'[n] = j)
    BY <1>4
  <2>5. \E n \in 1 .. Len(outbox') : outbox'[n] = k
    BY <1>4
  <2> QED BY <1>3, <2>2, <2>3, <2>4, <2>5 DEF QueuedOnce
<1>7. ticks'[r] = t /\ \A q \in Replica : q # r => ticks'[q] = ticks[q]
  BY DEF TypeOK
<1>8. JobsQueued'
  <2>1. ASSUME NEW q \in Replica, q # r, ~At(q, "idle")'
        PROVE  /\ ticks'[q].jobs \subseteq 1 .. Len(outbox')
               /\ ticks'[q].at \notin {"emit", "mark"} => ticks'[q].jobs = {}
               /\ At(q, "mark")' => ticks'[q].jobs # {}
    BY <1>4, <1>7, <2>1 DEF JobsQueued, At
  <2> QED BY <1>7, <2>1 DEF JobsQueued, At
<1>9. Owed(r)' = {}
  BY <1>7 DEF Owed, At
<1>10. \A j \in IntentKey : Owing(j)' \subseteq Owing(j)
  <2>1. ASSUME NEW j \in IntentKey, NEW q \in Replica, NEW n \in Owed(q)', outbox'[n] = j
        PROVE  n \in Owed(q) /\ outbox[n] = j
    <3>1. q # r
      BY <1>9, <2>1
    <3>2. n \in Owed(q)
      BY <1>7, <2>1, <3>1, OwedSame
    <3> QED BY <1>4, <2>1, <3>2, OwedPlaces
  <2> QED BY <2>1 DEF Owing
<1>11. SendsCovered'
  <2>1. ASSUME NEW j \in IntentKey, j # k
        PROVE  /\ IsFiniteSet(Owing(j)') /\ sends'[j] + Cardinality(Owing(j)') <= MaxAttempts
               /\ intents'[j] # NoIntent => sends'[j] + Cardinality(Owing(j)') <= intents'[j].attempts
    BY <1>3, <1>10, <2>1, OwingLess
  <2>2. sends[k] = 0 /\ Owing(k) = {}
    <3>1. ~(sends[k] > 0) /\ sends[k] \in Nat
      BY <1>5 DEF QueuedOnce, TypeOK
    <3> QED BY <1>5, <3>1, OwedPlaces DEF Owing
  <2>3. Owing(k)' = {} /\ IsFiniteSet({}) /\ Cardinality({}) = 0
    BY <1>10, <2>2, FS_EmptySet
  <2> QED BY <1>2, <1>3, <2>1, <2>2, <2>3, AssuranceAssumption DEF SendsCovered
<1>12. Carried'
  <2>1. ~At(r, "mark")'
    BY <1>7 DEF At
  <2>2. ASSUME NEW q \in Replica, At(q, "mark")', ticks'[q].emitted
        PROVE  feed'[Job(q)'].entries > 0
    <3>1. q # r /\ At(q, "mark") /\ ticks[q].emitted /\ ticks'[q] = ticks[q]
      BY <1>7, <2>1, <2>2 DEF At
    <3>2. FirstJob(q)' = FirstJob(q)
      BY <3>1, OwedSame
    <3>3. FirstJob(q) \in 1 .. Len(outbox)
      BY <3>1, JobQueued DEF JobsQueued, At
    <3>4. Job(q)' = Job(q)
      BY <1>4, <3>2, <3>3 DEF Job
    <3> QED BY <3>1, <3>4 DEF Carried
  <2> QED BY <2>2 DEF Carried
<1>13. DeliveredWasCarried'
  BY <1>2, <1>3 DEF DeliveredWasCarried
<1>14. ticks' \in [Replica -> Tick \union {NoTick}]
  BY DEF TypeOK
<1>15. QED BY <1>3, <1>4, <1>6, <1>8, <1>11, <1>12, <1>13, <1>14

LEMMA OpenExceptionGood ==
    ASSUME AssuranceInv, NEW r \in Replica, OpenException(r)
    PROVE  AssuranceInv'
<1> USE DEF AssuranceInv
<1>1. /\ At(r, "reconcile")
      /\ UNCHANGED <<world, policies, cache, lease, feed, sends, failures, changes>>
  BY DEF OpenException
<1>2. PICK f \in ticks[r].findings, i \in Id :
        /\ OpenRows(f.condition) = {} /\ Fresh(i)
        /\ exceptions' = [exceptions EXCEPT ![i] =
               [state |-> "open", condition |-> f.condition, policy |-> f.policy,
                old |-> FALSE, by |-> r, asof |-> ticks[r].asof]]
        /\ Enqueue(<<i, "opened">>)
        /\ Handled(r, f, {i})
  BY DEF OpenException
<1> DEFINE x == [state |-> "open", condition |-> f.condition, policy |-> f.policy,
                 old |-> FALSE, by |-> r, asof |-> ticks[r].asof]
           k == <<i, "opened">>
<1>3. ticks[r] \in Tick /\ f \in Finding /\ ticks[r].asof \in 0 .. MaxChanges
  BY <1>1, <1>2, NoJobs DEF At, Tick
<1>4. x \in Exception /\ x.state = "open" /\ x.condition = f.condition
  BY <1>3 DEF Exception, Finding
<1>5. exceptions' = [exceptions EXCEPT ![i] = x] /\ exceptions[i].state = "none"
  BY <1>2 DEF Fresh, NoException
<1> HIDE DEF x
<1>6. /\ exceptions' \in [Id -> Exception \union {NoException}] /\ exceptions'[i] = x
      /\ \A j \in Id : j # i => exceptions'[j] = exceptions[j]
  BY <1>4, <1>5 DEF TypeOK
<1>7. OneOpenPerCondition'
  <2>1. \A j \in Id : j # i /\ Open(j)' => Open(j) /\ exceptions'[j].condition # f.condition
    BY <1>2, <1>6 DEF Open, OpenRows
  <2> QED BY <1>4, <1>6, <2>1 DEF OneOpenPerCondition, Open
<1>8. k \in IntentKey /\ k[1] = i /\ k[2] = "opened"
  BY DEF IntentKey
<1>9. ~Made(k) /\ Made(k)' /\ \A j \in IntentKey : Made(j) => Made(j)'
  <2>1. ~Made(k)
    BY <1>5, <1>8 DEF Made
  <2>2. Made(k)'
    BY <1>4, <1>6, <1>8 DEF Made
  <2>3. ASSUME NEW j \in IntentKey, Made(j) PROVE Made(j)'
    <3>1. j[1] \in Id
      BY DEF IntentKey
    <3>2. j[1] # i
      BY <1>5, <2>3 DEF Made
    <3> QED BY <1>6, <2>3, <3>1, <3>2 DEF Made
  <2> QED BY <2>1, <2>2, <2>3
<1>10. PICK t : ticks' = [ticks EXCEPT ![r] = t] /\ t \in Tick /\ t.jobs = {} /\ t.at = "reconcile"
  BY <1>1, <1>2, HandledTyped
<1>11. /\ intents' \in [IntentKey -> Intent \union {NoIntent}] /\ outbox' \in Seq(IntentKey)
       /\ ticks' \in [Replica -> Tick \union {NoTick}]
       /\ QueuedOnce' /\ JobsQueued' /\ SendsCovered' /\ Carried' /\ DeliveredWasCarried'
  BY <1>1, <1>2, <1>8, <1>9, <1>10, EnqueueGood
<1>12. TypeOK' /\ FenceBounded'
  BY <1>1, <1>6, <1>11 DEF TypeOK, FenceBounded
<1>13. IntentsFit'
  <2>1. intents'[k] # NoIntent /\ \A j \in IntentKey : j # k => intents'[j] = intents[j]
    BY <1>2, <1>8 DEF Enqueue, NoIntent, TypeOK
  <2>2. \A j \in Id : <<j, "opened">> \in IntentKey /\ <<j, "resolved">> \in IntentKey
                      /\ <<j, "resolved">> # k /\ (j # i => <<j, "opened">> # k)
    BY DEF IntentKey
  <2> QED BY <1>4, <1>5, <1>6, <2>1, <2>2 DEF IntentsFit
<1>14. QED BY <1>7, <1>11, <1>12, <1>13

LEMMA ResolveExceptionGood ==
    ASSUME AssuranceInv, NEW r \in Replica, ResolveException(r)
    PROVE  AssuranceInv'
<1> USE DEF AssuranceInv
<1>1. /\ At(r, "resolve")
      /\ UNCHANGED <<world, policies, cache, lease, feed, sends, failures, changes>>
  BY DEF ResolveException
<1>2. PICK i \in Unmatched(r) :
        /\ ticks' = [ticks EXCEPT ![r].matched = ticks[r].matched \union {i}]
        /\ IF Open(i)
           THEN exceptions' = [exceptions EXCEPT ![i].state = "resolved"] /\ Enqueue(<<i, "resolved">>)
           ELSE UNCHANGED <<exceptions, intents, outbox>>
  BY DEF ResolveException
<1> DEFINE t == [ticks[r] EXCEPT !.matched = ticks[r].matched \union {i}]
           k == <<i, "resolved">>
<1>3. ticks[r] \in Tick /\ ticks[r].jobs = {} /\ i \in Id
  BY <1>1, NoJobs DEF At, Tick, Unmatched
<1>4. t \in Tick /\ t.jobs = {} /\ t.at \notin {"emit", "mark"}
  BY <1>1, <1>3 DEF Tick, At
<1>5. ticks' = [ticks EXCEPT ![r] = t]
  BY <1>2 DEF TypeOK
<1> HIDE DEF t
<1>6. CASE ~Open(i)
  <2>1. UNCHANGED <<exceptions, intents, outbox>>
    BY <1>2, <1>6
  <2>2. TypeOK' /\ FenceBounded'
    <3>1. ticks' \in [Replica -> Tick \union {NoTick}]
      BY <1>4, <1>5 DEF TypeOK
    <3> QED BY <1>1, <2>1, <3>1 DEF TypeOK, FenceBounded
  <2> QED BY <1>1, <1>4, <1>5, <2>1, <2>2, LocalGood DEF tables
<1>7. CASE Open(i)
  <2>1. exceptions' = [exceptions EXCEPT ![i] = [exceptions[i] EXCEPT !.state = "resolved"]]
    BY <1>2, <1>7 DEF TypeOK
  <2>2. exceptions[i] \in Exception /\ exceptions[i].state = "open"
    BY <1>3, <1>7 DEF Open, TypeOK, NoException
  <2> DEFINE x == [exceptions[i] EXCEPT !.state = "resolved"]
  <2>3. x \in Exception /\ x.state = "resolved"
    BY <2>2 DEF Exception
  <2>4. /\ exceptions' \in [Id -> Exception \union {NoException}] /\ exceptions'[i] = x
        /\ \A j \in Id : j # i => exceptions'[j] = exceptions[j]
    BY <1>3, <2>1, <2>3 DEF TypeOK
  <2> HIDE DEF x
  <2>5. OneOpenPerCondition'
    BY <2>3, <2>4 DEF OneOpenPerCondition, Open
  <2>6. k \in IntentKey /\ k[1] = i /\ k[2] = "resolved"
    BY <1>3 DEF IntentKey
  <2>7. ~Made(k)
    BY <2>2, <2>6 DEF Made
  <2>8. Made(k)'
    BY <2>3, <2>4, <2>6 DEF Made
  <2>9. ASSUME NEW j \in IntentKey, Made(j) PROVE Made(j)'
    <3>1. j[1] \in Id
      BY DEF IntentKey
    <3> QED BY <2>3, <2>4, <2>9, <3>1 DEF Made
  <2>10. /\ intents' \in [IntentKey -> Intent \union {NoIntent}] /\ outbox' \in Seq(IntentKey)
         /\ ticks' \in [Replica -> Tick \union {NoTick}]
         /\ QueuedOnce' /\ JobsQueued' /\ SendsCovered' /\ Carried' /\ DeliveredWasCarried'
    BY <1>1, <1>2, <1>4, <1>5, <1>7, <2>6, <2>7, <2>8, <2>9, EnqueueGood
  <2>11. TypeOK' /\ FenceBounded'
    BY <1>1, <2>4, <2>10 DEF TypeOK, FenceBounded
  <2>12. IntentsFit'
    <3>1. intents'[k] # NoIntent /\ \A j \in IntentKey : j # k => intents'[j] = intents[j]
      BY <1>2, <1>7, <2>6 DEF Enqueue, NoIntent, TypeOK
    <3>2. \A j \in Id : <<j, "opened">> \in IntentKey /\ <<j, "resolved">> \in IntentKey
                        /\ <<j, "opened">> # k /\ (j # i => <<j, "resolved">> # k)
      BY DEF IntentKey
    <3> QED BY <2>2, <2>3, <2>4, <3>1, <3>2 DEF IntentsFit
  <2> QED BY <2>5, <2>10, <2>11, <2>12
<1>8. QED BY <1>6, <1>7

-----------------------------------------------------------------------------
(* The drain *)

LEMMA ClaimGood ==
    ASSUME AssuranceInv, NEW r \in Replica, Claim(r)
    PROVE  AssuranceInv'
<1> USE DEF AssuranceInv
<1> DEFINE jobs == {n \in Waiting : Cardinality({m \in Waiting : m < n}) < Batch}
           claimed == {outbox[n] : n \in jobs}
           t == [ticks[r] EXCEPT !.at = "emit", !.jobs = jobs, !.open = {}, !.matched = {},
                                 !.reported = {}, !.ok = FALSE, !.asof = 0]
<1>1. /\ At(r, "drain")
      /\ UNCHANGED <<world, policies, cache, exceptions, outbox, lease, feed, sends, failures, changes>>
      /\ ticks' = [ticks EXCEPT ![r] = t]
      /\ intents' = [k \in IntentKey |->
             IF k \in claimed THEN [intents[k] EXCEPT !.attempts = intents[k].attempts + 1] ELSE intents[k]]
  BY DEF Claim, Step
<1>2. outbox \in Seq(IntentKey) /\ Len(outbox) \in Nat /\ DOMAIN outbox = 1 .. Len(outbox)
      /\ \A n \in 1 .. Len(outbox) : outbox[n] \in IntentKey
  BY LenProperties, ElementOfSeq DEF TypeOK
<1>3. jobs \subseteq 1 .. Len(outbox) /\ jobs \subseteq Nat \ {0}
      /\ \A n \in jobs : Claimable(outbox[n])
  BY <1>2 DEF Waiting
<1> HIDE DEF jobs
<1>4. ticks[r] \in Tick /\ Owed(r) = {}
  BY <1>1, NoJobs DEF At, Owed
<1>5. t \in Tick /\ t.jobs = jobs /\ t.at = "emit"
  <2> DEFINE t1 == [ticks[r] EXCEPT !.at = "emit", !.jobs = jobs, !.open = {}]
             t2 == [t1 EXCEPT !.matched = {}, !.reported = {}, !.ok = FALSE, !.asof = 0]
  <2>1. 0 \in 0 .. MaxChanges /\ jobs \in SUBSET (Nat \ {0})
    BY <1>3, AssuranceAssumption
  <2>2. t1 \in Tick /\ t1.jobs = jobs /\ t1.at = "emit"
    BY <1>4, <2>1 DEF Tick
  <2>3. t = t2
    OBVIOUS
  <2> HIDE DEF t, t1
  <2>4. t2 \in Tick /\ t2.jobs = jobs /\ t2.at = "emit"
    BY <2>1, <2>2 DEF Tick
  <2> QED BY <2>3, <2>4
<1> HIDE DEF t
<1>6. /\ ticks' \in [Replica -> Tick \union {NoTick}] /\ ticks'[r] = t
      /\ \A q \in Replica : q # r => ticks'[q] = ticks[q]
  BY <1>1, <1>5 DEF TypeOK
<1>7. ASSUME NEW k \in IntentKey
      PROVE  /\ intents'[k] \in Intent \union {NoIntent}
             /\ intents'[k] # NoIntent <=> intents[k] # NoIntent
             /\ intents'[k].state = intents[k].state
             /\ k \notin claimed => intents'[k] = intents[k]
             /\ k \in claimed => /\ intents[k] \in Intent /\ intents[k].attempts < MaxAttempts
                                 /\ intents'[k].attempts = intents[k].attempts + 1
  <2>1. CASE k \notin claimed
    BY <1>1, <2>1 DEF TypeOK
  <2>2. CASE k \in claimed
    <3>1. intents[k].state = "pending" /\ intents[k].attempts < MaxAttempts
      BY <1>3, <2>2 DEF Claimable
    <3>2. intents[k] \in Intent /\ MaxAttempts \in Nat
      BY <3>1, AssuranceAssumption DEF TypeOK, NoIntent
    <3>3. intents[k].attempts + 1 \in 0 .. MaxAttempts
      BY <3>1, <3>2 DEF Intent
    <3>4. intents'[k] = [intents[k] EXCEPT !.attempts = intents[k].attempts + 1]
      BY <1>1, <2>2
    <3>5. /\ intents'[k] \in Intent /\ intents'[k].state = intents[k].state
          /\ intents'[k].attempts = intents[k].attempts + 1
      BY <3>2, <3>3, <3>4 DEF Intent
    <3> QED BY <2>2, <3>1, <3>2, <3>5 DEF NoIntent
  <2> QED BY <2>1, <2>2
<1> HIDE DEF claimed
<1>8. TypeOK' /\ FenceBounded'
  <2>1. intents' \in [IntentKey -> Intent \union {NoIntent}]
    BY <1>1, <1>7
  <2> QED BY <1>1, <1>6, <2>1 DEF TypeOK, FenceBounded
<1>9. \A i \in Id : <<i, "opened">> \in IntentKey /\ <<i, "resolved">> \in IntentKey
  BY DEF IntentKey
<1>10. OneOpenPerCondition' /\ IntentsFit' /\ QueuedOnce' /\ DeliveredWasCarried'
  <2>1. OneOpenPerCondition'
    BY <1>1 DEF OneOpenPerCondition, Open
  <2>2. IntentsFit'
    BY <1>1, <1>7, <1>9 DEF IntentsFit
  <2>3. QueuedOnce'
    BY <1>1, <1>7 DEF QueuedOnce, Made
  <2>4. DeliveredWasCarried'
    BY <1>1, <1>7 DEF DeliveredWasCarried
  <2> QED BY <2>1, <2>2, <2>3, <2>4
<1>11. JobsQueued'
  BY <1>1, <1>3, <1>5, <1>6 DEF JobsQueued, At
<1>12. Owed(r)' = jobs /\ \A q \in Replica : q # r => Owed(q)' = Owed(q)
  BY <1>5, <1>6, OwedSame DEF Owed, At
<1>13. ASSUME NEW k \in IntentKey
       PROVE  /\ r \notin Owing(k)
              /\ Owing(k)' = IF k \in claimed THEN Owing(k) \union {r} ELSE Owing(k)
  <2>1. r \notin Owing(k)
    BY <1>4 DEF Owing
  <2>2. (\E n \in jobs : outbox[n] = k) <=> k \in claimed
    BY DEF claimed
  <2>3. r \in Owing(k)' <=> k \in claimed
    BY <1>1, <1>12, <2>2 DEF Owing
  <2>4. \A q \in Replica : q # r => (q \in Owing(k)' <=> q \in Owing(k))
    BY <1>1, <1>12 DEF Owing
  <2>5. Owing(k)' \subseteq Replica /\ Owing(k) \subseteq Replica
    BY DEF Owing
  <2> QED BY <2>1, <2>3, <2>4, <2>5
<1>14. SendsCovered'
  <2>1. ASSUME NEW k \in IntentKey
        PROVE  /\ IsFiniteSet(Owing(k)') /\ sends'[k] + Cardinality(Owing(k)') <= MaxAttempts
               /\ intents'[k] # NoIntent => sends'[k] + Cardinality(Owing(k)') <= intents'[k].attempts
    <3>1. /\ IsFiniteSet(Owing(k)) /\ Cardinality(Owing(k)) \in Nat /\ sends[k] \in Nat
          /\ MaxAttempts \in Nat
      BY FS_CardinalityType, AssuranceAssumption DEF SendsCovered, TypeOK
    <3>2. CASE k \notin claimed
      BY <1>1, <1>7, <1>13, <3>2 DEF SendsCovered
    <3>3. CASE k \in claimed
      <4>1. IsFiniteSet(Owing(k)') /\ Cardinality(Owing(k)') = Cardinality(Owing(k)) + 1
        BY <1>13, <3>1, <3>3, FS_AddElement
      <4>2. intents[k] \in Intent /\ intents[k] # NoIntent /\ intents[k].attempts \in Nat
        BY <1>7, <3>3 DEF Intent, NoIntent
      <4>3. /\ sends'[k] = sends[k] /\ intents[k].attempts < MaxAttempts
            /\ intents'[k].attempts = intents[k].attempts + 1
            /\ sends[k] + Cardinality(Owing(k)) <= intents[k].attempts
        BY <1>1, <1>7, <3>3, <4>2 DEF SendsCovered
      <4> HIDE DEF AssuranceInv
      <4> QED BY <3>1, <4>1, <4>2, <4>3
    <3> QED BY <3>2, <3>3
  <2> QED BY <2>1 DEF SendsCovered
<1>15. Carried'
  <2>1. ~At(r, "mark")'
    BY <1>5, <1>6 DEF At
  <2>2. ASSUME NEW q \in Replica, q # r
        PROVE  (At(q, "mark")' <=> At(q, "mark")) /\ Job(q)' = Job(q) /\ ticks'[q] = ticks[q]
    BY <1>1, <1>6, <2>2, OwedSame DEF Job
  <2> QED BY <1>1, <2>1, <2>2 DEF Carried
<1>16. QED BY <1>8, <1>10, <1>11, <1>14, <1>15

FeedEntry == [entries : Nat, recent : BOOLEAN]

\* A send of the first job that leaves one of these entries in the feed.
LEMMA EmittingGood ==
    ASSUME AssuranceInv, NEW r \in Replica, NEW found, NEW carried \in BOOLEAN,
           Emitting(r, found, carried), failures' \in 0 .. MaxFailures,
           \A e \in found : /\ e \in FeedEntry /\ e.entries >= NextEntry(r).entries
                            /\ e.recent \/ carried => e.entries > 0
    PROVE  AssuranceInv'
<1> USE DEF AssuranceInv
<1> DEFINE t == [ticks[r] EXCEPT !.at = "mark", !.emitted = carried]
<1>0. PICK k \in IntentKey : At(r, "emit") /\ ticks[r].jobs # {} /\ k = Job(r)
  BY JobQueued DEF Emitting
<1>1. /\ At(r, "emit") /\ ticks[r].jobs # {}
      /\ UNCHANGED <<world, policies, cache, exceptions, intents, outbox, lease, changes>>
      /\ ticks' = [ticks EXCEPT ![r] = t]
      /\ sends' = [sends EXCEPT ![k] = sends[k] + 1]
  BY <1>0 DEF Emitting, Step
<1>2. PICK e \in found : feed' = [feed EXCEPT ![k] = e]
  BY <1>0 DEF Emitting
<1>3. /\ ticks[r] \in Tick /\ FirstJob(r) \in ticks[r].jobs /\ FirstJob(r) \in 1 .. Len(outbox)
      /\ k = outbox[FirstJob(r)] /\ k \in IntentKey
  BY <1>0, JobQueued
<1>4. t \in Tick /\ t.jobs = ticks[r].jobs /\ t.at = "mark" /\ t.emitted = carried
  BY <1>3 DEF Tick
<1>5. e \in FeedEntry /\ e.entries >= feed[k].entries /\ (e.recent \/ carried => e.entries > 0)
  BY <1>0, <1>2 DEF NextEntry
<1> HIDE DEF t
<1>6. /\ ticks' \in [Replica -> Tick \union {NoTick}] /\ ticks'[r] = t
      /\ \A q \in Replica : q # r => ticks'[q] = ticks[q]
  BY <1>1, <1>4 DEF TypeOK
<1>7. /\ feed' \in [IntentKey -> FeedEntry] /\ feed'[k] = e
      /\ \A j \in IntentKey : j # k => feed'[j] = feed[j]
  BY <1>2, <1>3, <1>5 DEF TypeOK, FeedEntry
<1>8. /\ sends' \in [IntentKey -> Nat] /\ sends'[k] = sends[k] + 1
      /\ \A j \in IntentKey : j # k => sends'[j] = sends[j]
  BY <1>1, <1>3 DEF TypeOK
<1>9. TypeOK' /\ FenceBounded'
  BY <1>1, <1>6, <1>7, <1>8 DEF TypeOK, FenceBounded, FeedEntry
<1>10. OneOpenPerCondition' /\ IntentsFit'
  BY <1>1 DEF OneOpenPerCondition, Open, IntentsFit
<1>11. QueuedOnce'
  BY <1>1, <1>3, <1>8 DEF QueuedOnce, Made
<1>12. JobsQueued'
  BY <1>1, <1>4, <1>6 DEF JobsQueued, At
<1>13. FirstJob(r)' = FirstJob(r)
  BY <1>4, <1>6 DEF FirstJob
<1>14. Owed(r) = ticks[r].jobs /\ Owed(r)' = ticks[r].jobs \ {FirstJob(r)}
  BY <1>1, <1>4, <1>6, <1>13 DEF Owed, At
<1>15. \A q \in Replica : q # r => Owed(q)' = Owed(q)
  BY <1>6, OwedSame
<1>16. \A j \in IntentKey : Owing(j)' \subseteq Owing(j)
  BY <1>1, <1>14, <1>15 DEF Owing
<1>17. r \in Owing(k) /\ Owing(k)' \subseteq Owing(k) \ {r}
  <2>1. r \in Owing(k)
    BY <1>3, <1>14 DEF Owing
  <2>2. \A n \in Owed(r)' : outbox[n] # k
    <3>1. ticks[r].jobs \subseteq 1 .. Len(outbox)
      BY <1>1 DEF JobsQueued, At
    <3> QED BY <1>3, <1>14, <3>1 DEF QueuedOnce
  <2>3. r \notin Owing(k)'
    BY <1>1, <2>2 DEF Owing
  <2> QED BY <1>3, <1>16, <2>1, <2>3
<1>18. SendsCovered'
  <2>1. ASSUME NEW j \in IntentKey
        PROVE  /\ IsFiniteSet(Owing(j)') /\ sends'[j] + Cardinality(Owing(j)') <= MaxAttempts
               /\ intents'[j] # NoIntent => sends'[j] + Cardinality(Owing(j)') <= intents'[j].attempts
    <3>1. CASE j # k
      BY <1>1, <1>8, <1>16, <3>1, OwingLess
    <3>2. CASE j = k
      <4> DEFINE rest == Owing(k) \ {r}
      <4>1. IsFiniteSet(rest) /\ Cardinality(rest) = Cardinality(Owing(k)) - 1
        BY <1>3, <1>17, FS_RemoveElement DEF SendsCovered
      <4>2. IsFiniteSet(Owing(k)') /\ Cardinality(Owing(k)') <= Cardinality(rest)
        BY <1>17, <4>1, FS_Subset
      <4>3. /\ Cardinality(Owing(k)) \in Nat /\ Cardinality(Owing(k)') \in Nat
            /\ sends[k] \in Nat /\ MaxAttempts \in Nat
        BY <1>3, <4>2, FS_CardinalityType, AssuranceAssumption DEF SendsCovered, TypeOK
      <4>4. intents[k] # NoIntent => intents[k].attempts \in Nat
        BY <1>3 DEF TypeOK, Intent
      <4>5. /\ sends'[k] = sends[k] + 1 /\ intents'[k] = intents[k]
            /\ sends[k] + Cardinality(Owing(k)) <= MaxAttempts
            /\ intents[k] # NoIntent => sends[k] + Cardinality(Owing(k)) <= intents[k].attempts
        BY <1>1, <1>3, <1>8 DEF SendsCovered
      <4> HIDE DEF rest, AssuranceInv
      <4> QED BY <3>2, <4>1, <4>2, <4>3, <4>4, <4>5
    <3> QED BY <3>1, <3>2
  <2> QED BY <2>1 DEF SendsCovered
<1>19. \A j \in IntentKey : feed[j].entries \in Nat /\ feed'[j].entries >= feed[j].entries
                            /\ feed'[j].entries \in Nat
  <2>1. ASSUME NEW j \in IntentKey
        PROVE  /\ feed[j].entries \in Nat /\ feed'[j].entries \in Nat
               /\ feed'[j].entries >= feed[j].entries
    <3>1. feed[j].entries \in Nat /\ e.entries \in Nat
      BY <1>5 DEF TypeOK, FeedEntry
    <3>2. CASE j = k
      BY <1>5, <1>7, <3>1, <3>2
    <3>3. CASE j # k
      <4> HIDE DEF AssuranceInv
      <4> QED BY <1>7, <3>1, <3>3
    <3> QED BY <3>2, <3>3
  <2> QED BY <2>1
<1>20. Carried'
  <2>1. \A j \in IntentKey : feed'[j].recent => feed'[j].entries > 0
    BY <1>5, <1>7 DEF Carried
  <2>2. ASSUME NEW q \in Replica, At(q, "mark")', ticks'[q].emitted
        PROVE  feed'[Job(q)'].entries > 0
    <3>1. CASE q = r
      <4>1. Job(q)' = k
        BY <1>1, <1>3, <1>13, <3>1 DEF Job
      <4> QED BY <1>4, <1>5, <1>6, <1>7, <2>2, <3>1, <4>1
    <3>2. CASE q # r
      <4>1. At(q, "mark") /\ ticks[q].emitted /\ FirstJob(q)' = FirstJob(q)
        BY <1>6, <2>2, <3>2, OwedSame
      <4>2. Job(q)' = Job(q) /\ Job(q) \in IntentKey
        BY <1>1, <4>1, JobQueued DEF Job, JobsQueued, At
      <4> QED BY <1>19, <4>1, <4>2 DEF Carried
    <3> QED BY <3>1, <3>2
  <2> QED BY <2>1, <2>2 DEF Carried
<1>21. DeliveredWasCarried'
  BY <1>1, <1>19 DEF DeliveredWasCarried
<1>22. QED BY <1>9, <1>10, <1>11, <1>12, <1>18, <1>20, <1>21

LEMMA EmitGood ==
    ASSUME AssuranceInv, NEW r \in Replica, Emit(r) \/ EmitUnchecked(r) \/ EmitFails(r)
    PROVE  AssuranceInv'
<1>1. At(r, "emit") /\ ticks[r].jobs # {}
  BY DEF Emit, EmitUnchecked, EmitFails, Emitting
<1>2. Job(r) \in IntentKey
  BY <1>1, JobQueued DEF AssuranceInv
<1> DEFINE e == NextEntry(r)
<1>3. e \in FeedEntry /\ (e.recent => e.entries > 0)
  BY <1>2 DEF AssuranceInv, NextEntry, TypeOK, FeedEntry, Carried
<1>4. Inserted(e) \in FeedEntry /\ Inserted(e).entries > 0 /\ Inserted(e).entries >= e.entries
  BY <1>3 DEF Inserted, FeedEntry
<1>5. Deduped(e) \in FeedEntry /\ Deduped(e).entries > 0 /\ Deduped(e).entries >= e.entries
  BY <1>3, <1>4 DEF Deduped, FeedEntry
<1>6. e.entries >= e.entries
  BY <1>3 DEF FeedEntry
<1> HIDE DEF e
<1> DEFINE Fits(x, carried) == /\ x \in FeedEntry /\ x.entries >= e.entries
                               /\ x.recent \/ carried => x.entries > 0
<1>7. ASSUME NEW found, NEW carried \in BOOLEAN, Emitting(r, found, carried),
             failures' \in 0 .. MaxFailures, \A x \in found : Fits(x, carried)
      PROVE  AssuranceInv'
  BY <1>7, EmittingGood DEF e
<1>8. CASE Emit(r)
  <2>1. Emitting(r, {Deduped(e)}, TRUE) /\ failures' \in 0 .. MaxFailures
    BY <1>8 DEF AssuranceInv, Emit, TypeOK, e
  <2>2. PICK c \in BOOLEAN : c = TRUE
    OBVIOUS
  <2>3. Emitting(r, {Deduped(e)}, c)
    BY <2>1, <2>2 DEF Emitting
  <2>4. \A x \in {Deduped(e)} : Fits(x, c)
    BY <1>5, <2>2
  <2> HIDE DEF Fits
  <2> QED BY <1>7, <2>1, <2>3, <2>4
<1>9. CASE EmitUnchecked(r)
  <2>1. Emitting(r, {Inserted(e)}, TRUE) /\ failures' \in 0 .. MaxFailures
    BY <1>9, FailTyped DEF AssuranceInv, EmitUnchecked, e
  <2>2. PICK c \in BOOLEAN : c = TRUE
    OBVIOUS
  <2>3. Emitting(r, {Inserted(e)}, c)
    BY <2>1, <2>2 DEF Emitting
  <2>4. \A x \in {Inserted(e)} : Fits(x, c)
    BY <1>4, <2>2
  <2> HIDE DEF Fits
  <2> QED BY <1>7, <2>1, <2>3, <2>4
<1>10. CASE EmitFails(r)
  <2>1. Emitting(r, {e, Deduped(e)}, FALSE) /\ failures' \in 0 .. MaxFailures
    BY <1>10, FailTyped DEF AssuranceInv, EmitFails, e
  <2>2. PICK c \in BOOLEAN : c = FALSE
    OBVIOUS
  <2>3. Emitting(r, {e, Deduped(e)}, c)
    BY <2>1, <2>2 DEF Emitting
  <2>4. \A x \in {e, Deduped(e)} : Fits(x, c)
    BY <1>3, <1>5, <1>6, <2>2
  <2> HIDE DEF Fits
  <2> QED BY <1>7, <2>1, <2>3, <2>4
<1>11. QED BY <1>8, <1>9, <1>10

LEMMA MarkGood ==
    ASSUME AssuranceInv, NEW r \in Replica, Mark(r)
    PROVE  AssuranceInv'
<1> USE DEF AssuranceInv
<1> DEFINE t == [ticks[r] EXCEPT !.at = "emit", !.jobs = ticks[r].jobs \ {FirstJob(r)},
                                 !.emitted = FALSE]
           k == Job(r)
<1>1. /\ At(r, "mark")
      /\ UNCHANGED <<world, policies, cache, exceptions, outbox, lease, feed, sends, failures, changes>>
      /\ ticks' = [ticks EXCEPT ![r] = t]
      /\ intents' = IF intents[k].state # "pending" THEN intents
                    ELSE [intents EXCEPT ![k].state = verdict(k, ticks[r].emitted)]
  BY DEF Mark, Step
<1>2. ticks[r] \in Tick /\ k \in IntentKey
  BY <1>1, JobQueued DEF JobsQueued, At
<1>3. t \in Tick /\ t.jobs = ticks[r].jobs \ {FirstJob(r)} /\ t.at = "emit"
  BY <1>2 DEF Tick
<1> HIDE DEF t, k
<1>4. /\ ticks' \in [Replica -> Tick \union {NoTick}] /\ ticks'[r] = t
      /\ \A q \in Replica : q # r => ticks'[q] = ticks[q]
  BY <1>1, <1>3 DEF TypeOK
<1>5. ASSUME NEW j \in IntentKey
      PROVE  /\ intents'[j] \in Intent \union {NoIntent}
             /\ intents'[j] # NoIntent <=> intents[j] # NoIntent
             /\ intents[j] # NoIntent => intents'[j].attempts = intents[j].attempts
             /\ intents'[j].state = "delivered" =>
                   intents[j].state = "delivered" \/ (j = k /\ ticks[r].emitted)
  <2>1. CASE intents'[j] = intents[j]
    BY <2>1 DEF TypeOK
  <2>2. CASE intents'[j] # intents[j]
    <3>1. /\ j = k /\ intents[k].state = "pending"
          /\ intents'[k] = [intents[k] EXCEPT !.state = verdict(k, ticks[r].emitted)]
      BY <1>1, <1>2, <2>2 DEF TypeOK
    <3>2. intents[k] \in Intent
      BY <1>2, <3>1 DEF TypeOK, NoIntent
    <3>3. /\ verdict(k, ticks[r].emitted) \in {"pending", "delivered", "failed"}
          /\ verdict(k, ticks[r].emitted) = "delivered" => ticks[r].emitted
      BY DEF verdict
    <3>4. /\ intents'[k] \in Intent /\ intents'[k].attempts = intents[k].attempts
          /\ intents'[k].state = verdict(k, ticks[r].emitted)
      BY <3>1, <3>2, <3>3 DEF Intent
    <3> QED BY <3>1, <3>2, <3>3, <3>4 DEF Intent, NoIntent
  <2> QED BY <2>1, <2>2
<1>6. TypeOK' /\ FenceBounded'
  <2>1. intents' \in [IntentKey -> Intent \union {NoIntent}]
    <3>1. intents' = [j \in IntentKey |-> intents'[j]]
      BY <1>1 DEF TypeOK
    <3> QED BY <1>5, <3>1
  <2> QED BY <1>1, <1>4, <2>1 DEF TypeOK, FenceBounded
<1>7. \A i \in Id : <<i, "opened">> \in IntentKey /\ <<i, "resolved">> \in IntentKey
  BY DEF IntentKey
<1>8. OneOpenPerCondition' /\ IntentsFit' /\ QueuedOnce'
  BY <1>1, <1>5, <1>7 DEF OneOpenPerCondition, Open, IntentsFit, QueuedOnce, Made
<1>9. JobsQueued'
  BY <1>1, <1>3, <1>4 DEF JobsQueued, At
<1>10. Owed(r)' = Owed(r) /\ \A q \in Replica : q # r => Owed(q)' = Owed(q)
  BY <1>1, <1>3, <1>4, OwedSame DEF Owed, At
<1>11. SendsCovered'
  <2>1. \A j \in IntentKey : Owing(j)' = Owing(j)
    BY <1>1, <1>10 DEF Owing
  <2> QED BY <1>1, <1>5, <2>1 DEF SendsCovered
<1>12. Carried'
  <2>1. ~At(r, "mark")'
    BY <1>3, <1>4 DEF At
  <2>2. ASSUME NEW q \in Replica, q # r
        PROVE  (At(q, "mark")' <=> At(q, "mark")) /\ Job(q)' = Job(q) /\ ticks'[q] = ticks[q]
    BY <1>1, <1>4, <2>2, OwedSame DEF Job
  <2> QED BY <1>1, <2>1, <2>2 DEF Carried
<1>13. DeliveredWasCarried'
  <2>1. ticks[r].emitted => feed[k].entries > 0
    BY <1>1 DEF Carried, k
  <2> QED BY <1>1, <1>5, <2>1 DEF DeliveredWasCarried
<1>14. QED BY <1>6, <1>8, <1>9, <1>11, <1>12, <1>13

-----------------------------------------------------------------------------
(* Retention and the environment *)

\* Rows that were opened go, with their intents, and at most one tick ends.
LEMMA DeleteGood ==
    ASSUME AssuranceInv, NEW rows \in SUBSET Id, Delete(rows), UNCHANGED <<feed, sends>>,
           \A i \in rows : exceptions[i].state \in {"open", "resolved"},
           ticks' = ticks \/ \E r \in Replica : ticks' = [ticks EXCEPT ![r] = NoTick]
    PROVE  /\ exceptions' \in [Id -> Exception \union {NoException}]
           /\ intents' \in [IntentKey -> Intent \union {NoIntent}] /\ outbox' = outbox
           /\ ticks' \in [Replica -> Tick \union {NoTick}]
           /\ OneOpenPerCondition' /\ IntentsFit' /\ QueuedOnce' /\ JobsQueued'
           /\ SendsCovered' /\ Carried' /\ DeliveredWasCarried'
<1> USE DEF AssuranceInv
<1>1. /\ outbox' = outbox
      /\ exceptions' = [i \in Id |->
             IF i \in rows THEN [exceptions[i] EXCEPT !.state = "deleted"] ELSE exceptions[i]]
      /\ intents' = [k \in IntentKey |-> IF k[1] \in rows THEN NoIntent ELSE intents[k]]
  BY DEF Delete
<1>2. ASSUME NEW i \in Id
      PROVE  /\ exceptions'[i] \in Exception \union {NoException}
             /\ i \notin rows => exceptions'[i] = exceptions[i]
             /\ i \in rows => exceptions'[i].state = "deleted"
  <2>1. CASE i \in rows
    <3>0. exceptions[i] \in Exception \union {NoException} /\ exceptions[i].state # "none"
      BY <2>1 DEF TypeOK
    <3>1. exceptions[i] \in Exception
      BY <3>0 DEF NoException
    <3>2. exceptions'[i] = [exceptions[i] EXCEPT !.state = "deleted"]
      BY <1>1, <2>1
    <3> QED BY <2>1, <3>1, <3>2 DEF Exception
  <2>2. CASE i \notin rows
    BY <1>1, <2>2 DEF TypeOK
  <2> QED BY <2>1, <2>2
<1>3. exceptions' \in [Id -> Exception \union {NoException}]
  BY <1>1, <1>2
<1>4. \A k \in IntentKey : intents'[k] = IF k[1] \in rows THEN NoIntent ELSE intents[k]
  BY <1>1
<1>5. intents' \in [IntentKey -> Intent \union {NoIntent}]
  BY <1>1, <1>4 DEF TypeOK
<1>6. OneOpenPerCondition'
  <2>1. \A i \in Id : Open(i)' => Open(i) /\ exceptions'[i] = exceptions[i]
    BY <1>2 DEF Open
  <2> QED BY <2>1 DEF OneOpenPerCondition
<1>7. IntentsFit'
  <2>1. ASSUME NEW i \in Id
        PROVE  /\ intents'[<<i, "opened">>] # NoIntent <=> exceptions'[i].state \in {"open", "resolved"}
               /\ intents'[<<i, "resolved">>] # NoIntent <=> exceptions'[i].state = "resolved"
    <3>1. /\ <<i, "opened">> \in IntentKey /\ <<i, "resolved">> \in IntentKey
          /\ <<i, "opened">>[1] = i /\ <<i, "resolved">>[1] = i
      BY DEF IntentKey
    <3> QED BY <1>2, <1>4, <3>1 DEF IntentsFit
  <2> QED BY <2>1 DEF IntentsFit
<1>8. QueuedOnce'
  <2>1. ASSUME NEW n \in 1 .. Len(outbox) PROVE Made(outbox[n])'
    <3>1. PICK k \in IntentKey : k = outbox[n]
      BY ElementOfSeq DEF TypeOK
    <3>2. k[1] \in Id /\ Made(k)
      BY <3>1 DEF IntentKey, QueuedOnce
    <3>3. Made(k)'
      BY <1>2, <3>2 DEF Made
    <3> QED BY <1>1, <3>1, <3>3 DEF Made
  <2> QED BY <1>1, <1>4, <2>1 DEF QueuedOnce
<1>9. \A q \in Replica : ticks'[q] = ticks[q] \/ ticks'[q] = NoTick
  BY DEF TypeOK
<1>10. ticks' \in [Replica -> Tick \union {NoTick}] /\ JobsQueued'
  <2>1. ticks' \in [Replica -> Tick \union {NoTick}]
    BY DEF TypeOK
  <2>2. ASSUME NEW q \in Replica, ~At(q, "idle")' PROVE ticks'[q] = ticks[q]
    BY <1>9, <2>2 DEF At, NoTick
  <2> QED BY <1>1, <2>1, <2>2 DEF JobsQueued, At
<1>11. \A q \in Replica : Owed(q)' \subseteq Owed(q)
  <2>1. ASSUME NEW q \in Replica, ticks'[q] = NoTick PROVE Owed(q)' = {}
    BY <2>1 DEF Owed, At, NoTick
  <2> QED BY <1>9, <2>1, OwedSame
<1>12. SendsCovered'
  <2>1. \A k \in IntentKey : Owing(k)' \subseteq Owing(k)
    BY <1>1, <1>11 DEF Owing
  <2> QED BY <1>4, <2>1, OwingLess DEF SendsCovered
<1>13. Carried'
  <2>1. ASSUME NEW q \in Replica, At(q, "mark")', ticks'[q].emitted
        PROVE  feed'[Job(q)'].entries > 0
    <3>1. ticks'[q] = ticks[q]
      BY <1>9, <2>1 DEF At, NoTick
    <3>2. At(q, "mark") /\ ticks[q].emitted /\ Job(q)' = Job(q)
      BY <1>1, <2>1, <3>1, OwedSame DEF Job
    <3> QED BY <3>2 DEF Carried
  <2> QED BY <2>1 DEF Carried
<1>14. DeliveredWasCarried'
  BY <1>4 DEF DeliveredWasCarried, NoIntent
<1>15. QED BY <1>1, <1>3, <1>5, <1>6, <1>7, <1>8, <1>10, <1>12, <1>13, <1>14

LEMMA RetentionGood ==
    ASSUME AssuranceInv, (\E r \in Replica : Prune(r)) \/ (\E p \in Policy : DeletePolicy(p))
    PROVE  AssuranceInv'
<1>1. UNCHANGED <<world, cache, lease, feed, sends, failures>>
  BY DEF Prune, DeletePolicy
<1>2. PICK rows \in SUBSET Id :
          Delete(rows) /\ \A i \in rows : exceptions[i].state \in {"open", "resolved"}
  <2>1. CASE \E r \in Replica : Prune(r)
    <3>1. Delete(Expired) \/ Delete({})
      BY <2>1 DEF Prune
    <3>2. Expired \in SUBSET Id /\ \A i \in Expired : exceptions[i].state = "resolved"
      BY DEF Expired
    <3> QED BY <3>1, <3>2
  <2>2. CASE \E p \in Policy : DeletePolicy(p)
    BY <2>2 DEF DeletePolicy
  <2> QED BY <2>1, <2>2
<1>3. ticks' = ticks \/ \E r \in Replica : ticks' = [ticks EXCEPT ![r] = NoTick]
  BY DEF Prune, DeletePolicy, Step
<1>4. /\ exceptions' \in [Id -> Exception \union {NoException}]
      /\ intents' \in [IntentKey -> Intent \union {NoIntent}] /\ outbox' = outbox
      /\ ticks' \in [Replica -> Tick \union {NoTick}]
      /\ OneOpenPerCondition' /\ IntentsFit' /\ QueuedOnce' /\ JobsQueued'
      /\ SendsCovered' /\ Carried' /\ DeliveredWasCarried'
  BY <1>1, <1>2, <1>3, DeleteGood
<1>5. changes' \in 0 .. MaxChanges
  <2>1. changes' = changes \/ (changes < MaxChanges /\ changes' = changes + 1)
    BY DEF Prune, DeletePolicy, Change
  <2>2. changes \in 0 .. MaxChanges /\ MaxChanges \in Nat
    BY AssuranceAssumption DEF AssuranceInv, TypeOK
  <2> QED BY <2>1, <2>2
<1>6. policies' \in [Policy -> {"none", "disabled", "enabled"}]
  BY DEF Prune, DeletePolicy, AssuranceInv, TypeOK
<1>7. TypeOK' /\ FenceBounded'
  BY <1>1, <1>4, <1>5, <1>6 DEF AssuranceInv, TypeOK, FenceBounded
<1>8. QED BY <1>4, <1>7 DEF AssuranceInv

LEMMA GrowsOldGood ==
    ASSUME AssuranceInv, NEW i \in Id, GrowsOld(i)
    PROVE  AssuranceInv'
<1> USE DEF AssuranceInv
<1>1. /\ UNCHANGED <<world, policies, cache, intents, outbox, lease, ticks, feed, sends, failures, changes>>
      /\ exceptions[i].state = "resolved" /\ exceptions' = [exceptions EXCEPT ![i].old = TRUE]
  BY DEF GrowsOld
<1>2. exceptions[i] \in Exception /\ exceptions'[i] = [exceptions[i] EXCEPT !.old = TRUE]
  BY <1>1 DEF TypeOK, NoException
<1>3. /\ exceptions'[i] \in Exception /\ exceptions'[i].state = "resolved"
      /\ \A j \in Id : j # i => exceptions'[j] = exceptions[j]
  BY <1>1, <1>2 DEF Exception, TypeOK
<1>4. exceptions' \in [Id -> Exception \union {NoException}]
  BY <1>1, <1>3 DEF TypeOK
<1>5. TypeOK' /\ FenceBounded'
  BY <1>1, <1>4 DEF TypeOK, FenceBounded
<1>6. \A j \in Id : exceptions'[j].state = exceptions[j].state
  BY <1>1, <1>3
<1>7. OneOpenPerCondition'
  BY <1>1, <1>3 DEF OneOpenPerCondition, Open
<1>8. IntentsFit' /\ DeliveredWasCarried'
  BY <1>1, <1>6 DEF IntentsFit, DeliveredWasCarried
<1>9. QueuedOnce'
  <2>1. ASSUME NEW n \in 1 .. Len(outbox) PROVE Made(outbox[n])'
    <3>1. PICK k \in IntentKey : k = outbox[n]
      BY ElementOfSeq DEF TypeOK
    <3>2. k[1] \in Id /\ Made(k)
      BY <3>1 DEF IntentKey, QueuedOnce
    <3>3. Made(k)'
      BY <1>6, <3>2 DEF Made
    <3> QED BY <1>1, <3>1, <3>3 DEF Made
  <2> QED BY <1>1, <2>1 DEF QueuedOnce
<1>10. \A q \in Replica : Owed(q)' = Owed(q) /\ Job(q)' = Job(q)
  BY <1>1, OwedSame DEF Job
<1>11. \A k \in IntentKey : Owing(k)' = Owing(k)
  BY <1>1, <1>10 DEF Owing
<1>12. SendsCovered' /\ Carried' /\ JobsQueued'
  BY <1>1, <1>10, <1>11 DEF SendsCovered, Carried, JobsQueued, At
<1>13. QED BY <1>5, <1>7, <1>8, <1>9, <1>12

LEMMA WindowClosesGood ==
    ASSUME AssuranceInv, NEW k \in IntentKey, WindowCloses(k)
    PROVE  AssuranceInv'
<1> USE DEF AssuranceInv
<1>1. /\ UNCHANGED <<world, policies, cache, exceptions, intents, outbox, lease, ticks, sends, changes>>
      /\ feed' = [feed EXCEPT ![k].recent = FALSE] /\ Fail
  BY DEF WindowCloses
<1>2. ASSUME NEW j \in IntentKey
      PROVE  /\ feed'[j] \in FeedEntry /\ feed'[j].entries = feed[j].entries
             /\ feed'[j].recent => feed[j].recent
  BY <1>1 DEF TypeOK, FeedEntry
<1>3. feed' \in [IntentKey -> FeedEntry]
  BY <1>1 DEF TypeOK, FeedEntry
<1>4. failures' \in 0 .. MaxFailures
  BY <1>1, FailTyped
<1>5. TypeOK' /\ FenceBounded'
  BY <1>1, <1>3, <1>4 DEF TypeOK, FenceBounded, FeedEntry
<1>6. OneOpenPerCondition' /\ IntentsFit' /\ QueuedOnce' /\ JobsQueued'
  BY <1>1 DEF OneOpenPerCondition, Open, IntentsFit, QueuedOnce, Made, JobsQueued, At
<1>7. \A q \in Replica : Owed(q)' = Owed(q) /\ Job(q)' = Job(q)
  BY <1>1, OwedSame DEF Job
<1>8. \A j \in IntentKey : Owing(j)' = Owing(j)
  BY <1>1, <1>7 DEF Owing
<1>9. SendsCovered' /\ DeliveredWasCarried'
  BY <1>1, <1>2, <1>8 DEF SendsCovered, DeliveredWasCarried
<1>10. Carried'
  <2>1. ASSUME NEW q \in Replica, At(q, "mark")', ticks'[q].emitted
        PROVE  feed'[Job(q)'].entries > 0
    <3>1. At(q, "mark") /\ ticks[q].emitted /\ Job(q)' = Job(q)
      BY <1>1, <1>7, <2>1 DEF At
    <3>2. Job(q) \in IntentKey
      BY <3>1, JobQueued DEF JobsQueued, At
    <3> QED BY <1>2, <3>1, <3>2 DEF Carried
  <2> QED BY <1>2, <2>1 DEF Carried
<1>11. QED BY <1>5, <1>6, <1>9, <1>10

-----------------------------------------------------------------------------
(* The invariant and what it gives *)

LEMMA InitGood == Init => AssuranceInv
<1> SUFFICES ASSUME Init PROVE AssuranceInv
  OBVIOUS
<1>1. TypeOK /\ FenceBounded
  <2>1. /\ lease \in [holder : Replica \union {"none"}, live : BOOLEAN, fence : 0 .. MaxFence]
        /\ FenceBounded
    BY AssuranceAssumption DEF Init, FenceBounded
  <2>2. failures \in 0 .. MaxFailures /\ changes \in 0 .. MaxChanges
    BY AssuranceAssumption DEF Init
  <2>3. feed \in [IntentKey -> [entries : Nat, recent : BOOLEAN]]
    BY DEF Init
  <2> QED BY <2>1, <2>2, <2>3 DEF Init, TypeOK
<1>2. Len(outbox) = 0 /\ outbox = <<>>
  BY EmptySeq DEF Init
<1>3. \A i \in Id : <<i, "opened">> \in IntentKey /\ <<i, "resolved">> \in IntentKey
  BY DEF IntentKey
<1>4. OneOpenPerCondition /\ IntentsFit /\ DeliveredWasCarried
  BY <1>3 DEF Init, OneOpenPerCondition, Open, IntentsFit, DeliveredWasCarried, NoIntent, NoException
<1>5. QueuedOnce
  BY <1>2 DEF Init, QueuedOnce
<1>6. \A r \in Replica : At(r, "idle") /\ Owed(r) = {}
  BY DEF Init, At, NoTick, Owed
<1>7. JobsQueued /\ Carried
  BY <1>6 DEF JobsQueued, Carried, At, Init
<1>8. \A k \in IntentKey : Owing(k) = {}
  BY <1>6 DEF Owing
<1>9. SendsCovered
  <2>1. IsFiniteSet({}) /\ Cardinality({}) = 0 /\ MaxAttempts \in Nat
    BY FS_EmptySet, AssuranceAssumption
  <2>2. \A k \in IntentKey : sends[k] = 0 /\ intents[k] = NoIntent
    BY DEF Init
  <2> QED BY <1>8, <2>1, <2>2 DEF SendsCovered
<1>10. QED BY <1>1, <1>4, <1>5, <1>7, <1>9 DEF AssuranceInv

LEMMA StepGood ==
    ASSUME AssuranceInv, [Next]_vars
    PROVE  AssuranceInv'
<1>1. CASE UNCHANGED vars
  <2>1. UNCHANGED <<world, policies, cache, exceptions, intents, outbox, lease, ticks, feed, sends,
                    failures, changes>>
    BY <1>1 DEF vars
  <2>2. TypeOK' /\ FenceBounded'
    BY <2>1 DEF AssuranceInv, TypeOK, FenceBounded
  <2> QED BY <2>1, <2>2, AsideGood DEF tables
<1>2. CASE Next
  BY <1>2, LeaseGood, LeaseEndsGood, ChangesGood, TickGood, FindingGood, OpenExceptionGood,
     ResolveExceptionGood, ClaimGood, EmitGood, MarkGood, RetentionGood, GrowsOldGood,
     WindowClosesGood DEF Next
<1>3. QED BY <1>1, <1>2

LEMMA Invariant == Spec => []AssuranceInv
<1>1. AssuranceInv /\ [Next]_vars => AssuranceInv'
  BY StepGood
<1>2. QED BY <1>1, InitGood, PTL DEF Spec

(* Whatever ticks interleave, and whether or not a lease expires under one, *)
(* a condition has at most one open exception (the partial unique index     *)
(* that OpenExceptionAndEnqueue inserts against).                           *)
THEOREM OneOpen == Spec => []OneOpenPerCondition
<1>1. AssuranceInv => OneOpenPerCondition
  BY DEF AssuranceInv
<1>2. QED BY <1>1, Invariant, PTL

(* A row has the intents of the transitions it has made, each queued once   *)
(* (enqueueDelivery in the transaction of the transition).                  *)
THEOREM TransitionsAnnounced == Spec => []IntentPerTransition
<1>1. AssuranceInv => IntentPerTransition
  <2>1. ASSUME AssuranceInv PROVE DOMAIN outbox = 1 .. Len(outbox)
    BY <2>1, LenProperties DEF AssuranceInv, TypeOK
  <2> QED BY <2>1 DEF AssuranceInv, IntentsFit, QueuedOnce, IntentPerTransition
<1>2. QED BY <1>1, Invariant, PTL

(* No intent is sent more often than assuranceMaxDeliveryAttempts, however  *)
(* many replicas claim it, crash between the send and the mark and claim it *)
(* again, and even if its row is deleted under its claimers: a claim spends *)
(* the attempt before the send.                                             *)
THEOREM SendsAreBounded == Spec => []SendsBounded
<1>1. AssuranceInv => SendsBounded
  <2>1. SUFFICES ASSUME AssuranceInv, NEW k \in IntentKey PROVE sends[k] <= MaxAttempts
    BY DEF SendsBounded
  <2>2. /\ Cardinality(Owing(k)) \in Nat /\ sends[k] \in Nat /\ MaxAttempts \in Nat
        /\ sends[k] + Cardinality(Owing(k)) <= MaxAttempts
    BY <2>1, FS_CardinalityType, AssuranceAssumption DEF AssuranceInv, SendsCovered, TypeOK
  <2> QED BY <2>2
<1>2. QED BY <1>1, Invariant, PTL

(* An intent marked delivered has been in the Notification Center's feed,   *)
(* whichever replica sent it and whichever marked it (drainDeliveries).     *)
THEOREM DeliveredIsCarried == Spec => []DeliveredWasCarried
<1>1. AssuranceInv => DeliveredWasCarried
  BY DEF AssuranceInv
<1>2. QED BY <1>1, Invariant, PTL

-----------------------------------------------------------------------------
(* The dates of views *)

Before(tick) == tick.at \in {"policies", "collect", "list", "reconcile", "resolve"}
Exists(i) == exceptions[i] # NoException

\* A row the replica opened.
Mine(r, i) == Exists(i) /\ exceptions[i].by = r

\* The views of a replica only get younger: none of its exceptions is younger
\* than the view its next tick would fetch, or than the view its tick has that
\* may resolve them.
ViewsInOrder ==
    \A r \in Replica :
        /\ Fetched(r).asof <= changes
        /\ \A i \in Id : Mine(r, i) => exceptions[i].asof <= Fetched(r).asof
        /\ Before(ticks[r]) =>
              /\ ticks[r].asof <= Fetched(r).asof
              /\ ticks[r].ok => \A i \in Id : Mine(r, i) => exceptions[i].asof <= ticks[r].asof
              /\ ~ticks[r].ok => ticks[r].asof = 0 /\ ticks[r].at # "resolve"
              /\ ticks[r].at \in {"policies", "collect"} => ~ticks[r].ok

\* What the dates are.
LEMMA DatesTyped ==
    ASSUME TypeOK
    PROVE  /\ changes \in Nat
           /\ \A r \in Replica : Fetched(r).asof \in Nat
           /\ \A r \in Replica : Before(ticks[r]) => /\ ticks[r] \in Tick /\ ticks[r].asof \in Nat
                                                     /\ ticks[r].ok \in BOOLEAN
           /\ \A i \in Id : Exists(i) => exceptions[i] \in Exception /\ exceptions[i].asof \in Nat
<1>1. changes \in Nat
  BY DEF TypeOK
<1>2. ASSUME NEW r \in Replica PROVE Fetched(r).asof \in Nat
  BY <1>1 DEF TypeOK, Fetched, View
<1>3. ASSUME NEW r \in Replica, Before(ticks[r])
      PROVE  ticks[r] \in Tick /\ ticks[r].asof \in Nat /\ ticks[r].ok \in BOOLEAN
  <2>1. ticks[r] \in Tick
    BY <1>3 DEF TypeOK, Before, NoTick
  <2> QED BY <2>1 DEF Tick
<1>4. ASSUME NEW i \in Id, Exists(i) PROVE exceptions[i] \in Exception /\ exceptions[i].asof \in Nat
  BY <1>4 DEF TypeOK, Exists, Exception
<1> QED BY <1>1, <1>2, <1>3, <1>4

\* A step leaves the identity of a row alone, and its marks.
Kept(i) ==
    /\ Exists(i)' <=> Exists(i)
    /\ Exists(i) => /\ exceptions'[i].asof = exceptions[i].asof /\ exceptions'[i].by = exceptions[i].by
                    /\ exceptions'[i].condition = exceptions[i].condition

\* A step that dates nothing: rows and ticks keep their dates, and the view a
\* tick would fetch gets no older.
LEMMA DatesKept ==
    ASSUME ViewsInOrder, TypeOK, TypeOK',
           \A i \in Id : Kept(i),
           \A r \in Replica : Fetched(r).asof <= Fetched(r)'.asof /\ Fetched(r)'.asof <= changes',
           \A r \in Replica : Before(ticks'[r]) =>
              \/ /\ Before(ticks[r]) /\ ticks'[r].ok = ticks[r].ok /\ ticks'[r].asof = ticks[r].asof
                 /\ ticks'[r].at = "resolve" => ticks[r].ok
                 /\ ticks'[r].at \in {"policies", "collect"} => ~ticks[r].ok
              \/ ticks'[r].asof = 0 /\ ticks'[r].ok = FALSE /\ ticks'[r].at # "resolve"
    PROVE  ViewsInOrder'
<1>1. SUFFICES ASSUME NEW r \in Replica
      PROVE  /\ Fetched(r)'.asof <= changes'
             /\ \A i \in Id : Mine(r, i)' => exceptions'[i].asof <= Fetched(r)'.asof
             /\ Before(ticks'[r]) =>
                   /\ ticks'[r].asof <= Fetched(r)'.asof
                   /\ ticks'[r].ok => \A i \in Id : Mine(r, i)' => exceptions'[i].asof <= ticks'[r].asof
                   /\ ~ticks'[r].ok => ticks'[r].asof = 0 /\ ticks'[r].at # "resolve"
                   /\ ticks'[r].at \in {"policies", "collect"} => ~ticks'[r].ok
  BY DEF ViewsInOrder
<1>2. Fetched(r).asof \in Nat /\ Fetched(r)'.asof \in Nat
  <2>1. Fetched(r).asof \in Nat
    BY DatesTyped
  <2>2. Fetched(r)'.asof \in Nat
    BY DEF TypeOK, Fetched, View
  <2> QED BY <2>1, <2>2
<1>3. ASSUME NEW i \in Id, Mine(r, i)' PROVE exceptions'[i].asof <= Fetched(r)'.asof
  <2>1. exceptions[i].asof \in Nat /\ exceptions[i].asof <= Fetched(r).asof
        /\ exceptions'[i].asof = exceptions[i].asof
    BY <1>3, DatesTyped DEF ViewsInOrder, Mine, Kept
  <2> QED BY <1>2, <2>1
<1>4. ASSUME Before(ticks'[r])
      PROVE  /\ ticks'[r].asof <= Fetched(r)'.asof
             /\ ticks'[r].ok => \A i \in Id : Mine(r, i)' => exceptions'[i].asof <= ticks'[r].asof
             /\ ~ticks'[r].ok => ticks'[r].asof = 0 /\ ticks'[r].at # "resolve"
             /\ ticks'[r].at \in {"policies", "collect"} => ~ticks'[r].ok
  <2>1. CASE /\ Before(ticks[r]) /\ ticks'[r].ok = ticks[r].ok /\ ticks'[r].asof = ticks[r].asof
             /\ ticks'[r].at = "resolve" => ticks[r].ok
             /\ ticks'[r].at \in {"policies", "collect"} => ~ticks[r].ok
    <3>1. ticks[r].asof \in Nat /\ ticks[r].asof <= Fetched(r).asof
      BY <2>1, DatesTyped DEF ViewsInOrder
    <3>2. ticks'[r].asof <= Fetched(r)'.asof
      BY <1>2, <2>1, <3>1
    <3>3. ticks[r].ok => \A i \in Id : Mine(r, i) => exceptions[i].asof <= ticks[r].asof
      BY <2>1 DEF ViewsInOrder
    <3>4. ~ticks[r].ok => ticks[r].asof = 0
      BY <2>1 DEF ViewsInOrder
    <3> QED BY <2>1, <3>2, <3>3, <3>4 DEF Mine, Kept
  <2>2. CASE ticks'[r].asof = 0 /\ ticks'[r].ok = FALSE /\ ticks'[r].at # "resolve"
    BY <1>2, <2>2
  <2> QED BY <1>4, <2>1, <2>2
<1> QED BY <1>3, <1>4

\* A replica's own tick moved and nothing else the dates depend on.
LEMMA TickDatesKept ==
    ASSUME ViewsInOrder, TypeOK, TypeOK', NEW r \in Replica, NEW tick,
           ticks' = [ticks EXCEPT ![r] = tick], UNCHANGED <<world, cache, changes>>,
           \A i \in Id : Kept(i),
           Before(tick) =>
              \/ /\ Before(ticks[r]) /\ tick.ok = ticks[r].ok /\ tick.asof = ticks[r].asof
                 /\ tick.at = "resolve" => ticks[r].ok
                 /\ tick.at \in {"policies", "collect"} => ~ticks[r].ok
              \/ tick.asof = 0 /\ tick.ok = FALSE /\ tick.at # "resolve"
    PROVE  ViewsInOrder'
<1>1. \A q \in Replica : ticks'[q] = IF q = r THEN tick ELSE ticks[q]
  BY DEF TypeOK
<1>2. \A q \in Replica : Fetched(q)' = Fetched(q)
  BY DEF Fetched
<1>3. \A q \in Replica : Fetched(q).asof <= Fetched(q)'.asof /\ Fetched(q)'.asof <= changes'
  <2>1. \A q \in Replica : Fetched(q).asof \in Nat /\ Fetched(q).asof <= changes
    BY DatesTyped DEF ViewsInOrder
  <2> QED BY <1>2, <2>1
<1>4. ASSUME NEW q \in Replica, Before(ticks'[q])
      PROVE  \/ /\ Before(ticks[q]) /\ ticks'[q].ok = ticks[q].ok /\ ticks'[q].asof = ticks[q].asof
                /\ ticks'[q].at = "resolve" => ticks[q].ok
                /\ ticks'[q].at \in {"policies", "collect"} => ~ticks[q].ok
             \/ ticks'[q].asof = 0 /\ ticks'[q].ok = FALSE /\ ticks'[q].at # "resolve"
  <2>1. CASE q = r
    BY <1>1, <1>4, <2>1
  <2>2. CASE q # r
    <3>1. ticks'[q] = ticks[q] /\ Before(ticks[q])
      BY <1>1, <1>4, <2>2
    <3>2. ticks[q].ok \in BOOLEAN
      BY <3>1, DatesTyped
    <3> QED BY <3>1, <3>2 DEF ViewsInOrder
  <2> QED BY <2>1, <2>2
<1> QED BY <1>3, <1>4, DatesKept

\* A deleted row keeps its date.
LEMMA DeletedDates ==
    ASSUME TypeOK, NEW rows, Delete(rows), \A i \in rows : i \in Id => exceptions[i].state # "none"
    PROVE  \A i \in Id : /\ Kept(i)
                         /\ exceptions'[i].state = exceptions[i].state \/ exceptions'[i].state = "deleted"
<1> SUFFICES ASSUME NEW i \in Id
             PROVE  /\ Kept(i)
                    /\ exceptions'[i].state = exceptions[i].state \/ exceptions'[i].state = "deleted"
  OBVIOUS
<1>1. CASE i \in rows
  <2>1. Exists(i) /\ exceptions[i] \in Exception
    BY <1>1, DatesTyped DEF Exists, NoException
  <2>2. exceptions'[i] = [exceptions[i] EXCEPT !.state = "deleted"]
    BY <1>1 DEF Delete
  <2> QED BY <2>1, <2>2 DEF Exception, Kept, Exists, NoException
<1>2. CASE i \notin rows
  BY <1>2 DEF Delete, Kept, Exists
<1> QED BY <1>1, <1>2

\* The steps after a tick's reconciliation.
LEMMA LaterTicks ==
    ASSUME TypeOK, NEW r \in Replica,
           \/ ResolveDone(r) \/ Claim(r) \/ Emit(r) \/ EmitUnchecked(r) \/ EmitFails(r) \/ Mark(r)
           \/ DrainDone(r)
    PROVE  \E tick : ticks' = [ticks EXCEPT ![r] = tick] /\ ~Before(tick)
<1>6. ticks[r] \in Tick
  BY DEF ResolveDone, Claim, Emit, EmitUnchecked, EmitFails, Emitting, Mark, DrainDone, At,
         TypeOK, NoTick
<1>1. CASE ResolveDone(r)
  <2>1. [ticks[r] EXCEPT !.at = "drain"].at = "drain"
    BY <1>6 DEF Tick
  <2> QED BY <1>1, <2>1 DEF ResolveDone, Step, Before
<1>2. CASE Claim(r)
  <2>1. PICK jobs : Step(r, [ticks[r] EXCEPT !.at = "emit", !.jobs = jobs, !.open = {}, !.matched = {},
                                             !.reported = {}, !.ok = FALSE, !.asof = 0])
    BY <1>2 DEF Claim
  <2>2. [ticks[r] EXCEPT !.at = "emit", !.jobs = jobs, !.open = {}, !.matched = {},
                         !.reported = {}, !.ok = FALSE, !.asof = 0].at = "emit"
    BY <1>6 DEF Tick
  <2> QED BY <2>1, <2>2 DEF Step, Before
<1>3. CASE Emit(r) \/ EmitUnchecked(r) \/ EmitFails(r)
  <2>1. PICK carried : Step(r, [ticks[r] EXCEPT !.at = "mark", !.emitted = carried])
    BY <1>3 DEF Emit, EmitUnchecked, EmitFails, Emitting
  <2>2. [ticks[r] EXCEPT !.at = "mark", !.emitted = carried].at = "mark"
    BY <1>6 DEF Tick
  <2> QED BY <2>1, <2>2 DEF Step, Before
<1>4. CASE Mark(r)
  <2>1. PICK n : Step(r, [ticks[r] EXCEPT !.at = "emit", !.jobs = @ \ {n}, !.emitted = FALSE])
    BY <1>4 DEF Mark
  <2>2. [ticks[r] EXCEPT !.at = "emit", !.jobs = @ \ {n}, !.emitted = FALSE].at = "emit"
    BY <1>6 DEF Tick
  <2> QED BY <2>1, <2>2 DEF Step, Before
<1>5. CASE DrainDone(r)
  <2>1. [ticks[r] EXCEPT !.at = "prune"].at = "prune"
    BY <1>6 DEF Tick
  <2> QED BY <1>5, <2>1 DEF DrainDone, Step, Before
<1> QED BY <1>1, <1>2, <1>3, <1>4, <1>5

\* The steps of a tick that date nothing.
LEMMA TickDates ==
    ASSUME ViewsInOrder, TypeOK, TypeOK', NEW r \in Replica,
           \/ Acquire(r) \/ ListPolicies(r) \/ CollectFails(r) \/ ListOpenExceptions(r)
           \/ ObserveFinding(r) \/ OpensNothing(r) \/ OpenContended(r)
           \/ FindingsDone(r) \/ ResolveException(r) \/ ResolveDone(r)
           \/ Claim(r) \/ Emit(r) \/ EmitUnchecked(r) \/ EmitFails(r) \/ Mark(r) \/ DrainDone(r)
           \/ Prune(r) \/ TickEnds(r)
    PROVE  ViewsInOrder'
<1>0. exceptions' = exceptions => \A i \in Id : Kept(i)
  BY DEF Kept, Exists
<1>1. CASE Acquire(r)
  <2>1. PICK tick : /\ ticks' = [ticks EXCEPT ![r] = tick]
                    /\ tick.asof = 0 /\ tick.ok = FALSE /\ tick.at = "policies"
    <3> DEFINE new == [at |-> "policies", active |-> {}, ok |-> FALSE, asof |-> 0, findings |-> {},
                       reported |-> {}, open |-> {}, matched |-> {}, jobs |-> {}, emitted |-> FALSE]
    <3>1. new.asof = 0 /\ new.ok = FALSE /\ new.at = "policies"
      OBVIOUS
    <3>2. ticks' = [ticks EXCEPT ![r] = new]
      BY <1>1 DEF Acquire, Step
    <3> HIDE DEF new
    <3> QED BY <3>1, <3>2
  <2> QED BY <1>0, <1>1, <2>1, TickDatesKept DEF Acquire
<1>2. ASSUME NEW tick, ticks' = [ticks EXCEPT ![r] = tick], UNCHANGED <<world, cache, changes>>,
             \A i \in Id : Kept(i),
             ~Before(tick)
      PROVE  ViewsInOrder'
  BY <1>2, TickDatesKept
<1>3. ASSUME NEW tick, ticks' = [ticks EXCEPT ![r] = tick], UNCHANGED <<world, cache, changes>>,
             \A i \in Id : Kept(i),
             Before(ticks[r]), tick.ok = ticks[r].ok, tick.asof = ticks[r].asof,
             tick.at = "resolve" => ticks[r].ok,
             tick.at \in {"policies", "collect"} => ~ticks[r].ok
      PROVE  ViewsInOrder'
  BY <1>3, TickDatesKept
<1>4. NoTick.at = "idle"
  BY DEF NoTick
<1>5. CASE ListPolicies(r)
  <2>1. ticks[r] \in Tick /\ Before(ticks[r]) /\ ~ticks[r].ok
    BY <1>5, DatesTyped DEF ListPolicies, At, Before, ViewsInOrder
  <2>2. UNCHANGED <<world, cache, changes, exceptions>>
    BY <1>5 DEF ListPolicies
  <2>3. CASE Step(r, NoTick)
    BY <1>0, <1>2, <1>4, <2>2, <2>3 DEF Step, Before
  <2>4. CASE Step(r, [ticks[r] EXCEPT !.at = "collect", !.active = Enabled])
    <3>1. PICK tick : tick = [ticks[r] EXCEPT !.at = "collect", !.active = Enabled]
      OBVIOUS
    <3>2. tick.at = "collect" /\ tick.ok = ticks[r].ok /\ tick.asof = ticks[r].asof
      BY <2>1, <3>1 DEF Tick
    <3> QED BY <1>0, <1>3, <2>1, <2>2, <2>4, <3>1, <3>2 DEF Step
  <2> QED BY <1>5, <2>3, <2>4 DEF ListPolicies
<1>6. CASE CollectFails(r)
  <2>1. ticks[r] \in Tick /\ Before(ticks[r])
    BY <1>6, DatesTyped DEF CollectFails, At, Before
  <2>2. UNCHANGED <<world, cache, changes, exceptions>>
    BY <1>6 DEF CollectFails
  <2>3. PICK found : Step(r, [ticks[r] EXCEPT !.at = "list", !.active = {},
                                              !.findings = found, !.reported = Conditions(found)])
    BY <1>6 DEF CollectFails
  <2>4. PICK tick : tick = [ticks[r] EXCEPT !.at = "list", !.active = {},
                                            !.findings = found, !.reported = Conditions(found)]
    OBVIOUS
  <2>5. tick.at = "list" /\ tick.ok = ticks[r].ok /\ tick.asof = ticks[r].asof
    BY <2>1, <2>4 DEF Tick
  <2> QED BY <1>0, <1>3, <2>1, <2>2, <2>3, <2>4, <2>5 DEF Step
<1>7. CASE ListOpenExceptions(r)
  <2>1. ticks[r] \in Tick /\ Before(ticks[r])
    BY <1>7, DatesTyped DEF ListOpenExceptions, At, Before
  <2>2. UNCHANGED <<world, cache, changes, exceptions>>
    BY <1>7 DEF ListOpenExceptions
  <2>3. PICK tick : tick = [ticks[r] EXCEPT !.at = "reconcile", !.open = {i \in Id : Open(i)}]
    OBVIOUS
  <2>4. tick.at = "reconcile" /\ tick.ok = ticks[r].ok /\ tick.asof = ticks[r].asof
    BY <2>1, <2>3 DEF Tick
  <2>5. ticks' = [ticks EXCEPT ![r] = tick]
    BY <1>7, <2>3 DEF ListOpenExceptions, Step
  <2> QED BY <1>0, <1>3, <2>1, <2>2, <2>4, <2>5
<1>8. CASE ObserveFinding(r) \/ OpensNothing(r) \/ OpenContended(r)
  <2>1. ticks[r] \in Tick /\ Before(ticks[r]) /\ ticks[r].at = "reconcile"
    BY <1>8, DatesTyped DEF ObserveFinding, OpensNothing, OpenContended, At, Before
  <2>2. UNCHANGED <<world, cache, changes, exceptions>>
    BY <1>8 DEF ObserveFinding, OpensNothing, OpenContended
  <2>3. PICK f, rows : Handled(r, f, rows)
    BY <1>8 DEF ObserveFinding, OpensNothing, OpenContended
  <2>4. PICK tick : tick = [ticks[r] EXCEPT !.findings = @ \ {f}, !.matched = @ \union rows]
    OBVIOUS
  <2>5. tick.at = "reconcile" /\ tick.ok = ticks[r].ok /\ tick.asof = ticks[r].asof
    BY <2>1, <2>4 DEF Tick
  <2>6. ticks' = [ticks EXCEPT ![r] = tick]
    BY <2>1, <2>3, <2>4 DEF Handled, TypeOK
  <2> QED BY <1>0, <1>3, <2>1, <2>2, <2>5, <2>6
<1>9. CASE FindingsDone(r)
  <2>1. ticks[r] \in Tick /\ Before(ticks[r])
    BY <1>9, DatesTyped DEF FindingsDone, At, Before
  <2>2. UNCHANGED <<world, cache, changes, exceptions>>
    BY <1>9 DEF FindingsDone
  <2>3. PICK tick : tick = [ticks[r] EXCEPT !.at = afterFindings(ticks[r])]
    OBVIOUS
  <2>4. tick.at = afterFindings(ticks[r]) /\ tick.ok = ticks[r].ok /\ tick.asof = ticks[r].asof
    BY <2>1, <2>3 DEF Tick
  <2>5. ticks' = [ticks EXCEPT ![r] = tick]
    BY <1>9, <2>3 DEF FindingsDone, Step
  <2>6. tick.at \in {"resolve", "drain"} /\ (tick.at = "resolve" => ticks[r].ok)
    BY <2>4 DEF afterFindings
  <2> QED BY <1>0, <1>3, <2>1, <2>2, <2>4, <2>5, <2>6
<1>10. CASE ResolveException(r)
  <2>1. ticks[r] \in Tick /\ Before(ticks[r]) /\ ticks[r].at = "resolve"
    BY <1>10, DatesTyped DEF ResolveException, At, Before
  <2>2. UNCHANGED <<world, cache, changes>> /\ ticks[r].ok
    BY <1>10, <2>1, DatesTyped DEF ResolveException, ViewsInOrder
  <2>3. PICK i \in Id : /\ ticks' = [ticks EXCEPT ![r].matched = @ \union {i}]
                        /\ \/ Open(i) /\ exceptions' = [exceptions EXCEPT ![i].state = "resolved"]
                           \/ exceptions' = exceptions
    BY <1>10, <2>1 DEF ResolveException, Unmatched, Tick
  <2>4. PICK tick : tick = [ticks[r] EXCEPT !.matched = @ \union {i}]
    OBVIOUS
  <2>5. tick.at = "resolve" /\ tick.ok = ticks[r].ok /\ tick.asof = ticks[r].asof
    BY <2>1, <2>4 DEF Tick
  <2>6. ticks' = [ticks EXCEPT ![r] = tick]
    BY <2>3, <2>4 DEF TypeOK
  <2>7. \A j \in Id : Kept(j)
    <3>1. CASE exceptions' = exceptions
      BY <1>0, <3>1
    <3>2. CASE Open(i) /\ exceptions' = [exceptions EXCEPT ![i].state = "resolved"]
      <4>1. Exists(i) /\ exceptions[i] \in Exception
        BY <3>2, DatesTyped DEF Open, Exists, NoException
      <4>2. /\ Kept(i)
            /\ \A j \in Id : j # i => exceptions'[j] = exceptions[j]
        BY <3>2, <4>1 DEF TypeOK, Exception, Kept, Exists, NoException
      <4> QED BY <4>2 DEF Kept, Exists
    <3> QED BY <2>3, <3>1, <3>2
  <2> QED BY <1>3, <2>1, <2>2, <2>5, <2>6, <2>7
<1>11. CASE ResolveDone(r) \/ Claim(r) \/ Emit(r) \/ EmitUnchecked(r) \/ EmitFails(r) \/ Mark(r) \/ DrainDone(r)
  <2>1. UNCHANGED <<world, cache, changes, exceptions>>
    BY <1>11 DEF ResolveDone, Claim, Emit, EmitUnchecked, EmitFails, Emitting, Mark, DrainDone
  <2>2. \E tick : ticks' = [ticks EXCEPT ![r] = tick] /\ ~Before(tick)
    BY <1>11, LaterTicks
  <2> QED BY <1>0, <1>2, <2>1, <2>2
<1>12. CASE Prune(r) \/ TickEnds(r)
  <2>1. UNCHANGED <<world, cache, changes>> /\ ticks' = [ticks EXCEPT ![r] = NoTick]
    BY <1>12 DEF Prune, TickEnds, Step
  <2>2. \A i \in Id : Kept(i)
    <3>1. CASE TickEnds(r)
      BY <1>0, <3>1 DEF TickEnds
    <3>2. CASE Prune(r)
      BY <3>2, DeletedDates DEF Prune, Expired
    <3> QED BY <1>12, <3>1, <3>2
  <2> QED BY <1>2, <1>4, <2>1, <2>2 DEF Before
<1> QED BY <1>1, <1>5, <1>6, <1>7, <1>8, <1>9, <1>10, <1>11, <1>12

\* Steps outside the ticks.  A cache that ends, or is filled by a page, makes
\* the view of the next tick a younger one.
LEMMA AsideDates ==
    ASSUME ViewsInOrder, TypeOK, TypeOK', UNCHANGED ticks,
           changes' \in Nat, changes <= changes',
           \A i \in Id : Kept(i),
           \A r \in Replica : \/ cache'[r] = cache[r]
                              \/ cache'[r] = NoView
                              \/ cache[r] = NoView /\ cache'[r] = Fetched(r)
    PROVE  ViewsInOrder'
<1>1. ASSUME NEW r \in Replica
      PROVE  Fetched(r).asof <= Fetched(r)'.asof /\ Fetched(r)'.asof <= changes'
  <2>1. changes \in Nat /\ Fetched(r).asof \in Nat /\ Fetched(r).asof <= changes
    BY DatesTyped DEF ViewsInOrder
  <2>2. cache'[r] = NoView => Fetched(r)'.asof = changes'
    BY DEF Fetched
  <2>3. cache[r] = NoView => Fetched(r).asof = changes
    BY DEF Fetched
  <2>4. cache'[r] # NoView => Fetched(r)'.asof = cache'[r].asof
    BY DEF Fetched
  <2>5. cache[r] # NoView => Fetched(r).asof = cache[r].asof
    BY DEF Fetched
  <2> QED BY <2>1, <2>2, <2>3, <2>4, <2>5
<1>2. ASSUME NEW r \in Replica, Before(ticks'[r])
      PROVE  /\ Before(ticks[r]) /\ ticks'[r].ok = ticks[r].ok /\ ticks'[r].asof = ticks[r].asof
             /\ ticks'[r].at = "resolve" => ticks[r].ok
             /\ ticks'[r].at \in {"policies", "collect"} => ~ticks[r].ok
  <2>1. ticks'[r] = ticks[r] /\ ticks[r].ok \in BOOLEAN
    BY <1>2, DatesTyped
  <2> QED BY <1>2, <2>1 DEF ViewsInOrder
<1> QED BY <1>1, <1>2, DatesKept

\* The tick takes the view, no older than any exception of its replica, and its
\* date with it.
LEMMA CollectDates ==
    ASSUME ViewsInOrder, TypeOK, TypeOK', NEW r \in Replica, Collect(r)
    PROVE  ViewsInOrder'
<1>1. PICK tick : /\ ticks' = [ticks EXCEPT ![r] = tick]
                  /\ tick.at = "list" /\ tick.ok = TRUE /\ tick.asof = Fetched(r).asof
  <2>1. ticks[r] \in Tick
    BY DEF Collect, At, TypeOK, NoTick
  <2>2. PICK found : Step(r, [ticks[r] EXCEPT !.at = "list", !.ok = TRUE, !.asof = Fetched(r).asof,
                                              !.active = {},
                                              !.findings = found, !.reported = Conditions(found)])
    BY DEF Collect
  <2>3. PICK tick : tick = [ticks[r] EXCEPT !.at = "list", !.ok = TRUE, !.asof = Fetched(r).asof,
                                            !.active = {},
                                            !.findings = found, !.reported = Conditions(found)]
    OBVIOUS
  <2>4. tick.at = "list" /\ tick.ok = TRUE /\ tick.asof = Fetched(r).asof
    BY <2>1, <2>3 DEF Tick
  <2> QED BY <2>2, <2>3, <2>4 DEF Step
<1>2. \A q \in Replica : q # r => ticks'[q] = ticks[q] /\ cache'[q] = cache[q]
  BY <1>1 DEF TypeOK, Collect
<1>3. ticks'[r] = tick
  BY <1>1 DEF TypeOK
<1>4. Fetched(r)'.asof = Fetched(r).asof /\ UNCHANGED <<exceptions, changes>>
  <2>1. cache' = cache \/ cache'[r] = Fetched(r)
    BY DEF Collect, TypeOK
  <2>2. UNCHANGED <<world, exceptions, changes>>
    BY DEF Collect
  <2>3. cache'[r] = Fetched(r) => Fetched(r)'.asof = Fetched(r).asof
    <3>1. CASE cache'[r] = NoView
      <4>1. cache[r] = NoView \/ Fetched(r) = cache[r]
        BY DEF Fetched
      <4> QED BY <2>2, <3>1, <4>1 DEF Fetched
    <3>2. CASE cache'[r] # NoView
      BY <3>2 DEF Fetched
    <3> QED BY <3>1, <3>2
  <2>4. cache' = cache => Fetched(r)' = Fetched(r)
    BY <2>2 DEF Fetched
  <2> QED BY <2>1, <2>2, <2>3, <2>4
<1>5. Fetched(r).asof \in Nat /\ Fetched(r).asof <= changes
      /\ \A i \in Id : Mine(r, i) => exceptions[i].asof <= Fetched(r).asof
  BY DatesTyped DEF ViewsInOrder
<1>6. \A q \in Replica : q # r => Fetched(q)' = Fetched(q)
  BY <1>2 DEF Fetched, Collect
<1>7. \A q \in Replica, i \in Id : Mine(q, i)' <=> Mine(q, i)
  BY <1>4 DEF Mine, Exists
<1>8. ASSUME NEW q \in Replica
      PROVE  /\ Fetched(q)'.asof <= changes'
             /\ \A i \in Id : Mine(q, i)' => exceptions'[i].asof <= Fetched(q)'.asof
             /\ Before(ticks'[q]) =>
                   /\ ticks'[q].asof <= Fetched(q)'.asof
                   /\ ticks'[q].ok => \A i \in Id : Mine(q, i)' => exceptions'[i].asof <= ticks'[q].asof
                   /\ ~ticks'[q].ok => ticks'[q].asof = 0 /\ ticks'[q].at # "resolve"
                   /\ ticks'[q].at \in {"policies", "collect"} => ~ticks'[q].ok
  <2>1. CASE q = r
    BY <1>1, <1>3, <1>4, <1>5, <1>7, <2>1
  <2>2. CASE q # r
    BY <1>2, <1>4, <1>6, <1>7, <2>2 DEF ViewsInOrder
  <2> QED BY <2>1, <2>2
<1> QED BY <1>8 DEF ViewsInOrder

\* A new exception is dated by its tick's view.
LEMMA OpenDates ==
    ASSUME ViewsInOrder, TypeOK, TypeOK', NEW r \in Replica, OpenException(r)
    PROVE  ViewsInOrder'
<1>1. ticks[r] \in Tick /\ Before(ticks[r]) /\ ticks[r].at = "reconcile"
  BY DatesTyped DEF OpenException, At, Before
<1>2. UNCHANGED <<world, cache, changes>>
  BY DEF OpenException
<1>3. PICK f \in ticks[r].findings, i \in Id :
          /\ exceptions' = [exceptions EXCEPT ![i] =
                [state |-> "open", condition |-> f.condition, policy |-> f.policy,
                 old |-> FALSE, by |-> r, asof |-> ticks[r].asof]]
          /\ Handled(r, f, {i})
  BY DEF OpenException
<1>4. /\ exceptions'[i].asof = ticks[r].asof /\ exceptions'[i].by = r
      /\ \A j \in Id : j # i => exceptions'[j] = exceptions[j]
  BY <1>3 DEF TypeOK
<1>5. PICK tick : tick = [ticks[r] EXCEPT !.findings = @ \ {f}, !.matched = @ \union {i}]
  OBVIOUS
<1>6. tick.at = "reconcile" /\ tick.ok = ticks[r].ok /\ tick.asof = ticks[r].asof
  BY <1>1, <1>5 DEF Tick
<1>7. ticks'[r] = tick /\ \A q \in Replica : q # r => ticks'[q] = ticks[q]
  BY <1>1, <1>3, <1>5 DEF Handled, TypeOK
<1>8. \A q \in Replica, j \in Id : Mine(q, j)' => (Mine(q, j) /\ j # i) \/ (q = r /\ j = i)
  BY <1>4 DEF Mine, Exists
<1>9. \A q \in Replica : Fetched(q)' = Fetched(q)
  BY <1>2 DEF Fetched
<1>10. ticks[r].asof \in Nat /\ ticks[r].ok \in BOOLEAN /\ ticks[r].asof <= ticks[r].asof
  <2>1. ticks[r].asof \in Nat /\ ticks[r].ok \in BOOLEAN
    BY <1>1, DatesTyped
  <2> QED BY <2>1
<1>11. ASSUME NEW q \in Replica
       PROVE  /\ Fetched(q).asof <= changes
              /\ \A j \in Id : Mine(q, j)' => exceptions'[j].asof <= Fetched(q).asof
              /\ Before(ticks'[q]) =>
                    /\ ticks'[q].asof <= Fetched(q).asof
                    /\ ticks'[q].ok => \A j \in Id : Mine(q, j)' => exceptions'[j].asof <= ticks'[q].asof
                    /\ ~ticks'[q].ok => ticks'[q].asof = 0 /\ ticks'[q].at # "resolve"
                    /\ ticks'[q].at \in {"policies", "collect"} => ~ticks'[q].ok
  <2>1. CASE q = r
    <3>1. \A j \in Id : Mine(r, j)' => exceptions'[j].asof <= Fetched(r).asof
      BY <1>1, <1>4, <1>8 DEF ViewsInOrder
    <3>2. ticks[r].ok => \A j \in Id : Mine(r, j)' => exceptions'[j].asof <= ticks[r].asof
      BY <1>1, <1>4, <1>8, <1>10 DEF ViewsInOrder
    <3>3. /\ Fetched(r).asof <= changes /\ ticks[r].asof <= Fetched(r).asof
          /\ ~ticks[r].ok => ticks[r].asof = 0
      BY <1>1 DEF ViewsInOrder
    <3> QED BY <1>6, <1>7, <2>1, <3>1, <3>2, <3>3
  <2>2. CASE q # r
    BY <1>4, <1>7, <1>8, <2>2 DEF ViewsInOrder
  <2> QED BY <2>1, <2>2
<1> QED BY <1>2, <1>9, <1>11 DEF ViewsInOrder

\* The views stay in order.
LEMMA ViewsStayInOrder ==
    ASSUME AssuranceInv, ViewsInOrder, [Next]_vars
    PROVE  ViewsInOrder'
<1>1. TypeOK /\ TypeOK' /\ changes \in Nat
  BY StepGood, DatesTyped DEF AssuranceInv
<1>2. ASSUME UNCHANGED <<ticks, exceptions>>, changes' \in Nat, changes <= changes',
             \A r \in Replica : \/ cache'[r] = cache[r]
                                \/ cache'[r] = NoView
                                \/ cache[r] = NoView /\ cache'[r] = Fetched(r)
      PROVE  ViewsInOrder'
  <2>1. \A i \in Id : Kept(i)
    BY <1>2 DEF Kept, Exists
  <2> QED BY <1>1, <1>2, <2>1, AsideDates
<1>3. changes <= changes
  BY <1>1
<1>4. Change => changes' \in Nat /\ changes <= changes'
  BY <1>1 DEF Change
<1>5. ASSUME NEW r \in Replica, Release(r) \/ Browse(r) \/ CacheEnds(r) PROVE ViewsInOrder'
  <2>1. UNCHANGED <<ticks, exceptions, changes>>
    BY <1>5 DEF Release, Browse, CacheEnds
  <2>2. \A q \in Replica : \/ cache'[q] = cache[q]
                           \/ cache'[q] = NoView
                           \/ cache[q] = NoView /\ cache'[q] = Fetched(q)
    BY <1>1, <1>5 DEF Release, Browse, CacheEnds, TypeOK
  <2> QED BY <1>1, <1>2, <1>3, <2>1, <2>2
<1>6. ASSUME LeaseExpires \/ (\E k \in IntentKey : WindowCloses(k)) \/ UNCHANGED vars PROVE ViewsInOrder'
  <2>1. UNCHANGED <<ticks, exceptions, changes, cache>>
    BY <1>6 DEF LeaseExpires, WindowCloses, vars
  <2> QED BY <1>1, <1>2, <1>3, <2>1
<1>7. ASSUME (\E c \in Condition : WorldChanges(c)) \/ (\E p \in Policy : WritePolicy(p)) PROVE ViewsInOrder'
  <2>1. UNCHANGED <<ticks, exceptions, cache>> /\ Change
    BY <1>7 DEF WorldChanges, WritePolicy
  <2> QED BY <1>2, <1>4, <2>1
<1>8. ASSUME NEW p \in Policy, DeletePolicy(p) PROVE ViewsInOrder'
  <2>1. UNCHANGED <<ticks, cache>> /\ Change
    BY <1>8 DEF DeletePolicy
  <2>2. PICK rows : Delete(rows) /\ \A i \in rows : exceptions[i].state \in {"open", "resolved"}
    BY <1>8 DEF DeletePolicy
  <2>3. \A i \in Id : Kept(i)
    BY <1>1, <2>2, DeletedDates
  <2> QED BY <1>1, <1>4, <2>1, <2>3, AsideDates
<1>9. ASSUME NEW i \in Id, GrowsOld(i) PROVE ViewsInOrder'
  <2>1. UNCHANGED <<ticks, cache, changes>> /\ exceptions' = [exceptions EXCEPT ![i].old = TRUE]
        /\ Exists(i)
    BY <1>9 DEF GrowsOld, Exists, NoException
  <2>2. exceptions[i] \in Exception
    BY <1>1, <2>1, DatesTyped
  <2>3. Kept(i) /\ \A j \in Id : j # i => exceptions'[j] = exceptions[j]
    BY <1>1, <2>1, <2>2 DEF TypeOK, Exception, Kept, Exists, NoException
  <2>4. \A j \in Id : Kept(j)
    BY <2>3 DEF Kept, Exists
  <2> QED BY <1>1, <1>3, <2>1, <2>4, AsideDates
<1> QED BY <1>1, <1>5, <1>6, <1>7, <1>8, <1>9, TickDates, CollectDates, OpenDates DEF Next

\* Only reconcile's own resolution turns an open row into a resolved one.
LEMMA OnlyResolveResolves ==
    ASSUME TypeOK, Next, NEW i \in Id, Open(i), exceptions'[i].state = "resolved"
    PROVE  \E r \in Replica : /\ ResolveException(r) /\ ticks'[r] # ticks[r] /\ i \in Unmatched(r)
                              /\ Before(ticks[r]) /\ ticks[r].at = "resolve"
<1>1. exceptions'[i].state # exceptions[i].state /\ exceptions' # exceptions
  BY DEF Open
<1>2. ASSUME NEW r \in Replica, OpenException(r) PROVE FALSE
  <2>1. PICK f \in ticks[r].findings, j \in Id :
            /\ Fresh(j)
            /\ exceptions' = [exceptions EXCEPT ![j] =
                  [state |-> "open", condition |-> f.condition, policy |-> f.policy,
                   old |-> FALSE, by |-> r, asof |-> ticks[r].asof]]
    BY <1>2 DEF OpenException
  <2>2. exceptions'[j].state = "open" /\ \A h \in Id : h # j => exceptions'[h] = exceptions[h]
    BY <2>1 DEF TypeOK
  <2> QED BY <1>1, <2>2
<1>3. ASSUME NEW r \in Replica, Prune(r) PROVE FALSE
  <2>1. PICK rows : Delete(rows) /\ \A j \in rows : j \in Id => exceptions[j].state # "none"
    BY <1>3 DEF Prune, Expired
  <2> QED BY <1>1, <2>1, DeletedDates
<1>4. ASSUME NEW p \in Policy, DeletePolicy(p) PROVE FALSE
  <2>1. PICK rows : Delete(rows) /\ \A j \in rows : j \in Id => exceptions[j].state # "none"
    BY <1>4 DEF DeletePolicy
  <2> QED BY <1>1, <2>1, DeletedDates
<1>5. ASSUME NEW j \in Id, GrowsOld(j) PROVE FALSE
  <2>1. exceptions[j] \in Exception
    BY <1>5, DatesTyped DEF GrowsOld, Exists, NoException
  <2>2. exceptions'[j].state = exceptions[j].state /\ \A h \in Id : h # j => exceptions'[h] = exceptions[h]
    BY <1>5, <2>1 DEF GrowsOld, TypeOK, Exception
  <2> QED BY <1>1, <2>2
<1>6. ASSUME NEW r \in Replica, ResolveException(r)
      PROVE  /\ ticks'[r] # ticks[r] /\ i \in Unmatched(r)
             /\ Before(ticks[r]) /\ ticks[r].at = "resolve"
  <2>1. Before(ticks[r]) /\ ticks[r].at = "resolve" /\ ticks[r] \in Tick
    BY <1>6, DatesTyped DEF ResolveException, At, Before
  <2>2. PICK j \in Unmatched(r) :
            /\ ticks' = [ticks EXCEPT ![r].matched = @ \union {j}]
            /\ exceptions' = exceptions \/ exceptions' = [exceptions EXCEPT ![j].state = "resolved"]
    BY <1>6 DEF ResolveException
  <2>3. ticks'[r] = [ticks[r] EXCEPT !.matched = @ \union {j}]
    BY <2>2 DEF TypeOK
  <2>4. ticks'[r].matched = ticks[r].matched \union {j}
    BY <2>1, <2>3 DEF Tick
  <2>5. j \notin ticks[r].matched
    BY <2>2 DEF Unmatched
  <2>6. j = i
    BY <1>1, <2>2 DEF TypeOK
  <2> QED BY <2>1, <2>2, <2>4, <2>5, <2>6
<1>7. ASSUME NEW r \in Replica,
             \/ Acquire(r) \/ Release(r) \/ ListPolicies(r) \/ Collect(r) \/ CollectFails(r)
             \/ Browse(r) \/ CacheEnds(r) \/ ListOpenExceptions(r)
             \/ ObserveFinding(r) \/ OpensNothing(r) \/ OpenContended(r)
             \/ FindingsDone(r) \/ ResolveDone(r)
      PROVE  UNCHANGED exceptions
  BY <1>7 DEF Acquire, Release, ListPolicies, Collect, CollectFails, Browse, CacheEnds,
     ListOpenExceptions, ObserveFinding, OpensNothing, OpenContended, FindingsDone, ResolveDone
<1>8. ASSUME NEW r \in Replica,
             \/ Claim(r) \/ Emit(r) \/ EmitUnchecked(r) \/ EmitFails(r) \/ Mark(r) \/ DrainDone(r)
             \/ TickEnds(r)
      PROVE  UNCHANGED exceptions
  BY <1>8 DEF Claim, Emit, EmitUnchecked, EmitFails, Emitting, Mark, DrainDone, TickEnds
<1>9. ASSUME \/ LeaseExpires
             \/ \E c \in Condition : WorldChanges(c)
             \/ \E p \in Policy : WritePolicy(p)
             \/ \E k \in IntentKey : WindowCloses(k)
      PROVE  UNCHANGED exceptions
  BY <1>9 DEF LeaseExpires, WorldChanges, WritePolicy, WindowCloses
<1> QED BY <1>1, <1>2, <1>3, <1>4, <1>5, <1>6, <1>7, <1>8, <1>9 DEF Next

-----------------------------------------------------------------------------
(* The evidence of a resolution *)

\* What a tick loaded and its findings report is matched, or is still to be.
Accounted(tick) ==
    \A i \in Id :
        i \in tick.open =>
            /\ Exists(i)
            /\ exceptions[i].condition \in tick.reported =>
                  i \in tick.matched \/ \E f \in tick.findings : f.condition = exceptions[i].condition

Evidenced(tick) ==
    /\ tick.at = "list" => tick.reported \subseteq Conditions(tick.findings)
    /\ tick.at \in {"reconcile", "resolve"} => Accounted(tick)
    /\ tick.at = "resolve" => tick.findings = {}

Evidence == \A r \in Replica : Evidenced(ticks[r])

\* The rows a tick knows of keep their conditions.
LEMMA EvidenceLasts ==
    ASSUME NEW tick, Evidenced(tick),
           \A i \in Id : Exists(i) => Exists(i)' /\ exceptions'[i].condition = exceptions[i].condition
    PROVE  /\ tick.at = "list" => tick.reported \subseteq Conditions(tick.findings)
           /\ tick.at \in {"reconcile", "resolve"} =>
                \A i \in Id :
                    i \in tick.open =>
                        /\ Exists(i)'
                        /\ exceptions'[i].condition \in tick.reported =>
                              \/ i \in tick.matched
                              \/ \E f \in tick.findings : f.condition = exceptions'[i].condition
           /\ tick.at = "resolve" => tick.findings = {}
  BY DEF Evidenced, Accounted

\* One tick moves, and is evidenced by the rows there were.
LEMMA EvidenceMoves ==
    ASSUME TypeOK, Evidence, NEW r \in Replica, NEW tick, Evidenced(tick),
           ticks' = [ticks EXCEPT ![r] = tick],
           \A i \in Id : Exists(i) => Exists(i)' /\ exceptions'[i].condition = exceptions[i].condition
    PROVE  Evidence'
<1>1. \A q \in Replica : ticks'[q] = IF q = r THEN tick ELSE ticks[q]
  BY DEF TypeOK
<1>2. \A q \in Replica : Evidenced(ticks'[q])
  BY <1>1 DEF Evidence
<1>3. ASSUME NEW q \in Replica PROVE Evidenced(ticks[q])'
  <2>1. PICK t : t = ticks'[q] /\ Evidenced(t)
    BY <1>2
  <2> QED BY <2>1, EvidenceLasts DEF Evidenced, Accounted
<1> QED BY <1>3 DEF Evidence

\* No tick moves.
LEMMA EvidenceStays ==
    ASSUME Evidence, UNCHANGED ticks,
           \A i \in Id : Exists(i) => Exists(i)' /\ exceptions'[i].condition = exceptions[i].condition
    PROVE  Evidence'
<1>1. ASSUME NEW q \in Replica PROVE Evidenced(ticks[q])'
  <2>1. PICK t : t = ticks'[q] /\ Evidenced(t)
    BY DEF Evidence
  <2> QED BY <2>1, EvidenceLasts DEF Evidenced, Accounted
<1> QED BY <1>1 DEF Evidence

\* A finding is dealt with by matching the loaded rows of its condition.
LEMMA HandledEvidence ==
    ASSUME TypeOK, Evidence, NEW r \in Replica, At(r, "reconcile"),
           NEW f, NEW rows, Known(r, f) \subseteq rows, Handled(r, f, rows),
           \A i \in Id : Exists(i) => Exists(i)' /\ exceptions'[i].condition = exceptions[i].condition
    PROVE  Evidence'
<1>1. PICK tick : tick = [ticks[r] EXCEPT !.findings = @ \ {f}, !.matched = @ \union rows]
  OBVIOUS
<1>2. ticks[r] \in Tick
  BY DEF At, TypeOK, NoTick
<1>3. ticks' = [ticks EXCEPT ![r] = tick]
  BY <1>1, <1>2 DEF Handled, TypeOK
<1>4. /\ tick.at = "reconcile" /\ tick.open = ticks[r].open /\ tick.reported = ticks[r].reported
      /\ tick.findings = ticks[r].findings \ {f} /\ tick.matched = ticks[r].matched \union rows
  BY <1>1, <1>2 DEF Tick, At
<1>5. Accounted(ticks[r])
  BY DEF Evidence, Evidenced, At
<1>6. Accounted(tick)
  BY <1>4, <1>5 DEF Accounted, Known
<1>7. Evidenced(tick)
  BY <1>4, <1>6 DEF Evidenced
<1> QED BY <1>3, <1>7, EvidenceMoves

\* Every step keeps the evidence.
LEMMA EvidenceInductive ==
    ASSUME AssuranceInv, Evidence, [Next]_vars
    PROVE  Evidence'
<1> DEFINE Lasting == \A i \in Id : Exists(i) => Exists(i)' /\ exceptions'[i].condition = exceptions[i].condition
<1>1. TypeOK
  BY DEF AssuranceInv
<1>2. UNCHANGED exceptions => Lasting
  BY DEF Exists
<1>3. ASSUME NEW rows, Delete(rows), \A i \in rows : i \in Id => exceptions[i].state # "none"
      PROVE  Lasting
  BY <1>1, <1>3, DeletedDates DEF Kept
<1>4. ASSUME NEW r \in Replica, NEW tick, Lasting, ticks' = [ticks EXCEPT ![r] = tick],
             tick.at \notin {"list", "reconcile", "resolve"}
      PROVE  Evidence'
  BY <1>1, <1>4, EvidenceMoves DEF Evidenced
<1>5. \A r \in Replica : ~At(r, "idle") => ticks[r] \in Tick
  BY <1>1 DEF At, TypeOK, NoTick
<1>6. ASSUME NEW r \in Replica, Acquire(r) \/ ListPolicies(r) PROVE Evidence'
  <2>1. Lasting
    BY <1>2, <1>6 DEF Acquire, ListPolicies
  <2>2. CASE ticks' = [ticks EXCEPT ![r] = NoTick]
    BY <1>4, <2>1, <2>2 DEF NoTick
  <2>3. CASE ListPolicies(r) /\ Step(r, [ticks[r] EXCEPT !.at = "collect", !.active = Enabled])
    <3>1. PICK tick : tick = [ticks[r] EXCEPT !.at = "collect", !.active = Enabled]
      OBVIOUS
    <3>2. tick.at = "collect"
      BY <1>5, <2>3, <3>1 DEF Tick, ListPolicies, At
    <3> QED BY <1>4, <2>1, <2>3, <3>1, <3>2 DEF Step
  <2>4. CASE Acquire(r)
    <3>1. PICK tick : /\ tick.at = "policies"
                      /\ ticks' = [ticks EXCEPT ![r] = tick]
      <4> DEFINE new == [at |-> "policies", active |-> {}, ok |-> FALSE, asof |-> 0, findings |-> {},
                         reported |-> {}, open |-> {}, matched |-> {}, jobs |-> {}, emitted |-> FALSE]
      <4>1. new.at = "policies" /\ ticks' = [ticks EXCEPT ![r] = new]
        BY <2>4 DEF Acquire, Step
      <4> HIDE DEF new
      <4> QED BY <4>1
    <3> QED BY <1>4, <2>1, <3>1
  <2> QED BY <1>6, <2>2, <2>3, <2>4 DEF ListPolicies, Step
<1>7. ASSUME NEW r \in Replica, Collect(r) \/ CollectFails(r) PROVE Evidence'
  <2>1. Lasting /\ ticks[r] \in Tick
    BY <1>2, <1>5, <1>7 DEF Collect, CollectFails, At
  <2>2. PICK tick : /\ ticks' = [ticks EXCEPT ![r] = tick]
                    /\ tick.at = "list" /\ tick.reported = Conditions(tick.findings)
    <3>1. CASE Collect(r)
      <4>1. PICK found, date : Step(r, [ticks[r] EXCEPT !.at = "list", !.ok = TRUE, !.asof = date,
                !.active = {}, !.findings = found, !.reported = Conditions(found)])
        BY <3>1 DEF Collect
      <4>2. PICK tick : tick = [ticks[r] EXCEPT !.at = "list", !.ok = TRUE, !.asof = date,
                !.active = {}, !.findings = found, !.reported = Conditions(found)]
        OBVIOUS
      <4>3. tick.at = "list" /\ tick.findings = found /\ tick.reported = Conditions(found)
        BY <2>1, <4>2 DEF Tick
      <4> QED BY <4>1, <4>2, <4>3 DEF Step
    <3>2. CASE CollectFails(r)
      <4>1. PICK found : Step(r, [ticks[r] EXCEPT !.at = "list",
                !.active = {}, !.findings = found, !.reported = Conditions(found)])
        BY <3>2 DEF CollectFails
      <4>2. PICK tick : tick = [ticks[r] EXCEPT !.at = "list",
                !.active = {}, !.findings = found, !.reported = Conditions(found)]
        OBVIOUS
      <4>3. tick.at = "list" /\ tick.findings = found /\ tick.reported = Conditions(found)
        BY <2>1, <4>2 DEF Tick
      <4> QED BY <4>1, <4>2, <4>3 DEF Step
    <3> QED BY <1>7, <3>1, <3>2
  <2>3. Evidenced(tick)
    BY <2>2 DEF Evidenced
  <2> QED BY <1>1, <2>1, <2>2, <2>3, EvidenceMoves
<1>8. ASSUME NEW r \in Replica, ListOpenExceptions(r) PROVE Evidence'
  <2>1. Lasting /\ ticks[r] \in Tick /\ ticks[r].at = "list"
    BY <1>2, <1>5, <1>8 DEF ListOpenExceptions, At
  <2>2. PICK tick : tick = [ticks[r] EXCEPT !.at = "reconcile", !.open = {i \in Id : Open(i)}]
    OBVIOUS
  <2>3. /\ tick.at = "reconcile" /\ tick.open = {i \in Id : Open(i)}
        /\ tick.reported = ticks[r].reported /\ tick.findings = ticks[r].findings
    BY <2>1, <2>2 DEF Tick
  <2>4. tick.reported \subseteq Conditions(tick.findings)
    BY <2>1, <2>3 DEF Evidence, Evidenced
  <2>5. Accounted(tick)
    BY <2>3, <2>4 DEF Accounted, Conditions, Open, Exists, NoException
  <2>6. Evidenced(tick)
    BY <2>3, <2>5 DEF Evidenced
  <2>7. ticks' = [ticks EXCEPT ![r] = tick]
    BY <1>8, <2>2 DEF ListOpenExceptions, Step
  <2> QED BY <1>1, <2>1, <2>6, <2>7, EvidenceMoves
<1>9. ASSUME NEW r \in Replica, ObserveFinding(r) \/ OpensNothing(r) \/ OpenContended(r) PROVE Evidence'
  <2>1. Lasting /\ At(r, "reconcile")
    BY <1>2, <1>9 DEF ObserveFinding, OpensNothing, OpenContended
  <2>2. PICK f, rows : Known(r, f) \subseteq rows /\ Handled(r, f, rows)
    <3>1. ObserveFinding(r) => \E f, rows : Known(r, f) \subseteq rows /\ Handled(r, f, rows)
      BY DEF ObserveFinding
    <3>2. OpensNothing(r) \/ OpenContended(r) => \E f, rows : Known(r, f) = {} /\ Handled(r, f, rows)
      BY DEF OpensNothing, OpenContended
    <3> QED BY <1>9, <3>1, <3>2
  <2> QED BY <1>1, <2>1, <2>2, HandledEvidence
<1>10. ASSUME NEW r \in Replica, OpenException(r) PROVE Evidence'
  <2>1. PICK f \in ticks[r].findings, i \in Id :
            /\ Known(r, f) = {} /\ Fresh(i) /\ Handled(r, f, {i})
            /\ \A j \in Id : j # i => exceptions'[j] = exceptions[j]
    BY <1>1, <1>10 DEF OpenException, TypeOK
  <2>2. Lasting
    BY <2>1 DEF Fresh, Exists
  <2>3. At(r, "reconcile") /\ Known(r, f) \subseteq {i}
    BY <1>10, <2>1 DEF OpenException
  <2> QED BY <1>1, <2>1, <2>2, <2>3, HandledEvidence
<1>11. ASSUME NEW r \in Replica, FindingsDone(r) PROVE Evidence'
  <2>1. Lasting /\ ticks[r] \in Tick /\ ticks[r].at = "reconcile" /\ ticks[r].findings = {}
    BY <1>2, <1>5, <1>11 DEF FindingsDone, At
  <2>2. PICK tick : tick = [ticks[r] EXCEPT !.at = afterFindings(ticks[r])]
    OBVIOUS
  <2>3. /\ tick.at \in {"resolve", "drain"} /\ tick.open = ticks[r].open /\ tick.findings = {}
        /\ tick.reported = ticks[r].reported /\ tick.matched = ticks[r].matched
    BY <2>1, <2>2 DEF Tick, afterFindings
  <2>4. Accounted(tick)
    BY <2>1, <2>3 DEF Evidence, Evidenced, Accounted
  <2>5. Evidenced(tick)
    BY <2>3, <2>4 DEF Evidenced
  <2>6. ticks' = [ticks EXCEPT ![r] = tick]
    BY <1>11, <2>2 DEF FindingsDone, Step
  <2> QED BY <1>1, <2>1, <2>5, <2>6, EvidenceMoves
<1>12. ASSUME NEW r \in Replica, ResolveException(r) PROVE Evidence'
  <2>1. ticks[r] \in Tick /\ ticks[r].at = "resolve"
    BY <1>5, <1>12 DEF ResolveException, At
  <2>2. PICK i : /\ ticks' = [ticks EXCEPT ![r].matched = @ \union {i}]
                 /\ exceptions' = exceptions \/ exceptions' = [exceptions EXCEPT ![i].state = "resolved"]
    BY <1>12 DEF ResolveException
  <2>3. PICK tick : tick = [ticks[r] EXCEPT !.matched = @ \union {i}]
    OBVIOUS
  <2>4. /\ tick.at = "resolve" /\ tick.open = ticks[r].open /\ tick.findings = ticks[r].findings
        /\ tick.reported = ticks[r].reported /\ tick.matched = ticks[r].matched \union {i}
    BY <2>1, <2>3 DEF Tick
  <2>5. Evidenced(tick)
    BY <2>1, <2>4 DEF Evidence, Evidenced, Accounted
  <2>6. ticks' = [ticks EXCEPT ![r] = tick]
    BY <2>2, <2>3 DEF TypeOK
  <2>7. Lasting
    <3>1. CASE exceptions' = exceptions
      BY <1>2, <3>1
    <3>2. ASSUME NEW j \in Id, Exists(j), exceptions' = [exceptions EXCEPT ![i].state = "resolved"]
          PROVE  Exists(j)' /\ exceptions'[j].condition = exceptions[j].condition
      <4>1. exceptions[j] \in Exception
        BY <1>1, <3>2, DatesTyped
      <4> QED BY <1>1, <3>2, <4>1 DEF TypeOK, Exception, Exists, NoException
    <3> QED BY <2>2, <3>1, <3>2
  <2> QED BY <1>1, <2>5, <2>6, <2>7, EvidenceMoves
<1>13. ASSUME NEW r \in Replica,
              \/ ResolveDone(r) \/ Claim(r) \/ Emit(r) \/ EmitUnchecked(r) \/ EmitFails(r) \/ Mark(r)
              \/ DrainDone(r)
       PROVE  Evidence'
  <2>1. Lasting
    <3>1. UNCHANGED exceptions
      BY <1>13 DEF ResolveDone, Claim, Emit, EmitUnchecked, EmitFails, Emitting, Mark, DrainDone
    <3> QED BY <1>2, <3>1
  <2>2. \E tick : ticks' = [ticks EXCEPT ![r] = tick] /\ ~Before(tick)
    BY <1>1, <1>13, LaterTicks
  <2> QED BY <1>4, <2>1, <2>2 DEF Before
<1>14. ASSUME NEW r \in Replica, Prune(r) \/ TickEnds(r) PROVE Evidence'
  <2>1. ticks' = [ticks EXCEPT ![r] = NoTick] /\ NoTick.at = "idle"
    BY <1>14 DEF Prune, TickEnds, Step, NoTick
  <2>2. Lasting
    <3>1. CASE TickEnds(r)
      BY <1>2, <3>1 DEF TickEnds
    <3>2. CASE Prune(r)
      BY <1>3, <3>2 DEF Prune, Expired
    <3> QED BY <1>14, <3>1, <3>2
  <2> QED BY <1>4, <2>1, <2>2
<1>15. ASSUME NEW p \in Policy, DeletePolicy(p) PROVE Evidence'
  <2>1. PICK rows : Delete(rows) /\ \A i \in rows : i \in Id => exceptions[i].state # "none"
    BY <1>15 DEF DeletePolicy
  <2>2. Lasting /\ UNCHANGED ticks
    BY <1>3, <1>15, <2>1 DEF DeletePolicy
  <2> QED BY <2>2, EvidenceStays
<1>16. ASSUME NEW i \in Id, GrowsOld(i) PROVE Evidence'
  <2>1. exceptions[i] \in Exception
    BY <1>1, <1>16, DatesTyped DEF GrowsOld, Exists, NoException
  <2>2. Lasting
    BY <1>1, <1>16, <2>1 DEF GrowsOld, TypeOK, Exception, Exists, NoException
  <2> QED BY <1>16, <2>2, EvidenceStays DEF GrowsOld
<1>17. ASSUME \/ \E r \in Replica : Release(r) \/ Browse(r) \/ CacheEnds(r)
              \/ LeaseExpires
              \/ \E c \in Condition : WorldChanges(c)
              \/ \E p \in Policy : WritePolicy(p)
              \/ \E k \in IntentKey : WindowCloses(k)
              \/ UNCHANGED vars
       PROVE  Evidence'
  <2>1. UNCHANGED <<exceptions, ticks>>
    BY <1>17 DEF Release, Browse, CacheEnds, LeaseExpires, WorldChanges, WritePolicy, WindowCloses, vars
  <2> QED BY <1>2, <2>1, EvidenceStays
<1> HIDE DEF Lasting
<1> QED BY <1>6, <1>7, <1>8, <1>9, <1>10, <1>11, <1>12, <1>13, <1>14, <1>15, <1>16, <1>17 DEF Next

\* Whichever of any number of replicas opened an exception, it is resolved only
\* by a tick whose collection was ok and whose findings do not report it, held
\* ones included; and a replica does not resolve what it opened itself from a
\* later view, whatever pages and failures did to its cache (reconcile).
THEOREM ResolutionsEvidenced == Spec => ResolvedOnEvidence
<1>1. Init => ViewsInOrder /\ Evidence
  <2>1. SUFFICES ASSUME Init PROVE ViewsInOrder /\ Evidence
    OBVIOUS
  <2>2. \A r \in Replica : Fetched(r).asof = 0 /\ changes = 0 /\ ~Before(ticks[r]) /\ ticks[r] = NoTick
    BY <2>1 DEF Init, Fetched, NoTick, Before
  <2> QED BY <2>1, <2>2 DEF Init, ViewsInOrder, Mine, Exists, Evidence, Evidenced, NoTick
<1>2. AssuranceInv /\ ViewsInOrder /\ Evidence /\ [Next]_vars => ViewsInOrder' /\ Evidence'
  BY ViewsStayInOrder, EvidenceInductive
<1>3. AssuranceInv /\ ViewsInOrder /\ Evidence /\ [Next]_vars =>
         [\A i \in Id :
            Open(i) /\ exceptions'[i].state = "resolved" =>
                \E r \in Replica :
                    /\ ticks'[r] # ticks[r] /\ At(r, "resolve") /\ ticks[r].ok
                    /\ exceptions[i].condition \notin ticks[r].reported
                    /\ exceptions[i].by = r => ticks[r].asof >= exceptions[i].asof ]_vars
  <2>1. SUFFICES ASSUME AssuranceInv, ViewsInOrder, Evidence, Next,
                        NEW i \in Id, Open(i), exceptions'[i].state = "resolved"
                 PROVE  \E r \in Replica :
                            /\ ticks'[r] # ticks[r] /\ At(r, "resolve") /\ ticks[r].ok
                            /\ exceptions[i].condition \notin ticks[r].reported
                            /\ exceptions[i].by = r => ticks[r].asof >= exceptions[i].asof
    OBVIOUS
  <2>2. TypeOK
    BY <2>1 DEF AssuranceInv
  <2>3. PICK r \in Replica : /\ ticks'[r] # ticks[r] /\ i \in Unmatched(r)
                             /\ Before(ticks[r]) /\ ticks[r].at = "resolve"
    BY <2>1, <2>2, OnlyResolveResolves
  <2>4. Exists(i) /\ exceptions[i].asof \in Nat /\ ticks[r].asof \in Nat /\ ticks[r].ok \in BOOLEAN
    BY <2>1, <2>2, <2>3, DatesTyped DEF Open, Exists, NoException
  <2>5. ticks[r].ok
    BY <2>1, <2>3, <2>4 DEF ViewsInOrder
  <2>6. exceptions[i].by = r => ticks[r].asof >= exceptions[i].asof
    BY <2>1, <2>3, <2>4, <2>5 DEF ViewsInOrder, Mine
  <2>7. exceptions[i].condition \notin ticks[r].reported
    BY <2>1, <2>3 DEF Evidence, Evidenced, Accounted, Unmatched
  <2> QED BY <2>3, <2>5, <2>6, <2>7 DEF At
<1> QED BY <1>1, <1>2, <1>3, Invariant, PTL DEF Spec, ResolvedOnEvidence
=============================================================================
