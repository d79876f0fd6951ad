--------------------------- MODULE BackupAssurance ---------------------------
(***************************************************************************)
(* The backup assurance collector.                                         *)
(*                                                                         *)
(*   backend/internal/velero/assurance_service.go          tick            *)
(*   backend/internal/store/backup_assurance.go            exceptions      *)
(*   backend/internal/store/backup_assurance_delivery.go   outbox, lease   *)
(*   backend/internal/notifications/service.go, store.go   EmitSync        *)
(*                                                                         *)
(* Every replica ticks: it takes the lease, reads the policies, collects   *)
(* and evaluates, reconciles the findings with the open exceptions, and    *)
(* drains the delivery intents.  Each statement is a transaction of its    *)
(* own and a tick may end between any two.  A statement whose              *)
(* acknowledgement is lost is one after which the tick ends.               *)
(*                                                                         *)
(* world[c] is what an evaluation of the cluster as it is now says of      *)
(* condition c.  A replica evaluates a view of the world: the one its      *)
(* service-account cache holds, or a fresh one.  asof dates a view by the  *)
(* number of changes that preceded it.  An exception is marked with the    *)
(* replica that opened it and the date of the view it was opened from, and *)
(* a tick with the conditions its findings report; no step depends on any  *)
(* of them.                                                                *)
(***************************************************************************)
EXTENDS Naturals, Sequences, FiniteSets

CONSTANTS
    Replica,
    Condition,      \* condition identities (subject and condition)
    Policy,
    MaxAttempts,    \* assuranceMaxDeliveryAttempts
    Batch,          \* assuranceDeliveryBatch
    Overlap,        \* may a lease expire under a replica that is still ticking?
    Caching,        \* may a view, of a tick or of a page, outlive its reader in
                    \* the handler's cache?
    MaxRows, MaxFence, MaxFailures, MaxChanges      \* bounds

ASSUME AssuranceAssumption ==
    /\ MaxAttempts \in Nat \ {0} /\ Batch \in Nat \ {0} /\ Overlap \in BOOLEAN /\ Caching \in BOOLEAN
    /\ MaxRows \in Nat /\ MaxFence \in Nat \ {0} /\ MaxFailures \in Nat /\ MaxChanges \in Nat
    /\ Policy # {}

VARIABLES
    world, policies,
    cache,          \* the handler's cachedData on each replica
    exceptions,     \* backup_assurance_exceptions
    intents,        \* backup_assurance_deliveries
    outbox,         \* every intent there was, in the order of creation
    lease,          \* backup_assurance_collector_lease
    ticks,          \* the running tick of each replica
    feed,           \* entries of the Notification Center, and whether one is
                    \* inside the dedup window
    sends,          \* EmitSync calls made for each intent
    failures, changes

vars == <<world, policies, cache, exceptions, intents, outbox, lease, ticks, feed, sends,
          failures, changes>>

-----------------------------------------------------------------------------

Id == 1 .. MaxRows
Unknown == "collection_unknown"
Identity == Condition \union {Unknown}

Level == {"clear", "holds", "held"}     \* held: true, but never a reason to open
View == [holding : [Condition -> Level], asof : 0 .. MaxChanges]
NoView == [asof |-> 0]

\* A deleted row keeps its columns here, so that no identifier is used twice.
Exception == [state : {"open", "resolved", "deleted"}, condition : Identity,
              policy : Policy, old : BOOLEAN, by : Replica, asof : 0 .. MaxChanges]
NoException == [state |-> "none"]

IntentKey == Id \X {"opened", "resolved"}
Intent == [state : {"pending", "delivered", "failed"}, attempts : 0 .. MaxAttempts]
NoIntent == [state |-> "none"]

Finding == [condition : Identity, policy : Policy, hold : BOOLEAN]
Tick == [at : {"policies", "collect", "list", "reconcile", "resolve", "drain", "emit", "mark", "prune"},
         active : SUBSET Policy, ok : BOOLEAN, asof : 0 .. MaxChanges,
         findings : SUBSET Finding, reported : SUBSET Identity, open : SUBSET Id, matched : SUBSET Id,
         jobs : SUBSET (Nat \ {0}), emitted : BOOLEAN]    \* jobs are places of the outbox
NoTick == [at |-> "idle"]

Open(i) == exceptions[i].state = "open"
OpenRows(c) == {i \in Id : Open(i) /\ exceptions[i].condition = c}

-----------------------------------------------------------------------------

\* The collector's tables are empty, whatever policies there are by then.
Init ==
    /\ world \in [Condition -> Level]
    /\ policies \in [Policy -> {"none", "disabled", "enabled"}]
    /\ cache = [r \in Replica |-> NoView]
    /\ exceptions = [i \in Id |-> NoException]
    /\ intents = [k \in IntentKey |-> NoIntent]
    /\ outbox = <<>>
    /\ lease = [holder |-> "none", live |-> FALSE, fence |-> 0]
    /\ ticks = [r \in Replica |-> NoTick]
    /\ feed = [k \in IntentKey |-> [entries |-> 0, recent |-> FALSE]]
    /\ sends = [k \in IntentKey |-> 0]
    /\ failures = 0
    /\ changes = 0

-----------------------------------------------------------------------------

At(r, step) == ticks[r].at = step
Step(r, tick) == ticks' = [ticks EXCEPT ![r] = tick]
Fail == failures < MaxFailures /\ failures' = failures + 1

-----------------------------------------------------------------------------
(* The lease *)

\* A live renewal keeps the fence; taking an expired lease counts it up,
\* whoever held it.
tenure(r) == IF lease.holder = r /\ lease.live THEN lease.fence ELSE lease.fence + 1

\* A tick starts; a replica that finds a live foreign lease does nothing.
Acquire(r) ==
    /\ At(r, "idle")
    /\ lease.holder = r \/ ~lease.live
    /\ lease' = [holder |-> r, live |-> TRUE, fence |-> tenure(r)]
    /\ Step(r, [at |-> "policies", active |-> {}, ok |-> FALSE, asof |-> 0, findings |-> {},
                reported |-> {}, open |-> {}, matched |-> {}, jobs |-> {}, emitted |-> FALSE])
    /\ UNCHANGED <<world, policies, cache, exceptions, intents, outbox, feed, sends, failures, changes>>

\* The ttl runs out.  The deadline of a tick equals the ttl, so only a process
\* that was held up is still ticking then.
LeaseExpires ==
    /\ lease.live /\ lease.fence < MaxFence
    /\ Overlap \/ At(lease.holder, "idle")
    /\ lease' = [lease EXCEPT !.live = FALSE]
    /\ UNCHANGED <<world, policies, cache, exceptions, intents, outbox, ticks, feed, sends, failures, changes>>

\* A replica shuts down between two ticks and expires its own lease; its
\* successor starts with an empty cache.
Release(r) ==
    /\ At(r, "idle")
    /\ lease.holder = r /\ lease.live /\ lease.fence < MaxFence
    /\ lease' = [lease EXCEPT !.live = FALSE]
    /\ cache' = [cache EXCEPT ![r] = NoView]
    /\ UNCHANGED <<world, policies, exceptions, intents, outbox, ticks, feed, sends, failures, changes>>

-----------------------------------------------------------------------------
(* Policies, collection and evaluation *)

Enabled == {p \in Policy : policies[p] = "enabled"}

\* Mutant: a tick without enabled policies ends.
ListPoliciesSkipsDisabled(r) ==
    /\ At(r, "policies")
    /\ Step(r, IF Enabled = {} THEN NoTick
               ELSE [ticks[r] EXCEPT !.at = "collect", !.active = Enabled])
    /\ UNCHANGED <<world, policies, cache, exceptions, intents, outbox, lease, feed, sends, failures, changes>>

\* No policy at all ends the tick.  Disabled ones do not: what they opened
\* is still to be resolved and announced.
ListPolicies(r) ==
    /\ At(r, "policies")
    /\ Step(r, IF \A p \in Policy : policies[p] = "none" THEN NoTick
               ELSE [ticks[r] EXCEPT !.at = "collect", !.active = Enabled])
    /\ UNCHANGED <<world, policies, cache, exceptions, intents, outbox, lease, feed, sends, failures, changes>>

\* What Evaluate may return for a view: one finding for every condition that
\* is not clear, citing one of the active policies, and none without those.
Evaluations(active, holding) ==
    LET reported == {c \in Condition : holding[c] # "clear"}
    IN IF active = {} THEN {{}}
       ELSE {{[condition |-> c, policy |-> cites[c], hold |-> holding[c] = "held"] : c \in reported} :
             cites \in [reported -> active]}

\* The one finding of a collection that failed.
UnknownFinding(active) ==
    IF active = {} THEN {{}}
    ELSE {{[condition |-> Unknown, policy |-> p, hold |-> FALSE]} : p \in active}

Conditions(found) == {f.condition : f \in found}

\* The view fetchAll returns: the cached one, or a fresh one.
Fetched(r) ==
    IF cache[r] # NoView THEN cache[r] ELSE [holding |-> world, asof |-> changes]

\* The fresh view is cached unless a write came in between (CacheEnds).
Collect(r) ==
    /\ At(r, "collect")
    /\ LET view == Fetched(r) IN
       /\ \E found \in Evaluations(ticks[r].active, view.holding) :
              Step(r, [ticks[r] EXCEPT !.at = "list", !.ok = TRUE, !.asof = view.asof,
                                       !.active = {}, !.findings = found,
                                       !.reported = Conditions(found)])
       /\ cache' = IF Caching THEN [cache EXCEPT ![r] = view] ELSE cache
    /\ UNCHANGED <<world, policies, exceptions, intents, outbox, lease, feed, sends, failures, changes>>

\* Velero is not detected, or the read fails (twice, if another caller's
\* cancellation was the first): there is no view.
CollectFails(r) ==
    /\ At(r, "collect")
    /\ Fail
    /\ \E found \in UnknownFinding(ticks[r].active) :
           Step(r, [ticks[r] EXCEPT !.at = "list", !.active = {}, !.findings = found,
                                    !.reported = Conditions(found)])
    /\ UNCHANGED <<world, policies, cache, exceptions, intents, outbox, lease, feed, sends, changes>>

\* A page of another user reads through the same cache.
Browse(r) ==
    /\ Caching /\ cache[r] = NoView
    /\ cache' = [cache EXCEPT ![r] = Fetched(r)]
    /\ UNCHANGED <<world, policies, exceptions, intents, outbox, lease, ticks, feed, sends, failures, changes>>

\* cacheTTL passes, or a write of this process drops the view.
CacheEnds(r) ==
    /\ cache[r] # NoView
    /\ cache' = [cache EXCEPT ![r] = NoView]
    /\ UNCHANGED <<world, policies, exceptions, intents, outbox, lease, ticks, feed, sends, failures, changes>>

-----------------------------------------------------------------------------
(* reconcile *)

ListOpenExceptions(r) ==
    /\ At(r, "list")
    /\ Step(r, [ticks[r] EXCEPT !.at = "reconcile", !.open = {i \in Id : Open(i)}])
    /\ UNCHANGED <<world, policies, cache, exceptions, intents, outbox, lease, feed, sends, failures, changes>>

\* The rows of the loaded snapshot that finding f is an observation of.
Known(r, f) == {i \in ticks[r].open : exceptions[i].condition = f.condition}

\* Finding f is dealt with, and rows are matched by it.
Handled(r, f, rows) ==
    ticks' = [ticks EXCEPT ![r].findings = @ \ {f}, ![r].matched = @ \union rows]

\* Mutant: a held finding is skipped before it is matched.
ObserveFindingSkipsHeld(r) ==
    /\ At(r, "reconcile")
    /\ \E f \in ticks[r].findings :
           /\ Known(r, f) # {}
           /\ Handled(r, f, IF f.hold THEN {} ELSE Known(r, f))
    /\ UNCHANGED <<world, policies, cache, exceptions, intents, outbox, lease, feed, sends, failures, changes>>

\* An observation; a row that was closed meanwhile is left alone, and counts
\* as matched all the same.
ObserveFinding(r) ==
    /\ At(r, "reconcile")
    /\ \E f \in ticks[r].findings : Known(r, f) # {} /\ Handled(r, f, Known(r, f))
    /\ UNCHANGED <<world, policies, cache, exceptions, intents, outbox, lease, feed, sends, failures, changes>>

\* The intent of one transition, in the transaction of that transition.
Enqueue(k) ==
    /\ intents' = [intents EXCEPT ![k] = [state |-> "pending", attempts |-> 0]]
    /\ outbox' = Append(outbox, k)

Fresh(i) == exceptions[i] = NoException /\ \A j \in 1 .. i - 1 : exceptions[j] # NoException

\* Mutant: the snapshot decides.
OpenExceptionTrustsSnapshot(r) ==
    /\ At(r, "reconcile")
    /\ \E f \in ticks[r].findings, i \in Id :
           /\ Known(r, f) = {} /\ ~f.hold
           /\ policies[f.policy] # "none"
           /\ Fresh(i)
           /\ exceptions' = [exceptions EXCEPT ![i] =
                  [state |-> "open", condition |-> f.condition, policy |-> f.policy,
                   old |-> FALSE, by |-> r, asof |-> ticks[r].asof]]
           /\ Enqueue(<<i, "opened">>)
           /\ Handled(r, f, {i})
    /\ UNCHANGED <<world, policies, cache, lease, feed, sends, failures, changes>>

\* The partial unique index decides: the row is inserted, with its intent,
\* unless one is open for the identity in the table, whatever the snapshot
\* said; the insert selects the policy's row, so that must still be there.
OpenException(r) ==
    /\ At(r, "reconcile")
    /\ \E f \in ticks[r].findings, i \in Id :
           /\ Known(r, f) = {} /\ ~f.hold
           /\ OpenRows(f.condition) = {} /\ policies[f.policy] # "none"
           /\ Fresh(i)
           /\ exceptions' = [exceptions EXCEPT ![i] =
                  [state |-> "open", condition |-> f.condition, policy |-> f.policy,
                   old |-> FALSE, by |-> r, asof |-> ticks[r].asof]]
           /\ Enqueue(<<i, "opened">>)
           /\ Handled(r, f, {i})
    /\ UNCHANGED <<world, policies, cache, lease, feed, sends, failures, changes>>

\* A held finding opens nothing; a lost race is an observation of the
\* winner's row; a policy that is gone leaves nothing behind.
OpensNothing(r) ==
    /\ At(r, "reconcile")
    /\ \E f \in ticks[r].findings :
           /\ Known(r, f) = {}
           /\ \/ f.hold /\ Handled(r, f, {})
              \/ /\ ~f.hold /\ OpenRows(f.condition) # {}
                 /\ Handled(r, f, OpenRows(f.condition))
              \/ /\ ~f.hold /\ OpenRows(f.condition) = {} /\ policies[f.policy] = "none"
                 /\ Handled(r, f, {})
    /\ UNCHANGED <<world, policies, cache, exceptions, intents, outbox, lease, feed, sends, failures, changes>>

\* Each of assuranceOpenMaxAttempts inserts met a row opened and resolved
\* concurrently: the finding is left to the next tick.
OpenContended(r) ==
    /\ At(r, "reconcile")
    /\ Fail
    /\ \E f \in ticks[r].findings : Known(r, f) = {} /\ ~f.hold /\ Handled(r, f, {})
    /\ UNCHANGED <<world, policies, cache, exceptions, intents, outbox, lease, feed, sends, changes>>

\* Only a collection that was ok resolves.
afterFindings(tick) == IF tick.ok THEN "resolve" ELSE "drain"

FindingsDone(r) ==
    /\ At(r, "reconcile") /\ ticks[r].findings = {}
    /\ Step(r, [ticks[r] EXCEPT !.at = afterFindings(ticks[r])])
    /\ UNCHANGED <<world, policies, cache, exceptions, intents, outbox, lease, feed, sends, failures, changes>>

Unmatched(r) == ticks[r].open \ ticks[r].matched

\* Mutant: no intent.
ResolveExceptionForgets(r) ==
    /\ At(r, "resolve")
    /\ \E i \in Unmatched(r) :
           /\ ticks' = [ticks EXCEPT ![r].matched = @ \union {i}]
           /\ exceptions' = IF Open(i) THEN [exceptions EXCEPT ![i].state = "resolved"] ELSE exceptions
    /\ UNCHANGED <<world, policies, cache, intents, outbox, lease, feed, sends, failures, changes>>

\* The transition and its intent, if the row is still open.
ResolveException(r) ==
    /\ At(r, "resolve")
    /\ \E i \in Unmatched(r) :
           /\ ticks' = [ticks EXCEPT ![r].matched = @ \union {i}]
           /\ IF Open(i)
              THEN exceptions' = [exceptions EXCEPT ![i].state = "resolved"] /\ Enqueue(<<i, "resolved">>)
              ELSE UNCHANGED <<exceptions, intents, outbox>>
    /\ UNCHANGED <<world, policies, cache, lease, feed, sends, failures, changes>>

ResolveDone(r) ==
    /\ At(r, "resolve") /\ Unmatched(r) = {}
    /\ Step(r, [ticks[r] EXCEPT !.at = "drain"])
    /\ UNCHANGED <<world, policies, cache, exceptions, intents, outbox, lease, feed, sends, failures, changes>>

-----------------------------------------------------------------------------
(* drainDeliveries *)

\* Mutant: attempts are not counted.
ClaimableForever(k) == intents[k].state = "pending"
Claimable(k) == intents[k].state = "pending" /\ intents[k].attempts < MaxAttempts

Waiting == {n \in DOMAIN outbox : Claimable(outbox[n])}

\* Up to a batch of claimable intents, the oldest first; claiming spends an
\* attempt.  Reconciliation is over, and what it loaded is forgotten.
Claim(r) ==
    /\ At(r, "drain")
    /\ LET jobs == {n \in Waiting : Cardinality({m \in Waiting : m < n}) < Batch}
           claimed == {outbox[n] : n \in jobs}
       IN /\ Step(r, [ticks[r] EXCEPT !.at = "emit", !.jobs = jobs, !.open = {}, !.matched = {},
                                      !.reported = {}, !.ok = FALSE, !.asof = 0])
          /\ intents' = [k \in IntentKey |->
                 IF k \in claimed THEN [intents[k] EXCEPT !.attempts = @ + 1] ELSE intents[k]]
    /\ UNCHANGED <<world, policies, cache, exceptions, outbox, lease, feed, sends, failures, changes>>

\* The claimed intents are dealt with in the order of the outbox.
FirstJob(r) == CHOOSE n \in ticks[r].jobs : \A m \in ticks[r].jobs : n <= m
Job(r) == outbox[FirstJob(r)]

\* A new entry of the feed, which opens a new dedup window.
Inserted(entry) == [entries |-> entry.entries + 1, recent |-> TRUE]

\* InsertDeduped: the identity is the exception's row and the title.
Deduped(entry) == IF entry.recent THEN entry ELSE Inserted(entry)

\* The next job is sent: the entry becomes one of entries.
Emitting(r, entries, carried) ==
    /\ At(r, "emit") /\ ticks[r].jobs # {}
    /\ \E entry \in entries : feed' = [feed EXCEPT ![Job(r)] = entry]
    /\ sends' = [sends EXCEPT ![Job(r)] = @ + 1]
    /\ Step(r, [ticks[r] EXCEPT !.at = "mark", !.emitted = carried])
    /\ UNCHANGED <<world, policies, cache, exceptions, intents, outbox, lease, changes>>

NextEntry(r) == feed[Job(r)]

Emit(r) == Emitting(r, {Deduped(NextEntry(r))}, TRUE) /\ UNCHANGED failures

\* The lookup fails before anything is written: inserted without it.
EmitUnchecked(r) == Emitting(r, {Inserted(NextEntry(r))}, TRUE) /\ Fail

\* Nothing was written, or a commit went through and was not acknowledged.
EmitFails(r) == Emitting(r, {NextEntry(r), Deduped(NextEntry(r))}, FALSE) /\ Fail

\* Mutant: a failed send is delivered.
verdictAlwaysDelivered(k, carried) == "delivered"

\* What becomes of a pending intent after a send.
verdict(k, carried) ==
    IF carried THEN "delivered"
    ELSE IF intents[k].attempts >= MaxAttempts THEN "failed" ELSE "pending"

\* MarkDelivered and MarkDeliveryFailed leave alone what is no longer pending.
Mark(r) ==
    /\ At(r, "mark")
    /\ intents' = IF intents[Job(r)].state # "pending" THEN intents
                  ELSE [intents EXCEPT ![Job(r)].state = verdict(Job(r), ticks[r].emitted)]
    /\ Step(r, [ticks[r] EXCEPT !.at = "emit", !.jobs = @ \ {FirstJob(r)}, !.emitted = FALSE])
    /\ UNCHANGED <<world, policies, cache, exceptions, outbox, lease, feed, sends, failures, changes>>

DrainDone(r) ==
    /\ At(r, "emit") /\ ticks[r].jobs = {}
    /\ Step(r, [ticks[r] EXCEPT !.at = "prune"])
    /\ UNCHANGED <<world, policies, cache, exceptions, intents, outbox, lease, feed, sends, failures, changes>>

-----------------------------------------------------------------------------
(* Retention, the end of a tick, and the environment *)

\* Rows go, and their intents with them.
Delete(rows) ==
    /\ exceptions' = [i \in Id |->
           IF i \in rows THEN [exceptions[i] EXCEPT !.state = "deleted"] ELSE exceptions[i]]
    /\ intents' = [k \in IntentKey |-> IF k[1] \in rows THEN NoIntent ELSE intents[k]]
    /\ outbox' = outbox

Expired == {i \in Id : exceptions[i].state = "resolved" /\ exceptions[i].old}

\* The prune is due and succeeds, or it is not.  The tick is over.
Prune(r) ==
    /\ At(r, "prune")
    /\ Delete(Expired) \/ Delete({})
    /\ Step(r, NoTick)
    /\ UNCHANGED <<world, policies, cache, lease, feed, sends, failures, changes>>

\* A store error, the deadline, a panic or the end of the process.
TickEnds(r) ==
    /\ ~At(r, "idle")
    /\ Fail
    /\ Step(r, NoTick)
    /\ UNCHANGED <<world, policies, cache, exceptions, intents, outbox, lease, feed, sends, changes>>

Change == changes < MaxChanges /\ changes' = changes + 1

WorldChanges(c) ==
    /\ Change
    /\ \E v \in Level \ {world[c]} : world' = [world EXCEPT ![c] = v]
    /\ UNCHANGED <<policies, cache, exceptions, intents, outbox, lease, ticks, feed, sends, failures>>

WritePolicy(p) ==
    /\ Change
    /\ \E v \in {"enabled", "disabled"} \ {policies[p]} : policies' = [policies EXCEPT ![p] = v]
    /\ UNCHANGED <<world, cache, exceptions, intents, outbox, lease, ticks, feed, sends, failures>>

DeletePolicy(p) ==
    /\ Change
    /\ policies[p] # "none"
    /\ policies' = [policies EXCEPT ![p] = "none"]
    /\ Delete({i \in Id : exceptions[i].state \in {"open", "resolved"} /\ exceptions[i].policy = p})
    /\ UNCHANGED <<world, cache, lease, ticks, feed, sends, failures>>

\* The retention period is far longer than a tick.
GrowsOld(i) ==
    /\ exceptions[i].state = "resolved" /\ ~exceptions[i].old
    /\ \A r \in Replica : At(r, "idle")
    /\ exceptions' = [exceptions EXCEPT ![i].old = TRUE]
    /\ UNCHANGED <<world, policies, cache, intents, outbox, lease, ticks, feed, sends, failures, changes>>

\* Attempts are a minute apart and the window is fifteen: it closes between
\* two of them only if the collector was away.
WindowCloses(k) ==
    /\ feed[k].recent
    /\ Fail
    /\ feed' = [feed EXCEPT ![k].recent = FALSE]
    /\ UNCHANGED <<world, policies, cache, exceptions, intents, outbox, lease, ticks, sends, changes>>

-----------------------------------------------------------------------------

Next ==
    \/ \E r \in Replica :
          \/ Acquire(r) \/ Release(r) \/ ListPolicies(r) \/ Collect(r) \/ CollectFails(r)
          \/ Browse(r) \/ CacheEnds(r) \/ ListOpenExceptions(r)
          \/ ObserveFinding(r) \/ OpenException(r) \/ OpensNothing(r) \/ OpenContended(r)
          \/ FindingsDone(r) \/ ResolveException(r) \/ ResolveDone(r)
          \/ Claim(r) \/ Emit(r) \/ EmitUnchecked(r) \/ EmitFails(r) \/ Mark(r) \/ DrainDone(r)
          \/ Prune(r) \/ TickEnds(r)
    \/ LeaseExpires
    \/ \E c \in Condition : WorldChanges(c)
    \/ \E p \in Policy : WritePolicy(p) \/ DeletePolicy(p)
    \/ \E i \in Id : GrowsOld(i)
    \/ \E k \in IntentKey : WindowCloses(k)

Spec == Init /\ [][Next]_vars

\* A step of a tick that its replica takes sooner or later.
TickStep(r) ==
    \/ Acquire(r) \/ ListPolicies(r) \/ Collect(r) \/ ListOpenExceptions(r)
    \/ ObserveFinding(r) \/ OpenException(r) \/ OpensNothing(r) \/ FindingsDone(r)
    \/ ResolveException(r) \/ ResolveDone(r) \/ Claim(r) \/ Emit(r) \/ Mark(r) \/ DrainDone(r)
    \/ Prune(r)

\* Every replica ticks each minute and no view outlives cacheTTL.
FairSpec == Spec /\ \A r \in Replica : WF_vars(TickStep(r)) /\ WF_vars(CacheEnds(r))

-----------------------------------------------------------------------------
(* Properties *)

\* Every variable keeps its type, and the fence stays within the tenures the
\* bounds allow: the columns of the assurance tables and the locals of tick.
TypeOK ==
    /\ world \in [Condition -> Level]
    /\ policies \in [Policy -> {"none", "disabled", "enabled"}]
    /\ cache \in [Replica -> View \union {NoView}]
    /\ exceptions \in [Id -> Exception \union {NoException}]
    /\ intents \in [IntentKey -> Intent \union {NoIntent}]
    /\ outbox \in Seq(IntentKey)
    /\ lease \in [holder : Replica \union {"none"}, live : BOOLEAN, fence : 0 .. MaxFence]
    /\ ticks \in [Replica -> Tick \union {NoTick}]
    /\ feed \in [IntentKey -> [entries : Nat, recent : BOOLEAN]]
    /\ sends \in [IntentKey -> Nat]
    /\ failures \in 0 .. MaxFailures /\ changes \in 0 .. MaxChanges

\* OpenExceptionAndEnqueue: whatever two ticks interleave, a condition has at
\* most one open exception.
OneOpenPerCondition ==
    \A i, j \in Id : Open(i) /\ Open(j) /\ exceptions[i].condition = exceptions[j].condition => i = j

\* enqueueDelivery: a row has one opened intent from the moment it exists, one
\* resolved intent from the moment it is resolved, and each is queued once.
IntentPerTransition ==
    /\ \A i \in Id :
           /\ intents[<<i, "opened">>] # NoIntent <=> exceptions[i].state \in {"open", "resolved"}
           /\ intents[<<i, "resolved">>] # NoIntent <=> exceptions[i].state = "resolved"
    /\ \A k \in IntentKey : intents[k] # NoIntent => \E n \in DOMAIN outbox : outbox[n] = k
    /\ \A m, n \in DOMAIN outbox : outbox[m] = outbox[n] => m = n

\* ClaimPendingDeliveries: replicas that claim the same intent, restart and
\* retry between them never send it more than assuranceMaxDeliveryAttempts times.
SendsBounded == \A k \in IntentKey : sends[k] <= MaxAttempts

\* drainDeliveries: an intent marked delivered has been in the feed, whichever
\* replica sent it and whichever marked it.
DeliveredWasCarried ==
    \A k \in IntentKey : intents[k].state = "delivered" => feed[k].entries > 0

\* reconcile: whichever replica opened an exception, it is resolved by a tick
\* whose collection was ok and whose findings, held ones included, do not report
\* its condition.  If the same replica opened it, that was from a view no later.
ResolvedOnEvidence ==
    [][ \A i \in Id :
            Open(i) /\ exceptions'[i].state = "resolved" =>
                \E r \in Replica :
                    /\ ticks'[r] # ticks[r] /\ At(r, "resolve") /\ ticks[r].ok
                    /\ exceptions[i].condition \notin ticks[r].reported
                    /\ exceptions[i].by = r => ticks[r].asof >= exceptions[i].asof ]_vars

\* tick: once the world and the policies rest, what holds under an enabled
\* policy is open, and nothing else but what is held open is.
Converges ==
    <>[](/\ \A c \in Condition :
               /\ world[c] = "holds" /\ Enabled # {} => OpenRows(c) # {}
               /\ world[c] = "clear" \/ Enabled = {} => OpenRows(c) = {}
         /\ OpenRows(Unknown) = {})

\* ClaimPendingDeliveries, oldest first: no claimable intent is left waiting,
\* although a batch is smaller than the backlog and sends fail.
PendingEnds == \A k \in IntentKey : Claimable(k) ~> ~Claimable(k)

=============================================================================
