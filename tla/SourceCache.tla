----------------------------- MODULE SourceCache -----------------------------
(***************************************************************************)
(* The read cache behind the dashboard's widgets and the page that drives  *)
(* it.                                                                      *)
(*                                                                         *)
(*   frontend/lib/dashboard/data.ts         createSourceCache              *)
(*   frontend/src/islands/DashboardV2.tsx   its three effects              *)
(*                                                                         *)
(* A source is a resolved key.  Each has at most one request that may      *)
(* write its state; the requests that were cancelled and have not settled  *)
(* are counted, because they still hold a slot and still keep the refresh  *)
(* from stacking another.  What a read answers is abstracted to a verdict  *)
(* for the sources that discover a feature and to "data" for the others.   *)
(*                                                                         *)
(* An operation of the code that runs to its end without awaiting is one   *)
(* operator from cache to cache, and an action applies the operators the   *)
(* handler calls, in its order.  A loop over keys is one step for the set  *)
(* of them: a turn of it reads and writes what belongs to its own key, the *)
(* count of the slots and the end of the queue, so that the turns differ   *)
(* by their order in one thing only, who is served by the slots there are. *)
(* A line is that order.                                                   *)
(***************************************************************************)
EXTENDS Naturals, FiniteSets, Sequences, SequencesExt

Answers == {"present", "absent", "unknown", "data"}

CONSTANTS
    Source,         \* the resolved keys
    Cheap,          \* those whose reads are not bounded
    Sensitive,      \* those whose answer depends on the time range
    Discovery,      \* the family statuses
    Optional,       \* those only some layouts read
    TimeRange,      \* the time ranges
    None,           \* null
    MaxConcurrent,  \* MAX_CONCURRENT_EXPENSIVE_FETCHES
    RecheckTicks,   \* NEGATIVE_RECHECK_TICKS
    MaxPageSteps    \* bound: renders, mounts, unmounts and refreshes

ASSUME SourceAssumption ==
    /\ IsFiniteSet(Source)
    /\ Cheap \subseteq Source
    /\ Sensitive \subseteq Source
    /\ Discovery \subseteq Source
    /\ Optional \subseteq Source
    /\ None \notin TimeRange \cup Answers

ASSUME BoundAssumption ==
    /\ MaxConcurrent \in Nat \ {0}
    /\ RecheckTicks \in Nat \ {0}
    /\ MaxPageSteps \in Nat

VARIABLES
    cache,     \* the maps, sets and counters createSourceCache closes over
    mounted,   \* the page is mounted and its refresh interval runs
    wanted,    \* the keys of the layout on the page
    range,     \* the time range selected on the page
    tick,      \* refresh cycles since the mount, modulo RecheckTicks
    steps      \* the page's steps so far

cacheVars == <<cache, mounted, wanted, range, tick, steps>>

Expensive == Source \ Cheap

\* What a read can answer: featurePresent and presenceUnknown tell the three
\* verdicts of a discovery status apart.
Answer(k) == IF k \in Discovery THEN {"present", "absent", "unknown"} ELSE {"data"}

Idle == [data |-> None, error |-> FALSE, loading |-> FALSE, range |-> None]

NoFlight == [range |-> None, queued |-> FALSE, aborted |-> FALSE, timedOut |-> FALSE]

Flights ==
    {NoFlight} \cup
    [range : TimeRange, queued : BOOLEAN, aborted : BOOLEAN, timedOut : BOOLEAN]

States ==
    [data : Answers \cup {None}, error : BOOLEAN,
     loading : BOOLEAN, range : TimeRange \cup {None}]

-----------------------------------------------------------------------------
\* The operations of the cache

Pending(c, k) == c.flight[k] # NoFlight
OnTheWire(c, k) == Pending(c, k) /\ ~c.flight[k].queued

\* takeSlot for each key of a line: so many find a slot.
served(c, line) ==
    LET free == MaxConcurrent - c.active
    IN  IF Len(line) < free THEN Len(line) ELSE free

\* run for each key of S, r[k] its range and line the expensive ones in order:
\* the first take the free slots, the others wait.
run(c, S, r, line) ==
    LET n == served(c, line)
    IN  [c EXCEPT
            !.shown = [k \in Source |->
                IF k \in S THEN [c.shown[k] EXCEPT !.loading = TRUE] ELSE c.shown[k]],
            !.fetched = [k \in Source |-> IF k \in S THEN r[k] ELSE @[k]],
            !.flight = [k \in Source |->
                IF k \in S
                THEN [NoFlight EXCEPT !.range = r[k],
                                      !.queued = \E i \in n + 1 .. Len(line) : line[i] = k]
                ELSE @[k]],
            !.active = @ + n,
            !.waiting = @ \o SubSeq(line, n + 1, Len(line))]

\* Mutant: the slot is freed and the waiter starts without taking one.
releaseSlotAndAdmit(c, k) ==
    IF k \in Cheap THEN c
    ELSE IF c.waiting = <<>> THEN [c EXCEPT !.active = @ - 1]
    ELSE [c EXCEPT !.active = @ - 1, !.waiting = Tail(@),
                   !.flight[Head(c.waiting)].queued = FALSE]

\* The slot goes straight to the oldest waiter.
releaseSlot(c, k) ==
    IF k \in Cheap THEN c
    ELSE IF c.waiting = <<>> THEN [c EXCEPT !.active = @ - 1]
    ELSE [c EXCEPT !.waiting = Tail(@), !.flight[Head(c.waiting)].queued = FALSE]

\* The queue without the keys of S.
without(q, S) ==
    LET kept == {i \in DOMAIN q : q[i] \notin S}
        rank(i) == Cardinality({j \in kept : j <= i})
    IN  [n \in 1 .. Cardinality(kept) |-> q[CHOOSE i \in kept : rank(i) = n]]

\* A queued request is dropped; one on the wire stays on the books.
retire(c, S) ==
    [c EXCEPT
        !.flight = [k \in Source |-> IF k \in S THEN NoFlight ELSE @[k]],
        !.retired = [k \in Source |-> IF k \in S /\ OnTheWire(c, k) THEN @[k] + 1 ELSE @[k]],
        !.waiting = without(@, S)]

\* The recorded range falls back to that of the data, None when there is none.
settleAborted(c, S) ==
    [c EXCEPT
        !.fetched = [k \in Source |-> IF k \in S THEN c.shown[k].range ELSE @[k]],
        !.shown = [k \in Source |->
            IF k \in S THEN [c.shown[k] EXCEPT !.loading = FALSE] ELSE c.shown[k]]]

\* The newest request of a key was answered.
settleData(c, k, d) ==
    [c EXCEPT !.shown[k] = [data |-> d, error |-> FALSE, loading |-> FALSE,
                            range |-> c.flight[k].range]]

\* Mutant: the deadline is read as a teardown.
settleRejectedTeardown(c, k) ==
    IF c.flight[k].aborted
    THEN settleAborted(c, {k})
    ELSE [c EXCEPT !.shown[k].error = TRUE, !.shown[k].loading = FALSE]

\* The newest request of a key was rejected: an abort is a teardown unless the
\* deadline did it, and everything else keeps the data beside an error.
settleRejected(c, k) ==
    IF ~c.flight[k].timedOut /\ c.flight[k].aborted
    THEN settleAborted(c, {k})
    ELSE [c EXCEPT !.shown[k].error = TRUE, !.shown[k].loading = FALSE]

finish(c, k) == [releaseSlot(c, k) EXCEPT !.flight[k] = NoFlight]

busy(c, k) == Pending(c, k) \/ c.retired[k] > 0 \/ k \in c.timers

isDue(c, k, n) ==
    /\ ~busy(c, k)
    /\ k \in Discovery /\ c.shown[k].data # None =>
        \/ c.shown[k].data = "unknown"
        \/ c.shown[k].data = "absent" /\ n = 0

Fetched(c) == {k \in Source : c.fetched[k] # None}

dueEntries(c, n) == {k \in Fetched(c) : isDue(c, k, n)}

\* Mutant: a pending request covers the key, whatever its range.
asksUnlessPending(c, k, r) ==
    ~Pending(c, k) /\ (c.fetched[k] = None \/ (k \in Sensitive /\ c.fetched[k] # r))

\* A request under the range asked for covers the key, and so does its last one
\* when none is pending.
asks(c, k, r) ==
    IF Pending(c, k)
    THEN k \in Sensitive /\ c.flight[k].range # r
    ELSE c.fetched[k] = None \/ (k \in Sensitive /\ c.fetched[k] # r)

ensure(c, S, r, line) == run(retire(c, S), S, [k \in Source |-> r], line)

\* Mutant: the requests of forgotten keys go on.
retainLeavesRequests(c, keys) ==
    LET forgotten == Fetched(c) \ keys IN
    [c EXCEPT
        !.fetched = [k \in Source |-> IF k \in forgotten THEN None ELSE @[k]],
        !.timers = @ \ forgotten,
        !.shown = [k \in Source |-> IF k \in forgotten THEN Idle ELSE @[k]]]

retain(c, keys) ==
    LET forgotten == Fetched(c) \ keys IN
    [retire(c, {k \in Source \ keys : Pending(c, k)}) EXCEPT
        !.fetched = [k \in Source |-> IF k \in forgotten THEN None ELSE @[k]],
        !.timers = @ \ forgotten,
        !.shown = [k \in Source |-> IF k \in forgotten THEN Idle ELSE @[k]]]

abort(c) ==
    LET pending == {k \in Source : Pending(c, k)} IN
    settleAborted(retire([c EXCEPT !.timers = {}], pending), pending)

-----------------------------------------------------------------------------
\* The page

CacheInit ==
    /\ cache = [flight  |-> [k \in Source |-> NoFlight],
                retired |-> [k \in Source |-> 0],
                waiting |-> <<>>,
                active  |-> 0,
                fetched |-> [k \in Source |-> None],
                shown   |-> [k \in Source |-> Idle],
                timers  |-> {}]
    /\ mounted = FALSE
    /\ wanted = {}
    /\ range \in TimeRange
    /\ tick = 0
    /\ steps = 0

Step == steps < MaxPageSteps /\ steps' = steps + 1

\* sourcesFor: the header's sources and the statuses always and first, then
\* those of the layout's cards in their order.
Layouts == {(Source \ Optional) \cup w : w \in SUBSET Optional}
sourcesFor(S) ==
    {line \in SetToSeqs(S \cap Expensive) :
        \A i, j \in DOMAIN line : i < j /\ line[i] \in Optional => line[j] \in Optional}

Effect(w, r) ==
    LET asked == {k \in w : asks(cache, k, r)} IN
    \E line \in sourcesFor(asked) : cache' = retain(ensure(cache, asked, r, line), w)

\* The layout, the working copy or the time range changed.
Render(w, r) ==
    /\ mounted
    /\ <<w, r>> # <<wanted, range>>
    /\ Step
    /\ Effect(w, r)
    /\ wanted' = w
    /\ range' = r
    /\ UNCHANGED <<mounted, tick>>

\* The effects of the first render.  No timer is left for startRefresh to clear.
Mount(w, r) ==
    /\ ~mounted
    /\ Step
    /\ Effect(w, r)
    /\ mounted' = TRUE
    /\ wanted' = w
    /\ range' = r
    /\ tick' = 0

Unmount ==
    /\ mounted
    /\ Step
    /\ cache' = abort(cache)
    /\ mounted' = FALSE
    /\ UNCHANGED <<wanted, range, tick>>

\* fetchedRange is in the order of insertion, and a key may leave it and return.
refresh ==
    /\ mounted
    /\ Step
    /\ LET c == [cache EXCEPT !.timers = {}]
           due == dueEntries(c, 0)
       IN  \E line \in SetToSeqs(due \cap Expensive) : cache' = run(c, due, c.fetched, line)
    /\ UNCHANGED <<mounted, wanted, range, tick>>

-----------------------------------------------------------------------------
\* The timers and the network

\* The interval fires in a visible tab: cheap sources are read at once, the
\* others wait out their offset.
Tick ==
    /\ mounted
    /\ tick' = (tick + 1) % RecheckTicks
    /\ LET due == dueEntries(cache, tick') IN
       cache' = run([cache EXCEPT !.timers = @ \cup (due \cap Expensive)],
                    due \cap Cheap, cache.fetched, <<>>)
    /\ UNCHANGED <<mounted, wanted, range, steps>>

OffsetFires(k) ==
    /\ k \in cache.timers
    /\ LET c == [cache EXCEPT !.timers = @ \ {k}] IN
       cache' = IF c.fetched[k] # None /\ isDue(c, k, 0)
                THEN run(c, {k}, c.fetched, <<k>>)
                ELSE c
    /\ UNCHANGED <<mounted, wanted, range, tick, steps>>

\* REQUEST_TIMEOUT_MS after the request was issued.
Deadline(k) ==
    /\ OnTheWire(cache, k)
    /\ ~cache.flight[k].timedOut
    /\ cache' = [cache EXCEPT !.flight[k].timedOut = TRUE, !.flight[k].aborted = TRUE]
    /\ UNCHANGED <<mounted, wanted, range, tick, steps>>

Lands(k, d) ==
    /\ OnTheWire(cache, k)
    /\ cache' = finish(settleData(cache, k, d), k)
    /\ UNCHANGED <<mounted, wanted, range, tick, steps>>

Rejects(k) ==
    /\ OnTheWire(cache, k)
    /\ cache' = finish(settleRejected(cache, k), k)
    /\ UNCHANGED <<mounted, wanted, range, tick, steps>>

\* A cancelled request settles: it gives its slot back and writes nothing.
RetiredSettles(k) ==
    /\ cache.retired[k] > 0
    /\ cache' = [releaseSlot(cache, k) EXCEPT !.retired[k] = @ - 1]
    /\ UNCHANGED <<mounted, wanted, range, tick, steps>>

Settles(k) == Rejects(k) \/ \E d \in Answer(k) : Lands(k, d)

CacheNext ==
    \/ \E w \in Layouts, r \in TimeRange : Render(w, r) \/ Mount(w, r)
    \/ Unmount
    \/ refresh
    \/ Tick
    \/ \E k \in Source : OffsetFires(k) \/ Deadline(k) \/ Settles(k) \/ RetiredSettles(k)

\* A visible tab's interval and timers fire.  A request settles once its
\* deadline has aborted it: every fetcher hands its signal to fetch.
Fairness ==
    /\ WF_cacheVars(Tick)
    /\ \A k \in Source :
        /\ WF_cacheVars(OffsetFires(k))
        /\ WF_cacheVars(Deadline(k))
        /\ WF_cacheVars(cache.flight[k].timedOut /\ Settles(k))
        /\ WF_cacheVars(RetiredSettles(k))

CacheSpec == CacheInit /\ [][CacheNext]_cacheVars

FairCacheSpec == CacheSpec /\ Fairness

-----------------------------------------------------------------------------
Caches ==
    [flight  : [Source -> Flights],
     retired : [Source -> Nat],
     waiting : Seq(Source),
     active  : 0..MaxConcurrent,
     fetched : [Source -> TimeRange \cup {None}],
     shown   : [Source -> States],
     timers  : SUBSET Source]

CacheTypeOK ==
    /\ cache \in Caches
    /\ mounted \in BOOLEAN
    /\ wanted \in SUBSET Source
    /\ range \in TimeRange
    /\ tick \in 0..(RecheckTicks - 1)
    /\ steps \in 0..MaxPageSteps

\* A card of the layout is being asked for, or shows an error, or shows an
\* answer, and that of the range the page names when the answer depends on it.
AskedOrAnswered ==
    mounted => \A k \in wanted :
        LET s == cache.shown[k] IN
        \/ s.loading /\ Pending(cache, k)
        \/ ~s.loading /\ s.error
        \/ ~s.loading /\ s.data # None /\ (k \in Sensitive => s.range = range)

\* What the refresh re-requests is what the layout reads, under the range it
\* names; nothing else is scheduled, requested or kept on screen.
OnlyTheLayoutIsPolled ==
    mounted =>
        /\ Fetched(cache) = wanted
        /\ \A k \in wanted \cap Sensitive : cache.fetched[k] = range
        /\ cache.timers \subseteq wanted
        /\ \A k \in Source \ wanted : ~Pending(cache, k) /\ cache.shown[k].data = None

\* The expensive requests on the wire, the cancelled ones too, each key's
\* numbered; and the keys that wait.
onWire(c, k) == c.retired[k] + IF OnTheWire(c, k) THEN 1 ELSE 0
Wire(c) == UNION {{k} \X (1 .. onWire(c, k)) : k \in Expensive}
Queued(c) == {k \in Source : c.flight[k].queued}

\* The slots taken are the expensive requests on the wire, the cancelled ones
\* too; a request waits only while every slot is taken, and once.
SlotsCounted ==
    /\ cache.active = Cardinality(Wire(cache))
    /\ cache.active <= MaxConcurrent
    /\ ToSet(cache.waiting) = Queued(cache)
    /\ Len(cache.waiting) = Cardinality(Queued(cache))
    /\ Queued(cache) # {} => cache.active = MaxConcurrent

\* While it is on a mounted page's layout a source is read again and again,
\* whatever hung or failed before; only a feature known to be there is not.
KeepsPolling ==
    \A k \in Source :
        []<>(mounted /\ k \in wanted =>
                OnTheWire(cache, k) \/ cache.shown[k].data = "present")
=============================================================================
