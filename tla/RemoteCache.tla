----------------------------- MODULE RemoteCache -----------------------------
(***************************************************************************)
(* The shared read cache for remote clusters                               *)
(* (backend/internal/k8s/remotecache/cache.go).                            *)
(*                                                                         *)
(* A Get looks the entry up, reads the cluster's generation, and joins or  *)
(* starts the singleflight for (cluster, generation, identity); each of    *)
(* the three takes the mutex on its own.  The flight looks up again,       *)
(* fetches, and stores unless the cluster was evicted meanwhile.  Writers  *)
(* change the remote cluster and then evict.                               *)
(*                                                                         *)
(* remote[c] counts the writes to cluster c and floor[c] is the count its  *)
(* last eviction vouches for: a Get that starts afterwards must see it.    *)
(***************************************************************************)
EXTENDS Naturals, Sequences, FiniteSets

CONSTANTS
    Cluster,
    Identity,       \* k8s.IdentityKey values
    Getter,         \* calls of Get; each is made once
    MaxEntries,
    MaxWrites,      \* bound on remote
    MaxGen          \* bound on gens

ASSUME CacheAssumption ==
    MaxEntries \in Nat \ {0} /\ MaxWrites \in Nat /\ MaxGen \in Nat

VARIABLES
    entries,        \* c.entries: what is cached, and whether the TTL still runs
    order,          \* c.order
    gens,           \* c.gens
    flights,        \* c.sf
    gets,           \* the calls of Get
    remote, floor

vars == <<entries, order, gens, flights, gets, remote, floor>>

-----------------------------------------------------------------------------

Key == [cluster : Cluster, identity : Identity]

\* What a fetch returned: the writes it saw, with whose view.
Value == [version : 0 .. MaxWrites, identity : Identity]
NoValue == [version |-> 0, identity |-> "none"]
Result == Value \union {NoValue}

\* Errors are never cached: an entry holds a value.
Entry == [status : {"fresh", "expired"}, value : Value]
NoEntry == [status |-> "absent", value |-> NoValue]

\* Mutant: the flight is shared across generations.
flightKeyNoGen(k, gen) == <<k.cluster, 0, k.identity>>

\* Mutant: the flight is shared across identities.
flightKeyNoIdentity(k, gen) == <<k.cluster, gen, CHOOSE i \in Identity : TRUE>>

flightKey(k, gen) == <<k.cluster, gen, k.identity>>
FlightKey == Cluster \X (0 .. MaxGen) \X Identity

\* The key and the generation are those of the caller that started it (by).
Flight == [at : {"idle", "lookup", "fetch", "store", "return"},
           key : Key, gen : 0 .. MaxGen, by : Getter, value : Result]
NoFlight == [at |-> "idle"]

Call == [at : {"new", "lookup", "generation", "join", "wait", "done"},
         key : Key, gen : 0 .. MaxGen, floor : 0 .. MaxWrites,
         ended : BOOLEAN,       \* its context
         answer : {"none", "value", "error", "canceled"}, value : Result]

NoCall == [at |-> "new"]

Init ==
    /\ entries = [k \in Key |-> NoEntry]
    /\ order = <<>>
    /\ gens = [c \in Cluster |-> 0]
    /\ flights = [f \in FlightKey |-> NoFlight]
    /\ gets = [g \in Getter |-> NoCall]
    /\ remote = [c \in Cluster |-> 0]
    /\ floor = [c \in Cluster |-> 0]

-----------------------------------------------------------------------------
(* Get *)

cacheVars == <<entries, order, gens>>
truth == <<remote, floor>>

Start(g) ==
    /\ gets[g].at = "new"
    /\ \E k \in Key :
        gets' = [gets EXCEPT ![g] =
            [at |-> "lookup", key |-> k, gen |-> 0, floor |-> floor[k.cluster],
             ended |-> FALSE, answer |-> "none", value |-> NoValue]]
    /\ UNCHANGED <<cacheVars, flights, truth>>

\* lookup
Hit(k) == entries[k].status = "fresh"

Lookup(g) ==
    /\ gets[g].at = "lookup"
    /\ LET e == entries[gets[g].key]
       IN  gets' = IF Hit(gets[g].key)
                   THEN [gets EXCEPT ![g].at = "done", ![g].answer = "value",
                                     ![g].value = e.value]
                   ELSE [gets EXCEPT ![g].at = "generation"]
    /\ UNCHANGED <<cacheVars, flights, truth>>

ReadGeneration(g) ==
    /\ gets[g].at = "generation"
    /\ gets' = [gets EXCEPT ![g].gen = gens[gets[g].key.cluster], ![g].at = "join"]
    /\ UNCHANGED <<cacheVars, flights, truth>>

\* DoChan: one running function per key.
Join(g) ==
    /\ gets[g].at = "join"
    /\ LET f == flightKey(gets[g].key, gets[g].gen)
       IN  flights' = IF flights[f].at # "idle" THEN flights
                      ELSE [flights EXCEPT ![f] =
                              [at |-> "lookup", key |-> gets[g].key,
                               gen |-> gets[g].gen, by |-> g, value |-> NoValue]]
    /\ gets' = [gets EXCEPT ![g].at = "wait"]
    /\ UNCHANGED <<cacheVars, truth>>

\* The caller disconnects or its deadline passes.
EndContext(g) ==
    /\ gets[g].at \notin {"new", "done"} /\ ~gets[g].ended
    /\ gets' = [gets EXCEPT ![g].ended = TRUE]
    /\ UNCHANGED <<cacheVars, flights, truth>>

\* A caller whose context has ended stops waiting; the flight goes on.
Cancel(g) ==
    /\ gets[g].at = "wait" /\ gets[g].ended
    /\ gets' = [gets EXCEPT ![g].at = "done", ![g].answer = "canceled"]
    /\ UNCHANGED <<cacheVars, flights, truth>>

-----------------------------------------------------------------------------
(* The flight *)

FlightLookup(f) ==
    /\ flights[f].at = "lookup"
    /\ flights' = IF Hit(flights[f].key)
                  THEN [flights EXCEPT ![f].at = "return",
                                       ![f].value = entries[flights[f].key].value]
                  ELSE [flights EXCEPT ![f].at = "fetch"]
    /\ UNCHANGED <<cacheVars, gets, truth>>

\* The remote cluster answers with what it holds now.
Fetch(f) ==
    /\ flights[f].at = "fetch"
    /\ LET k == flights[f].key
       IN  flights' = [flights EXCEPT ![f].at = "store",
                         ![f].value = [version |-> remote[k.cluster], identity |-> k.identity]]
    /\ UNCHANGED <<cacheVars, gets, truth>>

\* Every call that waits for the flight is answered and the key is free again.
Land(f, answer, value) ==
    /\ flights' = [flights EXCEPT ![f] = NoFlight]
    /\ gets' = [g \in Getter |->
            IF gets[g].at = "wait" /\ flightKey(gets[g].key, gets[g].gen) = f
            THEN [gets[g] EXCEPT !.at = "done", !.answer = answer, !.value = value]
            ELSE gets[g]]

\* Mutant: the fetch runs on the context of the caller that started it.
fetchErrorsOfCaller(f) ==
    IF gets[flights[f].by].ended THEN {"error", "canceled"} ELSE {"error"}

\* What a fetch may fail with: an error of its own, a panic, the 30 second cap.
\* Its context is detached from the caller's.
fetchErrors(f) == {"error"}

\* Nothing is cached, and every waiter is handed the error.
FetchFails(f) ==
    /\ flights[f].at = "fetch"
    /\ \E e \in fetchErrors(f) : Land(f, e, NoValue)
    /\ UNCHANGED <<cacheVars, truth>>

\* Mutant: an entry that is replaced is listed again.
placedAgain(k) == Append(order, k)

\* order with k in it: appended unless it has an entry already.
placed(k) == IF entries[k].status = "absent" THEN Append(order, k) ELSE order

\* store: the oldest entry goes when there is one too many.
Store(f) ==
    /\ flights[f].at = "store"
    /\ LET k == flights[f].key
           kept == placed(k)
           over == Len(kept) > MaxEntries
       IN  IF gens[k.cluster] # flights[f].gen THEN UNCHANGED <<entries, order>>
           ELSE /\ order' = IF over THEN Tail(kept) ELSE kept
                /\ entries' = [j \in Key |->
                     IF over /\ j = Head(kept) THEN NoEntry
                     ELSE IF j = k THEN [status |-> "fresh", value |-> flights[f].value]
                     ELSE entries[j]]
    /\ flights' = [flights EXCEPT ![f].at = "return"]
    /\ UNCHANGED <<gens, gets, truth>>

Return(f) ==
    /\ flights[f].at = "return"
    /\ Land(f, "value", flights[f].value)
    /\ UNCHANGED <<cacheVars, truth>>

-----------------------------------------------------------------------------
(* Eviction, expiry and the remote cluster *)

\* The listed keys of the other clusters, in the order they are listed in.
without(c) ==
    LET kept == {i \in DOMAIN order : order[i].cluster # c}
        rank(i) == Cardinality({j \in kept : j <= i})
    IN  [n \in 1 .. Cardinality(kept) |-> order[CHOOSE i \in kept : rank(i) = n]]

\* EvictCluster: every identity's entry goes and the generation moves on.
EvictCluster(c) ==
    /\ gens[c] < MaxGen
    /\ gens' = [gens EXCEPT ![c] = @ + 1]
    /\ entries' = [k \in Key |-> IF k.cluster = c THEN NoEntry ELSE entries[k]]
    /\ order' = without(c)
    /\ floor' = [floor EXCEPT ![c] = remote[c]]
    /\ UNCHANGED <<flights, gets, remote>>

Expire(k) ==
    /\ Hit(k)
    /\ entries' = [entries EXCEPT ![k].status = "expired"]
    /\ UNCHANGED <<order, gens, flights, gets, truth>>

\* Somebody changes the remote cluster; the eviction is a later step.
Write(c) ==
    /\ remote[c] < MaxWrites
    /\ remote' = [remote EXCEPT ![c] = @ + 1]
    /\ UNCHANGED <<cacheVars, flights, gets, floor>>

GetStep(g) == Lookup(g) \/ ReadGeneration(g) \/ Join(g) \/ Cancel(g)

FlightStep(f) == FlightLookup(f) \/ Fetch(f) \/ FetchFails(f) \/ Store(f) \/ Return(f)

Next ==
    \/ \E g \in Getter : Start(g) \/ GetStep(g) \/ EndContext(g)
    \/ \E f \in FlightKey : FlightStep(f)
    \/ \E c \in Cluster : EvictCluster(c) \/ Write(c)
    \/ \E k \in Key : Expire(k)

Spec == Init /\ [][Next]_vars

\* Goroutines run, and a fetch ends within its 30 second cap.
Fairness ==
    /\ \A g \in Getter : WF_vars(GetStep(g))
    /\ \A f \in FlightKey : WF_vars(FlightStep(f))

FairSpec == Spec /\ Fairness

-----------------------------------------------------------------------------
(* Properties *)

\* Every variable keeps its type.
TypeOK ==
    /\ entries \in [Key -> Entry \union {NoEntry}]
    /\ order \in Seq(Key)
    /\ gens \in [Cluster -> 0 .. MaxGen]
    /\ flights \in [FlightKey -> Flight \union {NoFlight}]
    /\ gets \in [Getter -> Call \union {NoCall}]
    /\ remote \in [Cluster -> 0 .. MaxWrites]
    /\ floor \in [Cluster -> 0 .. MaxWrites]

Answered(g) == gets[g].at = "done" /\ gets[g].answer = "value"

\* "a write or cluster removal is never masked by a fetch that read the old
\* state": a Get that starts after an eviction is answered with a value read
\* after the writes that eviction followed.
ReadsWhatEvictionVouchesFor ==
    \A g \in Getter : Answered(g) => gets[g].value.version >= gets[g].floor

\* "a cluster-only key would serve one identity's view to another": every value
\* answered was fetched as the caller.
OwnView == \A g \in Getter : Answered(g) => gets[g].value.identity = gets[g].key.identity

\* The insertion order lists each cached key once, so that the bound on the
\* order is a bound on the entries.
Bounded ==
    /\ Len(order) <= MaxEntries
    /\ \A i, j \in 1 .. Len(order) : order[i] = order[j] => i = j
    /\ {order[i] : i \in 1 .. Len(order)} = {k \in Key : entries[k].status # "absent"}

\* A Get fails with a context error only when its own context ended.
CancelIsOwn(g) == gets[g].answer = "canceled" => gets[g].ended

\* "one caller disconnecting cannot fail every coalesced waiter": every Get
\* returns, whoever started the fetch it waits for and whatever became of that
\* caller, and it is told of an ended context only if that was its own.
GetsReturn ==
    \A g \in Getter : gets[g].at # "new" ~> gets[g].at = "done" /\ CancelIsOwn(g)
=============================================================================
