-------------------------- MODULE RemoteCacheProofs --------------------------
(***************************************************************************)
(* Proofs about RemoteCache for any clusters, identities, callers, cache   *)
(* size and number of writes and evictions.                                *)
(*                                                                         *)
(* What a Get is answered does not depend on the insertion order, since    *)
(* dropping an entry early is always safe; the size of the cache does, and *)
(* has an invariant of its own.                                            *)
(***************************************************************************)
EXTENDS RemoteCache, FiniteSetTheorems, NaturalsInduction, WellFoundedInduction, TLAPS

-----------------------------------------------------------------------------
(* The inductive invariant *)

\* TypeOK without the insertion order.
CacheType ==
    /\ entries \in [Key -> Entry \union {NoEntry}]
    /\ gens \in [Cluster -> 0 .. MaxGen]
    /\ flights \in [FlightKey -> Flight \union {NoFlight}]
    /\ gets \in [Getter -> Call \union {NoCall}]
    /\ remote \in [Cluster -> 0 .. MaxWrites]
    /\ floor \in [Cluster -> 0 .. MaxWrites]

\* An eviction vouches for writes that were made.
FloorReached == \A c \in Cluster : floor[c] <= remote[c]

\* A value is good for a key when it was fetched as the key's identity and is
\* no older than the eviction in force.
GoodFor(v, k) == v \in Value /\ v.identity = k.identity /\ v.version >= floor[k.cluster]

EntriesGood == \A k \in Key : entries[k].status # "absent" => GoodFor(entries[k].value, k)

Running(f) == flights[f].at # "idle"
Valued(f) == flights[f].at \in {"store", "return"}

\* A flight runs under the key of its caller, was started under a generation
\* that was in force, and while that generation lasts its value is good.
FlightsGood ==
    \A f \in FlightKey : Running(f) =>
        /\ flights[f] \in Flight
        /\ f = flightKey(flights[f].key, flights[f].gen)
        /\ flights[f].gen <= gens[flights[f].key.cluster]
        /\ Valued(f) =>
              /\ flights[f].value \in Value
              /\ flights[f].value.identity = flights[f].key.identity
              /\ flights[f].gen = gens[flights[f].key.cluster] =>
                    flights[f].value.version >= floor[flights[f].key.cluster]

\* A call that chose its flight: once the generation has moved on, what the
\* flight holds is still no older than the call.
Chosen(g) == gets[g].at \in {"join", "wait"}
CallFlight(g) == flightKey(gets[g].key, gets[g].gen)

CallsGood ==
    \A g \in Getter : gets[g].at # "new" =>
        /\ gets[g] \in Call
        /\ gets[g].floor <= floor[gets[g].key.cluster]
        /\ Chosen(g) =>
              /\ gets[g].gen <= gens[gets[g].key.cluster]
              /\ Valued(CallFlight(g)) => flights[CallFlight(g)].value.version >= gets[g].floor

AnswersGood ==
    \A g \in Getter : Answered(g) =>
        /\ gets[g].value.identity = gets[g].key.identity
        /\ gets[g].value.version >= gets[g].floor

CacheInv == CacheType /\ FloorReached /\ EntriesGood /\ FlightsGood /\ CallsGood /\ AnswersGood

-----------------------------------------------------------------------------
(* Get *)

\* The flight key determines the key and the generation.
LEMMA FlightKeyInjective ==
    ASSUME NEW k \in Key, NEW j \in Key, NEW m \in 0 .. MaxGen, NEW n \in 0 .. MaxGen
    PROVE  /\ flightKey(k, m) \in FlightKey
           /\ flightKey(k, m) = flightKey(j, n) => k = j /\ m = n
  BY DEF flightKey, FlightKey, Key

\* A call that has not chosen a flight, or whose flight has no value, and a call
\* that is answered well, keep the invariant; the cache and the flights stay.
LEMMA CallMoves ==
    ASSUME CacheInv, NEW g \in Getter, NEW call \in Call,
           gets' = [gets EXCEPT ![g] = call],
           UNCHANGED <<entries, gens, flights, remote, floor>>,
           call.at # "new", call.floor <= floor[call.key.cluster],
           call.at \in {"join", "wait"} =>
              /\ call.gen <= gens[call.key.cluster]
              /\ Valued(flightKey(call.key, call.gen)) =>
                    flights[flightKey(call.key, call.gen)].value.version >= call.floor,
           call.at = "done" /\ call.answer = "value" =>
              call.value.identity = call.key.identity /\ call.value.version >= call.floor
    PROVE  CacheInv'
<1> USE DEF CacheInv
<1>1. \A h \in Getter : gets'[h] = IF h = g THEN call ELSE gets[h]
  BY DEF CacheType
<1>2. CacheType' /\ FloorReached' /\ EntriesGood' /\ FlightsGood'
  BY DEF CacheType, FloorReached, EntriesGood, GoodFor, FlightsGood, Running, Valued
<1>3. CallsGood'
  BY <1>1 DEF CallsGood, Chosen, CallFlight, Valued
<1>4. AnswersGood'
  BY <1>1 DEF AnswersGood, Answered
<1> QED BY <1>2, <1>3, <1>4

\* A new call asks for what the last eviction vouches for.
LEMMA StartGood ==
    ASSUME CacheInv, NEW g \in Getter, Start(g)
    PROVE  CacheInv'
<1> DEFINE Asked(k) == [at |-> "lookup", key |-> k, gen |-> 0, floor |-> floor[k.cluster],
                        ended |-> FALSE, answer |-> "none", value |-> NoValue]
<1>1. PICK k \in Key : gets' = [gets EXCEPT ![g] = Asked(k)]
  BY DEF Start
<1>2. k.cluster \in Cluster /\ floor[k.cluster] \in 0 .. MaxWrites
  BY DEF CacheInv, CacheType, Key
<1>3. Asked(k) \in Call /\ Asked(k).at = "lookup" /\ Asked(k).floor <= floor[Asked(k).key.cluster]
  BY <1>2, CacheAssumption DEF Call, Result
<1> HIDE DEF Asked
<1> QED BY <1>1, <1>3, CallMoves DEF Start, cacheVars, truth

\* A cached value that is still fresh answers the call.
LEMMA LookupGood ==
    ASSUME CacheInv, NEW g \in Getter, Lookup(g)
    PROVE  CacheInv'
<1> DEFINE k == gets[g].key
           hit == [gets[g] EXCEPT !.at = "done", !.answer = "value", !.value = entries[k].value]
           miss == [gets[g] EXCEPT !.at = "generation"]
<1>1. gets[g] \in Call /\ gets[g].floor <= floor[k.cluster] /\ k \in Key /\ gets \in [Getter -> Call \union {NoCall}]
  BY DEF CacheInv, CallsGood, Lookup, Call, CacheType
<1>2. CASE Hit(k)
  <2>1. GoodFor(entries[k].value, k)
    BY <1>1, <1>2 DEF CacheInv, EntriesGood, Hit
  <2>2. hit \in Call /\ hit.key = k /\ hit.floor = gets[g].floor /\ hit.value = entries[k].value
        /\ hit.at = "done"
    BY <1>1, <2>1 DEF Call, Result, GoodFor
  <2>3. gets' = [gets EXCEPT ![g] = hit]
    BY <1>1, <1>2 DEF Lookup
  <2>4. k.cluster \in Cluster /\ floor[k.cluster] \in Nat /\ gets[g].floor \in Nat
        /\ entries[k].value.version \in Nat
    BY <1>1, <2>1 DEF CacheInv, CacheType, Key, Call, GoodFor, Value
  <2>5. hit.value.identity = hit.key.identity /\ hit.value.version >= hit.floor
    BY <1>1, <2>1, <2>2, <2>4 DEF GoodFor
  <2> QED BY <1>1, <2>2, <2>3, <2>5, CallMoves DEF Lookup, cacheVars, truth
<1>3. CASE ~Hit(k)
  <2>1. miss \in Call /\ miss.key = k /\ miss.floor = gets[g].floor /\ miss.at = "generation"
    BY <1>1 DEF Call
  <2>2. gets' = [gets EXCEPT ![g] = miss]
    BY <1>1, <1>3 DEF Lookup
  <2> QED BY <1>1, <2>1, <2>2, CallMoves DEF Lookup, cacheVars, truth
<1> QED BY <1>2, <1>3

\* The generation a call reads is in force, so the flight it chooses, if it
\* holds a value already, holds one no older than the call.
LEMMA ReadGenerationGood ==
    ASSUME CacheInv, NEW g \in Getter, ReadGeneration(g)
    PROVE  CacheInv'
<1> DEFINE k == gets[g].key
           c == [gets[g] EXCEPT !.gen = gens[k.cluster], !.at = "join"]
           f == flightKey(k, gens[k.cluster])
<1>1. gets[g] \in Call /\ gets[g].floor <= floor[k.cluster] /\ k \in Key /\ gets \in [Getter -> Call \union {NoCall}]
  BY DEF CacheInv, CallsGood, ReadGeneration, Call, CacheType
<1>2. k.cluster \in Cluster /\ gens[k.cluster] \in 0 .. MaxGen /\ floor[k.cluster] \in Nat /\ gets[g].floor \in Nat
  BY <1>1 DEF CacheInv, CacheType, Key, Call
<1>3. c \in Call /\ c.key = k /\ c.gen = gens[k.cluster] /\ c.floor = gets[g].floor /\ c.at = "join"
  BY <1>1, <1>2 DEF Call
<1>4. gets' = [gets EXCEPT ![g] = c]
  BY <1>1 DEF ReadGeneration
<1>5. ASSUME Valued(f) PROVE flights[f].value.version >= c.floor
  <2>1. f \in FlightKey /\ Running(f)
    BY <1>1, <1>2, <1>5, FlightKeyInjective DEF Valued, Running
  <2>2. flights[f] \in Flight /\ f = flightKey(flights[f].key, flights[f].gen)
        /\ flights[f].value \in Value
        /\ (flights[f].gen = gens[flights[f].key.cluster] =>
              flights[f].value.version >= floor[flights[f].key.cluster])
    BY <1>5, <2>1 DEF CacheInv, FlightsGood
  <2>3. flights[f].key \in Key /\ flights[f].gen \in 0 .. MaxGen
    BY <2>2 DEF Flight
  <2>4. flights[f].key = k /\ flights[f].gen = gens[k.cluster]
    BY <1>1, <1>2, <2>2, <2>3, FlightKeyInjective
  <2>5. flights[f].value.version \in Nat
    BY <2>2 DEF Value
  <2> QED BY <1>1, <1>2, <1>3, <2>2, <2>4, <2>5
<1>6. c.gen <= gens[c.key.cluster] /\ c.floor <= floor[c.key.cluster] /\ f = flightKey(c.key, c.gen)
  BY <1>1, <1>2, <1>3
<1> HIDE DEF c, f
<1> QED BY <1>3, <1>4, <1>5, <1>6, CallMoves DEF ReadGeneration, cacheVars, truth

\* The end of a caller's context changes neither where it is nor what it asks.
LEMMA EndContextGood ==
    ASSUME CacheInv, NEW g \in Getter, EndContext(g)
    PROVE  CacheInv'
<1> DEFINE c == [gets[g] EXCEPT !.ended = TRUE]
<1>1. /\ gets[g] \in Call /\ gets[g].floor <= floor[gets[g].key.cluster]
      /\ gets \in [Getter -> Call \union {NoCall}] /\ gets[g].at \notin {"new", "done"}
      /\ Chosen(g) =>
            /\ gets[g].gen <= gens[gets[g].key.cluster]
            /\ Valued(CallFlight(g)) => flights[CallFlight(g)].value.version >= gets[g].floor
  BY DEF CacheInv, CallsGood, EndContext, CacheType
<1>2. /\ c \in Call /\ c.at = gets[g].at /\ c.key = gets[g].key /\ c.gen = gets[g].gen
      /\ c.floor = gets[g].floor
  BY <1>1 DEF Call
<1>3. gets' = [gets EXCEPT ![g] = c]
  BY <1>1 DEF EndContext
<1> HIDE DEF c
<1> QED BY <1>1, <1>2, <1>3, CallMoves DEF EndContext, Chosen, CallFlight, cacheVars, truth

\* A caller that gives up takes no value and leaves the flight alone.
LEMMA CancelGood ==
    ASSUME CacheInv, NEW g \in Getter, Cancel(g)
    PROVE  CacheInv'
<1> DEFINE c == [gets[g] EXCEPT !.at = "done", !.answer = "canceled"]
<1>1. gets[g] \in Call /\ gets[g].floor <= floor[gets[g].key.cluster] /\ gets \in [Getter -> Call \union {NoCall}]
  BY DEF CacheInv, CallsGood, Cancel, CacheType
<1>2. c \in Call /\ c.key = gets[g].key /\ c.floor = gets[g].floor /\ c.at = "done" /\ c.answer = "canceled"
  BY <1>1 DEF Call
<1>3. gets' = [gets EXCEPT ![g] = c]
  BY <1>1 DEF Cancel
<1> QED BY <1>1, <1>2, <1>3, CallMoves DEF Cancel, cacheVars, truth

-----------------------------------------------------------------------------
(* The flight *)

\* A flight moves on under its key: without a value, with the value it had, or
\* with one that is good now.
LEMMA FlightMoves ==
    ASSUME CacheInv, NEW f \in FlightKey, NEW next \in Flight, NEW k \in Key,
           flights' = [flights EXCEPT ![f] = next],
           UNCHANGED <<entries, gens, gets, remote, floor>>,
           next.key = k, next.gen \in 0 .. MaxGen, next.gen <= gens[k.cluster],
           f = flightKey(k, next.gen),
           \/ next.at \notin {"store", "return"}
           \/ Valued(f) /\ next.value = flights[f].value /\ flights[f].key = k /\ flights[f].gen = next.gen
           \/ GoodFor(next.value, k)
    PROVE  CacheInv'
<1> USE DEF CacheInv
<1>1. \A h \in FlightKey : flights'[h] = IF h = f THEN next ELSE flights[h]
  BY DEF CacheType
<1>2. CacheType' /\ FloorReached' /\ EntriesGood' /\ AnswersGood'
  BY DEF CacheType, FloorReached, EntriesGood, GoodFor, AnswersGood, Answered
<1>3. ASSUME next.at \in {"store", "return"}
      PROVE  /\ next.value \in Value
             /\ next.value.identity = k.identity
             /\ next.gen = gens[k.cluster] => next.value.version >= floor[k.cluster]
  BY <1>3 DEF GoodFor, FlightsGood, Valued, Running
<1>4. FlightsGood'
  BY <1>1, <1>3 DEF FlightsGood, Running, Valued
<1>5. ASSUME NEW g \in Getter, Chosen(g), CallFlight(g) = f, next.at \in {"store", "return"}
      PROVE  next.value.version >= gets[g].floor
  <2>1. gets[g] \in Call /\ gets[g].floor <= floor[gets[g].key.cluster]
        /\ (Valued(f) => flights[f].value.version >= gets[g].floor)
    BY <1>5 DEF CallsGood, Chosen
  <2>2. gets[g].key \in Key /\ gets[g].gen \in 0 .. MaxGen /\ gets[g].floor \in Nat
    BY <2>1 DEF Call
  <2>3. gets[g].key = k
    BY <1>5, <2>2, FlightKeyInjective DEF CallFlight
  <2>4. floor[k.cluster] \in Nat
    BY DEF CacheType, Key
  <2>5. next.value.version \in Nat
    BY <1>3, <1>5 DEF Value
  <2> QED BY <1>5, <2>1, <2>2, <2>3, <2>4, <2>5 DEF GoodFor
<1>6. \A g \in Getter : Chosen(g) => CallFlight(g) \in FlightKey
  BY FlightKeyInjective DEF CallsGood, Chosen, CallFlight, Call
<1>7. CallsGood'
  BY <1>1, <1>5, <1>6 DEF CallsGood, Chosen, CallFlight, Valued
<1> QED BY <1>2, <1>4, <1>7

\* A running flight has the fields of a flight.
LEMMA RunningFlight ==
    ASSUME CacheInv, NEW f \in FlightKey, Running(f)
    PROVE  /\ flights[f] \in Flight
           /\ flights[f].key \in Key /\ flights[f].gen \in 0 .. MaxGen
           /\ flights[f].gen <= gens[flights[f].key.cluster]
           /\ f = flightKey(flights[f].key, flights[f].gen)
           /\ flights[f].key.cluster \in Cluster /\ flights[f].key.identity \in Identity
  BY DEF CacheInv, FlightsGood, Flight, Key

\* Joining starts the flight of the call's key and generation when none runs.
LEMMA JoinGood ==
    ASSUME CacheInv, NEW g \in Getter, Join(g)
    PROVE  CacheInv'
<1> USE DEF CacheInv
<1> DEFINE k == gets[g].key
           n == gets[g].gen
           f == flightKey(k, n)
           fresh == [at |-> "lookup", key |-> k, gen |-> n, by |-> g, value |-> NoValue]
           c == [gets[g] EXCEPT !.at = "wait"]
<1>1. gets[g] \in Call /\ gets[g].floor <= floor[k.cluster] /\ n <= gens[k.cluster]
      /\ gets \in [Getter -> Call \union {NoCall}]
      /\ (Valued(f) => flights[f].value.version >= gets[g].floor)
  BY DEF CallsGood, Join, Chosen, CallFlight, CacheType
<1>2. k \in Key /\ n \in 0 .. MaxGen /\ f \in FlightKey
  BY <1>1, FlightKeyInjective DEF Call
<1>3. c \in Call /\ c.key = k /\ c.gen = n /\ c.floor = gets[g].floor /\ c.at = "wait"
  BY <1>1 DEF Call
<1>4. fresh \in Flight /\ fresh.at = "lookup" /\ fresh.key = k /\ fresh.gen = n
  BY <1>2 DEF Flight, Result
<1>5. \A h \in Getter : gets'[h] = IF h = g THEN c ELSE gets[h]
  BY <1>1 DEF Join
<1>6. \A h \in FlightKey : flights'[h] = IF h = f /\ ~Running(f) THEN fresh ELSE flights[h]
  BY <1>2 DEF Join, CacheType, Running
<1>7. UNCHANGED <<entries, gens, remote, floor>>
  BY DEF Join, cacheVars, truth
<1>8. CacheType'
  <2>1. gets' = [gets EXCEPT ![g] = c] /\ (flights' = flights \/ flights' = [flights EXCEPT ![f] = fresh])
    BY <1>1 DEF Join
  <2> HIDE DEF c, fresh, f
  <2> QED BY <1>1, <1>3, <1>4, <1>7, <2>1 DEF CacheType
<1> HIDE DEF c, fresh
<1>9. FloorReached' /\ EntriesGood'
  BY <1>7 DEF FloorReached, EntriesGood, GoodFor
<1>10. \A h \in FlightKey : Valued(h)' => Valued(h) /\ flights'[h] = flights[h]
  BY <1>4, <1>6 DEF Valued
<1>11. FlightsGood'
  BY <1>1, <1>2, <1>4, <1>6, <1>7 DEF FlightsGood, Running, Valued
<1>12. \A h \in Getter : Chosen(h) => CallFlight(h) \in FlightKey
  BY FlightKeyInjective DEF CallsGood, Chosen, CallFlight, Call
<1>13. CallsGood'
  BY <1>1, <1>2, <1>3, <1>5, <1>7, <1>10, <1>12 DEF CallsGood, Chosen, CallFlight
<1>14. AnswersGood'
  BY <1>3, <1>5 DEF AnswersGood, Answered
<1> QED BY <1>8, <1>9, <1>11, <1>13, <1>14

\* The flight's own lookup returns an entry, which is good, or goes on to fetch.
LEMMA FlightLookupGood ==
    ASSUME CacheInv, NEW f \in FlightKey, FlightLookup(f)
    PROVE  CacheInv'
<1> DEFINE k == flights[f].key
           hit == [flights[f] EXCEPT !.at = "return", !.value = entries[k].value]
           miss == [flights[f] EXCEPT !.at = "fetch"]
<1>1. /\ flights[f] \in Flight /\ k \in Key /\ flights[f].gen \in 0 .. MaxGen
      /\ flights[f].gen <= gens[k.cluster] /\ f = flightKey(k, flights[f].gen)
      /\ flights \in [FlightKey -> Flight \union {NoFlight}]
  BY RunningFlight DEF FlightLookup, Running, CacheInv, CacheType
<1>2. UNCHANGED <<entries, gens, gets, remote, floor>>
  BY DEF FlightLookup, cacheVars, truth
<1>3. CASE Hit(k)
  <2>1. GoodFor(entries[k].value, k)
    BY <1>1, <1>3 DEF CacheInv, EntriesGood, Hit
  <2>2. hit \in Flight /\ hit.key = k /\ hit.gen = flights[f].gen /\ hit.value = entries[k].value
    BY <1>1, <2>1 DEF Flight, Result, GoodFor
  <2>3. flights' = [flights EXCEPT ![f] = hit]
    BY <1>1, <1>3 DEF FlightLookup
  <2> HIDE DEF hit
  <2> QED BY <1>1, <1>2, <2>1, <2>2, <2>3, FlightMoves
<1>4. CASE ~Hit(k)
  <2>1. miss \in Flight /\ miss.key = k /\ miss.gen = flights[f].gen /\ miss.at = "fetch"
    BY <1>1 DEF Flight
  <2>2. flights' = [flights EXCEPT ![f] = miss]
    BY <1>1, <1>4 DEF FlightLookup
  <2> HIDE DEF miss
  <2> QED BY <1>1, <1>2, <2>1, <2>2, FlightMoves
<1> QED BY <1>3, <1>4

\* A fetch sees every write made, hence every write an eviction vouches for.
LEMMA FetchGood ==
    ASSUME CacheInv, NEW f \in FlightKey, Fetch(f)
    PROVE  CacheInv'
<1> DEFINE k == flights[f].key
           v == [version |-> remote[k.cluster], identity |-> k.identity]
           next == [flights[f] EXCEPT !.at = "store", !.value = v]
<1>1. /\ flights[f] \in Flight /\ k \in Key /\ flights[f].gen \in 0 .. MaxGen
      /\ flights[f].gen <= gens[k.cluster] /\ f = flightKey(k, flights[f].gen)
      /\ flights \in [FlightKey -> Flight \union {NoFlight}]
      /\ k.cluster \in Cluster /\ k.identity \in Identity
  BY RunningFlight DEF Fetch, Running, CacheInv, CacheType
<1>2. UNCHANGED <<entries, gens, gets, remote, floor>>
  BY DEF Fetch, cacheVars, truth
<1>3. v \in Value /\ GoodFor(v, k)
  BY <1>1 DEF GoodFor, Value, CacheInv, CacheType, FloorReached
<1>4. next \in Flight /\ next.key = k /\ next.gen = flights[f].gen /\ next.value = v
  BY <1>1, <1>3 DEF Flight, Result
<1>5. flights' = [flights EXCEPT ![f] = next]
  BY <1>1 DEF Fetch
<1> HIDE DEF next, v
<1> QED BY <1>1, <1>2, <1>3, <1>4, <1>5, FlightMoves

\* Storing under the generation in force stores a value that is good; under an
\* older one nothing is stored.
LEMMA StoreGood ==
    ASSUME CacheInv, NEW f \in FlightKey, Store(f)
    PROVE  CacheInv'
<1> USE DEF CacheInv
<1> DEFINE k == flights[f].key
           v == flights[f].value
           next == [flights[f] EXCEPT !.at = "return"]
           stored == [status |-> "fresh", value |-> v]
<1>1. /\ flights[f] \in Flight /\ k \in Key /\ flights[f].gen \in 0 .. MaxGen
      /\ flights[f].gen <= gens[k.cluster] /\ f = flightKey(k, flights[f].gen)
      /\ flights \in [FlightKey -> Flight \union {NoFlight}] /\ Valued(f)
  BY RunningFlight DEF Store, Running, CacheType, Valued
<1>2. v \in Value /\ (gens[k.cluster] = flights[f].gen => GoodFor(v, k))
  BY <1>1 DEF FlightsGood, Running, Valued, GoodFor
<1>3. next \in Flight /\ next.key = k /\ next.gen = flights[f].gen /\ next.value = v /\ next.at = "return"
  BY <1>1 DEF Flight
<1>4. flights' = [flights EXCEPT ![f] = next] /\ UNCHANGED <<gens, gets, remote, floor>>
  BY <1>1 DEF Store, truth
<1>5. entries' = entries \/ entries' \in [Key -> Entry \union {NoEntry}]
  <2>1. entries \in [Key -> Entry \union {NoEntry}] /\ stored \in Entry
    BY <1>2 DEF CacheType, Entry
  <2> QED BY <2>1 DEF Store
<1>6. \A j \in Key : \/ entries'[j] = entries[j]
                     \/ entries'[j] = NoEntry
                     \/ j = k /\ entries'[j] = stored /\ GoodFor(v, k)
  BY <1>1, <1>2 DEF Store
<1>7. EntriesGood'
  <2>1. \A j \in Key : \A w : GoodFor(w, j) => GoodFor(w, j)'
    BY <1>4 DEF GoodFor
  <2>2. stored.value = v /\ NoEntry.status = "absent"
    BY DEF NoEntry
  <2> HIDE DEF stored, v
  <2> QED BY <1>6, <2>1, <2>2 DEF EntriesGood
<1> HIDE DEF next, stored
<1>8. \A h \in FlightKey : flights'[h] = IF h = f THEN next ELSE flights[h]
  BY <1>1, <1>4
<1>9. CacheType'
  BY <1>3, <1>4, <1>5 DEF CacheType
<1>10. FloorReached' /\ AnswersGood'
  BY <1>4 DEF FloorReached, AnswersGood, Answered
<1>11. FlightsGood'
  BY <1>1, <1>3, <1>4, <1>8 DEF FlightsGood, Running, Valued
<1>12. \A h \in Getter : Chosen(h) => CallFlight(h) \in FlightKey
  BY FlightKeyInjective DEF CallsGood, Chosen, CallFlight, Call
<1>13. CallsGood'
  BY <1>1, <1>3, <1>4, <1>8, <1>12 DEF CallsGood, Chosen, CallFlight, Valued
<1> QED BY <1>7, <1>9, <1>10, <1>11, <1>13

\* A flight that lands answers the calls waiting for it: with an error, or with
\* a value that is theirs and no older than they are.
LEMMA LandGood ==
    ASSUME CacheInv, NEW f \in FlightKey, Running(f), NEW answer, NEW value,
           Land(f, answer, value), UNCHANGED <<entries, gens, remote, floor>>,
           \/ answer = "error" /\ value = NoValue
           \/ answer = "value" /\ Valued(f) /\ value = flights[f].value
    PROVE  CacheInv'
<1> USE DEF CacheInv
<1> DEFINE Waits(g) == gets[g].at = "wait" /\ CallFlight(g) = f
           Told(g) == [gets[g] EXCEPT !.at = "done", !.answer = answer, !.value = value]
<1>1. \A g \in Getter : gets'[g] = IF Waits(g) THEN Told(g) ELSE gets[g]
  BY DEF Land, CallFlight
<1>2. \A h \in FlightKey : flights'[h] = IF h = f THEN NoFlight ELSE flights[h]
  BY DEF Land, CacheType
<1>3. value \in Result
  BY DEF Result, FlightsGood
<1>4. ASSUME NEW g \in Getter, Waits(g)
      PROVE  /\ gets[g] \in Call
             /\ Told(g) \in Call
             /\ Told(g).at = "done" /\ Told(g).answer = answer /\ Told(g).value = value
             /\ Told(g).key = gets[g].key /\ Told(g).floor = gets[g].floor
             /\ gets[g].floor <= floor[gets[g].key.cluster]
             /\ Valued(f) => flights[f].value.version >= gets[g].floor
             /\ flights[f].key = gets[g].key
  <2>1. gets[g] \in Call /\ gets[g].floor <= floor[gets[g].key.cluster]
        /\ (Valued(f) => flights[f].value.version >= gets[g].floor)
    BY <1>4 DEF CallsGood, Chosen
  <2>2. Told(g) \in Call /\ Told(g).at = "done" /\ Told(g).answer = answer /\ Told(g).value = value
        /\ Told(g).key = gets[g].key /\ Told(g).floor = gets[g].floor
    BY <1>3, <2>1 DEF Call
  <2>3. gets[g].key \in Key /\ gets[g].gen \in 0 .. MaxGen
    BY <2>1 DEF Call
  <2>4. flights[f].key = gets[g].key
    BY <1>4, <2>3, RunningFlight, FlightKeyInjective DEF CallFlight
  <2> HIDE DEF Told
  <2> QED BY <2>1, <2>2, <2>4
<1> HIDE DEF Told
<1>5. CacheType'
  <2>1. flights' \in [FlightKey -> Flight \union {NoFlight}]
    BY DEF Land, CacheType
  <2>2. gets' \in [Getter -> Call \union {NoCall}]
    <3>1. gets' = [g \in Getter |-> gets'[g]]
      BY DEF Land
    <3> QED BY <1>1, <1>4, <3>1 DEF CacheType
  <2> QED BY <2>1, <2>2 DEF CacheType
<1>6. FloorReached' /\ EntriesGood'
  BY DEF FloorReached, EntriesGood, GoodFor
<1>7. FlightsGood'
  BY <1>2 DEF FlightsGood, Running, Valued, NoFlight
<1>8. \A h \in Getter : Chosen(h) => CallFlight(h) \in FlightKey
  BY FlightKeyInjective DEF CallsGood, Chosen, CallFlight, Call
<1>9. CallsGood'
  BY <1>1, <1>2, <1>4, <1>8 DEF CallsGood, Chosen, CallFlight, Valued, NoFlight
<1>10. AnswersGood'
  <2>1. ASSUME NEW g \in Getter, Waits(g), answer = "value"
        PROVE  value.identity = gets[g].key.identity /\ value.version >= gets[g].floor
    BY <1>4, <2>1 DEF FlightsGood
  <2> QED BY <1>1, <1>4, <2>1 DEF AnswersGood, Answered
<1> QED BY <1>5, <1>6, <1>7, <1>9, <1>10

\* An eviction empties the cluster's entries and ends the generation of every
\* flight under way, so nothing it does not vouch for stays good.
LEMMA EvictGood ==
    ASSUME CacheInv, NEW c \in Cluster, EvictCluster(c)
    PROVE  CacheInv'
<1> USE DEF CacheInv
<1>1. /\ gens[c] \in 0 .. MaxGen /\ gens[c] < MaxGen /\ MaxGen \in Nat
      /\ \A d \in Cluster : gens'[d] = IF d = c THEN gens[c] + 1 ELSE gens[d]
      /\ \A d \in Cluster : floor'[d] = IF d = c THEN remote[c] ELSE floor[d]
      /\ \A k \in Key : entries'[k] = IF k.cluster = c THEN NoEntry ELSE entries[k]
      /\ UNCHANGED <<flights, gets, remote>>
  BY CacheAssumption DEF EvictCluster, CacheType
<1>2. \A d \in Cluster : /\ floor[d] \in Nat /\ floor'[d] \in Nat /\ floor[d] <= floor'[d]
                         /\ gens[d] \in Nat /\ gens'[d] \in Nat /\ gens[d] <= gens'[d]
  BY <1>1 DEF CacheType, FloorReached
<1>3. CacheType'
  <2>1. gens' \in [Cluster -> 0 .. MaxGen] /\ floor' \in [Cluster -> 0 .. MaxWrites]
    BY <1>1 DEF EvictCluster, CacheType
  <2>2. entries' \in [Key -> Entry \union {NoEntry}]
    BY DEF EvictCluster, CacheType
  <2> QED BY <1>1, <2>1, <2>2 DEF CacheType
<1>4. FloorReached'
  BY <1>1 DEF FloorReached, CacheType
<1>5. EntriesGood'
  BY <1>1 DEF EntriesGood, GoodFor, NoEntry, Key
<1>6. ASSUME NEW f \in FlightKey, Running(f)
      PROVE  /\ flights[f].gen <= gens'[flights[f].key.cluster]
             /\ Valued(f) /\ flights[f].gen = gens'[flights[f].key.cluster] =>
                   flights[f].value.version >= floor'[flights[f].key.cluster]
  <2>1. flights[f].gen \in Nat /\ flights[f].gen <= gens[flights[f].key.cluster]
        /\ flights[f].key.cluster \in Cluster
    BY <1>6, RunningFlight
  <2>2. Valued(f) /\ flights[f].gen = gens[flights[f].key.cluster] =>
           flights[f].value.version >= floor[flights[f].key.cluster]
    BY <1>6 DEF FlightsGood
  <2> QED BY <1>1, <1>2, <2>1, <2>2
<1>7. FlightsGood'
  BY <1>1, <1>6 DEF FlightsGood, Running, Valued
<1>8. ASSUME NEW g \in Getter, gets[g].at # "new"
      PROVE  /\ gets[g].floor <= floor'[gets[g].key.cluster]
             /\ Chosen(g) => gets[g].gen <= gens'[gets[g].key.cluster]
  <2>1. gets[g] \in Call /\ gets[g].floor <= floor[gets[g].key.cluster]
        /\ (Chosen(g) => gets[g].gen <= gens[gets[g].key.cluster])
    BY <1>8 DEF CallsGood
  <2>2. gets[g].key.cluster \in Cluster /\ gets[g].floor \in Nat /\ gets[g].gen \in Nat
    BY <2>1 DEF Call, Key
  <2> QED BY <1>2, <2>1, <2>2
<1>9. CallsGood'
  BY <1>1, <1>8 DEF CallsGood, Chosen, CallFlight, Valued
<1>10. AnswersGood'
  BY <1>1 DEF AnswersGood, Answered
<1> QED BY <1>3, <1>4, <1>5, <1>7, <1>9, <1>10

\* The TTL of an entry runs out: the value stays good.
LEMMA ExpireGood ==
    ASSUME CacheInv, NEW k \in Key, Expire(k)
    PROVE  CacheInv'
<1> USE DEF CacheInv
<1> DEFINE old == [entries[k] EXCEPT !.status = "expired"]
<1>1. entries[k] \in Entry
  BY DEF Expire, Hit, CacheType, NoEntry
<1>2. old \in Entry /\ old.value = entries[k].value
  BY <1>1 DEF Entry
<1>3. entries' = [entries EXCEPT ![k] = old] /\ UNCHANGED <<gens, flights, gets, remote, floor>>
  BY DEF Expire, truth, CacheType
<1> HIDE DEF old
<1>4. CacheType'
  BY <1>2, <1>3 DEF CacheType
<1>5. EntriesGood'
  <2>1. \A j \in Key : entries'[j] = IF j = k THEN old ELSE entries[j]
    BY <1>3 DEF CacheType
  <2>2. entries[k].status # "absent"
    BY DEF Expire, Hit
  <2> QED BY <1>2, <1>3, <2>1, <2>2 DEF EntriesGood, GoodFor
<1>6. FloorReached' /\ FlightsGood' /\ CallsGood' /\ AnswersGood'
  BY <1>3 DEF FloorReached, FlightsGood, Running, Valued, CallsGood, Chosen, CallFlight,
              AnswersGood, Answered
<1> QED BY <1>4, <1>5, <1>6

\* A write moves the remote cluster on and vouches for nothing yet.
LEMMA WriteGood ==
    ASSUME CacheInv, NEW c \in Cluster, Write(c)
    PROVE  CacheInv'
<1> USE DEF CacheInv
<1>1. UNCHANGED <<entries, gens, flights, gets, floor>> /\ remote[c] \in 0 .. MaxWrites
      /\ remote[c] < MaxWrites /\ remote' = [remote EXCEPT ![c] = @ + 1]
  BY DEF Write, cacheVars, CacheType
<1>2. CacheType' /\ FloorReached'
  BY <1>1, CacheAssumption DEF CacheType, FloorReached
<1>3. EntriesGood' /\ FlightsGood' /\ CallsGood' /\ AnswersGood'
  BY <1>1 DEF EntriesGood, GoodFor, FlightsGood, Running, Valued, CallsGood, Chosen,
              CallFlight, AnswersGood, Answered
<1> QED BY <1>2, <1>3

-----------------------------------------------------------------------------
(* The theorems *)

\* The invariant holds of the empty cache.
LEMMA InitCacheInv == Init => CacheInv
<1> SUFFICES ASSUME Init PROVE CacheInv
  OBVIOUS
<1>1. CacheType /\ FloorReached
  BY CacheAssumption DEF Init, CacheType, FloorReached
<1>2. EntriesGood /\ FlightsGood /\ CallsGood /\ AnswersGood
  BY DEF Init, EntriesGood, FlightsGood, CallsGood, AnswersGood, Running, Answered, NoEntry,
         NoFlight, NoCall
<1> QED BY <1>1, <1>2 DEF CacheInv

\* Every step of a Get, of a flight, of an eviction and of the world keeps it.
LEMMA CacheInvInductive == CacheInv /\ [Next]_vars => CacheInv'
<1> SUFFICES ASSUME CacheInv, [Next]_vars PROVE CacheInv'
  OBVIOUS
<1>1. ASSUME NEW g \in Getter, Start(g) \/ GetStep(g) \/ EndContext(g) PROVE CacheInv'
  BY <1>1, StartGood, LookupGood, ReadGenerationGood, JoinGood, CancelGood, EndContextGood
     DEF GetStep
<1>2. ASSUME NEW f \in FlightKey, FetchFails(f) PROVE CacheInv'
  BY <1>2, LandGood DEF FetchFails, fetchErrors, Running, cacheVars, truth
<1>3. ASSUME NEW f \in FlightKey, Return(f) PROVE CacheInv'
  BY <1>3, LandGood DEF Return, Running, Valued, cacheVars, truth
<1>4. ASSUME NEW f \in FlightKey, FlightStep(f) PROVE CacheInv'
  BY <1>2, <1>3, <1>4, FlightLookupGood, FetchGood, StoreGood DEF FlightStep
<1>5. CASE UNCHANGED vars
  BY <1>5 DEF vars, CacheInv, CacheType, FloorReached, EntriesGood, GoodFor, FlightsGood,
              Running, Valued, CallsGood, Chosen, CallFlight, AnswersGood, Answered
<1> QED BY <1>1, <1>4, <1>5, EvictGood, WriteGood, ExpireGood DEF Next

\* "a write or cluster removal is never masked by a fetch that read the old
\* state", for any number of clusters, users, callers, writes and evictions.
THEOREM EvictionHolds == Spec => []ReadsWhatEvictionVouchesFor
<1>1. CacheInv => ReadsWhatEvictionVouchesFor
  BY DEF CacheInv, AnswersGood, ReadsWhatEvictionVouchesFor
<1> QED BY <1>1, InitCacheInv, CacheInvInductive, PTL DEF Spec

\* No caller is ever answered with a view fetched as somebody else.
THEOREM ViewsAreOwn == Spec => []OwnView
<1>1. CacheInv => OwnView
  BY DEF CacheInv, AnswersGood, OwnView
<1> QED BY <1>1, InitCacheInv, CacheInvInductive, PTL DEF Spec

\* Every call under way or answered that was told of an ended context had its
\* own end.
CancelsOwn == \A g \in Getter : gets[g].at # "new" => CancelIsOwn(g)

\* Whatever moves a call keeps the end of its context, and only Cancel answers
\* with it.
LEMMA CancelsOwnInductive == CacheInv /\ CancelsOwn /\ [Next]_vars => CancelsOwn'
<1> SUFFICES ASSUME CacheInv, CancelsOwn, [Next]_vars PROVE CancelsOwn'
  OBVIOUS
<1> USE DEF CancelsOwn, CancelIsOwn
<1>1. gets \in [Getter -> Call \union {NoCall}] /\ \A g \in Getter : gets[g].at # "new" => gets[g] \in Call
  BY DEF CacheInv, CacheType, CallsGood
<1>2. ASSUME NEW g \in Getter, NEW call \in Call, gets' = [gets EXCEPT ![g] = call],
             call.answer = "canceled" => call.ended
      PROVE  CancelsOwn'
  BY <1>1, <1>2
<1>3. ASSUME NEW g \in Getter, gets[g].at # "new"
      PROVE  gets[g] \in Call /\ (gets[g].answer = "canceled" => gets[g].ended)
  BY <1>1, <1>3
<1>4. ASSUME NEW g \in Getter, Start(g) PROVE CancelsOwn'
  <2>1. PICK k \in Key : gets' = [gets EXCEPT ![g] =
            [at |-> "lookup", key |-> k, gen |-> 0, floor |-> floor[k.cluster],
             ended |-> FALSE, answer |-> "none", value |-> NoValue]]
    BY <1>4 DEF Start
  <2>2. gets'[g].answer = "none" /\ \A h \in Getter : h # g => gets'[h] = gets[h]
    BY <1>1, <2>1
  <2> QED BY <2>2
<1>5. ASSUME NEW g \in Getter, Lookup(g) \/ ReadGeneration(g) \/ Join(g) PROVE CancelsOwn'
  <2>1. gets[g] \in Call /\ (gets[g].answer = "canceled" => gets[g].ended)
    BY <1>3, <1>5 DEF Lookup, ReadGeneration, Join
  <2>2. /\ gets'[g].answer = gets[g].answer \/ gets'[g].answer = "value"
        /\ gets'[g].ended = gets[g].ended
        /\ \A h \in Getter : h # g => gets'[h] = gets[h]
    BY <1>1, <1>5, <2>1 DEF Lookup, ReadGeneration, Join, Call
  <2> QED BY <2>1, <2>2
<1>6. ASSUME NEW g \in Getter, Cancel(g) \/ EndContext(g) PROVE CancelsOwn'
  <2>1. gets[g] \in Call
    BY <1>3, <1>6 DEF Cancel, EndContext
  <2>2. gets'[g].ended /\ \A h \in Getter : h # g => gets'[h] = gets[h]
    BY <1>1, <1>6, <2>1 DEF Cancel, EndContext, Call
  <2> QED BY <2>2
<1>7. ASSUME NEW f \in FlightKey, FlightStep(f) PROVE CancelsOwn'
  <2>1. CASE UNCHANGED gets
    BY <2>1
  <2>2. ASSUME NEW answer, answer # "canceled", NEW value, Land(f, answer, value) PROVE CancelsOwn'
    <3>1. SUFFICES ASSUME NEW g \in Getter, gets'[g].at # "new", gets'[g].answer = "canceled"
                   PROVE  gets'[g].ended
      OBVIOUS
    <3>2. gets'[g] = gets[g] \/ (gets[g].at = "wait" /\
             gets'[g] = [gets[g] EXCEPT !.at = "done", !.answer = answer, !.value = value])
      BY <2>2 DEF Land
    <3>3. gets[g].at = "wait" =>
             [gets[g] EXCEPT !.at = "done", !.answer = answer, !.value = value].answer = answer
      BY <1>3 DEF Call
    <3> QED BY <2>2, <3>1, <3>2, <3>3
  <2>3. UNCHANGED gets \/ \E a \in {"error", "value"}, v \in {NoValue, flights[f].value} : Land(f, a, v)
    BY <1>7 DEF FlightStep, FlightLookup, Fetch, FetchFails, fetchErrors, Store, Return
  <2> QED BY <2>1, <2>2, <2>3
<1>8. UNCHANGED vars \/ (\E c \in Cluster : EvictCluster(c) \/ Write(c)) \/ (\E k \in Key : Expire(k))
      => UNCHANGED gets
  BY DEF vars, EvictCluster, Write, Expire
<1>9. UNCHANGED gets => CancelsOwn'
  OBVIOUS
<1> QED BY <1>4, <1>5, <1>6, <1>7, <1>8, <1>9 DEF Next, GetStep

\* "one caller disconnecting cannot fail every coalesced waiter": for any number
\* of callers joined to one fetch, a Get is answered with an ended context only
\* when its own context ended, never when that of another did (DoChan on a
\* detached context).
THEOREM CancelsAreOwn == Spec => [](\A g \in Getter : gets[g].at = "done" => CancelIsOwn(g))
<1>1. Init => CancelsOwn
  BY DEF Init, CancelsOwn, NoCall
<1>2. CancelsOwn => \A g \in Getter : gets[g].at = "done" => CancelIsOwn(g)
  BY DEF CancelsOwn
<1> QED BY <1>1, <1>2, InitCacheInv, CacheInvInductive, CancelsOwnInductive, PTL DEF Spec

-----------------------------------------------------------------------------
(* The insertion order *)

\* s lists the members of K, each once.
Lists(s, K) ==
    /\ s \in Seq(Key)
    /\ \A i, j \in 1 .. Len(s) : s[i] = s[j] => i = j
    /\ \A k \in Key : k \in K <=> \E i \in 1 .. Len(s) : s[i] = k

Cached == {k \in Key : entries[k].status # "absent"}

OrderInv == Lists(order, Cached) /\ Len(order) <= MaxEntries

\* A set of numbers that is not empty has a least member.
LEMMA LeastOf ==
    ASSUME NEW S \in SUBSET Nat, S # {}
    PROVE  \E n \in S : \A m \in S : n <= m
<1> DEFINE R == {p \in Nat \X Nat : p[1] < p[2]}
<1>1. R = OpToRel(<, Nat)
  BY DEF OpToRel
<1>2. IsWellFoundedOn(R, Nat)
  BY <1>1, NatLessThanWellFounded
<1> HIDE DEF R
<1>3. PICK n \in S : \A m \in S : ~(<<m, n>> \in R)
  BY <1>2, WFMin
<1>4. \A m \in S : ~(m < n)
  BY <1>3 DEF R
<1>5. QED BY <1>4

\* A key that is not listed, appended.
LEMMA AppendLists ==
    ASSUME NEW s, NEW K \in SUBSET Key, Lists(s, K), NEW k \in Key, k \notin K
    PROVE  Lists(Append(s, k), K \union {k}) /\ Len(Append(s, k)) = Len(s) + 1
           /\ Append(s, k)[Len(s) + 1] = k
<1> USE DEF Lists
<1>1. PICK u : u = Append(s, k)
  OBVIOUS
<1>2. u \in Seq(Key) /\ Len(u) = Len(s) + 1 /\ u[Len(s) + 1] = k /\ Len(s) \in Nat
      /\ \A i \in 1 .. Len(s) : u[i] = s[i]
  BY <1>1
<1>3. \A i \in 1 .. Len(u) : i = Len(s) + 1 \/ i \in 1 .. Len(s)
  BY <1>2
<1>4. \A i \in 1 .. Len(s) : s[i] # k
  OBVIOUS
<1>5. \A i, j \in 1 .. Len(u) : u[i] = u[j] => i = j
  BY <1>2, <1>3, <1>4
<1>6. ASSUME NEW q \in Key
      PROVE  q \in K \union {k} <=> \E i \in 1 .. Len(u) : u[i] = q
  <2>1. ASSUME q \in K PROVE \E i \in 1 .. Len(u) : u[i] = q
    <3>1. PICK i \in 1 .. Len(s) : s[i] = q
      BY <2>1
    <3> QED BY <1>2, <3>1
  <2>2. ASSUME q = k PROVE \E i \in 1 .. Len(u) : u[i] = q
    <3>1. Len(s) + 1 \in 1 .. Len(u)
      BY <1>2
    <3> QED BY <1>2, <2>2, <3>1
  <2>3. ASSUME NEW i \in 1 .. Len(u), u[i] = q PROVE q \in K \union {k}
    BY <1>2, <1>3, <2>3
  <2> QED BY <2>1, <2>2, <2>3
<1> QED BY <1>1, <1>2, <1>5, <1>6

\* The first key, dropped.
LEMMA TailLists ==
    ASSUME NEW s, NEW K \in SUBSET Key, Lists(s, K), Len(s) > 0
    PROVE  /\ Lists(Tail(s), K \ {Head(s)}) /\ Len(Tail(s)) = Len(s) - 1
           /\ Head(s) = s[1] /\ Head(s) \in Key
<1> USE DEF Lists
<1>1. PICK u : u = Tail(s)
  OBVIOUS
<1>2. Len(s) \in Nat /\ Head(s) = s[1] /\ s[1] \in Key
  OBVIOUS
<1>3. u \in Seq(Key) /\ Len(u) = Len(s) - 1 /\ \A i \in 1 .. Len(u) : u[i] = s[i + 1]
  BY <1>1, <1>2
<1>4. \A i \in 1 .. Len(u) : i + 1 \in 1 .. Len(s) /\ i + 1 # 1
  BY <1>2, <1>3
<1>5. \A i, j \in 1 .. Len(u) : u[i] = u[j] => i = j
  <2>1. \A i, j \in 1 .. Len(u) : u[i] = u[j] => i + 1 = j + 1
    BY <1>3, <1>4
  <2> QED BY <2>1
<1>6. ASSUME NEW q \in Key
      PROVE  q \in K \ {s[1]} <=> \E i \in 1 .. Len(u) : u[i] = q
  <2>1. ASSUME q \in K, q # s[1] PROVE \E i \in 1 .. Len(u) : u[i] = q
    <3>1. PICK i \in 1 .. Len(s) : s[i] = q
      BY <2>1
    <3>2. i - 1 \in 1 .. Len(u) /\ (i - 1) + 1 = i
      BY <1>2, <1>3, <2>1, <3>1
    <3> QED BY <1>3, <3>1, <3>2
  <2>2. ASSUME NEW i \in 1 .. Len(u), u[i] = q PROVE q \in K /\ q # s[1]
    <3>1. s[i + 1] = q /\ 1 \in 1 .. Len(s)
      BY <1>2, <1>3, <2>2
    <3> QED BY <1>4, <3>1
  <2> QED BY <2>1, <2>2
<1> QED BY <1>1, <1>2, <1>3, <1>5, <1>6

\* Counting the members of a set of places up to a place.
LEMMA Counting ==
    ASSUME NEW L \in Nat, NEW P \in SUBSET (1 .. L)
    PROVE  /\ IsFiniteSet(P) /\ Cardinality(P) \in Nat /\ Cardinality(P) <= L
           /\ \A i \in P : Cardinality({j \in P : j <= i}) \in 1 .. Cardinality(P)
           /\ \A i, h \in P : Cardinality({j \in P : j <= i}) = Cardinality({j \in P : j <= h}) => i = h
           /\ \A n \in 1 .. Cardinality(P) : \E i \in P : Cardinality({j \in P : j <= i}) = n
<1> DEFINE Upto(m) == {j \in P : j <= m}
<1>0. \A j \in P : j \in Nat /\ 1 <= j /\ j <= L
  OBVIOUS
<1>1. IsFiniteSet(1 .. L) /\ Cardinality(1 .. L) = L
  BY FS_Interval
<1>2. IsFiniteSet(P) /\ Cardinality(P) \in Nat /\ Cardinality(P) <= L
  BY <1>1, FS_Subset, FS_CardinalityType
<1>3. \A m \in Nat : IsFiniteSet(Upto(m)) /\ Cardinality(Upto(m)) \in Nat
                     /\ Cardinality(Upto(m)) <= Cardinality(P)
  <2>1. \A m \in Nat : Upto(m) \in SUBSET P
    OBVIOUS
  <2> HIDE DEF Upto
  <2> QED BY <1>2, <2>1, FS_Subset, FS_CardinalityType
<1>4. ASSUME NEW i \in P PROVE Cardinality(Upto(i)) \in 1 .. Cardinality(P)
  <2>1. i \in Nat /\ i \in Upto(i)
    OBVIOUS
  <2> HIDE DEF Upto
  <2>2. Cardinality(Upto(i)) # 0
    BY <1>3, <2>1, FS_EmptySet
  <2> QED BY <1>2, <1>3, <2>1, <2>2
<1>5. ASSUME NEW i \in P, NEW h \in P, i < h PROVE Cardinality(Upto(i)) # Cardinality(Upto(h))
  <2>1. Upto(i) \in SUBSET Upto(h) /\ h \in Upto(h) /\ h \notin Upto(i) /\ h \in Nat
    <3>1. i \in Nat /\ h \in Nat
      BY <1>0
    <3>2. \A j \in P : j <= i => j <= h
      BY <1>0, <1>5, <3>1
    <3>3. h <= h /\ ~(h <= i)
      BY <1>5, <3>1
    <3> QED BY <3>1, <3>2, <3>3
  <2> HIDE DEF Upto
  <2> QED BY <1>3, <2>1, FS_Subset
<1>6. ASSUME NEW n \in 1 .. Cardinality(P) PROVE \E i \in P : Cardinality(Upto(i)) = n
  <2> DEFINE S == {m \in Nat : Cardinality(Upto(m)) >= n}
  <2>1. L \in S
    <3>1. Upto(L) = P
      BY <1>0
    <3> HIDE DEF Upto
    <3> QED BY <1>2, <3>1
  <2>2. PICK m \in S : \A k \in S : m <= k
    BY <2>1, LeastOf
  <2>3. m \in Nat /\ Cardinality(Upto(m)) >= n
    OBVIOUS
  <2>4. m # 0
    <3>1. Upto(0) = {}
      <4>1. \A j \in P : ~(j <= 0)
        BY <1>0
      <4> QED BY <4>1
    <3> HIDE DEF Upto
    <3> QED BY <1>2, <2>3, <3>1, FS_EmptySet
  <2>5. m - 1 \in Nat /\ m - 1 \notin S
    <3> HIDE DEF S, Upto
    <3> QED BY <2>2, <2>3, <2>4
  <2>6. Cardinality(Upto(m - 1)) < n
    <3>1. Cardinality(Upto(m - 1)) \in Nat
      BY <1>3, <2>5
    <3>2. ~(Cardinality(Upto(m - 1)) >= n)
      BY <2>5
    <3> HIDE DEF Upto
    <3> QED BY <1>2, <3>1, <3>2
  <2>7. m \in P
    <3>1. m \notin P => Upto(m) = Upto(m - 1)
      <4>1. \A j \in P : j # m => (j <= m <=> j <= m - 1)
        BY <1>0, <2>3
      <4> QED BY <4>1
    <3> HIDE DEF Upto, S
    <3> QED BY <1>2, <1>3, <2>3, <2>5, <2>6, <3>1
  <2>8. Upto(m) = Upto(m - 1) \union {m} /\ m \notin Upto(m - 1)
    <3>1. \A j \in P : j # m => (j <= m <=> j <= m - 1)
      BY <1>0, <2>3
    <3>2. m <= m /\ ~(m <= m - 1)
      BY <2>3
    <3> QED BY <2>7, <3>1, <3>2
  <2>9. Cardinality(Upto(m)) = Cardinality(Upto(m - 1)) + 1
    <3> HIDE DEF Upto, S
    <3> QED BY <1>3, <2>5, <2>8, FS_AddElement
  <2>10. Cardinality(Upto(m)) = n
    <3> HIDE DEF Upto, S
    <3> QED BY <1>2, <1>3, <2>3, <2>5, <2>6, <2>9
  <2> QED BY <2>7, <2>10
<1>7. \A i, h \in P : Cardinality(Upto(i)) = Cardinality(Upto(h)) => i = h
  <2>1. \A i, h \in P : i < h \/ h < i \/ i = h
    OBVIOUS
  <2> HIDE DEF Upto
  <2> QED BY <1>5, <2>1
<1> QED BY <1>2, <1>4, <1>6, <1>7

\* What an eviction keeps is listed in the order it was listed in.
LEMMA WithoutLists ==
    ASSUME NEW K \in SUBSET Key, Lists(order, K), NEW c \in Cluster
    PROVE  Lists(without(c), {k \in K : k.cluster # c}) /\ Len(without(c)) <= Len(order)
<1> DEFINE kept == {i \in DOMAIN order : order[i].cluster # c}
           rank(i) == Cardinality({j \in kept : j <= i})
           place(n) == CHOOSE i \in kept : rank(i) = n
<1>1. order \in Seq(Key) /\ Len(order) \in Nat /\ DOMAIN order = 1 .. Len(order)
  BY DEF Lists
<1>2. kept \in SUBSET (1 .. Len(order))
  BY <1>1
<1>3. /\ Cardinality(kept) \in Nat /\ Cardinality(kept) <= Len(order)
      /\ \A i \in kept : rank(i) \in 1 .. Cardinality(kept)
      /\ \A i, h \in kept : rank(i) = rank(h) => i = h
      /\ \A n \in 1 .. Cardinality(kept) : \E i \in kept : rank(i) = n
  <2> HIDE DEF kept
  <2> QED BY <1>1, <1>2, Counting
<1>4. PICK N \in Nat : N = Cardinality(kept)
  BY <1>3
<1>5. without(c) = [n \in 1 .. N |-> order[place(n)]]
  BY <1>4 DEF without
<1>6. \A i \in kept : i \in 1 .. Len(order) /\ order[i] \in Key /\ order[i].cluster # c
  BY <1>1, <1>2
<1>7. \A i \in 1 .. Len(order) : order[i].cluster # c => i \in kept
  BY <1>1
<1> HIDE DEF kept, rank
<1>8. \A n \in 1 .. N : place(n) \in kept /\ rank(place(n)) = n
  BY <1>3, <1>4
<1>9. \A i \in kept : rank(i) \in 1 .. N /\ place(rank(i)) = i
  BY <1>3, <1>4, <1>8
<1> HIDE DEF place
<1>10. PICK u : u = without(c)
  OBVIOUS
<1>11. u \in Seq(Key) /\ Len(u) = N /\ \A n \in 1 .. N : u[n] = order[place(n)]
  BY <1>5, <1>6, <1>8, <1>10
<1>12. ASSUME NEW n \in 1 .. N, NEW m \in 1 .. N, u[n] = u[m] PROVE n = m
  <2>1. place(n) = place(m)
    BY <1>6, <1>8, <1>11, <1>12 DEF Lists
  <2> QED BY <1>8, <2>1
<1>13. ASSUME NEW k \in Key
       PROVE  k \in K /\ k.cluster # c <=> \E n \in 1 .. N : u[n] = k
  <2>1. ASSUME k \in K, k.cluster # c PROVE \E n \in 1 .. N : u[n] = k
    <3>1. PICK i \in 1 .. Len(order) : order[i] = k
      BY <2>1 DEF Lists
    <3>2. i \in kept
      BY <1>7, <2>1, <3>1
    <3> QED BY <1>9, <1>11, <3>1, <3>2
  <2>2. ASSUME NEW n \in 1 .. N, u[n] = k PROVE k \in K /\ k.cluster # c
    BY <1>6, <1>8, <1>11, <2>2 DEF Lists
  <2> QED BY <2>1, <2>2
<1> QED BY <1>3, <1>4, <1>10, <1>11, <1>12, <1>13 DEF Lists

\* Storing lists the key once and makes room by dropping the oldest.
LEMMA StoreLists ==
    ASSUME CacheInv, OrderInv, NEW f \in FlightKey, Store(f)
    PROVE  OrderInv'
<1> USE DEF OrderInv
<1>1. PICK k \in Key : k = flights[f].key
  BY DEF CacheInv, FlightsGood, Running, Store, Flight
<1>2. PICK kept : kept = placed(k)
  OBVIOUS
<1>3. Cached \in SUBSET Key /\ Len(order) \in Nat /\ MaxEntries \in Nat /\ MaxEntries > 0
  BY CacheAssumption DEF Cached, Lists
<1>4. CASE UNCHANGED <<entries, order>>
  BY <1>4 DEF Cached, Lists
<1>5. CASE /\ order' = IF Len(kept) > MaxEntries THEN Tail(kept) ELSE kept
           /\ entries' = [j \in Key |->
                IF Len(kept) > MaxEntries /\ j = Head(kept) THEN NoEntry
                ELSE IF j = k THEN [status |-> "fresh", value |-> flights[f].value]
                ELSE entries[j]]
  <2>1. /\ Lists(kept, Cached \union {k}) /\ Len(kept) \in Nat
        /\ Len(kept) > MaxEntries => Len(kept) = MaxEntries + 1 /\ kept[1] # k
    <3>1. CASE k \in Cached
      <4>1. kept = order /\ Cached \union {k} = Cached
        BY <1>2, <3>1 DEF placed, Cached
      <4>2. Len(kept) \in Nat /\ ~(Len(kept) > MaxEntries)
        BY <1>3, <4>1
      <4>3. Lists(kept, Cached \union {k})
        BY <4>1
      <4> QED BY <4>2, <4>3
    <3>2. CASE k \notin Cached
      <4>1. kept = Append(order, k)
        BY <1>2, <3>2 DEF placed, Cached
      <4>2. Lists(kept, Cached \union {k}) /\ Len(kept) = Len(order) + 1 /\ kept[Len(order) + 1] = k
        BY <1>3, <3>2, <4>1, AppendLists
      <4>3. Len(kept) > MaxEntries => kept[1] # k
        <5>1. SUFFICES ASSUME Len(kept) > MaxEntries, kept[1] = k PROVE FALSE
          OBVIOUS
        <5>2. Len(order) + 1 \in 1 .. Len(kept) /\ 1 \in 1 .. Len(kept) /\ Len(order) + 1 # 1
          BY <1>3, <4>2, <5>1
        <5> QED BY <4>2, <5>1, <5>2 DEF Lists
      <4> QED BY <1>3, <4>2, <4>3
    <3> QED BY <3>1, <3>2
  <2>2. CASE ~(Len(kept) > MaxEntries)
    <3>1. Cached' = Cached \union {k}
      BY <1>5, <2>2 DEF Cached
    <3> QED BY <1>3, <1>5, <2>1, <2>2, <3>1 DEF Lists
  <2>3. CASE Len(kept) > MaxEntries
    <3>1. Cached \union {k} \in SUBSET Key
      BY <1>3
    <3>2. /\ Lists(Tail(kept), (Cached \union {k}) \ {Head(kept)}) /\ Len(Tail(kept)) = MaxEntries
          /\ Head(kept) = kept[1] /\ Head(kept) \in Key
      <4>1. PICK K \in SUBSET Key : K = Cached \union {k}
        BY <3>1
      <4>2. Lists(kept, K) /\ Len(kept) > 0 /\ Len(kept) = MaxEntries + 1
        BY <1>3, <2>1, <2>3, <4>1
      <4>3. /\ Lists(Tail(kept), K \ {Head(kept)}) /\ Len(Tail(kept)) = Len(kept) - 1
            /\ Head(kept) = kept[1] /\ Head(kept) \in Key
        BY <4>2, TailLists
      <4>4. Len(Tail(kept)) = MaxEntries
        BY <1>3, <4>2, <4>3
      <4> QED BY <4>1, <4>3, <4>4
    <3>3. Cached' = (Cached \union {k}) \ {Head(kept)}
      BY <1>5, <2>1, <2>3, <3>2 DEF Cached, NoEntry
    <3>4. order' = Tail(kept)
      BY <1>5, <2>3
    <3> QED BY <1>3, <3>2, <3>3, <3>4 DEF Lists
  <2> QED BY <2>2, <2>3
<1> QED BY <1>1, <1>2, <1>4, <1>5 DEF Store

\* The order and the entries go together through evictions and expiries.
LEMMA OrderInvInductive == CacheInv /\ OrderInv /\ [Next]_vars => OrderInv'
<1> SUFFICES ASSUME CacheInv, OrderInv, [Next]_vars PROVE OrderInv'
  OBVIOUS
<1>1. ASSUME UNCHANGED <<entries, order>> PROVE OrderInv'
  BY <1>1 DEF OrderInv, Lists, Cached
<1>2. ASSUME NEW c \in Cluster, EvictCluster(c) PROVE OrderInv'
  <2>1. Cached \in SUBSET Key
    BY DEF Cached
  <2>2. Lists(without(c), {k \in Cached : k.cluster # c}) /\ Len(without(c)) <= Len(order)
    BY <2>1, WithoutLists DEF OrderInv
  <2>3. Cached' = {k \in Cached : k.cluster # c}
    BY <1>2 DEF EvictCluster, Cached, NoEntry
  <2>4. order' = without(c) /\ Len(without(c)) \in Nat /\ Len(order) \in Nat /\ MaxEntries \in Nat
    BY <1>2, <2>2, CacheAssumption DEF EvictCluster, Lists, OrderInv
  <2>5. Len(order') <= MaxEntries
    BY <2>2, <2>4 DEF OrderInv
  <2> QED BY <2>2, <2>3, <2>4, <2>5 DEF OrderInv, Lists
<1>3. ASSUME NEW k \in Key, Expire(k) PROVE OrderInv'
  <2>1. order' = order /\ entries' = [entries EXCEPT ![k].status = "expired"]
        /\ entries[k] \in Entry /\ entries \in [Key -> Entry \union {NoEntry}]
    BY <1>3 DEF Expire, Hit, NoEntry, CacheInv, CacheType
  <2>2. entries'[k].status = "expired" /\ entries[k].status # "absent"
        /\ \A j \in Key : j # k => entries'[j] = entries[j]
    BY <2>1 DEF Entry
  <2>3. Cached' = Cached
    BY <2>2 DEF Cached
  <2> QED BY <2>1, <2>3 DEF OrderInv, Lists
<1>4. ASSUME NEW g \in Getter, Start(g) \/ GetStep(g) \/ EndContext(g) PROVE UNCHANGED <<entries, order>>
  BY <1>4 DEF Start, GetStep, Cancel, EndContext, Lookup, ReadGeneration, Join, cacheVars
<1>5. ASSUME NEW f \in FlightKey, FlightStep(f) PROVE OrderInv'
  <2>1. FlightLookup(f) \/ Fetch(f) \/ FetchFails(f) \/ Return(f) => UNCHANGED <<entries, order>>
    BY DEF FlightLookup, Fetch, FetchFails, Return, cacheVars
  <2> QED BY <1>1, <1>5, <2>1, StoreLists DEF FlightStep
<1>6. ASSUME NEW c \in Cluster, Write(c) PROVE UNCHANGED <<entries, order>>
  BY <1>6 DEF Write, cacheVars
<1>7. UNCHANGED vars => UNCHANGED <<entries, order>>
  BY DEF vars
<1> QED BY <1>1, <1>2, <1>3, <1>4, <1>5, <1>6, <1>7 DEF Next

\* The order lists each cached key once and never more than maxEntries, so the
\* cache is as small as the slice that bounds it, for any size, any number of
\* identities and evictions (store, EvictCluster).
THEOREM SizeBounded == Spec => []Bounded
<1>1. Init => OrderInv
  BY CacheAssumption DEF Init, OrderInv, Lists, Cached, NoEntry
<1>2. OrderInv => Bounded
  <2>1. Cached \in SUBSET Key
    BY DEF Cached
  <2> QED BY <2>1 DEF OrderInv, Lists, Cached, Bounded
<1> QED BY <1>1, <1>2, InitCacheInv, CacheInvInductive, OrderInvInductive, PTL DEF Spec
=============================================================================
