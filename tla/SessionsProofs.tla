--------------------------- MODULE SessionsProofs ---------------------------
(***************************************************************************)
(* Proofs about Sessions, and about BrowserSession around it, for any      *)
(* number of tokens and refresh requests, any lifetimes and any grace      *)
(* period.                                                                 *)
(***************************************************************************)
EXTENDS BrowserSession, FiniteSetTheorems, TLAPS

-----------------------------------------------------------------------------
(* The inductive invariant *)

\* A refresh token is in one place: in the store, in the hands of one refresh
\* request, or spent; and only a token that is spent has a successor.
InOnePlace ==
    \A t \in Token :
        /\ Stored(t) => \A r \in Request : ~Holds(r, t)
        /\ \A r, q \in Request : Holds(r, t) /\ Holds(q, t) => r = q
        /\ Stored(t) \/ (\E r \in Request : Holds(r, t)) =>
              fate[t] # "unissued" /\ successors[t] = {}
        /\ fate[t] = "unissued" => successors[t] = {}

AtMostOne == \A t \in Token : \A a, b \in successors[t] : a = b

\* A live token is in the store or in somebody's hands.
LiveIsKept == \A t \in Token : fate[t] = "live" => Stored(t) \/ \E r \in Request : Holds(r, t)

\* An LDAP session's revalidation time is the time its identity was confirmed,
\* in the store, while a refresh holds it, and in what the refresh mints.
Dated(session, t) ==
    session.provider = "ldap" => session.revalidated = identity[t].proven /\ Age(t) <= Grace

StampsTrue ==
    /\ \A t \in Token : Stored(t) => Dated(sessions[t], t)
    /\ \A r \in Request : InFlight(r) => Dated(refresh[r].session, refresh[r].token)
    /\ \A r \in Request : refresh[r].at = "mint" /\ refresh[r].session.provider = "ldap" =>
          /\ refresh[r].stamp = refresh[r].proven
          /\ refresh[r].used - refresh[r].proven <= Grace

SessionInv == TypeOK /\ InOnePlace /\ AtMostOne /\ LiveIsKept /\ StampsTrue

\* A request in flight holds a session and a token.
LEMMA InFlightType ==
    ASSUME TypeOK, NEW r \in Request, InFlight(r)
    PROVE  /\ refresh[r] \in Refreshing
           /\ refresh[r].token \in Token /\ refresh[r].session \in Session
           /\ Holds(r, refresh[r].token)
  BY DEF TypeOK, InFlight, Holds, Refreshing, NoRequest

\* A stored session has the fields of a session.
LEMMA StoredType ==
    ASSUME TypeOK, NEW t \in Token, Stored(t)
    PROVE  sessions[t] \in Session
  BY DEF TypeOK, Stored

-----------------------------------------------------------------------------
(* Logging in *)

\* A login puts a token nobody has seen in the store.
LEMMA LoginGood ==
    ASSUME SessionInv, NEW t \in Token, Login(t)
    PROVE  SessionInv'
<1> USE DEF SessionInv
<1>1. PICK p \in Provider : Issue(t, p, clock, clock, clock)
  BY DEF Login
<1> DEFINE s == [provider |-> p, expires |-> clock + Lifetime[p], revalidated |-> clock]
           id == [proven |-> clock, used |-> clock]
<1>2. clock \in Time /\ clock \in Nat /\ Lifetime[p] \in Nat /\ Grace \in Nat
  BY SessionsAssumption DEF TypeOK, Time
<1>3. s \in Session /\ s.revalidated = clock /\ id \in [proven : Time, used : Time]
      /\ id.proven = clock /\ id.used = clock
  BY <1>2 DEF Session
<1>4. s # NoSession
  BY SessionsAssumption DEF NoSession
<1>5. /\ sessions' = [sessions EXCEPT ![t] = s] /\ identity' = [identity EXCEPT ![t] = id]
      /\ fate' = [fate EXCEPT ![t] = "live"] /\ fate[t] = "unissued"
      /\ UNCHANGED <<clock, refresh, successors>>
  BY <1>1 DEF Login, Issue
<1> HIDE DEF s, id
<1>6. \A u \in Token : /\ sessions'[u] = IF u = t THEN s ELSE sessions[u]
                       /\ identity'[u] = IF u = t THEN id ELSE identity[u]
                       /\ fate'[u] = IF u = t THEN "live" ELSE fate[u]
  BY <1>5 DEF TypeOK
<1>7. TypeOK'
  BY <1>3, <1>5 DEF TypeOK, Fate
<1>8. ~Stored(t) /\ \A r \in Request : ~Holds(r, t)
  BY <1>5 DEF InOnePlace
<1>9. \A u \in Token : /\ Stored(u)' <=> (u = t \/ Stored(u))
                       /\ \A r \in Request : Holds(r, u)' <=> Holds(r, u)
  BY <1>4, <1>5, <1>6 DEF Stored, Holds, InFlight
<1>10. InOnePlace' /\ AtMostOne' /\ LiveIsKept'
  BY <1>5, <1>6, <1>8, <1>9 DEF InOnePlace, AtMostOne, LiveIsKept
<1>11. \A r \in Request : InFlight(r) => refresh[r].token \in Token /\ refresh[r].token # t
  BY <1>8, InFlightType
<1>12. ASSUME NEW u \in Token, Stored(u)' PROVE Dated(sessions[u], u)'
  <2>1. CASE u = t
    BY <1>2, <1>3, <1>6, <2>1 DEF Dated, Age
  <2>2. CASE u # t
    BY <1>6, <1>9, <1>12, <2>2 DEF Dated, Age, StampsTrue
  <2> QED BY <2>1, <2>2
<1>13. ASSUME NEW r \in Request, InFlight(r)' PROVE Dated(refresh[r].session, refresh[r].token)'
  BY <1>5, <1>6, <1>11, <1>13 DEF Dated, Age, StampsTrue, InFlight
<1>14. StampsTrue'
  BY <1>5, <1>12, <1>13 DEF StampsTrue
<1> QED BY <1>7, <1>10, <1>14

-----------------------------------------------------------------------------
(* Refreshing *)

\* LoadAndDelete moves the session from the store to the one request that found it.
LEMMA RotateGood ==
    ASSUME SessionInv, NEW r \in Request, NEW t \in Token, Rotate(r, t)
    PROVE  SessionInv'
<1> USE DEF SessionInv
<1> DEFINE q == [at |-> "resolve", token |-> t, session |-> sessions[t],
                 stamp |-> 0, proven |-> 0, used |-> clock]
<1>1. sessions[t] \in Session /\ clock \in Time /\ 0 \in Time
  BY StoredType, SessionsAssumption DEF Rotate, TypeOK, Time
<1>2. q \in Refreshing /\ q.at = "resolve" /\ q.token = t /\ q.session = sessions[t]
  BY <1>1 DEF Refreshing
<1>3. /\ sessions' = [sessions EXCEPT ![t] = NoSession] /\ refresh' = [refresh EXCEPT ![r] = q]
      /\ Stored(t) /\ ~InFlight(r)
      /\ UNCHANGED <<clock, fate, successors, identity>>
  BY DEF Rotate, InFlight
<1> HIDE DEF q
<1>4. /\ \A u \in Token : sessions'[u] = IF u = t THEN NoSession ELSE sessions[u]
      /\ \A o \in Request : refresh'[o] = IF o = r THEN q ELSE refresh[o]
  BY <1>3 DEF TypeOK
<1>5. TypeOK'
  BY <1>2, <1>3 DEF TypeOK
<1>6. \A u \in Token :
        /\ Stored(u)' <=> u # t /\ Stored(u)
        /\ \A o \in Request : Holds(o, u)' <=> (o = r /\ u = t) \/ Holds(o, u)
  BY <1>2, <1>3, <1>4 DEF Stored, Holds, InFlight
<1>7. InOnePlace' /\ AtMostOne' /\ LiveIsKept'
  BY <1>3, <1>6 DEF InOnePlace, AtMostOne, LiveIsKept
<1>8. \A u \in Token : \A x : Dated(x, u) <=> Dated(x, u)'
  BY <1>3 DEF Dated, Age
<1>9. ASSUME NEW o \in Request, InFlight(o)' PROVE Dated(refresh[o].session, refresh[o].token)'
  <2>1. CASE o = r
    BY <1>2, <1>3, <1>4, <2>1 DEF StampsTrue, Dated, Age
  <2>2. CASE o # r
    BY <1>3, <1>4, <1>9, <2>2 DEF StampsTrue, Dated, Age, InFlight
  <2> QED BY <2>1, <2>2
<1>10. StampsTrue'
  BY <1>2, <1>4, <1>6, <1>8, <1>9 DEF StampsTrue
<1> QED BY <1>5, <1>7, <1>10

\* A step that takes sessions out of the store, holds nothing more and changes
\* the fate of issued tokens only: a token that stays live stays where it is.
LEMMA DropGood ==
    ASSUME SessionInv, TypeOK',
           UNCHANGED <<successors, identity>>,
           \A r \in Request : refresh'[r] = refresh[r] \/ (~InFlight(r) /\ refresh'[r] = [at |-> "done"]),
           \A t \in Token : sessions'[t] = sessions[t] \/ sessions'[t] = NoSession,
           \A t \in Token : fate'[t] = "unissued" <=> fate[t] = "unissued",
           \A t \in Token : fate'[t] = "live" => fate[t] = "live" /\ (sessions'[t] = sessions[t] \/ ~Stored(t))
    PROVE  SessionInv'
<1> USE DEF SessionInv
<1>1. \A t \in Token : /\ Stored(t)' => Stored(t) /\ sessions'[t] = sessions[t]
                       /\ \A r \in Request : Holds(r, t)' <=> Holds(r, t)
  BY DEF Stored, Holds, InFlight
<1>2. InOnePlace' /\ AtMostOne'
  BY <1>1 DEF InOnePlace, AtMostOne
<1>3. LiveIsKept'
  BY <1>1 DEF LiveIsKept, Stored
<1>4. \A r \in Request : refresh'[r].at \in {"resolve", "mint"} => refresh'[r] = refresh[r]
  OBVIOUS
<1>5. StampsTrue'
  BY <1>1, <1>4 DEF StampsTrue, Dated, Age, InFlight
<1> QED BY <1>2, <1>3, <1>5

\* A request in flight goes on under the same token and session.
LEMMA ResolvedGood ==
    ASSUME SessionInv, NEW r \in Request, NEW stamp \in Time, NEW proven \in Time, NEW used \in Time,
           Resolved(r, stamp, proven, used), refresh[r].at = "resolve",
           refresh[r].session.provider = "ldap" => stamp = proven /\ used - proven <= Grace
    PROVE  SessionInv'
<1> USE DEF SessionInv
<1> DEFINE q == [refresh[r] EXCEPT !.at = "mint", !.stamp = stamp, !.proven = proven, !.used = used]
<1>1. refresh[r] \in Refreshing /\ InFlight(r)
  BY InFlightType DEF InFlight
<1>2. q \in Refreshing /\ q.at = "mint" /\ q.token = refresh[r].token /\ q.session = refresh[r].session
      /\ q.stamp = stamp /\ q.proven = proven /\ q.used = used
  BY <1>1 DEF Refreshing
<1>3. refresh' = [refresh EXCEPT ![r] = q] /\ UNCHANGED <<clock, sessions, fate, successors, identity>>
  BY <1>1 DEF Resolved, TypeOK
<1> HIDE DEF q
<1>4. \A o \in Request : refresh'[o] = IF o = r THEN q ELSE refresh[o]
  BY <1>3 DEF TypeOK
<1>5. TypeOK'
  BY <1>2, <1>3 DEF TypeOK
<1>6. \A u \in Token : /\ Stored(u)' <=> Stored(u)
                       /\ \A o \in Request : Holds(o, u)' <=> Holds(o, u)
  BY <1>1, <1>2, <1>3, <1>4 DEF Stored, Holds, InFlight
<1>7. InOnePlace' /\ AtMostOne' /\ LiveIsKept'
  BY <1>3, <1>6 DEF InOnePlace, AtMostOne, LiveIsKept
<1>8. StampsTrue'
  BY <1>1, <1>2, <1>3, <1>4, <1>6 DEF StampsTrue, Dated, Age, InFlight
<1> QED BY <1>5, <1>7, <1>8

\* A request gives the session up: its token is put back, or is no longer live.
LEMMA GiveUpGood ==
    ASSUME SessionInv, NEW r \in Request, InFlight(r), NEW back \in BOOLEAN,
           refresh' = [refresh EXCEPT ![r] = [at |-> "done"]],
           sessions' = IF back THEN [sessions EXCEPT ![refresh[r].token] = refresh[r].session] ELSE sessions,
           fate' = IF back THEN fate
                   ELSE [fate EXCEPT ![refresh[r].token] = IF @ = "live" THEN "rejected" ELSE @],
           UNCHANGED <<clock, successors, identity>>
    PROVE  SessionInv'
<1> USE DEF SessionInv
<1> DEFINE t == refresh[r].token
<1>1. t \in Token /\ refresh[r].session \in Session /\ Holds(r, t)
  BY InFlightType
<1>2. /\ \A o \in Request : refresh'[o] = IF o = r THEN [at |-> "done"] ELSE refresh[o]
      /\ \A u \in Token : sessions'[u] = IF back /\ u = t THEN refresh[r].session ELSE sessions[u]
      /\ \A u \in Token : fate'[u] = IF ~back /\ u = t /\ fate[t] = "live" THEN "rejected" ELSE fate[u]
  BY <1>1 DEF TypeOK
<1>3. TypeOK'
  BY <1>1 DEF TypeOK, Fate
<1>4. refresh[r].session # NoSession
  BY <1>1, SessionsAssumption DEF Session, NoSession
<1>5. ~Stored(t) /\ fate[t] # "unissued" /\ successors[t] = {}
      /\ \A o \in Request : Holds(o, t) => o = r
  BY <1>1 DEF InOnePlace
<1>6. \A u \in Token : /\ Stored(u)' <=> Stored(u) \/ (back /\ u = t)
                       /\ \A o \in Request : Holds(o, u)' <=> o # r /\ Holds(o, u)
  BY <1>2, <1>4 DEF Stored, Holds, InFlight
<1>7. \A u \in Token : Holds(r, u) => u = t
  BY DEF Holds
<1>8. InOnePlace' /\ AtMostOne'
  BY <1>2, <1>5, <1>6, <1>7 DEF InOnePlace, AtMostOne
<1>9. ASSUME NEW u \in Token, fate'[u] = "live" PROVE Stored(u)' \/ \E o \in Request : Holds(o, u)'
  <2>1. CASE u = t
    BY <1>2, <1>6, <1>9, <2>1
  <2>2. CASE u # t
    BY <1>2, <1>6, <1>7, <1>9, <2>2 DEF LiveIsKept
  <2> QED BY <2>1, <2>2
<1>10. LiveIsKept'
  BY <1>9 DEF LiveIsKept
<1>11. Dated(refresh[r].session, t)
  BY DEF StampsTrue
<1>12. \A u \in Token : Stored(u)' => Dated(sessions[u], u)'
  BY <1>1, <1>2, <1>6, <1>11 DEF StampsTrue, Dated, Age
<1>13. StampsTrue'
  BY <1>2, <1>12 DEF StampsTrue, Dated, Age, InFlight
<1> QED BY <1>3, <1>8, <1>10, <1>13

\* Minting spends the token in hand, which has no successor yet, and puts the
\* successor, a token nobody has seen, in the store.
LEMMA MintGood ==
    ASSUME SessionInv, NEW r \in Request, NEW t \in Token, Mint(r, t)
    PROVE  SessionInv'
<1> USE DEF SessionInv
<1> DEFINE old == refresh[r].token
           p == refresh[r].session.provider
           s == [provider |-> p, expires |-> clock + Lifetime[p], revalidated |-> refresh[r].stamp]
           id == [proven |-> refresh[r].proven, used |-> refresh[r].used]
<1>1. refresh[r] \in Refreshing /\ old \in Token /\ Holds(r, old) /\ InFlight(r) /\ refresh[r].at = "mint"
      /\ refresh[r].session \in Session
  BY InFlightType DEF Mint, InFlight
<1>2. p \in Provider /\ refresh[r].stamp \in Time /\ refresh[r].proven \in Time /\ refresh[r].used \in Time
  BY <1>1 DEF Refreshing, Session
<1>3. clock + Lifetime[p] \in Nat
  <2>1. clock \in Nat
    BY SessionsAssumption DEF TypeOK, Time
  <2>2. Lifetime[p] \in Nat
    BY <1>2, SessionsAssumption
  <2> QED BY <2>1, <2>2
<1>4. s \in Session /\ s.provider = p /\ s.revalidated = refresh[r].stamp
      /\ id \in [proven : Time, used : Time] /\ id.proven = refresh[r].proven /\ id.used = refresh[r].used
  BY <1>2, <1>3 DEF Session
<1>5. s # NoSession
  BY <1>2, <1>4, SessionsAssumption DEF NoSession
<1>6. fate[t] = "unissued" /\ t # old /\ ~Stored(t) /\ (\A o \in Request : ~Holds(o, t)) /\ successors[t] = {}
      /\ fate[old] # "unissued"
  BY <1>1 DEF Mint, Issue, InOnePlace
<1>7. /\ sessions' = [sessions EXCEPT ![t] = s] /\ identity' = [identity EXCEPT ![t] = id]
      /\ fate' = [fate EXCEPT ![t] = "live", ![old] = IF @ = "live" THEN "rotated" ELSE @]
      /\ successors' = [successors EXCEPT ![old] = @ \union {t}]
      /\ refresh' = [refresh EXCEPT ![r] = [at |-> "done"]] /\ UNCHANGED clock
  BY DEF Mint, Issue
<1> HIDE DEF s, id
<1>8. /\ \A u \in Token : sessions'[u] = IF u = t THEN s ELSE sessions[u]
      /\ \A u \in Token : identity'[u] = IF u = t THEN id ELSE identity[u]
      /\ \A u \in Token : u # old => fate'[u] = IF u = t THEN "live" ELSE fate[u]
      /\ fate'[old] # "unissued" /\ fate'[old] # "live"
      /\ \A u \in Token : successors'[u] = IF u = old THEN successors[u] \union {t} ELSE successors[u]
      /\ \A o \in Request : refresh'[o] = IF o = r THEN [at |-> "done"] ELSE refresh[o]
  BY <1>1, <1>6, <1>7 DEF TypeOK
<1>9. TypeOK'
  BY <1>4, <1>7 DEF TypeOK, Fate
<1>10. ~Stored(old) /\ successors[old] = {} /\ \A o \in Request : Holds(o, old) => o = r
  BY <1>1 DEF InOnePlace
<1>11. \A u \in Token : /\ Stored(u)' <=> u = t \/ Stored(u)
                        /\ \A o \in Request : Holds(o, u)' <=> o # r /\ Holds(o, u)
  BY <1>5, <1>8 DEF Stored, Holds, InFlight
<1>12. \A u \in Token : Holds(r, u) => u = old
  BY DEF Holds
<1>13. ASSUME NEW u \in Token
       PROVE  /\ Stored(u)' => \A o \in Request : ~Holds(o, u)'
              /\ \A o, q \in Request : Holds(o, u)' /\ Holds(q, u)' => o = q
              /\ Stored(u)' \/ (\E o \in Request : Holds(o, u)') =>
                    fate'[u] # "unissued" /\ successors'[u] = {}
              /\ fate'[u] = "unissued" => successors'[u] = {}
  <2>1. CASE u = old
    BY <1>6, <1>8, <1>10, <1>11, <2>1
  <2>2. CASE u = t
    BY <1>6, <1>8, <1>11, <2>2
  <2>3. CASE u # old /\ u # t
    BY <1>8, <1>11, <2>3 DEF InOnePlace
  <2> QED BY <2>1, <2>2, <2>3
<1>14. InOnePlace'
  BY <1>13 DEF InOnePlace
<1>15. AtMostOne'
  <2>1. \A u \in Token : u # old => successors'[u] = successors[u]
    BY <1>8
  <2>2. successors'[old] = {t}
    BY <1>1, <1>8, <1>10
  <2> QED BY <2>1, <2>2 DEF AtMostOne
<1>16. ASSUME NEW u \in Token, fate'[u] = "live" PROVE Stored(u)' \/ \E o \in Request : Holds(o, u)'
  BY <1>8, <1>11, <1>12, <1>16 DEF LiveIsKept
<1>17. LiveIsKept'
  BY <1>16 DEF LiveIsKept
<1>18. ASSUME NEW u \in Token, Stored(u)' PROVE Dated(sessions[u], u)'
  <2>1. CASE u = t
    BY <1>1, <1>4, <1>8, <2>1 DEF Dated, Age, StampsTrue
  <2>2. CASE u # t
    BY <1>8, <1>11, <1>18, <2>2 DEF Dated, Age, StampsTrue
  <2> QED BY <2>1, <2>2
<1>19. ASSUME NEW o \in Request, InFlight(o)'
       PROVE  refresh'[o] = refresh[o] /\ Dated(refresh[o].session, refresh[o].token)'
  <2>1. o # r /\ refresh'[o] = refresh[o] /\ InFlight(o)
    BY <1>8, <1>19 DEF InFlight
  <2>2. refresh[o].token \in Token /\ refresh[o].token # t
    BY <1>6, <2>1, InFlightType
  <2> QED BY <1>8, <2>1, <2>2 DEF Dated, Age, StampsTrue
<1>20. StampsTrue'
  BY <1>18, <1>19 DEF StampsTrue, InFlight
<1> QED BY <1>9, <1>14, <1>15, <1>17, <1>20

-----------------------------------------------------------------------------
(* The theorems *)

\* Every step of a login, a refresh, a logout, the cleanup and the clock keeps
\* the invariant.
LEMMA SessionInvInductive == SessionInv /\ [Next]_vars => SessionInv'
<1> SUFFICES ASSUME SessionInv, [Next]_vars PROVE SessionInv'
  OBVIOUS
<1>0. TypeOK /\ clock \in Time /\ clock \in Nat /\ MaxTime \in Nat /\ Grace \in Nat
  BY SessionsAssumption DEF SessionInv, TypeOK, Time
<1>1. ASSUME NEW r \in Request, NEW t \in Token, RotateExpired(r, t) PROVE SessionInv'
  <2>1. TypeOK'
    BY <1>0, <1>1 DEF TypeOK, RotateExpired, Fate
  <2> QED BY <1>0, <1>1, <2>1, DropGood DEF RotateExpired, InFlight, TypeOK
<1>2. ASSUME NEW r \in Request, NEW t \in Token, RotateMissing(r, t) PROVE SessionInv'
  <2>1. TypeOK'
    BY <1>0, <1>2 DEF TypeOK, RotateMissing
  <2> QED BY <1>0, <1>2, <2>1, DropGood DEF RotateMissing, InFlight, TypeOK
<1>3. ASSUME NEW t \in Token, Logout(t) PROVE SessionInv'
  <2>1. TypeOK'
    BY <1>0, <1>3 DEF TypeOK, Logout, Fate
  <2> QED BY <1>0, <1>3, <2>1, DropGood DEF Logout, TypeOK
<1>4. CASE Cleanup
  <2>1. TypeOK'
    BY <1>0, <1>4 DEF TypeOK, Cleanup, Fate
  <2> QED BY <1>0, <1>4, <2>1, DropGood DEF Cleanup, TypeOK
<1>5. CASE Tick
  <2>1. TypeOK'
    BY <1>0, <1>5 DEF TypeOK, Tick, Time
  <2> QED BY <1>5, <2>1, DropGood DEF Tick
<1>6. ASSUME NEW r \in Request, ResolveCached(r) PROVE SessionInv'
  <2>1. refresh[r] \in Refreshing /\ refresh[r].token \in Token /\ refresh[r].session.provider = "oidc"
    BY <1>0, <1>6, InFlightType DEF ResolveCached, Resolving, InFlight
  <2>2. refresh[r].used \in Time /\ identity[refresh[r].token].proven \in Time
    BY <1>0, <2>1 DEF Refreshing, TypeOK
  <2> QED BY <1>0, <1>6, <2>1, <2>2, ResolvedGood DEF ResolveCached, Resolving
<1>7. ASSUME NEW r \in Request, ResolveFresh(r) PROVE SessionInv'
  BY <1>0, <1>7, ResolvedGood DEF ResolveFresh, Resolving
<1>8. ASSUME NEW r \in Request, ResolveGrace(r) PROVE SessionInv'
  <2>1. refresh[r] \in Refreshing /\ refresh[r].token \in Token /\ refresh[r].session \in Session
        /\ InFlight(r) /\ refresh[r].session.provider = "ldap"
    BY <1>0, <1>8, InFlightType DEF ResolveGrace, Resolving, InFlight
  <2>2. refresh[r].session.revalidated = identity[refresh[r].token].proven
    BY <2>1 DEF SessionInv, StampsTrue, Dated
  <2>3. refresh[r].session.revalidated \in Time
    BY <2>1 DEF Session
  <2> QED BY <1>0, <1>8, <2>2, <2>3, ResolvedGood DEF ResolveGrace, Resolving, WithinGrace
<1>9. ASSUME NEW r \in Request, ResolveRejected(r) PROVE SessionInv'
  BY <1>9, GiveUpGood DEF ResolveRejected, Resolving, InFlight
<1>10. ASSUME NEW r \in Request, ResolveUnreachable(r) \/ MintFails(r) PROVE SessionInv'
  BY <1>10, GiveUpGood DEF ResolveUnreachable, MintFails, Restore, Resolving, InFlight
<1>11. CASE UNCHANGED vars
  BY <1>0, <1>11, DropGood DEF vars, TypeOK, Time
<1> QED
  BY <1>1, <1>2, <1>3, <1>4, <1>5, <1>6, <1>7, <1>8, <1>9, <1>10, <1>11,
     LoginGood, RotateGood, MintGood DEF Next

\* The invariant holds of the empty store.
LEMMA InitSessionInv == Init => SessionInv
<1> SUFFICES ASSUME Init PROVE SessionInv
  OBVIOUS
<1>1. TypeOK
  BY SessionsAssumption DEF Init, TypeOK, Time, Fate
<1>2. \A t \in Token : ~Stored(t) /\ \A r \in Request : ~InFlight(r)
  BY DEF Init, Stored, InFlight, NoRequest
<1>3. InOnePlace /\ AtMostOne /\ LiveIsKept
  BY <1>2 DEF Init, InOnePlace, AtMostOne, LiveIsKept, Holds
<1>4. StampsTrue
  BY <1>2 DEF Init, StampsTrue, InFlight, NoRequest
<1> QED BY <1>1, <1>3, <1>4 DEF SessionInv

\* The store, the requests and the ground truth keep their types.
THEOREM SessionsTyped == Spec => []TypeOK
<1>1. SessionInv => TypeOK
  BY DEF SessionInv
<1> QED BY <1>1, InitSessionInv, SessionInvInductive, PTL DEF Spec

\* "Two concurrent refreshers can never both mint a successor pair", whatever is
\* restored, retried or logged out between them.
THEOREM SuccessorUnique == Spec => []OneSuccessor
<1>1. ASSUME SessionInv, NEW t \in Token PROVE Cardinality(successors[t]) <= 1
  <2>1. CASE successors[t] = {}
    BY <2>1, FS_EmptySet
  <2>2. CASE successors[t] # {}
    <3>1. PICK a : successors[t] = {a}
      BY <1>1, <2>2 DEF SessionInv, AtMostOne
    <3> QED BY <3>1, FS_Singleton
  <2> QED BY <2>1, <2>2
<1>2. SessionInv => OneSuccessor
  BY <1>1 DEF OneSuccessor
<1> QED BY <1>2, InitSessionInv, SessionInvInductive, PTL DEF Spec

\* A failed refresh costs nobody the session: a token that was not rotated,
\* logged out, rejected or expired can be refreshed again.
THEOREM LiveUsable == Spec => []StillUsable
<1>1. SessionInv => StillUsable
  BY DEF SessionInv, LiveIsKept, StillUsable
<1> QED BY <1>1, InitSessionInv, SessionInvInductive, PTL DEF Spec

\* "a sustained outage cannot indefinitely extend access", for any lifetimes,
\* grace period and number of refreshes during the outage.
THEOREM GraceHolds == Spec => []GraceBounded
<1>1. SessionInv => GraceBounded
  BY DEF SessionInv, StampsTrue, Dated, GraceBounded
<1> QED BY <1>1, InitSessionInv, SessionInvInductive, PTL DEF Spec

-----------------------------------------------------------------------------
(* The browser *)

Flight == [by : {"nobody", "api", "socket"},
           at : {"unsent", "sent", "ok", "failed", "received", "gone"},
           cookie : Token \union {NoToken}, token : Token \union {NoToken}]

\* Nothing the browser holds is a token still to be generated.
Known(c) == c \in Token => fate[c] # "unissued"

HeldIsKnown ==
    Known(jar) /\ \A r \in Request : Known(flight[r].cookie) /\ Known(flight[r].token)

\* An answer is given by the request's last step, to a request that had a cookie.
AnswersAreLast ==
    \A r \in Request :
        /\ flight[r].at = "ok" => refresh[r].at = "done" /\ flight[r].token \in Token
        /\ flight[r].at \in {"sent", "ok", "received"} => flight[r].cookie \in Token

\* A cookie still on its way is none that was ever sent or stored.
AnswersAreFresh ==
    \A r \in Request : flight[r].at = "ok" =>
        /\ flight[r].token # jar
        /\ \A q \in Request : flight[q].cookie # flight[r].token
        /\ \A q \in Request : flight[q].at = "ok" /\ flight[q].token = flight[r].token => q = r

\* The jar never returns to a cookie that was exchanged for another.
SpentIsPast == \A r \in Request : flight[r].at = "received" => flight[r].cookie # jar

\* The one API refresh that is waited for is the promise, and its cookie was not
\* spent by an API refresh before it.
OneApiRefresh ==
    \A r \in Request : Waiting(r) /\ flight[r].by = "api" =>
        /\ promise = r
        /\ \A q \in Request : flight[q].by = "api" /\ flight[q].at = "received" =>
              flight[q].cookie # flight[r].cookie

BrowserInv ==
    /\ jar \in Token \union {NoToken}
    /\ flight \in [Request -> Flight]
    /\ HeldIsKnown
    /\ AnswersAreLast
    /\ AnswersAreFresh
    /\ SpentIsPast
    /\ OneApiRefresh
    /\ CallsShareARefresh

\* Generating a token and ending a request are for good.
LEMMA ForGood ==
    ASSUME TypeOK, [Next]_vars
    PROVE  /\ \A t \in Token : fate[t] # "unissued" => fate'[t] # "unissued"
           /\ \A r \in Request : refresh[r].at = "done" => refresh'[r].at = "done"
<1>1. CASE UNCHANGED vars
  BY <1>1 DEF vars
<1>2. ASSUME NEW t \in Token, Login(t) \/ Logout(t) PROVE
         /\ \A u \in Token : fate[u] # "unissued" => fate'[u] # "unissued"
         /\ refresh' = refresh
  BY <1>2 DEF Login, Logout, TypeOK
<1>3. ASSUME NEW q \in Request, NEW t \in Token, Rotate(q, t) \/ RotateExpired(q, t) \/ RotateMissing(q, t)
      PROVE  /\ \A u \in Token : fate[u] # "unissued" => fate'[u] # "unissued"
             /\ \A r \in Request : refresh[r].at = "done" => refresh'[r].at = "done"
  BY <1>3 DEF Rotate, RotateExpired, RotateMissing, TypeOK
<1>4. ASSUME NEW q \in Request, NEW t \in Token, Mint(q, t)
      PROVE  /\ \A u \in Token : fate[u] # "unissued" => fate'[u] # "unissued"
             /\ \A r \in Request : refresh[r].at = "done" => refresh'[r].at = "done"
  BY <1>4 DEF Mint, TypeOK
<1>5. ASSUME NEW q \in Request, ResolveCached(q) \/ ResolveFresh(q) \/ ResolveGrace(q)
      PROVE  /\ fate' = fate
             /\ \A r \in Request : refresh[r].at = "done" => refresh'[r].at = "done"
  BY <1>5 DEF ResolveCached, ResolveFresh, ResolveGrace, Resolved, Resolving, TypeOK
<1>6. ASSUME NEW q \in Request, ResolveRejected(q) \/ ResolveUnreachable(q) \/ MintFails(q)
      PROVE  /\ \A u \in Token : fate[u] # "unissued" => fate'[u] # "unissued"
             /\ \A r \in Request : refresh[r].at = "done" => refresh'[r].at = "done"
  BY <1>6 DEF ResolveRejected, ResolveUnreachable, MintFails, Restore, TypeOK
<1>7. CASE Cleanup \/ Tick
  BY <1>7 DEF Cleanup, Tick
<1> QED BY <1>1, <1>2, <1>3, <1>4, <1>5, <1>6, <1>7 DEF Next

\* A step that posts nothing and brings no answer: requests go on or are left,
\* and the jar keeps its cookie, loses it or gets one just generated.
LEMMA LeaveGood ==
    ASSUME BrowserInv,
           \A t \in Token : fate[t] # "unissued" => fate'[t] # "unissued",
           \A r \in Request : refresh[r].at = "done" => refresh'[r].at = "done",
           flight' \in [Request -> Flight],
           \A r \in Request : flight'[r] = flight[r] \/ flight'[r] = [flight[r] EXCEPT !.at = "gone"],
           \/ jar' = jar
           \/ jar' = NoToken
           \/ jar' \in Token /\ fate[jar'] = "unissued" /\ fate'[jar'] # "unissued",
           \A r \in Request : Waiting(r)' /\ flight'[r].by = "api" => promise' = r,
           CallsShareARefresh'
    PROVE  BrowserInv'
<1> USE DEF BrowserInv
<1>1. \A r \in Request : /\ flight'[r].by = flight[r].by /\ flight'[r].cookie = flight[r].cookie
                         /\ flight'[r].token = flight[r].token
                         /\ flight'[r].at # "gone" => flight'[r].at = flight[r].at
  BY DEF Flight
<1>2. jar' \in Token \union {NoToken}
  OBVIOUS
<1>3. HeldIsKnown'
  <2>1. Known(jar)'
    BY BrowserAssumption DEF HeldIsKnown, Known
  <2>2. \A r \in Request : Known(flight[r].cookie)' /\ Known(flight[r].token)'
    BY <1>1 DEF HeldIsKnown, Known
  <2> QED BY <2>1, <2>2 DEF HeldIsKnown
<1>4. AnswersAreLast'
  BY <1>1 DEF AnswersAreLast
<1>5. \A r \in Request : flight[r].at = "ok" => flight[r].token # jar'
  BY BrowserAssumption DEF AnswersAreFresh, AnswersAreLast, HeldIsKnown, Known
<1>6. AnswersAreFresh'
  BY <1>1, <1>5 DEF AnswersAreFresh
<1>7. SpentIsPast'
  BY <1>1, BrowserAssumption DEF SpentIsPast, AnswersAreLast, HeldIsKnown, Known
<1>8. OneApiRefresh'
  BY <1>1 DEF OneApiRefresh, Waiting
<1> QED BY <1>2, <1>3, <1>4, <1>6, <1>7, <1>8

\* A refresh is posted with the cookie in the jar; an API refresh becomes the
\* promise, and no other is waited for.
LEMMA PostGood ==
    ASSUME BrowserInv, UNCHANGED <<vars, jar, spentBy>>,
           NEW r \in Request, NEW who \in {"api", "socket"}, flight[r] = Unsent,
           flight' \in [Request -> Flight], flight'[r] = Posted(who),
           \A q \in Request : q # r =>
              flight'[q] = flight[q] \/ flight'[q] = [flight[q] EXCEPT !.at = "gone"],
           who = "api" => /\ promise' = r
                          /\ \A q \in Request : q # r /\ Waiting(q)' => flight'[q].by # "api",
           who = "socket" => promise' = promise
    PROVE  BrowserInv'
<1> USE DEF BrowserInv
<1>0. UNCHANGED <<fate, refresh, jar>>
  BY DEF vars
<1>1. \A q \in Request \ {r} :
         /\ flight'[q].by = flight[q].by /\ flight'[q].cookie = flight[q].cookie
         /\ flight'[q].token = flight[q].token
         /\ flight'[q].at # "gone" => flight'[q].at = flight[q].at
  BY DEF Flight
<1>2. /\ flight'[r].by = who /\ flight'[r].cookie = jar /\ flight'[r].token = NoToken
      /\ flight'[r].at \in {"sent", "failed"} /\ (flight'[r].at = "sent" => jar # NoToken)
  BY DEF Posted
<1>3. HeldIsKnown'
  BY <1>0, <1>1, <1>2, BrowserAssumption DEF HeldIsKnown, Known
<1>4. AnswersAreLast'
  BY <1>0, <1>1, <1>2 DEF AnswersAreLast
<1>5. AnswersAreFresh'
  BY <1>0, <1>1, <1>2 DEF AnswersAreFresh
<1>6. SpentIsPast'
  BY <1>0, <1>1, <1>2 DEF SpentIsPast
<1>7. OneApiRefresh'
  <2>1. ASSUME NEW q \in Request, Waiting(q)', flight'[q].by = "api"
        PROVE  /\ promise' = q
               /\ \A p \in Request : flight'[p].by = "api" /\ flight'[p].at = "received" =>
                     flight'[p].cookie # flight'[q].cookie
    <3>1. CASE q = r
      BY <1>0, <1>1, <1>2, <3>1, <2>1 DEF SpentIsPast
    <3>2. CASE q # r
      <4>1. who = "socket" /\ Waiting(q) /\ flight[q].by = "api"
        BY <1>1, <2>1, <3>2 DEF Waiting
      <4> QED BY <1>1, <1>2, <2>1, <3>2, <4>1 DEF OneApiRefresh
    <3> QED BY <3>1, <3>2
  <2> QED BY <2>1 DEF OneApiRefresh
<1>8. CallsShareARefresh'
  BY DEF CallsShareARefresh
<1> QED BY <1>0, <1>3, <1>4, <1>5, <1>6, <1>7, <1>8

\* The answer's cookie replaces the one in the jar, which is not among those
\* that were exchanged, and the promise is over if it was this one.
LEMMA SucceedGood ==
    ASSUME BrowserInv, NEW r \in Request, RefreshSucceeds(r)
    PROVE  BrowserInv'
<1> USE DEF BrowserInv
<1>0. UNCHANGED <<fate, refresh, spentBy>> /\ flight[r].at = "ok"
  BY DEF RefreshSucceeds, vars
<1>1. \A q \in Request :
         /\ flight'[q].by = flight[q].by /\ flight'[q].cookie = flight[q].cookie
         /\ flight'[q].token = flight[q].token
         /\ flight'[q].at = IF q = r THEN "received" ELSE flight[q].at
  BY DEF RefreshSucceeds, Flight
<1>2. jar' = flight[r].token /\ jar' \in Token
  BY <1>0 DEF RefreshSucceeds, SetCookie, AnswersAreLast
<1>3. flight' \in [Request -> Flight]
  BY DEF RefreshSucceeds, Flight
<1>4. HeldIsKnown'
  BY <1>0, <1>1, <1>2 DEF HeldIsKnown, Known
<1>5. AnswersAreLast'
  BY <1>0, <1>1 DEF AnswersAreLast
<1>6. AnswersAreFresh'
  BY <1>0, <1>1, <1>2 DEF AnswersAreFresh
<1>7. SpentIsPast'
  BY <1>0, <1>1, <1>2 DEF SpentIsPast, AnswersAreFresh
<1>8. OneApiRefresh'
  <2>1. ASSUME NEW q \in Request, Waiting(q)', flight'[q].by = "api"
        PROVE  /\ promise' = q
               /\ \A p \in Request : flight'[p].by = "api" /\ flight'[p].at = "received" =>
                     flight'[p].cookie # flight'[q].cookie
    <3>1. q # r /\ Waiting(q) /\ flight[q].by = "api"
      BY <1>1, <2>1 DEF Waiting
    <3>2. promise = q /\ promise' = q
      BY <3>1 DEF OneApiRefresh, RefreshSucceeds
    <3>3. flight[r].by # "api"
      BY <1>0, <3>1, <3>2 DEF OneApiRefresh, Waiting
    <3> QED BY <1>1, <3>1, <3>2, <3>3 DEF OneApiRefresh
  <2> QED BY <2>1 DEF OneApiRefresh
<1>9. CallsShareARefresh'
  BY <1>0 DEF CallsShareARefresh
<1> QED BY <1>2, <1>3, <1>4, <1>5, <1>6, <1>7, <1>8, <1>9

\* The server ends a request that has not ended before, with no token or with
\* one it has just generated.
LEMMA AnswerGood ==
    ASSUME BrowserInv, NEW r \in Request, NEW t \in Token \union {NoToken}, Answer(r, t),
           refresh[r].at # "done", refresh'[r].at = "done",
           \A u \in Token : fate[u] # "unissued" => fate'[u] # "unissued",
           \A q \in Request : refresh[q].at = "done" => refresh'[q].at = "done",
           t # NoToken => fate[t] = "unissued" /\ fate'[t] # "unissued"
    PROVE  BrowserInv'
<1> USE DEF BrowserInv
<1>0. UNCHANGED <<jar, promise, spentBy>> /\ flight[r].at # "ok"
  BY DEF Answer, AnswersAreLast
<1>1. /\ \A q \in Request :
            /\ flight'[q].by = flight[q].by /\ flight'[q].cookie = flight[q].cookie
            /\ q # r => flight'[q].token = flight[q].token /\ flight'[q].at = flight[q].at
      /\ flight'[r].token = t
      /\ flight'[r].at = IF flight[r].at # "sent" THEN flight[r].at
                         ELSE IF t = NoToken THEN "failed" ELSE "ok"
  BY DEF Answer, Flight
<1>2. flight' \in [Request -> Flight]
  <2>1. flight' = [q \in Request |-> flight'[q]]
    BY DEF Answer
  <2>2. \A q \in Request : q # r => flight'[q] = flight[q]
    BY DEF Answer
  <2>3. flight'[r] = [by |-> flight[r].by, at |-> flight'[r].at, cookie |-> flight[r].cookie,
                      token |-> t]
    BY DEF Answer, Flight
  <2>4. flight'[r].at \in {"unsent", "sent", "ok", "failed", "received", "gone"}
    BY <1>1 DEF Flight
  <2>5. flight'[r] \in Flight
    BY <2>3, <2>4 DEF Flight
  <2> QED BY <2>1, <2>2, <2>5
<1>3. flight'[r].at = "ok" => t \in Token /\ flight[r].at = "sent"
  BY <1>0, <1>1
<1>4. HeldIsKnown'
  BY <1>0, <1>1, BrowserAssumption DEF HeldIsKnown, Known
<1>5. AnswersAreLast'
  BY <1>1, <1>3 DEF AnswersAreLast
<1>6. AnswersAreFresh'
  <2>1. t \in Token => /\ t # jar
                       /\ \A q \in Request : flight[q].cookie # t /\ flight[q].token # t
    BY BrowserAssumption DEF HeldIsKnown, Known
  <2> QED BY <1>0, <1>1, <1>3, <2>1 DEF AnswersAreFresh
<1>7. SpentIsPast'
  BY <1>0, <1>1 DEF SpentIsPast
<1>8. \A q \in Request : Waiting(q)' <=> Waiting(q)
  BY <1>1 DEF Waiting
<1>9. OneApiRefresh'
  BY <1>0, <1>1, <1>8 DEF OneApiRefresh
<1>10. CallsShareARefresh'
  BY <1>0 DEF CallsShareARefresh
<1> QED BY <1>0, <1>2, <1>4, <1>5, <1>6, <1>7, <1>9, <1>10

\* The clients' own steps and the server's, one by one.
LEMMA BrowserInvInductive == TypeOK /\ BrowserInv /\ [BrowserNext]_allVars => BrowserInv' /\ [Next]_vars
<1> SUFFICES ASSUME TypeOK, BrowserInv, [BrowserNext]_allVars PROVE BrowserInv' /\ [Next]_vars
  OBVIOUS
<1> USE DEF BrowserInv
<1> DEFINE Kept == flight' \in [Request -> Flight]
                   /\ \A r \in Request : flight'[r] = flight[r] \/ flight'[r] = [flight[r] EXCEPT !.at = "gone"]
           Shared == \A r \in Request : Waiting(r)' /\ flight'[r].by = "api" => promise' = r
           Stands == /\ \A t \in Token : fate[t] # "unissued" => fate'[t] # "unissued"
                     /\ \A r \in Request : refresh[r].at = "done" => refresh'[r].at = "done"
<1>1. flight' = flight => Kept
  OBVIOUS
<1>2. flight' = flight /\ promise' = promise => Shared
  BY DEF OneApiRefresh, Waiting
<1>3. spentBy' = spentBy => CallsShareARefresh'
  BY DEF CallsShareARefresh
<1>4. UNCHANGED vars => Stands
  BY DEF vars
<1>5. \A r \in Request : [flight[r] EXCEPT !.at = "gone"] \in Flight
  BY DEF Flight
<1>6. flight' = LeaveAll => Kept /\ \A r \in Request : ~Waiting(r)'
  BY <1>5 DEF LeaveAll, Waiting, Flight
<1>7. \A r \in Request, who \in {"api", "socket"} : Posted(who) \in Flight
  BY DEF Posted, Flight
<1> HIDE DEF Kept, Shared, Stands
\* Posting a refresh.
<1>10. ASSUME NEW r \in Request, Post(r, "api"), promise = NoPromise, promise' = r,
              UNCHANGED <<vars, jar, spentBy>>
       PROVE  BrowserInv'
  <2>1. flight' \in [Request -> Flight] /\ flight'[r] = Posted("api") /\ flight[r] = Unsent
        /\ \A q \in Request : q # r => flight'[q] = flight[q]
    BY <1>7, <1>10 DEF Post
  <2>2. \A q \in Request : q # r /\ Waiting(q)' => flight'[q].by # "api"
    BY <1>10, <2>1, BrowserAssumption DEF OneApiRefresh, Waiting
  <2> QED BY <1>10, <2>1, <2>2, PostGood
<1>11. ASSUME refreshSession, UNCHANGED <<vars, jar, spentBy>> PROVE BrowserInv'
  <2>1. CASE promise # NoPromise
    <3>1. flight' = flight /\ promise' = promise /\ jar' = jar /\ spentBy' = spentBy
      BY <1>11, <2>1 DEF refreshSession
    <3> QED BY <1>1, <1>2, <1>3, <1>4, <1>11, <3>1, LeaveGood DEF Kept, Shared, Stands
  <2>2. CASE promise = NoPromise
    BY <1>10, <1>11, <2>2 DEF refreshSession
  <2> QED BY <2>1, <2>2
<1>12. CASE Load
  <2>1. PICK r \in Request : /\ flight[r] = Unsent /\ flight' = [LeaveAll EXCEPT ![r] = Posted("api")]
                             /\ promise' = r
    BY <1>12 DEF Load
  <2>2. \A q \in Request : /\ LeaveAll[q] = flight[q] \/ LeaveAll[q] = [flight[q] EXCEPT !.at = "gone"]
                           /\ LeaveAll[q] \in Flight /\ LeaveAll[q].at \notin {"sent", "ok", "failed"}
    BY <1>5 DEF LeaveAll, Waiting, Flight
  <2>3. LeaveAll = [q \in Request |-> LeaveAll[q]]
    BY DEF LeaveAll
  <2>4. flight' \in [Request -> Flight] /\ flight'[r] = Posted("api")
        /\ \A q \in Request : q # r => flight'[q] = LeaveAll[q]
    BY <1>7, <2>1, <2>2, <2>3
  <2>5. \A q \in Request : q # r => ~Waiting(q)'
    BY <2>2, <2>4 DEF Waiting
  <2> QED BY <1>12, <2>1, <2>2, <2>4, <2>5, PostGood DEF Load, vars
<1>13. CASE refreshTokenForWS
  <2>1. PICK r \in Request : Post(r, "socket")
    BY <1>13 DEF refreshTokenForWS
  <2>2. flight' \in [Request -> Flight] /\ flight'[r] = Posted("socket") /\ flight[r] = Unsent
        /\ \A q \in Request : q # r => flight'[q] = flight[q]
    BY <1>7, <2>1 DEF Post
  <2> QED BY <1>13, <2>2, PostGood DEF refreshTokenForWS, vars
\* Steps that leave requests, or leave them alone.
<1>14. CASE StartCall \/ CallEnds \/ AccessExpires \/ UNCHANGED allVars
  <2>1. UNCHANGED vars /\ UNCHANGED <<flight, promise, jar, spentBy>>
    BY <1>14 DEF StartCall, CallEnds, AccessExpires, allVars, browserVars
  <2>2. Kept /\ Shared /\ Stands /\ CallsShareARefresh'
    BY <1>1, <1>2, <1>3, <1>4, <2>1
  <2> QED BY <2>1, <2>2, LeaveGood DEF Kept, Shared, Stands
<1>15. CASE Unauthorized
  <2>1. UNCHANGED vars /\ UNCHANGED <<jar, spentBy>>
    BY <1>15 DEF Unauthorized
  <2>2. CASE refreshSession
    BY <1>11, <2>1, <2>2
  <2>3. CASE ToLogin
    <3>1. Kept /\ Shared
      BY <1>6, <2>3 DEF ToLogin, Shared
    <3> QED BY <1>3, <1>4, <2>1, <3>1, LeaveGood DEF Kept, Shared, Stands
  <2> QED BY <1>15, <2>1, <2>2, <2>3 DEF Unauthorized
<1>16. CASE StreamExpires
  BY <1>11, <1>16 DEF StreamExpires, vars
<1>17. CASE SignOut
  <2>1. jar \in Token /\ Logout(jar)
    BY <1>17 DEF SignOut
  <2>2. Next
    BY <2>1 DEF Next
  <2>3. Kept /\ Shared
    BY <1>6, <1>17 DEF SignOut, ToLogin, Shared
  <2>4. Stands
    BY <2>2, ForGood DEF Stands
  <2> QED BY <1>3, <1>17, <2>2, <2>3, <2>4, LeaveGood DEF SignOut, Kept, Shared, Stands
<1>18. CASE Passing
  <2>1. Next /\ UNCHANGED <<flight, promise, jar, spentBy>>
    BY <1>18 DEF Passing, Next, browserVars
  <2>2. Kept /\ Shared /\ Stands /\ CallsShareARefresh'
    BY <1>1, <1>2, <1>3, <2>1, ForGood DEF Stands
  <2> QED BY <2>1, <2>2, LeaveGood DEF Kept, Shared, Stands
<1>19. ASSUME NEW t \in Token, SignIn(t) PROVE BrowserInv' /\ Next
  <2>1. Next /\ UNCHANGED <<flight, promise, spentBy>>
    BY <1>19 DEF SignIn, Next
  <2>2. jar' = t /\ fate[t] = "unissued" /\ fate'[t] # "unissued"
    BY <1>19 DEF SignIn, Login, Issue, TypeOK
  <2>3. Kept /\ Shared /\ Stands /\ CallsShareARefresh'
    BY <1>1, <1>2, <1>3, <2>1, ForGood DEF Stands
  <2> QED BY <2>1, <2>2, <2>3, LeaveGood DEF Kept, Shared, Stands
<1>20. ASSUME NEW r \in Request, RefreshFails(r) PROVE BrowserInv' /\ UNCHANGED vars
  <2>1. UNCHANGED vars /\ jar' = jar /\ Waiting(r)
    BY <1>20 DEF RefreshFails
  <2>3. Kept /\ Shared
    <3>1. CASE ToLogin
      BY <1>6, <3>1 DEF ToLogin, Shared
    <3>2. ASSUME flight' = [flight EXCEPT ![r].at = "gone"],
                 promise' = IF promise = r THEN NoPromise ELSE promise
          PROVE  Kept /\ Shared
      <4>1. Kept
        BY <1>5, <3>2 DEF Kept
      <4>2. \A q \in Request : Waiting(q)' => q # r /\ flight'[q] = flight[q] /\ Waiting(q)
        BY <3>2 DEF Waiting, Flight
      <4> QED BY <3>2, <4>1, <4>2 DEF Shared, OneApiRefresh
    <3> QED BY <1>20, <3>1, <3>2 DEF RefreshFails
  <2>4. "api" \notin Spenders(r) \/ ~(flight[r].by = "api" /\ flight[r].at = "failed")
    <3>1. SUFFICES ASSUME flight[r].by = "api", flight[r].at = "failed",
                          NEW q \in Request, flight[q].cookie = flight[r].cookie,
                          flight[q].at \in {"ok", "received"}, flight[q].by = "api"
                   PROVE  FALSE
      BY DEF Spenders
    <3>2. CASE flight[q].at = "ok"
      BY <2>1, <3>1, <3>2 DEF OneApiRefresh, Waiting
    <3>3. CASE flight[q].at = "received"
      BY <2>1, <3>1, <3>3 DEF OneApiRefresh
    <3> QED BY <3>1, <3>2, <3>3
  <2>5. CallsShareARefresh'
    BY <1>20, <2>4 DEF RefreshFails, CallsShareARefresh
  <2> QED BY <1>4, <2>1, <2>3, <2>5, LeaveGood DEF Kept, Shared, Stands
\* The server.
<1>21. ASSUME NEW r \in Request, RefreshSucceeds(r) PROVE BrowserInv' /\ UNCHANGED vars
  BY <1>21, SucceedGood DEF RefreshSucceeds
<1>22. ASSUME Next, UNCHANGED browserVars PROVE BrowserInv'
  <2>1. UNCHANGED <<flight, promise, jar, spentBy>>
    BY <1>22 DEF browserVars
  <2>2. Kept /\ Shared /\ Stands /\ CallsShareARefresh'
    BY <1>1, <1>2, <1>3, <1>22, <2>1, ForGood DEF Stands
  <2> QED BY <2>1, <2>2, LeaveGood DEF Kept, Shared, Stands
<1>23. ASSUME NEW r \in Request, Accept(r) PROVE BrowserInv' /\ Next
  <2>1. Next
    BY <1>23 DEF Accept, Next
  <2> QED BY <1>22, <1>23, <2>1 DEF Accept
<1>24. ASSUME NEW r \in Request, NEW t \in Token \union {NoToken}, Answer(r, t), Next,
              refresh[r].at # "done", refresh'[r].at = "done",
              t # NoToken => fate[t] = "unissued" /\ fate'[t] # "unissued"
       PROVE  BrowserInv'
  <2>1. Stands
    BY <1>24, ForGood DEF Stands
  <2> QED BY <1>24, <2>1, AnswerGood DEF Stands
<1>25. ASSUME NEW r \in Request, Reject(r) PROVE BrowserInv' /\ Next
  <2>1. Next /\ refresh[r].at # "done" /\ refresh'[r].at = "done"
    BY <1>25 DEF Reject, Next, RotateExpired, RotateMissing, TypeOK
  <2> QED BY <1>24, <1>25, <2>1 DEF Reject
<1>26. ASSUME NEW r \in Request, Resolve(r) PROVE BrowserInv' /\ Next
  <2>1. CASE (ResolveCached(r) \/ ResolveFresh(r) \/ ResolveGrace(r)) /\ UNCHANGED browserVars
    <3>1. Next
      BY <2>1 DEF Next
    <3> QED BY <1>22, <2>1, <3>1
  <2>2. CASE (ResolveRejected(r) \/ ResolveUnreachable(r) \/ MintFails(r)) /\ Answer(r, NoToken)
    <3>1. Next
      BY <2>2 DEF Next
    <3>2. refresh[r].at # "done" /\ refresh'[r].at = "done"
      BY <2>2 DEF ResolveRejected, ResolveUnreachable, MintFails, Resolving, Restore, TypeOK
    <3> QED BY <1>24, <2>2, <3>1, <3>2
  <2>3. ASSUME NEW t \in Token, Mint(r, t), Answer(r, t) PROVE BrowserInv' /\ Next
    <3>1. Next
      BY <2>3 DEF Next
    <3>2. refresh[r].at # "done" /\ refresh'[r].at = "done" /\ fate[t] = "unissued"
          /\ fate'[t] # "unissued"
      BY <2>3 DEF Mint, Issue, TypeOK
    <3> QED BY <1>24, <2>3, <3>1, <3>2
  <2> QED BY <1>26, <2>1, <2>2, <2>3 DEF Resolve
<1>30. UNCHANGED vars => [Next]_vars
  OBVIOUS
<1>31. Load \/ StartCall \/ Unauthorized \/ CallEnds \/ refreshTokenForWS \/ StreamExpires
       \/ AccessExpires \/ UNCHANGED allVars => UNCHANGED vars
  BY DEF Load, StartCall, Unauthorized, CallEnds, refreshTokenForWS, StreamExpires, AccessExpires,
         allVars
<1>32. SignOut \/ Passing => Next
  BY DEF SignOut, Passing, Next
<1> QED
  BY <1>12, <1>13, <1>14, <1>15, <1>16, <1>17, <1>18, <1>19, <1>20, <1>21, <1>23, <1>25, <1>26,
     <1>31, <1>32 DEF BrowserNext

\* The invariant holds of a browser at the login page.
LEMMA InitBrowserInv == BrowserInit => Init /\ BrowserInv
<1> SUFFICES ASSUME BrowserInit PROVE Init /\ BrowserInv
  OBVIOUS
<1>1. \A r \in Request : flight[r] = Unsent
  BY DEF BrowserInit
<1>2. flight \in [Request -> Flight] /\ jar = NoToken
  BY DEF BrowserInit, Unsent, Flight
<1>3. HeldIsKnown
  BY <1>1, <1>2, BrowserAssumption DEF HeldIsKnown, Known, Unsent
<1> QED BY <1>1, <1>2, <1>3 DEF BrowserInit, BrowserInv, AnswersAreLast, AnswersAreFresh, SpentIsPast,
                               OneApiRefresh, CallsShareARefresh, Unsent, Waiting

\* The store and the browser together.
LEMMA BrowserAlways == BrowserSpec => [](SessionInv /\ BrowserInv)
<1>1. BrowserInit => SessionInv /\ BrowserInv
  BY InitBrowserInv, InitSessionInv
<1>2. (SessionInv /\ BrowserInv) /\ [BrowserNext]_allVars => (SessionInv /\ BrowserInv)'
  BY BrowserInvInductive, SessionInvInductive DEF SessionInv
<1> QED BY <1>1, <1>2, PTL DEF BrowserSpec

\* Whatever the browser's clients do, the server takes no step but those of the
\* refresh sessions: the theorems above hold of the two together.
THEOREM BrowserUsesSessions == BrowserSpec => Spec
<1>1. SessionInv /\ BrowserInv /\ [BrowserNext]_allVars => [Next]_vars
  BY BrowserInvInductive DEF SessionInv
<1> QED BY <1>1, InitBrowserInv, BrowserAlways, PTL DEF BrowserSpec, Spec

\* "joining a refresh already in flight": no call of a page is sent to /login
\* because another had spent its cookie, for any number of pages, reloads,
\* timeouts and sockets (refreshSession's shared promise).
THEOREM CallsAreNotRaced == BrowserSpec => []CallsShareARefresh
<1>1. SessionInv /\ BrowserInv => CallsShareARefresh
  BY DEF BrowserInv
<1> QED BY <1>1, BrowserAlways, PTL
=============================================================================
