------------------------------- MODULE Sessions -------------------------------
(***************************************************************************)
(* Refresh sessions.                                                       *)
(*                                                                         *)
(*   backend/internal/auth/session.go         the in-memory store          *)
(*   backend/internal/server/handle_auth.go   refresh and logout           *)
(*   backend/internal/server/response.go      issueTokenPairAt             *)
(*                                                                         *)
(* A refresh takes its session out of the store, establishes who the user  *)
(* is (a directory for LDAP, the cached user for OIDC, the user table for  *)
(* local accounts), mints a successor, or puts the session back when the   *)
(* failure is transient.  Nothing is locked between those steps.           *)
(*                                                                         *)
(* identity[t] is the ground truth about a token: when the identity behind *)
(* it was last confirmed by its provider, and when it was relied upon.     *)
(***************************************************************************)
EXTENDS Naturals, FiniteSets

CONSTANTS
    Token,          \* refresh tokens; each is generated once
    Request,        \* refresh requests; each is handled once
    Provider,       \* those in use, of "local", "oidc" and "ldap"
    Lifetime,       \* RefreshLifetimeFor
    Grace,          \* ldapGracePeriod
    MaxTime         \* bound on the clock

ASSUME SessionsAssumption ==
    /\ Provider \subseteq {"local", "oidc", "ldap"}
    /\ Lifetime \in [Provider -> Nat]
    /\ Grace \in Nat /\ MaxTime \in Nat

VARIABLES
    clock,
    sessions,       \* SessionStore.sessions
    refresh,        \* the refresh requests
    fate,           \* what became of each token
    successors,     \* tokens minted from each token
    identity

vars == <<clock, sessions, refresh, fate, successors, identity>>

-----------------------------------------------------------------------------

Time == 0 .. MaxTime

Session == [provider : Provider, expires : Nat, revalidated : Time]
NoSession == [provider |-> "none"]
Stored(t) == sessions[t] # NoSession

\* A refresh between taking its session out and answering: the session, and once
\* the user is resolved the stamp for the successor and the truth behind it.
Refreshing == [at : {"resolve", "mint"}, token : Token, session : Session,
               stamp : Time, proven : Time, used : Time]
NoRequest == [at |-> "new"]

InFlight(r) == refresh[r].at \in {"resolve", "mint"}
Holds(r, t) == InFlight(r) /\ refresh[r].token = t

Fate == {"unissued", "live", "rotated", "loggedOut", "rejected", "expired"}

\* How old the identity behind a token was when it was relied upon.
Age(t) == identity[t].used - identity[t].proven

Init ==
    /\ clock = 0
    /\ sessions = [t \in Token |-> NoSession]
    /\ refresh = [r \in Request |-> NoRequest]
    /\ fate = [t \in Token |-> "unissued"]
    /\ successors = [t \in Token |-> {}]
    /\ identity = [t \in Token |-> [proven |-> 0, used |-> 0]]

-----------------------------------------------------------------------------
(* Logging in *)

\* issueTokenPairAt: a fresh random token with a full lifetime.
Issue(t, p, stamp, proven, used) ==
    /\ fate[t] = "unissued"
    /\ sessions' = [sessions EXCEPT ![t] =
          [provider |-> p, expires |-> clock + Lifetime[p], revalidated |-> stamp]]
    /\ identity' = [identity EXCEPT ![t] = [proven |-> proven, used |-> used]]

Login(t) ==
    /\ \E p \in Provider : Issue(t, p, clock, clock, clock)
    /\ fate' = [fate EXCEPT ![t] = "live"]
    /\ UNCHANGED <<clock, refresh, successors>>

-----------------------------------------------------------------------------
(* Refreshing *)

\* Mutant: the session is looked up and deleted only when the mint is done.
RotatePeeks(r, t) ==
    /\ refresh[r].at = "new"
    /\ Stored(t)
    /\ clock <= sessions[t].expires
    /\ refresh' = [refresh EXCEPT ![r] = [at |-> "resolve", token |-> t, session |-> sessions[t],
                                          stamp |-> 0, proven |-> 0, used |-> clock]]
    /\ UNCHANGED <<clock, sessions, fate, successors, identity>>

\* LoadAndDelete: found and not expired.
Rotate(r, t) ==
    /\ refresh[r].at = "new"
    /\ Stored(t)
    /\ clock <= sessions[t].expires
    /\ sessions' = [sessions EXCEPT ![t] = NoSession]
    /\ refresh' = [refresh EXCEPT ![r] = [at |-> "resolve", token |-> t, session |-> sessions[t],
                                          stamp |-> 0, proven |-> 0, used |-> clock]]
    /\ UNCHANGED <<clock, fate, successors, identity>>

\* Found and expired: it is gone all the same.
RotateExpired(r, t) ==
    /\ refresh[r].at = "new"
    /\ Stored(t)
    /\ clock > sessions[t].expires
    /\ sessions' = [sessions EXCEPT ![t] = NoSession]
    /\ refresh' = [refresh EXCEPT ![r] = [at |-> "done"]]
    /\ fate' = [fate EXCEPT ![t] = IF @ = "live" THEN "expired" ELSE @]
    /\ UNCHANGED <<clock, successors, identity>>

\* Not found: rotated by another, logged out, or cleaned up.
RotateMissing(r, t) ==
    /\ refresh[r].at = "new"
    /\ fate[t] # "unissued"
    /\ ~Stored(t)
    /\ refresh' = [refresh EXCEPT ![r] = [at |-> "done"]]
    /\ UNCHANGED <<clock, sessions, fate, successors, identity>>

Resolving(r, P) == refresh[r].at = "resolve" /\ refresh[r].session.provider \in P

\* The user is known; stamp is lastRevalidated.
Resolved(r, stamp, proven, used) ==
    /\ refresh' = [refresh EXCEPT ![r] =
          [@ EXCEPT !.at = "mint", !.stamp = stamp, !.proven = proven, !.used = used]]
    /\ UNCHANGED <<clock, sessions, fate, successors, identity>>

\* OIDC: the cached user, as old as the token's identity is.
ResolveCached(r) ==
    /\ Resolving(r, {"oidc"})
    /\ Resolved(r, clock, identity[refresh[r].token].proven, clock)

\* Local accounts are looked up; the LDAP directory answers.
ResolveFresh(r) ==
    /\ Resolving(r, {"local", "ldap"})
    /\ Resolved(r, clock, clock, clock)

\* The user is gone, or the session can never be resolved.
ResolveRejected(r) ==
    /\ Resolving(r, {"local", "ldap"})
    /\ refresh' = [refresh EXCEPT ![r] = [at |-> "done"]]
    /\ fate' = [fate EXCEPT ![refresh[r].token] = IF @ = "live" THEN "rejected" ELSE @]
    /\ UNCHANGED <<clock, sessions, successors, identity>>

WithinGrace(r) == clock - refresh[r].session.revalidated <= Grace

\* Mutant: the fallback stamps the successor as revalidated.
ResolveGraceRestamps(r) ==
    /\ Resolving(r, {"ldap"})
    /\ WithinGrace(r)
    /\ Resolved(r, clock, identity[refresh[r].token].proven, clock)

\* The directory is unreachable and the last confirmation recent enough.
ResolveGrace(r) ==
    /\ Resolving(r, {"ldap"})
    /\ WithinGrace(r)
    /\ Resolved(r, refresh[r].session.revalidated, identity[refresh[r].token].proven, clock)

\* The session taken out is stored again, whatever happened meanwhile.
Restore(r) ==
    /\ sessions' = [sessions EXCEPT ![refresh[r].token] = refresh[r].session]
    /\ refresh' = [refresh EXCEPT ![r] = [at |-> "done"]]
    /\ UNCHANGED <<clock, fate, successors, identity>>

\* The directory is unreachable and the grace period is over.
ResolveUnreachable(r) ==
    /\ Resolving(r, {"ldap"})
    /\ ~WithinGrace(r)
    /\ Restore(r)

Mint(r, t) ==
    /\ refresh[r].at = "mint"
    /\ Issue(t, refresh[r].session.provider, refresh[r].stamp, refresh[r].proven, refresh[r].used)
    /\ fate' = [fate EXCEPT ![t] = "live",
                            ![refresh[r].token] = IF @ = "live" THEN "rotated" ELSE @]
    /\ successors' = [successors EXCEPT ![refresh[r].token] = @ \union {t}]
    /\ refresh' = [refresh EXCEPT ![r] = [at |-> "done"]]
    /\ UNCHANGED clock

\* Mutant: the failure is reported and the session is not put back.
MintFailsForgets(r) ==
    /\ refresh[r].at = "mint"
    /\ refresh' = [refresh EXCEPT ![r] = [at |-> "done"]]
    /\ UNCHANGED <<clock, sessions, fate, successors, identity>>

\* Signing or generating failed.
MintFails(r) ==
    /\ refresh[r].at = "mint"
    /\ Restore(r)

-----------------------------------------------------------------------------
(* Logging out, cleaning up, time *)

Logout(t) ==
    /\ fate[t] # "unissued"
    /\ sessions' = [sessions EXCEPT ![t] = NoSession]
    /\ fate' = [fate EXCEPT ![t] = IF @ = "live" THEN "loggedOut" ELSE @]
    /\ UNCHANGED <<clock, refresh, successors, identity>>

Cleanup ==
    LET old == {t \in Token : Stored(t) /\ clock > sessions[t].expires}
    IN  /\ old # {}
        /\ sessions' = [t \in Token |-> IF t \in old THEN NoSession ELSE sessions[t]]
        /\ fate' = [t \in Token |-> IF t \in old /\ fate[t] = "live" THEN "expired" ELSE fate[t]]
        /\ UNCHANGED <<clock, refresh, successors, identity>>

Tick ==
    /\ clock < MaxTime
    /\ clock' = clock + 1
    /\ UNCHANGED <<sessions, refresh, fate, successors, identity>>

-----------------------------------------------------------------------------

Next ==
    \/ \E t \in Token : Login(t) \/ Logout(t)
    \/ \E r \in Request, t \in Token :
          Rotate(r, t) \/ RotateExpired(r, t) \/ RotateMissing(r, t) \/ Mint(r, t)
    \/ \E r \in Request :
          \/ ResolveCached(r) \/ ResolveFresh(r) \/ ResolveRejected(r)
          \/ ResolveGrace(r) \/ ResolveUnreachable(r) \/ MintFails(r)
    \/ Cleanup
    \/ Tick

Spec == Init /\ [][Next]_vars

-----------------------------------------------------------------------------
(* Properties *)

\* The store, the requests and the ground truth keep their types.
TypeOK ==
    /\ clock \in Time
    /\ sessions \in [Token -> Session \union {NoSession}]
    /\ refresh \in [Request -> Refreshing \union {NoRequest, [at |-> "done"]}]
    /\ fate \in [Token -> Fate]
    /\ successors \in [Token -> SUBSET Token]
    /\ identity \in [Token -> [proven : Time, used : Time]]

\* "Two concurrent refreshers can never both mint a successor pair", and neither
\* can a request and the retry after a Restore.
OneSuccessor == \A t \in Token : Cardinality(successors[t]) <= 1

\* "rather than being silently logged out by a transient failure": a token that
\* was not rotated, logged out, rejected or expired is in the store, or in a
\* refresh that rotates it or puts it back.
StillUsable ==
    \A t \in Token : fate[t] = "live" => Stored(t) \/ \E r \in Request : Holds(r, t)

\* "a sustained outage cannot indefinitely extend access": the identity behind a
\* stored LDAP session was confirmed at most the grace period before it was
\* last relied upon, however many refreshes the outage saw.
GraceBounded ==
    \A t \in Token : Stored(t) /\ sessions[t].provider = "ldap" => Age(t) <= Grace
=============================================================================
