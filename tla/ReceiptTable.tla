---------------------------- MODULE ReceiptTable ----------------------------
(***************************************************************************)
(* The change_receipts table (backend/internal/store/change_receipts.go):  *)
(* a row per operation id and the effect of each SQL statement on it.  A   *)
(* guarded UPDATE that matches no row leaves the table alone.              *)
(***************************************************************************)
EXTENDS Naturals, Sequences

CONSTANTS
    Owner,      \* authenticated users
    Body,       \* submitted bundles on a target cluster (digest and cluster id)
    DocCount    \* documents in a bundle

\* validateRequest refuses a request without documents.
ASSUME DocCountAssumption == DocCount \in Nat \ {0}

Doc == 1 .. DocCount

Terminal == {"applied", "partial", "failed", "unknown"}

\* applied: created, configured or unchanged.  rejected: a definite failure.
\* cut: a failure classed indeterminate whose pre-PATCH GET saw an object
\* (its UID is recorded).  cutBlind: the same without a recorded UID.
Indeterminate == {"cut", "cutBlind"}
Outcome == {"applied", "rejected"} \union Indeterminate

FinalVerdict == {"verified", "inconclusive", "verification_failed"}
Verdict == {"pending", "verifying"} \union FinalVerdict

NoRow == [state |-> "none"]

Row == [state : {"applying"} \union Terminal, owner : Owner, body : Body,
        started : BOOLEAN, completed : BOOLEAN,
        objects : Seq([index : Doc, outcome : Outcome]),
        verdict : Verdict, age : {"young", "stale", "expired"}]

Exists(row) == row.state # "none"
InFlight(row) == Exists(row) /\ ~row.completed

\* INSERT; the primary key refuses a second row for the id.
Insert(row, q) ==
    IF Exists(row) THEN row
    ELSE [state |-> "applying", owner |-> q.owner, body |-> q.body,
          started |-> FALSE, completed |-> FALSE, objects |-> <<>>,
          verdict |-> "pending", age |-> "young"]

MarkMutationStarted(row) ==
    IF InFlight(row) THEN [row EXCEPT !.started = TRUE] ELSE row

\* Mutant: the append forgets completed_at IS NULL.
AppendObjectUnguarded(row, o) ==
    IF Exists(row) THEN [row EXCEPT !.objects = Append(@, o)] ELSE row

AppendObject(row, o) ==
    IF InFlight(row) THEN [row EXCEPT !.objects = Append(@, o)] ELSE row

Finalize(row, s) ==
    IF InFlight(row) THEN [row EXCEPT !.state = s, !.completed = TRUE] ELSE row

\* Mutant: only rows whose mutation started are reaped.
OrphanStartedOnly(row) ==
    /\ InFlight(row)
    /\ row.started
    /\ row.age # "young"

\* WHERE completed_at IS NULL AND state = 'applying' AND created_at < NOW() - grace
Orphan(row) ==
    /\ InFlight(row)
    /\ row.state = "applying"
    /\ row.age # "young"

\* Mutant: "nothing recorded" is taken for "never started".
ReconcileByObjects(row) ==
    IF Orphan(row)
    THEN [row EXCEPT !.state = IF row.objects # <<>> THEN "unknown" ELSE "failed",
                     !.verdict = "inconclusive", !.completed = TRUE]
    ELSE row

ReconcileOrphan(row) ==
    IF Orphan(row)
    THEN [row EXCEPT !.state = IF row.started THEN "unknown" ELSE "failed",
                     !.verdict = "inconclusive", !.completed = TRUE]
    ELSE row

\* WHERE verification_state NOT IN (the final ones); it does not look at
\* completed_at.
SetVerification(row, v) ==
    IF Exists(row) /\ row.verdict \notin FinalVerdict
    THEN [row EXCEPT !.verdict = v]
    ELSE row

\* The terminal state of a fully recorded apply (service.go), from the outcomes
\* of the documents attempted: the ones never reached count as failures.
Attempted(s) == 1 .. Len(s)

stateFor(s) ==
    LET good == {i \in Attempted(s) : s[i] = "applied"}
    IN  CASE good = Doc -> "applied"
          [] good = {} -> "failed"
          [] OTHER -> "partial"
=============================================================================
