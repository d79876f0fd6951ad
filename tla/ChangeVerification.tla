------------------------- MODULE ChangeVerification -------------------------
(***************************************************************************)
(* Verification of one receipt by concurrent pollers.                      *)
(*                                                                         *)
(*   backend/internal/changes/verifier.go   VerifyOnce                     *)
(*   backend/internal/changes/handler.go    HandleVerification             *)
(*                                                                         *)
(* Each GET /changes/{id}/verification loads the receipt, reads every      *)
(* object that may exist live from the cluster, folds the checks into a    *)
(* verdict and, for the owner, writes it.  Nothing holds the row between   *)
(* the load and the write: other tabs of the owner, the reconciler and the *)
(* cluster move meanwhile, and the request's context may end at any point. *)
(***************************************************************************)
EXTENDS ReceiptTable

CONSTANTS
    Poller,     \* concurrent verification requests
    Persister,  \* those of the receipt's owner (mayPersistVerdict)
    Supported   \* documents of a kind with a rollout postcondition

ASSUME PollerAssumption == Persister \subseteq Poller /\ Supported \subseteq Doc

VARIABLES
    row,        \* the receipt
    windowOver, \* 120 s have passed since completed_at
    pc,         \* where each poller is
    checks,     \* the checks each poller has made, one per recorded object
    expired,    \* whether the window was over when the pass began
    ctx,        \* whether the poller's context is still alive
    answer,     \* what each poller's request was answered
    evidence,   \* the verification column: the checks stored with the verdict
    late,       \* a write that failed on the client only (one is outstanding)
    audit,      \* verdicts the audit hook was called with, per poller
    reaped      \* the reconciler wrote the verdict

vars == <<row, windowOver, pc, checks, expired, ctx, answer, evidence, late,
          audit, reaped>>

-----------------------------------------------------------------------------
(* Checks *)

\* "retry" is what isRetryable says (a rollout in progress, a read that failed),
\* "settled" every other warning or inconclusive reason; "none" is no check.
CheckStatus == {"pass", "fail", "retry", "settled", "none"}

NoChecks == [i \in Doc |-> "none"]
NoWrite == [verdict |-> "none"]

Recorded == {row.objects[k].index : k \in DOMAIN row.objects}

\* Something of this outcome may exist on the cluster.
verifiable(o) == o.outcome # "rejected"

\* A kind with a postcondition, and a UID a live read can be bound to.
Readable(o) == o.index \in Supported /\ o.outcome # "cutBlind"

\* What one live read may come to; a read under an ended context fails.
verifyObject(o, alive) ==
    CASE ~Readable(o) -> {"settled"}
      [] ~alive -> {"retry"}
      [] OTHER -> {"pass", "fail", "retry", "settled"}

\* Mutant: a check in progress stays retryable after the window.
FrozenNever(c, over) == c

\* freezeExpired, once the window was over when the pass began.
Frozen(c, over) == IF over /\ c = "retry" THEN "settled" ELSE c

aggregateVerification(c) ==
    LET made == {c[i] : i \in Doc} \ {"none"}
    IN  CASE "fail" \in made -> "verification_failed"
          [] "fail" \notin made /\ "retry" \in made -> "verifying"
          [] made = {"pass"} -> "verified"
          [] OTHER -> "inconclusive"

\* Mutant: documents without a record are passed over.
ChecksOfRecorded(p) ==
    [i \in Doc |->
        IF i \in Recorded
        THEN Frozen(checks[p][CHOOSE k \in DOMAIN row.objects : row.objects[k].index = i],
                    expired[p])
        ELSE "none"]

\* The checks of a whole pass: an unrecorded document is settled, whatever the
\* receipt's state says of it.
Checks(p) ==
    [i \in Doc |->
        IF i \in Recorded
        THEN Frozen(checks[p][CHOOSE k \in DOMAIN row.objects : row.objects[k].index = i],
                    expired[p])
        ELSE "settled"]

Evaluate(p) == aggregateVerification(Checks(p))

\* The UPDATE of SetVerification: verdict and evidence together, or nothing.
Store(verdict, found) ==
    /\ row' = SetVerification(row, verdict)
    /\ evidence' = IF row.verdict \in FinalVerdict THEN evidence ELSE found

-----------------------------------------------------------------------------

\* A receipt at any point of its apply, which records outcomes in order.
Init ==
    /\ row \in {[state |-> "applying", owner |-> o, body |-> b, started |-> st,
                 completed |-> FALSE, objects |-> recs, verdict |-> "pending", age |-> "young"] :
                    o \in Owner, b \in Body, st \in BOOLEAN,
                    recs \in UNION {{[k \in 1 .. n |-> [index |-> k, outcome |-> f[k]]] :
                                        f \in [1 .. n -> Outcome]} : n \in 0 .. DocCount}}
    /\ row.objects # <<>> => row.started
    /\ windowOver = FALSE /\ reaped = FALSE
    /\ pc = [p \in Poller |-> "idle"]
    /\ checks = [p \in Poller |-> <<>>]
    /\ expired = [p \in Poller |-> FALSE]
    /\ ctx = [p \in Poller |-> TRUE]
    /\ answer = [p \in Poller |-> "none"]
    /\ evidence = NoChecks
    /\ late = NoWrite
    /\ audit = [p \in Poller |-> {}]

\* The request is answered and its frame is gone.
Return(p, a) ==
    /\ pc' = [pc EXCEPT ![p] = "idle"]
    /\ checks' = [checks EXCEPT ![p] = <<>>]
    /\ expired' = [expired EXCEPT ![p] = FALSE]
    /\ ctx' = [ctx EXCEPT ![p] = TRUE]
    /\ answer' = [answer EXCEPT ![p] = a]

Goto(p, l) == pc' = [pc EXCEPT ![p] = l]

-----------------------------------------------------------------------------
(* A verification request *)

\* A final receipt is answered as stored and an unfinished one as pending.  Of a
\* finished one the pass uses columns that no statement changes any more, and
\* the time, read once.
Load(p) ==
    /\ pc[p] = "idle"
    /\ IF row.verdict \in FinalVerdict THEN Return(p, row.verdict)
       ELSE IF ~row.completed \/ row.state \notin Terminal THEN Return(p, "pending")
       ELSE /\ Goto(p, "read")
            /\ expired' = [expired EXCEPT ![p] = windowOver]
            /\ answer' = [answer EXCEPT ![p] = "none"]
            /\ UNCHANGED <<checks, ctx>>
    /\ UNCHANGED <<row, windowOver, evidence, late, audit, reaped>>

\* The next recorded object.
VerifyObject(p) ==
    /\ pc[p] = "read"
    /\ Len(checks[p]) < Len(row.objects)
    /\ LET o == row.objects[Len(checks[p]) + 1]
       IN  \E c \in IF verifiable(o) THEN verifyObject(o, ctx[p]) ELSE {"none"} :
              checks' = [checks EXCEPT ![p] = Append(@, c)]
    /\ UNCHANGED <<row, windowOver, pc, expired, ctx, answer, evidence, late, audit, reaped>>

\* Only the owner's request writes.
FinishPass(p) ==
    /\ pc[p] = "read"
    /\ Len(checks[p]) = Len(row.objects)
    /\ Goto(p, IF p \in Persister THEN "write" ELSE "written")
    /\ UNCHANGED <<row, windowOver, checks, expired, ctx, answer, evidence, late, audit, reaped>>

WriteVerdict(p) ==
    /\ pc[p] = "write"
    /\ ctx[p]
    /\ row.verdict \notin FinalVerdict
    /\ Store(Evaluate(p), Checks(p))
    /\ Goto(p, "written")
    /\ UNCHANGED <<windowOver, checks, expired, ctx, answer, late, audit, reaped>>

\* Mutant: the refused request answers what it computed.
WriteRefusedAnswersOwn(p) ==
    /\ pc[p] = "write"
    /\ ctx[p]
    /\ row.verdict \in FinalVerdict
    /\ Return(p, Evaluate(p))
    /\ UNCHANGED <<row, windowOver, evidence, late, audit, reaped>>

\* Mutant: the refused request goes on as if its write had landed.
WriteRefusedIsPersisted(p) ==
    /\ pc[p] = "write"
    /\ ctx[p]
    /\ row.verdict \in FinalVerdict
    /\ Goto(p, "written")
    /\ UNCHANGED <<row, windowOver, checks, expired, ctx, answer, evidence, late, audit, reaped>>

\* ErrReceiptAlreadyFinal: another verdict landed first.
WriteRefused(p) ==
    /\ pc[p] = "write"
    /\ ctx[p]
    /\ row.verdict \in FinalVerdict
    /\ Goto(p, "reread")
    /\ UNCHANGED <<row, windowOver, checks, expired, ctx, answer, evidence, late, audit, reaped>>

\* The write failed for the client; the server may execute it all the same.
WriteError(p) ==
    /\ pc[p] = "write"
    /\ \/ UNCHANGED late
       \/ /\ late = NoWrite
          /\ late' = [verdict |-> Evaluate(p), checks |-> Checks(p)]
    /\ Return(p, "error")
    /\ UNCHANGED <<row, windowOver, evidence, audit, reaped>>

\* The stored verdict is read back; the read, or the context after it, may fail.
Reread(p) ==
    /\ pc[p] = "reread"
    /\ \/ ctx[p] /\ Return(p, row.verdict)
       \/ Return(p, "error")
    /\ UNCHANGED <<row, windowOver, evidence, late, audit, reaped>>

\* After VerifyOnce an ended context is an error for every reader; otherwise a
\* final verdict whose write landed is audited.
AnswerPass(p) ==
    /\ pc[p] = "written"
    /\ Return(p, IF ctx[p] THEN Evaluate(p) ELSE "error")
    /\ audit' = IF ctx[p] /\ p \in Persister /\ Evaluate(p) \in FinalVerdict
                THEN [audit EXCEPT ![p] = @ \union {Evaluate(p)}]
                ELSE audit
    /\ UNCHANGED <<row, windowOver, evidence, late, reaped>>

-----------------------------------------------------------------------------
(* Around it *)

\* The client goes away or the time allowed for the cluster is over.
ContextEnds(p) ==
    /\ pc[p] # "idle"
    /\ ctx[p]
    /\ ctx' = [ctx EXCEPT ![p] = FALSE]
    /\ UNCHANGED <<row, windowOver, pc, checks, expired, answer, evidence, late, audit, reaped>>

\* A write given up by its client is executed.
LateVerdict ==
    /\ late # NoWrite
    /\ Store(late.verdict, late.checks)
    /\ late' = NoWrite
    /\ UNCHANGED <<windowOver, pc, checks, expired, ctx, answer, audit, reaped>>

\* The apply closes its row: failed if it never started, unknown if a record of
\* it was lost, else what its outcomes come to.
FinishApply ==
    /\ InFlight(row)
    /\ LET outcomes == [k \in DOMAIN row.objects |-> row.objects[k].outcome]
       IN  \E s \in IF row.started THEN {stateFor(outcomes), "unknown"} ELSE {"failed"} :
              row' = Finalize(row, s)
    /\ UNCHANGED <<windowOver, pc, checks, expired, ctx, answer, evidence, late, audit, reaped>>

\* The age of a row matters while it is in flight.
GrowOld ==
    /\ InFlight(row)
    /\ row.age = "young"
    /\ row' = [row EXCEPT !.age = "stale"]
    /\ UNCHANGED <<windowOver, pc, checks, expired, ctx, answer, evidence, late, audit, reaped>>

\* The sweeper closes a row whose process is gone and gives it a verdict.
Reconcile ==
    /\ Orphan(row)
    /\ row' = ReconcileOrphan(row)
    /\ reaped' = TRUE
    /\ UNCHANGED <<windowOver, pc, checks, expired, ctx, answer, evidence, late, audit>>

\* verificationWindow after completed_at.
WindowCloses ==
    /\ row.completed
    /\ ~windowOver
    /\ windowOver' = TRUE
    /\ UNCHANGED <<row, pc, checks, expired, ctx, answer, evidence, late, audit, reaped>>

-----------------------------------------------------------------------------

Pass(p) ==
    \/ Load(p) \/ VerifyObject(p) \/ FinishPass(p)
    \/ WriteVerdict(p) \/ WriteRefused(p) \/ WriteError(p)
    \/ Reread(p) \/ AnswerPass(p)

Next ==
    \/ \E p \in Poller : Pass(p) \/ ContextEnds(p)
    \/ LateVerdict \/ FinishApply \/ GrowOld \/ Reconcile \/ WindowCloses

Spec == Init /\ [][Next]_vars

-----------------------------------------------------------------------------
(* Properties *)

\* The receipt's columns and every poller's frame keep their types, and only a
\* final verdict reaches the audit hook.
TypeOK ==
    /\ row \in Row
    /\ windowOver \in BOOLEAN /\ reaped \in BOOLEAN
    /\ pc \in [Poller -> {"idle", "read", "write", "written", "reread"}]
    /\ checks \in [Poller -> Seq(CheckStatus)]
    /\ expired \in [Poller -> BOOLEAN] /\ ctx \in [Poller -> BOOLEAN]
    /\ answer \in [Poller -> Verdict \union {"none", "error"}]
    /\ evidence \in [Doc -> CheckStatus]
    /\ late = NoWrite \/ late \in [verdict : Verdict, checks : [Doc -> CheckStatus]]
    /\ audit \in [Poller -> SUBSET FinalVerdict]

\* "such a receipt can never aggregate to verified": a verified receipt is
\* finished, holds an outcome for every document, and its stored checks passed
\* for every document that may be on the cluster, of which there is one.  A
\* failed one holds the check of an object found gone.
VerdictEarned ==
    LET may == {i \in Doc : \E k \in DOMAIN row.objects :
                    row.objects[k].index = i /\ verifiable(row.objects[k])}
    IN  /\ row.verdict = "verified" =>
              /\ row.completed /\ row.state \in Terminal
              /\ Recorded = Doc
              /\ may # {}
              /\ \A i \in may : evidence[i] = "pass"
        /\ row.verdict = "verification_failed" => \E i \in may : evidence[i] = "fail"
        /\ row.verdict = "verifying" => \E i \in may : evidence[i] = "retry"

\* "the first final verdict wins": whatever final state the owner is answered,
\* by his own pass, by a refused write or from the row, is the stored one.
OwnerAnswersAgree ==
    \A p \in Persister : answer[p] \in FinalVerdict => answer[p] = row.verdict

\* The audit trail names the stored verdict, is written by the one request
\* whose write landed it, and never for a verdict the reconciler wrote.
AuditNamesTheVerdict ==
    /\ \A p \in Poller : audit[p] \subseteq {row.verdict}
    /\ \A p, q \in Poller : audit[p] # {} /\ audit[q] # {} => p = q
    /\ \A p \in Poller : audit[p] # {} => ~reaped

\* Polling ends: a pass of the owner that began after the window leaves a final
\* verdict behind when its write has landed, whatever it read and whoever wrote
\* before or writes later.
WindowDecides ==
    \A p \in Persister : pc[p] = "written" /\ expired[p] => row.verdict \in FinalVerdict
=============================================================================
