--------------------------- MODULE ChangeReceipts ---------------------------
(***************************************************************************)
(* Tracked applies and their durable receipts.                             *)
(*                                                                         *)
(*   backend/internal/changes/service.go         TrackedApply, recorder    *)
(*   backend/internal/yaml/applier.go            the observed apply engine *)
(*   backend/cmd/kubecenter/receipt_sweep.go     reconcile and retention   *)
(*                                                                         *)
(* A request names an operation id, inserts an intent row, stamps it,      *)
(* sends its documents to the API server one at a time, appends each       *)
(* outcome before the next document is sent, and finalizes the row.  Every *)
(* SQL statement may fail, or fail on the client and still commit at the   *)
(* server (the recording context expires, the connection breaks), now or   *)
(* later: such a statement sits in late[r] until it lands.  A process may  *)
(* die between any two steps.  The sweeper closes rows past the grace.     *)
(*                                                                         *)
(* One document's fate on the cluster is ground truth the code cannot see: *)
(*   held[o]  documents of operation o the API server has committed;       *)
(*   cut[o]   documents whose PATCH was sent and never answered, so that   *)
(*            the API server may still commit them.                        *)
(***************************************************************************)
EXTENDS ReceiptTable

CONSTANTS
    Op,         \* operation ids (client supplied UUIDs)
    Req         \* HTTP requests; each is handled once

VARIABLES
    rows,       \* the change_receipts table, one row per operation id
    pc,         \* where each request is in TrackedApply
    arg,        \* what each request submitted
    out,        \* outcomes the engine of each request attempted, in order
    recErr,     \* recorder.err: recording failed, nothing more is recorded
    reply,      \* what each request was answered
    late,       \* statements of each request the server may still execute
    held,       \* documents the API server committed
    cut,        \* documents sent but unanswered
    ran         \* requests that entered the apply engine for the current row

vars == <<rows, pc, arg, out, recErr, reply, late, held, cut, ran>>

-----------------------------------------------------------------------------
(* What a request computes *)

Submission == [op : Op, owner : Owner, body : Body]

NotAttempted == "notAttempted"
NotRecorded == "notRecorded"
Claim == Outcome \union {NotAttempted, NotRecorded, "none"}

NoClaims == [i \in Doc |-> "none"]
NoReply == [kind |-> "none", claims |-> NoClaims]

\* Answers that carry no per-document result: each tells the client that this
\* request applied nothing.
Refusals == {"unavailable", "conflict", "reused", "inFlight"}
Refuse(k) == [kind |-> k, claims |-> NoClaims]
Reply == [kind : {"none", "live", "replay"} \union Refusals, claims : [Doc -> Claim]]

\* A recording failure means the receipt does not match what happened.
finalState(r) == IF recErr[r] THEN "unknown" ELSE stateFor(out[r])

\* assembleResults: the attempted outcomes laid over the documents.
assembleResults(s) ==
    [kind |-> "live",
     claims |-> [i \in Doc |-> IF i \in Attempted(s) THEN s[i] ELSE NotAttempted]]

\* Mutant: every hole is reported as never attempted.
replayHolesNotAttempted(row) ==
    LET Recorded(i) == {k \in 1 .. Len(row.objects) : row.objects[k].index = i}
    IN  [kind |-> "replay",
         claims |-> [i \in Doc |->
            IF Recorded(i) = {} THEN NotAttempted
            ELSE row.objects[CHOOSE k \in Recorded(i) : TRUE].outcome]]

\* replay: recorded outcomes; a hole of an interrupted (unknown) receipt may be
\* on the cluster, a hole of any other terminal receipt was not attempted.  (The
\* last record of a document would win; TruthfulPrefix says there is only one.)
replay(row) ==
    LET Hole == IF row.state = "unknown" THEN NotRecorded ELSE NotAttempted
        Recorded(i) == {k \in 1 .. Len(row.objects) : row.objects[k].index = i}
    IN  [kind |-> "replay",
         claims |-> [i \in Doc |->
            IF Recorded(i) = {} THEN Hole
            ELSE row.objects[CHOOSE k \in Recorded(i) : TRUE].outcome]]

\* The outcome the recorder is appending: the last one attempted.
observation(r) == [index |-> Len(out[r]), outcome |-> out[r][Len(out[r])]]

-----------------------------------------------------------------------------
(* Statements *)

Statement == {"insert", "mark", "close", "append", "finalize"}

\* The statement a request is executing at each point of TrackedApply.
Executing(p) ==
    CASE p = "insert" -> {"insert"}
      [] p = "mark" -> {"mark"}
      [] p = "close" -> {"close"}
      [] p = "record" -> {"append"}
      [] p = "finalize" -> {"finalize"}
      [] OTHER -> {}

\* The effect of one statement of request r on its row.
Execute(r, s) ==
    LET row == rows[arg[r].op]
    IN  CASE s = "insert" -> Insert(row, arg[r])
          [] s = "mark" -> MarkMutationStarted(row)
          [] s = "close" -> Finalize(row, "failed")
          [] s = "append" -> AppendObject(row, observation(r))
          [] s = "finalize" -> Finalize(row, finalState(r))

Commit(r, s) == rows' = [rows EXCEPT ![arg[r].op] = Execute(r, s)]

\* The statement failed on the client: it is lost, or the server executes it
\* at some later time.
Lose(r, s) == late' \in {late, [late EXCEPT ![r] = @ \union {s}]}

Goto(r, p) == pc' = [pc EXCEPT ![r] = p]
Answer(r, a) == Goto(r, "done") /\ reply' = [reply EXCEPT ![r] = a]

MyRow(r) == rows[arg[r].op]

Init ==
    /\ rows = [o \in Op |-> NoRow]
    /\ pc = [r \in Req |-> "idle"]
    /\ arg \in [Req -> Submission]
    /\ out = [r \in Req |-> <<>>]
    /\ recErr = [r \in Req |-> FALSE]
    /\ reply = [r \in Req |-> NoReply]
    /\ late = [r \in Req |-> {}]
    /\ held = [o \in Op |-> {}]
    /\ cut = [o \in Op |-> {}]
    /\ ran = [o \in Op |-> {}]

-----------------------------------------------------------------------------
(* TrackedApply, one action per statement or per step of the engine *)

engineVars == <<out, recErr, held, cut, ran>>

\* A validated request reaches TrackedApply.
Submit(r) ==
    /\ pc[r] = "idle"
    /\ Goto(r, "insert")
    /\ UNCHANGED <<rows, arg, reply, late, engineVars>>

\* Step 2: the intent is recorded.
InsertIntent(r) ==
    /\ pc[r] = "insert"
    /\ ~Exists(MyRow(r))
    /\ Commit(r, "insert")
    /\ Goto(r, "mark")
    /\ UNCHANGED <<arg, reply, late, engineVars>>

\* Mutant: an unfinished row found by a retry is taken over.
InsertCollidesResumes(r) ==
    /\ pc[r] = "insert"
    /\ Exists(MyRow(r))
    /\ Goto(r, IF InFlight(MyRow(r)) THEN "mark" ELSE "resolve")
    /\ UNCHANGED <<rows, arg, reply, late, engineVars>>

\* ErrReceiptExists: the stored row decides what this request is.
InsertCollides(r) ==
    /\ pc[r] = "insert"
    /\ Exists(MyRow(r))
    /\ Goto(r, "resolve")
    /\ UNCHANGED <<rows, arg, reply, late, engineVars>>

InsertError(r) ==
    /\ pc[r] = "insert"
    /\ Lose(r, "insert")
    /\ Answer(r, Refuse("unavailable"))
    /\ UNCHANGED <<rows, arg, engineVars>>

\* resolveExisting; the branch order is owner, content, in flight, replay.
resolved(row, q) ==
    CASE ~Exists(row) -> Refuse("unavailable")
      [] row.owner # q.owner -> Refuse("conflict")
      [] row.body # q.body -> Refuse("reused")
      [] row.state \notin Terminal -> Refuse("inFlight")
      [] OTHER -> replay(row)

ResolveExisting(r) ==
    /\ pc[r] = "resolve"
    /\ \/ Answer(r, resolved(MyRow(r), arg[r]))
       \/ Answer(r, Refuse("unavailable"))      \* the read failed
    /\ UNCHANGED <<rows, arg, late, engineVars>>

\* Step 3: the mutation window opens.
MarkStarted(r) ==
    /\ pc[r] = "mark"
    /\ InFlight(MyRow(r))
    /\ Commit(r, "mark")
    /\ ran' = [ran EXCEPT ![arg[r].op] = @ \union {r}]
    /\ Goto(r, "apply")
    /\ UNCHANGED <<arg, reply, late, out, recErr, held, cut>>

\* ErrReceiptAlreadyFinal: reconciled between insert and mark; the id is spent.
MarkRefused(r) ==
    /\ pc[r] = "mark"
    /\ Exists(MyRow(r)) /\ MyRow(r).completed
    /\ Answer(r, Refuse("reused"))
    /\ UNCHANGED <<rows, arg, late, engineVars>>

MarkError(r) ==
    /\ pc[r] = "mark"
    /\ Lose(r, "mark")
    /\ Goto(r, "close")
    /\ UNCHANGED <<rows, arg, reply, engineVars>>

\* Best effort finalize(failed) after a failed mark; 503 either way.
CloseNeverStarted(r) ==
    /\ pc[r] = "close"
    /\ \/ Commit(r, "close") /\ UNCHANGED late
       \/ Lose(r, "close") /\ UNCHANGED rows
    /\ Answer(r, Refuse("unavailable"))
    /\ UNCHANGED <<arg, engineVars>>

\* Step 4.  ApplyDocumentsObserved attempts documents in order.
NextDoc(r) == Len(out[r]) + 1

Observe(r, c) ==
    /\ out' = [out EXCEPT ![r] = Append(@, c)]
    /\ Goto(r, "record")
    /\ UNCHANGED <<rows, arg, recErr, reply, late, ran>>

Engine(r) == pc[r] = "apply" /\ NextDoc(r) \in Doc

\* The request context ended before the PATCH was issued: the document and the
\* rest are never sent and never observed.
EngineStops(r) ==
    /\ Engine(r)
    /\ Goto(r, "finalize")
    /\ UNCHANGED <<rows, arg, reply, late, engineVars>>

\* No mapping, an unencodable object, or a definite refusal by the API server.
DocumentRejected(r) ==
    /\ Engine(r)
    /\ Observe(r, "rejected")
    /\ UNCHANGED <<held, cut>>

DocumentApplied(r) ==
    /\ Engine(r)
    /\ held' = [held EXCEPT ![arg[r].op] = @ \union {NextDoc(r)}]
    /\ Observe(r, "applied")
    /\ UNCHANGED cut

\* The PATCH was sent and its answer is missing or a 5xx (ClassifyAPIError).
DocumentCutOff(r) ==
    /\ Engine(r)
    /\ cut' = [cut EXCEPT ![arg[r].op] = @ \union {NextDoc(r)}]
    /\ \E c \in Indeterminate : Observe(r, c)
    /\ UNCHANGED held

\* Mutant: the engine does not stop on an observer error.
AfterRecordingGoesOn(r, failed) ==
    IF Len(out[r]) = DocCount THEN "finalize" ELSE "apply"

\* After the last document, or after a recording failure, comes step 5.
AfterRecording(r, failed) ==
    IF failed \/ Len(out[r]) = DocCount THEN "finalize" ELSE "apply"

RecordOutcome(r) ==
    /\ pc[r] = "record"
    /\ InFlight(MyRow(r))
    /\ Commit(r, "append")
    /\ Goto(r, AfterRecording(r, FALSE))
    /\ UNCHANGED <<arg, reply, late, engineVars>>

\* The append failed, or was refused because the row is final or gone.
RecordError(r) ==
    /\ pc[r] = "record"
    /\ Lose(r, "append")
    /\ recErr' = [recErr EXCEPT ![r] = TRUE]
    /\ Goto(r, AfterRecording(r, TRUE))
    /\ UNCHANGED <<rows, arg, reply, out, held, cut, ran>>

\* Step 5.  A failure is a warning, never an error: the results are answered.
FinalizeReceipt(r) ==
    /\ pc[r] = "finalize"
    /\ \/ InFlight(MyRow(r)) /\ Commit(r, "finalize") /\ UNCHANGED late
       \/ Lose(r, "finalize") /\ UNCHANGED rows
    /\ Answer(r, assembleResults(out[r]))
    /\ UNCHANGED <<arg, engineVars>>

-----------------------------------------------------------------------------
(* Failures and the passage of time *)

\* The process dies.  The statement or the PATCH it was executing may still
\* take effect.
Crash(r) ==
    /\ pc[r] \notin {"idle", "done"}
    /\ late' \in {late, [late EXCEPT ![r] = @ \union Executing(pc[r])]}
    /\ \/ UNCHANGED cut
       \/ Engine(r) /\ cut' = [cut EXCEPT ![arg[r].op] = @ \union {NextDoc(r)}]
    /\ Goto(r, "done")
    /\ UNCHANGED <<rows, arg, out, recErr, reply, held, ran>>

\* A statement whose client gave up commits at the server.
LateStatement(r) ==
    \E s \in late[r] :
        /\ Commit(r, s)
        /\ late' = [late EXCEPT ![r] = @ \ {s}]
        /\ UNCHANGED <<pc, arg, reply, engineVars>>

\* The API server commits a PATCH nobody waits for any more.
LatePatch(o) ==
    \E i \in cut[o] :
        /\ held' = [held EXCEPT ![o] = @ \union {i}]
        /\ cut' = [cut EXCEPT ![o] = @ \ {i}]
        /\ UNCHANGED <<rows, pc, arg, out, recErr, reply, late, ran>>

\* created_at falls behind the orphan grace.  Nothing stops a live request
\* from being this slow.
GrowOld(o) ==
    /\ Exists(rows[o]) /\ rows[o].age = "young"
    /\ rows' = [rows EXCEPT ![o].age = "stale"]
    /\ UNCHANGED <<pc, arg, reply, late, engineVars>>

Live(r) == pc[r] \notin {"idle", "done"}

\* created_at falls behind the retention (at least one day).  No request and
\* no statement is a day old.
Expire(o) ==
    LET mine == {r \in Req : arg[r].op = o}
    IN  /\ Exists(rows[o]) /\ rows[o].age = "stale"
        /\ \A r \in mine : ~Live(r)
        /\ rows' = [rows EXCEPT ![o].age = "expired"]
        /\ late' = [r \in Req |-> IF r \in mine THEN {} ELSE late[r]]
        /\ cut' = [cut EXCEPT ![o] = {}]
        /\ UNCHANGED <<pc, arg, out, recErr, reply, held, ran>>

\* ReconcileOrphans: one UPDATE over every orphaned row.
Reconcile ==
    /\ \E o \in Op : Orphan(rows[o])
    /\ rows' = [o \in Op |-> ReconcileOrphan(rows[o])]
    /\ UNCHANGED <<pc, arg, reply, late, engineVars>>

\* Cleanup: one DELETE of every expired row.  The id is free again: held, ran
\* and reply speak of operations on record and forget the ones that are gone.
Cleanup ==
    LET gone == {o \in Op : Exists(rows[o]) /\ rows[o].age = "expired"}
        Drop(f) == [o \in Op |-> IF o \in gone THEN {} ELSE f[o]]
    IN  /\ gone # {}
        /\ rows' = [o \in Op |-> IF o \in gone THEN NoRow ELSE rows[o]]
        /\ held' = Drop(held) /\ ran' = Drop(ran)
        /\ reply' = [r \in Req |-> IF arg[r].op \in gone THEN NoReply ELSE reply[r]]
        /\ UNCHANGED <<pc, arg, out, recErr, late, cut>>

Step(r) ==
    \/ InsertIntent(r) \/ InsertCollides(r) \/ InsertError(r)
    \/ ResolveExisting(r)
    \/ MarkStarted(r) \/ MarkRefused(r) \/ MarkError(r) \/ CloseNeverStarted(r)
    \/ EngineStops(r) \/ DocumentRejected(r) \/ DocumentApplied(r) \/ DocumentCutOff(r)
    \/ RecordOutcome(r) \/ RecordError(r) \/ FinalizeReceipt(r)

Next ==
    \/ \E r \in Req : Submit(r) \/ Step(r) \/ Crash(r) \/ LateStatement(r)
    \/ \E o \in Op : LatePatch(o) \/ GrowOld(o) \/ Expire(o)
    \/ Reconcile
    \/ Cleanup

Spec == Init /\ [][Next]_vars

\* A handler that was not killed runs on, time passes, and the sweeper ticks
\* every ten minutes.
Fairness ==
    /\ \A r \in Req : WF_vars(Step(r))
    /\ \A o \in Op : WF_vars(GrowOld(o))
    /\ WF_vars(Reconcile)

FairSpec == Spec /\ Fairness

-----------------------------------------------------------------------------
(* Properties *)

\* Every variable keeps its type: the columns of change_receipts, the local
\* state of TrackedApply and the ground truth about the cluster.
TypeOK ==
    /\ rows \in [Op -> Row \union {NoRow}]
    /\ pc \in [Req -> {"idle", "insert", "resolve", "mark", "close", "apply",
                       "record", "finalize", "done"}]
    /\ arg \in [Req -> Submission]
    /\ out \in [Req -> Seq(Outcome)]
    /\ recErr \in [Req -> BOOLEAN]
    /\ reply \in [Req -> Reply]
    /\ late \in [Req -> SUBSET Statement]
    /\ held \in [Op -> SUBSET Doc]
    /\ cut \in [Op -> SUBSET Doc]
    /\ ran \in [Op -> SUBSET Req]

Sent(o) == held[o] \union cut[o]

\* "apply is called at most once": whatever is retried, lost or late, one
\* operation id runs the engine for one request only while its row is kept.
EngineRunsOnce == \A o \in Op : \A r, s \in ran[o] : r = s

\* "a crash leaves a truthful ordered prefix": the recorded outcomes are the
\* first documents in order, each says what the cluster holds, and the cluster
\* is ahead of the receipt by one document at most.
TruthfulPrefix ==
    \A o \in Op : Exists(rows[o]) =>
        LET objects == rows[o].objects
        IN  /\ \A k \in 1 .. Len(objects) :
                    /\ objects[k].index = k
                    /\ objects[k].outcome = "applied" => k \in held[o]
                    /\ objects[k].outcome = "rejected" => k \notin Sent(o)
            /\ \A i \in Sent(o) : i <= Len(objects) + 1

\* "A crash between any two of these leaves a row ReconcileOrphans can classify
\* truthfully": a terminal state other than unknown accounts for every document
\* sent to the cluster, and a row never stamped has sent nothing.
ClassifiedTruthfully ==
    \A o \in Op :
        /\ Sent(o) # {} => Exists(rows[o]) /\ rows[o].started
        /\ Exists(rows[o]) /\ rows[o].state \in Terminal \ {"unknown"} =>
              /\ \A i \in Sent(o) : i <= Len(rows[o].objects)
              /\ rows[o].state = "applied" => held[o] = Doc

\* What a client was told stays true: a refusal means this request applied
\* nothing, "applied" means the cluster holds the document, and "rejected" or
\* "not attempted" that no PATCH for it can ever commit.
AnswersTruthful ==
    \A r \in Req :
        LET o == arg[r].op
        IN  /\ reply[r].kind \in Refusals \union {"replay"} => r \notin ran[o]
            /\ \A i \in Doc :
                  /\ reply[r].claims[i] = "applied" => i \in held[o]
                  /\ reply[r].claims[i] \in {"rejected", NotAttempted} => i \notin Sent(o)

\* A receipt that was reaped or finalized is never modified afterwards, by a
\* live apply or by a late statement, until retention deletes it.
FinalRowsFrozen ==
    [][\A o \in Op : Exists(rows[o]) /\ rows[o].completed =>
          \/ rows[o].age = "expired" /\ ~Exists(rows'[o])
          \/ /\ Exists(rows'[o])
             /\ rows'[o].state = rows[o].state
             /\ rows'[o].completed
             /\ rows'[o].started = rows[o].started
             /\ rows'[o].objects = rows[o].objects]_vars

\* No operation stays in flight: a row whose process died is reaped.
InFlightEnds == \A o \in Op : InFlight(rows[o]) ~> ~InFlight(rows[o])
=============================================================================
