------------------------ MODULE ChangeReceiptsProofs ------------------------
(***************************************************************************)
(* Proofs about ChangeReceipts for any operation ids, requests, users,     *)
(* bundles and document count.                                             *)
(***************************************************************************)
EXTENDS ChangeReceipts, TLAPS

AnyRow == Row \union {NoRow}

-----------------------------------------------------------------------------
(* What each statement does to the type of a row *)

\* An element of a sequence is an element of its set.
LEMMA ElementOf ==
    ASSUME NEW S, NEW s \in Seq(S), NEW k \in 1 .. Len(s)
    PROVE  s[k] \in S
  OBVIOUS

\* A row that exists has every column.
LEMMA ExistsIsRow ==
    ASSUME NEW row \in AnyRow, Exists(row)
    PROVE  row \in Row
  BY DEF AnyRow, Exists, NoRow

\* INSERT yields a row of the table's type.
LEMMA InsertType ==
    ASSUME NEW row \in AnyRow, NEW q \in Submission
    PROVE  Insert(row, q) \in AnyRow
<1>1. CASE Exists(row)
  BY <1>1 DEF Insert
<1>2. CASE ~Exists(row)
  <2>1. Insert(row, q) \in Row
    BY <1>2 DEF Insert, Row, Submission, Terminal, Verdict
  <2> QED BY <2>1 DEF AnyRow
<1> QED BY <1>1, <1>2

\* MarkMutationStarted keeps the type of a row, found or not.
LEMMA MarkType ==
    ASSUME NEW row \in AnyRow
    PROVE  MarkMutationStarted(row) \in AnyRow
  BY DEF MarkMutationStarted, InFlight, Exists, AnyRow, Row, NoRow

\* So does AppendObject, for an outcome of a document of the bundle.
LEMMA AppendType ==
    ASSUME NEW row \in AnyRow, NEW o \in [index : Doc, outcome : Outcome]
    PROVE  AppendObject(row, o) \in AnyRow
<1>1. CASE InFlight(row)
  <2>1. row \in Row
    BY <1>1, ExistsIsRow DEF InFlight
  <2>2. Append(row.objects, o) \in Seq([index : Doc, outcome : Outcome])
    BY <2>1 DEF Row
  <2>3. AppendObject(row, o) = [row EXCEPT !.objects = Append(row.objects, o)]
    BY <1>1 DEF AppendObject
  <2>4. AppendObject(row, o) \in Row
    BY <2>1, <2>2, <2>3 DEF Row
  <2> QED BY <2>4 DEF AnyRow
<1>2. CASE ~InFlight(row)
  BY <1>2 DEF AppendObject
<1> QED BY <1>1, <1>2

\* So does Finalize, for a terminal state.
LEMMA FinalizeType ==
    ASSUME NEW row \in AnyRow, NEW s \in Terminal
    PROVE  Finalize(row, s) \in AnyRow
<1>1. CASE InFlight(row)
  <2>1. row \in Row
    BY <1>1, ExistsIsRow DEF InFlight
  <2>2. Finalize(row, s) \in Row
    BY <1>1, <2>1 DEF Finalize, Row
  <2> QED BY <2>2 DEF AnyRow
<1>2. CASE ~InFlight(row)
  BY <1>2 DEF Finalize
<1> QED BY <1>1, <1>2

\* So does the sweeper's ReconcileOrphans.
LEMMA ReconcileType ==
    ASSUME NEW row \in AnyRow
    PROVE  ReconcileOrphan(row) \in AnyRow
<1>1. CASE Orphan(row)
  <2>1. row \in Row
    BY <1>1, ExistsIsRow DEF InFlight, Orphan
  <2>2. ReconcileOrphan(row) \in Row
    BY <1>1, <2>1 DEF ReconcileOrphan, Row, Terminal, Verdict, FinalVerdict
  <2> QED BY <2>2 DEF AnyRow
<1>2. CASE ~Orphan(row)
  BY <1>2 DEF ReconcileOrphan
<1> QED BY <1>1, <1>2

\* The state a fully recorded apply ends in is terminal.
LEMMA StateForTerminal ==
    ASSUME NEW s
    PROVE  stateFor(s) \in Terminal
  BY DEF stateFor, Terminal

-----------------------------------------------------------------------------
(* Type correctness *)

\* The recorder only ever appends the outcome of a document of the bundle; the
\* type of objects needs it.
ObservationInRange ==
    \A r \in Req : pc[r] = "record" \/ "append" \in late[r] => Len(out[r]) \in Doc

TypeInv == TypeOK /\ ObservationInRange

\* What the recorder appends is an outcome of a document of the bundle.
LEMMA ObservationType ==
    ASSUME TypeOK, NEW r \in Req, Len(out[r]) \in Doc
    PROVE  observation(r) \in [index : Doc, outcome : Outcome]
<1>1. out[r] \in Seq(Outcome) /\ Len(out[r]) \in 1 .. Len(out[r])
  BY DocCountAssumption DEF TypeOK, Doc
<1>2. out[r][Len(out[r])] \in Outcome
  BY <1>1, ElementOf
<1> QED BY <1>2 DEF observation

\* Every statement of TrackedApply leaves a row of the table's type.
LEMMA ExecuteType ==
    ASSUME TypeOK, NEW r \in Req, NEW s \in Statement,
           s = "append" => Len(out[r]) \in Doc
    PROVE  Execute(r, s) \in AnyRow
<1>1. rows[arg[r].op] \in AnyRow /\ arg[r] \in Submission
  BY DEF TypeOK, AnyRow, Submission
<1>2. finalState(r) \in Terminal /\ "failed" \in Terminal
  BY StateForTerminal DEF finalState, Terminal
<1>3. s = "append" => observation(r) \in [index : Doc, outcome : Outcome]
  BY ObservationType
<1>4. CASE s = "insert"
  BY <1>4, <1>1, InsertType DEF Execute
<1>5. CASE s = "mark"
  BY <1>5, <1>1, MarkType DEF Execute
<1>6. CASE s = "close"
  BY <1>6, <1>1, <1>2, FinalizeType DEF Execute
<1>7. CASE s = "append"
  BY <1>7, <1>1, <1>3, AppendType DEF Execute
<1>8. CASE s = "finalize"
  BY <1>8, <1>1, <1>2, FinalizeType DEF Execute
<1> QED BY <1>4, <1>5, <1>6, <1>7, <1>8 DEF Statement

\* A committed statement keeps the type of the table.
LEMMA CommitType ==
    ASSUME TypeOK, NEW r \in Req, NEW s \in Statement, Commit(r, s),
           s = "append" => Len(out[r]) \in Doc
    PROVE  rows' \in [Op -> Row \union {NoRow}]
<1>1. Execute(r, s) \in Row \union {NoRow}
  BY ExecuteType DEF AnyRow
<1> QED BY <1>1 DEF Commit, TypeOK

\* A lost statement is forgotten, or waits among its own request's late ones.
LEMMA LoseEffect ==
    ASSUME TypeOK, NEW r \in Req, NEW s \in Statement, Lose(r, s)
    PROVE  /\ late' \in [Req -> SUBSET Statement]
           /\ \A q \in Req : q # r => late'[q] = late[q]
           /\ late'[r] = late[r] \/ late'[r] = late[r] \union {s}
<1>1. late \in [Req -> SUBSET Statement]
  BY DEF TypeOK
<1>2. CASE late' = late
  BY <1>1, <1>2
<1>3. CASE late' = [late EXCEPT ![r] = @ \union {s}]
  BY <1>1, <1>3
<1> QED BY <1>2, <1>3 DEF Lose

\* A refusal is a reply.
LEMMA RefuseType ==
    ASSUME NEW k \in Refusals
    PROVE  Refuse(k) \in Reply
  BY DEF Refuse, Reply, NoClaims, Claim

\* A replay claims an outcome or a hole for every document.
LEMMA ReplayType ==
    ASSUME NEW row \in Row
    PROVE  replay(row) \in Reply
<1> DEFINE Hole == IF row.state = "unknown" THEN NotRecorded ELSE NotAttempted
           Rec(i) == {k \in 1 .. Len(row.objects) : row.objects[k].index = i}
           C(i) == IF Rec(i) = {} THEN Hole ELSE row.objects[CHOOSE k \in Rec(i) : TRUE].outcome
<1>1. ASSUME NEW i \in Doc PROVE C(i) \in Claim
  <2>1. Hole \in Claim
    BY DEF Claim
  <2>2. ASSUME Rec(i) # {} PROVE row.objects[CHOOSE k \in Rec(i) : TRUE].outcome \in Outcome
    <3>1. PICK k : k = CHOOSE j \in Rec(i) : TRUE
      OBVIOUS
    <3>2. k \in Rec(i)
      BY <2>2, <3>1
    <3>3. row.objects \in Seq([index : Doc, outcome : Outcome]) /\ k \in 1 .. Len(row.objects)
      BY <3>2 DEF Row
    <3>4. row.objects[k] \in [index : Doc, outcome : Outcome]
      BY <3>3, ElementOf
    <3> QED BY <3>1, <3>4
  <2> QED BY <2>1, <2>2 DEF Claim
<1>2. replay(row).claims = [i \in Doc |-> C(i)] /\ replay(row) = [kind |-> "replay", claims |-> [i \in Doc |-> C(i)]]
  BY DEF replay
<1>3. [i \in Doc |-> C(i)] \in [Doc -> Claim]
  BY <1>1
<1> QED BY <1>2, <1>3 DEF Reply

\* The results laid over the documents (assembleResults) are a reply.
LEMMA AssembleType ==
    ASSUME NEW s \in Seq(Outcome)
    PROVE  assembleResults(s) \in Reply
<1>1. ASSUME NEW i \in Doc
      PROVE  (IF i \in Attempted(s) THEN s[i] ELSE NotAttempted) \in Claim
  BY ElementOf DEF Attempted, Claim
<1> QED BY <1>1 DEF assembleResults, Reply

\* Whatever row resolveExisting finds, its answer is a reply.
LEMMA ResolvedType ==
    ASSUME NEW row \in AnyRow, NEW q \in Submission
    PROVE  resolved(row, q) \in Reply
<1>1. \A k \in Refusals : Refuse(k) \in Reply
  BY RefuseType
<1>2. Exists(row) => replay(row) \in Reply
  BY ExistsIsRow, ReplayType
<1> QED BY <1>1, <1>2 DEF resolved, Refusals

\* Every action of the apply, the sweeper and the failures preserves TypeInv.
LEMMA TypeInvInductive == TypeInv /\ [Next]_vars => TypeInv'
<1> SUFFICES ASSUME TypeInv, [Next]_vars PROVE TypeInv'
  OBVIOUS
<1> USE DEF TypeInv, ObservationInRange
<1>0. NoReply \in Reply /\ \A k \in Refusals : Refuse(k) \in Reply
  BY RefuseType DEF NoReply, Reply, NoClaims, Claim
<1>a. Doc \subseteq Nat
  BY DEF Doc
<1>1. ASSUME NEW r \in Req, Submit(r) PROVE TypeInv'
  BY <1>1 DEF TypeOK, Submit, Goto, engineVars
<1>2. ASSUME NEW r \in Req, InsertIntent(r) PROVE TypeInv'
  <2>1. rows' \in [Op -> Row \union {NoRow}]
    BY <1>2, CommitType DEF InsertIntent, Statement
  <2> QED BY <1>2, <2>1 DEF TypeOK, InsertIntent, Goto, engineVars
<1>3. ASSUME NEW r \in Req, InsertCollides(r) PROVE TypeInv'
  BY <1>3 DEF TypeOK, InsertCollides, Goto, engineVars
<1>4. ASSUME NEW r \in Req, InsertError(r) PROVE TypeInv'
  <2>1. /\ late' \in [Req -> SUBSET Statement]
        /\ \A q \in Req : "append" \in late'[q] => "append" \in late[q]
    BY <1>4, LoseEffect DEF InsertError, Statement
  <2> QED BY <1>4, <2>1, <1>0 DEF TypeOK, InsertError, Answer, Goto, engineVars, Refusals
<1>5. ASSUME NEW r \in Req, ResolveExisting(r) PROVE TypeInv'
  <2>1. resolved(MyRow(r), arg[r]) \in Reply
    BY ResolvedType DEF MyRow, AnyRow, TypeOK, Submission
  <2> QED BY <1>5, <2>1, <1>0 DEF TypeOK, ResolveExisting, Answer, Goto, engineVars, Refusals
<1>6. ASSUME NEW r \in Req, MarkStarted(r) PROVE TypeInv'
  <2>1. rows' \in [Op -> Row \union {NoRow}]
    BY <1>6, CommitType DEF MarkStarted, Statement
  <2>2. ran' \in [Op -> SUBSET Req]
    BY <1>6 DEF MarkStarted, TypeOK, Submission
  <2> QED BY <1>6, <2>1, <2>2 DEF TypeOK, MarkStarted, Goto
<1>7. ASSUME NEW r \in Req, MarkRefused(r) PROVE TypeInv'
  BY <1>7, <1>0 DEF TypeOK, MarkRefused, Answer, Goto, engineVars, Refusals
<1>8. ASSUME NEW r \in Req, MarkError(r) PROVE TypeInv'
  <2>1. /\ late' \in [Req -> SUBSET Statement]
        /\ \A q \in Req : "append" \in late'[q] => "append" \in late[q]
    BY <1>8, LoseEffect DEF MarkError, Statement
  <2> QED BY <1>8, <2>1 DEF TypeOK, MarkError, Goto, engineVars
<1>9. ASSUME NEW r \in Req, CloseNeverStarted(r) PROVE TypeInv'
  <2>1. /\ late' \in [Req -> SUBSET Statement]
        /\ \A q \in Req : "append" \in late'[q] => "append" \in late[q]
    BY <1>9, LoseEffect DEF CloseNeverStarted, Statement, TypeOK
  <2>2. rows' \in [Op -> Row \union {NoRow}]
    BY <1>9, CommitType DEF CloseNeverStarted, Statement, TypeOK
  <2> QED BY <1>9, <2>1, <2>2, <1>0 DEF TypeOK, CloseNeverStarted, Answer, Goto, engineVars, Refusals
<1>10. ASSUME NEW r \in Req, EngineStops(r) PROVE TypeInv'
  BY <1>10 DEF TypeOK, EngineStops, Goto, engineVars
<1>11. ASSUME NEW r \in Req, NEW c \in Outcome, Engine(r), Observe(r, c),
              held' \in [Op -> SUBSET Doc], cut' \in [Op -> SUBSET Doc]
       PROVE  TypeInv'
  <2>1. out' \in [Req -> Seq(Outcome)] /\ Len(out'[r]) \in Doc
        /\ \A q \in Req : q # r => out'[q] = out[q]
    BY <1>11 DEF Observe, TypeOK, Engine, NextDoc
  <2> QED BY <1>11, <2>1 DEF TypeOK, Observe, Goto
<1>12. ASSUME NEW r \in Req, DocumentRejected(r) PROVE TypeInv'
  BY <1>11, <1>12 DEF DocumentRejected, TypeOK, Outcome
<1>13. ASSUME NEW r \in Req, DocumentApplied(r) PROVE TypeInv'
  <2>1. held' \in [Op -> SUBSET Doc] /\ cut' \in [Op -> SUBSET Doc]
    BY <1>13 DEF DocumentApplied, Engine, TypeOK
  <2> QED BY <1>11, <1>13, <2>1 DEF DocumentApplied, Outcome
<1>14. ASSUME NEW r \in Req, DocumentCutOff(r) PROVE TypeInv'
  <2>1. held' \in [Op -> SUBSET Doc] /\ cut' \in [Op -> SUBSET Doc]
    BY <1>14 DEF DocumentCutOff, Engine, TypeOK
  <2> QED BY <1>11, <1>14, <2>1 DEF DocumentCutOff, Outcome
<1>15. ASSUME NEW r \in Req, RecordOutcome(r) PROVE TypeInv'
  <2>1. rows' \in [Op -> Row \union {NoRow}]
    BY <1>15, CommitType DEF RecordOutcome, Statement
  <2> QED BY <1>15, <2>1 DEF TypeOK, RecordOutcome, AfterRecording, Goto, engineVars
<1>16. ASSUME NEW r \in Req, RecordError(r) PROVE TypeInv'
  <2>1. late' \in [Req -> SUBSET Statement] /\ \A q \in Req : q # r => late'[q] = late[q]
    BY <1>16, LoseEffect DEF RecordError, Statement
  <2> QED BY <1>16, <2>1 DEF TypeOK, RecordError, AfterRecording, Goto
<1>17. ASSUME NEW r \in Req, FinalizeReceipt(r) PROVE TypeInv'
  <2>1. /\ late' \in [Req -> SUBSET Statement]
        /\ \A q \in Req : "append" \in late'[q] => "append" \in late[q]
    BY <1>17, LoseEffect DEF FinalizeReceipt, Statement, TypeOK
  <2>2. rows' \in [Op -> Row \union {NoRow}]
    BY <1>17, CommitType DEF FinalizeReceipt, Statement, TypeOK
  <2>3. assembleResults(out[r]) \in Reply
    BY AssembleType DEF TypeOK
  <2> QED BY <1>17, <2>1, <2>2, <2>3 DEF TypeOK, FinalizeReceipt, Answer, Goto, engineVars
<1>18. ASSUME NEW r \in Req, Crash(r) PROVE TypeInv'
  <2>1. Executing(pc[r]) \subseteq Statement /\ ("append" \in Executing(pc[r]) => pc[r] = "record")
    BY DEF Executing, Statement
  <2>2. /\ late' \in [Req -> SUBSET Statement]
        /\ \A q \in Req : q # r => late'[q] = late[q]
        /\ late'[r] \subseteq late[r] \union Executing(pc[r])
    <3>1. late \in [Req -> SUBSET Statement]
      BY DEF TypeOK
    <3>2. CASE late' = late
      BY <3>1, <3>2
    <3>3. CASE late' = [late EXCEPT ![r] = @ \union Executing(pc[r])]
      BY <3>1, <3>3, <2>1
    <3> QED BY <1>18, <3>2, <3>3 DEF Crash
  <2>3. \A q \in Req : "append" \in late'[q] => Len(out[q]) \in Doc
    BY <2>1, <2>2
  <2>4. cut' \in [Op -> SUBSET Doc]
    <3>1. cut \in [Op -> SUBSET Doc]
      BY DEF TypeOK
    <3>2. CASE cut' = cut
      BY <3>1, <3>2
    <3>3. CASE NextDoc(r) \in Doc /\ cut' = [cut EXCEPT ![arg[r].op] = @ \union {NextDoc(r)}]
      BY <3>1, <3>3
    <3> QED BY <1>18, <3>2, <3>3 DEF Crash, Engine
  <2> QED BY <1>18, <2>2, <2>3, <2>4 DEF TypeOK, Crash, Goto
<1>19. ASSUME NEW r \in Req, LateStatement(r) PROVE TypeInv'
  <2>1. PICK s \in late[r] : Commit(r, s) /\ late' = [late EXCEPT ![r] = @ \ {s}]
                             /\ UNCHANGED <<pc, arg, reply, engineVars>>
    BY <1>19 DEF LateStatement
  <2>2. rows' \in [Op -> Row \union {NoRow}]
    BY <2>1, CommitType DEF TypeOK
  <2> QED BY <2>1, <2>2 DEF TypeOK, engineVars
<1>20. ASSUME NEW o \in Op, LatePatch(o) PROVE TypeInv'
  BY <1>20 DEF TypeOK, LatePatch
<1>21. ASSUME NEW o \in Op, GrowOld(o) PROVE TypeInv'
  <2>1. rows[o] \in Row
    BY <1>21, ExistsIsRow DEF GrowOld, TypeOK, AnyRow
  <2>2. [rows[o] EXCEPT !.age = "stale"] \in Row
    BY <2>1 DEF Row
  <2>3. rows' \in [Op -> Row \union {NoRow}]
    BY <1>21, <2>2 DEF GrowOld, TypeOK
  <2> QED BY <1>21, <2>3 DEF TypeOK, GrowOld, engineVars
<1>22. ASSUME NEW o \in Op, Expire(o) PROVE TypeInv'
  <2>1. rows[o] \in Row
    BY <1>22, ExistsIsRow DEF Expire, TypeOK, AnyRow
  <2>2. [rows[o] EXCEPT !.age = "expired"] \in Row
    BY <2>1 DEF Row
  <2>3. rows' \in [Op -> Row \union {NoRow}]
    BY <1>22, <2>2 DEF Expire, TypeOK
  <2>4. late' \in [Req -> SUBSET Statement] /\ \A q \in Req : late'[q] \subseteq late[q]
    BY <1>22 DEF Expire, TypeOK
  <2> QED BY <1>22, <2>3, <2>4 DEF TypeOK, Expire
<1>23. CASE Reconcile
  <2>1. \A o \in Op : ReconcileOrphan(rows[o]) \in Row \union {NoRow}
    BY ReconcileType DEF TypeOK, AnyRow
  <2> QED BY <1>23, <2>1 DEF TypeOK, Reconcile, engineVars
<1>24. CASE Cleanup
  BY <1>24, <1>0 DEF TypeOK, Cleanup
<1>25. CASE UNCHANGED vars
  BY <1>25 DEF vars, TypeOK
<1> QED
  BY <1>1, <1>2, <1>3, <1>4, <1>5, <1>6, <1>7, <1>8, <1>9, <1>10, <1>12, <1>13, <1>14,
     <1>15, <1>16, <1>17, <1>18, <1>19, <1>20, <1>21, <1>22, <1>23, <1>24, <1>25
     DEF Next, Step

\* TypeInv holds before the first request.
LEMMA InitTypeInv == Init => TypeInv
  BY DEF Init, TypeInv, TypeOK, ObservationInRange, AnyRow, NoReply, Reply, NoClaims, Claim

\* Type correctness: the columns, the frames and the ground truth keep their
\* types whatever fails, is late or crashes.
THEOREM TypeCorrect == Spec => []TypeOK
<1>1. Spec => []TypeInv
  BY InitTypeInv, TypeInvInductive, PTL DEF Spec
<1>2. TypeInv => TypeOK
  BY DEF TypeInv
<1> QED BY <1>1, <1>2, PTL
-----------------------------------------------------------------------------
(* One operation id runs the engine once *)

\* A request claims an operation from the INSERT it won until retention forgets
\* the row: while it is about to stamp the row and once it has run the engine.
Claims(r, o) == r \in ran[o] \/ (pc[r] = "mark" /\ arg[r].op = o)

\* A claim is backed by the row; the row of a request that is about to stamp it
\* is too young for retention; a request claims the operation it named and runs
\* the engine once; no two requests claim one operation.
ClaimBacked == \A o \in Op : \A r \in Req : Claims(r, o) => Exists(rows[o])
ClaimKept == \A r \in Req : pc[r] = "mark" => MyRow(r).age # "expired"
ClaimSpent == \A o \in Op : \A r \in ran[o] : pc[r] \in {"apply", "record", "finalize", "done"}
ClaimUnique == \A o \in Op : \A r, s \in Req : Claims(r, o) /\ Claims(s, o) => r = s

OnceInv == TypeInv /\ ClaimBacked /\ ClaimKept /\ ClaimSpent /\ ClaimUnique

\* No statement deletes a row, and none but the INSERT of a missing row sets its
\* age, so none makes a row expired.
LEMMA CommitKeeps ==
    ASSUME TypeOK, NEW r \in Req, NEW s \in Statement, Commit(r, s), NEW o \in Op
    PROVE  /\ Exists(rows[o]) => Exists(rows'[o]) /\ rows'[o].age = rows[o].age
           /\ ~Exists(rows[o]) /\ Exists(rows'[o]) => rows'[o].age # "expired"
<1>1. CASE o # arg[r].op
  <2>1. rows'[o] = rows[o]
    BY <1>1 DEF Commit, TypeOK
  <2> QED BY <2>1
<1>2. CASE o = arg[r].op
  <2> DEFINE row == rows[o]
  <2>1. rows'[o] = Execute(r, s) /\ row \in AnyRow
    BY <1>2 DEF Commit, TypeOK, AnyRow
  <2>2. Exists(row) => row \in Row
    BY <2>1, ExistsIsRow
  <2>3. finalState(r) \in Terminal
    BY StateForTerminal DEF finalState, Terminal
  <2>4. CASE s = "insert"
    BY <1>2, <2>1, <2>4 DEF Execute, Insert, Exists
  <2>5. CASE s = "mark"
    BY <1>2, <2>1, <2>2, <2>5 DEF Execute, MarkMutationStarted, InFlight, Exists, Row
  <2>6. CASE s = "close"
    BY <1>2, <2>1, <2>2, <2>6 DEF Execute, Finalize, InFlight, Exists, Row
  <2>7. CASE s = "append"
    BY <1>2, <2>1, <2>2, <2>7 DEF Execute, AppendObject, InFlight, Exists, Row
  <2>8. CASE s = "finalize"
    BY <1>2, <2>1, <2>2, <2>3, <2>8 DEF Execute, Finalize, InFlight, Exists, Row, Terminal
  <2> QED BY <2>4, <2>5, <2>6, <2>7, <2>8 DEF Statement
<1> QED BY <1>1, <1>2

\* A step that makes no claim keeps the invariant, as long as it deletes no row
\* and lets no row about to be stamped expire.
LEMMA NoNewClaim ==
    ASSUME OnceInv, TypeInv', arg' = arg, ran' = ran,
           \A q \in Req : pc'[q] = "mark" => pc[q] = "mark" /\ rows'[arg[q].op].age # "expired",
           \A o \in Op : \A q \in ran[o] : pc'[q] \in {"apply", "record", "finalize", "done"},
           \A o \in Op : Exists(rows[o]) => Exists(rows'[o])
    PROVE  OnceInv'
<1>1. \A o \in Op : \A q \in Req : Claims(q, o)' => Claims(q, o)
  BY DEF Claims
<1>2. ClaimBacked'
  BY <1>1 DEF OnceInv, ClaimBacked
<1>3. ClaimKept'
  BY DEF ClaimKept, MyRow
<1>4. ClaimSpent'
  BY DEF ClaimSpent
<1>5. ClaimUnique'
  BY <1>1 DEF OnceInv, ClaimUnique
<1> QED BY <1>2, <1>3, <1>4, <1>5 DEF OnceInv

\* Every step of TrackedApply but the INSERT that wins and the stamp: it goes on
\* without claiming, and commits one statement or none.
LEMMA HandlerMoves ==
    ASSUME OnceInv, TypeInv', NEW r \in Req, NEW p, Goto(r, p), arg' = arg, ran' = ran,
           p # "mark",
           \/ p \in {"apply", "record", "finalize", "done"}
           \/ pc[r] \notin {"apply", "record", "finalize", "done"},
           rows' = rows \/ \E s \in Statement : Commit(r, s)
    PROVE  OnceInv'
<1> USE DEF OnceInv, TypeInv
<1>1. \A q \in Req : pc'[q] = IF q = r THEN p ELSE pc[q]
  BY DEF Goto, TypeOK
<1>2. \A o \in Op : Exists(rows[o]) => Exists(rows'[o]) /\ rows'[o].age = rows[o].age
  BY CommitKeeps
<1>3. ASSUME NEW q \in Req, pc'[q] = "mark"
      PROVE  pc[q] = "mark" /\ rows'[arg[q].op].age # "expired"
  <2>1. pc[q] = "mark" /\ arg[q].op \in Op
    BY <1>1, <1>3 DEF TypeOK, Submission
  <2>2. Exists(rows[arg[q].op]) /\ rows[arg[q].op].age # "expired"
    BY <2>1 DEF ClaimBacked, Claims, ClaimKept, MyRow
  <2> QED BY <1>2, <2>1, <2>2
<1>4. ASSUME NEW o \in Op, NEW q \in ran[o]
      PROVE  pc'[q] \in {"apply", "record", "finalize", "done"}
  <2>1. q \in Req /\ pc[q] \in {"apply", "record", "finalize", "done"}
    BY DEF TypeOK, ClaimSpent
  <2> QED BY <1>1, <2>1
<1> QED BY <1>2, <1>3, <1>4, NoNewClaim

\* The INSERT that wins finds no row, hence no other claim.
LEMMA InsertClaims ==
    ASSUME OnceInv, TypeInv', NEW r \in Req, InsertIntent(r)
    PROVE  OnceInv'
<1> USE DEF OnceInv, TypeInv
<1>0. arg' = arg /\ ran' = ran /\ arg[r].op \in Op /\ ~Exists(rows[arg[r].op]) /\ pc[r] = "insert"
  BY DEF InsertIntent, engineVars, MyRow, TypeOK, Submission
<1>1. \A q \in Req : pc'[q] = IF q = r THEN "mark" ELSE pc[q]
  BY DEF InsertIntent, Goto, TypeOK
<1>2. \A o \in Op : Exists(rows[o]) => Exists(rows'[o]) /\ rows'[o].age = rows[o].age
  BY CommitKeeps DEF InsertIntent, Statement
<1>3. Exists(rows'[arg[r].op]) /\ rows'[arg[r].op].age = "young"
  BY <1>0 DEF InsertIntent, Commit, Execute, Insert, Exists, TypeOK
<1>4. \A q \in Req : ~Claims(q, arg[r].op)
  BY <1>0 DEF ClaimBacked
<1>5. \A o \in Op : \A q \in Req : Claims(q, o)' => Claims(q, o) \/ (q = r /\ o = arg[r].op)
  BY <1>0, <1>1 DEF Claims
<1>6. ClaimBacked'
  BY <1>2, <1>3, <1>5 DEF ClaimBacked
<1>7. ASSUME NEW q \in Req, pc'[q] = "mark" PROVE rows'[arg[q].op].age # "expired"
  <2>1. CASE q = r
    BY <1>3, <2>1
  <2>2. CASE q # r
    <3>1. pc[q] = "mark" /\ arg[q].op \in Op
      BY <1>1, <1>7, <2>2 DEF TypeOK, Submission
    <3>2. Exists(rows[arg[q].op]) /\ rows[arg[q].op].age # "expired"
      BY <3>1 DEF ClaimBacked, Claims, ClaimKept, MyRow
    <3> QED BY <1>2, <3>1, <3>2
  <2> QED BY <2>1, <2>2
<1>8. ClaimKept'
  BY <1>0, <1>7 DEF ClaimKept, MyRow
<1>9. ClaimSpent'
  BY <1>0, <1>1 DEF ClaimSpent, TypeOK
<1>10. ClaimUnique'
  BY <1>4, <1>5 DEF ClaimUnique
<1> QED BY <1>6, <1>8, <1>9, <1>10

\* The stamp turns the claim of a request that won its INSERT into a run.
LEMMA MarkClaims ==
    ASSUME OnceInv, TypeInv', NEW r \in Req, MarkStarted(r)
    PROVE  OnceInv'
<1> USE DEF OnceInv, TypeInv
<1>0. arg' = arg /\ arg[r].op \in Op /\ pc[r] = "mark"
  BY DEF MarkStarted, TypeOK, Submission
<1>1. \A q \in Req : pc'[q] = IF q = r THEN "apply" ELSE pc[q]
  BY DEF MarkStarted, Goto, TypeOK
<1>2. \A o \in Op : ran'[o] = IF o = arg[r].op THEN ran[o] \union {r} ELSE ran[o]
  BY <1>0 DEF MarkStarted, TypeOK
<1>3. \A o \in Op : Exists(rows[o]) => Exists(rows'[o]) /\ rows'[o].age = rows[o].age
  BY CommitKeeps DEF MarkStarted, Statement
<1>4. \A o \in Op : \A q \in Req : Claims(q, o)' => Claims(q, o)
  BY <1>0, <1>1, <1>2 DEF Claims
<1>5. ClaimBacked'
  BY <1>3, <1>4 DEF ClaimBacked
<1>6. ASSUME NEW q \in Req, pc'[q] = "mark" PROVE rows'[arg[q].op].age # "expired"
  <2>1. pc[q] = "mark" /\ arg[q].op \in Op
    BY <1>1, <1>6 DEF TypeOK, Submission
  <2>2. Exists(rows[arg[q].op]) /\ rows[arg[q].op].age # "expired"
    BY <2>1 DEF ClaimBacked, Claims, ClaimKept, MyRow
  <2> QED BY <1>3, <2>1, <2>2
<1>7. ClaimKept'
  BY <1>0, <1>6 DEF ClaimKept, MyRow
<1>8. ASSUME NEW o \in Op, NEW q \in ran'[o]
      PROVE  pc'[q] \in {"apply", "record", "finalize", "done"}
  <2>1. q = r \/ (q \in Req /\ q \in ran[o])
    BY <1>2 DEF TypeOK
  <2>2. q \in ran[o] => pc[q] \in {"apply", "record", "finalize", "done"}
    BY DEF ClaimSpent
  <2> QED BY <1>1, <2>1, <2>2
<1>9. ClaimUnique'
  BY <1>4 DEF ClaimUnique
<1>10. ClaimSpent'
  BY <1>8 DEF ClaimSpent
<1> QED BY <1>5, <1>7, <1>9, <1>10

\* Every action preserves OnceInv.
LEMMA OnceInvInductive == OnceInv /\ [Next]_vars => OnceInv'
<1> SUFFICES ASSUME OnceInv, [Next]_vars PROVE OnceInv'
  OBVIOUS
<1>0. TypeInv' /\ TypeInv /\ TypeOK
  BY TypeInvInductive DEF OnceInv, TypeInv
<1>1. ASSUME NEW r \in Req, Submit(r) PROVE OnceInv'
  BY <1>0, <1>1, HandlerMoves DEF Submit, engineVars
<1>2. ASSUME NEW r \in Req, InsertCollides(r) \/ InsertError(r) \/ ResolveExisting(r) PROVE OnceInv'
  BY <1>0, <1>2, HandlerMoves DEF InsertCollides, InsertError, ResolveExisting, Answer, engineVars
<1>3. ASSUME NEW r \in Req, MarkRefused(r) \/ MarkError(r) PROVE OnceInv'
  BY <1>0, <1>3, HandlerMoves DEF MarkRefused, MarkError, Answer, engineVars
<1>4. ASSUME NEW r \in Req, CloseNeverStarted(r) PROVE OnceInv'
  BY <1>0, <1>4, HandlerMoves DEF CloseNeverStarted, Answer, engineVars, Statement
<1>5. ASSUME NEW r \in Req, EngineStops(r) PROVE OnceInv'
  BY <1>0, <1>5, HandlerMoves DEF EngineStops, engineVars
<1>6. ASSUME NEW r \in Req, DocumentRejected(r) \/ DocumentApplied(r) \/ DocumentCutOff(r) PROVE OnceInv'
  BY <1>0, <1>6, HandlerMoves DEF DocumentRejected, DocumentApplied, DocumentCutOff, Observe
<1>7. ASSUME NEW r \in Req, RecordOutcome(r) \/ RecordError(r) PROVE OnceInv'
  BY <1>0, <1>7, HandlerMoves DEF RecordOutcome, RecordError, AfterRecording, engineVars, Statement
<1>8. ASSUME NEW r \in Req, FinalizeReceipt(r) PROVE OnceInv'
  BY <1>0, <1>8, HandlerMoves DEF FinalizeReceipt, Answer, engineVars, Statement
<1>9. ASSUME NEW r \in Req, Crash(r) PROVE OnceInv'
  BY <1>0, <1>9, HandlerMoves DEF Crash
<1>10. ASSUME NEW r \in Req, LateStatement(r) PROVE OnceInv'
  <2>1. pc' = pc /\ arg' = arg /\ ran' = ran /\ \E s \in Statement : Commit(r, s)
    BY <1>0, <1>10 DEF LateStatement, TypeOK, engineVars
  <2>2. \A o \in Op : Exists(rows[o]) => Exists(rows'[o]) /\ rows'[o].age = rows[o].age
    BY <1>0, <2>1, CommitKeeps
  <2>3. ASSUME NEW q \in Req, pc[q] = "mark" PROVE rows'[arg[q].op].age # "expired"
    <3>1. arg[q].op \in Op /\ Exists(rows[arg[q].op]) /\ rows[arg[q].op].age # "expired"
      BY <1>0, <2>3 DEF OnceInv, ClaimBacked, Claims, ClaimKept, MyRow, TypeOK, Submission
    <3> QED BY <2>2, <3>1
  <2> QED BY <1>0, <2>1, <2>2, <2>3, NoNewClaim DEF OnceInv, ClaimSpent
<1>11. ASSUME NEW o \in Op, LatePatch(o) PROVE OnceInv'
  BY <1>0, <1>11 DEF LatePatch, OnceInv, ClaimBacked, ClaimKept, ClaimSpent, ClaimUnique, Claims, MyRow
<1>12. ASSUME NEW o \in Op, GrowOld(o) PROVE OnceInv'
  <2>1. rows[o] \in Row /\ pc' = pc /\ arg' = arg /\ ran' = ran
        /\ rows' = [rows EXCEPT ![o].age = "stale"]
    BY <1>0, <1>12, ExistsIsRow DEF GrowOld, TypeOK, AnyRow, engineVars
  <2>2. \A p \in Op : /\ Exists(rows'[p]) <=> Exists(rows[p])
                      /\ rows'[p].age = IF p = o THEN "stale" ELSE rows[p].age
    BY <1>0, <2>1 DEF TypeOK, Exists, Row
  <2>3. ASSUME NEW q \in Req, pc[q] = "mark" PROVE rows'[arg[q].op].age # "expired"
    <3>1. arg[q].op \in Op /\ rows[arg[q].op].age # "expired"
      BY <1>0, <2>3 DEF OnceInv, ClaimKept, MyRow, TypeOK, Submission
    <3> QED BY <2>2, <3>1
  <2> QED BY <1>0, <2>1, <2>2, <2>3, NoNewClaim DEF OnceInv, ClaimSpent
<1>13. ASSUME NEW o \in Op, Expire(o) PROVE OnceInv'
  <2>1. rows[o] \in Row /\ pc' = pc /\ arg' = arg /\ ran' = ran
        /\ rows' = [rows EXCEPT ![o].age = "expired"]
    BY <1>0, <1>13, ExistsIsRow DEF Expire, TypeOK, AnyRow
  <2>2. \A q \in Req : pc[q] = "mark" => arg[q].op # o
    BY <1>13 DEF Expire, Live
  <2>3. \A p \in Op : /\ Exists(rows'[p]) <=> Exists(rows[p])
                      /\ p # o => rows'[p] = rows[p]
    BY <1>0, <2>1 DEF TypeOK, Exists, Row
  <2> QED BY <1>0, <2>1, <2>2, <2>3, NoNewClaim DEF OnceInv, ClaimKept, ClaimSpent, MyRow, TypeOK, Submission
<1>14. CASE Reconcile
  <2>1. pc' = pc /\ arg' = arg /\ ran' = ran /\ \A o \in Op : rows'[o] = ReconcileOrphan(rows[o])
    BY <1>14 DEF Reconcile, engineVars
  <2>2. ASSUME NEW o \in Op, Exists(rows[o])
        PROVE  Exists(rows'[o]) /\ rows'[o].age = rows[o].age
    <3>1. rows[o] \in Row
      BY <1>0, <2>2, ExistsIsRow DEF TypeOK, AnyRow
    <3> QED BY <2>1, <2>2, <3>1 DEF ReconcileOrphan, Row, Exists
  <2>3. ASSUME NEW q \in Req, pc[q] = "mark" PROVE rows'[arg[q].op].age # "expired"
    <3>1. arg[q].op \in Op /\ Exists(rows[arg[q].op]) /\ rows[arg[q].op].age # "expired"
      BY <1>0, <2>3 DEF OnceInv, ClaimBacked, Claims, ClaimKept, MyRow, TypeOK, Submission
    <3> QED BY <2>2, <3>1
  <2> QED BY <1>0, <2>1, <2>2, <2>3, NoNewClaim DEF OnceInv, ClaimSpent
<1>15. CASE Cleanup
  <2> DEFINE gone == {o \in Op : Exists(rows[o]) /\ rows[o].age = "expired"}
  <2>1. /\ pc' = pc /\ arg' = arg
        /\ \A o \in Op : rows'[o] = IF o \in gone THEN NoRow ELSE rows[o]
        /\ \A o \in Op : ran'[o] = IF o \in gone THEN {} ELSE ran[o]
    BY <1>15 DEF Cleanup
  <2>2. \A q \in Req : pc[q] = "mark" => arg[q].op \in Op /\ arg[q].op \notin gone
    BY <1>0 DEF OnceInv, ClaimKept, MyRow, TypeOK, Submission
  <2>3. \A o \in Op : \A q \in Req : Claims(q, o)' => o \notin gone /\ Claims(q, o)
    BY <2>1, <2>2 DEF Claims
  <2>4. ClaimBacked'
    BY <2>1, <2>3 DEF OnceInv, ClaimBacked
  <2>5. ClaimKept'
    BY <2>1, <2>2 DEF OnceInv, ClaimKept, MyRow
  <2>6. ClaimSpent'
    BY <2>1 DEF OnceInv, ClaimSpent
  <2>7. ClaimUnique'
    BY <2>3 DEF OnceInv, ClaimUnique
  <2> QED BY <1>0, <2>4, <2>5, <2>6, <2>7 DEF OnceInv
<1>16. CASE UNCHANGED vars
  BY <1>0, <1>16 DEF vars, OnceInv, ClaimBacked, ClaimKept, ClaimSpent, ClaimUnique, Claims, MyRow
<1> QED
  BY <1>0, <1>1, <1>2, <1>3, <1>4, <1>5, <1>6, <1>7, <1>8, <1>9, <1>10, <1>11, <1>12,
     <1>13, <1>14, <1>15, <1>16, InsertClaims, MarkClaims DEF Next, Step

\* "apply is called at most once" per operation id, however many requests retry
\* it and whatever is lost, late, reaped or deleted between them.
THEOREM EngineOnce == Spec => []EngineRunsOnce
<1>1. Init => OnceInv
  BY InitTypeInv DEF Init, OnceInv, ClaimBacked, ClaimKept, ClaimSpent, ClaimUnique, Claims
<1>2. OnceInv => EngineRunsOnce
  BY DEF OnceInv, ClaimUnique, Claims, EngineRunsOnce, TypeInv, TypeOK
<1> QED BY <1>1, <1>2, OnceInvInductive, PTL DEF Spec

-----------------------------------------------------------------------------
(* Receipts and answers are truthful *)

\* A request that won its INSERT works on a row that retention does not touch,
\* and so do the statements it left behind.
Working == {"mark", "close", "apply", "record", "finalize"}
KeptAt(r) ==
    pc[r] \in Working \/ late[r] \ {"insert"} # {} =>
        Exists(rows[arg[r].op]) /\ rows[arg[r].op].age # "expired"

\* The engine, an append and a finalize belong to a request that ran.
RanAt(r) ==
    pc[r] \in {"apply", "record", "finalize"} \/ late[r] \cap {"append", "finalize"} # {} =>
        r \in ran[arg[r].op]

\* A request that closes the row it failed to stamp is alone with it.
AloneAt(r) ==
    pc[r] = "close" \/ "close" \in late[r] => \A q \in Req : ~Claims(q, arg[r].op)

\* Before its run a request has attempted nothing.
FreshAt(r) ==
    pc[r] \in {"idle", "insert", "resolve", "mark", "close"} => out[r] = <<>> /\ ~recErr[r]

\* A row is complete when its state is terminal; once it has expired nothing is
\* on its way to the cluster any more.
WholeAt(o) ==
    Exists(rows[o]) =>
        /\ rows[o].completed <=> rows[o].state \in Terminal
        /\ rows[o].age = "expired" => cut[o] = {}

\* Without a run the cluster has nothing and the receipt claims nothing.
IdleAt(o) ==
    ran[o] = {} =>
        /\ Sent(o) = {}
        /\ Exists(rows[o]) => rows[o].objects = <<>> /\ rows[o].state \notin {"applied", "partial"}

Settled == Terminal \ {"unknown"}

\* The run of operation o by request r: its outcomes are what the cluster says,
\* the recorded ones are the first of them in order,
OutcomesTrue(r, o) ==
    \A k \in 1 .. Len(out[r]) :
        /\ out[r][k] = "applied" => k \in held[o]
        /\ out[r][k] = "rejected" => k \notin Sent(o)
RecordsAre(r, o) ==
    \A k \in 1 .. Len(rows[o].objects) : rows[o].objects[k] = [index |-> k, outcome |-> out[r][k]]

\* the receipt is behind by one outcome at most, and by none where the recorder
\* is believed,
Lag(r, o) ==
    LET n == Len(rows[o].objects)
    IN  /\ Len(out[r]) = n \/ Len(out[r]) = n + 1
        /\ pc[r] = "apply" => Len(out[r]) = n
        /\ (pc[r] = "finalize" \/ "finalize" \in late[r]) /\ ~recErr[r] => Len(out[r]) = n
        /\ pc[r] = "record" \/ "append" \in late[r] => Len(out[r]) = n + 1
        /\ pc[r] \in {"apply", "record"} => ~recErr[r]
        /\ "append" \in late[r] => pc[r] \in {"finalize", "done"}
        /\ "finalize" \in late[r] => pc[r] = "done"

\* only a crash under a PATCH leaves a document sent that was not attempted, and
\* then nothing settles the row,
SentBy(r, o) ==
    \A i \in Sent(o) :
        /\ i <= Len(rows[o].objects) + 1
        /\ \/ i <= Len(out[r])
           \/ pc[r] = "done" /\ "finalize" \notin late[r] /\ rows[o].state \notin Settled

\* and a row is settled by the end of the run.
Ended(r, o) ==
    /\ rows[o].state \in Settled => pc[r] = "done" /\ Len(out[r]) = Len(rows[o].objects)
    /\ rows[o].state = "applied" => held[o] = Doc

RunAt(r, o) ==
    /\ arg[r].op = o
    /\ rows[o].started
    /\ OutcomesTrue(r, o)
    /\ RecordsAre(r, o)
    /\ Lag(r, o)
    /\ SentBy(r, o)
    /\ Ended(r, o)

\* Request q may still send document i of its operation.
MaySend(q, i) ==
    \/ pc[q] = "mark" /\ InFlight(rows[arg[q].op])
    \/ pc[q] \in {"apply", "record"} /\ i > Len(out[q])

\* An answer is about a row that is still there, and a document it denies was not
\* sent and never will be.
Denied(i, o) == i \notin Sent(o) /\ \A q \in Req : arg[q].op = o => ~MaySend(q, i)
ClaimsStand(r, o) ==
    \A i \in Doc :
        /\ reply[r].claims[i] = "applied" => i \in held[o]
        /\ reply[r].claims[i] \in {"rejected", NotAttempted} => Denied(i, o)
AnswerStands(r, o) ==
    /\ reply[r].kind # "none" => pc[r] = "done"
    /\ reply[r].kind \in Refusals \union {"replay"} => r \notin ran[o]
    /\ reply[r].kind \in {"live", "replay"} => Exists(rows[o])
    /\ reply[r].kind \notin {"live", "replay"} => reply[r].claims = NoClaims
    /\ ClaimsStand(r, o)

RequestAt(r) == KeptAt(r) /\ RanAt(r) /\ AloneAt(r) /\ FreshAt(r)
OperationAt(o) == WholeAt(o) /\ IdleAt(o) /\ \A r \in ran[o] : RunAt(r, o)

TruthInv ==
    /\ OnceInv
    /\ \A r \in Req : RequestAt(r)
    /\ \A o \in Op : OperationAt(o)
    /\ \A r \in Req : AnswerStands(r, arg[r].op)

\* What nobody touched stays true of a run,
LEMMA RunSame ==
    ASSUME NEW q, NEW o, RunAt(q, o), arg' = arg,
           pc'[q] = pc[q], late'[q] = late[q], out'[q] = out[q], recErr'[q] = recErr[q],
           rows'[o].started = rows[o].started, rows'[o].objects = rows[o].objects,
           rows'[o].state = rows[o].state, held'[o] = held[o], cut'[o] = cut[o]
    PROVE  RunAt(q, o)'
<1>1. Sent(o)' = Sent(o)
  BY DEF Sent
<1> QED BY <1>1 DEF RunAt, OutcomesTrue, RecordsAre, Lag, SentBy, Ended

\* and of the answers about an operation, as long as what is sent was expected.
LEMMA ClaimsSame ==
    ASSUME NEW q, NEW o, ClaimsStand(q, o), reply'[q] = reply[q], arg' = arg,
           held[o] \subseteq held'[o],
           \A i \in Doc : i \in Sent(o)' =>
               i \in Sent(o) \/ \E x \in Req : arg[x].op = o /\ MaySend(x, i),
           \A x \in Req : arg[x].op = o => \A i \in Doc : MaySend(x, i)' => MaySend(x, i)
    PROVE  ClaimsStand(q, o)'
<1>1. \A i \in Doc : Denied(i, o) => Denied(i, o)'
  BY DEF Denied
<1> QED BY <1>1 DEF ClaimsStand

\* Claims of an answer without per-document results say nothing.
LEMMA NothingClaimed ==
    ASSUME NEW q, NEW o, reply[q].claims = NoClaims
    PROVE  ClaimsStand(q, o)
  BY DEF ClaimsStand, NoClaims, NotAttempted

\* A step of request r on its own row keeps what the invariant says of the other
\* requests and the other operations.
LEMMA Elsewhere ==
    ASSUME TruthInv, OnceInv', NEW r \in Req, NEW op \in Op, op = arg[r].op, arg' = arg,
           \A q \in Req : q # r => /\ pc'[q] = pc[q] /\ late'[q] = late[q] /\ out'[q] = out[q]
                                   /\ recErr'[q] = recErr[q] /\ reply'[q] = reply[q],
           \A o \in Op : o # op => /\ rows'[o] = rows[o] /\ held'[o] = held[o]
                                   /\ cut'[o] = cut[o] /\ ran'[o] = ran[o],
           ran[op] \subseteq ran'[op],
           Exists(rows[op]) => Exists(rows'[op]) /\ rows'[op].age = rows[op].age,
           \A q \in Req : q # r /\ arg[q].op = op => AloneAt(q)',
           RequestAt(r)', OperationAt(op)',
           \A q \in Req : arg[q].op = op => AnswerStands(q, op)'
    PROVE  TruthInv'
<1>0. TypeOK /\ \A q \in Req : arg[q].op \in Op
  BY DEF TruthInv, OnceInv, TypeInv, TypeOK, Submission
<1>1. ASSUME NEW q \in Req, q # r PROVE RequestAt(q)'
  <2>0. RequestAt(q)
    BY DEF TruthInv
  <2>1. KeptAt(q)'
    BY <1>0, <1>1, <2>0 DEF RequestAt, KeptAt
  <2>2. RanAt(q)'
    BY <1>0, <1>1, <2>0 DEF RequestAt, RanAt
  <2>3. CASE arg[q].op # op
    <3>1. \A x \in Req : Claims(x, arg[q].op)' => Claims(x, arg[q].op)
      BY <1>0, <2>3 DEF Claims
    <3>2. AloneAt(q)'
      BY <1>1, <2>0, <3>1 DEF RequestAt, AloneAt
    <3> QED BY <1>1, <2>0, <2>1, <2>2, <3>2 DEF RequestAt, FreshAt
  <2>4. CASE arg[q].op = op
    BY <1>1, <2>0, <2>1, <2>2, <2>4 DEF RequestAt, FreshAt
  <2> QED BY <2>3, <2>4
<1>2. ASSUME NEW o \in Op, o # op PROVE OperationAt(o)'
  <2>0. OperationAt(o)
    BY DEF TruthInv
  <2>1. WholeAt(o)' /\ IdleAt(o)'
    BY <1>2, <2>0 DEF OperationAt, WholeAt, IdleAt, Sent
  <2>2. ASSUME NEW q \in ran'[o] PROVE RunAt(q, o)'
    <3>1. q \in ran[o] /\ q \in Req /\ RunAt(q, o)
      BY <1>0, <1>2, <2>0, <2>2 DEF TypeOK, OperationAt
    <3>2. q # r
      BY <1>2, <3>1 DEF RunAt
    <3> QED BY <1>2, <3>1, <3>2, RunSame
  <2> QED BY <2>1, <2>2 DEF OperationAt
<1>3. ASSUME NEW q \in Req PROVE AnswerStands(q, arg[q].op)'
  <2>1. CASE arg[q].op = op
    BY <2>1
  <2>2. CASE arg[q].op # op
    <3>a. PICK o \in Op : o = arg[q].op
      BY <1>0
    <3>0. o # op /\ q # r /\ AnswerStands(q, o) /\ ClaimsStand(q, o)
      BY <3>a, <2>2 DEF TruthInv, AnswerStands
    <3>1. \A x \in Req : arg[x].op = o => \A i \in Doc : MaySend(x, i)' => MaySend(x, i)
      BY <3>0 DEF MaySend
    <3>2. Sent(o)' = Sent(o) /\ held[o] \subseteq held'[o]
      BY <3>0 DEF Sent
    <3>3. ClaimsStand(q, o)'
      BY <3>0, <3>1, <3>2, ClaimsSame
    <3>4. AnswerStands(q, o)'
      BY <3>0, <3>3 DEF AnswerStands
    <3> QED BY <3>a, <3>4
  <2> QED BY <2>1, <2>2
<1> QED BY <1>1, <1>2, <1>3 DEF TruthInv

\* A refusal by a request that did not run stands.
LEMMA RefusalStands ==
    ASSUME NEW r, NEW op, NEW k \in Refusals,
           reply'[r] = Refuse(k), pc'[r] = "done", r \notin ran'[op]
    PROVE  AnswerStands(r, op)'
<1>1. reply'[r].kind = k /\ reply'[r].claims = NoClaims /\ k \notin {"none", "live", "replay"}
  BY DEF Refuse, Refusals
<1>2. ClaimsStand(r, op)'
  BY <1>1, NothingClaimed DEF ClaimsStand, NoClaims, NotAttempted
<1> QED BY <1>1, <1>2 DEF AnswerStands

\* A step of request r that claims nothing and sends nothing: what is left to show
\* is what it does to its own row and its own run.
LEMMA HandlerStep ==
    ASSUME TruthInv, OnceInv', NEW r \in Req, NEW op \in Op, op = arg[r].op, arg' = arg,
           ran' = ran, held' = held, cut' = cut, out' = out,
           \A q \in Req : q # r => /\ pc'[q] = pc[q] /\ late'[q] = late[q]
                                   /\ recErr'[q] = recErr[q] /\ reply'[q] = reply[q],
           \A o \in Op : o # op => rows'[o] = rows[o],
           Exists(rows[op]) => Exists(rows'[op]) /\ rows'[op].age = rows[op].age,
           InFlight(rows'[op]) => InFlight(rows[op]),
           pc'[r] \in Working \/ late'[r] \ {"insert"} # {} =>
               pc[r] \in Working \/ late[r] \ {"insert"} # {},
           pc'[r] \in {"apply", "record", "finalize"} \/ late'[r] \cap {"append", "finalize"} # {} =>
               r \in ran[op],
           pc'[r] = "close" \/ "close" \in late'[r] =>
               (pc[r] = "mark" /\ pc'[r] # "mark") \/ pc[r] = "close" \/ "close" \in late[r],
           FreshAt(r)',
           pc'[r] = "mark" => pc[r] = "mark",
           pc'[r] \in {"apply", "record"} => pc[r] \in {"apply", "record"},
           (reply'[r] = reply[r] /\ (pc[r] = "done" => pc'[r] = "done")) \/ AnswerStands(r, op)',
           OperationAt(op)'
    PROVE  TruthInv'
<1>0. TypeOK /\ OnceInv /\ RequestAt(r) /\ \A q \in Req : arg[q].op \in Op
  BY DEF TruthInv, OnceInv, TypeInv, TypeOK, Submission
<1>1. KeptAt(r)' /\ RanAt(r)'
  BY <1>0 DEF RequestAt, KeptAt, RanAt
<1>2. \A q \in Req : Claims(q, op)' => Claims(q, op)
  BY DEF Claims
<1>3. AloneAt(r)'
  <2> SUFFICES ASSUME pc'[r] = "close" \/ "close" \in late'[r], NEW q \in Req, Claims(q, op)'
               PROVE  FALSE
    BY DEF AloneAt
  <2>1. CASE pc[r] = "close" \/ "close" \in late[r]
    BY <1>0, <1>2, <2>1 DEF RequestAt, AloneAt
  <2>2. CASE pc[r] = "mark" /\ pc'[r] # "mark"
    <3>1. q = r
      BY <1>0, <1>2, <2>2 DEF OnceInv, ClaimUnique, Claims
    <3>2. r \notin ran[op]
      BY <1>0, <2>2 DEF OnceInv, ClaimSpent
    <3> QED BY <2>2, <3>1, <3>2 DEF Claims
  <2> QED BY <2>1, <2>2
<1>4. ASSUME NEW q \in Req, q # r, arg[q].op = op PROVE AloneAt(q)'
  BY <1>0, <1>2, <1>4 DEF TruthInv, RequestAt, AloneAt
<1>5. \A x \in Req : arg[x].op = op => \A i \in Doc : MaySend(x, i)' => MaySend(x, i)
  BY DEF MaySend
<1>6. Sent(op)' = Sent(op)
  BY DEF Sent
<1>7. ASSUME NEW q \in Req, arg[q].op = op, reply'[q] = reply[q], pc[q] = "done" => pc'[q] = "done"
      PROVE  AnswerStands(q, op)'
  <2>1. AnswerStands(q, op) /\ ClaimsStand(q, op)
    BY <1>7 DEF TruthInv, AnswerStands
  <2>2. ClaimsStand(q, op)'
    BY <1>5, <1>6, <1>7, <2>1, ClaimsSame
  <2> QED BY <1>7, <2>1, <2>2 DEF AnswerStands
<1>8. \A q \in Req : arg[q].op = op => AnswerStands(q, op)'
  BY <1>7
<1> QED BY <1>1, <1>3, <1>4, <1>8, Elsewhere DEF RequestAt

\* A step that leaves the row of operation op and the cluster alone keeps what is
\* known of the operation, once it keeps the run of the request that makes it.
LEMMA SameOperation ==
    ASSUME NEW r \in Req, NEW op \in Op, OperationAt(op), arg' = arg, ran' = ran,
           held' = held, cut' = cut, out' = out, rows'[op] = rows[op], TypeOK,
           \A q \in Req : q # r => /\ pc'[q] = pc[q] /\ late'[q] = late[q] /\ recErr'[q] = recErr[q],
           r \in ran[op] => RunAt(r, op)'
    PROVE  OperationAt(op)'
<1>1. WholeAt(op)' /\ IdleAt(op)'
  BY DEF OperationAt, WholeAt, IdleAt, Sent
<1>2. ASSUME NEW q \in ran[op] PROVE RunAt(q, op)'
  <2>1. q \in Req /\ RunAt(q, op)
    BY DEF TypeOK, OperationAt
  <2>2. CASE q # r
    BY <2>1, <2>2, RunSame
  <2>3. CASE q = r
    BY <2>3
  <2> QED BY <2>2, <2>3
<1> QED BY <1>1, <1>2 DEF OperationAt

\* A step before the run that commits nothing.
LEMMA BeforeRun ==
    ASSUME TruthInv, OnceInv', NEW r \in Req, NEW p,
           UNCHANGED <<rows, arg, engineVars>>, Goto(r, p),
           pc[r] \in {"idle", "insert", "resolve", "mark", "close"},
           p \in {"insert", "resolve", "close", "done"}, p = "close" => pc[r] = "mark",
           \A q \in Req : q # r => late'[q] = late[q] /\ reply'[q] = reply[q],
           late'[r] \subseteq late[r] \union Executing(pc[r]),
           reply'[r] = reply[r] \/ (p = "done" /\ AnswerStands(r, arg[r].op)')
    PROVE  TruthInv'
<1>a. PICK op \in Op : op = arg[r].op
  BY DEF TruthInv, OnceInv, TypeInv, TypeOK, Submission
<1>0. TypeOK /\ OnceInv /\ RequestAt(r) /\ OperationAt(op) /\ arg' = arg /\ ran' = ran
      /\ held' = held /\ cut' = cut /\ out' = out /\ recErr' = recErr /\ rows' = rows
  BY DEF TruthInv, OnceInv, TypeInv, engineVars
<1>1. \A q \in Req : pc'[q] = IF q = r THEN p ELSE pc[q]
  BY <1>0 DEF Goto, TypeOK
<1>2. r \notin ran[op]
  BY <1>0 DEF OnceInv, ClaimSpent
<1>3. /\ "append" \in late'[r] \/ "finalize" \in late'[r] => FALSE
      /\ late'[r] \ {"insert"} # {} => pc[r] \in Working \/ late[r] \ {"insert"} # {}
      /\ "close" \in late'[r] => pc[r] = "close" \/ "close" \in late[r]
  BY <1>a, <1>0, <1>2 DEF RequestAt, RanAt, Executing, Working
<1>4. OperationAt(op)'
  BY <1>0, <1>1, <1>2, SameOperation
<1>5. FreshAt(r)'
  BY <1>0, <1>1 DEF RequestAt, FreshAt
<1>6. (reply'[r] = reply[r] /\ (pc[r] = "done" => pc'[r] = "done")) \/ AnswerStands(r, op)'
  BY <1>a, <1>0
<1>7. /\ pc'[r] \in Working \/ late'[r] \ {"insert"} # {} => pc[r] \in Working \/ late[r] \ {"insert"} # {}
      /\ ~(pc'[r] \in {"apply", "record", "finalize"} \/ late'[r] \cap {"append", "finalize"} # {})
      /\ pc'[r] = "close" \/ "close" \in late'[r] =>
            (pc[r] = "mark" /\ pc'[r] # "mark") \/ pc[r] = "close" \/ "close" \in late[r]
      /\ pc'[r] # "mark" /\ pc'[r] \notin {"apply", "record"}
  BY <1>1, <1>3 DEF Working
<1> QED BY <1>a, <1>0, <1>1, <1>4, <1>5, <1>6, <1>7, HandlerStep

\* The best-effort close finds a row nobody runs on.
LEMMA CloseRow ==
    ASSUME TruthInv, NEW op \in Op, \A q \in Req : ~Claims(q, op),
           rows'[op] = Finalize(rows[op], "failed"), ran' = ran, held' = held, cut' = cut
    PROVE  /\ OperationAt(op)'
           /\ Exists(rows[op]) => Exists(rows'[op]) /\ rows'[op].age = rows[op].age
           /\ InFlight(rows'[op]) => InFlight(rows[op])
<1>0. TypeOK /\ OperationAt(op) /\ ran[op] = {} /\ rows[op] \in AnyRow
  BY DEF TruthInv, OnceInv, TypeInv, TypeOK, Claims, AnyRow
<1>1. CASE InFlight(rows[op])
  <2>1. rows[op] \in Row
    BY <1>0, <1>1, ExistsIsRow DEF InFlight
  <2>2. /\ Exists(rows'[op]) /\ rows'[op].completed /\ rows'[op].state = "failed"
        /\ rows'[op].objects = rows[op].objects /\ rows'[op].age = rows[op].age
    BY <1>1, <2>1 DEF Finalize, Row, Exists
  <2> QED BY <1>0, <1>1, <2>2 DEF OperationAt, WholeAt, IdleAt, Sent, InFlight, Terminal
<1>2. CASE ~InFlight(rows[op])
  <2>1. rows'[op] = rows[op]
    BY <1>2 DEF Finalize
  <2> QED BY <1>0, <2>1 DEF OperationAt, WholeAt, IdleAt, Sent
<1> QED BY <1>1, <1>2

\* After a failed stamp the row is closed and the client refused.
LEMMA CloseTruth ==
    ASSUME TruthInv, OnceInv', NEW r \in Req, CloseNeverStarted(r)
    PROVE  TruthInv'
<1>a. PICK op \in Op : op = arg[r].op
  BY DEF TruthInv, OnceInv, TypeInv, TypeOK, Submission
<1>0. TypeOK /\ OnceInv /\ RequestAt(r) /\ pc[r] = "close" /\ arg' = arg /\ ran' = ran
      /\ held' = held /\ cut' = cut /\ out' = out /\ recErr' = recErr
      /\ UNCHANGED <<arg, engineVars>> /\ Goto(r, "done")
  BY DEF TruthInv, OnceInv, TypeInv, CloseNeverStarted, engineVars, Answer
<1>1. /\ \A q \in Req : pc'[q] = IF q = r THEN "done" ELSE pc[q]
      /\ \A q \in Req : reply'[q] = IF q = r THEN Refuse("unavailable") ELSE reply[q]
  BY <1>0 DEF CloseNeverStarted, Answer, Goto, TypeOK
<1>2. r \notin ran[op]
  BY <1>0 DEF OnceInv, ClaimSpent
<1>3. AnswerStands(r, op)'
  BY <1>0, <1>1, <1>2, RefusalStands DEF Refusals
<1>4. CASE Lose(r, "close") /\ UNCHANGED rows
  <2>1. /\ \A q \in Req : q # r => late'[q] = late[q]
        /\ late'[r] \subseteq late[r] \union Executing(pc[r])
    BY <1>0, <1>4, LoseEffect DEF Statement, Executing
  <2> QED BY <1>a, <1>0, <1>1, <1>3, <1>4, <2>1, BeforeRun
<1>5. CASE Commit(r, "close") /\ UNCHANGED late
  <2>1. /\ rows'[op] = Finalize(rows[op], "failed")
        /\ \A o \in Op : o # op => rows'[o] = rows[o]
    BY <1>a, <1>0, <1>5 DEF Commit, Execute, TypeOK
  <2>2. \A q \in Req : ~Claims(q, op)
    BY <1>a, <1>0 DEF RequestAt, AloneAt
  <2>3. /\ OperationAt(op)'
        /\ Exists(rows[op]) => Exists(rows'[op]) /\ rows'[op].age = rows[op].age
        /\ InFlight(rows'[op]) => InFlight(rows[op])
    BY <1>0, <2>1, <2>2, CloseRow
  <2>4. FreshAt(r)'
    BY <1>1 DEF FreshAt
  <2>5. late' = late /\ pc'[r] = "done" /\ pc[r] \in Working
        /\ (late[r] \cap {"append", "finalize"} # {} => r \in ran[op])
    BY <1>a, <1>0, <1>1, <1>5 DEF Working, RequestAt, RanAt
  <2> QED BY <1>a, <1>0, <1>1, <1>3, <2>1, <2>3, <2>4, <2>5, HandlerStep
<1> QED BY <1>4, <1>5 DEF CloseNeverStarted

\* Nobody else is about to stamp or runs an operation that a request ran.
LEMMA RunnerAlone ==
    ASSUME TruthInv, NEW op \in Op, NEW r \in ran[op], NEW q \in Req, arg[q].op = op, q # r
    PROVE  pc[q] \notin {"mark", "apply", "record", "finalize"}
<1>0. r \in Req /\ OnceInv /\ RanAt(q)
  BY DEF TruthInv, OnceInv, TypeInv, TypeOK, RequestAt
<1>1. ~Claims(q, op)
  BY <1>0 DEF OnceInv, ClaimUnique, Claims
<1> QED BY <1>0, <1>1 DEF Claims, RanAt

\* The engine of request r is running: it ran, and its run is what RunAt says.
LEMMA RunnerFacts ==
    ASSUME TruthInv, NEW r \in Req, NEW op \in Op, op = arg[r].op,
           pc[r] \in {"apply", "record", "finalize"} \/ late[r] \cap {"append", "finalize"} # {}
    PROVE  /\ r \in ran[op] /\ RunAt(r, op) /\ Exists(rows[op]) /\ rows[op] \in Row
           /\ \A i \in Sent(op) : i \in Doc
           /\ pc[r] # "done" \/ "finalize" \in late[r] => \A i \in Sent(op) : i <= Len(out[r])
           /\ pc[r] # "done" => rows[op].state \notin Settled
<1>1. r \in ran[op] /\ RunAt(r, op)
  BY DEF TruthInv, RequestAt, RanAt, OperationAt
<1>2. Exists(rows[op]) /\ rows[op] \in Row /\ held[op] \subseteq Doc /\ cut[op] \subseteq Doc
  BY <1>1, ExistsIsRow DEF TruthInv, OnceInv, TypeInv, TypeOK, AnyRow, ClaimBacked, Claims
<1> QED BY <1>1, <1>2 DEF RunAt, SentBy, Ended, Sent

\* A step of a run that touches neither the row nor the cluster.
LEMMA DuringRun ==
    ASSUME TruthInv, OnceInv', NEW r \in Req, NEW op \in Op, op = arg[r].op, NEW p \in {"finalize", "done"},
           UNCHANGED <<rows, arg, out, held, cut, ran>>, Goto(r, p),
           pc[r] \in {"apply", "record", "finalize"},
           \A q \in Req : q # r => late'[q] = late[q] /\ recErr'[q] = recErr[q] /\ reply'[q] = reply[q],
           late'[r] \subseteq late[r] \union Executing(pc[r]),
           Lag(r, op)',
           reply'[r] = reply[r] \/ AnswerStands(r, op)'
    PROVE  TruthInv'
<1>0. TypeOK /\ OnceInv /\ RequestAt(r) /\ OperationAt(op) /\ arg' = arg /\ ran' = ran
      /\ held' = held /\ cut' = cut /\ out' = out /\ rows' = rows
  BY DEF TruthInv, OnceInv, TypeInv
<1>1. \A q \in Req : pc'[q] = IF q = r THEN p ELSE pc[q]
  BY <1>0 DEF Goto, TypeOK
<1>2. /\ r \in ran[op] /\ RunAt(r, op) /\ \A i \in Sent(op) : i <= Len(out[r])
      /\ rows[op].state \notin Settled
  BY RunnerFacts
<1>3. RunAt(r, op)'
  <2>1. Sent(op)' = Sent(op)
    BY <1>0 DEF Sent
  <2>2. SentBy(r, op)'
    BY <1>0, <1>2, <2>1 DEF RunAt, SentBy
  <2>3. Ended(r, op)'
    BY <1>0, <1>2 DEF Ended, Settled, Terminal
  <2>4. OutcomesTrue(r, op)' /\ RecordsAre(r, op)'
    BY <1>0, <1>2, <2>1 DEF RunAt, OutcomesTrue, RecordsAre
  <2> QED BY <1>0, <1>2, <2>2, <2>3, <2>4 DEF RunAt
<1>4. OperationAt(op)'
  BY <1>0, <1>1, <1>3, SameOperation
<1>5. FreshAt(r)'
  BY <1>1 DEF FreshAt
<1>6. /\ pc[r] \in Working /\ pc'[r] # "mark" /\ pc'[r] \notin {"apply", "record", "close"}
      /\ ("close" \in late'[r] => "close" \in late[r])
  BY <1>1 DEF Working, Executing
<1> QED BY <1>0, <1>1, <1>2, <1>4, <1>5, <1>6, HandlerStep

\* The answer of a run that ended is what happened.
LEMMA LiveStands ==
    ASSUME TruthInv, NEW r \in Req, NEW op \in Op, op = arg[r].op, pc[r] = "finalize",
           arg' = arg, held' = held, cut' = cut, Exists(rows'[op]),
           \A q \in Req : pc'[q] = IF q = r THEN "done" ELSE pc[q],
           reply'[r] = assembleResults(out[r])
    PROVE  AnswerStands(r, op)'
<1>1. /\ r \in ran[op] /\ RunAt(r, op) /\ \A i \in Sent(op) : i <= Len(out[r])
  BY RunnerFacts
<1>2. Sent(op)' = Sent(op)
  BY DEF Sent
<1>3. /\ reply'[r].kind = "live"
      /\ \A i \in Doc : reply'[r].claims[i] = IF i \in 1 .. Len(out[r]) THEN out[r][i] ELSE NotAttempted
  BY DEF assembleResults, Attempted
<1>4. ASSUME NEW i \in Doc, NEW q \in Req, arg[q].op = op PROVE ~MaySend(q, i)'
  <2>1. q # r => pc[q] \notin {"mark", "apply", "record", "finalize"}
    BY <1>1, <1>4, RunnerAlone
  <2> QED BY <2>1 DEF MaySend
<1>5. ASSUME NEW i \in Doc, i \notin Sent(op) PROVE Denied(i, op)'
  BY <1>2, <1>4, <1>5 DEF Denied
<1>6. out[r] \in Seq(Outcome) /\ Doc \subseteq Nat \ {0} /\ NotAttempted \notin Outcome /\ NotAttempted # "applied"
  BY DEF TruthInv, OnceInv, TypeInv, TypeOK, Doc, NotAttempted, Outcome, Indeterminate
<1>7. ASSUME NEW i \in Doc, reply'[r].claims[i] = "applied" PROVE i \in held'[op]
  BY <1>1, <1>3, <1>6, <1>7 DEF RunAt, OutcomesTrue
<1>8. ASSUME NEW i \in Doc, reply'[r].claims[i] \in {"rejected", NotAttempted} PROVE i \notin Sent(op)
  <2>1. CASE i \in 1 .. Len(out[r])
    <3>1. out[r][i] \in Outcome
      BY <1>6, <2>1, ElementOf
    <3> QED BY <1>1, <1>3, <1>6, <1>8, <2>1, <3>1 DEF RunAt, OutcomesTrue
  <2>2. CASE i \notin 1 .. Len(out[r])
    BY <1>1, <1>6, <2>2
  <2> QED BY <2>1, <2>2
<1>9. ClaimsStand(r, op)'
  BY <1>5, <1>7, <1>8 DEF ClaimsStand
<1> QED BY <1>3, <1>9 DEF AnswerStands, Refusals

\* The request context ended before the PATCH.
LEMMA EngineStopsTruth ==
    ASSUME TruthInv, OnceInv', NEW r \in Req, EngineStops(r)
    PROVE  TruthInv'
<1>a. PICK op \in Op : op = arg[r].op
  BY DEF TruthInv, OnceInv, TypeInv, TypeOK, Submission
<1>0. /\ pc[r] = "apply" /\ UNCHANGED <<rows, arg, out, held, cut, ran>> /\ Goto(r, "finalize")
      /\ late' = late /\ reply' = reply /\ recErr' = recErr /\ pc'[r] = "finalize"
  BY DEF EngineStops, Engine, engineVars, Goto, TruthInv, OnceInv, TypeInv, TypeOK
<1>1. RunAt(r, op)
  BY <1>a, <1>0, RunnerFacts
<1>2. Lag(r, op)'
  BY <1>0, <1>1 DEF RunAt, Lag
<1> QED BY <1>a, <1>0, <1>2, DuringRun

\* A recording failure ends the engine; the append may still land.
LEMMA RecordErrorTruth ==
    ASSUME TruthInv, OnceInv', NEW r \in Req, RecordError(r)
    PROVE  TruthInv'
<1>a. PICK op \in Op : op = arg[r].op
  BY DEF TruthInv, OnceInv, TypeInv, TypeOK, Submission
<1>0. /\ pc[r] = "record" /\ UNCHANGED <<rows, arg, out, held, cut, ran>> /\ Goto(r, "finalize")
      /\ reply' = reply /\ recErr'[r] = TRUE /\ pc'[r] = "finalize"
      /\ \A q \in Req : q # r => recErr'[q] = recErr[q]
  BY DEF RecordError, AfterRecording, Goto, TruthInv, OnceInv, TypeInv, TypeOK
<1>1. RunAt(r, op)
  BY <1>a, <1>0, RunnerFacts
<1>2. /\ \A q \in Req : q # r => late'[q] = late[q]
      /\ late'[r] \subseteq late[r] \union {"append"}
  BY LoseEffect DEF RecordError, TruthInv, OnceInv, TypeInv, Statement
<1>3. Lag(r, op)'
  BY <1>0, <1>1, <1>2 DEF RunAt, Lag
<1>4. late'[r] \subseteq late[r] \union Executing(pc[r])
  BY <1>0, <1>2 DEF Executing
<1> QED BY <1>a, <1>0, <1>2, <1>3, <1>4, DuringRun

\* A run stays what it was when statements of it are gone, a sent document is
\* committed or given up, or the sweeper makes its row unknown.
LEMMA RunKept ==
    ASSUME NEW q, NEW o, RunAt(q, o), arg' = arg,
           pc'[q] = pc[q], late'[q] \subseteq late[q], out'[q] = out[q], recErr'[q] = recErr[q],
           rows'[o].started, rows'[o].objects = rows[o].objects,
           rows'[o].state = rows[o].state \/ rows'[o].state = "unknown",
           held[o] \subseteq held'[o], held'[o] \subseteq Doc, Sent(o)' \subseteq Sent(o)
    PROVE  RunAt(q, o)'
<1>1. OutcomesTrue(q, o)' /\ RecordsAre(q, o)'
  BY DEF RunAt, OutcomesTrue, RecordsAre
<1>2. Lag(q, o)'
  BY DEF RunAt, Lag
<1>3. SentBy(q, o)'
  BY DEF RunAt, SentBy, Settled
<1>4. Ended(q, o)'
  BY DEF RunAt, Ended, Settled
<1> QED BY <1>1, <1>2, <1>3, <1>4 DEF RunAt

\* Append adds one element at the end.
LEMMA AppendIs ==
    ASSUME NEW S, NEW s \in Seq(S), NEW e \in S
    PROVE  /\ Len(Append(s, e)) = Len(s) + 1
           /\ \A k \in 1 .. Len(s) : Append(s, e)[k] = s[k]
           /\ Append(s, e)[Len(s) + 1] = e
  OBVIOUS

\* The recorder's append, on time or late: the receipt has caught up.
LEMMA AppendRow ==
    ASSUME TruthInv, NEW r \in Req, NEW op \in Op, op = arg[r].op, r \in ran[op],
           Len(out[r]) = Len(rows[op].objects) + 1, Len(out[r]) \in Doc, InFlight(rows[op]),
           rows'[op] = AppendObject(rows[op], observation(r)),
           arg' = arg, ran' = ran, held' = held, cut' = cut, out' = out, recErr' = recErr,
           pc'[r] # "record", "append" \notin late'[r], "finalize" \in late'[r] => pc'[r] = "done",
           pc'[r] = "apply" => ~recErr[r]
    PROVE  /\ OperationAt(op)'
           /\ Exists(rows'[op]) /\ rows'[op].age = rows[op].age
<1>0. TypeOK /\ OperationAt(op) /\ RunAt(r, op) /\ rows[op] \in Row /\ \A q \in ran[op] : q = r
  BY ExistsIsRow DEF TruthInv, OnceInv, TypeInv, TypeOK, AnyRow, OperationAt, InFlight, ClaimUnique, Claims
<1> DEFINE n == Len(rows[op].objects)
<1>1. /\ rows[op].objects \in Seq([index : Doc, outcome : Outcome]) /\ n \in Nat
      /\ out[r] \in Seq(Outcome)
  BY <1>0 DEF Row, TypeOK
<1>2. /\ Exists(rows'[op]) /\ rows'[op].age = rows[op].age /\ rows'[op].state = rows[op].state
      /\ rows'[op].started = rows[op].started /\ rows'[op].completed = rows[op].completed
      /\ rows'[op].objects = Append(rows[op].objects, [index |-> n + 1, outcome |-> out[r][n + 1]])
  BY <1>0 DEF AppendObject, InFlight, Exists, Row, observation
<1>3. rows[op].state \notin Terminal
  BY <1>0 DEF InFlight, OperationAt, WholeAt
<1>4. /\ Len(rows'[op].objects) = n + 1
      /\ \A k \in 1 .. n : rows'[op].objects[k] = rows[op].objects[k]
      /\ rows'[op].objects[n + 1] = [index |-> n + 1, outcome |-> out[r][n + 1]]
  <2>1. [index |-> n + 1, outcome |-> out[r][n + 1]] \in [index : Doc, outcome : Outcome]
    BY <1>0, ObservationType DEF observation
  <2>2. PICK e : e = [index |-> n + 1, outcome |-> out[r][n + 1]]
    OBVIOUS
  <2>3. PICK s : s = rows[op].objects
    OBVIOUS
  <2>4. PICK S : S = [index : Doc, outcome : Outcome]
    OBVIOUS
  <2>5. s \in Seq(S) /\ e \in S /\ n = Len(s) /\ rows'[op].objects = Append(s, e)
    BY <1>1, <1>2, <2>1, <2>2, <2>3, <2>4
  <2>6. PICK u : u = Append(s, e)
    OBVIOUS
  <2>7. Len(u) = Len(s) + 1 /\ (\A k \in 1 .. Len(s) : u[k] = s[k]) /\ u[Len(s) + 1] = e
    BY <2>5, <2>6, AppendIs
  <2>8. rows'[op].objects = u
    BY <2>5, <2>6
  <2> HIDE DEF n
  <2>9. Len(rows'[op].objects) = n + 1 /\ rows'[op].objects[n + 1] = e
    BY <2>5, <2>7, <2>8
  <2>10. \A k \in 1 .. n : rows'[op].objects[k] = rows[op].objects[k]
    BY <2>3, <2>5, <2>7, <2>8
  <2> QED BY <2>2, <2>9, <2>10
<1>5. WholeAt(op)' /\ IdleAt(op)'
  <2>1. IdleAt(op)'
    BY DEF IdleAt
  <2>2. WholeAt(op)'
    BY <1>0, <1>2 DEF OperationAt, WholeAt, InFlight
  <2> QED BY <2>1, <2>2
<1>6. OutcomesTrue(r, op)'
  BY <1>0 DEF RunAt, OutcomesTrue, Sent
<1>7. RecordsAre(r, op)'
  <2>1. ASSUME NEW k \in 1 .. (n + 1) PROVE rows'[op].objects[k] = [index |-> k, outcome |-> out[r][k]]
    <3>1. k \in 1 .. n \/ k = n + 1
      BY <1>1
    <3> QED BY <1>0, <1>4, <3>1 DEF RunAt, RecordsAre
  <2> QED BY <1>4, <2>1 DEF RecordsAre
<1>8. Lag(r, op)'
  BY <1>1, <1>4 DEF Lag
<1>9. SentBy(r, op)'
  <2>1. \A i \in Sent(op) : i <= n + 1 /\ i \in Nat
    BY <1>0 DEF RunAt, SentBy, Sent, TypeOK, Doc
  <2>2. Sent(op)' = Sent(op)
    BY DEF Sent
  <2>3. ASSUME NEW i \in Sent(op) PROVE i <= Len(rows'[op].objects) + 1 /\ i <= Len(out[r])
    BY <1>1, <1>4, <2>1
  <2> QED BY <2>2, <2>3 DEF SentBy
<1>10. Ended(r, op)'
  BY <1>2, <1>3 DEF Ended, Settled, Terminal
<1> QED BY <1>0, <1>2, <1>5, <1>6, <1>7, <1>8, <1>9, <1>10 DEF OperationAt, RunAt

\* A run that is finalized as applied put every document on the cluster.
LEMMA AppliedIsHeld ==
    ASSUME NEW r, NEW op, OutcomesTrue(r, op), held[op] \subseteq Doc, stateFor(out[r]) = "applied"
    PROVE  held[op] = Doc
<1>1. {i \in 1 .. Len(out[r]) : out[r][i] = "applied"} = Doc
  BY DEF stateFor, Attempted
<1> QED BY <1>1 DEF OutcomesTrue

\* The finalize of a run, on time or late.
LEMMA FinalizeRow ==
    ASSUME TruthInv, NEW r \in Req, NEW op \in Op, op = arg[r].op, r \in ran[op],
           \A i \in Sent(op) : i <= Len(out[r]),
           ~recErr[r] => Len(out[r]) = Len(rows[op].objects),
           rows'[op] = Finalize(rows[op], finalState(r)),
           arg' = arg, ran' = ran, held' = held, cut' = cut, out' = out, recErr' = recErr,
           pc'[r] = "done", late'[r] \subseteq late[r]
    PROVE  /\ OperationAt(op)'
           /\ Exists(rows'[op]) /\ rows'[op].age = rows[op].age
           /\ InFlight(rows'[op]) => InFlight(rows[op])
<1>0. /\ TypeOK /\ OperationAt(op) /\ RunAt(r, op) /\ \A q \in ran[op] : q = r
      /\ Exists(rows[op]) /\ rows[op] \in Row
  BY ExistsIsRow
     DEF TruthInv, OnceInv, TypeInv, TypeOK, AnyRow, OperationAt, ClaimBacked, ClaimUnique, Claims
<1>1. finalState(r) \in Terminal
  BY StateForTerminal DEF finalState, Terminal
<1>2. /\ Exists(rows'[op]) /\ rows'[op].age = rows[op].age /\ rows'[op].started = rows[op].started
      /\ rows'[op].objects = rows[op].objects
      /\ \/ rows'[op] = rows[op]
         \/ InFlight(rows[op]) /\ rows'[op].completed /\ rows'[op].state = finalState(r)
  BY <1>0, <1>1 DEF Finalize, InFlight, Exists, Row, Terminal
<1>3. WholeAt(op)' /\ IdleAt(op)'
  BY <1>0, <1>1, <1>2 DEF OperationAt, WholeAt, IdleAt
<1>4. Sent(op)' = Sent(op) /\ held[op] \subseteq Doc
  BY <1>0 DEF Sent, TypeOK
<1>5. OutcomesTrue(r, op)' /\ RecordsAre(r, op)'
  BY <1>0, <1>2, <1>4 DEF RunAt, OutcomesTrue, RecordsAre
<1>6. Lag(r, op)'
  BY <1>0, <1>2 DEF RunAt, Lag
<1>7. SentBy(r, op)'
  BY <1>0, <1>2, <1>4 DEF RunAt, SentBy
<1>8. Ended(r, op)'
  <2>1. CASE rows'[op] = rows[op]
    BY <1>0, <2>1 DEF RunAt, Ended
  <2>2. CASE rows'[op].state = finalState(r)
    <3>1. CASE recErr[r]
      BY <2>2, <3>1 DEF finalState, Ended, Settled
    <3>2. CASE ~recErr[r]
      <4>1. rows'[op].state = "applied" => held'[op] = Doc
        BY <1>0, <1>4, <2>2, <3>2, AppliedIsHeld DEF RunAt, finalState
      <4> QED BY <1>2, <3>2, <4>1 DEF Ended
    <3> QED BY <3>1, <3>2
  <2> QED BY <1>2, <2>1, <2>2
<1>9. InFlight(rows'[op]) => InFlight(rows[op])
  BY <1>2
<1> QED BY <1>0, <1>2, <1>3, <1>5, <1>6, <1>7, <1>8, <1>9 DEF OperationAt, RunAt

\* An outcome is recorded on time.
LEMMA RecordTruth ==
    ASSUME TruthInv, OnceInv', NEW r \in Req, RecordOutcome(r)
    PROVE  TruthInv'
<1>a. PICK op \in Op : op = arg[r].op
  BY DEF TruthInv, OnceInv, TypeInv, TypeOK, Submission
<1>0. /\ TypeOK /\ pc[r] = "record" /\ arg' = arg /\ ran' = ran /\ held' = held /\ cut' = cut
      /\ out' = out /\ recErr' = recErr /\ late' = late /\ reply' = reply /\ InFlight(rows[op])
      /\ Len(out[r]) \in Doc
  BY <1>a DEF TruthInv, OnceInv, TypeInv, RecordOutcome, engineVars, MyRow, ObservationInRange
<1>1. /\ \A q \in Req : q # r => pc'[q] = pc[q]
      /\ pc'[r] \in {"apply", "finalize"}
  BY <1>0 DEF RecordOutcome, AfterRecording, Goto, TypeOK
<1>2. /\ rows'[op] = AppendObject(rows[op], observation(r))
      /\ \A o \in Op : o # op => rows'[o] = rows[o]
  BY <1>a, <1>0 DEF RecordOutcome, Commit, Execute, TypeOK
<1>3. r \in ran[op] /\ Lag(r, op)
  BY <1>a, <1>0, RunnerFacts DEF RunAt
<1>4. /\ Len(out[r]) = Len(rows[op].objects) + 1 /\ "append" \notin late[r] /\ "finalize" \notin late[r]
      /\ ~recErr[r]
  BY <1>0, <1>3 DEF Lag
<1>5. OperationAt(op)' /\ Exists(rows'[op]) /\ rows'[op].age = rows[op].age
  BY <1>a, <1>0, <1>1, <1>2, <1>3, <1>4, AppendRow
<1>6. FreshAt(r)'
  BY <1>1 DEF FreshAt
<1>7. pc[r] \in Working /\ pc[r] # "done"
  BY <1>0 DEF Working
<1> QED BY <1>a, <1>0, <1>1, <1>2, <1>3, <1>5, <1>6, <1>7, HandlerStep

\* The run ends: the row is finalized, or not, and the results are answered.
LEMMA FinalizeTruth ==
    ASSUME TruthInv, OnceInv', NEW r \in Req, FinalizeReceipt(r)
    PROVE  TruthInv'
<1>a. PICK op \in Op : op = arg[r].op
  BY DEF TruthInv, OnceInv, TypeInv, TypeOK, Submission
<1>0. /\ TypeOK /\ pc[r] = "finalize" /\ arg' = arg /\ ran' = ran /\ held' = held /\ cut' = cut
      /\ out' = out /\ recErr' = recErr /\ Goto(r, "done")
  BY <1>a DEF TruthInv, OnceInv, TypeInv, FinalizeReceipt, engineVars, Answer
<1>1. /\ \A q \in Req : pc'[q] = IF q = r THEN "done" ELSE pc[q]
      /\ \A q \in Req : reply'[q] = IF q = r THEN assembleResults(out[r]) ELSE reply[q]
  BY <1>0 DEF FinalizeReceipt, Answer, Goto, TypeOK
<1>2. /\ r \in ran[op] /\ Lag(r, op) /\ Exists(rows[op]) /\ \A i \in Sent(op) : i <= Len(out[r])
  BY <1>a, <1>0, RunnerFacts DEF RunAt
<1>3. CASE Lose(r, "finalize") /\ UNCHANGED rows
  <2>1. /\ \A q \in Req : q # r => late'[q] = late[q]
        /\ late'[r] \subseteq late[r] \union {"finalize"}
    BY <1>0, <1>3, LoseEffect DEF Statement
  <2>2. late'[r] \subseteq late[r] \union Executing(pc[r])
    BY <1>0, <2>1 DEF Executing
  <2>3. AnswerStands(r, op)'
    BY <1>a, <1>0, <1>1, <1>2, <1>3, LiveStands
  <2>4. Lag(r, op)'
    BY <1>0, <1>1, <1>2, <1>3, <2>1 DEF Lag
  <2> QED BY <1>a, <1>0, <1>1, <1>3, <2>1, <2>2, <2>3, <2>4, DuringRun
<1>4. CASE Commit(r, "finalize") /\ UNCHANGED late
  <2>1. /\ rows'[op] = Finalize(rows[op], finalState(r))
        /\ \A o \in Op : o # op => rows'[o] = rows[o]
    BY <1>a, <1>0, <1>4 DEF Commit, Execute, TypeOK
  <2>2. ~recErr[r] => Len(out[r]) = Len(rows[op].objects)
    BY <1>0, <1>2 DEF Lag
  <2>3. /\ OperationAt(op)' /\ Exists(rows'[op]) /\ rows'[op].age = rows[op].age
        /\ InFlight(rows'[op]) => InFlight(rows[op])
    BY <1>a, <1>0, <1>1, <1>2, <1>4, <2>1, <2>2, FinalizeRow
  <2>4. AnswerStands(r, op)'
    BY <1>a, <1>0, <1>1, <2>3, LiveStands
  <2>5. FreshAt(r)' /\ pc[r] \in Working
    BY <1>0, <1>1 DEF FreshAt, Working
  <2> QED BY <1>a, <1>0, <1>1, <1>2, <1>4, <2>1, <2>3, <2>4, <2>5, HandlerStep
<1> QED BY <1>3, <1>4 DEF FinalizeReceipt

\* A row that is inserted, on time or late, finds nothing said about its operation.
LEMMA NewRow ==
    ASSUME TruthInv, OnceInv', NEW r \in Req, NEW op \in Op, op = arg[r].op, arg' = arg,
           ran' = ran, held' = held, cut' = cut, out' = out, recErr' = recErr, reply' = reply,
           ~Exists(rows[op]), rows'[op] = Insert(rows[op], arg[r]),
           \A o \in Op : o # op => rows'[o] = rows[o],
           \A q \in Req : q # r => pc'[q] = pc[q] /\ late'[q] = late[q],
           late'[r] \subseteq late[r],
           pc'[r] = pc[r] \/ (pc[r] = "insert" /\ pc'[r] = "mark")
    PROVE  TruthInv'
<1>0. /\ TypeOK /\ OnceInv /\ OperationAt(op) /\ RequestAt(r) /\ ran[op] = {}
      /\ \A q \in Req : ~Claims(q, op)
  BY DEF TruthInv, OnceInv, TypeInv, TypeOK, ClaimBacked, Claims
<1>1. /\ Exists(rows'[op]) /\ rows'[op].age = "young" /\ rows'[op].state = "applying"
      /\ ~rows'[op].completed /\ rows'[op].objects = <<>>
  BY DEF Insert, Exists
<1>2. ASSUME NEW q \in Req, arg[q].op = op
      PROVE  pc[q] \notin Working /\ late[q] \ {"insert"} = {} /\ AnswerStands(q, op)
  BY <1>2 DEF TruthInv, RequestAt, KeptAt
<1>3. ASSUME NEW q \in Req, arg[q].op = op PROVE AloneAt(q)'
  <2>1. pc'[q] # "close" /\ "close" \notin late'[q]
    BY <1>2, <1>3 DEF Working
  <2> QED BY <2>1 DEF AloneAt
<1>4. KeptAt(r)' /\ FreshAt(r)'
  BY <1>0, <1>1 DEF KeptAt, FreshAt, RequestAt
<1>5. RanAt(r)'
  <2>1. pc'[r] \notin {"apply", "record", "finalize"} /\ late'[r] \cap {"append", "finalize"} = {}
    BY <1>2 DEF Working
  <2> QED BY <2>1 DEF RanAt
<1>6. OperationAt(op)'
  BY <1>0, <1>1 DEF OperationAt, WholeAt, IdleAt, Sent, Terminal
<1>7. ASSUME NEW q \in Req, arg[q].op = op PROVE AnswerStands(q, op)'
  <2>1. AnswerStands(q, op)
    BY <1>2, <1>7
  <2>2. /\ reply'[q].claims = NoClaims /\ reply'[q].kind \notin {"live", "replay"}
        /\ reply'[q].kind # "none" => pc'[q] = "done"
    BY <2>1 DEF AnswerStands
  <2>3. ClaimsStand(q, op)'
    BY <2>2 DEF ClaimsStand, NoClaims, NotAttempted
  <2> QED BY <1>0, <2>2, <2>3 DEF AnswerStands
<1>8. \A q \in Req : q # r => /\ pc'[q] = pc[q] /\ late'[q] = late[q] /\ out'[q] = out[q]
                              /\ recErr'[q] = recErr[q] /\ reply'[q] = reply[q]
  OBVIOUS
<1> QED BY <1>0, <1>3, <1>4, <1>5, <1>6, <1>7, <1>8, Elsewhere DEF RequestAt

\* The INSERT that wins.
LEMMA InsertTruth ==
    ASSUME TruthInv, OnceInv', NEW r \in Req, InsertIntent(r)
    PROVE  TruthInv'
<1>a. PICK op \in Op : op = arg[r].op
  BY DEF TruthInv, OnceInv, TypeInv, TypeOK, Submission
<1>0. /\ TypeOK /\ pc[r] = "insert" /\ ~Exists(rows[op]) /\ late' = late /\ reply' = reply
      /\ arg' = arg /\ ran' = ran /\ held' = held /\ cut' = cut /\ out' = out /\ recErr' = recErr
  BY <1>a DEF TruthInv, OnceInv, TypeInv, InsertIntent, engineVars, MyRow
<1>1. \A q \in Req : pc'[q] = IF q = r THEN "mark" ELSE pc[q]
  BY <1>0 DEF InsertIntent, Goto, TypeOK
<1>2. /\ rows'[op] = Insert(rows[op], arg[r])
      /\ \A o \in Op : o # op => rows'[o] = rows[o]
  BY <1>a, <1>0 DEF InsertIntent, Commit, Execute, TypeOK
<1> QED BY <1>a, <1>0, <1>1, <1>2, NewRow

\* The stamp starts a run that has done nothing.
LEMMA MarkTruth ==
    ASSUME TruthInv, OnceInv', NEW r \in Req, MarkStarted(r)
    PROVE  TruthInv'
<1>a. PICK op \in Op : op = arg[r].op
  BY DEF TruthInv, OnceInv, TypeInv, TypeOK, Submission
<1>0. /\ TypeOK /\ OnceInv /\ OperationAt(op) /\ RequestAt(r)
      /\ pc[r] = "mark" /\ InFlight(rows[op]) /\ late' = late /\ reply' = reply
      /\ arg' = arg /\ held' = held /\ cut' = cut /\ out' = out /\ recErr' = recErr
  BY <1>a DEF TruthInv, OnceInv, TypeInv, MarkStarted, MyRow
<1>1. /\ \A q \in Req : pc'[q] = IF q = r THEN "apply" ELSE pc[q]
      /\ \A o \in Op : ran'[o] = IF o = op THEN ran[o] \union {r} ELSE ran[o]
  BY <1>a, <1>0 DEF MarkStarted, Goto, TypeOK
<1>2. rows[op] \in Row
  BY <1>0, ExistsIsRow DEF TypeOK, AnyRow, InFlight
<1>3. /\ Exists(rows'[op]) /\ rows'[op].age = rows[op].age /\ rows'[op].state = rows[op].state
      /\ rows'[op].objects = rows[op].objects /\ rows'[op].completed = rows[op].completed
      /\ rows'[op].started /\ \A o \in Op : o # op => rows'[o] = rows[o]
  <2>1. rows' = [rows EXCEPT ![op] = MarkMutationStarted(rows[op])]
    BY <1>a DEF MarkStarted, Commit, Execute
  <2>2. rows'[op] = [rows[op] EXCEPT !.started = TRUE] /\ \A o \in Op : o # op => rows'[o] = rows[o]
    BY <1>0, <2>1 DEF MarkMutationStarted, TypeOK
  <2> QED BY <1>0, <1>2, <2>2 DEF Row, Exists, InFlight
<1>4. r \notin ran[op] /\ ran[op] = {} /\ ran'[op] = {r}
  <2>1. r \notin ran[op]
    BY <1>0 DEF OnceInv, ClaimSpent
  <2>2. \A q \in ran[op] : q = r
    BY <1>a, <1>0 DEF OnceInv, ClaimUnique, Claims, TypeOK
  <2> QED BY <1>1, <2>1, <2>2
<1>5. ASSUME NEW q \in Req, arg[q].op = op PROVE AloneAt(q)'
  <2>1. pc[q] # "close" /\ "close" \notin late[q]
    BY <1>a, <1>0, <1>5 DEF TruthInv, RequestAt, AloneAt, Claims
  <2> QED BY <1>0, <1>1, <2>1 DEF AloneAt
<1>6. KeptAt(r)' /\ RanAt(r)' /\ FreshAt(r)'
  BY <1>a, <1>0, <1>1, <1>3, <1>4 DEF KeptAt, RanAt, FreshAt, RequestAt, Working
<1>7. RunAt(r, op)'
  <2>1. out[r] = <<>> /\ ~recErr[r] /\ late[r] \cap {"append", "finalize"} = {}
    BY <1>a, <1>0, <1>4 DEF RequestAt, FreshAt, RanAt
  <2>2. Sent(op)' = {} /\ rows'[op].objects = <<>> /\ Len(<<>>) = 0
    BY <1>0, <1>3, <1>4 DEF OperationAt, IdleAt, Sent, InFlight
  <2>3. rows'[op].state \notin Terminal
    BY <1>0, <1>3 DEF OperationAt, WholeAt, InFlight
  <2>4. Len(out'[r]) = 0 /\ Len(rows'[op].objects) = 0
    BY <1>0, <2>1, <2>2
  <2>5. OutcomesTrue(r, op)' /\ RecordsAre(r, op)'
    BY <2>4 DEF OutcomesTrue, RecordsAre
  <2>6. Lag(r, op)'
    BY <1>0, <1>1, <2>1, <2>4 DEF Lag
  <2>7. SentBy(r, op)' /\ Ended(r, op)'
    BY <2>2, <2>3 DEF SentBy, Ended, Settled, Terminal
  <2> QED BY <1>a, <1>0, <1>3, <2>5, <2>6, <2>7 DEF RunAt
<1>8. OperationAt(op)'
  <2>1. WholeAt(op)'
    BY <1>0, <1>3 DEF OperationAt, WholeAt, InFlight
  <2> QED BY <1>4, <1>7, <2>1 DEF OperationAt, IdleAt
<1>9. ASSUME NEW q \in Req, arg[q].op = op PROVE AnswerStands(q, op)'
  <2>1. AnswerStands(q, op) /\ ClaimsStand(q, op)
    BY <1>9 DEF TruthInv, AnswerStands
  <2>2. \A x \in Req : arg[x].op = op => \A i \in Doc : MaySend(x, i)' => MaySend(x, i)
    BY <1>a, <1>0, <1>1, <1>3 DEF MaySend, InFlight
  <2>3. Sent(op)' = Sent(op)
    BY <1>0 DEF Sent
  <2>4. ClaimsStand(q, op)'
    BY <1>0, <2>1, <2>2, <2>3, ClaimsSame
  <2>5. reply'[q].kind # "none" => pc'[q] = "done" /\ q # r
    BY <1>0, <1>1, <2>1 DEF AnswerStands
  <2>6. reply'[q].kind \in Refusals \union {"replay"} => q \notin ran'[op]
    BY <1>4, <2>5 DEF Refusals
  <2> QED BY <1>0, <1>3, <2>1, <2>4, <2>5, <2>6 DEF AnswerStands
<1> QED BY <1>a, <1>0, <1>1, <1>3, <1>4, <1>5, <1>6, <1>8, <1>9, Elsewhere DEF RequestAt

\* A late statement lands: what is left to show is what it does to the row.
LEMMA LateStep ==
    ASSUME TruthInv, OnceInv', NEW r \in Req, NEW op \in Op, op = arg[r].op, NEW s \in late[r],
           late' = [late EXCEPT ![r] = @ \ {s}], UNCHANGED <<pc, arg, reply, engineVars>>,
           \A o \in Op : o # op => rows'[o] = rows[o],
           Exists(rows[op]) => Exists(rows'[op]) /\ rows'[op].age = rows[op].age,
           InFlight(rows'[op]) => InFlight(rows[op]),
           OperationAt(op)'
    PROVE  TruthInv'
<1>0. /\ TypeOK /\ RequestAt(r) /\ pc' = pc /\ arg' = arg /\ reply' = reply /\ ran' = ran
      /\ held' = held /\ cut' = cut /\ out' = out /\ recErr' = recErr
  BY DEF TruthInv, OnceInv, TypeInv, engineVars
<1>1. late'[r] \subseteq late[r] /\ \A q \in Req : q # r => late'[q] = late[q]
  BY <1>0 DEF TypeOK
<1>2. FreshAt(r)'
  BY <1>0 DEF RequestAt, FreshAt
<1>3. late[r] \cap {"append", "finalize"} # {} \/ pc[r] \in {"apply", "record", "finalize"} => r \in ran[op]
  BY <1>0 DEF RequestAt, RanAt
<1>4. /\ pc'[r] \in Working \/ late'[r] \ {"insert"} # {} => pc[r] \in Working \/ late[r] \ {"insert"} # {}
      /\ pc'[r] \in {"apply", "record", "finalize"} \/ late'[r] \cap {"append", "finalize"} # {} => r \in ran[op]
      /\ pc'[r] = "close" \/ "close" \in late'[r] => pc[r] = "close" \/ "close" \in late[r]
  BY <1>0, <1>1, <1>3
<1> QED BY <1>0, <1>1, <1>2, <1>4, HandlerStep

\* What a late statement that finds the row final, or only stamps it, leaves.
LEMMA LateRow ==
    ASSUME TruthInv, NEW r \in Req, NEW op \in Op, op = arg[r].op, NEW s \in late[r],
           late' = [late EXCEPT ![r] = @ \ {s}], UNCHANGED <<pc, arg, reply, engineVars>>,
           rows'[op] = rows[op] \/ rows'[op] = MarkMutationStarted(rows[op])
    PROVE  /\ OperationAt(op)'
           /\ Exists(rows[op]) => Exists(rows'[op]) /\ rows'[op].age = rows[op].age
           /\ InFlight(rows'[op]) => InFlight(rows[op])
<1>0. /\ TypeOK /\ OperationAt(op) /\ pc' = pc /\ arg' = arg /\ reply' = reply /\ ran' = ran
      /\ held' = held /\ cut' = cut /\ out' = out /\ recErr' = recErr
      /\ rows[op] \in AnyRow /\ held[op] \subseteq Doc
  BY DEF TruthInv, OnceInv, TypeInv, engineVars, TypeOK, AnyRow
<1>1. \A q \in Req : late'[q] \subseteq late[q]
  BY <1>0 DEF TypeOK
<1>2. \/ rows'[op] = rows[op]
      \/ /\ InFlight(rows[op]) /\ Exists(rows[op]) /\ Exists(rows'[op])
         /\ rows'[op].age = rows[op].age /\ rows'[op].state = rows[op].state
         /\ rows'[op].objects = rows[op].objects /\ rows'[op].completed = rows[op].completed
         /\ rows'[op].started
  <2>1. CASE InFlight(rows[op]) /\ rows'[op] = MarkMutationStarted(rows[op])
    <3>1. rows[op] \in Row /\ rows'[op] = [rows[op] EXCEPT !.started = TRUE]
      BY <1>0, <2>1, ExistsIsRow DEF InFlight, MarkMutationStarted
    <3> QED BY <2>1, <3>1 DEF InFlight, Exists, Row
  <2> QED BY <2>1 DEF MarkMutationStarted
<1>3. Sent(op)' = Sent(op)
  BY <1>0 DEF Sent
<1>4. WholeAt(op)'
  BY <1>0, <1>2 DEF OperationAt, WholeAt, InFlight
<1>5. IdleAt(op)'
  BY <1>0, <1>2, <1>3 DEF OperationAt, IdleAt
<1>6. ASSUME NEW q \in ran[op] PROVE RunAt(q, op)'
  <2>1. q \in Req /\ RunAt(q, op) /\ rows[op].started
    BY <1>0 DEF TypeOK, OperationAt, RunAt
  <2>2. /\ rows'[op].started /\ rows'[op].objects = rows[op].objects /\ rows'[op].state = rows[op].state
    BY <1>2, <2>1
  <2> QED BY <1>0, <1>1, <1>3, <2>1, <2>2, RunKept
<1>7. /\ Exists(rows[op]) => Exists(rows'[op]) /\ rows'[op].age = rows[op].age
      /\ InFlight(rows'[op]) => InFlight(rows[op])
  BY <1>2
<1> QED BY <1>0, <1>4, <1>5, <1>6, <1>7 DEF OperationAt

\* Whichever statement of request r lands late, the receipts stay truthful.
LEMMA LateTruth ==
    ASSUME TruthInv, OnceInv', NEW r \in Req, LateStatement(r)
    PROVE  TruthInv'
<1>a. PICK op \in Op : op = arg[r].op
  BY DEF TruthInv, OnceInv, TypeInv, TypeOK, Submission
<1>b. PICK s \in late[r] : /\ Commit(r, s) /\ late' = [late EXCEPT ![r] = @ \ {s}]
                           /\ UNCHANGED <<pc, arg, reply, engineVars>>
  BY DEF LateStatement
<1>0. /\ TypeOK /\ TypeInv /\ RequestAt(r) /\ pc' = pc /\ arg' = arg /\ reply' = reply /\ ran' = ran
      /\ held' = held /\ cut' = cut /\ out' = out /\ recErr' = recErr /\ s \in Statement
  BY <1>b DEF TruthInv, OnceInv, TypeInv, engineVars, TypeOK
<1>1. /\ rows'[op] = Execute(r, s)
      /\ \A o \in Op : o # op => rows'[o] = rows[o]
  BY <1>a, <1>b, <1>0 DEF Commit, TypeOK
<1>2. late'[r] = late[r] \ {s} /\ \A q \in Req : q # r => late'[q] = late[q]
  BY <1>b, <1>0 DEF TypeOK
<1>3. ASSUME rows'[op] = rows[op] \/ rows'[op] = MarkMutationStarted(rows[op]) PROVE TruthInv'
  <2>1. /\ OperationAt(op)'
        /\ Exists(rows[op]) => Exists(rows'[op]) /\ rows'[op].age = rows[op].age
        /\ InFlight(rows'[op]) => InFlight(rows[op])
    BY <1>a, <1>b, <1>3, LateRow
  <2> QED BY <1>a, <1>b, <1>1, <2>1, LateStep
<1>4. CASE s = "insert"
  <2>1. rows'[op] = Insert(rows[op], arg[r])
    BY <1>a, <1>1, <1>4 DEF Execute
  <2>2. CASE Exists(rows[op])
    BY <1>3, <2>1, <2>2 DEF Insert
  <2>3. CASE ~Exists(rows[op])
    BY <1>a, <1>0, <1>1, <1>2, <2>1, <2>3, NewRow
  <2> QED BY <2>2, <2>3
<1>5. CASE s = "mark"
  BY <1>a, <1>1, <1>3, <1>5 DEF Execute
<1>6. CASE s = "close"
  <2>1. rows'[op] = Finalize(rows[op], "failed")
    BY <1>a, <1>1, <1>6 DEF Execute
  <2>2. \A q \in Req : ~Claims(q, op)
    BY <1>a, <1>0, <1>6 DEF RequestAt, AloneAt
  <2>3. /\ OperationAt(op)'
        /\ Exists(rows[op]) => Exists(rows'[op]) /\ rows'[op].age = rows[op].age
        /\ InFlight(rows'[op]) => InFlight(rows[op])
    BY <1>0, <2>1, <2>2, CloseRow
  <2> QED BY <1>a, <1>b, <1>1, <2>3, LateStep
<1>7. CASE s = "append"
  <2>1. rows'[op] = AppendObject(rows[op], observation(r))
    BY <1>a, <1>1, <1>7 DEF Execute
  <2>2. r \in ran[op] /\ Lag(r, op) /\ Len(out[r]) \in Doc
    BY <1>a, <1>0, <1>7, RunnerFacts DEF RunAt, TypeInv, ObservationInRange
  <2>3. /\ Len(out[r]) = Len(rows[op].objects) + 1 /\ pc'[r] \in {"finalize", "done"}
        /\ "append" \notin late'[r] /\ ("finalize" \in late'[r] => pc'[r] = "done")
    BY <1>0, <1>2, <1>7, <2>2 DEF Lag
  <2>4. CASE InFlight(rows[op])
    <3>1. OperationAt(op)' /\ Exists(rows'[op]) /\ rows'[op].age = rows[op].age
      BY <1>a, <1>0, <2>1, <2>2, <2>3, <2>4, AppendRow
    <3> QED BY <1>a, <1>b, <1>1, <2>4, <3>1, LateStep
  <2>5. CASE ~InFlight(rows[op])
    BY <1>3, <2>1, <2>5 DEF AppendObject
  <2> QED BY <2>4, <2>5
<1>8. CASE s = "finalize"
  <2>1. rows'[op] = Finalize(rows[op], finalState(r))
    BY <1>a, <1>1, <1>8 DEF Execute
  <2>2. r \in ran[op] /\ Lag(r, op) /\ \A i \in Sent(op) : i <= Len(out[r])
    BY <1>a, <1>0, <1>8, RunnerFacts DEF RunAt
  <2>3. pc'[r] = "done" /\ (~recErr[r] => Len(out[r]) = Len(rows[op].objects))
    BY <1>0, <1>8, <2>2 DEF Lag
  <2>4. /\ OperationAt(op)' /\ Exists(rows'[op]) /\ rows'[op].age = rows[op].age
        /\ InFlight(rows'[op]) => InFlight(rows[op])
    BY <1>a, <1>0, <1>2, <2>1, <2>2, <2>3, FinalizeRow
  <2> QED BY <1>a, <1>b, <1>1, <2>4, LateStep
<1> QED BY <1>0, <1>4, <1>5, <1>6, <1>7, <1>8 DEF Statement

\* Replaying a terminal row to a retry says what the cluster holds and denies
\* nothing that was or will be sent.
LEMMA ReplayStands ==
    ASSUME TruthInv, NEW r \in Req, NEW op \in Op, op = arg[r].op, pc[r] = "resolve",
           Exists(rows[op]), rows[op].state \in Terminal,
           UNCHANGED <<rows, arg, out, held, cut, ran>>,
           \A q \in Req : pc'[q] = IF q = r THEN "done" ELSE pc[q],
           reply'[r] = replay(rows[op])
    PROVE  AnswerStands(r, op)'
<1>0. /\ TypeOK /\ OnceInv /\ OperationAt(op) /\ rows[op] \in Row
      /\ rows[op].objects \in Seq([index : Doc, outcome : Outcome])
      /\ \A q \in Req : out[q] \in Seq(Outcome)
  <2>1. TypeOK /\ OnceInv /\ OperationAt(op)
    BY DEF TruthInv, OnceInv, TypeInv
  <2>2. rows[op] \in Row
    BY <2>1, ExistsIsRow DEF TypeOK, AnyRow
  <2>3. rows[op].objects \in Seq([index : Doc, outcome : Outcome])
    BY <2>2 DEF Row
  <2> QED BY <2>1, <2>2, <2>3 DEF TypeOK
<1> DEFINE objects == rows[op].objects
           n == Len(objects)
           Hole == IF rows[op].state = "unknown" THEN NotRecorded ELSE NotAttempted
           Rec(i) == {k \in 1 .. n : objects[k].index = i}
           C(i) == IF Rec(i) = {} THEN Hole ELSE objects[CHOOSE k \in Rec(i) : TRUE].outcome
<1>1. reply'[r].kind = "replay" /\ \A i \in Doc : reply'[r].claims[i] = C(i)
  <2>1. reply'[r] = [kind |-> "replay", claims |-> [i \in Doc |-> C(i)]]
    BY DEF replay
  <2> HIDE DEF C
  <2> QED BY <2>1
<1>2. r \notin ran[op]
  BY <1>0 DEF OnceInv, ClaimSpent
<1>3. Sent(op)' = Sent(op)
  BY DEF Sent
<1>4. ASSUME NEW i \in Doc, NEW q \in Req, arg[q].op = op, MaySend(q, i)'
      PROVE  q \in ran[op] /\ pc[q] \in {"apply", "record"} /\ i > Len(out[q])
  <2>1. ~InFlight(rows'[op])
    BY <1>0 DEF OperationAt, WholeAt, InFlight
  <2>2. pc[q] \in {"apply", "record"} /\ i > Len(out[q])
    BY <1>4, <2>1 DEF MaySend
  <2> QED BY <1>4, <2>2 DEF TruthInv, RequestAt, RanAt
<1>5. ClaimsStand(r, op)'
  <2>1. CASE ran[op] = {}
    <3>1. Sent(op) = {} /\ n = 0
      BY <1>0, <2>1 DEF OperationAt, IdleAt
    <3>2. \A i \in Doc : reply'[r].claims[i] = Hole /\ Hole # "applied"
      BY <1>1, <3>1 DEF NotRecorded, NotAttempted
    <3>3. \A i \in Doc : Denied(i, op)'
      BY <1>3, <1>4, <2>1, <3>1 DEF Denied
    <3> QED BY <3>2, <3>3 DEF ClaimsStand
  <2>2. ASSUME NEW x \in ran[op] PROVE ClaimsStand(r, op)'
    <3>0. RunAt(x, op) /\ x \in Req /\ \A q \in ran[op] : q = x
      BY <1>0 DEF OperationAt, OnceInv, ClaimUnique, Claims, TypeOK
    <3>1. ASSUME NEW k \in 1 .. n PROVE objects[k].index = k /\ objects[k].outcome = out[x][k]
      <4>1. objects[k] = [index |-> k, outcome |-> out[x][k]]
        BY <3>0 DEF RunAt, RecordsAre
      <4> QED BY <4>1
    <3>2. n \in Nat /\ Len(out[x]) \in Nat /\ n <= Len(out[x])
      BY <1>0, <3>0 DEF RunAt, Lag
    <3> HIDE DEF n, objects, Hole
    <3>3. ASSUME NEW i \in Doc
          PROVE  /\ reply'[r].claims[i] = "applied" => i \in held'[op]
                 /\ reply'[r].claims[i] \in {"rejected", NotAttempted} => Denied(i, op)'
      <4>0. i \in Nat \ {0}
        BY DEF Doc
      <4>1. CASE i \in 1 .. n
        <5>1. Rec(i) = {i}
          BY <3>1, <4>1
        <5>2. reply'[r].claims[i] = out[x][i]
          BY <1>1, <3>1, <4>1, <5>1
        <5>3. i \in 1 .. Len(out[x])
          BY <3>2, <4>1
        <5>4. /\ out[x][i] = "applied" => i \in held[op]
              /\ out[x][i] = "rejected" => i \notin Sent(op)
          BY <3>0, <5>3 DEF RunAt, OutcomesTrue
        <5>5. out[x][i] # NotAttempted
          <6>1. out[x][i] \in Outcome
            BY <1>0, <3>0, <5>3, ElementOf
          <6> QED BY <6>1 DEF Outcome, Indeterminate, NotAttempted
        <5>6. \A q \in Req : arg[q].op = op => ~MaySend(q, i)'
          BY <1>4, <3>0, <3>2, <5>3
        <5> QED BY <1>3, <5>2, <5>4, <5>5, <5>6 DEF Denied
      <4>2. CASE i \notin 1 .. n
        <5>1. Rec(i) = {}
          BY <3>1, <4>2
        <5>2. reply'[r].claims[i] = Hole
          BY <1>1, <5>1
        <5>3. CASE rows[op].state = "unknown"
          BY <5>2, <5>3 DEF Hole, NotRecorded, NotAttempted
        <5>4. CASE rows[op].state # "unknown"
          <6>1. rows[op].state \in Settled
            BY <5>4 DEF Settled
          <6>2. pc[x] = "done" /\ Len(out[x]) = n
            BY <3>0, <6>1 DEF RunAt, Ended, n, objects
          <6>3. i \notin Sent(op)
            BY <3>0, <3>2, <4>0, <4>2, <6>1, <6>2 DEF RunAt, SentBy
          <6>4. \A q \in Req : arg[q].op = op => ~MaySend(q, i)'
            BY <1>4, <3>0, <6>2
          <6> QED BY <1>3, <5>2, <5>4, <6>3, <6>4 DEF Denied, Hole, NotAttempted
        <5> QED BY <5>3, <5>4
      <4> QED BY <4>1, <4>2
    <3> QED BY <3>3 DEF ClaimsStand
  <2> QED BY <2>1, <2>2
<1> QED BY <1>1, <1>2, <1>5 DEF AnswerStands

\* Every step of a request before its run, but the INSERT that wins, the stamp and
\* the close.
LEMMA EarlyTruth ==
    ASSUME TruthInv, OnceInv', NEW r \in Req,
           \/ Submit(r) \/ InsertCollides(r) \/ InsertError(r) \/ ResolveExisting(r)
           \/ MarkRefused(r) \/ MarkError(r)
    PROVE  TruthInv'
<1>a. PICK op \in Op : op = arg[r].op
  BY DEF TruthInv, OnceInv, TypeInv, TypeOK, Submission
<1>0. TypeOK /\ OnceInv
  BY DEF TruthInv, OnceInv, TypeInv
<1>1. ASSUME NEW k \in Refusals, Answer(r, Refuse(k)), ran' = ran,
             pc[r] \in {"insert", "resolve", "mark"}
      PROVE  AnswerStands(r, arg[r].op)'
  <2>1. reply'[r] = Refuse(k) /\ pc'[r] = "done"
    BY <1>0, <1>1 DEF Answer, Goto, TypeOK
  <2>2. r \notin ran'[op]
    BY <1>0, <1>1 DEF OnceInv, ClaimSpent
  <2>3. AnswerStands(r, op)'
    BY <2>1, <2>2, RefusalStands
  <2>4. arg' = arg
    BY DEF Submit, InsertCollides, InsertError, ResolveExisting, MarkRefused, MarkError
  <2> QED BY <1>a, <2>3, <2>4
<1>2. CASE Submit(r)
  BY <1>2, BeforeRun DEF Submit
<1>3. CASE InsertCollides(r)
  BY <1>3, BeforeRun DEF InsertCollides
<1>4. CASE InsertError(r)
  <2>1. /\ \A q \in Req : q # r => late'[q] = late[q]
        /\ late'[r] \subseteq late[r] \union Executing(pc[r])
    BY <1>0, <1>4, LoseEffect DEF InsertError, Statement, Executing
  <2>2. AnswerStands(r, arg[r].op)'
    BY <1>1, <1>4 DEF InsertError, Refusals, engineVars
  <2>3. \A q \in Req : q # r => reply'[q] = reply[q]
    BY <1>0, <1>4 DEF InsertError, Answer, TypeOK
  <2> QED BY <1>4, <2>1, <2>2, <2>3, BeforeRun DEF InsertError, Answer
<1>5. CASE MarkRefused(r)
  <2>1. AnswerStands(r, arg[r].op)'
    BY <1>1, <1>5 DEF MarkRefused, Refusals, engineVars
  <2>2. \A q \in Req : q # r => reply'[q] = reply[q]
    BY <1>0, <1>5 DEF MarkRefused, Answer, TypeOK
  <2> QED BY <1>5, <2>1, <2>2, BeforeRun DEF MarkRefused, Answer
<1>6. CASE MarkError(r)
  <2>1. /\ \A q \in Req : q # r => late'[q] = late[q]
        /\ late'[r] \subseteq late[r] \union Executing(pc[r])
    BY <1>0, <1>6, LoseEffect DEF MarkError, Statement, Executing
  <2> QED BY <1>6, <2>1, BeforeRun DEF MarkError
<1>7. CASE ResolveExisting(r)
  <2>0. /\ pc[r] = "resolve" /\ UNCHANGED <<rows, arg, engineVars>> /\ late' = late /\ Goto(r, "done")
        /\ UNCHANGED <<rows, arg, out, held, cut, ran>>
        /\ \A q \in Req : pc'[q] = IF q = r THEN "done" ELSE pc[q]
        /\ \A q \in Req : q # r => reply'[q] = reply[q]
        /\ \/ reply'[r] = resolved(rows[op], arg[r])
           \/ Answer(r, Refuse("unavailable"))
    BY <1>a, <1>0, <1>7 DEF ResolveExisting, Answer, Goto, TypeOK, engineVars, MyRow
  <2>1. ASSUME NEW k \in Refusals, reply'[r] = Refuse(k) PROVE AnswerStands(r, arg[r].op)'
    <3>1. pc'[r] = "done" /\ r \notin ran'[op]
      BY <1>0, <2>0 DEF OnceInv, ClaimSpent
    <3>2. AnswerStands(r, op)'
      BY <2>1, <3>1, RefusalStands
    <3> QED BY <1>a, <2>0, <3>2
  <2>2. ASSUME Answer(r, Refuse("unavailable")) PROVE AnswerStands(r, arg[r].op)'
    BY <1>1, <2>0, <2>2 DEF Refusals
  <2>3. ASSUME reply'[r] = resolved(rows[op], arg[r]) PROVE AnswerStands(r, arg[r].op)'
    <3>1. \/ \E k \in Refusals : reply'[r] = Refuse(k)
          \/ Exists(rows[op]) /\ rows[op].state \in Terminal /\ reply'[r] = replay(rows[op])
      BY <2>3 DEF resolved, Refusals
    <3>2. CASE Exists(rows[op]) /\ rows[op].state \in Terminal /\ reply'[r] = replay(rows[op])
      <4>1. AnswerStands(r, op)'
        BY <1>a, <2>0, <3>2, ReplayStands
      <4> QED BY <1>a, <2>0, <4>1
    <3> QED BY <2>1, <3>1, <3>2
  <2>4. AnswerStands(r, arg[r].op)'
    BY <2>0, <2>2, <2>3
  <2> QED BY <2>0, <2>4, BeforeRun
<1> QED BY <1>2, <1>3, <1>4, <1>5, <1>6, <1>7

\* A step of the engine that sends or refuses the next document.
LEMMA SendStep ==
    ASSUME TruthInv, OnceInv', NEW r \in Req, NEW op \in Op, op = arg[r].op, Engine(r),
           UNCHANGED <<rows, arg, recErr, reply, ran>>,
           \A q \in Req : q # r => pc'[q] = pc[q] /\ late'[q] = late[q] /\ out'[q] = out[q],
           \A o \in Op : o # op => held'[o] = held[o] /\ cut'[o] = cut[o],
           held[op] \subseteq held'[op], Sent(op)' \subseteq Sent(op) \union {NextDoc(r)},
           late'[r] = late[r], pc'[r] \in {"record", "done"}, Len(out'[r]) >= Len(out[r]),
           Len(out'[r]) \in Nat, RunAt(r, op)', WholeAt(op)'
    PROVE  TruthInv'
<1>0. /\ TypeOK /\ OnceInv /\ RequestAt(r) /\ pc[r] = "apply" /\ NextDoc(r) \in Doc
      /\ Len(out[r]) \in Nat /\ Doc \subseteq Nat /\ NextDoc(r) = Len(out[r]) + 1
      /\ arg' = arg /\ ran' = ran /\ rows' = rows /\ recErr' = recErr /\ reply' = reply
  BY DEF TruthInv, OnceInv, TypeInv, TypeOK, Engine, NextDoc, Doc
<1>1. r \in ran[op] /\ \A q \in ran[op] : q = r
  BY <1>0 DEF RequestAt, RanAt, OnceInv, ClaimUnique, Claims, TypeOK
<1>2. \A q \in Req : Claims(q, op)' => Claims(q, op)
  BY <1>0 DEF Claims
<1>3. ASSUME NEW q \in Req, arg[q].op = op PROVE AloneAt(q)'
  BY <1>0, <1>2, <1>3 DEF TruthInv, RequestAt, AloneAt
<1>4. KeptAt(r)' /\ RanAt(r)' /\ FreshAt(r)'
  BY <1>0, <1>1 DEF RequestAt, KeptAt, RanAt, FreshAt, Working
<1>5. OperationAt(op)'
  BY <1>0, <1>1 DEF OperationAt, IdleAt
<1>6. ASSUME NEW q \in Req, arg[q].op = op PROVE AnswerStands(q, op)'
  <2>1. AnswerStands(q, op) /\ ClaimsStand(q, op)
    BY <1>6 DEF TruthInv, AnswerStands
  <2>2. ASSUME NEW x \in Req, arg[x].op = op, NEW i \in Doc, MaySend(x, i)' PROVE MaySend(x, i)
    <3>1. CASE x = r
      BY <1>0, <2>2, <3>1 DEF MaySend
    <3>2. CASE x # r
      BY <1>0, <2>2, <3>2 DEF MaySend
    <3> QED BY <3>1, <3>2
  <2>3. MaySend(r, NextDoc(r))
    BY <1>0 DEF MaySend
  <2>4. ClaimsStand(q, op)'
    BY <1>0, <2>1, <2>2, <2>3, ClaimsSame
  <2>5. reply'[q].kind # "none" => pc'[q] = "done"
    BY <1>0, <2>1 DEF AnswerStands
  <2> QED BY <1>0, <2>1, <2>4, <2>5 DEF AnswerStands
<1>7. /\ \A q \in Req : q # r => /\ pc'[q] = pc[q] /\ late'[q] = late[q] /\ out'[q] = out[q]
                                 /\ recErr'[q] = recErr[q] /\ reply'[q] = reply[q]
      /\ \A o \in Op : o # op => /\ rows'[o] = rows[o] /\ held'[o] = held[o]
                                 /\ cut'[o] = cut[o] /\ ran'[o] = ran[o]
  BY <1>0
<1>8. RequestAt(r)'
  BY <1>3, <1>4 DEF RequestAt
<1> QED BY <1>0, <1>3, <1>5, <1>6, <1>7, <1>8, Elsewhere

\* A document was attempted and its outcome observed.
LEMMA DocumentTruth ==
    ASSUME TruthInv, OnceInv', NEW r \in Req,
           DocumentRejected(r) \/ DocumentApplied(r) \/ DocumentCutOff(r)
    PROVE  TruthInv'
<1>a. PICK op \in Op : op = arg[r].op
  BY DEF TruthInv, OnceInv, TypeInv, TypeOK, Submission
<1>b. PICK c \in Outcome :
        /\ Observe(r, c) /\ Engine(r)
        /\ \/ c = "rejected" /\ held' = held /\ cut' = cut
           \/ c = "applied" /\ held' = [held EXCEPT ![op] = @ \union {NextDoc(r)}] /\ cut' = cut
           \/ c \in Indeterminate /\ held' = held /\ cut' = [cut EXCEPT ![op] = @ \union {NextDoc(r)}]
  BY <1>a DEF DocumentRejected, DocumentApplied, DocumentCutOff, Outcome, Indeterminate
<1>0. /\ TypeOK /\ pc[r] = "apply" /\ NextDoc(r) \in Doc /\ out[r] \in Seq(Outcome)
      /\ UNCHANGED <<rows, arg, recErr, reply, ran>> /\ late' = late
      /\ Len(out[r]) \in Nat /\ NextDoc(r) = Len(out[r]) + 1
  BY <1>b DEF TruthInv, OnceInv, TypeInv, TypeOK, Engine, Observe, NextDoc
<1>1. /\ \A q \in Req : pc'[q] = IF q = r THEN "record" ELSE pc[q]
      /\ \A q \in Req : out'[q] = IF q = r THEN Append(out[r], c) ELSE out[q]
  BY <1>b, <1>0 DEF Observe, Goto, TypeOK
<1>2. /\ Len(out'[r]) = Len(out[r]) + 1
      /\ \A k \in 1 .. Len(out[r]) : out'[r][k] = out[r][k]
      /\ out'[r][Len(out[r]) + 1] = c
  <2>1. PICK u : u = Append(out[r], c)
    OBVIOUS
  <2>2. PICK s : s = out[r]
    OBVIOUS
  <2>3. Len(u) = Len(s) + 1 /\ (\A k \in 1 .. Len(s) : u[k] = s[k]) /\ u[Len(s) + 1] = c
    BY <1>0, <2>1, <2>2, AppendIs
  <2>4. out'[r] = u
    BY <1>1, <2>1
  <2> QED BY <2>2, <2>3, <2>4
<1>3. /\ \A o \in Op : o # op => held'[o] = held[o] /\ cut'[o] = cut[o]
      /\ held[op] \subseteq held'[op] /\ Sent(op)' \subseteq Sent(op) \union {NextDoc(r)}
      /\ c = "applied" => NextDoc(r) \in held'[op]
      /\ c = "rejected" => Sent(op)' = Sent(op)
  BY <1>b, <1>0 DEF TypeOK, Sent, Indeterminate
<1>4. /\ r \in ran[op] /\ RunAt(r, op) /\ \A i \in Sent(op) : i <= Len(out[r]) /\ i \in Doc
      /\ rows[op].state \notin Settled
  BY <1>a, <1>0, RunnerFacts
<1> DEFINE n == Len(rows[op].objects)
<1>5. /\ n = Len(out[r]) /\ ~recErr[r] /\ "append" \notin late[r] /\ "finalize" \notin late[r]
  BY <1>0, <1>4 DEF RunAt, Lag
<1>6. RunAt(r, op)'
  <2>1. OutcomesTrue(r, op)'
    <3>1. ASSUME NEW k \in 1 .. Len(out'[r])
          PROVE  /\ out'[r][k] = "applied" => k \in held'[op]
                 /\ out'[r][k] = "rejected" => k \notin Sent(op)'
      <4>1. CASE k \in 1 .. Len(out[r])
        <5>1. k # NextDoc(r) /\ out'[r][k] = out[r][k]
          BY <1>0, <1>2, <4>1
        <5> QED BY <1>3, <1>4, <4>1, <5>1 DEF RunAt, OutcomesTrue
      <4>2. CASE k = Len(out[r]) + 1
        <5>1. out'[r][k] = c /\ k = NextDoc(r)
          BY <1>0, <1>2, <4>2
        <5>2. k \notin Sent(op)
          BY <1>0, <1>4, <4>2
        <5> QED BY <1>3, <5>1, <5>2
      <4> QED BY <1>0, <1>2, <4>1, <4>2
    <3> QED BY <3>1 DEF OutcomesTrue
  <2>2. RecordsAre(r, op)'
    BY <1>0, <1>2, <1>4, <1>5 DEF RunAt, RecordsAre
  <2>3. Lag(r, op)'
    BY <1>0, <1>1, <1>2, <1>5 DEF Lag
  <2>4. SentBy(r, op)'
    <3>1. ASSUME NEW i \in Sent(op)' PROVE i <= n + 1 /\ i <= Len(out'[r])
      <4>1. (i <= Len(out[r]) /\ i \in Nat) \/ i = Len(out[r]) + 1
        BY <1>0, <1>3, <1>4 DEF Doc
      <4> HIDE DEF n
      <4> QED BY <1>0, <1>2, <1>5, <4>1
    <3> QED BY <1>0, <3>1 DEF SentBy
  <2>5. Ended(r, op)'
    BY <1>0, <1>4 DEF Ended, Settled, Terminal
  <2> QED BY <1>0, <1>4, <2>1, <2>2, <2>3, <2>4, <2>5 DEF RunAt
<1>7. WholeAt(op)'
  <2>1. WholeAt(op) /\ KeptAt(r)
    BY DEF TruthInv, OperationAt, RequestAt
  <2>2. rows[op].age # "expired"
    BY <1>a, <1>0, <2>1 DEF KeptAt, Working
  <2> QED BY <1>0, <2>1, <2>2 DEF WholeAt
<1> QED BY <1>a, <1>b, <1>0, <1>1, <1>2, <1>3, <1>6, <1>7, SendStep

\* A request dies anywhere, under a statement or under a PATCH.
LEMMA CrashTruth ==
    ASSUME TruthInv, OnceInv', NEW r \in Req, Crash(r)
    PROVE  TruthInv'
<1>a. PICK op \in Op : op = arg[r].op
  BY DEF TruthInv, OnceInv, TypeInv, TypeOK, Submission
<1>0. /\ TypeOK /\ UNCHANGED <<rows, arg, out, recErr, reply, held, ran>> /\ Goto(r, "done")
      /\ \A q \in Req : pc'[q] = IF q = r THEN "done" ELSE pc[q]
      /\ pc[r] \in {"insert", "resolve", "mark", "close", "apply", "record", "finalize"}
  BY DEF TruthInv, OnceInv, TypeInv, TypeOK, Crash, Goto
<1>1. /\ \A q \in Req : q # r => late'[q] = late[q]
      /\ late'[r] \subseteq late[r] \union Executing(pc[r])
      /\ late[r] \subseteq late'[r]
  <2>1. late \in [Req -> SUBSET Statement]
    BY <1>0 DEF TypeOK
  <2>2. CASE late' = late
    BY <2>2
  <2>3. CASE late' = [late EXCEPT ![r] = @ \union Executing(pc[r])]
    BY <2>1, <2>3
  <2> QED BY <2>2, <2>3 DEF Crash
<1>2. CASE cut' = cut /\ pc[r] \in {"insert", "resolve", "mark", "close"}
  BY <1>0, <1>1, <1>2, BeforeRun DEF engineVars
<1>3. CASE cut' = cut /\ pc[r] \in {"apply", "record", "finalize"}
  <2>1. Lag(r, op)
    BY <1>a, <1>3, RunnerFacts DEF RunAt
  <2>2. /\ "append" \in late'[r] => "append" \in late[r] \/ pc[r] = "record"
        /\ "finalize" \in late'[r] => "finalize" \in late[r] \/ pc[r] = "finalize"
    BY <1>1, <1>3 DEF Executing
  <2>3. Lag(r, op)'
    BY <1>0, <2>1, <2>2 DEF Lag
  <2> QED BY <1>a, <1>0, <1>1, <1>3, <2>3, DuringRun
<1>4. CASE Engine(r) /\ cut' = [cut EXCEPT ![op] = @ \union {NextDoc(r)}]
  <2>0. /\ pc[r] = "apply" /\ late'[r] = late[r] /\ Len(out[r]) \in Nat /\ NextDoc(r) = Len(out[r]) + 1
        /\ NextDoc(r) \in Doc /\ held' = held /\ out' = out /\ rows' = rows
    <3>1. pc[r] = "apply" /\ NextDoc(r) \in Doc
      BY <1>4 DEF Engine
    <3>2. Executing(pc[r]) = {}
      BY <3>1 DEF Executing
    <3>3. late'[r] = late[r]
      BY <1>1, <3>2
    <3>4. Len(out[r]) \in Nat /\ NextDoc(r) = Len(out[r]) + 1
      BY <1>0 DEF TypeOK, NextDoc
    <3> QED BY <1>0, <3>1, <3>3, <3>4
  <2>1. /\ r \in ran[op] /\ RunAt(r, op) /\ \A i \in Sent(op) : i <= Len(out[r]) /\ i \in Doc
        /\ rows[op].state \notin Settled
    BY <1>a, <2>0, RunnerFacts
  <2>2. /\ \A o \in Op : o # op => cut'[o] = cut[o]
        /\ Sent(op)' \subseteq Sent(op) \union {NextDoc(r)}
    BY <1>0, <1>4, <2>0 DEF TypeOK, Sent
  <2>3. RunAt(r, op)'
    <3>1. Len(out[r]) = Len(rows[op].objects) /\ "append" \notin late[r] /\ "finalize" \notin late[r]
      BY <2>0, <2>1 DEF RunAt, Lag
    <3>2. OutcomesTrue(r, op)'
      BY <2>0, <2>1, <2>2 DEF RunAt, OutcomesTrue
    <3>3. RecordsAre(r, op)' /\ Ended(r, op)'
      BY <2>0, <2>1 DEF RunAt, RecordsAre, Ended, Settled, Terminal
    <3>4. Lag(r, op)'
      BY <1>0, <2>0, <3>1 DEF Lag
    <3>5. SentBy(r, op)'
      <4>1. ASSUME NEW i \in Sent(op)' PROVE i <= Len(rows[op].objects) + 1
        <5>1. (i <= Len(out[r]) /\ i \in Nat) \/ i = Len(out[r]) + 1
          BY <2>0, <2>1, <2>2 DEF Doc
        <5> QED BY <2>0, <3>1, <5>1
      <4> QED BY <1>0, <2>0, <2>1, <3>1, <4>1 DEF SentBy
    <3> QED BY <1>0, <2>0, <2>1, <3>2, <3>3, <3>4, <3>5 DEF RunAt
  <2>4. WholeAt(op)'
    <3>1. WholeAt(op) /\ KeptAt(r)
      BY DEF TruthInv, OperationAt, RequestAt
    <3>2. rows[op].age # "expired"
      BY <1>a, <2>0, <3>1 DEF KeptAt, Working
    <3> QED BY <2>0, <3>1, <3>2 DEF WholeAt
  <2> QED BY <1>a, <1>0, <1>1, <1>4, <2>0, <2>2, <2>3, <2>4, SendStep
<1> QED BY <1>a, <1>0, <1>2, <1>3, <1>4 DEF Crash

\* Time, the API server and the sweeper: rows only age or are closed as what they
\* are, and nothing is sent.
LEMMA EnvironmentStep ==
    ASSUME TruthInv, OnceInv', UNCHANGED <<pc, arg, out, recErr, reply, ran>>,
           \A q \in Req : late'[q] \subseteq late[q],
           \A o \in Op :
              /\ Exists(rows'[o]) <=> Exists(rows[o])
              /\ Exists(rows[o]) =>
                    /\ rows'[o].objects = rows[o].objects /\ rows'[o].started = rows[o].started
                    /\ \/ rows'[o].state \in {rows[o].state, "unknown"}
                       \/ rows'[o].state = "failed" /\ ~rows[o].started
              /\ InFlight(rows'[o]) => InFlight(rows[o])
              /\ held[o] \subseteq held'[o] /\ held'[o] \subseteq Doc /\ Sent(o)' \subseteq Sent(o)
              /\ WholeAt(o)'
              /\ rows'[o].age = "expired" =>
                    \/ rows[o].age = "expired"
                    \/ \A q \in Req : arg[q].op = o => pc[q] \notin Working /\ late'[q] = {}
    PROVE  TruthInv'
<1>0. /\ TypeOK /\ OnceInv /\ \A q \in Req : arg[q].op \in Op
      /\ pc' = pc /\ arg' = arg /\ out' = out /\ recErr' = recErr /\ reply' = reply /\ ran' = ran
  BY DEF TruthInv, OnceInv, TypeInv, TypeOK, Submission
<1>1. ASSUME NEW q \in Req PROVE RequestAt(q)'
  <2>0. RequestAt(q)
    BY DEF TruthInv
  <2>1. KeptAt(q)'
    <3> SUFFICES ASSUME pc[q] \in Working \/ late'[q] \ {"insert"} # {}
                 PROVE  Exists(rows'[arg[q].op]) /\ rows'[arg[q].op].age # "expired"
      BY <1>0 DEF KeptAt
    <3>1. Exists(rows[arg[q].op]) /\ rows[arg[q].op].age # "expired"
      BY <2>0 DEF RequestAt, KeptAt
    <3> QED BY <1>0, <3>1
  <2>2. RanAt(q)' /\ FreshAt(q)'
    BY <1>0, <2>0 DEF RequestAt, RanAt, FreshAt
  <2>3. AloneAt(q)'
    BY <1>0, <2>0 DEF RequestAt, AloneAt, Claims
  <2> QED BY <2>1, <2>2, <2>3 DEF RequestAt
<1>2. ASSUME NEW o \in Op PROVE OperationAt(o)'
  <2>0. OperationAt(o) /\ WholeAt(o)'
    BY DEF TruthInv
  <2>1. IdleAt(o)'
    BY <1>0, <2>0 DEF OperationAt, IdleAt
  <2>2. ASSUME NEW q \in ran[o] PROVE RunAt(q, o)'
    <3>1. q \in Req /\ RunAt(q, o) /\ Exists(rows[o]) /\ rows[o].started
      BY <1>0, <2>0 DEF OperationAt, RunAt, TypeOK, OnceInv, ClaimBacked, Claims
    <3>2. /\ rows'[o].started /\ rows'[o].objects = rows[o].objects
          /\ rows'[o].state = rows[o].state \/ rows'[o].state = "unknown"
      BY <3>1
    <3> QED BY <1>0, <3>1, <3>2, RunKept
  <2> QED BY <1>0, <2>0, <2>1, <2>2 DEF OperationAt
<1>3. ASSUME NEW q \in Req PROVE AnswerStands(q, arg[q].op)'
  <2>1. PICK o \in Op : o = arg[q].op
    BY <1>0
  <2>2. AnswerStands(q, o) /\ ClaimsStand(q, o)
    BY <2>1 DEF TruthInv, AnswerStands
  <2>3. \A x \in Req : arg[x].op = o => \A i \in Doc : MaySend(x, i)' => MaySend(x, i)
    BY <1>0 DEF MaySend
  <2>4. ClaimsStand(q, o)'
    BY <1>0, <2>2, <2>3, ClaimsSame
  <2>5. AnswerStands(q, o)'
    BY <1>0, <2>2, <2>4 DEF AnswerStands
  <2> QED BY <1>0, <2>1, <2>5
<1> QED BY <1>1, <1>2, <1>3 DEF TruthInv

\* A PATCH nobody waits for is committed.
LEMMA LatePatchTruth ==
    ASSUME TruthInv, OnceInv', NEW o \in Op, LatePatch(o)
    PROVE  TruthInv'
<1>0. TypeOK /\ \A p \in Op : OperationAt(p)
  BY DEF TruthInv, OnceInv, TypeInv
<1>1. PICK i \in cut[o] : /\ held' = [held EXCEPT ![o] = @ \union {i}]
                          /\ cut' = [cut EXCEPT ![o] = @ \ {i}]
  BY DEF LatePatch
<1>2. UNCHANGED <<rows, pc, arg, out, recErr, reply, late, ran>>
  BY DEF LatePatch
<1>3. ASSUME NEW p \in Op
      PROVE  /\ held[p] \subseteq held'[p] /\ held'[p] \subseteq Doc /\ Sent(p)' \subseteq Sent(p)
             /\ cut'[p] \subseteq cut[p]
  BY <1>0, <1>1 DEF TypeOK, Sent
<1>4. ASSUME NEW p \in Op PROVE WholeAt(p)'
  BY <1>0, <1>2, <1>3 DEF OperationAt, WholeAt
<1> QED BY <1>2, <1>3, <1>4, EnvironmentStep

\* A row grows old or expires.
LEMMA AgeTruth ==
    ASSUME TruthInv, OnceInv', NEW o \in Op, GrowOld(o) \/ Expire(o)
    PROVE  TruthInv'
<1>0. TypeOK /\ \A p \in Op : OperationAt(p)
  BY DEF TruthInv, OnceInv, TypeInv
<1>1. rows[o] \in Row /\ Exists(rows[o])
  BY <1>0, ExistsIsRow DEF GrowOld, Expire, TypeOK, AnyRow
<1>2. UNCHANGED <<pc, arg, out, recErr, reply, held, ran>>
  BY DEF GrowOld, Expire, engineVars
<1>3. PICK a \in {"stale", "expired"} :
        /\ rows' = [rows EXCEPT ![o].age = a]
        /\ a = "stale" => late' = late /\ cut' = cut
        /\ a = "expired" => /\ \A q \in Req : arg[q].op = o => ~Live(q)
                            /\ late' = [q \in Req |-> IF arg[q].op = o THEN {} ELSE late[q]]
                            /\ cut' = [cut EXCEPT ![o] = {}]
  BY DEF GrowOld, Expire, engineVars
<1>4. /\ rows'[o] = [rows[o] EXCEPT !.age = a]
      /\ \A p \in Op : p # o => rows'[p] = rows[p] /\ cut'[p] = cut[p]
      /\ cut'[o] \subseteq cut[o] /\ (a = "expired" => cut'[o] = {})
      /\ \A q \in Req : late'[q] \subseteq late[q]
  BY <1>0, <1>3 DEF TypeOK
<1>5. /\ Exists(rows'[o]) /\ rows'[o].age = a /\ rows'[o].state = rows[o].state
      /\ rows'[o].objects = rows[o].objects /\ rows'[o].started = rows[o].started
      /\ rows'[o].completed = rows[o].completed
  BY <1>1, <1>4 DEF Row, Exists
<1>6. ASSUME NEW p \in Op
      PROVE  /\ held[p] \subseteq held'[p] /\ held'[p] \subseteq Doc /\ Sent(p)' \subseteq Sent(p)
             /\ WholeAt(p)'
  <2>1. held[p] \subseteq held'[p] /\ held'[p] \subseteq Doc /\ Sent(p)' \subseteq Sent(p)
    BY <1>0, <1>2, <1>4 DEF TypeOK, Sent
  <2>2. CASE p = o
    BY <1>0, <1>1, <1>4, <1>5, <2>1, <2>2 DEF OperationAt, WholeAt
  <2>3. CASE p # o
    BY <1>0, <1>4, <2>1, <2>3 DEF OperationAt, WholeAt
  <2> QED BY <2>1, <2>2, <2>3
<1>7. ASSUME NEW p \in Op
      PROVE  /\ Exists(rows'[p]) <=> Exists(rows[p])
             /\ Exists(rows[p]) =>
                   /\ rows'[p].objects = rows[p].objects /\ rows'[p].started = rows[p].started
                   /\ rows'[p].state \in {rows[p].state, "unknown"}
             /\ InFlight(rows'[p]) => InFlight(rows[p])
  BY <1>1, <1>4, <1>5 DEF InFlight
<1>8. ASSUME NEW p \in Op, rows'[p].age = "expired"
      PROVE  \/ rows[p].age = "expired"
             \/ \A q \in Req : arg[q].op = p => pc[q] \notin Working /\ late'[q] = {}
  <2>1. CASE p = o
    BY <1>3, <1>5, <1>8, <2>1 DEF Live, Working
  <2>2. CASE p # o
    BY <1>4, <1>8, <2>2
  <2> QED BY <2>1, <2>2
<1> QED BY <1>2, <1>4, <1>6, <1>7, <1>8, EnvironmentStep

\* The sweeper closes every orphan as unknown if it was stamped, else as failed.
LEMMA ReconcileTruth ==
    ASSUME TruthInv, OnceInv', Reconcile
    PROVE  TruthInv'
<1>0. TypeOK /\ \A p \in Op : OperationAt(p)
  BY DEF TruthInv, OnceInv, TypeInv
<1>1. /\ UNCHANGED <<pc, arg, out, recErr, reply, ran>> /\ late' = late /\ held' = held /\ cut' = cut
      /\ \A o \in Op : rows'[o] = ReconcileOrphan(rows[o])
  BY DEF Reconcile, engineVars
<1>2. ASSUME NEW o \in Op
      PROVE  /\ Exists(rows'[o]) <=> Exists(rows[o])
             /\ Exists(rows[o]) =>
                   /\ rows'[o].objects = rows[o].objects /\ rows'[o].started = rows[o].started
                   /\ \/ rows'[o].state \in {rows[o].state, "unknown"}
                      \/ rows'[o].state = "failed" /\ ~rows[o].started
             /\ InFlight(rows'[o]) => InFlight(rows[o])
             /\ WholeAt(o)'
             /\ rows'[o].age = "expired" => rows[o].age = "expired"
  <2>1. CASE Orphan(rows[o])
    <3>1. rows[o] \in Row /\ Exists(rows[o]) /\ InFlight(rows[o])
      BY <1>0, <2>1, ExistsIsRow DEF Orphan, InFlight, TypeOK, AnyRow
    <3>2. /\ rows'[o].objects = rows[o].objects /\ rows'[o].started = rows[o].started
          /\ rows'[o].age = rows[o].age /\ rows'[o].completed = TRUE
      BY <1>1, <2>1, <3>1 DEF ReconcileOrphan, Row
    <3>3. rows'[o].state = IF rows[o].started THEN "unknown" ELSE "failed"
      BY <1>1, <2>1, <3>1 DEF ReconcileOrphan, Row
    <3>4. Exists(rows'[o]) /\ rows'[o].state \in Terminal
      BY <3>3 DEF Exists, Terminal
    <3>5. WholeAt(o)'
      BY <1>0, <1>1, <3>1, <3>2, <3>4 DEF OperationAt, WholeAt
    <3> QED BY <3>1, <3>2, <3>3, <3>4, <3>5
  <2>2. CASE ~Orphan(rows[o])
    <3>1. rows'[o] = rows[o]
      BY <1>1, <2>2 DEF ReconcileOrphan
    <3> QED BY <1>0, <1>1, <3>1 DEF OperationAt, WholeAt
  <2> QED BY <2>1, <2>2
<1>3. ASSUME NEW o \in Op
      PROVE  held[o] \subseteq held'[o] /\ held'[o] \subseteq Doc /\ Sent(o)' \subseteq Sent(o)
  BY <1>0, <1>1 DEF TypeOK, Sent
<1> QED BY <1>1, <1>2, <1>3, EnvironmentStep

\* Retention deletes rows nobody works on; nothing is said about them any more.
LEMMA CleanupTruth ==
    ASSUME TruthInv, OnceInv', Cleanup
    PROVE  TruthInv'
<1> DEFINE gone == {o \in Op : Exists(rows[o]) /\ rows[o].age = "expired"}
<1>0. TypeOK /\ OnceInv /\ \A q \in Req : arg[q].op \in Op
  BY DEF TruthInv, OnceInv, TypeInv, TypeOK, Submission
<1>1. /\ UNCHANGED <<pc, arg, out, recErr, late, cut>>
      /\ \A o \in Op : /\ rows'[o] = IF o \in gone THEN NoRow ELSE rows[o]
                       /\ held'[o] = IF o \in gone THEN {} ELSE held[o]
                       /\ ran'[o] = IF o \in gone THEN {} ELSE ran[o]
      /\ \A q \in Req : reply'[q] = IF arg[q].op \in gone THEN NoReply ELSE reply[q]
  BY <1>0 DEF Cleanup
<1> HIDE DEF gone
<1>2. ~Exists(NoRow)
  BY DEF NoRow, Exists
<1>3. ASSUME NEW q \in Req PROVE RequestAt(q)'
  <2>0. RequestAt(q) /\ arg[q].op \in Op
    BY <1>0 DEF TruthInv
  <2>1. pc[q] \in Working \/ late[q] \ {"insert"} # {} => arg[q].op \notin gone
    BY <2>0 DEF RequestAt, KeptAt, gone
  <2>2. KeptAt(q)' /\ FreshAt(q)'
    BY <1>1, <2>0, <2>1 DEF RequestAt, KeptAt, FreshAt
  <2>3. RanAt(q)'
    BY <1>1, <2>0, <2>1 DEF RequestAt, RanAt, Working
  <2>4. \A x \in Req : Claims(x, arg[q].op)' => Claims(x, arg[q].op)
    BY <1>1, <2>0 DEF Claims
  <2>5. AloneAt(q)'
    BY <1>1, <2>0, <2>4 DEF RequestAt, AloneAt
  <2> QED BY <2>2, <2>3, <2>5 DEF RequestAt
<1>4. ASSUME NEW o \in Op PROVE OperationAt(o)'
  <2>0. OperationAt(o)
    BY DEF TruthInv
  <2>1. CASE o \in gone
    <3>1. cut[o] = {}
      BY <2>0, <2>1 DEF OperationAt, WholeAt, gone
    <3> QED BY <1>1, <1>2, <2>1, <3>1 DEF OperationAt, WholeAt, IdleAt, Sent
  <2>2. CASE o \notin gone
    <3>1. WholeAt(o)' /\ IdleAt(o)'
      BY <1>1, <2>0, <2>2 DEF OperationAt, WholeAt, IdleAt, Sent
    <3>2. ASSUME NEW q \in ran'[o] PROVE RunAt(q, o)'
      <4>1. q \in ran[o] /\ RunAt(q, o)
        BY <1>1, <2>0, <2>2, <3>2 DEF OperationAt
      <4> QED BY <1>1, <2>2, <4>1, RunSame
    <3> QED BY <3>1, <3>2 DEF OperationAt
  <2> QED BY <2>1, <2>2
<1>5. ASSUME NEW q \in Req PROVE AnswerStands(q, arg[q].op)'
  <2>1. PICK o \in Op : o = arg[q].op
    BY <1>0
  <2>2. AnswerStands(q, o) /\ ClaimsStand(q, o)
    BY <2>1 DEF TruthInv, AnswerStands
  <2>3. CASE o \in gone
    <3>1. reply'[q].kind = "none" /\ reply'[q].claims = NoClaims
      BY <1>1, <2>1, <2>3 DEF NoReply
    <3>2. ClaimsStand(q, o)'
      BY <3>1 DEF ClaimsStand, NoClaims, NotAttempted
    <3>3. AnswerStands(q, o)'
      BY <3>1, <3>2 DEF AnswerStands, Refusals
    <3> QED BY <1>1, <2>1, <3>3
  <2>4. CASE o \notin gone
    <3>1. \A x \in Req : arg[x].op = o => \A i \in Doc : MaySend(x, i)' => MaySend(x, i)
      BY <1>1, <2>4 DEF MaySend
    <3>2. Sent(o)' = Sent(o) /\ held[o] \subseteq held'[o] /\ reply'[q] = reply[q] /\ arg' = arg
      BY <1>1, <2>1, <2>4 DEF Sent
    <3>3. ClaimsStand(q, o)'
      BY <2>2, <3>1, <3>2, ClaimsSame
    <3>4. AnswerStands(q, o)'
      BY <1>1, <2>2, <2>4, <3>2, <3>3 DEF AnswerStands
    <3> QED BY <2>1, <3>2, <3>4
  <2> QED BY <2>3, <2>4
<1> QED BY <1>3, <1>4, <1>5 DEF TruthInv

\* Every action preserves TruthInv.
LEMMA TruthInvInductive == TruthInv /\ [Next]_vars => TruthInv'
<1> SUFFICES ASSUME TruthInv, [Next]_vars PROVE TruthInv'
  OBVIOUS
<1>0. OnceInv' /\ TypeOK
  BY OnceInvInductive DEF TruthInv, OnceInv, TypeInv
<1>1. ASSUME NEW r \in Req, Submit(r) \/ Step(r) PROVE TruthInv'
  BY <1>0, <1>1, EarlyTruth, InsertTruth, MarkTruth, CloseTruth, EngineStopsTruth, DocumentTruth,
     RecordTruth, RecordErrorTruth, FinalizeTruth DEF Step
<1>2. ASSUME NEW r \in Req, Crash(r) \/ LateStatement(r) PROVE TruthInv'
  BY <1>0, <1>2, CrashTruth, LateTruth
<1>3. ASSUME NEW o \in Op, LatePatch(o) \/ GrowOld(o) \/ Expire(o) PROVE TruthInv'
  BY <1>0, <1>3, LatePatchTruth, AgeTruth
<1>4. CASE UNCHANGED vars
  <2>1. /\ UNCHANGED <<pc, arg, out, recErr, reply, ran>> /\ late' = late /\ held' = held
        /\ cut' = cut /\ rows' = rows
    BY <1>4 DEF vars
  <2>2. \A o \in Op : /\ Sent(o)' = Sent(o) /\ WholeAt(o)' /\ held[o] \subseteq Doc
    BY <1>0, <2>1 DEF TruthInv, OperationAt, WholeAt, Sent, TypeOK
  <2> QED BY <1>0, <2>1, <2>2, EnvironmentStep
<1> QED BY <1>0, <1>1, <1>2, <1>3, <1>4, ReconcileTruth, CleanupTruth DEF Next

\* TruthInv holds before the first request.
LEMMA InitTruthInv == Init => TruthInv
<1> SUFFICES ASSUME Init PROVE TruthInv
  OBVIOUS
<1>1. OnceInv
  BY InitTypeInv DEF Init, OnceInv, ClaimBacked, ClaimKept, ClaimSpent, ClaimUnique, Claims
<1>2. ASSUME NEW r \in Req PROVE RequestAt(r)
  BY DEF Init, RequestAt, KeptAt, RanAt, AloneAt, FreshAt, Working
<1>3. ASSUME NEW o \in Op PROVE OperationAt(o)
  BY DEF Init, OperationAt, WholeAt, IdleAt, Sent, Exists, NoRow
<1>4. ASSUME NEW r \in Req PROVE AnswerStands(r, arg[r].op)
  <2>1. reply[r].kind = "none" /\ reply[r].claims = NoClaims
    BY DEF Init, NoReply
  <2>2. ClaimsStand(r, arg[r].op)
    BY <2>1, NothingClaimed
  <2> QED BY <2>1, <2>2 DEF AnswerStands, Refusals
<1> QED BY <1>1, <1>2, <1>3, <1>4 DEF TruthInv

\* The inductive invariant of the receipts.
LEMMA TruthAlways == Spec => []TruthInv
  BY InitTruthInv, TruthInvInductive, PTL DEF Spec

\* "a crash leaves a truthful ordered prefix": the recorded outcomes are those of
\* the first documents, in order and true of the cluster, which is ahead of the
\* receipt by one document at most.
THEOREM PrefixTruthful == Spec => []TruthfulPrefix
<1>1. TruthInv => TruthfulPrefix
  <2> SUFFICES ASSUME TruthInv, NEW o \in Op, Exists(rows[o])
               PROVE  /\ \A k \in 1 .. Len(rows[o].objects) :
                            /\ rows[o].objects[k].index = k
                            /\ rows[o].objects[k].outcome = "applied" => k \in held[o]
                            /\ rows[o].objects[k].outcome = "rejected" => k \notin Sent(o)
                      /\ \A i \in Sent(o) : i <= Len(rows[o].objects) + 1
    BY DEF TruthfulPrefix
  <2>0. OperationAt(o) /\ TypeOK /\ rows[o] \in Row
    BY ExistsIsRow DEF TruthInv, OnceInv, TypeInv, TypeOK, AnyRow
  <2>1. CASE ran[o] = {}
    <3>1. Len(rows[o].objects) = 0 /\ Sent(o) = {}
      BY <2>0, <2>1 DEF OperationAt, IdleAt
    <3> QED BY <3>1
  <2>2. ASSUME NEW r \in ran[o]
        PROVE  /\ \A k \in 1 .. Len(rows[o].objects) :
                     /\ rows[o].objects[k].index = k
                     /\ rows[o].objects[k].outcome = "applied" => k \in held[o]
                     /\ rows[o].objects[k].outcome = "rejected" => k \notin Sent(o)
               /\ \A i \in Sent(o) : i <= Len(rows[o].objects) + 1
    <3>0. RunAt(r, o) /\ r \in Req
      BY <2>0 DEF OperationAt, TypeOK
    <3>1. ASSUME NEW k \in 1 .. Len(rows[o].objects)
          PROVE  /\ rows[o].objects[k].index = k
                 /\ rows[o].objects[k].outcome = "applied" => k \in held[o]
                 /\ rows[o].objects[k].outcome = "rejected" => k \notin Sent(o)
      <4>1. rows[o].objects[k] = [index |-> k, outcome |-> out[r][k]]
        BY <3>0 DEF RunAt, RecordsAre
      <4>2. Len(rows[o].objects) \in Nat /\ Len(out[r]) \in Nat
        BY <2>0, <3>0 DEF Row, TypeOK
      <4>3. k \in 1 .. Len(out[r])
        BY <3>0, <4>2 DEF RunAt, Lag
      <4> QED BY <3>0, <4>1, <4>3 DEF RunAt, OutcomesTrue
    <3> QED BY <3>0, <3>1 DEF RunAt, SentBy
  <2> QED BY <2>1, <2>2
<1> QED BY <1>1, TruthAlways, PTL

\* "A crash between any two of these leaves a row ReconcileOrphans can classify
\* truthfully": what was sent was sent under a stamp, and a terminal state other
\* than unknown accounts for all of it.
THEOREM RowsClassified == Spec => []ClassifiedTruthfully
<1>1. TruthInv => ClassifiedTruthfully
  <2> SUFFICES ASSUME TruthInv, NEW o \in Op
               PROVE  /\ Sent(o) # {} => Exists(rows[o]) /\ rows[o].started
                      /\ Exists(rows[o]) /\ rows[o].state \in Settled =>
                            /\ \A i \in Sent(o) : i <= Len(rows[o].objects)
                            /\ rows[o].state = "applied" => held[o] = Doc
    BY DEF ClassifiedTruthfully, Settled
  <2>0. OperationAt(o) /\ TypeOK /\ OnceInv
    BY DEF TruthInv, OnceInv, TypeInv
  <2>1. CASE ran[o] = {}
    BY <2>0, <2>1 DEF OperationAt, IdleAt
  <2>2. CASE ran[o] # {}
    <3>1. PICK r \in ran[o] : TRUE
      BY <2>2
    <3>2. RunAt(r, o) /\ Exists(rows[o])
      BY <2>0, <3>1 DEF OperationAt, TypeOK, OnceInv, ClaimBacked, Claims
    <3> QED BY <3>2 DEF RunAt, SentBy, Ended
  <2> QED BY <2>1, <2>2
<1> QED BY <1>1, TruthAlways, PTL

\* What a client was told stays true, whatever its retries, late statements and
\* the sweeper do afterwards: a refused or replayed request applied nothing, an
\* applied document is on the cluster, and a denied one will never be.
THEOREM AnswersHold == Spec => []AnswersTruthful
<1>1. TruthInv => AnswersTruthful
  BY DEF TruthInv, AnswersTruthful, AnswerStands, ClaimsStand, Denied
<1> QED BY <1>1, TruthAlways, PTL


-----------------------------------------------------------------------------
(* A final receipt is frozen *)

Frozen(row, next) ==
    \/ row.age = "expired" /\ ~Exists(next)
    \/ /\ Exists(next)
       /\ next.state = row.state
       /\ next.completed
       /\ next.started = row.started
       /\ next.objects = row.objects

\* A statement, live or late, leaves a final row alone.
LEMMA CommitFrozen ==
    ASSUME TypeOK, NEW r \in Req, NEW s \in Statement, Commit(r, s), NEW o \in Op,
           Exists(rows[o]), rows[o].completed
    PROVE  rows'[o] = rows[o]
  BY DEF Commit, Execute, Insert, MarkMutationStarted, AppendObject, Finalize, InFlight,
         TypeOK, Statement

\* A receipt that was reaped or finalized is not modified again before retention
\* deletes it, for any number of live applies and late statements.
THEOREM FinalFrozen == Spec => FinalRowsFrozen
<1> DEFINE Step1 == \A o \in Op : Exists(rows[o]) /\ rows[o].completed => Frozen(rows[o], rows'[o])
<1>1. TypeInv /\ [Next]_vars => Step1
  <2> SUFFICES ASSUME TypeInv, [Next]_vars, NEW o \in Op, Exists(rows[o]), rows[o].completed
               PROVE  Frozen(rows[o], rows'[o])
    OBVIOUS
  <2>0. TypeOK /\ rows[o] \in Row
    BY ExistsIsRow DEF TypeInv, TypeOK, AnyRow
  <2>1. rows'[o] = rows[o] => Frozen(rows[o], rows'[o])
    BY <2>0 DEF Frozen
  <2>2. ASSUME NEW r \in Req, NEW s \in Statement, Commit(r, s) PROVE Frozen(rows[o], rows'[o])
    BY <2>0, <2>1, <2>2, CommitFrozen
  <2>3. ASSUME NEW r \in Req, Submit(r) \/ Step(r) \/ Crash(r) PROVE Frozen(rows[o], rows'[o])
    BY <2>1, <2>2, <2>3
       DEF Submit, Crash, Step, InsertIntent, InsertCollides, InsertError, ResolveExisting,
           MarkStarted, MarkRefused, MarkError, CloseNeverStarted, EngineStops, DocumentRejected,
           DocumentApplied, DocumentCutOff, Observe, RecordOutcome, RecordError, FinalizeReceipt,
           Statement
  <2>4. ASSUME NEW r \in Req, LateStatement(r) PROVE Frozen(rows[o], rows'[o])
    BY <2>0, <2>2, <2>4 DEF LateStatement, TypeOK
  <2>5. ASSUME NEW p \in Op, LatePatch(p) \/ GrowOld(p) \/ Expire(p) PROVE Frozen(rows[o], rows'[o])
    <3>1. rows' = rows \/ \E a \in {"stale", "expired"} : rows' = [rows EXCEPT ![p].age = a]
      BY <2>5 DEF LatePatch, GrowOld, Expire
    <3>2. ASSUME NEW a \in {"stale", "expired"}, rows' = [rows EXCEPT ![p].age = a]
          PROVE  Frozen(rows[o], rows'[o])
      <4>1. rows'[o] = rows[o] \/ rows'[o] = [rows[o] EXCEPT !.age = a]
        BY <2>0, <3>2 DEF TypeOK
      <4>2. CASE rows'[o] = [rows[o] EXCEPT !.age = a]
        BY <2>0, <4>2 DEF Frozen, Row, Exists
      <4> QED BY <2>1, <4>1, <4>2
    <3> QED BY <2>1, <3>1, <3>2
  <2>6. CASE Reconcile
    <3>1. rows'[o] = rows[o]
      BY <2>0, <2>6 DEF Reconcile, ReconcileOrphan, Orphan, InFlight
    <3> QED BY <2>1, <3>1
  <2>7. CASE Cleanup
    <3>1. rows'[o] = rows[o] \/ (rows[o].age = "expired" /\ rows'[o] = NoRow)
      BY <2>0, <2>7 DEF Cleanup
    <3> QED BY <2>1, <3>1 DEF Frozen, Exists, NoRow
  <2>8. CASE UNCHANGED vars
    BY <2>1, <2>8 DEF vars
  <2> QED BY <2>3, <2>4, <2>5, <2>6, <2>7, <2>8 DEF Next
<1>2. Spec => []TypeInv
  BY InitTypeInv, TypeInvInductive, PTL DEF Spec
<1>3. TypeInv /\ [Next]_vars => [Step1]_vars
  BY <1>1
<1>4. Spec => [][Step1]_vars
  BY <1>2, <1>3, PTL DEF Spec
<1> QED BY <1>4 DEF FinalRowsFrozen, Frozen
=============================================================================
