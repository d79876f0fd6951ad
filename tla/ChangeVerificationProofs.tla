---------------------- MODULE ChangeVerificationProofs ----------------------
(***************************************************************************)
(* Proofs about ChangeVerification for any number of pollers and documents *)
(* and any split of them into owners' and others', supported and not.      *)
(***************************************************************************)
EXTENDS ChangeVerification, SequenceTheorems, TLAPS

-----------------------------------------------------------------------------
(* The inductive invariant *)

Finished == row.completed /\ row.state \in Terminal

\* The apply recorded its documents in order.
InOrder ==
    /\ Len(row.objects) <= DocCount
    /\ \A k \in 1 .. Len(row.objects) : row.objects[k].index = k

\* Nobody verifies a receipt that is not finished.
VerdictsFollowFinish ==
    /\ row.verdict # "pending" => Finished
    /\ late # NoWrite => Finished
    /\ \A p \in Poller : pc[p] # "idle" => Finished
    /\ reaped => row.verdict \in FinalVerdict

\* A pass checks the recorded objects in order, and the ones that may be on the
\* cluster only.
PassInOrder(p) ==
    /\ Len(checks[p]) <= Len(row.objects)
    /\ \A k \in 1 .. Len(checks[p]) : checks[p][k] = "none" <=> ~verifiable(row.objects[k])
    /\ pc[p] \in {"write", "written", "reread"} => Len(checks[p]) = Len(row.objects)

\* The checks of a whole pass over these objects.
WholePass(c, objects) ==
    \A i \in Doc : IF i > Len(objects) THEN c[i] = "settled"
                   ELSE c[i] = "none" <=> ~verifiable(objects[i])

\* A stored or a late verdict is the verdict of the checks that go with it.
EvidenceFits ==
    /\ row.verdict \notin {"pending", "inconclusive"} =>
          WholePass(evidence, row.objects) /\ row.verdict = aggregateVerification(evidence)
    /\ late # NoWrite =>
          /\ WholePass(late.checks, row.objects)
          /\ late.verdict = aggregateVerification(late.checks)

\* The owner's request whose final verdict is the stored one.
Landed(p) ==
    audit[p] # {} \/ (p \in Persister /\ pc[p] = "written" /\ Evaluate(p) \in FinalVerdict)

LandedOnce ==
    /\ \A p \in Poller : Landed(p) => row.verdict \in FinalVerdict /\ ~reaped
    /\ \A p, q \in Poller : Landed(p) /\ Landed(q) => p = q

WrittenIsStored ==
    \A p \in Persister : pc[p] = "written" /\ Evaluate(p) \in FinalVerdict =>
        row.verdict = Evaluate(p)

AuditIsStored == \A p \in Poller : audit[p] \subseteq {row.verdict}

VerdictInv ==
    /\ TypeOK /\ InOrder /\ VerdictsFollowFinish
    /\ \A p \in Poller : PassInOrder(p)
    /\ EvidenceFits /\ LandedOnce /\ WrittenIsStored /\ AuditIsStored
    /\ OwnerAnswersAgree

-----------------------------------------------------------------------------
(* Checks and verdicts *)

\* The checks come to a verdict, and to a final one when none is to be retried.
LEMMA AggregateVerdict ==
    ASSUME NEW c \in [Doc -> CheckStatus]
    PROVE  /\ aggregateVerification(c) \in Verdict \ {"pending"}
           /\ (\A i \in Doc : c[i] # "retry") => aggregateVerification(c) \in FinalVerdict
  BY DEF aggregateVerification, Verdict, FinalVerdict

\* The recorded documents are the first ones.
LEMMA RecordedInOrder ==
    ASSUME TypeOK, InOrder
    PROVE  /\ Len(row.objects) \in Nat /\ DOMAIN row.objects = 1 .. Len(row.objects)
           /\ Recorded = 1 .. Len(row.objects) /\ Recorded \subseteq Doc
           /\ \A i \in Recorded :
                 (CHOOSE k \in DOMAIN row.objects : row.objects[k].index = i) = i
<1>1. row.objects \in Seq([index : Doc, outcome : Outcome])
  BY DEF TypeOK, Row
<1>2. Len(row.objects) \in Nat /\ DOMAIN row.objects = 1 .. Len(row.objects)
  BY <1>1, LenProperties
<1>3. Recorded = 1 .. Len(row.objects)
  BY <1>2 DEF Recorded, InOrder
<1>4. Recorded \subseteq Doc
  BY <1>2, <1>3, DocCountAssumption DEF InOrder, Doc
<1>5. ASSUME NEW i \in Recorded
      PROVE  (CHOOSE k \in DOMAIN row.objects : row.objects[k].index = i) = i
  <2>1. i \in DOMAIN row.objects /\ row.objects[i].index = i
    BY <1>2, <1>3 DEF InOrder
  <2>2. \A k \in DOMAIN row.objects : row.objects[k].index = i => k = i
    BY <1>2 DEF InOrder
  <2> QED BY <2>1, <2>2
<1>6. QED BY <1>2, <1>3, <1>4, <1>5

\* What a whole pass comes to.
LEMMA WholePassChecks ==
    ASSUME TypeOK, InOrder, NEW p \in Poller, PassInOrder(p),
           Len(checks[p]) = Len(row.objects)
    PROVE  /\ Checks(p) \in [Doc -> CheckStatus] /\ WholePass(Checks(p), row.objects)
           /\ Evaluate(p) \in Verdict \ {"pending"}
           /\ Evaluate(p) = aggregateVerification(Checks(p))
           /\ expired[p] => Evaluate(p) \in FinalVerdict
<1>1. checks[p] \in Seq(CheckStatus) /\ expired[p] \in BOOLEAN
  BY DEF TypeOK
<1>2. \A k \in 1 .. Len(checks[p]) : checks[p][k] \in CheckStatus
  BY <1>1, ElementOfSeq
<1>3. ASSUME NEW i \in Doc
      PROVE  Checks(p)[i] = IF i \in 1 .. Len(row.objects)
                            THEN Frozen(checks[p][i], expired[p]) ELSE "settled"
  <2> DEFINE k0 == CHOOSE k \in DOMAIN row.objects : row.objects[k].index = i
  <2>1. Checks(p)[i] = IF i \in Recorded THEN Frozen(checks[p][k0], expired[p]) ELSE "settled"
    BY DEF Checks
  <2>2. i \in Recorded => k0 = i
    BY RecordedInOrder
  <2> HIDE DEF k0
  <2> QED BY <2>1, <2>2, RecordedInOrder
<1>4. \A i \in Doc : Checks(p)[i] = IF i \in 1 .. Len(row.objects)
                                    THEN Frozen(checks[p][i], expired[p]) ELSE "settled"
  BY <1>3
<1>5. Checks(p) \in [Doc -> CheckStatus]
  <2>1. Checks(p) = [i \in Doc |-> Checks(p)[i]]
    BY DEF Checks
  <2>2. \A i \in Doc : Checks(p)[i] \in CheckStatus
    BY <1>2, <1>4 DEF Frozen, CheckStatus
  <2> QED BY <2>1, <2>2
<1>6. WholePass(Checks(p), row.objects)
  <2>1. \A i \in Doc : i \in Nat /\ i >= 1
    BY DocCountAssumption DEF Doc
  <2> QED BY <1>4, <2>1, RecordedInOrder DEF WholePass, PassInOrder, Frozen
<1>7. expired[p] => \A i \in Doc : Checks(p)[i] # "retry"
  BY <1>4 DEF Frozen
<1>8. QED BY <1>5, <1>6, <1>7, AggregateVerdict DEF Evaluate

\* A pass comes to the same whatever happens to the other columns and pollers.
LEMMA SamePass ==
    ASSUME NEW q \in Poller, row'.objects = row.objects, checks'[q] = checks[q],
           expired'[q] = expired[q]
    PROVE  Checks(q)' = Checks(q) /\ Evaluate(q)' = Evaluate(q)
  BY DEF Checks, Evaluate, Recorded

-----------------------------------------------------------------------------
(* Steps that leave the row alone *)

\* A request that is answered: what an owner is answered is what is stored.
LEMMA ReturnGood ==
    ASSUME VerdictInv, NEW p \in Poller, NEW a \in Verdict \union {"none", "error"},
           Return(p, a), p \in Persister /\ a \in FinalVerdict => a = row.verdict,
           UNCHANGED <<row, windowOver, evidence, reaped>>,
           \/ UNCHANGED late
           \/ /\ late' \in [verdict : Verdict, checks : [Doc -> CheckStatus]] /\ Finished
              /\ WholePass(late'.checks, row.objects)
              /\ late'.verdict = aggregateVerification(late'.checks),
           \/ UNCHANGED audit
           \/ /\ p \in Persister /\ pc[p] = "written" /\ Evaluate(p) \in FinalVerdict
              /\ audit' = [audit EXCEPT ![p] = @ \union {Evaluate(p)}]
    PROVE  VerdictInv'
<1> USE DEF VerdictInv
<1>1. /\ row' = row /\ evidence' = evidence /\ reaped' = reaped /\ windowOver' = windowOver
      /\ (Finished' <=> Finished)
  BY DEF Finished
<1>2. /\ pc'[p] = "idle" /\ checks'[p] = <<>> /\ expired'[p] = FALSE /\ answer'[p] = a
      /\ \A q \in Poller : q # p => /\ pc'[q] = pc[q] /\ checks'[q] = checks[q]
                                    /\ expired'[q] = expired[q] /\ answer'[q] = answer[q]
  BY DEF TypeOK, Return
<1>3. TypeOK'
  <2>1. /\ pc' \in [Poller -> {"idle", "read", "write", "written", "reread"}]
        /\ checks' \in [Poller -> Seq(CheckStatus)] /\ expired' \in [Poller -> BOOLEAN]
        /\ ctx' \in [Poller -> BOOLEAN]
        /\ answer' \in [Poller -> Verdict \union {"none", "error"}]
    BY DEF TypeOK, Return
  <2>2. audit' \in [Poller -> SUBSET FinalVerdict]
    <3>1. CASE UNCHANGED audit
      BY <3>1 DEF TypeOK
    <3>2. CASE audit' = [audit EXCEPT ![p] = @ \union {Evaluate(p)}]
                /\ Evaluate(p) \in FinalVerdict
      <4>1. audit[p] \union {Evaluate(p)} \in SUBSET FinalVerdict
        BY <3>2 DEF TypeOK
      <4> QED BY <3>2, <4>1 DEF TypeOK
    <3> QED BY <3>1, <3>2
  <2> QED BY <1>1, <2>1, <2>2 DEF TypeOK
<1>4. InOrder'
  BY <1>1 DEF InOrder
<1>5. VerdictsFollowFinish'
  BY <1>1, <1>2 DEF VerdictsFollowFinish
<1>6. ASSUME NEW q \in Poller PROVE PassInOrder(q)'
  <2>1. CASE q = p
    <3>1. Len(row.objects) >= 0 /\ Len(<<>>) = 0
      BY RecordedInOrder
    <3> QED BY <1>1, <1>2, <2>1, <3>1 DEF PassInOrder
  <2>2. CASE q # p
    BY <1>1, <1>2, <2>2 DEF PassInOrder
  <2> QED BY <2>1, <2>2
<1>7. EvidenceFits'
  BY <1>1 DEF EvidenceFits
<1>8. ASSUME NEW q \in Poller, q # p PROVE Evaluate(q)' = Evaluate(q)
  BY <1>1, <1>2, <1>8, SamePass
<1>9. ASSUME NEW q \in Poller, Landed(q)' PROVE Landed(q)
  <2>1. CASE q = p
    BY <1>2, <1>9, <2>1 DEF Landed, TypeOK
  <2>2. CASE q # p
    BY <1>2, <1>8, <1>9, <2>2 DEF Landed, TypeOK
  <2> QED BY <2>1, <2>2
<1>10. LandedOnce'
  BY <1>1, <1>9 DEF LandedOnce
<1>11. WrittenIsStored'
  BY <1>1, <1>2, <1>8, PollerAssumption DEF WrittenIsStored
<1>12. AuditIsStored'
  <2>1. \A q \in Poller : \/ audit'[q] = audit[q]
                          \/ /\ q = p /\ p \in Persister /\ pc[p] = "written"
                             /\ Evaluate(p) \in FinalVerdict
                             /\ audit'[q] = audit[q] \union {Evaluate(p)}
    BY DEF TypeOK
  <2> QED BY <1>1, <2>1 DEF AuditIsStored, WrittenIsStored
<1>13. OwnerAnswersAgree'
  BY <1>1, <1>2, PollerAssumption DEF OwnerAnswersAgree
<1>14. QED
  BY <1>3, <1>4, <1>5, <1>6, <1>7, <1>10, <1>11, <1>12, <1>13

\* A request that goes on, on a finished receipt, without having written.
LEMMA GoesOnGood ==
    ASSUME VerdictInv, NEW p \in Poller, TypeOK', Finished, PassInOrder(p)',
           UNCHANGED <<row, windowOver, evidence, late, audit, reaped>>,
           \A q \in Poller : q # p => /\ pc'[q] = pc[q] /\ checks'[q] = checks[q]
                                      /\ expired'[q] = expired[q] /\ answer'[q] = answer[q],
           answer'[p] \in {answer[p], "none"},
           p \in Persister /\ pc'[p] = "written" =>
              pc[p] = "written" /\ checks'[p] = checks[p] /\ expired'[p] = expired[p]
    PROVE  VerdictInv'
<1> USE DEF VerdictInv
<1>1. /\ row' = row /\ evidence' = evidence /\ reaped' = reaped /\ late' = late
      /\ audit' = audit /\ (Finished' <=> Finished)
  BY DEF Finished
<1>2. InOrder' /\ VerdictsFollowFinish' /\ EvidenceFits' /\ AuditIsStored'
  BY <1>1 DEF InOrder, VerdictsFollowFinish, EvidenceFits, AuditIsStored
<1>3. ASSUME NEW q \in Poller PROVE PassInOrder(q)'
  BY <1>1 DEF PassInOrder
<1>4. ASSUME NEW q \in Poller, checks'[q] = checks[q], expired'[q] = expired[q]
      PROVE  Evaluate(q)' = Evaluate(q)
  BY <1>1, <1>4, SamePass
<1>5. ASSUME NEW q \in Poller, Landed(q)' PROVE Landed(q)
  BY <1>1, <1>4, <1>5 DEF Landed
<1>6. LandedOnce'
  BY <1>1, <1>5 DEF LandedOnce
<1>7. WrittenIsStored'
  BY <1>1, <1>4, PollerAssumption DEF WrittenIsStored
<1>8. OwnerAnswersAgree'
  <2>1. "none" \notin FinalVerdict
    BY DEF FinalVerdict
  <2> QED BY <1>1, <2>1, PollerAssumption DEF OwnerAnswersAgree
<1>9. QED BY <1>2, <1>3, <1>6, <1>7, <1>8

\* A verification request up to its write, and after it.
LEMMA PassGood ==
    ASSUME VerdictInv, NEW p \in Poller,
           Load(p) \/ VerifyObject(p) \/ FinishPass(p) \/ WriteRefused(p) \/ WriteError(p)
           \/ Reread(p) \/ AnswerPass(p) \/ ContextEnds(p)
    PROVE  VerdictInv'
<1> USE DEF VerdictInv
<1>1. row.verdict \in Verdict /\ FinalVerdict \subseteq Verdict /\ "pending" \in Verdict
      /\ "pending" \notin FinalVerdict /\ "error" \notin FinalVerdict
  BY DEF TypeOK, Row, Verdict, FinalVerdict
<1>2. pc[p] # "idle" => Finished
  BY DEF VerdictsFollowFinish
<1>3. pc[p] \in {"write", "written"} =>
          /\ Checks(p) \in [Doc -> CheckStatus] /\ WholePass(Checks(p), row.objects)
          /\ Evaluate(p) \in Verdict \ {"pending"}
          /\ Evaluate(p) = aggregateVerification(Checks(p))
  BY WholePassChecks DEF PassInOrder
<1>4. CASE Load(p)
  <2>1. CASE Return(p, row.verdict)
    BY <1>1, <1>4, <2>1, ReturnGood DEF Load
  <2>2. CASE Return(p, "pending")
    BY <1>1, <1>4, <2>2, ReturnGood DEF Load
  <2>3. CASE /\ row.completed /\ row.state \in Terminal /\ Goto(p, "read")
             /\ expired' = [expired EXCEPT ![p] = windowOver]
             /\ answer' = [answer EXCEPT ![p] = "none"] /\ UNCHANGED <<checks, ctx>>
    <3>1. TypeOK'
      <4>1. answer' \in [Poller -> Verdict \union {"none", "error"}]
        BY <2>3 DEF TypeOK
      <4> QED BY <1>4, <2>3, <4>1 DEF TypeOK, Goto, Load
    <3>2. pc'[p] = "read" /\ answer'[p] = "none" /\ Finished
          /\ \A q \in Poller : q # p => pc'[q] = pc[q] /\ expired'[q] = expired[q]
                                        /\ answer'[q] = answer[q]
      BY <2>3 DEF TypeOK, Goto, Finished
    <3>3. PassInOrder(p)'
      BY <1>4, <2>3, <3>2 DEF PassInOrder, Load
    <3> QED BY <1>4, <2>3, <3>1, <3>2, <3>3, GoesOnGood DEF Load
  <2> QED BY <1>4, <2>1, <2>2, <2>3 DEF Load
<1>5. CASE VerifyObject(p)
  <2> DEFINE n == Len(checks[p]) + 1
             o == row.objects[n]
  <2>1. PICK c \in IF verifiable(o) THEN verifyObject(o, ctx[p]) ELSE {"none"} :
            checks' = [checks EXCEPT ![p] = Append(@, c)]
    BY <1>5 DEF VerifyObject
  <2>2. c \in CheckStatus /\ (c = "none" <=> ~verifiable(o))
    BY <2>1 DEF verifyObject, CheckStatus
  <2>3. /\ pc[p] = "read" /\ Len(checks[p]) < Len(row.objects)
        /\ UNCHANGED <<row, windowOver, pc, expired, ctx, answer, evidence, late, audit, reaped>>
    BY <1>5 DEF VerifyObject
  <2>4. checks[p] \in Seq(CheckStatus) /\ Len(checks[p]) \in Nat /\ Len(row.objects) \in Nat
    BY LenProperties, RecordedInOrder DEF TypeOK
  <2> HIDE DEF n, o
  <2>5. /\ checks'[p] = Append(checks[p], c) /\ Append(checks[p], c) \in Seq(CheckStatus)
        /\ \A q \in Poller : q # p => checks'[q] = checks[q]
    BY <2>1, <2>2, <2>4 DEF TypeOK
  <2>6. /\ Len(Append(checks[p], c)) = n /\ n = Len(checks[p]) + 1
        /\ Append(checks[p], c)[n] = c
        /\ \A k \in 1 .. Len(checks[p]) : Append(checks[p], c)[k] = checks[p][k]
    BY <2>2, <2>4, AppendProperties DEF n
  <2>7. TypeOK'
    BY <2>1, <2>3, <2>5 DEF TypeOK
  <2>8. PassInOrder(p)'
    <3>1. \A k \in 1 .. n : k = n \/ k \in 1 .. Len(checks[p])
      BY <2>4, <2>6
    <3> QED BY <2>2, <2>3, <2>4, <2>5, <2>6, <3>1 DEF PassInOrder, o
  <2> QED BY <1>2, <2>3, <2>5, <2>7, <2>8, GoesOnGood
<1>6. CASE FinishPass(p) \/ WriteRefused(p)
  <2>1. PICK l \in {"write", "written", "reread"} :
            Goto(p, l) /\ (p \in Persister => l # "written")
    BY <1>6 DEF FinishPass, WriteRefused
  <2>2. /\ pc[p] \in {"read", "write"} /\ Len(checks[p]) = Len(row.objects)
        /\ UNCHANGED <<row, windowOver, checks, expired, ctx, answer, evidence, late, audit, reaped>>
    BY <1>6 DEF FinishPass, WriteRefused, PassInOrder
  <2>3. TypeOK' /\ pc'[p] = l /\ \A q \in Poller : q # p => pc'[q] = pc[q]
    BY <2>1, <2>2 DEF TypeOK, Goto
  <2>4. PassInOrder(p)'
    BY <2>2 DEF PassInOrder
  <2> QED BY <1>2, <2>1, <2>2, <2>3, <2>4, GoesOnGood
<1>7. CASE WriteError(p)
  <2>1. Return(p, "error") /\ UNCHANGED <<row, windowOver, evidence, audit, reaped>>
        /\ pc[p] = "write"
    BY <1>7 DEF WriteError
  <2>2. \/ UNCHANGED late
        \/ /\ late' \in [verdict : Verdict, checks : [Doc -> CheckStatus]]
           /\ WholePass(late'.checks, row.objects)
           /\ late'.verdict = aggregateVerification(late'.checks)
    BY <1>3, <1>7, <2>1 DEF WriteError
  <2> QED BY <1>1, <1>2, <2>1, <2>2, ReturnGood
<1>8. CASE Reread(p)
  BY <1>1, <1>8, ReturnGood DEF Reread
<1>9. CASE AnswerPass(p)
  <2>1. /\ pc[p] = "written" /\ Return(p, IF ctx[p] THEN Evaluate(p) ELSE "error")
        /\ UNCHANGED <<row, windowOver, evidence, late, reaped>>
        /\ \/ UNCHANGED audit
           \/ /\ p \in Persister /\ Evaluate(p) \in FinalVerdict
              /\ audit' = [audit EXCEPT ![p] = @ \union {Evaluate(p)}]
    BY <1>9 DEF AnswerPass
  <2>2. p \in Persister /\ Evaluate(p) \in FinalVerdict => Evaluate(p) = row.verdict
    BY <2>1 DEF WrittenIsStored
  <2>3. CASE ctx[p]
    BY <1>3, <2>1, <2>2, <2>3, ReturnGood
  <2>4. CASE ~ctx[p]
    BY <1>1, <2>1, <2>4, ReturnGood
  <2> QED BY <2>3, <2>4
<1>10. CASE ContextEnds(p)
  <2>1. /\ pc[p] # "idle" /\ ctx' = [ctx EXCEPT ![p] = FALSE]
        /\ UNCHANGED <<row, windowOver, pc, checks, expired, answer, evidence, late, audit, reaped>>
    BY <1>10 DEF ContextEnds
  <2>2. TypeOK'
    BY <2>1 DEF TypeOK
  <2>3. PassInOrder(p)'
    BY <2>1 DEF PassInOrder
  <2> QED BY <1>2, <2>1, <2>2, <2>3, GoesOnGood
<1>11. QED BY <1>4, <1>5, <1>6, <1>7, <1>8, <1>9, <1>10

-----------------------------------------------------------------------------
(* Steps that change the row *)

\* While no verdict is final no owner has been answered one, none was audited
\* and no write of one has landed.
LEMMA Undecided ==
    ASSUME VerdictInv, row.verdict \notin FinalVerdict
    PROVE  /\ ~reaped /\ \A q \in Poller : ~Landed(q) /\ audit[q] = {}
           /\ \A q \in Persister : answer[q] \notin FinalVerdict
  BY DEF VerdictInv, VerdictsFollowFinish, LandedOnce, Landed, OwnerAnswersAgree

\* A write that reaches the row replaces a verdict that was not final, together
\* with the evidence.
LEMMA StoreWrites ==
    ASSUME TypeOK, NEW v \in Verdict, NEW found \in [Doc -> CheckStatus],
           Store(v, found), row.verdict \notin FinalVerdict
    PROVE  /\ row' \in Row /\ row'.objects = row.objects /\ row'.verdict = v
           /\ row'.completed = row.completed /\ row'.state = row.state
           /\ evidence' = found
<1>1. row \in Row /\ Exists(row)
  BY DEF TypeOK, Row, Exists, Terminal
<1>2. row' = [row EXCEPT !.verdict = v] /\ evidence' = found
  BY <1>1 DEF Store, SetVerification
<1> QED BY <1>1, <1>2 DEF Row

LEMMA WriteVerdictGood ==
    ASSUME VerdictInv, NEW p \in Poller, WriteVerdict(p)
    PROVE  VerdictInv'
<1> USE DEF VerdictInv
<1> DEFINE v == Evaluate(p)
           found == Checks(p)
<1>1. /\ pc[p] = "write" /\ row.verdict \notin FinalVerdict /\ Store(v, found)
      /\ Goto(p, "written")
      /\ UNCHANGED <<windowOver, checks, expired, ctx, answer, late, audit, reaped>>
  BY DEF WriteVerdict
<1>2. /\ found \in [Doc -> CheckStatus] /\ WholePass(found, row.objects)
      /\ v \in Verdict /\ v # "pending" /\ v = aggregateVerification(found)
  BY <1>1, WholePassChecks DEF PassInOrder
<1>3. Finished
  BY <1>1 DEF VerdictsFollowFinish
<1> HIDE DEF v, found
<1>4. /\ row' \in Row /\ row'.objects = row.objects /\ row'.verdict = v
      /\ row'.completed = row.completed /\ row'.state = row.state /\ evidence' = found
  BY <1>1, <1>2, StoreWrites
<1>5. /\ pc'[p] = "written" /\ \A q \in Poller : q # p => pc'[q] = pc[q]
  BY <1>1 DEF TypeOK, Goto
<1>6. ~reaped /\ (\A q \in Poller : ~Landed(q) /\ audit[q] = {})
      /\ \A q \in Persister : answer[q] \notin FinalVerdict
  BY <1>1, Undecided
<1>7. TypeOK'
  BY <1>1, <1>2, <1>4 DEF TypeOK, Goto
<1>8. Finished'
  BY <1>3, <1>4 DEF Finished
<1>9. InOrder' /\ VerdictsFollowFinish' /\ EvidenceFits'
  BY <1>1, <1>2, <1>4, <1>6, <1>8 DEF InOrder, VerdictsFollowFinish, EvidenceFits
<1>10. \A q \in Poller : PassInOrder(q)'
  BY <1>1, <1>4, <1>5 DEF PassInOrder
<1>11. \A q \in Poller : Evaluate(q)' = Evaluate(q)
  BY <1>1, <1>4, SamePass
<1>12. \A q \in Poller : Landed(q)' => q = p /\ v \in FinalVerdict
  BY <1>1, <1>5, <1>6, <1>11 DEF Landed, v
<1>13. LandedOnce' /\ WrittenIsStored'
  BY <1>1, <1>4, <1>6, <1>11, <1>12, PollerAssumption DEF LandedOnce, WrittenIsStored, Landed, v
<1>14. AuditIsStored' /\ OwnerAnswersAgree'
  BY <1>1, <1>6 DEF AuditIsStored, OwnerAnswersAgree
<1>15. QED BY <1>7, <1>9, <1>10, <1>13, <1>14

\* A write that lands after its request was told that it failed.
LEMMA LateVerdictGood ==
    ASSUME VerdictInv, LateVerdict
    PROVE  VerdictInv'
<1> USE DEF VerdictInv
<1>1. /\ late # NoWrite /\ Store(late.verdict, late.checks) /\ late' = NoWrite
      /\ UNCHANGED <<windowOver, pc, checks, expired, ctx, answer, audit, reaped>>
  BY DEF LateVerdict
<1>2. /\ late.verdict \in Verdict /\ late.checks \in [Doc -> CheckStatus] /\ Finished
      /\ WholePass(late.checks, row.objects)
      /\ late.verdict = aggregateVerification(late.checks)
  BY <1>1 DEF TypeOK, VerdictsFollowFinish, EvidenceFits
<1>3. CASE row.verdict \in FinalVerdict
  <2>1. row' = row /\ evidence' = evidence
    BY <1>1, <1>3 DEF Store, SetVerification
  <2>2. TypeOK' /\ (Finished' <=> Finished)
    BY <1>1, <2>1 DEF TypeOK, Finished
  <2>3. \A q \in Poller : Evaluate(q)' = Evaluate(q)
    BY <1>1, <2>1, SamePass
  <2>4. \A q \in Poller : Landed(q)' <=> Landed(q)
    BY <1>1, <2>3 DEF Landed
  <2>5. InOrder' /\ VerdictsFollowFinish' /\ EvidenceFits' /\ \A q \in Poller : PassInOrder(q)'
    BY <1>1, <2>1, <2>2 DEF InOrder, VerdictsFollowFinish, EvidenceFits, PassInOrder
  <2> QED
    BY <1>1, <2>1, <2>2, <2>3, <2>4, <2>5, PollerAssumption
       DEF LandedOnce, WrittenIsStored, AuditIsStored, OwnerAnswersAgree
<1>4. CASE row.verdict \notin FinalVerdict
  <2>1. /\ row' \in Row /\ row'.objects = row.objects /\ row'.verdict = late.verdict
        /\ row'.completed = row.completed /\ row'.state = row.state
        /\ evidence' = late.checks
    BY <1>1, <1>2, <1>4, StoreWrites
  <2>2. ~reaped /\ (\A q \in Poller : ~Landed(q) /\ audit[q] = {})
        /\ \A q \in Persister : answer[q] \notin FinalVerdict
    BY <1>4, Undecided
  <2>3. TypeOK' /\ Finished'
    BY <1>1, <1>2, <2>1 DEF TypeOK, Finished
  <2>4. \A q \in Poller : Evaluate(q)' = Evaluate(q)
    BY <1>1, <2>1, SamePass
  <2>5. \A q \in Poller : ~Landed(q)'
    BY <1>1, <2>2, <2>4 DEF Landed
  <2>6. InOrder' /\ VerdictsFollowFinish' /\ EvidenceFits' /\ \A q \in Poller : PassInOrder(q)'
    BY <1>1, <1>2, <2>1, <2>2, <2>3
       DEF InOrder, VerdictsFollowFinish, EvidenceFits, PassInOrder
  <2>7. LandedOnce' /\ WrittenIsStored'
    BY <2>5, PollerAssumption DEF LandedOnce, WrittenIsStored, Landed
  <2>8. AuditIsStored' /\ OwnerAnswersAgree'
    BY <1>1, <2>2 DEF AuditIsStored, OwnerAnswersAgree
  <2> QED BY <2>3, <2>6, <2>7, <2>8
<1>5. QED BY <1>3, <1>4

\* The apply and the sweeper move a receipt that nobody has begun to verify.
LEMMA InFlightGood ==
    ASSUME VerdictInv, FinishApply \/ GrowOld \/ Reconcile
    PROVE  VerdictInv'
<1> USE DEF VerdictInv
<1>1. InFlight(row) /\ row \in Row
      /\ UNCHANGED <<windowOver, pc, checks, expired, ctx, answer, evidence, late, audit>>
  BY DEF FinishApply, GrowOld, Reconcile, Orphan, TypeOK
<1>2. /\ row.verdict = "pending" /\ late = NoWrite /\ \A q \in Poller : pc[q] = "idle"
  BY <1>1 DEF InFlight, VerdictsFollowFinish, Finished
<1>3. row.verdict \notin FinalVerdict
  BY <1>2 DEF FinalVerdict
<1>4. ~reaped /\ (\A q \in Poller : ~Landed(q) /\ audit[q] = {})
      /\ \A q \in Persister : answer[q] \notin FinalVerdict
  BY <1>3, Undecided
<1>5. row' \in Row /\ row'.objects = row.objects
      /\ \/ row'.verdict = row.verdict /\ reaped' = reaped
         \/ row'.verdict = "inconclusive" /\ reaped' = TRUE /\ Finished'
  <2>1. CASE FinishApply
    <3>1. PICK st \in Terminal : row' = Finalize(row, st)
      BY <2>1 DEF FinishApply, stateFor, Terminal
    <3>2. row' = [row EXCEPT !.state = st, !.completed = TRUE]
      BY <1>1, <3>1 DEF Finalize
    <3> QED BY <1>1, <2>1, <3>2 DEF FinishApply, Row
  <2>2. CASE GrowOld
    <3>1. row' = [row EXCEPT !.age = "stale"] /\ reaped' = reaped
      BY <2>2 DEF GrowOld
    <3> QED BY <1>1, <3>1 DEF Row
  <2>3. CASE Reconcile
    <3>1. PICK st \in {"unknown", "failed"} :
              row' = [row EXCEPT !.state = st, !.verdict = "inconclusive", !.completed = TRUE]
      BY <2>3 DEF Reconcile, ReconcileOrphan
    <3>2. /\ row' \in Row /\ row'.objects = row.objects /\ row'.verdict = "inconclusive"
          /\ row'.completed /\ row'.state \in Terminal
      BY <1>1, <3>1 DEF Row, Terminal, Verdict, FinalVerdict
    <3> QED BY <2>3, <3>2 DEF Reconcile, Finished
  <2> QED BY <2>1, <2>2, <2>3
<1>6. TypeOK'
  BY <1>1, <1>4, <1>5 DEF TypeOK
<1>7. InOrder' /\ \A q \in Poller : PassInOrder(q)'
  BY <1>1, <1>5 DEF InOrder, PassInOrder
<1>8. VerdictsFollowFinish' /\ EvidenceFits'
  BY <1>1, <1>2, <1>4, <1>5 DEF VerdictsFollowFinish, EvidenceFits, FinalVerdict
<1>9. \A q \in Poller : ~Landed(q)' /\ pc'[q] = "idle"
  BY <1>1, <1>2, <1>4 DEF Landed
<1>10. LandedOnce' /\ WrittenIsStored'
  BY <1>9, PollerAssumption DEF LandedOnce, WrittenIsStored
<1>11. AuditIsStored' /\ OwnerAnswersAgree'
  BY <1>1, <1>4 DEF AuditIsStored, OwnerAnswersAgree
<1>12. QED BY <1>6, <1>7, <1>8, <1>10, <1>11

-----------------------------------------------------------------------------
(* The invariant and what it gives *)

LEMMA InitGood == Init => VerdictInv
<1> SUFFICES ASSUME Init PROVE VerdictInv
  OBVIOUS
<1>0. PICK o \in Owner, b \in Body, st \in BOOLEAN, n \in 0 .. DocCount :
        \E f \in [1 .. n -> Outcome] :
          row = [state |-> "applying", owner |-> o, body |-> b, started |-> st,
                 completed |-> FALSE,
                 objects |-> [k \in 1 .. n |-> [index |-> k, outcome |-> f[k]]],
                 verdict |-> "pending", age |-> "young"]
  BY DEF Init
<1>1. PICK f \in [1 .. n -> Outcome] :
          row = [state |-> "applying", owner |-> o, body |-> b, started |-> st,
                 completed |-> FALSE,
                 objects |-> [k \in 1 .. n |-> [index |-> k, outcome |-> f[k]]],
                 verdict |-> "pending", age |-> "young"]
  BY <1>0
<1> DEFINE objects == [k \in 1 .. n |-> [index |-> k, outcome |-> f[k]]]
<1>2. n \in Nat /\ n <= DocCount /\ 1 .. n \subseteq Doc
  BY DocCountAssumption DEF Doc
<1>3. objects \in [1 .. n -> [index : Doc, outcome : Outcome]]
      /\ \A k \in 1 .. n : objects[k].index = k
  BY <1>2
<1>4. objects \in Seq([index : Doc, outcome : Outcome]) /\ Len(objects) = n
  BY <1>2, <1>3, IsASeq, LenProperties
<1>5. row.objects = objects /\ row.verdict = "pending"
  BY <1>1
<1>6. row \in Row
  <2> HIDE DEF objects
  <2>1. row = [state |-> "applying", owner |-> o, body |-> b, started |-> st,
               completed |-> FALSE, objects |-> objects, verdict |-> "pending", age |-> "young"]
    BY <1>1 DEF objects
  <2> QED BY <1>4, <2>1 DEF Row, Verdict
<1> HIDE DEF objects
<1>7. NoChecks \in [Doc -> CheckStatus]
  BY DEF NoChecks, CheckStatus
<1>8. TypeOK
  <2>1. checks \in [Poller -> Seq(CheckStatus)]
    BY DEF Init
  <2> QED BY <1>6, <1>7, <2>1 DEF Init, TypeOK
<1>9. InOrder
  BY <1>2, <1>3, <1>4, <1>5 DEF InOrder
<1>10. \A p \in Poller : PassInOrder(p)
  BY <1>2, <1>4, <1>5 DEF Init, PassInOrder
<1>11. \A p \in Poller : ~Landed(p) /\ pc[p] = "idle" /\ audit[p] = {} /\ answer[p] = "none"
  BY DEF Init, Landed
<1>12. QED
  BY <1>5, <1>8, <1>9, <1>10, <1>11, PollerAssumption
     DEF Init, VerdictInv, VerdictsFollowFinish, EvidenceFits, LandedOnce, WrittenIsStored,
         AuditIsStored, OwnerAnswersAgree, FinalVerdict

LEMMA StepGood ==
    ASSUME VerdictInv, [Next]_vars
    PROVE  VerdictInv'
<1> USE DEF VerdictInv
<1>1. CASE WindowCloses \/ UNCHANGED vars
  <2>1. UNCHANGED <<row, pc, checks, expired, ctx, answer, evidence, late, audit, reaped>>
    BY <1>1 DEF WindowCloses, vars
  <2>2. TypeOK'
    BY <1>1, <2>1 DEF TypeOK, WindowCloses, vars
  <2>3. \A q \in Poller : Evaluate(q)' = Evaluate(q)
    BY <2>1, SamePass
  <2>4. \A q \in Poller : Landed(q)' <=> Landed(q)
    BY <2>1, <2>3 DEF Landed
  <2>5. InOrder' /\ VerdictsFollowFinish' /\ EvidenceFits' /\ \A q \in Poller : PassInOrder(q)'
    BY <2>1 DEF InOrder, VerdictsFollowFinish, EvidenceFits, PassInOrder, Finished
  <2> QED
    BY <2>1, <2>2, <2>3, <2>4, <2>5, PollerAssumption
       DEF LandedOnce, WrittenIsStored, AuditIsStored, OwnerAnswersAgree
<1>2. QED
  BY <1>1, PassGood, WriteVerdictGood, LateVerdictGood, InFlightGood DEF Next, Pass

LEMMA Invariant == Spec => []VerdictInv
<1>1. VerdictInv /\ [Next]_vars => VerdictInv'
  BY StepGood
<1>2. QED BY <1>1, InitGood, PTL DEF Spec

(* "the first final verdict wins", for any number of tabs: whatever final   *)
(* state an owner's request is answered is the one that is stored           *)
(* (SetVerification's guard, the reread after ErrReceiptAlreadyFinal).      *)
THEOREM OneAnswer == Spec => []OwnerAnswersAgree
<1>1. VerdictInv => OwnerAnswersAgree
  BY DEF VerdictInv
<1>2. QED BY <1>1, Invariant, PTL

(* The audit hook is called with the stored verdict, by one request only    *)
(* and never for a verdict the reconciler wrote.                            *)
THEOREM AuditTrue == Spec => []AuditNamesTheVerdict
<1>1. VerdictInv => AuditNamesTheVerdict
  BY DEF VerdictInv, AuditNamesTheVerdict, AuditIsStored, LandedOnce, Landed
<1>2. QED BY <1>1, Invariant, PTL

(* A pass that began after the window leaves a final verdict behind when    *)
(* its write has landed: freezeExpired leaves no check to be retried.       *)
THEOREM WindowEnds == Spec => []WindowDecides
<1>1. VerdictInv => WindowDecides
  <2>1. SUFFICES ASSUME VerdictInv, NEW p \in Persister, pc[p] = "written", expired[p]
                 PROVE  row.verdict \in FinalVerdict
    BY DEF WindowDecides
  <2>2. p \in Poller /\ PassInOrder(p) /\ TypeOK /\ InOrder
    BY <2>1, PollerAssumption DEF VerdictInv
  <2>3. Evaluate(p) \in FinalVerdict
    BY <2>1, <2>2, WholePassChecks DEF PassInOrder
  <2> QED BY <2>1, <2>3 DEF VerdictInv, WrittenIsStored
<1>2. QED BY <1>1, Invariant, PTL

(* A verdict is earned by the evidence stored with it: a verified receipt   *)
(* has a passed check for every document that may be on the cluster and a   *)
(* record of every document, for any number of documents.                   *)
THEOREM VerdictsEarned == Spec => []VerdictEarned
<1>1. VerdictInv => VerdictEarned
  <2> SUFFICES ASSUME VerdictInv PROVE VerdictEarned
    OBVIOUS
  <2> USE DEF VerdictInv
  <2> DEFINE may == {i \in Doc : \E k \in DOMAIN row.objects :
                        row.objects[k].index = i /\ verifiable(row.objects[k])}
  <2>1. /\ Len(row.objects) \in Nat /\ DOMAIN row.objects = 1 .. Len(row.objects)
        /\ Recorded = 1 .. Len(row.objects) /\ Recorded \subseteq Doc
    BY RecordedInOrder
  <2>2. may = {i \in 1 .. Len(row.objects) : verifiable(row.objects[i])}
    BY <2>1 DEF InOrder
  <2>3. ASSUME row.verdict \notin {"pending", "inconclusive"}
        PROVE  /\ \A i \in Doc : i \in may <=> i \in Recorded /\ evidence[i] # "none"
               /\ \A i \in Doc : i \notin Recorded => evidence[i] = "settled"
               /\ row.verdict = aggregateVerification(evidence)
    <3>1. \A i \in Doc : i \in Nat /\ i >= 1
      BY DocCountAssumption DEF Doc
    <3> QED BY <2>1, <2>2, <2>3, <3>1 DEF EvidenceFits, WholePass
  <2> HIDE DEF may
  <2>4. ASSUME row.verdict = "verified"
        PROVE  /\ row.completed /\ row.state \in Terminal /\ Recorded = Doc
               /\ may # {} /\ \A i \in may : evidence[i] = "pass"
    <3>1. {evidence[i] : i \in Doc} \ {"none"} = {"pass"}
      BY <2>3, <2>4 DEF aggregateVerification
    <3>2. \A i \in Doc : evidence[i] \in {"none", "pass"}
      BY <3>1
    <3>3. Recorded = Doc
      BY <2>1, <2>3, <2>4, <3>2
    <3>4. PICK i \in Doc : evidence[i] = "pass"
      BY <3>1
    <3>5. i \in may
      BY <2>3, <2>4, <3>3, <3>4
    <3>6. \A j \in may : j \in Doc /\ evidence[j] = "pass"
      BY <2>3, <2>4, <3>2 DEF may
    <3> QED BY <2>4, <3>3, <3>5, <3>6 DEF VerdictsFollowFinish, Finished
  <2>5. ASSUME row.verdict = "verification_failed" PROVE \E i \in may : evidence[i] = "fail"
    <3>1. \E i \in Doc : evidence[i] = "fail"
      BY <2>3, <2>5 DEF aggregateVerification
    <3> QED BY <2>3, <2>5, <3>1
  <2>6. ASSUME row.verdict = "verifying" PROVE \E i \in may : evidence[i] = "retry"
    <3>1. \E i \in Doc : evidence[i] = "retry"
      BY <2>3, <2>6 DEF aggregateVerification
    <3> QED BY <2>3, <2>6, <3>1
  <2> QED BY <2>4, <2>5, <2>6 DEF VerdictEarned, may
<1>2. QED BY <1>1, Invariant, PTL
=============================================================================
