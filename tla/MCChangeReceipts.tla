-------------------------- MODULE MCChangeReceipts --------------------------
(* ChangeReceipts on a small instance.  One request is fixed, and the others *)
(* differ from it in the user or in the bundle or in neither.                *)
EXTENDS ChangeReceipts

First == CHOOSE r \in Req : TRUE
FirstSubmission == CHOOSE q \in Submission : TRUE

MCInit ==
    /\ Init
    /\ arg[First] = FirstSubmission
    /\ \A r \in Req : arg[r].owner = FirstSubmission.owner \/ arg[r].body = FirstSubmission.body

MCFairSpec == MCInit /\ [][Next]_vars /\ Fairness
=============================================================================
