------------------------ MODULE MCChangeVerification ------------------------
(* ChangeVerification on a small instance. *)
EXTENDS ChangeVerification, TLC

\* The owner's tabs are interchangeable.
Tabs == Permutations(Persister)

\* A bundle whose first document alone is a workload.
FirstDoc == {1}
=============================================================================
