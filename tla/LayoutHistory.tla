---------------------------- MODULE LayoutHistory ----------------------------
(***************************************************************************)
(* What the stored dashboard layout of one user, cluster and scope         *)
(* promises to everybody who edits it: an append-only history in which     *)
(* every version was drafted from the version directly before it.  No      *)
(* draft can replace a version its author did not start from, however many *)
(* pages are open and whatever the network does to their requests.         *)
(***************************************************************************)
EXTENDS Integers, Sequences

CONSTANTS
    Page,   \* who drafts
    Items   \* the contents a version may have

VARIABLES
    versions,  \* the contents stored so far, oldest first
    base       \* base[p]: the number of versions p's draft started from, or -1

vars == <<versions, base>>

NoDraft == -1

Init ==
    /\ versions \in {<< >>} \cup {<<c>> : c \in Items}
    /\ base = [p \in Page |-> NoDraft]

(* A draft may start from any version: what a page shows can be old. *)
Begin(p) ==
    /\ base[p] = NoDraft
    /\ \E n \in 0 .. Len(versions) : base' = [base EXCEPT ![p] = n]
    /\ UNCHANGED versions

Drop(p) ==
    /\ base[p] # NoDraft
    /\ base' = [base EXCEPT ![p] = NoDraft]
    /\ UNCHANGED versions

(* The one way the layout changes; the draft stays until its author hears. *)
Commit(p) ==
    /\ base[p] = Len(versions)
    /\ \E c \in Items : versions' = Append(versions, c)
    /\ UNCHANGED base

Next == \E p \in Page : Begin(p) \/ Drop(p) \/ Commit(p)

Spec == Init /\ [][Next]_vars
=============================================================================
