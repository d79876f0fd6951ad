------------------------------ MODULE ApplyPage ------------------------------
(***************************************************************************)
(* The YAML apply page over the tracked apply protocol.                    *)
(*                                                                         *)
(*   frontend/lib/yaml-apply.ts             useYamlApply                   *)
(*   frontend/lib/pending-apply.ts          the ids kept for a retry       *)
(*   frontend/src/islands/YamlApplyPage.tsx the page                       *)
(*   frontend/lib/auth.ts                   who is signed in, as far as known *)
(*   frontend/src/lib/cluster.ts, src/islands/ClusterSwitcher.tsx          *)
(*                                                                         *)
(* The operator previews a text against a cluster, applies it, loses an    *)
(* answer, presses again, reloads, signs in as somebody else.  A page      *)
(* learns who is signed in from /auth/me, late or never, and Apply does    *)
(* not wait for it.  A send goes on at the server after its page gave up   *)
(* on it or is gone.  The server is ChangeReceipts seen from the browser:  *)
(* the same statements on the same table, the bundle applied in one step.  *)
(* The operation id a press mints is the number of the press.              *)
(***************************************************************************)
EXTENDS Naturals, FiniteSets

CONSTANTS
    Text,       \* manifests
    Cluster, Local,
    User,
    MaxPress    \* bound on presses of Apply

ASSUME ApplyPageAssumption == Local \in Cluster /\ MaxPress \in Nat \ {0}

VARIABLES
    user,       \* who is signed in: whom the server takes a send to be from
    storage,    \* whether the tab has a sessionStorage (a private window may not)
    selected,   \* selectedCluster, kept across loads
    page,       \* the signals and refs of one load of the page
    stored,     \* sessionStorage: request key -> operation id
    aged,       \* ids first sent more than PENDING_ATTEMPT_TTL_MS ago
    sends,      \* what each press sent and how far the server got with it
    rows,       \* the change_receipts table
    ran,        \* tracked sends that changed the cluster
    closed      \* history: ids the page may forget (see RetryNeverAppliesTwice)

vars == <<user, storage, selected, page, stored, aged, sends, rows, ran, closed>>

Press == 1 .. MaxPress
Blank == "blank"        \* PLACEHOLDER_YAML, and "none" where a text is optional
NoUser == Blank         \* currentUserId() is null

\* What a press sends, who is signed in and who the page takes that to be; and
\* what an id is kept under.
Request == [text : Text, cluster : Cluster, user : User, me : User \cup {NoUser}]
Key == [text : Text, cluster : Cluster, user : User \cup {NoUser}]

T == INSTANCE ReceiptTable
        WITH Owner <- User, Body <- [text : Text, cluster : Cluster], DocCount <- 1

NoId == 0
NoPin == [text |-> Blank, cluster |-> Local, raced |-> FALSE]
NoPreview == [text |-> Blank, cluster |-> Local, moved |-> FALSE]
NoRequest == [text |-> Blank, cluster |-> Blank, user |-> Blank, me |-> Blank]
NoKey == [text |-> Blank, cluster |-> Blank, user |-> Blank]
NoAttempt == [id |-> NoId, key |-> NoKey]

\* What the server answers.  "lost" is what the page makes of no answer, a bad
\* body or a 5xx that names no reason.
Refusals == {"refused", "pinRefused", "conflict", "reused", "markFailed"}
Definite == {"ok"} \cup Refusals
Answers == Definite \cup {"lost", "inFlight", "insertFailed"}

\* What the page says of the last tracked press: nothing, that it may have
\* applied, that it is still running (both with a link to the receipt), or that
\* it failed, with no receipt to look at.
NoNotice == [id |-> NoId, says |-> "nothing"]

Id == 0 .. MaxPress
PageText == Text \cup {Blank}
Page == [text : PageText,
         pin : [text : PageText, cluster : Cluster, raced : BOOLEAN],
         preview : [text : PageText, cluster : Cluster, moved : BOOLEAN],
         sending : Id, attempt : [id : Id, key : Key \cup {NoKey}],
         me : User \cup {NoUser},
         notice : [id : Id, says : {"nothing", "mayHaveApplied", "inFlight", "noReceipt"}]]
Send == [id : Id, request : Request \cup {NoRequest},
         at : {"unsent", "wire", "inserted", "answered", "gone"}, answer : Answers,
         open : SUBSET Press]

FreshPage == [text |-> Blank, pin |-> NoPin, preview |-> NoPreview,
              sending |-> 0, attempt |-> NoAttempt, me |-> NoUser, notice |-> NoNotice]

Unsent == [id |-> NoId, request |-> NoRequest, at |-> "unsent", answer |-> "lost",
           open |-> {}]

Init ==
    /\ user \in User
    /\ storage \in BOOLEAN
    /\ selected \in Cluster
    /\ page = FreshPage
    /\ stored = [k \in Key |-> NoId]
    /\ aged = {}
    /\ sends = [n \in Press |-> Unsent]
    /\ rows = [i \in Press |-> T!NoRow]
    /\ ran = {}
    /\ closed = {}

serverVars == <<sends, rows, ran>>
attemptVars == <<storage, stored, aged, closed>>

Pinned == page.pin # NoPin
Working == page.sending # 0 \/ page.preview # NoPreview
Idle == ~Working /\ page.text # Blank

-----------------------------------------------------------------------------
(* Who is signed in *)

\* /auth/me answers.  It is asked once in a load of the page; while the answer is
\* out, and for good when it fails, the page knows nobody.
fetchCurrentUser ==
    /\ page.me = NoUser
    /\ page' = [page EXCEPT !.me = user]
    /\ UNCHANGED <<user, selected, serverVars, attemptVars>>

\* Another tab signed in as somebody else.  The next refresh here carries the
\* cookie they share, and the page goes on with a token of u.
refreshSession(u) ==
    /\ u # user
    /\ user' = u
    /\ UNCHANGED <<selected, page, serverVars, attemptVars>>

-----------------------------------------------------------------------------
(* Preview *)

\* The editor is read only while a request is out.  A real edit drops the pin.
Edit(t) ==
    /\ ~Working /\ t # page.text
    /\ page' = [page EXCEPT !.text = t, !.pin = NoPin]
    /\ UNCHANGED <<user, selected, serverVars, attemptVars>>

\* The upload button is disabled while a request is out, but the file chosen
\* is read asynchronously and lands whenever it is ready.
FileLands(t) ==
    /\ page' = [page EXCEPT !.text = t, !.pin = NoPin]
    /\ UNCHANGED <<user, selected, serverVars, attemptVars>>

\* handleValidate: the target is captured when the request is issued.
handleValidate ==
    /\ Idle
    /\ page' = [page EXCEPT !.preview = [text |-> page.text, cluster |-> selected,
                                         moved |-> FALSE],
                            !.pin = NoPin, !.notice = NoNotice]
    /\ UNCHANGED <<user, selected, serverVars, attemptVars>>

\* An answer from before a move is dropped.  The pin does not keep the text; here
\* it does, and whether a file has replaced it since (raced).
PreviewArrives ==
    /\ page.preview # NoPreview
    /\ page' = [page EXCEPT
                  !.preview = NoPreview,
                  !.pin = IF page.preview.moved THEN @
                          ELSE [text |-> page.preview.text, cluster |-> page.preview.cluster,
                                raced |-> page.text # page.preview.text]]
    /\ UNCHANGED <<user, selected, serverVars, attemptVars>>

PreviewFails ==
    /\ page.preview # NoPreview
    /\ page' = [page EXCEPT !.preview = NoPreview]
    /\ UNCHANGED <<user, selected, serverVars, attemptVars>>

-----------------------------------------------------------------------------
(* Apply *)

\* Mutant: the apply goes to the cluster selected now.
targetSelected == selected

\* The cluster of a pinned apply is the one previewed.
target == page.pin.cluster

\* Mutant: the key leaves out who is sending.
requestKeyAnyone(r) == [text |-> r.text, cluster |-> r.cluster, user |-> NoUser]

\* Every input of the request (force, the pinned generation and repairOf are held
\* fixed) and who the page takes its sender to be.
requestKey(r) == [text |-> r.text, cluster |-> r.cluster, user |-> r.me]

\* Mutant: only the mounted hook remembers.
pendingInMemory(k) ==
    IF page.attempt.key = k /\ page.attempt.id \notin aged THEN page.attempt.id ELSE NoId

\* The id a retry continues, from memory or from sessionStorage.
pending(k) ==
    IF page.attempt.key = k /\ page.attempt.id \notin aged THEN page.attempt.id
    ELSE IF stored[k] \notin aged THEN stored[k] ELSE NoId

\* Attempts at request r whose outcome the page was never told; without storage
\* only the one the mounted hook remembers.
Open(r) == {i \in Press \ (closed \cup aged) :
                /\ sends[i].id = i /\ sends[i].request = r
                /\ storage \/ page.attempt.id = i}

\* handleApply up to the await.  The checkbox cannot change while a request is
\* out, so its value is chosen here.
handleApply(n, tracked) ==
    LET r == [text |-> page.text, cluster |-> target, user |-> user, me |-> page.me]
        k == requestKey(r)
        id == IF ~tracked THEN NoId ELSE IF pending(k) = NoId THEN n ELSE pending(k)
    IN  /\ Idle /\ Pinned
        /\ sends[n] = Unsent /\ \A m \in 1 .. n - 1 : sends[m] # Unsent
        /\ sends' = [sends EXCEPT ![n] =
                        [id |-> id, request |-> r, at |-> "wire", answer |-> "lost",
                         open |-> Open(r)]]
        /\ stored' = IF storage THEN [stored EXCEPT ![k] = id] ELSE stored
        /\ closed' = IF tracked THEN closed ELSE closed \cup ({pending(k)} \ {NoId})
        /\ page' = [page EXCEPT !.sending = n, !.notice = NoNotice,
                                !.attempt = IF tracked THEN [id |-> id, key |-> k]
                                            ELSE NoAttempt]
        /\ UNCHANGED <<user, storage, selected, aged, rows, ran>>

\* isIndeterminateApplyFailure, and a 503 that says to keep the id.
Keeps(a) == a \notin Definite

\* No answer, or a store failure that may hide an earlier send of the id.
attemptMayHaveApplied(a) == a \in {"lost", "insertFailed"}

noticeOf(id, a) ==
    IF id = NoId \/ a = "ok" THEN NoNotice
    ELSE [id |-> id, says |-> CASE attemptMayHaveApplied(a) -> "mayHaveApplied"
                                [] a = "inFlight" -> "inFlight"
                                [] OTHER -> "noReceipt"]

\* handleApply after the await, whatever it was answered.
Conclude(a) ==
    LET n == page.sending
        k == requestKey(sends[n].request)
    IN  /\ n # 0
        /\ page' = [page EXCEPT !.sending = 0,
                                !.attempt = IF Keeps(a) THEN @ ELSE NoAttempt,
                                !.notice = noticeOf(sends[n].id, a),
                                !.pin = IF a = "pinRefused" THEN NoPin ELSE @]
        /\ stored' = IF Keeps(a) THEN stored ELSE [stored EXCEPT ![k] = NoId]
        /\ closed' = IF Keeps(a) THEN closed ELSE closed \cup ({sends[n].id} \ {NoId})
        /\ sends' = IF sends[n].at = "answered"
                    THEN [sends EXCEPT ![n].at = "gone", ![n].answer = "lost"]
                    ELSE sends
        /\ UNCHANGED <<user, storage, selected, aged, rows, ran>>

Answered ==
    /\ page.sending # 0
    /\ sends[page.sending].at = "answered"
    /\ Conclude(sends[page.sending].answer)

NoAnswer == Conclude("lost")

-----------------------------------------------------------------------------
(* Leaving the page *)

Leave == page' = FreshPage

Reload ==
    /\ page # FreshPage
    /\ Leave
    /\ UNCHANGED <<user, selected, serverVars, attemptVars>>

\* ClusterSwitcher: a choice reloads the page.
choose(c) ==
    /\ c # selected
    /\ selected' = c
    /\ Leave
    /\ UNCHANGED <<user, serverVars, attemptVars>>

\* The list of clusters was refused: the selection moves under the page.
FallBackToLocal ==
    /\ selected # Local
    /\ selected' = Local
    /\ page' = [page EXCEPT !.preview.moved = page.preview # NoPreview]
    /\ UNCHANGED <<user, serverVars, attemptVars>>

logout(u) ==
    /\ user' = u
    /\ selected' = Local
    /\ stored' = [k \in Key |-> NoId]
    /\ closed' = {i \in Press : sends[i].id = i}
    /\ Leave
    /\ UNCHANGED <<storage, aged, serverVars>>

\* A session that could not be refreshed ends at /login with its storage kept.
SessionEnds(u) ==
    /\ u # user
    /\ user' = u
    /\ Leave
    /\ UNCHANGED <<selected, serverVars, attemptVars>>

-----------------------------------------------------------------------------
(* The server *)

Tracked(n) == sends[n].id # NoId
Row(n) == rows[sends[n].id]
SetRow(n, row) == rows' = [rows EXCEPT ![sends[n].id] = row]
Goto(n, p) == sends' = [sends EXCEPT ![n].at = p]

\* Nobody waits for the answer to a send the page gave up on.
Reply(n, a) ==
    IF page.sending = n
    THEN sends' = [sends EXCEPT ![n].at = "answered", ![n].answer = a]
    ELSE Goto(n, "gone")

browserVars == <<user, selected, page, attemptVars>>

\* The rate limiter, the pin check, the target's access check: nothing stored.
Refuse(n) ==
    /\ sends[n].at = "wire"
    /\ \E a \in {"refused", "pinRefused"} : Reply(n, a)
    /\ UNCHANGED <<browserVars, rows, ran>>

Intent(n) == [owner |-> sends[n].request.user,
              body |-> [text |-> sends[n].request.text, cluster |-> sends[n].request.cluster]]

InsertIntent(n) ==
    /\ sends[n].at = "wire" /\ Tracked(n) /\ ~T!Exists(Row(n))
    /\ SetRow(n, T!Insert(Row(n), Intent(n)))
    /\ Goto(n, "inserted")
    /\ UNCHANGED <<browserVars, ran>>

InsertError(n) ==
    /\ sends[n].at = "wire" /\ Tracked(n)
    /\ SetRow(n, Row(n)) \/ SetRow(n, T!Insert(Row(n), Intent(n)))
    /\ Reply(n, "insertFailed")
    /\ UNCHANGED <<browserVars, ran>>

\* ErrReceiptExists: owner, content, in flight, else the receipt is replayed.
InsertCollides(n) ==
    /\ sends[n].at = "wire" /\ Tracked(n) /\ T!Exists(Row(n))
    /\ Reply(n, CASE Row(n).owner # Intent(n).owner -> "conflict"
                  [] Row(n).body # Intent(n).body -> "reused"
                  [] T!InFlight(Row(n)) -> "inFlight"
                  [] OTHER -> "ok")
    /\ UNCHANGED <<browserVars, rows, ran>>

MarkError(n) ==
    /\ sends[n].at = "inserted"
    /\ SetRow(n, Row(n)) \/ SetRow(n, T!Finalize(Row(n), "failed"))
    /\ Reply(n, "markFailed")
    /\ UNCHANGED <<browserVars, ran>>

\* The engine changes the cluster or every document is refused, and the results
\* are answered whether or not the receipt could be closed; or the process dies
\* before it answers.
RunTracked(n) ==
    LET begun == T!MarkMutationStarted(Row(n))
    IN  /\ sends[n].at = "inserted" /\ T!InFlight(Row(n))
        /\ ran' = ran \cup {n} \/ ran' = ran
        /\ \/ SetRow(n, begun)
           \/ SetRow(n, T!Finalize(begun, IF n \in ran' THEN "applied" ELSE "failed"))
        /\ Reply(n, "ok") \/ Goto(n, "gone")
        /\ UNCHANGED browserVars

RunUntracked(n) ==
    /\ sends[n].at = "wire" /\ ~Tracked(n)
    /\ Reply(n, "ok")
    /\ UNCHANGED <<browserVars, rows, ran>>

\* The send never arrives, or the process serving it dies.
Lose(n) ==
    /\ sends[n].at \notin {"unsent", "answered", "gone"}
    /\ Goto(n, "gone")
    /\ UNCHANGED <<browserVars, rows, ran>>

Serve(n) ==
    \/ Refuse(n) \/ RunUntracked(n)
    \/ InsertIntent(n) \/ InsertError(n) \/ InsertCollides(n)
    \/ MarkError(n) \/ RunTracked(n)
    \/ Lose(n)

-----------------------------------------------------------------------------
(* Time *)

\* Ten minutes after its first send an id is no longer continued.
AttemptAges(i) ==
    /\ sends[i].id = i /\ i \notin aged
    /\ aged' = aged \cup {i}
    /\ UNCHANGED <<user, storage, selected, page, stored, closed, serverVars>>

\* What happens to the page before a next press; after the last one there is
\* nothing left it could change.
Browse ==
    /\ sends[MaxPress] = Unsent
    /\ \/ fetchCurrentUser
       \/ \E t \in Text : Edit(t) \/ FileLands(t)
       \/ handleValidate \/ PreviewArrives \/ PreviewFails
       \/ Reload \/ FallBackToLocal
       \/ \E c \in Cluster : choose(c)
       \/ \E u \in User : logout(u) \/ SessionEnds(u) \/ refreshSession(u)
       \/ \E i \in Press : AttemptAges(i)

Next ==
    \/ Browse
    \/ \E n \in Press, tracked \in BOOLEAN : handleApply(n, tracked)
    \/ Answered \/ NoAnswer
    \/ \E n \in Press : Serve(n)

Spec == Init /\ [][Next]_vars

-----------------------------------------------------------------------------
(* Properties *)

\* Every variable keeps its type.
TypeOK ==
    /\ user \in User /\ storage \in BOOLEAN /\ selected \in Cluster
    /\ page \in Page
    /\ stored \in [Key -> Id]
    /\ sends \in [Press -> Send]
    /\ rows \in [Press -> T!Row \cup {T!NoRow}]
    /\ aged \subseteq Press /\ ran \subseteq Press /\ closed \subseteq Press

\* A retry of an attempt whose outcome the page was never told changes the
\* cluster at most once together with it, however late, reloaded or retyped it is.
\* It is a retry when the page knows its user as it did at the first press: with
\* /auth/me answered only in between, or storage unavailable and the page left,
\* the second press mints an id of its own and both may apply.  An attempt is over
\* (closed) when the page was given a definite answer about its id, the same
\* request was applied without tracking, or the operator logged out; and after ten
\* minutes.
RetryNeverAppliesTwice ==
    \A m, n \in ran :
        sends[m].id \in sends[n].open => m = n

\* Some send of the id was made by a page that did not know its user (/auth/me
\* pending or failed) or took him for another (the cookie replaced in another tab).
Mistaken(i) == \E n \in Press : sends[n].id = i /\ sends[n].request.me # sends[n].request.user

\* "an id never travels with different content", whatever is edited, switched or
\* reloaded between two sends of it; nor "to a different identity", as long as the
\* pages that sent it knew theirs: then its receipt is its sender's, and nobody is
\* answered that the operation is somebody else's.
IdKeepsItsRequest ==
    \A n \in Press : Tracked(n) =>
        LET i == sends[n].id
            r == sends[n].request
            minted == sends[i].request
        IN  /\ r.text = minted.text /\ r.cluster = minted.cluster
            /\ sends[n].answer # "reused"
            /\ \/ Mistaken(i)
               \/ /\ r.user = minted.user /\ sends[n].answer # "conflict"
                  /\ T!Exists(rows[i]) => rows[i].owner = r.user

\* What is sent is what was previewed: the cluster always, whatever has been
\* selected since, and the text unless a file landed while the preview was out.
AppliedWasPreviewed ==
    [][\A n \in Press : sends[n] = Unsent /\ sends'[n] # Unsent =>
          /\ sends'[n].request.cluster = page.pin.cluster
          /\ sends'[n].request.text = page.pin.text \/ page.pin.raced]_vars

\* "Whether a failed tracked apply may have changed the cluster under its
\* operation id, so its receipt is worth pointing at": after a failure, a change
\* made under the id is never denied.
MayHaveAppliedIsShown ==
    page.notice.says = "noReceipt" => \A n \in ran : sends[n].id # page.notice.id
==============================================================================
