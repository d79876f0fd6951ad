--------------------------- MODULE ApplyPageProofs ---------------------------
(***************************************************************************)
(* Proofs about ApplyPage for any texts, clusters, users and number of     *)
(* presses: what is applied was previewed, an operation id keeps its       *)
(* request, and a retry does not apply a second time.                      *)
(***************************************************************************)
EXTENDS ApplyPage, TLAPS

-----------------------------------------------------------------------------
(* The inductive invariant *)

\* A pinned page shows the text that was previewed, or knows of the race.
PinIsPreviewed == page.pin # NoPin => page.text = page.pin.text \/ page.pin.raced

\* A send is of a request, and all sends of an id have one key.
SendsKeepRequest ==
    \A n \in Press :
        /\ sends[n].at = "unsent" => sends[n] = Unsent
        /\ sends[n].at # "unsent" => sends[n].request \in Request
        /\ Tracked(n) => /\ sends[sends[n].id].id = sends[n].id
                         /\ requestKey(sends[sends[n].id].request) = requestKey(sends[n].request)

\* The browser keeps an id under the key it was minted for, and what is in memory
\* or awaited is in sessionStorage, if there is one.
MintedFor(i, k) == sends[i].id = i /\ requestKey(sends[i].request) = k
MintedNext(i, k) == sends'[i].id = i /\ requestKey(sends'[i].request) = k

StoredIsMinted == \A k \in Key : stored[k] # NoId => MintedFor(stored[k], k)

AttemptIsStored ==
    \/ page.attempt = NoAttempt
    \/ /\ page.attempt.key \in Key /\ page.attempt.id # NoId
       /\ MintedFor(page.attempt.id, page.attempt.key)
       /\ storage => stored[page.attempt.key] = page.attempt.id

SendingIsStored ==
    page.sending # 0 =>
        /\ sends[page.sending].at # "unsent"
        /\ storage => stored[requestKey(sends[page.sending].request)] = sends[page.sending].id

\* An attempt whose outcome the page was never told is the one a retry finds.
OpenIsStored ==
    storage => \A i \in Press \ (closed \cup aged) :
                    sends[i].id = i => stored[requestKey(sends[i].request)] = i

OpenIsContinued == \A n \in Press : Tracked(n) => sends[n].open \subseteq {sends[n].id}

\* A row has the content its id was minted for, and the user of some send of it.
RowsKeepRequest ==
    \A i \in Press : T!Exists(rows[i]) =>
        /\ sends[i].id = i /\ rows[i].body = Intent(i).body
        /\ \E m \in Press : sends[m].id = i /\ rows[i].owner = sends[m].request.user

\* No send meets other content under its id, and another's row only if some page
\* did not know its user.
FairAnswers(n) ==
    {a \in Answers : a # "reused" /\ (a = "conflict" => Tracked(n) /\ Mistaken(sends[n].id))}

AnswersFair == \A n \in Press : sends[n].answer \in FairAnswers(n)

\* The send that inserted the row is the one that may change the cluster.
Claims(n) == sends[n].at = "inserted" \/ n \in ran

ClaimsBacked == \A n \in Press : Claims(n) => Tracked(n) /\ T!Exists(Row(n))

ClaimsUnique ==
    \A m, n \in Press : Claims(m) /\ Claims(n) /\ sends[m].id = sends[n].id => m = n

BrowserInv == PinIsPreviewed /\ StoredIsMinted /\ AttemptIsStored /\ SendingIsStored
              /\ OpenIsStored

SendInv == SendsKeepRequest /\ OpenIsContinued /\ AnswersFair

RowInv == RowsKeepRequest /\ ClaimsBacked /\ ClaimsUnique

ApplyInv == TypeOK /\ BrowserInv /\ SendInv /\ RowInv

-----------------------------------------------------------------------------
(* Browsing: the page's text, pin, preview and notice; no send is made *)

\* The page keeps the send it waits for and the id it would continue.
KeepsAttempt == page'.sending = page.sending /\ page'.attempt = page.attempt

\* What browsing may do to the page.
BrowsesOn ==
    /\ page' \in Page /\ KeepsAttempt /\ PinIsPreviewed'
    /\ user' \in User /\ selected' \in Cluster
    /\ UNCHANGED <<serverVars, attemptVars>>

LEMMA BrowsingGood ==
    ASSUME TypeOK, PinIsPreviewed,
           \/ \E t \in Text : Edit(t) \/ FileLands(t)
           \/ handleValidate \/ PreviewArrives \/ PreviewFails \/ FallBackToLocal
           \/ fetchCurrentUser \/ \E u \in User : refreshSession(u)
    PROVE  BrowsesOn
<1>1. page \in Page /\ Local \in Cluster /\ selected \in Cluster /\ user \in User
  BY ApplyPageAssumption DEF TypeOK
<1>2. /\ NoPin \in [text : PageText, cluster : Cluster, raced : BOOLEAN]
      /\ NoPreview \in [text : PageText, cluster : Cluster, moved : BOOLEAN]
      /\ NoNotice \in [id : Id, says : {"nothing", "mayHaveApplied", "inFlight", "noReceipt"}]
  BY <1>1, ApplyPageAssumption DEF NoPin, NoPreview, NoNotice, PageText, Id, NoId
<1>3. ASSUME NEW t \in Text, Edit(t) \/ FileLands(t) PROVE BrowsesOn
  <2>1. page' = [page EXCEPT !.text = t, !.pin = NoPin]
        /\ UNCHANGED <<user, selected, serverVars, attemptVars>>
    BY <1>3 DEF Edit, FileLands
  <2>2. page' \in Page /\ KeepsAttempt /\ page'.pin = NoPin
    BY <1>1, <1>2, <2>1 DEF Page, PageText, KeepsAttempt
  <2> QED BY <1>1, <2>1, <2>2 DEF BrowsesOn, PinIsPreviewed
<1>4. CASE handleValidate
  <2> DEFINE pv == [text |-> page.text, cluster |-> selected, moved |-> FALSE]
  <2>1. page' = [page EXCEPT !.preview = pv, !.pin = NoPin, !.notice = NoNotice]
        /\ UNCHANGED <<user, selected, serverVars, attemptVars>>
    BY <1>4 DEF handleValidate
  <2>2. pv \in [text : PageText, cluster : Cluster, moved : BOOLEAN]
    BY <1>1 DEF Page
  <2> HIDE DEF pv
  <2>3. page' \in Page /\ KeepsAttempt /\ page'.pin = NoPin
    BY <1>1, <1>2, <2>1, <2>2 DEF Page, KeepsAttempt
  <2> QED BY <1>1, <2>1, <2>3 DEF BrowsesOn, PinIsPreviewed
<1>5. CASE PreviewArrives
  <2> DEFINE pn == IF page.preview.moved THEN page.pin
                   ELSE [text |-> page.preview.text, cluster |-> page.preview.cluster,
                         raced |-> page.text # page.preview.text]
  <2>1. page' = [page EXCEPT !.preview = NoPreview, !.pin = pn]
        /\ UNCHANGED <<user, selected, serverVars, attemptVars>>
    BY <1>5 DEF PreviewArrives
  <2>2. /\ pn \in [text : PageText, cluster : Cluster, raced : BOOLEAN]
        /\ pn # NoPin => page.text = pn.text \/ pn.raced
    BY <1>1 DEF Page, PinIsPreviewed
  <2> HIDE DEF pn
  <2>3. page' \in Page /\ KeepsAttempt /\ page'.pin = pn /\ page'.text = page.text
    BY <1>1, <1>2, <2>1, <2>2 DEF Page, KeepsAttempt
  <2> QED BY <1>1, <2>1, <2>2, <2>3 DEF BrowsesOn, PinIsPreviewed
<1>6. CASE PreviewFails
  <2>1. page' = [page EXCEPT !.preview = NoPreview]
        /\ UNCHANGED <<user, selected, serverVars, attemptVars>>
    BY <1>6 DEF PreviewFails
  <2>2. page' \in Page /\ KeepsAttempt /\ page'.pin = page.pin /\ page'.text = page.text
    BY <1>1, <1>2, <2>1 DEF Page, KeepsAttempt
  <2> QED BY <1>1, <2>1, <2>2 DEF BrowsesOn, PinIsPreviewed
<1>7. CASE FallBackToLocal
  <2>1. page' = [page EXCEPT !.preview = page'.preview]
        /\ page'.preview = [page.preview EXCEPT !.moved = page.preview # NoPreview]
        /\ selected' = Local /\ UNCHANGED <<user, serverVars, attemptVars>>
    BY <1>1, <1>7 DEF FallBackToLocal, Page
  <2>2. page'.preview \in [text : PageText, cluster : Cluster, moved : BOOLEAN]
    BY <1>1, <2>1 DEF Page
  <2>3. page' \in Page /\ KeepsAttempt /\ page'.pin = page.pin /\ page'.text = page.text
    BY <1>1, <2>1, <2>2 DEF Page, KeepsAttempt
  <2> QED BY <1>1, <2>1, <2>3 DEF BrowsesOn, PinIsPreviewed
<1>8. CASE fetchCurrentUser
  <2>1. page' = [page EXCEPT !.me = user] /\ UNCHANGED <<user, selected, serverVars, attemptVars>>
    BY <1>8 DEF fetchCurrentUser
  <2>2. page' \in Page /\ KeepsAttempt /\ page'.pin = page.pin /\ page'.text = page.text
    BY <1>1, <2>1 DEF Page, KeepsAttempt
  <2> QED BY <1>1, <2>1, <2>2 DEF BrowsesOn, PinIsPreviewed
<1>9. ASSUME NEW u \in User, refreshSession(u) PROVE BrowsesOn
  BY <1>1, <1>9 DEF refreshSession, BrowsesOn, PinIsPreviewed, KeepsAttempt
<1>10. QED BY <1>3, <1>4, <1>5, <1>6, <1>7, <1>8, <1>9

\* A new load of the page waits for nothing and continues nothing by itself.
LEMMA FreshIsGood ==
    FreshPage \in Page /\ FreshPage.sending = 0 /\ FreshPage.attempt = NoAttempt
    /\ FreshPage.pin = NoPin
<1>1. /\ NoPin \in [text : PageText, cluster : Cluster, raced : BOOLEAN]
      /\ NoPreview \in [text : PageText, cluster : Cluster, moved : BOOLEAN]
      /\ NoNotice \in [id : Id, says : {"nothing", "mayHaveApplied", "inFlight", "noReceipt"}]
      /\ NoAttempt \in [id : Id, key : Key \cup {NoKey}]
      /\ 0 \in Id /\ Blank \in PageText /\ NoUser \in User \cup {NoUser}
  BY ApplyPageAssumption DEF NoPin, NoPreview, NoNotice, NoAttempt, PageText, Id, NoId
<1>2. FreshPage \in Page
  BY <1>1 DEF FreshPage, Page
<1> QED BY <1>2 DEF FreshPage

\* Growing old only takes an attempt out of the open ones.
LEMMA AgesGood ==
    ASSUME ApplyInv, NEW i \in Press, AttemptAges(i)
    PROVE  ApplyInv'
<1> USE DEF ApplyInv, BrowserInv, SendInv, RowInv
<1>1. /\ aged' = aged \cup {i}
      /\ UNCHANGED <<user, storage, selected, page, stored, closed, serverVars>>
  BY DEF AttemptAges
<1>2. TypeOK'
  BY <1>1 DEF TypeOK, serverVars
<1>3. OpenIsStored'
  BY <1>1 DEF OpenIsStored, serverVars
<1>4. SendInv' /\ RowInv'
  BY <1>1 DEF serverVars, SendsKeepRequest, OpenIsContinued, AnswersFair, RowsKeepRequest,
              ClaimsBacked, ClaimsUnique, Claims, Tracked, Row, FairAnswers, Mistaken, Intent
<1>5. PinIsPreviewed' /\ StoredIsMinted' /\ AttemptIsStored' /\ SendingIsStored'
  BY <1>1 DEF serverVars, PinIsPreviewed, StoredIsMinted, AttemptIsStored, SendingIsStored,
              MintedFor
<1> QED BY <1>2, <1>3, <1>4, <1>5

\* Nothing the server or the history knows changes while the operator browses.
LEMMA BrowseGood ==
    ASSUME ApplyInv, Browse
    PROVE  ApplyInv'
<1> USE DEF ApplyInv, BrowserInv, SendInv, RowInv
<1>1. ASSUME UNCHANGED <<serverVars>>
      PROVE  SendInv' /\ RowInv'
  BY <1>1 DEF serverVars, SendsKeepRequest, OpenIsContinued, AnswersFair, RowsKeepRequest,
              ClaimsBacked, ClaimsUnique, Claims, Tracked, Row, FairAnswers, Mistaken, Intent
<1>2. CASE \/ \E t \in Text : Edit(t) \/ FileLands(t)
           \/ handleValidate \/ PreviewArrives \/ PreviewFails \/ FallBackToLocal
           \/ fetchCurrentUser \/ \E u \in User : refreshSession(u)
  <2>1. BrowsesOn
    BY <1>2, BrowsingGood
  <2>2. TypeOK'
    BY <2>1 DEF BrowsesOn, TypeOK, serverVars, attemptVars
  <2>3. BrowserInv'
    BY <2>1 DEF BrowsesOn, KeepsAttempt, StoredIsMinted, AttemptIsStored, SendingIsStored,
                OpenIsStored, MintedFor, serverVars, attemptVars
  <2> QED BY <1>1, <2>1, <2>2, <2>3 DEF BrowsesOn
<1>3. ASSUME page' = FreshPage, UNCHANGED <<serverVars, attemptVars>>, user' \in User,
             selected' \in Cluster
      PROVE  ApplyInv'
  <2>1. TypeOK'
    BY <1>3, FreshIsGood DEF TypeOK, serverVars, attemptVars
  <2>2. BrowserInv'
    BY <1>3, FreshIsGood DEF PinIsPreviewed, StoredIsMinted, AttemptIsStored, SendingIsStored,
                OpenIsStored, MintedFor, serverVars, attemptVars
  <2> QED BY <1>1, <1>3, <2>1, <2>2
<1>4. CASE Reload \/ (\E c \in Cluster : choose(c)) \/ (\E u \in User : SessionEnds(u))
  BY <1>3, <1>4 DEF TypeOK, Reload, choose, SessionEnds, Leave
<1>5. ASSUME NEW u \in User, logout(u) PROVE ApplyInv'
  <2>1. /\ page' = FreshPage /\ user' = u /\ selected' = Local /\ UNCHANGED <<storage, aged, serverVars>>
        /\ stored' = [k \in Key |-> NoId] /\ closed' = {i \in Press : sends[i].id = i}
    BY <1>5 DEF logout, Leave
  <2>2. TypeOK'
    BY <2>1, FreshIsGood, ApplyPageAssumption DEF TypeOK, serverVars, Id, NoId
  <2>3. BrowserInv'
    BY <2>1, FreshIsGood DEF PinIsPreviewed, StoredIsMinted, AttemptIsStored, SendingIsStored,
                OpenIsStored, MintedFor, serverVars
  <2> QED BY <1>1, <2>1, <2>2, <2>3
<1>6. ASSUME NEW i \in Press, AttemptAges(i) PROVE ApplyInv'
  BY <1>6, AgesGood
<1>7. QED BY <1>2, <1>4, <1>5, <1>6 DEF Browse

-----------------------------------------------------------------------------
(* Pressing Apply *)

\* What a retry continues was minted for its key, and with sessionStorage it is
\* the stored id unless that is too old.
LEMMA PendingIsMinted ==
    ASSUME TypeOK, StoredIsMinted, AttemptIsStored, NEW k \in Key, k.text # Blank
    PROVE  /\ pending(k) \in Id
           /\ pending(k) # NoId => MintedFor(pending(k), k)
           /\ storage => pending(k) = IF stored[k] \in aged THEN NoId ELSE stored[k]
<1>1. NoKey # k /\ NoId \in Id /\ stored[k] \in Id /\ page.attempt.id \in Id
  <2>1. NoKey.text = Blank
    BY DEF NoKey
  <2>2. NoId \in Id
    BY ApplyPageAssumption DEF NoId, Id
  <2>3. stored[k] \in Id /\ page.attempt.id \in Id
    BY DEF TypeOK, Page
  <2> QED BY <2>1, <2>2, <2>3
<1>2. page.attempt = NoAttempt => page.attempt.key # k
  BY <1>1 DEF NoAttempt
<1>3. \/ page.attempt.key = k /\ page.attempt.id \notin aged /\ pending(k) = page.attempt.id
      \/ /\ page.attempt.key = k => page.attempt.id \in aged
         /\ pending(k) = IF stored[k] \in aged THEN NoId ELSE stored[k]
  BY DEF pending
<1>4. CASE page.attempt.key = k /\ page.attempt.id \notin aged /\ pending(k) = page.attempt.id
  BY <1>1, <1>2, <1>4 DEF AttemptIsStored
<1>5. CASE pending(k) = IF stored[k] \in aged THEN NoId ELSE stored[k]
  BY <1>1, <1>5 DEF StoredIsMinted
<1> QED BY <1>3, <1>4, <1>5

\* An open attempt of the request is the one that is continued.
LEMMA OpenIsPending ==
    ASSUME ApplyInv, NEW r \in Request, r.text # Blank, NEW i \in Open(r)
    PROVE  pending(requestKey(r)) = i /\ i # NoId
<1> USE DEF ApplyInv, BrowserInv
<1> DEFINE k == requestKey(r)
<1>1. /\ i \in Press /\ i \notin aged /\ i \notin closed
      /\ sends[i].id = i /\ sends[i].request = r
      /\ storage \/ page.attempt.id = i
  BY DEF Open
<1>2. i # NoId
  BY <1>1 DEF Press, NoId
<1>3. k \in Key /\ k.text # Blank
  BY DEF requestKey, Request, Key
<1>4. CASE storage
  <2>1. stored[k] = i
    BY <1>1, <1>4 DEF OpenIsStored
  <2> QED BY <1>1, <1>2, <1>3, <1>4, <2>1, PendingIsMinted
<1>5. CASE page.attempt.id = i
  <2>1. page.attempt.key = k
    BY <1>1, <1>2, <1>5 DEF AttemptIsStored, NoAttempt, MintedFor
  <2> QED BY <1>1, <1>2, <1>5, <2>1 DEF pending
<1> QED BY <1>1, <1>4, <1>5

LEMMA handleApplyGood ==
    ASSUME ApplyInv, NEW n \in Press, NEW tracked \in BOOLEAN, handleApply(n, tracked)
    PROVE  ApplyInv'
<1> USE DEF ApplyInv, BrowserInv, SendInv, RowInv
<1> DEFINE r == [text |-> page.text, cluster |-> target, user |-> user, me |-> page.me]
           k == requestKey(r)
           id == IF ~tracked THEN NoId ELSE IF pending(k) = NoId THEN n ELSE pending(k)
           open == Open(r)
           s == [id |-> id, request |-> r, at |-> "wire", answer |-> "lost", open |-> open]
           at == IF tracked THEN [id |-> id, key |-> k] ELSE NoAttempt
           over == {pending(k)} \ {NoId}
<1>1. /\ sends[n] = Unsent /\ sends' = [sends EXCEPT ![n] = s]
      /\ stored' = IF storage THEN [stored EXCEPT ![k] = id] ELSE stored
      /\ closed' = IF tracked THEN closed ELSE closed \cup over
      /\ page' = [page EXCEPT !.sending = n, !.notice = NoNotice, !.attempt = at]
      /\ UNCHANGED <<user, storage, selected, aged, rows, ran>>
  BY DEF handleApply
<1>2. r \in Request /\ r.text # Blank /\ k \in Key /\ k.text # Blank
  <2>1. page.text \in Text /\ page.pin.cluster \in Cluster /\ page.text # Blank
        /\ page.me \in User \cup {NoUser} /\ user \in User
    BY DEF TypeOK, Page, PageText, handleApply, Idle
  <2>2. r \in Request /\ r.text = page.text
    BY <2>1 DEF Request, target
  <2>3. k = [text |-> r.text, cluster |-> r.cluster, user |-> r.me]
    BY DEF requestKey
  <2> HIDE DEF r, k
  <2> QED BY <2>1, <2>2, <2>3 DEF Request, Key
<1>3. /\ pending(k) \in Id
      /\ pending(k) # NoId => MintedFor(pending(k), k)
      /\ storage => pending(k) = IF stored[k] \in aged THEN NoId ELSE stored[k]
  BY <1>2, PendingIsMinted
<1>4. stored[k] \in Id /\ n \in Id /\ NoId \in Id /\ n # NoId /\ 0 \notin Press
      /\ \A i \in Id : i # NoId => i \in Press
  BY <1>2, ApplyPageAssumption DEF TypeOK, Id, Press, NoId
<1>5. /\ id \in Id /\ open \subseteq Press /\ over \subseteq Press
      /\ tracked <=> id # NoId
      /\ id # NoId /\ id # n => MintedFor(id, k)
  BY <1>3, <1>4 DEF Open
<1>6. tracked => open \subseteq {id}
  BY <1>2, OpenIsPending
<1>7. /\ s \in Send /\ s.id = id /\ s.request = r /\ s.at = "wire" /\ s.answer = "lost"
      /\ s.open = open
  BY <1>2, <1>5 DEF Send, Answers
<1>8. /\ at \in [id : Id, key : Key \cup {NoKey}]
      /\ at = NoAttempt \/ (at.key = k /\ at.id = id /\ id # NoId)
  BY <1>2, <1>4, <1>5 DEF NoAttempt
<1>9. tracked => (id = n /\ pending(k) = NoId) \/ id = pending(k)
  OBVIOUS
<1>10. k = requestKey(r)
  OBVIOUS
<1>11. \A i \in Press : i \in over <=> pending(k) = i
  BY <1>4 DEF NoId
<1> HIDE DEF r, k, id, open, s, at, over
<1>12. TypeOK'
  <2>1. page' \in Page
    <3>1. NoNotice \in [id : Id, says : {"nothing", "mayHaveApplied", "inFlight", "noReceipt"}]
      BY <1>4 DEF NoNotice
    <3> QED BY <1>1, <1>4, <1>8, <3>1 DEF TypeOK, Page
  <2>2. sends' \in [Press -> Send] /\ stored' \in [Key -> Id]
    BY <1>1, <1>2, <1>5, <1>7 DEF TypeOK
  <2>3. closed' \subseteq Press
    BY <1>1, <1>5 DEF TypeOK
  <2> QED BY <1>1, <2>1, <2>2, <2>3 DEF TypeOK
<1>13. /\ page'.sending = n /\ page'.attempt = at /\ page'.text = page.text
       /\ page'.pin = page.pin
  BY <1>1 DEF TypeOK, Page
<1>14. \A m \in Press : sends'[m] = IF m = n THEN s ELSE sends[m]
  BY <1>1 DEF TypeOK
<1>15. \A q \in Key : stored'[q] = IF storage /\ q = k THEN id ELSE stored[q]
  BY <1>1 DEF TypeOK
<1>16. sends[n].id = NoId /\ sends[n].at = "unsent" /\ sends[n].answer = "lost"
  BY <1>1 DEF Unsent
<1>17. \A m \in Press : Tracked(m) => sends[m].id \in Press /\ sends[m].id # n /\ m # n
  BY <1>4, <1>16 DEF TypeOK, Send, Tracked, SendsKeepRequest
<1>18. \A i \in Id : \A q : i # NoId /\ MintedFor(i, q) => i \in Press /\ i # n /\ MintedNext(i, q)
  <2> SUFFICES ASSUME NEW i \in Id, NEW q, i # NoId, MintedFor(i, q)
               PROVE  i \in Press /\ i # n /\ MintedNext(i, q)
    OBVIOUS
  <2>1. i \in Press /\ i # n
    BY <1>4, <1>16 DEF MintedFor
  <2>2. sends'[i] = sends[i]
    BY <1>14, <2>1
  <2> QED BY <2>1, <2>2 DEF MintedFor, MintedNext
<1>19. id # NoId => id \in Press /\ MintedNext(id, k)
  <2>1. CASE id = n
    <3>1. sends'[n].id = id /\ sends'[n].request = r
      BY <1>7, <1>14
    <3> QED BY <1>10, <2>1, <3>1 DEF MintedNext
  <2> QED BY <1>5, <1>18, <2>1
<1>20. SendsKeepRequest'
  <2>1. SUFFICES ASSUME NEW m \in Press
                 PROVE  /\ sends'[m].at = "unsent" => sends'[m] = Unsent
                        /\ sends'[m].at # "unsent" => sends'[m].request \in Request
                        /\ sends'[m].id # NoId =>
                              MintedNext(sends'[m].id, requestKey(sends'[m].request))
    BY DEF SendsKeepRequest, Tracked, MintedNext
  <2>2. CASE m = n
    <3>1. sends'[m].id = id /\ sends'[m].request = r /\ sends'[m].at = "wire"
      BY <1>7, <1>14, <2>2
    <3>2. requestKey(sends'[m].request) = k
      BY <1>10, <3>1
    <3> QED BY <1>2, <1>19, <3>1, <3>2
  <2>3. CASE m # n
    <3>1. sends'[m] = sends[m]
      BY <1>14, <2>3
    <3>2. Tracked(m) => MintedFor(sends[m].id, requestKey(sends[m].request))
      BY DEF SendsKeepRequest, MintedFor
    <3>3. sends[m].id \in Id
      BY DEF TypeOK, Send
    <3>4. Tracked(m) => MintedNext(sends'[m].id, requestKey(sends'[m].request))
      BY <1>18, <3>1, <3>2, <3>3 DEF Tracked
    <3> QED BY <3>1, <3>4 DEF SendsKeepRequest, Tracked
  <2> QED BY <2>2, <2>3
<1>21. OpenIsContinued'
  BY <1>5, <1>6, <1>7, <1>14 DEF OpenIsContinued, Tracked
<1>22. AnswersFair'
  <2>1. \A i : i # NoId /\ Mistaken(i) => Mistaken(i)'
    BY <1>14, <1>16 DEF Mistaken
  <2>2. \A m \in Press : sends[m].answer = "conflict" => sends[m].id # NoId /\ m # n
    BY <1>17 DEF AnswersFair, FairAnswers, Tracked
  <2>3. SUFFICES ASSUME NEW m \in Press PROVE sends'[m].answer \in FairAnswers(m)'
    BY DEF AnswersFair
  <2>4. CASE m = n
    BY <1>7, <1>14, <2>4 DEF FairAnswers, Answers
  <2>5. CASE m # n
    BY <1>14, <2>1, <2>2, <2>5 DEF AnswersFair, FairAnswers, Tracked
  <2> QED BY <2>4, <2>5
<1>23. PinIsPreviewed' /\ SendingIsStored'
  <2>1. sends'[n].id = id /\ sends'[n].request = r /\ sends'[n].at = "wire"
    BY <1>7, <1>14
  <2> QED BY <1>1, <1>2, <1>10, <1>13, <1>15, <2>1 DEF PinIsPreviewed, SendingIsStored
<1>24. AttemptIsStored'
  BY <1>1, <1>2, <1>8, <1>13, <1>15, <1>19 DEF AttemptIsStored, MintedFor, MintedNext
<1>25. StoredIsMinted'
  <2>1. \A q \in Key : stored[q] \in Id
    BY DEF TypeOK
  <2>2. SUFFICES ASSUME NEW q \in Key, stored'[q] # NoId PROVE MintedNext(stored'[q], q)
    BY DEF StoredIsMinted, MintedFor, MintedNext
  <2>3. CASE storage /\ q = k
    BY <1>15, <1>19, <2>2, <2>3
  <2>4. CASE ~(storage /\ q = k)
    BY <1>15, <1>18, <2>1, <2>2, <2>4 DEF StoredIsMinted
  <2> QED BY <2>3, <2>4
<1>26. OpenIsStored'
  <2>1. SUFFICES ASSUME storage, NEW i \in Press \ (closed' \cup aged), sends'[i].id = i
                 PROVE  stored'[requestKey(sends'[i].request)] = i
    BY <1>1 DEF OpenIsStored
  <2>2. CASE i = n
    <3>1. sends'[i].id = id /\ sends'[i].request = r
      BY <1>7, <1>14, <2>2
    <3> QED BY <1>2, <1>10, <1>15, <2>1, <3>1
  <2>3. CASE i # n
    <3>1. sends'[i] = sends[i] /\ i \notin closed
      BY <1>1, <1>14, <2>1, <2>3
    <3> DEFINE q == requestKey(sends[i].request)
    <3>2. stored[q] = i
      BY <2>1, <3>1 DEF OpenIsStored
    <3>3. q \in Key
      <4>1. sends[i].at # "unsent"
        BY <1>4, <2>1, <3>1 DEF SendsKeepRequest, Unsent, NoId
      <4>2. sends[i].request \in Request
        BY <4>1 DEF SendsKeepRequest
      <4> QED BY <4>2 DEF requestKey, Request, Key
    <3> HIDE DEF q
    <3>4. CASE q = k
      <4>1. pending(k) = i
        BY <1>3, <2>1, <3>2, <3>4
      <4>2. tracked
        BY <1>1, <1>11, <2>1, <4>1
      <4>3. id = i
        BY <1>4, <1>9, <4>1, <4>2 DEF NoId
      <4>4. stored'[q] = i
        BY <1>2, <1>15, <2>1, <3>4, <4>3
      <4> QED BY <3>1, <4>4 DEF q
    <3>5. CASE q # k
      <4>1. stored'[q] = i
        BY <1>15, <3>2, <3>3, <3>5
      <4> QED BY <3>1, <4>1 DEF q
    <3> QED BY <3>4, <3>5
  <2> QED BY <2>2, <2>3
<1>27. RowsKeepRequest'
  <2>1. SUFFICES ASSUME NEW i \in Press, T!Exists(rows[i])
                 PROVE  /\ sends'[i].id = i /\ rows[i].body = Intent(i)'.body
                        /\ \E m \in Press : sends'[m].id = i /\ rows[i].owner = sends'[m].request.user
    BY <1>1 DEF RowsKeepRequest
  <2>2. /\ sends[i].id = i /\ rows[i].body = Intent(i).body
        /\ \E m \in Press : sends[m].id = i /\ rows[i].owner = sends[m].request.user
    BY <2>1 DEF RowsKeepRequest
  <2>3. i # n /\ i # NoId
    BY <1>4, <1>16, <2>2 DEF NoId
  <2>4. sends'[i] = sends[i]
    BY <1>14, <2>3
  <2>5. PICK m \in Press : sends[m].id = i /\ rows[i].owner = sends[m].request.user
    BY <2>2
  <2>6. sends'[m] = sends[m]
    BY <1>14, <1>16, <2>3, <2>5
  <2> QED BY <2>2, <2>4, <2>5, <2>6 DEF Intent
<1>28. \A m \in Press : Claims(m)' <=> Claims(m) /\ m # n
  <2>1. n \notin ran
    BY <1>16 DEF ClaimsBacked, Claims, Tracked
  <2> QED BY <1>1, <1>7, <1>14, <2>1 DEF Claims
<1>29. ClaimsBacked' /\ ClaimsUnique'
  BY <1>1, <1>14, <1>17, <1>28 DEF ClaimsBacked, ClaimsUnique, Tracked, Row
<1>30. QED BY <1>12, <1>20, <1>21, <1>22, <1>23, <1>24, <1>25, <1>26, <1>27, <1>29

\* What the page makes of an answer: it forgets the id exactly when it was told
\* the outcome, so an attempt that stays open stays stored.
LEMMA ConcludeGood ==
    ASSUME ApplyInv, NEW a \in Answers, Conclude(a)
    PROVE  ApplyInv'
<1> USE DEF ApplyInv, BrowserInv, SendInv, RowInv
<1> DEFINE n == page.sending
           k == requestKey(sends[n].request)
           s == [sends[n] EXCEPT !.at = "gone", !.answer = "lost"]
           pn == IF a = "pinRefused" THEN NoPin ELSE page.pin
           at == IF Keeps(a) THEN page.attempt ELSE NoAttempt
           nt == noticeOf(sends[n].id, a)
<1>1. /\ n # 0
      /\ page' = [page EXCEPT !.sending = 0, !.attempt = at, !.notice = nt, !.pin = pn]
      /\ stored' = IF Keeps(a) THEN stored ELSE [stored EXCEPT ![k] = NoId]
      /\ closed' = IF Keeps(a) THEN closed ELSE closed \cup ({sends[n].id} \ {NoId})
      /\ sends' = sends \/ sends' = [sends EXCEPT ![n].at = "gone", ![n].answer = "lost"]
      /\ UNCHANGED <<user, storage, selected, aged, rows, ran>>
  BY DEF Conclude
<1>2. n \in Press /\ sends[n] \in Send /\ 0 \notin Press /\ 0 \in Id
      /\ \A i \in Id : i # NoId => i \in Press
  BY <1>1, ApplyPageAssumption DEF TypeOK, Page, Id, Press, NoId
<1>3. sends[n].at # "unsent" /\ k \in Key /\ (storage => stored[k] = sends[n].id)
  <2>1. sends[n].at # "unsent" /\ sends[n].request \in Request
    BY <1>1, <1>2 DEF SendingIsStored, SendsKeepRequest
  <2>2. k \in Key
    BY <2>1 DEF requestKey, Request, Key
  <2> QED BY <1>1, <2>1, <2>2 DEF SendingIsStored
<1>4. /\ s \in Send /\ s.id = sends[n].id /\ s.request = sends[n].request
      /\ s.open = sends[n].open /\ s.at = "gone" /\ s.answer = "lost"
  BY <1>2 DEF Send, Answers
<1>5. sends' = sends \/ sends' = [sends EXCEPT ![n] = s]
  BY <1>1, <1>2 DEF TypeOK, Send
<1>6. /\ pn \in [text : PageText, cluster : Cluster, raced : BOOLEAN]
      /\ pn = NoPin \/ pn = page.pin
  BY ApplyPageAssumption DEF TypeOK, Page, NoPin, PageText
<1>7. /\ at \in [id : Id, key : Key \cup {NoKey}]
      /\ at = NoAttempt \/ (at = page.attempt /\ Keeps(a))
  BY <1>2 DEF TypeOK, Page, NoAttempt, NoId
<1>8. nt \in [id : Id, says : {"nothing", "mayHaveApplied", "inFlight", "noReceipt"}]
  BY <1>2 DEF noticeOf, NoNotice, NoId, Send
<1> HIDE DEF k, s, pn, at, nt
<1>9. \A m \in Press : /\ sends'[m].id = sends[m].id /\ sends'[m].request = sends[m].request
                       /\ sends'[m].open = sends[m].open
                       /\ sends'[m] = sends[m] \/ (m = n /\ sends'[m] = s)
  BY <1>2, <1>4, <1>5 DEF TypeOK
<1>10. TypeOK'
  <2>1. page' \in Page
    BY <1>1, <1>2, <1>6, <1>7, <1>8 DEF TypeOK, Page
  <2>2. sends' \in [Press -> Send]
    BY <1>4, <1>5 DEF TypeOK
  <2>3. stored' \in [Key -> Id] /\ closed' \subseteq Press
    BY <1>1, <1>2, <1>3 DEF TypeOK, NoId, Send
  <2> QED BY <1>1, <2>1, <2>2, <2>3 DEF TypeOK
<1>11. page'.sending = 0 /\ page'.attempt = at /\ page'.text = page.text /\ page'.pin = pn
  BY <1>1 DEF TypeOK, Page
<1>12. SendsKeepRequest' /\ OpenIsContinued'
  <2>1. \A m \in Press : Tracked(m) => sends[m].id \in Press
    BY <1>2 DEF TypeOK, Send, Tracked
  <2>2. \A m \in Press : /\ sends'[m].at = "unsent" => sends'[m] = Unsent
                         /\ sends'[m].at # "unsent" => sends'[m].request \in Request
    BY <1>3, <1>4, <1>9 DEF SendsKeepRequest
  <2> QED BY <1>9, <2>1, <2>2 DEF SendsKeepRequest, OpenIsContinued, Tracked
<1>13. AnswersFair'
  BY <1>4, <1>9 DEF AnswersFair, FairAnswers, Mistaken, Tracked, Answers
<1>14. \A i \in Press : \A q : MintedFor(i, q) => MintedNext(i, q)
  BY <1>9 DEF MintedFor, MintedNext
<1>15. PinIsPreviewed' /\ SendingIsStored'
  BY <1>1, <1>6, <1>11 DEF PinIsPreviewed, SendingIsStored
<1>16. AttemptIsStored'
  <2>1. page.attempt # NoAttempt => page.attempt.id \in Press
    BY <1>2 DEF AttemptIsStored, TypeOK, Page
  <2> QED BY <1>1, <1>7, <1>11, <1>14, <2>1 DEF AttemptIsStored, MintedFor, MintedNext
<1>17. \A q \in Key : stored'[q] = stored[q] \/ (q = k /\ ~Keeps(a) /\ stored'[q] = NoId)
  BY <1>1, <1>3 DEF TypeOK
<1>18. StoredIsMinted'
  <2>1. SUFFICES ASSUME NEW q \in Key, stored'[q] # NoId PROVE MintedNext(stored'[q], q)
    BY DEF StoredIsMinted, MintedFor, MintedNext
  <2>2. stored'[q] = stored[q] /\ stored[q] \in Press
    BY <1>2, <1>17, <2>1 DEF TypeOK
  <2>3. MintedFor(stored[q], q)
    BY <2>1, <2>2 DEF StoredIsMinted
  <2> QED BY <1>14, <2>2, <2>3
<1>19. OpenIsStored'
  <2>1. SUFFICES ASSUME storage, NEW i \in Press \ (closed' \cup aged), sends'[i].id = i
                 PROVE  stored'[requestKey(sends'[i].request)] = i
    BY <1>1 DEF OpenIsStored
  <2> DEFINE q == requestKey(sends[i].request)
  <2>2. i \notin closed /\ sends[i].id = i /\ sends'[i].request = sends[i].request
    BY <1>1, <1>9, <2>1
  <2>3. stored[q] = i
    BY <2>1, <2>2 DEF OpenIsStored
  <2>4. q \in Key
    <3>1. sends[i].request \in Request
      BY <1>2, <2>2 DEF SendsKeepRequest, Unsent, NoId
    <3> QED BY <3>1 DEF requestKey, Request, Key
  <2> HIDE DEF q
  <2>5. ~(q = k /\ ~Keeps(a))
    BY <1>1, <1>2, <1>3, <2>1, <2>3 DEF NoId
  <2>6. stored'[q] = i
    BY <1>17, <2>3, <2>4, <2>5
  <2> QED BY <2>2, <2>6 DEF q
<1>20. RowsKeepRequest'
  BY <1>1, <1>9 DEF RowsKeepRequest, Intent
<1>21. \A m \in Press : Claims(m)' => Claims(m)
  BY <1>1, <1>4, <1>9 DEF Claims
<1>22. ClaimsBacked' /\ ClaimsUnique'
  BY <1>1, <1>9, <1>21 DEF ClaimsBacked, ClaimsUnique, Tracked, Row
<1>23. QED BY <1>10, <1>12, <1>13, <1>15, <1>16, <1>18, <1>19, <1>20, <1>22

-----------------------------------------------------------------------------
(* The server *)

AnyRow == T!Row \cup {T!NoRow}

\* A statement that finds a row keeps it, its owner and its content; one that finds none
\* makes none.
RowKept(row, next) ==
    /\ next \in AnyRow /\ (T!Exists(next) <=> T!Exists(row))
    /\ T!Exists(row) => next.owner = row.owner /\ next.body = row.body

LEMMA StatementsKeep ==
    ASSUME NEW row \in AnyRow, NEW f \in {"applied", "failed"}
    PROVE  /\ RowKept(row, row)
           /\ RowKept(row, T!MarkMutationStarted(row))
           /\ RowKept(row, T!Finalize(row, f))
<1>1. CASE row = T!NoRow
  BY <1>1 DEF RowKept, T!MarkMutationStarted, T!Finalize, T!InFlight, T!Exists, T!NoRow
<1>2. CASE row \in T!Row
  <2>1. /\ [row EXCEPT !.started = TRUE] \in T!Row
        /\ [row EXCEPT !.started = TRUE].owner = row.owner
        /\ [row EXCEPT !.started = TRUE].body = row.body
    BY <1>2 DEF T!Row
  <2>2. /\ [row EXCEPT !.state = f, !.completed = TRUE] \in T!Row
        /\ [row EXCEPT !.state = f, !.completed = TRUE].owner = row.owner
        /\ [row EXCEPT !.state = f, !.completed = TRUE].body = row.body
    BY <1>2 DEF T!Row, T!Terminal
  <2>3. \A x \in T!Row : T!Exists(x)
    BY DEF T!Row, T!Exists, T!Terminal
  <2> QED
    BY <1>2, <2>1, <2>2, <2>3 DEF RowKept, AnyRow, T!MarkMutationStarted, T!Finalize
<1> QED BY <1>1, <1>2 DEF AnyRow

\* The INSERT leaves a row, its own or the one it collided with.
LEMMA InsertKeeps ==
    ASSUME NEW row \in AnyRow, NEW q, q.owner \in User,
           q.body \in [text : Text, cluster : Cluster]
    PROVE  /\ T!Insert(row, q) \in AnyRow /\ T!Exists(T!Insert(row, q))
           /\ T!Insert(row, q).owner = IF T!Exists(row) THEN row.owner ELSE q.owner
           /\ T!Insert(row, q).body = IF T!Exists(row) THEN row.body ELSE q.body
<1> DEFINE new == [state |-> "applying", owner |-> q.owner, body |-> q.body,
                   started |-> FALSE, completed |-> FALSE, objects |-> <<>>,
                   verdict |-> "pending", age |-> "young"]
<1>1. new \in T!Row /\ new.owner = q.owner /\ new.body = q.body /\ new.state = "applying"
  BY DEF T!Row, T!Verdict
<1>2. T!Insert(row, q) = IF T!Exists(row) THEN row ELSE new
  BY DEF T!Insert
<1> HIDE DEF new
<1> QED BY <1>1, <1>2 DEF AnyRow, T!Exists

\* A step on send n: where it is and what it will be answered.
SendMoves(n, at) ==
    /\ sends' = [sends EXCEPT ![n] = sends'[n]] /\ sends'[n] \in Send
    /\ sends'[n].id = sends[n].id /\ sends'[n].request = sends[n].request
    /\ sends'[n].open = sends[n].open
    /\ sends'[n].at \in at /\ sends'[n].answer \in FairAnswers(n)

LEMMA GotoMoves ==
    ASSUME TypeOK, AnswersFair, NEW n \in Press, NEW at \in {"inserted", "gone"}, Goto(n, at)
    PROVE  SendMoves(n, {at})
<1>1. sends[n] \in Send /\ sends' = [sends EXCEPT ![n].at = at]
  BY DEF TypeOK, Goto
<1>2. sends'[n] = [sends[n] EXCEPT !.at = at]
  BY <1>1 DEF TypeOK
<1>3. sends' = [sends EXCEPT ![n] = sends'[n]]
  BY <1>1, <1>2 DEF TypeOK
<1> QED BY <1>1, <1>2, <1>3 DEF Send, SendMoves, AnswersFair

LEMMA ReplyMoves ==
    ASSUME TypeOK, AnswersFair, NEW n \in Press, NEW a \in FairAnswers(n), Reply(n, a)
    PROVE  SendMoves(n, {"answered", "gone"})
<1>1. CASE page.sending = n
  <2>0. sends[n] \in Send
    BY DEF TypeOK
  <2>1. sends' = [sends EXCEPT ![n].at = "answered", ![n].answer = a]
    BY <1>1 DEF Reply
  <2>2. sends'[n] = [sends[n] EXCEPT !.at = "answered", !.answer = a]
    BY <2>1 DEF TypeOK
  <2>3. sends' = [sends EXCEPT ![n] = sends'[n]]
    BY <2>1, <2>2 DEF TypeOK
  <2>4. a \in Answers
    BY DEF FairAnswers
  <2>5. /\ sends'[n] \in Send /\ sends'[n].id = sends[n].id
        /\ sends'[n].request = sends[n].request /\ sends'[n].open = sends[n].open
        /\ sends'[n].at = "answered" /\ sends'[n].answer = a
    BY <2>0, <2>2, <2>4 DEF Send
  <2> QED BY <2>3, <2>4, <2>5 DEF SendMoves
<1>2. CASE page.sending # n
  BY <1>2, GotoMoves DEF Reply, SendMoves
<1> QED BY <1>1, <1>2

\* What the step of one send does to the table.
RowsMove(n) ==
    \/ UNCHANGED rows
    \/ /\ Tracked(n) /\ rows' = [rows EXCEPT ![sends[n].id] = rows'[sends[n].id]]
       /\ \/ RowKept(Row(n), rows'[sends[n].id])
          \/ /\ rows'[sends[n].id] \in AnyRow /\ T!Exists(rows'[sends[n].id])
             /\ rows'[sends[n].id].owner =
                    IF T!Exists(Row(n)) THEN Row(n).owner ELSE sends[n].request.user
             /\ rows'[sends[n].id].body =
                    IF T!Exists(Row(n)) THEN Row(n).body ELSE Intent(n).body

\* Every step of the server is on one send that was made; the one that gets to
\* "inserted" found no row, and the one that changes the cluster was there.
ServesOn(n) ==
    /\ UNCHANGED browserVars /\ sends[n].at # "unsent" /\ RowsMove(n)
    /\ \/ SendMoves(n, {"answered", "gone"}) /\ UNCHANGED ran
       \/ /\ SendMoves(n, {"inserted"}) /\ UNCHANGED ran /\ Tracked(n)
          /\ ~T!Exists(Row(n)) /\ T!Exists(rows'[sends[n].id])
       \/ /\ SendMoves(n, {"answered", "gone"}) /\ Claims(n) /\ ran' = ran \cup {n}

LEMMA ServeIsOfOneSend ==
    ASSUME ApplyInv, NEW n \in Press, Serve(n)
    PROVE  ServesOn(n)
<1> USE DEF ApplyInv, BrowserInv, SendInv, RowInv
<1>1. sends[n].at # "unsent" /\ UNCHANGED browserVars
  BY DEF Serve, Refuse, RunUntracked, InsertIntent, InsertError, InsertCollides, MarkError,
         RunTracked, Lose
<1>2. /\ sends[n] \in Send /\ sends[n].request \in Request
      /\ \A x : SetRow(n, x) => rows' = [rows EXCEPT ![sends[n].id] = x]
  BY <1>1 DEF TypeOK, SendsKeepRequest, SetRow
<1>3. Tracked(n) => /\ sends[n].id \in Press /\ Row(n) \in AnyRow
                    /\ \A x : SetRow(n, x) => /\ rows'[sends[n].id] = x
                                              /\ rows' = [rows EXCEPT ![sends[n].id] = rows'[sends[n].id]]
  <2>1. Tracked(n) => sends[n].id \in Press
    BY <1>2, ApplyPageAssumption DEF Send, Tracked, Id, Press, NoId
  <2> QED BY <1>2, <2>1 DEF TypeOK, Row, AnyRow
<1>4. /\ Intent(n).owner = sends[n].request.user /\ Intent(n).owner \in User
      /\ Intent(n).body \in [text : Text, cluster : Cluster]
  BY <1>2 DEF Intent, Request
<1>5. ASSUME Tracked(n), T!Exists(Row(n))
      PROVE  /\ Row(n).body = Intent(n).body
             /\ Row(n).owner # Intent(n).owner => Mistaken(sends[n].id)
  <2> DEFINE i == sends[n].id
  <2>1. i \in Press /\ sends[i].id = i /\ rows[i].body = Intent(i).body
    BY <1>3, <1>5 DEF RowsKeepRequest, Row
  <2>2. PICK m \in Press : sends[m].id = i /\ rows[i].owner = sends[m].request.user
    BY <1>3, <1>5 DEF RowsKeepRequest, Row
  <2>3. /\ requestKey(sends[i].request) = requestKey(sends[n].request)
        /\ requestKey(sends[i].request) = requestKey(sends[m].request)
    BY <1>5, <2>1, <2>2 DEF SendsKeepRequest, Tracked
  <2>4. /\ sends[i].request.text = sends[n].request.text
        /\ sends[i].request.cluster = sends[n].request.cluster
        /\ sends[m].request.me = sends[n].request.me
    BY <2>3 DEF requestKey
  <2>5. ~Mistaken(i) => /\ sends[m].request.me = sends[m].request.user
                       /\ sends[n].request.me = sends[n].request.user
    BY <2>2 DEF Mistaken
  <2> QED BY <2>1, <2>2, <2>4, <2>5 DEF Intent, Row
<1>6. ASSUME Tracked(n), NEW x, SetRow(n, x), RowKept(Row(n), x) PROVE RowsMove(n)
  BY <1>3, <1>6 DEF RowsMove
<1>7. ASSUME Tracked(n), SetRow(n, T!Insert(Row(n), Intent(n)))
      PROVE  RowsMove(n) /\ T!Exists(rows'[sends[n].id])
  <2>1. /\ T!Insert(Row(n), Intent(n)) \in AnyRow /\ T!Exists(T!Insert(Row(n), Intent(n)))
        /\ T!Insert(Row(n), Intent(n)).owner =
              IF T!Exists(Row(n)) THEN Row(n).owner ELSE Intent(n).owner
        /\ T!Insert(Row(n), Intent(n)).body =
              IF T!Exists(Row(n)) THEN Row(n).body ELSE Intent(n).body
    BY <1>3, <1>4, <1>7, InsertKeeps
  <2>2. /\ rows'[sends[n].id] = T!Insert(Row(n), Intent(n))
        /\ rows' = [rows EXCEPT ![sends[n].id] = rows'[sends[n].id]]
    BY <1>3, <1>7
  <2> QED BY <1>4, <1>7, <2>1, <2>2 DEF RowsMove
<1>8. ASSUME NEW a \in Answers, a # "reused",
             a = "conflict" => Tracked(n) /\ Mistaken(sends[n].id), Reply(n, a)
      PROVE  SendMoves(n, {"answered", "gone"})
  BY <1>8, ReplyMoves DEF FairAnswers
<1>9. CASE Refuse(n) \/ RunUntracked(n) \/ Lose(n)
  <2>1. UNCHANGED rows /\ UNCHANGED ran
    BY <1>9 DEF Refuse, RunUntracked, Lose
  <2>2. SendMoves(n, {"answered", "gone"})
    <3>1. CASE Lose(n)
      BY <3>1, GotoMoves DEF Lose, SendMoves
    <3> QED BY <1>8, <1>9, <3>1 DEF Refuse, RunUntracked, Answers, Definite, Refusals
  <2> QED BY <1>1, <2>1, <2>2 DEF ServesOn, RowsMove
<1>10. CASE InsertIntent(n)
  <2>1. SendMoves(n, {"inserted"})
    BY <1>10, GotoMoves DEF InsertIntent
  <2> QED BY <1>1, <1>7, <1>10, <2>1 DEF InsertIntent, ServesOn
<1>11. CASE InsertError(n)
  <2>1. SendMoves(n, {"answered", "gone"})
    BY <1>8, <1>11 DEF InsertError, Answers
  <2>2. RowsMove(n)
    BY <1>3, <1>6, <1>7, <1>11, StatementsKeep DEF InsertError
  <2> QED BY <1>1, <1>11, <2>1, <2>2 DEF InsertError, ServesOn
<1>12. CASE InsertCollides(n)
  <2>1. Tracked(n) /\ T!Exists(Row(n)) /\ UNCHANGED rows /\ UNCHANGED ran
    BY <1>12 DEF InsertCollides
  <2>2. \/ Reply(n, "conflict") /\ Mistaken(sends[n].id)
        \/ Reply(n, "inFlight") \/ Reply(n, "ok")
    BY <1>5, <1>12, <2>1 DEF InsertCollides
  <2>3. SendMoves(n, {"answered", "gone"})
    BY <1>8, <2>1, <2>2 DEF Answers, Definite, Refusals
  <2> QED BY <1>1, <2>1, <2>3 DEF ServesOn, RowsMove
<1>13. CASE MarkError(n)
  <2>1. SendMoves(n, {"answered", "gone"})
    BY <1>8, <1>13 DEF MarkError, Answers, Definite, Refusals
  <2>2. Tracked(n)
    BY <1>13 DEF MarkError, ClaimsBacked, Claims
  <2>3. RowsMove(n)
    BY <1>3, <1>6, <1>13, <2>2, StatementsKeep DEF MarkError
  <2> QED BY <1>1, <1>13, <2>1, <2>3 DEF MarkError, ServesOn
<1>14. CASE RunTracked(n)
  <2> DEFINE begun == T!MarkMutationStarted(Row(n))
  <2>1. Claims(n) /\ Tracked(n)
    BY <1>14 DEF RunTracked, ClaimsBacked, Claims
  <2>2. SendMoves(n, {"answered", "gone"})
    <3>1. Reply(n, "ok") \/ Goto(n, "gone")
      BY <1>14 DEF RunTracked
    <3> QED BY <1>8, <3>1, GotoMoves DEF Answers, Definite, SendMoves
  <2>3. begun \in AnyRow /\ RowKept(Row(n), begun)
    BY <1>3, <2>1, StatementsKeep DEF RowKept
  <2>4. \A f \in {"applied", "failed"} : RowKept(Row(n), T!Finalize(begun, f))
    <3> HIDE DEF begun
    <3> QED BY <2>3, StatementsKeep DEF RowKept
  <2>5. RowsMove(n)
    <3>1. SetRow(n, begun) \/ \E f \in {"applied", "failed"} : SetRow(n, T!Finalize(begun, f))
      BY <1>14 DEF RunTracked
    <3> HIDE DEF begun
    <3> QED BY <1>6, <2>1, <2>3, <2>4, <3>1
  <2>6. ran' = ran \cup {n} \/ UNCHANGED ran
    BY <1>14 DEF RunTracked
  <2> QED BY <1>1, <2>1, <2>2, <2>5, <2>6 DEF ServesOn
<1>15. QED BY <1>9, <1>10, <1>11, <1>12, <1>13, <1>14 DEF Serve

LEMMA ServeGood ==
    ASSUME ApplyInv, NEW n \in Press, Serve(n)
    PROVE  ApplyInv'
<1> USE DEF ApplyInv, BrowserInv, SendInv, RowInv
<1>1. ServesOn(n)
  BY ServeIsOfOneSend
<1>2. /\ user' = user /\ selected' = selected /\ page' = page
      /\ storage' = storage
      /\ stored' = stored /\ aged' = aged /\ closed' = closed
  BY <1>1 DEF ServesOn, browserVars, attemptVars
<1>3. SendMoves(n, {"inserted", "answered", "gone"}) /\ RowsMove(n) /\ sends[n].at # "unsent"
  BY <1>1 DEF ServesOn, SendMoves
<1>4. \A m \in Press : /\ sends'[m].id = sends[m].id /\ sends'[m].request = sends[m].request
                       /\ sends'[m].open = sends[m].open
                       /\ m # n => sends'[m] = sends[m]
  BY <1>3 DEF SendMoves, TypeOK
<1>5. sends'[n].at \in {"inserted", "answered", "gone"} /\ sends'[n].answer \in FairAnswers(n)
  BY <1>3 DEF SendMoves
<1>6. \A m \in Press : Tracked(m) => sends[m].id \in Press
  BY ApplyPageAssumption DEF TypeOK, Send, Tracked, Id, Press, NoId
<1>7. \A i \in Press : /\ rows'[i] \in AnyRow /\ (T!Exists(rows[i]) => T!Exists(rows'[i]))
                       /\ T!Exists(rows'[i]) =>
                             \/ /\ T!Exists(rows[i]) /\ rows'[i].owner = rows[i].owner
                                /\ rows'[i].body = rows[i].body
                             \/ /\ Tracked(n) /\ i = sends[n].id
                                /\ rows'[i].owner = sends[n].request.user
                                /\ rows'[i].body = Intent(n).body
  <2>1. \A i \in Press : rows[i] \in AnyRow
    BY DEF TypeOK, AnyRow
  <2>2. CASE UNCHANGED rows
    BY <2>1, <2>2
  <2>3. CASE rows' # rows
    <3>1. /\ Tracked(n) /\ sends[n].id \in Press
          /\ \A i \in Press : i # sends[n].id => rows'[i] = rows[i]
      BY <1>3, <1>6, <2>3 DEF RowsMove, TypeOK
    <3> QED BY <1>3, <2>1, <2>3, <3>1 DEF RowsMove, RowKept, Row
  <2> QED BY <2>2, <2>3
<1>8. TypeOK'
  <2>1. sends' \in [Press -> Send]
    BY <1>3 DEF SendMoves, TypeOK
  <2>2. rows' \in [Press -> T!Row \cup {T!NoRow}]
    <3>1. DOMAIN rows' = Press /\ rows' = [i \in Press |-> rows'[i]]
      BY <1>3 DEF RowsMove, TypeOK
    <3> QED BY <1>7, <3>1 DEF AnyRow
  <2>3. ran' \subseteq Press
    BY <1>1 DEF ServesOn, TypeOK
  <2> QED BY <1>2, <2>1, <2>2, <2>3 DEF TypeOK
<1>9. PinIsPreviewed' /\ StoredIsMinted' /\ AttemptIsStored'
  <2>1. \A k \in Key : stored[k] # NoId => stored[k] \in Press
    BY ApplyPageAssumption DEF TypeOK, Id, Press, NoId
  <2>2. page.attempt # NoAttempt => page.attempt.id \in Press
    BY ApplyPageAssumption DEF AttemptIsStored, TypeOK, Page, Id, Press, NoId
  <2> QED
    BY <1>2, <1>4, <2>1, <2>2 DEF PinIsPreviewed, StoredIsMinted, AttemptIsStored, MintedFor
<1>10. SendingIsStored'
  <2>1. page.sending # 0 => page.sending \in Press
    BY ApplyPageAssumption DEF TypeOK, Page, Id, Press
  <2> QED BY <1>2, <1>4, <1>5, <2>1 DEF SendingIsStored
<1>11. OpenIsStored'
  BY <1>2, <1>4 DEF OpenIsStored
<1>12. SendsKeepRequest' /\ OpenIsContinued'
  <2>1. \A m \in Press : /\ sends'[m].at = "unsent" => sends'[m] = Unsent
                         /\ sends'[m].at # "unsent" => sends'[m].request \in Request
    BY <1>3, <1>4, <1>5 DEF SendsKeepRequest
  <2> QED
    BY <1>4, <1>6, <2>1 DEF SendsKeepRequest, OpenIsContinued, Tracked
<1>13. AnswersFair' /\ RowsKeepRequest'
  <2>1. AnswersFair'
    BY <1>4, <1>5 DEF AnswersFair, FairAnswers, Mistaken, Tracked
  <2>2. SUFFICES ASSUME NEW i \in Press, T!Exists(rows'[i])
                 PROVE  /\ sends[i].id = i /\ rows'[i].body = Intent(i).body
                        /\ \E m \in Press : sends[m].id = i /\ rows'[i].owner = sends[m].request.user
    BY <1>4, <2>1 DEF RowsKeepRequest, Intent
  <2>3. CASE T!Exists(rows[i]) /\ rows'[i].owner = rows[i].owner /\ rows'[i].body = rows[i].body
    BY <2>3 DEF RowsKeepRequest
  <2>4. CASE /\ Tracked(n) /\ i = sends[n].id
             /\ rows'[i].owner = sends[n].request.user /\ rows'[i].body = Intent(n).body
    <3>1. sends[i].id = i /\ requestKey(sends[i].request) = requestKey(sends[n].request)
      BY <2>4 DEF SendsKeepRequest
    <3>2. Intent(i).body = Intent(n).body
      BY <3>1 DEF requestKey, Intent
    <3> QED BY <2>4, <3>1, <3>2
  <2> QED BY <1>7, <2>2, <2>3, <2>4
<1>14. ASSUME NEW m \in Press, Claims(m)'
       PROVE  \/ Claims(m)
              \/ /\ m = n /\ Tracked(n) /\ ~T!Exists(Row(n))
                 /\ T!Exists(rows'[sends[n].id])
  <2>1. CASE m # n
    BY <1>1, <1>4, <1>14, <2>1 DEF ServesOn, Claims
  <2>2. CASE m = n
    BY <1>1, <1>14, <2>2 DEF ServesOn, SendMoves, Claims
  <2> QED BY <2>1, <2>2
<1>15. ClaimsBacked'
  BY <1>4, <1>6, <1>7, <1>14 DEF ClaimsBacked, Tracked, Row
<1>16. ClaimsUnique'
  <2>1. SUFFICES ASSUME NEW m \in Press, NEW q \in Press, Claims(m)', Claims(q)',
                        sends[m].id = sends[q].id
                 PROVE  m = q
    BY <1>4 DEF ClaimsUnique
  <2> QED BY <1>14, <2>1 DEF ClaimsUnique, ClaimsBacked, Row
<1>17. QED BY <1>8, <1>9, <1>10, <1>11, <1>12, <1>13, <1>15, <1>16

-----------------------------------------------------------------------------
(* The invariant and what it gives *)

LEMMA InitGood == Init => ApplyInv
<1> SUFFICES ASSUME Init PROVE ApplyInv
  OBVIOUS
<1>1. /\ \A n \in Press : sends[n] = Unsent /\ rows[n] = T!NoRow
      /\ \A k \in Key : stored[k] = NoId
      /\ ran = {} /\ closed = {} /\ aged = {} /\ page = FreshPage
  BY DEF Init
<1>2. Unsent \in Send /\ Unsent.at = "unsent" /\ Unsent.id = NoId /\ Unsent.answer = "lost"
  BY ApplyPageAssumption DEF Unsent, Send, Id, NoId, Answers
<1>3. TypeOK
  <2>1. NoId \in Id
    BY ApplyPageAssumption DEF Id, NoId
  <2> QED BY <1>2, <2>1, FreshIsGood DEF Init, TypeOK
<1>4. ~T!Exists(T!NoRow) /\ NoId \notin Press
  BY DEF T!Exists, T!NoRow, NoId, Press
<1>5. BrowserInv
  BY <1>1, <1>2, <1>4, FreshIsGood
     DEF BrowserInv, PinIsPreviewed, StoredIsMinted, AttemptIsStored, SendingIsStored,
         OpenIsStored
<1>6. SendInv /\ RowInv
  BY <1>1, <1>2, <1>4
     DEF SendInv, SendsKeepRequest, OpenIsContinued, AnswersFair, RowInv, RowsKeepRequest,
         ClaimsBacked, ClaimsUnique, Claims, Tracked, Row, FairAnswers, Answers
<1> QED BY <1>3, <1>5, <1>6 DEF ApplyInv

LEMMA StepGood ==
    ASSUME ApplyInv, [Next]_vars
    PROVE  ApplyInv'
<1>1. CASE Answered \/ NoAnswer
  <2>1. page.sending # 0 => sends[page.sending].answer \in Answers
    BY ApplyPageAssumption DEF ApplyInv, TypeOK, Page, Send, Id, Press
  <2> QED BY <1>1, <2>1, ConcludeGood DEF Answered, NoAnswer, Answers, Conclude
<1>2. CASE UNCHANGED vars
  BY <1>2 DEF vars, ApplyInv, TypeOK, BrowserInv, PinIsPreviewed, StoredIsMinted,
              AttemptIsStored, SendingIsStored, OpenIsStored, MintedFor, SendInv,
              SendsKeepRequest, OpenIsContinued, AnswersFair, RowInv, RowsKeepRequest,
              ClaimsBacked, ClaimsUnique, Claims, Tracked, Row, FairAnswers, Mistaken, Intent
<1>3. QED
  BY <1>1, <1>2, BrowseGood, handleApplyGood, ServeGood DEF Next

LEMMA Invariant == Spec => []ApplyInv
<1>1. ApplyInv /\ [Next]_vars => ApplyInv'
  BY StepGood
<1>2. QED BY <1>1, InitGood, PTL DEF Spec

(* A retry of an attempt whose outcome the page was never told shares its   *)
(* operation id (pending: the id in memory or in sessionStorage), and of    *)
(* the sends of one id only the one whose INSERT won runs: together they    *)
(* change the cluster at most once, for any number of presses, reloads and  *)
(* sign-ins.  Not a retry is a press by a page that meanwhile learned, or   *)
(* lost, who its user is, one after ten minutes, a logout, a definite       *)
(* answer or an untracked apply, and without sessionStorage one by a page   *)
(* loaded since.                                                            *)
THEOREM RetryAppliesOnce == Spec => []RetryNeverAppliesTwice
<1>1. ApplyInv => RetryNeverAppliesTwice
  <2>1. SUFFICES ASSUME ApplyInv, NEW m \in ran, NEW n \in ran, sends[m].id \in sends[n].open
                 PROVE  m = n
    BY DEF RetryNeverAppliesTwice
  <2>2. m \in Press /\ n \in Press /\ Claims(m) /\ Claims(n)
    BY <2>1 DEF ApplyInv, TypeOK, Claims
  <2>3. sends[m].id = sends[n].id
    BY <2>1, <2>2 DEF ApplyInv, SendInv, RowInv, ClaimsBacked, OpenIsContinued
  <2> QED BY <2>1, <2>2, <2>3 DEF ApplyInv, RowInv, ClaimsUnique
<1>2. QED BY <1>1, Invariant, PTL

(* An operation id never travels with other content, and its receipt is    *)
(* its sender's unless a page that sent it did not know its user:           *)
(* requestKey holds every input and currentUserId(), so an id stored for    *)
(* one known user is not found by the next.                                 *)
THEOREM IdKept == Spec => []IdKeepsItsRequest
<1>1. ApplyInv => IdKeepsItsRequest
  <2> SUFFICES ASSUME ApplyInv, NEW n \in Press, Tracked(n)
               PROVE  LET i == sends[n].id
                          r == sends[n].request
                          minted == sends[i].request
                      IN  /\ r.text = minted.text /\ r.cluster = minted.cluster
                          /\ sends[n].answer # "reused"
                          /\ \/ Mistaken(i)
                             \/ /\ r.user = minted.user /\ sends[n].answer # "conflict"
                                /\ T!Exists(rows[i]) => rows[i].owner = r.user
    BY DEF IdKeepsItsRequest
  <2> USE DEF ApplyInv, SendInv, RowInv
  <2> DEFINE i == sends[n].id
  <2>1. i \in Press /\ sends[i].id = i
    BY ApplyPageAssumption DEF TypeOK, Send, Tracked, Id, Press, NoId, SendsKeepRequest
  <2>2. ASSUME NEW m \in Press, sends[m].id = i
        PROVE  /\ sends[m].request.text = sends[i].request.text
               /\ sends[m].request.cluster = sends[i].request.cluster
               /\ sends[m].request.me = sends[i].request.me
               /\ ~Mistaken(i) => sends[m].request.user = sends[m].request.me
    <3>1. requestKey(sends[i].request) = requestKey(sends[m].request)
      BY <2>2 DEF SendsKeepRequest, Tracked
    <3> QED BY <2>2, <3>1 DEF requestKey, Mistaken
  <2>3. ~Mistaken(i) => \A m \in Press : sends[m].id = i =>
                            sends[m].request.user = sends[i].request.user
    BY <2>1, <2>2
  <2>4. ~Mistaken(i) /\ T!Exists(rows[i]) => rows[i].owner = sends[n].request.user
    BY <2>1, <2>3 DEF RowsKeepRequest
  <2>5. sends[n].answer # "reused" /\ (sends[n].answer = "conflict" => Mistaken(i))
    BY DEF AnswersFair, FairAnswers
  <2> QED BY <2>1, <2>2, <2>3, <2>4, <2>5
<1>2. QED BY <1>1, Invariant, PTL

(* What is sent is what was previewed: the pinned cluster whatever has been *)
(* selected since, and the previewed text, which every edit unpins, unless  *)
(* a file landed while the preview was out.                                 *)
THEOREM PreviewedIsApplied == Spec => AppliedWasPreviewed
<1> DEFINE Previewed ==
        \A n \in Press : sends[n] = Unsent /\ sends'[n] # Unsent =>
            /\ sends'[n].request.cluster = page.pin.cluster
            /\ sends'[n].request.text = page.pin.text \/ page.pin.raced
<1>1. ApplyInv /\ [Next]_vars => Previewed
  <2>1. SUFFICES ASSUME ApplyInv, [Next]_vars, NEW n \in Press, sends[n] = Unsent,
                        sends'[n] # Unsent
                 PROVE  /\ sends'[n].request.cluster = page.pin.cluster
                        /\ sends'[n].request.text = page.pin.text \/ page.pin.raced
    OBVIOUS
  <2>2. TypeOK /\ sends[n].at = "unsent" /\ sends \in [Press -> Send]
    BY <2>1 DEF ApplyInv, TypeOK, Unsent
  <2>3. ASSUME NEW m \in Press, Serve(m) PROVE FALSE
    BY <2>1, <2>2, <2>3, ServeIsOfOneSend DEF ServesOn, SendMoves
  <2>4. ASSUME Answered \/ NoAnswer PROVE FALSE
    <3>1. PICK a : Conclude(a)
      BY <2>4 DEF Answered, NoAnswer
    <3>2. sends' = sends
          \/ sends' = [sends EXCEPT ![page.sending].at = "gone", ![page.sending].answer = "lost"]
      BY <3>1 DEF Conclude
    <3>3. page.sending # 0 /\ sends[page.sending].at # "unsent"
      BY <2>1, <3>1 DEF Conclude, ApplyInv, BrowserInv, SendingIsStored
    <3> QED BY <2>1, <2>2, <3>2, <3>3
  <2>5. ASSUME Browse PROVE FALSE
    BY <2>1, <2>5 DEF Browse, Edit, FileLands, handleValidate, PreviewArrives, PreviewFails,
                 Reload, FallBackToLocal, choose, logout, SessionEnds, fetchCurrentUser,
                 refreshSession, AttemptAges, serverVars
  <2>6. PICK m \in Press, tracked \in BOOLEAN : handleApply(m, tracked)
    BY <2>1, <2>3, <2>4, <2>5 DEF Next, vars
  <2>7. m = n
    BY <2>1, <2>2, <2>6 DEF handleApply
  <2>8. sends'[n].request = [text |-> page.text, cluster |-> target, user |-> user, me |-> page.me]
    BY <2>2, <2>6, <2>7 DEF handleApply
  <2>9. page.pin # NoPin
    BY <2>6 DEF handleApply, Pinned
  <2> QED BY <2>1, <2>8, <2>9 DEF target, ApplyInv, BrowserInv, PinIsPreviewed
<1>2. ApplyInv /\ [Next]_vars => [Previewed]_vars
  BY <1>1
<1>3. Spec => [][Previewed]_vars
  BY <1>2, Invariant, PTL DEF Spec
<1>4. QED BY <1>3 DEF AppliedWasPreviewed
==============================================================================
