--------------------------- MODULE DashboardProofs ---------------------------
(***************************************************************************)
(* Proofs about the two parts of the dashboard page.                       *)
(*                                                                         *)
(* DashboardLayout, for any number of pages, any widgets and any number of *)
(* revisions: it implements LayoutHistory, no save deletes what its page   *)
(* did not show, and no page is told of a conflict with itself.            *)
(*                                                                         *)
(* SourceCache, for any finite set of sources, any time ranges and any     *)
(* number of slots: the cache polls what the layout reads and nothing      *)
(* else, leaves no card without a request, an error or an answer, and      *)
(* counts its slots.                                                       *)
(***************************************************************************)
EXTENDS DashboardLayout, SourceCache, SequenceTheorems, FiniteSetTheorems, NaturalsInduction,
        WellFoundedInduction, TLAPS

-----------------------------------------------------------------------------
(* The inductive invariant, page by page *)

UnopenedIsBlank(p) ==
    life[p] = "unopened" =>
        /\ store[p] = Unloaded /\ session[p] = NoSession
        /\ ui[p] = Fresh /\ get[p] = NoGet /\ put[p] = NoPut

\* A session is open on what the store holds, and only while no read is out.
SessionIsOfTheStore(p) ==
    session[p].open =>
        /\ get[p].at = "idle" /\ store[p].loaded /\ ~ui[p].reloading
        /\ session[p].revision = store[p].revision
        /\ session[p].baseline = store[p].layout

\* Before the first read and during a reload Edit is withdrawn.
ReadsWithdrawEdit(p) == get[p].at # "idle" => ~store[p].loaded \/ ui[p].reloading

\* A write belongs to the open session, which nothing can close meanwhile.
WriteIsOfTheSession(p) ==
    put[p].at # "idle" =>
        /\ session[p].open /\ put[p].claim = session[p].revision
        /\ ui[p].saving /\ ~ui[p].conflict
        /\ store[p].observed /\ store[p].withheld = {}

\* After revision n no version is by p.
NotBySince(p, n, rows) == \A i \in n + 1 .. Len(rows) : rows[i].by # p

\* Whoever vouches for a revision vouches for every later version being
\* somebody else's.
RevisionsBehind(p) ==
    /\ store[p].revision <= Revision
    /\ store[p].observed /\ put[p].at \notin {"stored", "failed"} =>
          NotBySince(p, store[p].revision, stored)
    /\ get[p].at = "read" =>
          get[p].revision <= Revision /\ NotBySince(p, get[p].revision, stored)
    /\ put[p].at = "create" => put[p].claim = 0
    /\ put[p].at = "conflict" => put[p].claim < Revision
    /\ put[p].at = "stored" =>
          /\ put[p].claim + 1 <= Revision
          /\ NotBySince(p, put[p].claim + 1, stored)
          /\ stored[put[p].claim + 1].items = put[p].items

\* Of the version a page stands on, everything is shown, announced as dropped
\* or listed as withheld.
Accounted(items, n, rows) == n > 0 => rows[n].items \subseteq items

NothingUnaccounted(p) ==
    /\ get[p].at = "read" =>
          Accounted(get[p].items \cup get[p].withheld, get[p].revision, stored)
    /\ store[p].observed =>
          Accounted(store[p].layout \cup store[p].dropped \cup store[p].withheld,
                    store[p].revision, stored)

\* ConflictIsReal of one page.
ConflictReal(p) ==
    ui[p].conflict => \E i \in session[p].revision + 1 .. Revision : stored[i].by # p

PageGood(p) ==
    /\ UnopenedIsBlank(p)
    /\ SessionIsOfTheStore(p)
    /\ ReadsWithdrawEdit(p)
    /\ WriteIsOfTheSession(p)
    /\ RevisionsBehind(p)
    /\ NothingUnaccounted(p)
    /\ ConflictReal(p)

LayoutInv == TypeOK /\ \A p \in Page : PageGood(p)

-----------------------------------------------------------------------------
(* Types *)

\* What a row, a request or a page holds after a step of the server is of its
\* type.
LEMMA ServerTyped ==
    ASSUME TypeOK, NEW p \in Page, Server(p)
    PROVE  TypeOK'
<1>1. CASE HandleGetLayout(p)
  <2> DEFINE items == IF Revision = 0 THEN {} ELSE Row
             withheld == withholdUnauthorized(items)
  <2>1. Revision \in Nat /\ items \in Items
    <3>1. Revision \in Nat
      BY LenProperties DEF TypeOK, Revision
    <3>2. ASSUME Revision # 0 PROVE stored[Revision] \in Version
      BY <3>1, <3>2, ElementOfSeq DEF TypeOK, Revision
    <3> QED BY <3>1, <3>2 DEF Row, Version, Items
  <2>2. withheld \in Items /\ items \ withheld \in Items
    BY <2>1 DEF withholdUnauthorized, Items
  <2>3. get' = [get EXCEPT ![p] = [@ EXCEPT !.at = "read", !.items = items \ withheld,
                                            !.revision = Revision, !.withheld = withheld]]
    BY <1>1 DEF HandleGetLayout
  <2> HIDE DEF items, withheld
  <2>4. get'[p] \in Get
    BY <2>1, <2>2, <2>3 DEF TypeOK, Get
  <2>5. get' \in [Page -> Get]
    BY <2>3, <2>4 DEF TypeOK
  <2> QED BY <1>1, <2>5 DEF TypeOK, HandleGetLayout
<1>2. CASE GetFails(p)
  <2>1. get' \in [Page -> Get]
    BY <1>2 DEF TypeOK, GetFails, Get
  <2> QED BY <1>2, <2>1 DEF TypeOK, GetFails
<1>3. CASE HandleSaveLayout(p)
  <2>1. put' \in [Page -> Put]
    BY <1>3 DEF TypeOK, HandleSaveLayout, Put
  <2> QED BY <1>3, <2>1 DEF TypeOK, HandleSaveLayout
<1>4. CASE CreateLayout(p)
  <2> DEFINE v == [items |-> put[p].items, by |-> p]
  <2>1. v \in Version
    BY LayoutAssumption DEF TypeOK, Put, Version, Items
  <2>2. \/ put' = [put EXCEPT ![p].at = "stored"] /\ stored' = <<v>>
        \/ put' = [put EXCEPT ![p].at = "conflict"] /\ stored' = stored
    BY <1>4 DEF CreateLayout
  <2> HIDE DEF v
  <2>3. put' \in [Page -> Put]
    <3>1. CASE put' = [put EXCEPT ![p].at = "stored"]
      BY <3>1 DEF TypeOK, Put
    <3>2. CASE put' = [put EXCEPT ![p].at = "conflict"]
      BY <3>2 DEF TypeOK, Put
    <3> QED BY <2>2, <3>1, <3>2
  <2>4. stored' \in Seq(Version)
    <3>1. <<v>> \in Seq(Version)
      BY <2>1 DEF TypeOK
    <3> QED BY <2>2, <3>1 DEF TypeOK
  <2> QED BY <1>4, <2>3, <2>4 DEF TypeOK, CreateLayout
<1>5. CASE ReplaceLayout(p)
  <2> DEFINE v == [items |-> put[p].items, by |-> p]
  <2>1. v \in Version
    BY LayoutAssumption DEF TypeOK, Put, Version, Items
  <2>2. \/ put' = [put EXCEPT ![p].at = "stored"] /\ stored' = Append(stored, v)
        \/ put' = [put EXCEPT ![p].at = "conflict"] /\ stored' = stored
    BY <1>5 DEF ReplaceLayout
  <2> HIDE DEF v
  <2>3. put' \in [Page -> Put]
    <3>1. CASE put' = [put EXCEPT ![p].at = "stored"]
      BY <3>1 DEF TypeOK, Put
    <3>2. CASE put' = [put EXCEPT ![p].at = "conflict"]
      BY <3>2 DEF TypeOK, Put
    <3> QED BY <2>2, <3>1, <3>2
  <2>4. stored' \in Seq(Version)
    <3>1. Append(stored, v) \in Seq(Version)
      BY <2>1 DEF TypeOK
    <3> QED BY <2>2, <3>1 DEF TypeOK
  <2> QED BY <1>5, <2>3, <2>4 DEF TypeOK, ReplaceLayout
<1>6. CASE PutFails(p)
  <2>1. put' \in [Page -> Put]
    BY <1>6 DEF TypeOK, PutFails, Put
  <2> QED BY <1>6, <2>1 DEF TypeOK, PutFails
<1>7. QED BY <1>1, <1>2, <1>3, <1>4, <1>5, <1>6 DEF Server

\* So is what a page holds after it took an answer.
LEMMA AnsweredTyped ==
    ASSUME TypeOK, NEW p \in Page, Answered(p)
    PROVE  TypeOK'
<1>1. CASE LoadSettles(p)
  <2> DEFINE s == CASE get[p].overtaken -> store[p]
                    [] get[p].at = "read" -> Loaded(get[p])
                    [] OTHER -> LoadFailed(store[p])
  <2>1. s \in Store
    <3>1. Loaded(get[p]) \in Store
      BY LayoutAssumption DEF TypeOK, Get, Items, Loaded, dropUnknownWidgets, Store
    <3>2. LoadFailed(store[p]) \in Store
      BY DEF TypeOK, LoadFailed, Store
    <3> QED BY <3>1, <3>2 DEF TypeOK
  <2>2. s.layout \in SUBSET Known
    BY <2>1 DEF Store
  <2>3. store' \in [Page -> Store]
    BY <1>1, <2>1 DEF TypeOK, LoadSettles
  <2>4. ui' \in [Page -> Editor]
    <3>1. [ui[p] EXCEPT !.reloading = FALSE] \in Editor
      BY DEF TypeOK, Editor
    <3>2. [adoptLoadedLayout(ui[p], s.layout) EXCEPT !.reloading = FALSE] \in Editor
      BY <2>2 DEF TypeOK, Editor, adoptLoadedLayout
    <3>3. \/ ui' = [ui EXCEPT ![p] = [ui[p] EXCEPT !.reloading = FALSE]]
          \/ ui' = [ui EXCEPT ![p] = [adoptLoadedLayout(ui[p], s.layout)
                                        EXCEPT !.reloading = FALSE]]
      BY <1>1 DEF TypeOK, LoadSettles
    <3> QED BY <3>1, <3>2, <3>3 DEF TypeOK
  <2>5. get' \in [Page -> Get]
    BY <1>1 DEF TypeOK, LoadSettles, NoGet, Get, Items
  <2> QED BY <1>1, <2>3, <2>4, <2>5 DEF TypeOK, LoadSettles
<1>2. CASE SaveLands(p)
  <2>1. store' \in [Page -> Store]
    <3>1. put[p].items \in SUBSET Known /\ put[p].claim + 1 \in Nat
      BY DEF TypeOK, Put
    <3>2. store'[p] \in Store
      BY <1>2, <3>1 DEF TypeOK, SaveLands, Store
    <3> QED BY <1>2, <3>2 DEF TypeOK, SaveLands
  <2>2. get' \in [Page -> Get]
    BY <1>2 DEF TypeOK, SaveLands, Get
  <2>3. session' \in [Page -> EditSession]
    BY <1>2 DEF TypeOK, SaveLands, EditSession, NoSession
  <2>4. ui' \in [Page -> Editor]
    BY <1>2 DEF TypeOK, SaveLands, Editor
  <2>5. put' \in [Page -> Put]
    BY <1>2 DEF TypeOK, SaveLands, Put, NoPut, Items
  <2> QED BY <1>2, <2>1, <2>2, <2>3, <2>4, <2>5 DEF TypeOK, SaveLands
<1>3. CASE SaveFails(p)
  <2>1. store' \in [Page -> Store]
    BY <1>3 DEF TypeOK, SaveFails, Store
  <2>2. ui' \in [Page -> Editor]
    <3>1. ui[p] \in Editor
      BY DEF TypeOK
    <3>2. ui'[p] \in Editor
      BY <1>3, <3>1 DEF TypeOK, SaveFails, Editor
    <3> QED BY <1>3, <3>2 DEF TypeOK, SaveFails
  <2>3. put' \in [Page -> Put]
    BY <1>3 DEF TypeOK, SaveFails, Put, NoPut, Items
  <2> QED BY <1>3, <2>1, <2>2, <2>3 DEF TypeOK, SaveFails
<1>4. QED BY <1>1, <1>2, <1>3 DEF Answered

\* And after a step of its user.
LEMMA UserTyped ==
    ASSUME TypeOK, NEW p \in Page, User(p)
    PROVE  TypeOK'
<1>1. CASE OpenPage(p)
  <2>1. get' \in [Page -> Get]
    BY <1>1 DEF TypeOK, OpenPage, Get
  <2> QED BY <1>1, <2>1 DEF TypeOK, OpenPage
<1>2. CASE LeavePage(p)
  BY <1>2 DEF TypeOK, LeavePage
<1>3. CASE StartEditing(p)
  <2>1. session' \in [Page -> EditSession]
    BY <1>3 DEF TypeOK, StartEditing, beginEdit, EditSession, Store
  <2> QED BY <1>3, <2>1 DEF TypeOK, StartEditing
<1>4. CASE CloseEditing(p)
  <2>1. session' \in [Page -> EditSession]
    BY <1>4 DEF TypeOK, CloseEditing, EditSession, NoSession
  <2>2. ui' \in [Page -> Editor]
    BY <1>4 DEF TypeOK, CloseEditing, Editor, EditSession
  <2> QED BY <1>4, <2>1, <2>2 DEF TypeOK, CloseEditing
<1>5. ASSUME NEW items \in SUBSET Known, Arrange(p, items)
      PROVE  TypeOK'
  <2>1. session' \in [Page -> EditSession]
    BY <1>5 DEF TypeOK, Arrange, EditSession
  <2>2. ui' \in [Page -> Editor]
    BY <1>5 DEF TypeOK, Arrange, Editor
  <2> QED BY <1>5, <2>1, <2>2 DEF TypeOK, Arrange
<1>6. CASE AddWidget(p)
  <2>1. session[p].working \in SUBSET Known
    BY DEF TypeOK, EditSession
  <2> QED BY <1>5, <1>6, <2>1 DEF AddWidget
<1>7. CASE HandleChange(p)
  <2>1. session[p].working \in SUBSET Known
    BY DEF TypeOK, EditSession
  <2> QED BY <1>5, <1>7, <2>1 DEF HandleChange
<1>8. CASE ResetLayout(p) \/ CopyFrom(p)
  BY <1>5, <1>8, LayoutAssumption DEF ResetLayout, CopyFrom
<1>9. CASE Save(p)
  <2>1. store[p].revision \in Nat /\ session[p].working \in SUBSET Known
    BY DEF TypeOK, Store, EditSession
  <2>2. ui' \in [Page -> Editor]
    BY <1>9 DEF TypeOK, Save, Editor
  <2>3. put' \in [Page -> Put]
    BY <1>9, <2>1 DEF TypeOK, Save, Put
  <2> QED BY <1>9, <2>2, <2>3 DEF TypeOK, Save
<1>10. CASE SaveRefused(p)
  <2>1. ui' \in [Page -> Editor]
    BY <1>10 DEF TypeOK, SaveRefused, Editor
  <2> QED BY <1>10, <2>1 DEF TypeOK, SaveRefused
<1>11. CASE KeepEditing(p)
  <2>1. ui' \in [Page -> Editor]
    BY <1>11 DEF TypeOK, KeepEditing, Editor
  <2> QED BY <1>11, <2>1 DEF TypeOK, KeepEditing
<1>12. CASE ReloadStoredLayout(p)
  <2>1. ui' \in [Page -> Editor]
    BY <1>12 DEF TypeOK, ReloadStoredLayout, Editor
  <2>2. session' \in [Page -> EditSession]
    BY <1>12 DEF TypeOK, ReloadStoredLayout, EditSession, NoSession
  <2>3. get' \in [Page -> Get]
    BY <1>12 DEF TypeOK, ReloadStoredLayout, Get, NoGet, Items
  <2> QED BY <1>12, <2>1, <2>2, <2>3 DEF TypeOK, ReloadStoredLayout
<1>13. QED
  BY <1>1, <1>2, <1>3, <1>4, <1>6, <1>7, <1>8, <1>9, <1>10, <1>11, <1>12 DEF User

-----------------------------------------------------------------------------
(* The pages a step is not about *)

\* Nothing of page q changes.
SamePage(q) ==
    /\ life'[q] = life[q] /\ store'[q] = store[q] /\ session'[q] = session[q]
    /\ ui'[q] = ui[q] /\ get'[q] = get[q] /\ put'[q] = put[q]

\* A step of the server for one page, of that page or of its user leaves the
\* other pages alone.
LEMMA StepIsOfOnePage ==
    ASSUME TypeOK, NEW p \in Page, NEW q \in Page, q # p,
           Server(p) \/ Answered(p) \/ User(p)
    PROVE  SamePage(q)
<1>1. CASE Server(p)
  BY <1>1 DEF TypeOK, SamePage, Server, HandleGetLayout, GetFails, HandleSaveLayout,
              CreateLayout, ReplaceLayout, PutFails
<1>2. CASE Answered(p)
  BY <1>2 DEF TypeOK, SamePage, Answered, LoadSettles, SaveLands, SaveFails
<1>3. CASE User(p)
  BY <1>3 DEF TypeOK, SamePage, User, OpenPage, LeavePage, StartEditing, CloseEditing,
              AddWidget, HandleChange, ResetLayout, CopyFrom, Arrange, Save, SaveRefused,
              KeepEditing, ReloadStoredLayout
<1>4. QED BY <1>1, <1>2, <1>3

\* The rows have numbers 1 to Revision.
LEMMA RowTypes ==
    ASSUME TypeOK
    PROVE  Revision \in Nat /\ \A i \in 1 .. Revision : stored[i] \in Version
  BY LenProperties, ElementOfSeq DEF TypeOK, Revision

\* A page that nothing happens to stays good while the row stays as it is ...
LEMMA Undisturbed ==
    ASSUME NEW q \in Page, PageGood(q), SamePage(q), stored' = stored
    PROVE  PageGood(q)'
  BY DEF SamePage, PageGood, UnopenedIsBlank, SessionIsOfTheStore, ReadsWithdrawEdit,
         WriteIsOfTheSession, RevisionsBehind, NotBySince, NothingUnaccounted, Accounted,
         ConflictReal, Revision

\* ... and while somebody else replaces the row.
LEMMA ReplacedByAnother ==
    ASSUME TypeOK, NEW q \in Page, PageGood(q), SamePage(q),
           NEW v \in Version, v.by # q, stored' = Append(stored, v)
    PROVE  PageGood(q)'
<1>1. /\ Revision \in Nat /\ Len(stored) = Revision
      /\ Revision' = Revision + 1 /\ Len(stored') = Revision + 1
      /\ \A i \in 1 .. Revision : stored'[i] = stored[i]
      /\ stored'[Revision + 1] = v
  BY AppendProperties, LenProperties DEF TypeOK, Revision
<1>2. UnopenedIsBlank(q)' /\ SessionIsOfTheStore(q)' /\ ReadsWithdrawEdit(q)'
      /\ WriteIsOfTheSession(q)'
  BY DEF SamePage, PageGood, UnopenedIsBlank, SessionIsOfTheStore, ReadsWithdrawEdit,
         WriteIsOfTheSession
<1>3. ASSUME NEW n \in Nat, NotBySince(q, n, stored) PROVE NotBySince(q, n, stored')
  <2>1. ASSUME NEW i \in n + 1 .. Revision + 1 PROVE stored'[i].by # q
    <3>1. CASE i = Revision + 1
      BY <1>1, <3>1
    <3>2. CASE i # Revision + 1
      <4>1. i \in 1 .. Revision /\ i \in n + 1 .. Revision
        BY <1>1, <3>2
      <4> QED BY <1>1, <1>3, <4>1 DEF NotBySince
    <3> QED BY <3>1, <3>2
  <2> QED BY <1>1, <2>1 DEF NotBySince
<1>4. /\ store[q].revision \in Nat /\ session[q].revision \in Nat
      /\ get[q].revision \in Nat /\ put[q].claim \in Nat /\ put[q].claim + 1 \in Nat
  BY DEF TypeOK, Store, EditSession, Get, Put
<1>5. RevisionsBehind(q)'
  <2>1. store[q].revision <= Revision'
    BY <1>1, <1>4 DEF PageGood, RevisionsBehind
  <2>2. store[q].observed /\ put[q].at \notin {"stored", "failed"} =>
            NotBySince(q, store[q].revision, stored')
    BY <1>3, <1>4 DEF PageGood, RevisionsBehind
  <2>3. get[q].at = "read" =>
            get[q].revision <= Revision' /\ NotBySince(q, get[q].revision, stored')
    BY <1>1, <1>3, <1>4 DEF PageGood, RevisionsBehind
  <2>4. /\ put[q].at = "create" => put[q].claim = 0
        /\ put[q].at = "conflict" => put[q].claim < Revision'
    BY <1>1, <1>4 DEF PageGood, RevisionsBehind
  <2>5. put[q].at = "stored" =>
            /\ put[q].claim + 1 <= Revision'
            /\ NotBySince(q, put[q].claim + 1, stored')
            /\ stored'[put[q].claim + 1].items = put[q].items
    BY <1>1, <1>3, <1>4 DEF PageGood, RevisionsBehind
  <2> QED
    BY <2>1, <2>2, <2>3, <2>4, <2>5 DEF SamePage, RevisionsBehind
<1>6. NothingUnaccounted(q)'
  <2>1. ASSUME NEW n \in Nat, n <= Revision, NEW items, Accounted(items, n, stored)
        PROVE  Accounted(items, n, stored')
    BY <1>1, <2>1 DEF Accounted
  <2>2. get[q].at = "read" =>
            Accounted(get[q].items \cup get[q].withheld, get[q].revision, stored')
    BY <1>4, <2>1 DEF PageGood, RevisionsBehind, NothingUnaccounted
  <2>3. store[q].observed =>
            Accounted(store[q].layout \cup store[q].dropped \cup store[q].withheld,
                      store[q].revision, stored')
    BY <1>4, <2>1 DEF PageGood, RevisionsBehind, NothingUnaccounted
  <2> QED BY <2>2, <2>3 DEF SamePage, NothingUnaccounted
<1>7. ConflictReal(q)'
  <2>1. ASSUME ui[q].conflict
        PROVE  \E i \in session[q].revision + 1 .. Revision' : stored'[i].by # q
    <3>1. PICK i \in session[q].revision + 1 .. Revision : stored[i].by # q
      BY <2>1 DEF PageGood, ConflictReal
    <3> QED BY <1>1, <1>4, <3>1
  <2> QED BY <2>1 DEF SamePage, ConflictReal
<1>8. QED BY <1>2, <1>5, <1>6, <1>7 DEF PageGood

-----------------------------------------------------------------------------
(* The server's steps for page p *)

\* A read answers with the newest version, all of which it shows or withholds.
LEMMA GetGood ==
    ASSUME LayoutInv, NEW p \in Page, HandleGetLayout(p) \/ GetFails(p)
    PROVE  PageGood(p)'
<1>1. TypeOK /\ PageGood(p)
  BY DEF LayoutInv
<1>2. /\ stored' = stored /\ life' = life /\ store' = store
      /\ session' = session /\ ui' = ui /\ put' = put /\ Revision' = Revision
  BY DEF HandleGetLayout, GetFails, Revision
<1>3. /\ get[p].at \in {"sent", "read"} /\ get'[p].at \in {"read", "failed"}
      /\ get'[p].at = "read" =>
          /\ get'[p].revision = Revision
          /\ Revision > 0 => Row \subseteq get'[p].items \cup get'[p].withheld
  <2>1. get[p] \in Get
    BY <1>1 DEF TypeOK
  <2>2. CASE HandleGetLayout(p)
    <3> DEFINE items == IF Revision = 0 THEN {} ELSE Row
               withheld == withholdUnauthorized(items)
    <3>1. get'[p] = [get[p] EXCEPT !.at = "read", !.items = items \ withheld,
                                   !.revision = Revision, !.withheld = withheld]
      BY <1>1, <2>2 DEF TypeOK, HandleGetLayout
    <3>2. Revision > 0 => Row \subseteq (items \ withheld) \cup withheld
      BY <1>1, RowTypes
    <3> HIDE DEF items, withheld
    <3>3. /\ get'[p].at = "read" /\ get'[p].items = items \ withheld
          /\ get'[p].revision = Revision /\ get'[p].withheld = withheld
      BY <2>1, <3>1 DEF Get
    <3>4. get[p].at = "sent"
      BY <2>2 DEF HandleGetLayout
    <3> QED BY <3>2, <3>3, <3>4
  <2>3. CASE GetFails(p)
    BY <1>1, <2>1, <2>3 DEF TypeOK, Get, GetFails
  <2> QED BY <2>2, <2>3
<1>4. UnopenedIsBlank(p)' /\ SessionIsOfTheStore(p)' /\ ReadsWithdrawEdit(p)'
      /\ WriteIsOfTheSession(p)' /\ ConflictReal(p)'
  BY <1>1, <1>2, <1>3 DEF PageGood, UnopenedIsBlank, SessionIsOfTheStore,
                          ReadsWithdrawEdit, WriteIsOfTheSession, ConflictReal, NoGet
<1>5. Revision \in Nat /\ NotBySince(p, Revision, stored)
  BY <1>1, RowTypes DEF NotBySince, Revision
<1>6. RevisionsBehind(p)' /\ NothingUnaccounted(p)'
  BY <1>1, <1>2, <1>3, <1>5
     DEF PageGood, RevisionsBehind, NothingUnaccounted, Accounted, Row
<1>7. QED BY <1>4, <1>6 DEF PageGood

\* The write of page p goes on at the server under the same claim.
PutGoesOn(p, next) ==
    /\ put[p].at # "idle" /\ put' = [put EXCEPT ![p].at = next]
    /\ UNCHANGED <<revoked, life, store, session, ui, get>>

\* A write that is not stored leaves the row, and is refused only when its claim
\* is behind the row.
LEMMA PutUnstoredGood ==
    ASSUME LayoutInv, NEW p \in Page, UNCHANGED stored,
           NEW next \in {"create", "replace", "conflict", "failed"}, PutGoesOn(p, next),
           next = "create" => put[p].claim = 0,
           next = "conflict" => put[p].claim < Revision,
           next # "failed" => put[p].at \in {"sent", "create", "replace"}
    PROVE  PageGood(p)'
<1>1. TypeOK /\ PageGood(p)
  BY DEF LayoutInv
<1>2. /\ stored' = stored /\ life' = life /\ store' = store /\ session' = session
      /\ ui' = ui /\ get' = get /\ Revision' = Revision /\ put[p].at # "idle"
  BY DEF PutGoesOn, Revision
<1>3. put'[p].at = next /\ put'[p].claim = put[p].claim
  BY <1>1 DEF TypeOK, Put, PutGoesOn
<1>4. UnopenedIsBlank(p)' /\ SessionIsOfTheStore(p)' /\ ReadsWithdrawEdit(p)'
      /\ WriteIsOfTheSession(p)' /\ ConflictReal(p)' /\ NothingUnaccounted(p)'
  BY <1>1, <1>2, <1>3
     DEF PageGood, UnopenedIsBlank, SessionIsOfTheStore, ReadsWithdrawEdit,
         WriteIsOfTheSession, ConflictReal, NothingUnaccounted, NoPut
<1>5. RevisionsBehind(p)'
  BY <1>1, <1>2, <1>3 DEF PageGood, RevisionsBehind
<1>6. QED BY <1>4, <1>5 DEF PageGood

\* A write that is stored is the one version after the claim, and the page's own.
LEMMA PutStoredGood ==
    ASSUME LayoutInv, NEW p \in Page, put[p].claim = Revision, PutGoesOn(p, "stored"),
           stored' = Append(stored, [items |-> put[p].items, by |-> p])
    PROVE  PageGood(p)'
<1> DEFINE v == [items |-> put[p].items, by |-> p]
<1>1. TypeOK /\ PageGood(p)
  BY DEF LayoutInv
<1>2. /\ life' = life /\ store' = store /\ session' = session
      /\ ui' = ui /\ get' = get /\ put[p].at # "idle"
  BY DEF PutGoesOn
<1>3. put'[p].at = "stored" /\ put'[p].claim = Revision /\ put'[p].items = put[p].items
  BY <1>1 DEF TypeOK, Put, PutGoesOn
<1>4. /\ Revision \in Nat /\ Revision' = Revision + 1 /\ Len(stored') = Revision + 1
      /\ \A i \in 1 .. Revision : stored'[i] = stored[i]
      /\ stored'[Revision + 1] = v
  <2>1. v \in Version
    BY <1>1, LayoutAssumption DEF TypeOK, Put, Version, Items
  <2> QED BY <1>1, <2>1, AppendProperties, LenProperties DEF TypeOK, Revision
<1>5. session[p].open /\ get[p].at = "idle" /\ ~ui[p].conflict
      /\ store[p].revision = Revision
  BY <1>1, <1>2 DEF PageGood, WriteIsOfTheSession, SessionIsOfTheStore
<1>6. UnopenedIsBlank(p)' /\ SessionIsOfTheStore(p)' /\ ReadsWithdrawEdit(p)'
      /\ WriteIsOfTheSession(p)' /\ ConflictReal(p)'
  BY <1>1, <1>2, <1>3, <1>5
     DEF PageGood, UnopenedIsBlank, SessionIsOfTheStore, ReadsWithdrawEdit,
         WriteIsOfTheSession, ConflictReal, NoPut
<1>7. NotBySince(p, Revision + 1, stored') /\ stored'[Revision + 1].items = put[p].items
  BY <1>4 DEF NotBySince
<1>8. RevisionsBehind(p)'
  BY <1>2, <1>3, <1>4, <1>5, <1>7 DEF RevisionsBehind
<1>9. NothingUnaccounted(p)'
  BY <1>1, <1>2, <1>4, <1>5 DEF PageGood, NothingUnaccounted, Accounted
<1>10. QED BY <1>6, <1>8, <1>9 DEF PageGood

\* Only the write of page p can replace the row in the server's step for p.
LEMMA ServerGood ==
    ASSUME LayoutInv, NEW p \in Page, Server(p)
    PROVE  LayoutInv'
<1> DEFINE v == [items |-> put[p].items, by |-> p]
<1>1. TypeOK /\ PageGood(p) /\ Revision \in Nat /\ put[p].claim \in Nat
  BY RowTypes DEF LayoutInv, TypeOK, Put
<1>2. v \in Version /\ v.by = p
  BY <1>1, LayoutAssumption DEF TypeOK, Put, Version, Items
<1>3. put[p].at # "idle" => put[p].claim <= Revision
  BY <1>1 DEF PageGood, RevisionsBehind, WriteIsOfTheSession, SessionIsOfTheStore
<1>4. PageGood(p)' /\ (stored' = stored \/ stored' = Append(stored, v))
  <2>1. CASE HandleGetLayout(p) \/ GetFails(p)
    BY <2>1, GetGood DEF HandleGetLayout, GetFails
  <2>2. CASE HandleSaveLayout(p)
    <3> DEFINE next == CASE Revision = 0 /\ put[p].claim = 0 -> "create"
                         [] Revision > 0 /\ put[p].claim > 0 -> "replace"
                         [] OTHER -> "conflict"
    <3>1. /\ put[p].at = "sent" /\ put' = [put EXCEPT ![p].at = next]
          /\ UNCHANGED <<stored, revoked, life, store, session, ui, get>>
      BY <2>2 DEF HandleSaveLayout
    <3>2. /\ next \in {"create", "replace", "conflict"}
          /\ next = "create" => put[p].claim = 0
          /\ next = "conflict" => put[p].claim < Revision
      BY <1>1, <1>3, <3>1
    <3> HIDE DEF next
    <3>3. PutGoesOn(p, next)
      BY <3>1 DEF PutGoesOn
    <3> QED BY <3>1, <3>2, <3>3, PutUnstoredGood
  <2>3. CASE CreateLayout(p)
    <3>1. put[p].claim = 0
      BY <1>1, <2>3 DEF PageGood, RevisionsBehind, CreateLayout
    <3>2. CASE Revision = 0
      <4>1. stored = << >>
        BY <1>1, <3>2, EmptySeq DEF TypeOK, Revision
      <4>2. stored' = Append(stored, v)
        BY <2>3, <3>2, <4>1 DEF CreateLayout
      <4>3. PutGoesOn(p, "stored")
        BY <2>3, <3>2 DEF CreateLayout, PutGoesOn
      <4> QED BY <3>1, <3>2, <4>2, <4>3, PutStoredGood
    <3>3. CASE Revision # 0
      <4>1. PutGoesOn(p, "conflict") /\ stored' = stored /\ put[p].at = "create"
        BY <2>3, <3>3 DEF CreateLayout, PutGoesOn
      <4> QED BY <1>1, <3>1, <3>3, <4>1, PutUnstoredGood
    <3> QED BY <3>2, <3>3
  <2>4. CASE ReplaceLayout(p)
    <3>1. CASE Revision = put[p].claim
      <4>1. PutGoesOn(p, "stored") /\ stored' = Append(stored, v)
        BY <2>4, <3>1 DEF ReplaceLayout, PutGoesOn
      <4> QED BY <3>1, <4>1, PutStoredGood
    <3>2. CASE Revision # put[p].claim
      <4>1. PutGoesOn(p, "conflict") /\ stored' = stored /\ put[p].at = "replace"
        BY <2>4, <3>2 DEF ReplaceLayout, PutGoesOn
      <4> QED BY <1>1, <1>3, <3>2, <4>1, PutUnstoredGood
    <3> QED BY <3>1, <3>2
  <2>5. CASE PutFails(p)
    <3>1. PutGoesOn(p, "failed") /\ stored' = stored
      BY <2>5 DEF PutFails, PutGoesOn
    <3> QED BY <3>1, PutUnstoredGood
  <2> QED BY <2>1, <2>2, <2>3, <2>4, <2>5 DEF Server
<1>5. ASSUME NEW q \in Page, q # p PROVE PageGood(q)'
  <2>1. PageGood(q) /\ SamePage(q)
    BY <1>5, StepIsOfOnePage DEF LayoutInv
  <2> HIDE DEF v
  <2> QED BY <1>1, <1>2, <1>4, <1>5, <2>1, Undisturbed, ReplacedByAnother
<1>6. TypeOK'
  BY <1>1, ServerTyped
<1>7. QED BY <1>4, <1>5, <1>6 DEF LayoutInv

-----------------------------------------------------------------------------
(* The steps of page p and of its user: the row stays as it is *)

\* When the rest of the invariant survives a step on p, all of it does.
LEMMA PageStep ==
    ASSUME LayoutInv, NEW p \in Page, Answered(p) \/ User(p), UNCHANGED stored,
           PageGood(p)'
    PROVE  LayoutInv'
<1>1. TypeOK'
  BY AnsweredTyped, UserTyped DEF LayoutInv
<1>2. ASSUME NEW q \in Page, q # p PROVE PageGood(q)'
  BY <1>2, StepIsOfOnePage, Undisturbed DEF LayoutInv
<1> QED BY <1>1, <1>2 DEF LayoutInv

\* The load settles: no session is open, so none loses its footing, and what
\* the store now vouches for is what the read found.
LEMMA LoadSettlesGood ==
    ASSUME LayoutInv, NEW p \in Page, LoadSettles(p)
    PROVE  PageGood(p)'
<1> DEFINE s == CASE get[p].overtaken -> store[p]
                  [] get[p].at = "read" -> Loaded(get[p])
                  [] OTHER -> LoadFailed(store[p])
<1>1. TypeOK /\ PageGood(p)
  BY DEF LayoutInv
<1>2. /\ stored' = stored /\ life' = life /\ session' = session /\ put' = put
      /\ Revision' = Revision /\ Open(p) /\ get[p].at \in {"read", "failed"}
  BY DEF LoadSettles, Revision
<1>3. store'[p] = s /\ get'[p].at = "idle"
  BY <1>1 DEF TypeOK, LoadSettles, NoGet
<1>4. ui'[p].conflict = ui[p].conflict
  <2>1. \/ ui'[p] = [ui[p] EXCEPT !.reloading = FALSE]
        \/ \E items : ui'[p] = [adoptLoadedLayout(ui[p], items) EXCEPT !.reloading = FALSE]
    BY <1>1 DEF TypeOK, LoadSettles
  <2>2. ui[p] \in Editor
    BY <1>1 DEF TypeOK
  <2> QED BY <2>1, <2>2 DEF adoptLoadedLayout, Editor
<1>5. ~session[p].open /\ put[p].at = "idle"
  BY <1>1, <1>2 DEF PageGood, SessionIsOfTheStore, WriteIsOfTheSession
<1>6. UnopenedIsBlank(p)' /\ SessionIsOfTheStore(p)' /\ ReadsWithdrawEdit(p)'
      /\ WriteIsOfTheSession(p)' /\ ConflictReal(p)'
  BY <1>1, <1>2, <1>3, <1>4, <1>5
     DEF PageGood, UnopenedIsBlank, SessionIsOfTheStore, ReadsWithdrawEdit,
         WriteIsOfTheSession, ConflictReal, Open
<1>7. /\ s.revision <= Revision
      /\ s.observed => /\ NotBySince(p, s.revision, stored)
                       /\ Accounted(s.layout \cup s.dropped \cup s.withheld, s.revision, stored)
  <2>1. CASE s = store[p]
    BY <1>1, <1>5, <2>1 DEF PageGood, RevisionsBehind, NothingUnaccounted
  <2>2. CASE s = Loaded(get[p]) /\ get[p].at = "read"
    <3>1. /\ s.revision = get[p].revision /\ s.withheld = get[p].withheld
          /\ s.dropped = get[p].items \ Known
          /\ get[p].revision # 0 => s.layout = get[p].items \cap Known
      BY <2>2 DEF Loaded, dropUnknownWidgets
    <3>2. get[p].revision \in Nat
      BY <1>1 DEF TypeOK, Get
    <3> HIDE DEF s
    <3> QED
      BY <1>1, <2>2, <3>1, <3>2 DEF PageGood, RevisionsBehind, NothingUnaccounted, Accounted
  <2>3. CASE s = LoadFailed(store[p])
    <3>1. s.revision = store[p].revision /\ ~s.observed
      BY <1>1, <2>3 DEF TypeOK, Store, LoadFailed
    <3> HIDE DEF s
    <3> QED BY <1>1, <3>1 DEF PageGood, RevisionsBehind
  <2> QED BY <1>2, <2>1, <2>2, <2>3
<1> HIDE DEF s
<1>8. RevisionsBehind(p)' /\ NothingUnaccounted(p)'
  BY <1>2, <1>3, <1>5, <1>7 DEF RevisionsBehind, NothingUnaccounted
<1>9. QED BY <1>6, <1>8 DEF PageGood

\* The saved version is the page's own, and the newest of its own.
LEMMA SaveLandsGood ==
    ASSUME LayoutInv, NEW p \in Page, SaveLands(p)
    PROVE  PageGood(p)'
<1>1. TypeOK /\ PageGood(p)
  BY DEF LayoutInv
<1>2. /\ stored' = stored /\ life' = life /\ Revision' = Revision
      /\ Open(p) /\ put[p].at = "stored"
  BY DEF SaveLands, Revision
<1>3. /\ store'[p].layout = put[p].items /\ store'[p].revision = put[p].claim + 1
  <2>1. store[p] \in Store
    BY <1>1 DEF TypeOK
  <2>2. store'[p] = [store[p] EXCEPT !.layout = put[p].items, !.revision = put[p].claim + 1,
                          !.observed = TRUE, !.loaded = TRUE, !.unavailable = FALSE]
    BY <1>1 DEF TypeOK, SaveLands
  <2> QED BY <2>1, <2>2 DEF Store
<1>4. ~session'[p].open /\ put'[p].at = "idle"
  BY <1>1 DEF TypeOK, SaveLands, NoSession, NoPut
<1>5. ui'[p].conflict = ui[p].conflict
  BY <1>1 DEF TypeOK, SaveLands, Editor
<1>6. get'[p].at = get[p].at
  BY <1>1 DEF TypeOK, SaveLands, Get
<1>7. ~ui[p].conflict /\ get[p].at = "idle"
  BY <1>1, <1>2 DEF PageGood, WriteIsOfTheSession, SessionIsOfTheStore
<1>8. UnopenedIsBlank(p)' /\ SessionIsOfTheStore(p)' /\ ReadsWithdrawEdit(p)'
      /\ WriteIsOfTheSession(p)' /\ ConflictReal(p)'
  BY <1>2, <1>4, <1>5, <1>6, <1>7
     DEF UnopenedIsBlank, SessionIsOfTheStore, ReadsWithdrawEdit,
         WriteIsOfTheSession, ConflictReal, Open
<1>9. RevisionsBehind(p)' /\ NothingUnaccounted(p)'
  BY <1>1, <1>2, <1>3, <1>4, <1>6, <1>7
     DEF PageGood, RevisionsBehind, NothingUnaccounted, Accounted
<1>10. QED BY <1>8, <1>9 DEF PageGood

\* A conflict is told while the page vouches for nothing of its own having been
\* stored since its claim, which the row has left behind.
LEMMA SaveFailsGood ==
    ASSUME LayoutInv, NEW p \in Page, SaveFails(p)
    PROVE  PageGood(p)'
<1>1. TypeOK /\ PageGood(p)
  BY DEF LayoutInv
<1>2. /\ stored' = stored /\ life' = life /\ Revision' = Revision /\ session' = session
      /\ get' = get /\ Open(p) /\ put[p].at \in {"conflict", "failed"}
  BY DEF SaveFails, Revision
<1>3. store'[p] = [store[p] EXCEPT !.observed = FALSE] /\ put'[p].at = "idle"
  BY <1>1 DEF TypeOK, SaveFails, NoPut
<1>4. /\ ~store'[p].observed /\ store'[p].revision = store[p].revision
      /\ store'[p].layout = store[p].layout /\ store'[p].loaded = store[p].loaded
  BY <1>1, <1>3 DEF TypeOK, Store
<1>5. ui'[p].conflict = (put[p].at = "conflict") /\ ui'[p].reloading = ui[p].reloading
  BY <1>1 DEF TypeOK, SaveFails, Editor
<1>6. UnopenedIsBlank(p)' /\ SessionIsOfTheStore(p)' /\ ReadsWithdrawEdit(p)'
      /\ WriteIsOfTheSession(p)'
  BY <1>1, <1>2, <1>3, <1>4, <1>5
     DEF PageGood, UnopenedIsBlank, SessionIsOfTheStore, ReadsWithdrawEdit,
         WriteIsOfTheSession, Open
<1>7. ConflictReal(p)'
  <2>1. ASSUME put[p].at = "conflict"
        PROVE  \E i \in session[p].revision + 1 .. Revision : stored[i].by # p
    <3>1. /\ NotBySince(p, session[p].revision, stored) /\ session[p].revision < Revision
          /\ session[p].revision \in Nat /\ Revision \in Nat
      BY <1>1, <2>1, RowTypes DEF TypeOK, EditSession, PageGood, RevisionsBehind,
                                  WriteIsOfTheSession, SessionIsOfTheStore
    <3>2. Revision \in session[p].revision + 1 .. Revision
      BY <3>1
    <3>3. stored[Revision].by # p
      BY <3>1, <3>2 DEF NotBySince, Revision
    <3> QED BY <3>2, <3>3
  <2> QED BY <1>2, <1>5, <2>1 DEF ConflictReal
<1>8. RevisionsBehind(p)' /\ NothingUnaccounted(p)'
  BY <1>1, <1>2, <1>3, <1>4 DEF PageGood, RevisionsBehind, NothingUnaccounted
<1>9. QED BY <1>6, <1>7, <1>8 DEF PageGood

\* Opening and leaving the page.
LEMMA VisitGood ==
    ASSUME LayoutInv, NEW p \in Page, OpenPage(p) \/ LeavePage(p)
    PROVE  PageGood(p)'
<1>1. TypeOK /\ PageGood(p)
  BY DEF LayoutInv
<1>2. CASE OpenPage(p)
  <2>1. /\ stored' = stored /\ store' = store /\ session' = session /\ ui' = ui
        /\ put' = put /\ Revision' = Revision /\ life[p] = "unopened"
    BY <1>2 DEF OpenPage, Revision
  <2>2. get'[p].at = "sent" /\ life'[p] = "open"
    BY <1>1, <1>2 DEF TypeOK, OpenPage, Get
  <2>3. /\ ~store[p].loaded /\ ~store[p].observed /\ store[p].revision = 0
        /\ ~session[p].open /\ ~ui[p].conflict /\ put[p].at = "idle"
    BY <1>1, <2>1 DEF PageGood, UnopenedIsBlank, Unloaded, NoSession, Fresh, NoPut
  <2>4. Revision \in Nat
    BY <1>1, RowTypes
  <2> QED
    BY <2>1, <2>2, <2>3, <2>4
       DEF PageGood, UnopenedIsBlank, SessionIsOfTheStore, ReadsWithdrawEdit,
           WriteIsOfTheSession, RevisionsBehind, NothingUnaccounted, ConflictReal
<1>3. CASE LeavePage(p)
  <2>1. /\ stored' = stored /\ store' = store /\ session' = session /\ ui' = ui
        /\ get' = get /\ put' = put /\ Revision' = Revision
    BY <1>3 DEF LeavePage, Revision
  <2>2. life'[p] = "left"
    BY <1>1, <1>3 DEF TypeOK, LeavePage
  <2> QED
    BY <1>1, <2>1, <2>2
       DEF PageGood, UnopenedIsBlank, SessionIsOfTheStore, ReadsWithdrawEdit,
           WriteIsOfTheSession, RevisionsBehind, NothingUnaccounted, ConflictReal
<1>4. QED BY <1>2, <1>3

\* A session opens on the store's revision and layout while no read is out.
LEMMA StartEditingGood ==
    ASSUME LayoutInv, NEW p \in Page, StartEditing(p)
    PROVE  PageGood(p)'
<1>1. TypeOK /\ PageGood(p)
  BY DEF LayoutInv
<1>2. /\ stored' = stored /\ life' = life /\ store' = store /\ ui' = ui
      /\ get' = get /\ put' = put /\ Revision' = Revision
      /\ Open(p) /\ ~ui[p].conflict /\ ~session[p].open
      /\ store[p].loaded /\ ~ui[p].reloading
  BY DEF StartEditing, AtEditor, EditDisabled, Revision
<1>3. /\ session'[p].open /\ session'[p].revision = store[p].revision
      /\ session'[p].baseline = store[p].layout
  BY <1>1 DEF TypeOK, StartEditing, beginEdit
<1>4. get[p].at = "idle" /\ put[p].at = "idle"
  BY <1>1, <1>2 DEF PageGood, ReadsWithdrawEdit, WriteIsOfTheSession
<1>5. QED
  BY <1>1, <1>2, <1>3, <1>4
     DEF PageGood, UnopenedIsBlank, SessionIsOfTheStore, ReadsWithdrawEdit, Open,
         WriteIsOfTheSession, RevisionsBehind, NothingUnaccounted, ConflictReal

\* An edit changes the arrangement and nothing a session stands on.
LEMMA ArrangeGood ==
    ASSUME LayoutInv, NEW p \in Page, NEW items, Arrange(p, items)
    PROVE  PageGood(p)'
<1>1. TypeOK /\ PageGood(p)
  BY DEF LayoutInv
<1>2. /\ stored' = stored /\ life' = life /\ store' = store /\ get' = get /\ put' = put
      /\ Revision' = Revision /\ Open(p)
  BY DEF Arrange, AtEditor, Revision
<1>3. /\ session'[p].open = session[p].open /\ session'[p].revision = session[p].revision
      /\ session'[p].baseline = session[p].baseline
  BY <1>1 DEF TypeOK, Arrange, EditSession
<1>4. /\ ui'[p].saving = ui[p].saving /\ ui'[p].conflict = ui[p].conflict
      /\ ui'[p].reloading = ui[p].reloading
  BY <1>1 DEF TypeOK, Arrange, Editor
<1>5. QED
  BY <1>1, <1>2, <1>3, <1>4
     DEF PageGood, UnopenedIsBlank, SessionIsOfTheStore, ReadsWithdrawEdit, Open,
         WriteIsOfTheSession, RevisionsBehind, NothingUnaccounted, ConflictReal

\* Only a session that is not being saved is closed.
LEMMA CloseEditingGood ==
    ASSUME LayoutInv, NEW p \in Page, CloseEditing(p)
    PROVE  PageGood(p)'
<1>1. TypeOK /\ PageGood(p)
  BY DEF LayoutInv
<1>2. /\ stored' = stored /\ life' = life /\ store' = store /\ get' = get /\ put' = put
      /\ Revision' = Revision /\ Open(p) /\ ~ui[p].saving /\ ~ui[p].conflict
  BY DEF CloseEditing, AtEditor, Revision
<1>3. ~session'[p].open
  BY <1>1 DEF TypeOK, CloseEditing, NoSession
<1>4. ui'[p].conflict = ui[p].conflict /\ ui'[p].reloading = ui[p].reloading
  BY <1>1 DEF TypeOK, CloseEditing, Editor
<1>5. put[p].at = "idle"
  BY <1>1, <1>2 DEF PageGood, WriteIsOfTheSession
<1>6. QED
  BY <1>1, <1>2, <1>3, <1>4, <1>5
     DEF PageGood, UnopenedIsBlank, SessionIsOfTheStore, ReadsWithdrawEdit, Open,
         WriteIsOfTheSession, RevisionsBehind, NothingUnaccounted, ConflictReal

\* A save claims the revision its session started from.
LEMMA SaveGood ==
    ASSUME LayoutInv, NEW p \in Page, Save(p)
    PROVE  PageGood(p)'
<1>1. TypeOK /\ PageGood(p)
  BY DEF LayoutInv
<1>2. /\ stored' = stored /\ life' = life /\ store' = store /\ session' = session
      /\ get' = get /\ Revision' = Revision /\ Open(p) /\ session[p].open
      /\ ~ui[p].saving /\ ~ui[p].conflict /\ session[p].revision = store[p].revision
      /\ store[p].observed /\ store[p].withheld = {}
  BY DEF Save, SaveOffered, AtEditor, StoreAccepts, Revision
<1>3. put'[p].at = "sent" /\ put'[p].claim = store[p].revision
  BY <1>1 DEF TypeOK, Save
<1>4. /\ ui'[p].saving /\ ui'[p].conflict = ui[p].conflict
      /\ ui'[p].reloading = ui[p].reloading
  BY <1>1 DEF TypeOK, Save, Editor
<1>5. put[p].at = "idle"
  BY <1>1, <1>2 DEF PageGood, WriteIsOfTheSession
<1>6. QED
  BY <1>1, <1>2, <1>3, <1>4, <1>5
     DEF PageGood, UnopenedIsBlank, SessionIsOfTheStore, ReadsWithdrawEdit, Open,
         WriteIsOfTheSession, RevisionsBehind, NothingUnaccounted, ConflictReal

\* A session never disagrees with its store, so Save refused before the request
\* is no conflict.
LEMMA SaveRefusedGood ==
    ASSUME LayoutInv, NEW p \in Page, SaveRefused(p)
    PROVE  PageGood(p)'
<1>1. TypeOK /\ PageGood(p)
  BY DEF LayoutInv
<1>2. /\ stored' = stored /\ life' = life /\ store' = store /\ session' = session
      /\ get' = get /\ put' = put /\ Revision' = Revision /\ Open(p) /\ session[p].open
      /\ ~ui[p].saving
  BY DEF SaveRefused, SaveOffered, AtEditor, Revision
<1>3. session[p].revision = store[p].revision /\ put[p].at = "idle"
  BY <1>1, <1>2 DEF PageGood, SessionIsOfTheStore, WriteIsOfTheSession
<1>4. /\ ui'[p].conflict = (session[p].revision # store[p].revision)
      /\ ui'[p].reloading = ui[p].reloading
  <2>1. ui[p] \in Editor
    BY <1>1 DEF TypeOK
  <2> QED BY <1>1, <2>1 DEF TypeOK, SaveRefused, Editor
<1>5. QED
  BY <1>1, <1>2, <1>3, <1>4
     DEF PageGood, UnopenedIsBlank, SessionIsOfTheStore, ReadsWithdrawEdit, Open,
         WriteIsOfTheSession, RevisionsBehind, NothingUnaccounted, ConflictReal

\* The two answers to the conflict dialog.
LEMMA ConflictAnsweredGood ==
    ASSUME LayoutInv, NEW p \in Page, KeepEditing(p) \/ ReloadStoredLayout(p)
    PROVE  PageGood(p)'
<1>1. TypeOK /\ PageGood(p)
  BY DEF LayoutInv
<1>2. /\ stored' = stored /\ life' = life /\ store' = store /\ put' = put
      /\ Revision' = Revision /\ Open(p) /\ ui[p].conflict
  BY DEF KeepEditing, ReloadStoredLayout, Revision
<1>3. put[p].at = "idle"
  BY <1>1, <1>2 DEF PageGood, WriteIsOfTheSession
<1>4. CASE KeepEditing(p)
  <2>1. session' = session /\ get' = get
    BY <1>4 DEF KeepEditing
  <2>2. ~ui'[p].conflict /\ ui'[p].reloading = ui[p].reloading
    BY <1>1, <1>4 DEF TypeOK, KeepEditing, Editor
  <2> QED
    BY <1>1, <1>2, <1>3, <2>1, <2>2
       DEF PageGood, UnopenedIsBlank, SessionIsOfTheStore, ReadsWithdrawEdit, Open,
           WriteIsOfTheSession, RevisionsBehind, NothingUnaccounted, ConflictReal
<1>5. CASE ReloadStoredLayout(p)
  <2>1. ~session'[p].open /\ get'[p].at = "sent"
    BY <1>1, <1>5 DEF TypeOK, ReloadStoredLayout, NoSession, NoGet
  <2>2. ~ui'[p].conflict /\ ui'[p].reloading
    BY <1>1, <1>5 DEF TypeOK, ReloadStoredLayout, Editor
  <2> QED
    BY <1>1, <1>2, <1>3, <2>1, <2>2
       DEF PageGood, UnopenedIsBlank, SessionIsOfTheStore, ReadsWithdrawEdit, Open,
           WriteIsOfTheSession, RevisionsBehind, NothingUnaccounted, ConflictReal
<1>6. QED BY <1>4, <1>5

-----------------------------------------------------------------------------
(* The invariant and what it gives *)

LEMMA InitGood == Init => LayoutInv
<1> SUFFICES ASSUME Init PROVE LayoutInv
  OBVIOUS
<1>1. TypeOK
  <2>1. [items |-> Widget, by |-> Nobody] \in Version
    BY DEF Version, Items
  <2>2. stored \in Seq(Version)
    <3> DEFINE v == [items |-> Widget, by |-> Nobody]
    <3>1. stored = << >> \/ stored = <<v>>
      BY DEF Init
    <3>2. v \in Version
      BY <2>1
    <3> HIDE DEF v
    <3>3. << >> \in Seq(Version) /\ <<v>> \in Seq(Version)
      BY <3>2
    <3> QED BY <3>1, <3>3
  <2>3. Unloaded \in Store /\ NoSession \in EditSession /\ Fresh \in Editor
    BY LayoutAssumption DEF Unloaded, Store, NoSession, EditSession, Fresh, Editor, Items
  <2>4. NoGet \in Get /\ NoPut \in Put
    BY DEF NoGet, Get, NoPut, Put, Items
  <2> QED BY <2>2, <2>3, <2>4 DEF Init, TypeOK
<1>2. ASSUME NEW p \in Page PROVE PageGood(p)
  <2>1. /\ store[p] = Unloaded /\ session[p] = NoSession /\ ui[p] = Fresh
        /\ get[p] = NoGet /\ put[p] = NoPut
    BY DEF Init
  <2>2. Revision \in Nat
    BY <1>1, RowTypes
  <2> QED
    BY <2>1, <2>2
       DEF PageGood, UnopenedIsBlank, SessionIsOfTheStore, ReadsWithdrawEdit,
           WriteIsOfTheSession, RevisionsBehind, NothingUnaccounted, ConflictReal,
           Unloaded, NoSession, Fresh, NoGet, NoPut
<1> QED BY <1>1, <1>2 DEF LayoutInv

LEMMA StepGood ==
    ASSUME LayoutInv, [Next]_vars
    PROVE  LayoutInv'
<1>1. ASSUME NEW p \in Page, Answered(p) PROVE LayoutInv'
  <2>1. PageGood(p)'
    BY <1>1, LoadSettlesGood, SaveLandsGood, SaveFailsGood DEF Answered
  <2>2. UNCHANGED stored
    BY <1>1 DEF Answered, LoadSettles, SaveLands, SaveFails
  <2> QED BY <1>1, <2>1, <2>2, PageStep
<1>2. ASSUME NEW p \in Page, User(p) PROVE LayoutInv'
  <2>1. PageGood(p)'
    BY <1>2, VisitGood, StartEditingGood, ArrangeGood, CloseEditingGood, SaveGood,
       SaveRefusedGood, ConflictAnsweredGood
       DEF User, AddWidget, HandleChange, ResetLayout, CopyFrom
  <2>2. UNCHANGED stored
    BY <1>2 DEF User, OpenPage, LeavePage, StartEditing, CloseEditing, AddWidget,
                HandleChange, ResetLayout, CopyFrom, Arrange, Save, SaveRefused,
                KeepEditing, ReloadStoredLayout
  <2> QED BY <1>2, <2>1, <2>2, PageStep
<1>3. CASE AccessChanges
  <2>1. TypeOK'
    BY <1>3 DEF LayoutInv, TypeOK, AccessChanges
  <2>2. \A q \in Page : SamePage(q)
    BY <1>3 DEF AccessChanges, SamePage
  <2> QED BY <1>3, <2>1, <2>2, Undisturbed DEF LayoutInv, AccessChanges
<1>4. CASE UNCHANGED vars
  <2>1. TypeOK'
    BY <1>4 DEF LayoutInv, TypeOK, vars
  <2>2. (\A q \in Page : SamePage(q)) /\ stored' = stored
    BY <1>4 DEF vars, SamePage
  <2> QED BY <2>1, <2>2, Undisturbed DEF LayoutInv
<1>5. QED BY <1>1, <1>2, <1>3, <1>4, ServerGood DEF Next

\* The inductive invariant holds in every reachable state.
LEMMA Invariant == Spec => []LayoutInv
<1>1. LayoutInv /\ [Next]_vars => LayoutInv'
  BY StepGood
<1>2. QED BY <1>1, InitGood, PTL DEF Spec

(* However many pages are open, whatever the network does and at any number *)
(* of revisions, a page that is told of a conflict is told of somebody      *)
(* else's save: SaveFails answers a claim the row has left behind, and the  *)
(* versions after it are not the page's.                                    *)
THEOREM ConflictsReal == Spec => []ConflictIsReal
<1>1. LayoutInv => ConflictIsReal
  BY DEF LayoutInv, PageGood, ConflictReal, ConflictIsReal
<1>2. QED BY <1>1, Invariant, PTL

\* The step that stores a write is a write of the session's own claim.
LEMMA StoredByWrite ==
    ASSUME LayoutInv, [Next]_vars, NEW p \in Page, put[p].at # "stored", put'[p].at = "stored"
    PROVE  CreateLayout(p) \/ ReplaceLayout(p)
<1>1. TypeOK
  BY DEF LayoutInv
<1>2. PICK q \in Page : Server(q) \/ Answered(q) \/ User(q)
  BY DEF Next, vars, AccessChanges
<1>3. q = p
  BY <1>1, <1>2, StepIsOfOnePage DEF SamePage
<1>4. put[p] \in Put
  BY <1>1 DEF TypeOK
<1>5. CASE Server(p)
  <2>1. ~HandleSaveLayout(p)
    <3>1. SUFFICES ASSUME HandleSaveLayout(p) PROVE put'[p].at # "stored"
      OBVIOUS
    <3> QED BY <1>1, <1>4, <3>1 DEF TypeOK, Put, HandleSaveLayout
  <2> QED BY <1>1, <1>4, <1>5, <2>1 DEF TypeOK, Put, Server, HandleGetLayout, GetFails, PutFails
<1>6. ~Answered(p)
  BY <1>1, <1>4 DEF TypeOK, Answered, LoadSettles, SaveLands, SaveFails, NoPut
<1>7. ~User(p)
  BY <1>1, <1>4 DEF TypeOK, User, OpenPage, LeavePage, StartEditing, CloseEditing, AddWidget,
                HandleChange, ResetLayout, CopyFrom, Arrange, Save, SaveRefused,
                KeepEditing, ReloadStoredLayout
<1>8. QED BY <1>2, <1>3, <1>5, <1>6, <1>7

(* No save takes out of the row what its page was not showing and had not   *)
(* announced as dropped: a page whose read was filtered does not save       *)
(* (saveLayout's withheld refusal), and one that saves stands on the row it *)
(* replaces.                                                                *)
THEOREM NothingUnseenVanishes == Spec => NothingVanishesUnseen
<1> DEFINE Seen ==
        \A p \in Page :
            put[p].at # "stored" /\ put'[p].at = "stored" /\ Revision > 0 =>
                Row \ put[p].items \subseteq session[p].baseline \cup store[p].dropped
<1>1. LayoutInv /\ [Next]_vars => Seen
  <2> SUFFICES ASSUME LayoutInv, [Next]_vars, NEW p \in Page, Revision > 0,
                      put[p].at # "stored", put'[p].at = "stored"
               PROVE  Row \subseteq session[p].baseline \cup store[p].dropped
    OBVIOUS
  <2>1. TypeOK /\ PageGood(p) /\ put[p] \in Put
    BY DEF LayoutInv, TypeOK
  <2>2. put[p].at # "idle" /\ put[p].claim = Revision
    <3>1. ~CreateLayout(p)
      <4> SUFFICES ASSUME CreateLayout(p) PROVE put'[p].at = "conflict"
        OBVIOUS
      <4>1. put' = [put EXCEPT ![p].at = "conflict"]
        BY DEF CreateLayout
      <4> QED BY <2>1, <4>1 DEF TypeOK, Put
    <3>2. ReplaceLayout(p)
      BY <3>1, StoredByWrite
    <3>3. CASE Revision # put[p].claim
      <4>1. put' = [put EXCEPT ![p].at = "conflict"]
        BY <3>2, <3>3 DEF ReplaceLayout
      <4> QED BY <2>1, <4>1 DEF TypeOK, Put
    <3> QED BY <3>2, <3>3 DEF ReplaceLayout
  <2>3. /\ store[p].revision = Revision /\ session[p].baseline = store[p].layout
        /\ store[p].observed /\ store[p].withheld = {}
    BY <2>1, <2>2 DEF PageGood, WriteIsOfTheSession, SessionIsOfTheStore
  <2> QED BY <2>1, <2>3 DEF PageGood, NothingUnaccounted, Accounted, Row
<1>2. QED BY <1>1, Invariant, PTL DEF Spec, NothingVanishesUnseen

-----------------------------------------------------------------------------
(* The stored layout implements LayoutHistory *)

Versions(rows) == [i \in 1 .. Len(rows) |-> rows[i].items]

\* What the abstraction sees of an appended row is an appended version.
LEMMA VersionsAppend ==
    ASSUME NEW rows \in Seq(Version), NEW v \in Version
    PROVE  /\ Versions(rows) \in Seq(Items) /\ Len(Versions(rows)) = Len(rows)
           /\ Versions(Append(rows, v)) = Append(Versions(rows), v.items)
<1>1. Len(rows) \in Nat /\ \A i \in 1 .. Len(rows) : rows[i] \in Version
  BY LenProperties, ElementOfSeq
<1>2. Versions(rows) \in [1 .. Len(rows) -> Items] /\ v.items \in Items
  BY <1>1 DEF Versions, Version
<1>3. Versions(rows) \in Seq(Items) /\ Len(Versions(rows)) = Len(rows)
  BY <1>1, <1>2, IsASeq DEF Versions
<1>4. /\ Append(rows, v) \in Seq(Version) /\ Len(Append(rows, v)) = Len(rows) + 1
      /\ \A i \in 1 .. Len(rows) : Append(rows, v)[i] = rows[i]
      /\ Append(rows, v)[Len(rows) + 1] = v
  BY <1>1, AppendProperties
<1>5. /\ Append(Versions(rows), v.items) \in Seq(Items)
      /\ Len(Append(Versions(rows), v.items)) = Len(rows) + 1
      /\ \A i \in 1 .. Len(rows) : Append(Versions(rows), v.items)[i] = rows[i].items
      /\ Append(Versions(rows), v.items)[Len(rows) + 1] = v.items
  BY <1>1, <1>2, <1>3, AppendProperties DEF Versions
<1>6. Versions(Append(rows, v)) \in Seq(Items) /\ Len(Versions(Append(rows, v))) = Len(rows) + 1
  <2>1. \A i \in 1 .. Len(rows) + 1 : Append(rows, v)[i].items \in Items
    BY <1>1, <1>4, ElementOfSeq DEF Version
  <2> QED BY <1>1, <1>4, <2>1, IsASeq DEF Versions
<1>7. \A i \in 1 .. Len(rows) + 1 :
          Versions(Append(rows, v))[i] = Append(Versions(rows), v.items)[i]
  BY <1>1, <1>4, <1>5 DEF Versions
<1>8. QED BY <1>3, <1>5, <1>6, <1>7, SeqEqual

\* The draft of a page, as LayoutHistory sees it.
Draft(s) == IF s.open THEN s.revision ELSE -1

LEMMA HistoryInit == Init => History!Init
<1> SUFFICES ASSUME Init PROVE History!Init
  OBVIOUS
<1>1. CASE stored = << >>
  <2>1. Versions(stored) = << >>
    BY <1>1 DEF Versions
  <2> QED BY <2>1 DEF Init, Versions, NoSession, History!Init, History!NoDraft
<1>2. CASE stored = <<[items |-> Widget, by |-> Nobody]>>
  <2>1. Versions(stored) = <<Widget>>
    BY <1>2 DEF Versions
  <2> QED BY <2>1 DEF Init, Versions, NoSession, Items, History!Init, History!NoDraft
<1>3. QED BY <1>1, <1>2 DEF Init

\* A step that stores a version commits a draft of the newest one.
LEMMA StoreCommits ==
    ASSUME LayoutInv, NEW p \in Page, put[p].claim = Revision, PutGoesOn(p, "stored"),
           stored' = Append(stored, [items |-> put[p].items, by |-> p])
    PROVE  History!Commit(p)
<1> DEFINE v == [items |-> put[p].items, by |-> p]
<1>1. TypeOK /\ PageGood(p) /\ put[p].at # "idle" /\ session' = session
  BY DEF LayoutInv, PutGoesOn
<1>2. v \in Version /\ v.items \in Items
  BY <1>1, LayoutAssumption DEF TypeOK, Put, Version, Items
<1>3. session[p].open /\ session[p].revision = Len(stored)
  BY <1>1 DEF PageGood, WriteIsOfTheSession, Revision
<1>4. stored \in Seq(Version) /\ stored' = Append(stored, v)
  BY <1>1 DEF TypeOK
<1> HIDE DEF v
<1>5. Versions(stored') = Append(Versions(stored), v.items) /\ Len(Versions(stored)) = Len(stored)
  BY <1>2, <1>4, VersionsAppend
<1>6. QED BY <1>1, <1>2, <1>3, <1>5 DEF Versions, History!Commit

\* A step of the server leaves the row or commits.
LEMMA ServerCommits ==
    ASSUME LayoutInv, NEW p \in Page, Server(p), stored' # stored
    PROVE  History!Commit(p)
<1>1. TypeOK /\ PageGood(p)
  BY DEF LayoutInv
<1>2. CASE CreateLayout(p)
  <2>1. Revision = 0 /\ PutGoesOn(p, "stored") /\ stored' = <<[items |-> put[p].items, by |-> p]>>
    BY <1>2 DEF CreateLayout, PutGoesOn
  <2>2. stored = << >>
    BY <1>1, <2>1, EmptySeq DEF TypeOK, Revision
  <2>3. put[p].claim = 0
    BY <1>1, <1>2 DEF PageGood, RevisionsBehind, CreateLayout
  <2> QED BY <2>1, <2>2, <2>3, StoreCommits
<1>3. CASE ReplaceLayout(p)
  BY <1>3, StoreCommits DEF ReplaceLayout, PutGoesOn
<1>4. QED
  BY <1>2, <1>3 DEF Server, HandleGetLayout, GetFails, HandleSaveLayout, PutFails

\* A page that no longer has a session has dropped its draft or had none.
LEMMA ClosingDrops ==
    ASSUME TypeOK, NEW p \in Page, session' = [session EXCEPT ![p] = NoSession],
           UNCHANGED stored
    PROVE  History!Drop(p) \/ UNCHANGED History!vars
<1>1. CASE session[p].open
  <2>1. session[p].revision \in Nat
    BY DEF TypeOK, EditSession
  <2>2. [q \in Page |-> IF session'[q].open THEN session'[q].revision ELSE -1]
          = [[q \in Page |-> IF session[q].open THEN session[q].revision ELSE -1]
                EXCEPT ![p] = -1]
    BY DEF TypeOK, NoSession
  <2>3. session[p].revision # -1
    BY <2>1
  <2> QED BY <1>1, <2>2, <2>3 DEF History!Drop, History!NoDraft
<1>2. CASE ~session[p].open
  <2>1. \A q \in Page : Draft(session'[q]) = Draft(session[q])
    BY <1>2 DEF TypeOK, NoSession, Draft
  <2> QED BY <2>1 DEF Draft, History!vars
<1>3. QED BY <1>1, <1>2

\* Every step is a step of LayoutHistory or changes nothing it can see.
LEMMA HistoryStep ==
    ASSUME LayoutInv, [Next]_vars
    PROVE  [History!Next]_(History!vars)
<1>1. TypeOK /\ \A p \in Page : PageGood(p)
  BY DEF LayoutInv
<1>2. ASSUME stored' = stored, \A p \in Page : Draft(session'[p]) = Draft(session[p])
      PROVE  UNCHANGED History!vars
  BY <1>2 DEF Draft, History!vars
<1>3. ASSUME NEW p \in Page, Server(p) PROVE [History!Next]_(History!vars)
  <2>1. session' = session
    BY <1>3 DEF Server, HandleGetLayout, GetFails, HandleSaveLayout, CreateLayout,
                ReplaceLayout, PutFails
  <2> QED BY <1>2, <1>3, <2>1, ServerCommits DEF History!Next
<1>4. ASSUME NEW p \in Page, Answered(p) PROVE [History!Next]_(History!vars)
  <2>1. CASE LoadSettles(p) \/ SaveFails(p)
    BY <1>2, <2>1 DEF LoadSettles, SaveFails
  <2>2. CASE SaveLands(p)
    BY <1>1, <2>2, ClosingDrops DEF SaveLands, History!Next
  <2> QED BY <1>4, <2>1, <2>2 DEF Answered
<1>5. ASSUME NEW p \in Page, NEW items, Arrange(p, items) PROVE UNCHANGED History!vars
  <2>1. \A q \in Page : Draft(session'[q]) = Draft(session[q])
    BY <1>1, <1>5 DEF Arrange, TypeOK, EditSession, Draft
  <2> QED BY <1>2, <1>5, <2>1 DEF Arrange
<1>6. ASSUME NEW p \in Page, User(p) PROVE [History!Next]_(History!vars)
  <2>1. CASE StartEditing(p)
    <3>1. /\ session' = [session EXCEPT ![p] = beginEdit(store[p].layout, store[p].revision)]
          /\ ~session[p].open /\ stored' = stored
      BY <2>1 DEF StartEditing
    <3>2. store[p].revision \in 0 .. Len(stored)
      BY <1>1, RowTypes DEF PageGood, RevisionsBehind, TypeOK, Store, Revision
    <3>3. Len(Versions(stored)) = Len(stored)
      BY <1>1, LenProperties DEF TypeOK, Versions
    <3>4. [q \in Page |-> IF session'[q].open THEN session'[q].revision ELSE -1]
            = [[q \in Page |-> IF session[q].open THEN session[q].revision ELSE -1]
                  EXCEPT ![p] = store[p].revision]
      BY <1>1, <3>1 DEF TypeOK, beginEdit
    <3>5. History!Begin(p)
      BY <3>1, <3>2, <3>3, <3>4 DEF Versions, History!Begin, History!NoDraft
    <3> QED BY <3>5 DEF History!Next
  <2>2. CASE CloseEditing(p) \/ ReloadStoredLayout(p)
    BY <1>1, <2>2, ClosingDrops DEF CloseEditing, ReloadStoredLayout, History!Next
  <2>3. CASE AddWidget(p) \/ HandleChange(p) \/ ResetLayout(p) \/ CopyFrom(p)
    BY <1>5, <2>3 DEF AddWidget, HandleChange, ResetLayout, CopyFrom
  <2>4. CASE OpenPage(p) \/ LeavePage(p) \/ Save(p) \/ SaveRefused(p) \/ KeepEditing(p)
    BY <1>2, <2>4 DEF OpenPage, LeavePage, Save, SaveRefused, KeepEditing
  <2> QED BY <1>6, <2>1, <2>2, <2>3, <2>4 DEF User
<1>7. CASE AccessChanges \/ UNCHANGED vars
  BY <1>2, <1>7 DEF AccessChanges, vars
<1>8. QED BY <1>3, <1>4, <1>6, <1>7 DEF Next

(* The stored layout is an append-only history in which every version was   *)
(* drafted from the one directly before it, for any number of pages, lost   *)
(* answers and pages left in mid-save: DashboardLayout implements           *)
(* LayoutHistory.                                                           *)
THEOREM HistoryImplemented == Spec => ImplementsHistory
<1>1. LayoutInv /\ [Next]_vars => [History!Next]_(History!vars)
  BY HistoryStep
<1>2. QED BY <1>1, HistoryInit, Invariant, PTL DEF Spec, ImplementsHistory, History!Spec

-----------------------------------------------------------------------------
(* The source cache: the inductive invariant *)

\* s lists the members of K, each once.
Lists(s, K) ==
    /\ s \in Seq(Source)
    /\ \A i, j \in 1 .. Len(s) : s[i] = s[j] => i = j
    /\ \A k \in Source : k \in K <=> \E i \in 1 .. Len(s) : s[i] = k

\* A key reads as loading while a request of its own is pending, under the range
\* that is recorded for it; otherwise what is recorded is the range of the data,
\* or of the request that failed.
KeyGood(c, k) ==
    /\ c.shown[k].loading <=> Pending(c, k)
    /\ c.shown[k].data = None <=> c.shown[k].range = None
    /\ c.fetched[k] = None => c.shown[k].data = None
    /\ Pending(c, k) => c.flight[k].range = c.fetched[k]
    /\ ~Pending(c, k) /\ c.fetched[k] # None =>
          c.shown[k].error \/ c.shown[k].range = c.fetched[k]
    /\ c.flight[k].aborted => c.flight[k].timedOut
    /\ k \in c.timers => k \in Expensive

\* The slots are those of the requests on the wire, and the queue is the line of
\* the keys that wait for one.
SlotGood(c) ==
    /\ Lists(c.waiting, Queued(c)) /\ Queued(c) \subseteq Expensive
    /\ IsFiniteSet(Wire(c)) /\ c.active = Cardinality(Wire(c))
    /\ Queued(c) # {} => c.active = MaxConcurrent

\* While no page is mounted nothing is pending or scheduled.
UnmountedIsQuiet == ~mounted => cache.timers = {} /\ \A k \in Source : ~Pending(cache, k)

SourceInv ==
    /\ CacheTypeOK
    /\ SlotGood(cache)
    /\ \A k \in Source : KeyGood(cache, k)
    /\ UnmountedIsQuiet
    /\ OnlyTheLayoutIsPolled

-----------------------------------------------------------------------------
(* Lines of keys *)

\* A set of numbers that is not empty has a least member.
LEMMA LeastOf ==
    ASSUME NEW S \in SUBSET Nat, S # {}
    PROVE  \E n \in S : \A m \in S : n <= m
<1> DEFINE R == {p \in Nat \X Nat : p[1] < p[2]}
<1>1. R = OpToRel(<, Nat)
  BY DEF OpToRel
<1>2. IsWellFoundedOn(R, Nat)
  BY <1>1, NatLessThanWellFounded
<1> HIDE DEF R
<1>3. PICK n \in S : \A m \in S : ~(<<m, n>> \in R)
  BY <1>2, WFMin
<1>4. \A m \in S : ~(m < n)
  BY <1>3 DEF R
<1>5. QED BY <1>4

\* The first key, dropped.
LEMMA TailLists ==
    ASSUME NEW s, NEW K \in SUBSET Source, Lists(s, K), Len(s) > 0
    PROVE  /\ Lists(Tail(s), K \ {Head(s)}) /\ Len(Tail(s)) = Len(s) - 1
           /\ Head(s) = s[1] /\ Head(s) \in Source
<1> USE DEF Lists
<1>1. PICK u : u = Tail(s)
  OBVIOUS
<1>2. Len(s) \in Nat /\ Head(s) = s[1] /\ s[1] \in Source
  OBVIOUS
<1>3. u \in Seq(Source) /\ Len(u) = Len(s) - 1 /\ \A i \in 1 .. Len(u) : u[i] = s[i + 1]
  BY <1>1, <1>2
<1>4. \A i \in 1 .. Len(u) : i + 1 \in 1 .. Len(s) /\ i + 1 # 1
  BY <1>2, <1>3
<1>5. \A i, j \in 1 .. Len(u) : u[i] = u[j] => i = j
  <2> SUFFICES ASSUME NEW i \in 1 .. Len(u), NEW j \in 1 .. Len(u), u[i] = u[j] PROVE i = j
    OBVIOUS
  <2>1. i + 1 \in 1 .. Len(s) /\ j + 1 \in 1 .. Len(s) /\ s[i + 1] = s[j + 1]
    BY <1>3, <1>4
  <2>2. i + 1 = j + 1
    BY <2>1
  <2> QED BY <2>2
<1>6. ASSUME NEW q \in Source
      PROVE  q \in K \ {s[1]} <=> \E i \in 1 .. Len(u) : u[i] = q
  <2>1. ASSUME q \in K, q # s[1] PROVE \E i \in 1 .. Len(u) : u[i] = q
    <3>1. PICK i \in 1 .. Len(s) : s[i] = q
      BY <2>1
    <3>2. i - 1 \in 1 .. Len(u) /\ (i - 1) + 1 = i
      BY <1>2, <1>3, <2>1, <3>1
    <3> QED BY <1>3, <3>1, <3>2
  <2>2. ASSUME NEW i \in 1 .. Len(u), u[i] = q PROVE q \in K /\ q # s[1]
    <3>1. s[i + 1] = q /\ 1 \in 1 .. Len(s)
      BY <1>2, <1>3, <2>2
    <3> QED BY <1>4, <3>1
  <2> QED BY <2>1, <2>2
<1> QED BY <1>1, <1>2, <1>3, <1>5, <1>6

\* Counting the members of a set of places up to a place.
LEMMA Counting ==
    ASSUME NEW L \in Nat, NEW P \in SUBSET (1 .. L)
    PROVE  /\ IsFiniteSet(P) /\ Cardinality(P) \in Nat /\ Cardinality(P) <= L
           /\ \A i \in P : Cardinality({j \in P : j <= i}) \in 1 .. Cardinality(P)
           /\ \A i, h \in P : Cardinality({j \in P : j <= i}) = Cardinality({j \in P : j <= h}) => i = h
           /\ \A n \in 1 .. Cardinality(P) : \E i \in P : Cardinality({j \in P : j <= i}) = n
<1> DEFINE Upto(m) == {j \in P : j <= m}
<1>0. \A j \in P : j \in Nat /\ 1 <= j /\ j <= L
  OBVIOUS
<1>1. IsFiniteSet(1 .. L) /\ Cardinality(1 .. L) = L
  BY FS_Interval
<1>2. IsFiniteSet(P) /\ Cardinality(P) \in Nat /\ Cardinality(P) <= L
  BY <1>1, FS_Subset, FS_CardinalityType
<1>3. \A m \in Nat : IsFiniteSet(Upto(m)) /\ Cardinality(Upto(m)) \in Nat
                     /\ Cardinality(Upto(m)) <= Cardinality(P)
  <2>1. \A m \in Nat : Upto(m) \in SUBSET P
    OBVIOUS
  <2> HIDE DEF Upto
  <2> QED BY <1>2, <2>1, FS_Subset, FS_CardinalityType
<1>4. ASSUME NEW i \in P PROVE Cardinality(Upto(i)) \in 1 .. Cardinality(P)
  <2>1. i \in Nat /\ i \in Upto(i)
    OBVIOUS
  <2> HIDE DEF Upto
  <2>2. Cardinality(Upto(i)) # 0
    BY <1>3, <2>1, FS_EmptySet
  <2> QED BY <1>2, <1>3, <2>1, <2>2
<1>5. ASSUME NEW i \in P, NEW h \in P, i < h PROVE Cardinality(Upto(i)) # Cardinality(Upto(h))
  <2>1. Upto(i) \in SUBSET Upto(h) /\ h \in Upto(h) /\ h \notin Upto(i) /\ h \in Nat
    <3>1. i \in Nat /\ h \in Nat
      BY <1>0
    <3>2. \A j \in P : j <= i => j <= h
      BY <1>0, <1>5, <3>1
    <3>3. h <= h /\ ~(h <= i)
      BY <1>5, <3>1
    <3> QED BY <3>1, <3>2, <3>3
  <2> HIDE DEF Upto
  <2> QED BY <1>3, <2>1, FS_Subset
<1>6. ASSUME NEW n \in 1 .. Cardinality(P) PROVE \E i \in P : Cardinality(Upto(i)) = n
  <2> DEFINE S == {m \in Nat : Cardinality(Upto(m)) >= n}
  <2>1. L \in S
    <3>1. Upto(L) = P
      BY <1>0
    <3> HIDE DEF Upto
    <3> QED BY <1>2, <3>1
  <2>2. PICK m \in S : \A k \in S : m <= k
    BY <2>1, LeastOf
  <2>3. m \in Nat /\ Cardinality(Upto(m)) >= n
    OBVIOUS
  <2>4. m # 0
    <3>1. Upto(0) = {}
      <4>1. \A j \in P : ~(j <= 0)
        BY <1>0
      <4> QED BY <4>1
    <3> HIDE DEF Upto
    <3> QED BY <1>2, <2>3, <3>1, FS_EmptySet
  <2>5. m - 1 \in Nat /\ m - 1 \notin S
    <3> HIDE DEF S, Upto
    <3> QED BY <2>2, <2>3, <2>4
  <2>6. Cardinality(Upto(m - 1)) < n
    <3>1. Cardinality(Upto(m - 1)) \in Nat
      BY <1>3, <2>5
    <3>2. ~(Cardinality(Upto(m - 1)) >= n)
      BY <2>5
    <3> HIDE DEF Upto
    <3> QED BY <1>2, <3>1, <3>2
  <2>7. m \in P
    <3>1. m \notin P => Upto(m) = Upto(m - 1)
      <4>1. \A j \in P : j # m => (j <= m <=> j <= m - 1)
        BY <1>0, <2>3
      <4> QED BY <4>1
    <3> HIDE DEF Upto, S
    <3> QED BY <1>2, <1>3, <2>3, <2>5, <2>6, <3>1
  <2>8. Upto(m) = Upto(m - 1) \union {m} /\ m \notin Upto(m - 1)
    <3>1. \A j \in P : j # m => (j <= m <=> j <= m - 1)
      BY <1>0, <2>3
    <3>2. m <= m /\ ~(m <= m - 1)
      BY <2>3
    <3> QED BY <2>7, <3>1, <3>2
  <2>9. Cardinality(Upto(m)) = Cardinality(Upto(m - 1)) + 1
    <3> HIDE DEF Upto, S
    <3> QED BY <1>3, <2>5, <2>8, FS_AddElement
  <2>10. Cardinality(Upto(m)) = n
    <3> HIDE DEF Upto, S
    <3> QED BY <1>2, <1>3, <2>3, <2>5, <2>6, <2>9
  <2> QED BY <2>7, <2>10
<1>7. \A i, h \in P : Cardinality(Upto(i)) = Cardinality(Upto(h)) => i = h
  <2>1. \A i, h \in P : i < h \/ h < i \/ i = h
    OBVIOUS
  <2> HIDE DEF Upto
  <2> QED BY <1>5, <2>1
<1> QED BY <1>2, <1>4, <1>6, <1>7

\* What is left of a line in its order.
LEMMA WithoutLists ==
    ASSUME NEW q, NEW K \in SUBSET Source, Lists(q, K), NEW S
    PROVE  Lists(without(q, S), K \ S)
<1> DEFINE kept == {i \in DOMAIN q : q[i] \notin S}
           rank(i) == Cardinality({j \in kept : j <= i})
           place(n) == CHOOSE i \in kept : rank(i) = n
<1>1. q \in Seq(Source) /\ Len(q) \in Nat /\ DOMAIN q = 1 .. Len(q)
  BY DEF Lists
<1>2. kept \in SUBSET (1 .. Len(q))
  BY <1>1
<1>3. /\ Cardinality(kept) \in Nat /\ Cardinality(kept) <= Len(q)
      /\ \A i \in kept : rank(i) \in 1 .. Cardinality(kept)
      /\ \A i, h \in kept : rank(i) = rank(h) => i = h
      /\ \A n \in 1 .. Cardinality(kept) : \E i \in kept : rank(i) = n
  <2> HIDE DEF kept
  <2> QED BY <1>1, <1>2, Counting
<1>4. PICK N \in Nat : N = Cardinality(kept)
  BY <1>3
<1>5. without(q, S) = [n \in 1 .. N |-> q[place(n)]]
  BY <1>4 DEF without
<1>6. \A i \in kept : i \in 1 .. Len(q) /\ q[i] \in Source /\ q[i] \notin S
  BY <1>1, <1>2
<1>7. \A i \in 1 .. Len(q) : q[i] \notin S => i \in kept
  BY <1>1
<1> HIDE DEF kept, rank
<1>8. \A n \in 1 .. N : place(n) \in kept /\ rank(place(n)) = n
  BY <1>3, <1>4
<1>9. \A i \in kept : rank(i) \in 1 .. N /\ place(rank(i)) = i
  BY <1>3, <1>4, <1>8
<1> HIDE DEF place
<1>10. PICK u : u = without(q, S)
  OBVIOUS
<1>11. u \in Seq(Source) /\ Len(u) = N /\ \A n \in 1 .. N : u[n] = q[place(n)]
  BY <1>5, <1>6, <1>8, <1>10
<1>12. ASSUME NEW n \in 1 .. N, NEW m \in 1 .. N, u[n] = u[m] PROVE n = m
  <2>1. place(n) = place(m)
    BY <1>6, <1>8, <1>11, <1>12 DEF Lists
  <2> QED BY <1>8, <2>1
<1>13. ASSUME NEW k \in Source
       PROVE  k \in K \ S <=> \E n \in 1 .. N : u[n] = k
  <2>1. ASSUME k \in K \ S PROVE \E n \in 1 .. N : u[n] = k
    <3>1. PICK i \in 1 .. Len(q) : q[i] = k
      BY <2>1 DEF Lists
    <3>2. i \in kept
      BY <1>7, <2>1, <3>1
    <3> QED BY <1>9, <1>11, <3>1, <3>2
  <2>2. ASSUME NEW n \in 1 .. N, u[n] = k PROVE k \in K \ S
    BY <1>6, <1>8, <1>11, <2>2 DEF Lists
  <2> QED BY <2>1, <2>2
<1> QED BY <1>10, <1>11, <1>12, <1>13 DEF Lists

\* A line joins the end of a line.
LEMMA JoinLists ==
    ASSUME NEW q, NEW t, NEW K \in SUBSET Source, NEW T \in SUBSET Source,
           Lists(q, K), Lists(t, T), K \cap T = {}
    PROVE  Lists(q \o t, K \union T)
<1> USE DEF Lists
<1>1. PICK u : u = q \o t
  OBVIOUS
<1>2. /\ u \in Seq(Source) /\ Len(q) \in Nat /\ Len(t) \in Nat /\ Len(u) = Len(q) + Len(t)
      /\ \A i \in 1 .. Len(q) : u[i] = q[i]
      /\ \A i \in 1 .. Len(t) : u[Len(q) + i] = t[i]
  BY <1>1, ConcatProperties
<1>3. \A i \in 1 .. Len(u) : \/ i \in 1 .. Len(q) /\ u[i] = q[i]
                             \/ i - Len(q) \in 1 .. Len(t) /\ u[i] = t[i - Len(q)]
  <2>1. \A i \in 1 .. Len(u) : i \in 1 .. Len(q) \/
            (i - Len(q) \in 1 .. Len(t) /\ i = Len(q) + (i - Len(q)))
    BY <1>2
  <2> QED BY <1>2, <2>1
<1>4. \A i \in 1 .. Len(q) : \A j \in 1 .. Len(t) : q[i] # t[j]
  <2> SUFFICES ASSUME NEW i \in 1 .. Len(q), NEW j \in 1 .. Len(t), q[i] = t[j] PROVE FALSE
    OBVIOUS
  <2>1. q[i] \in Source /\ q[i] \in K /\ q[i] \in T
    OBVIOUS
  <2> QED BY <2>1
<1>5. ASSUME NEW i \in 1 .. Len(u), NEW j \in 1 .. Len(u), u[i] = u[j] PROVE i = j
  <2>1. CASE i \in 1 .. Len(q) /\ u[i] = q[i]
    <3>1. ~(j - Len(q) \in 1 .. Len(t) /\ u[j] = t[j - Len(q)])
      BY <1>4, <1>5, <2>1
    <3>2. j \in 1 .. Len(q) /\ u[j] = q[j]
      BY <1>3, <3>1
    <3> QED BY <1>5, <2>1, <3>2
  <2>2. CASE i - Len(q) \in 1 .. Len(t) /\ u[i] = t[i - Len(q)]
    <3>1. ~(j \in 1 .. Len(q) /\ u[j] = q[j])
      BY <1>4, <1>5, <2>2
    <3>2. j - Len(q) \in 1 .. Len(t) /\ u[j] = t[j - Len(q)]
      BY <1>3, <3>1
    <3>3. i - Len(q) = j - Len(q)
      BY <1>5, <2>2, <3>2
    <3> QED BY <1>2, <3>3
  <2> QED BY <1>3, <2>1, <2>2
<1>6. ASSUME NEW k \in Source
      PROVE  k \in K \union T <=> \E i \in 1 .. Len(u) : u[i] = k
  <2>1. ASSUME k \in K PROVE \E i \in 1 .. Len(u) : u[i] = k
    <3>1. PICK i \in 1 .. Len(q) : q[i] = k
      BY <2>1
    <3> QED BY <1>2, <3>1
  <2>2. ASSUME k \in T PROVE \E i \in 1 .. Len(u) : u[i] = k
    <3>1. PICK i \in 1 .. Len(t) : t[i] = k
      BY <2>2
    <3>2. Len(q) + i \in 1 .. Len(u) /\ u[Len(q) + i] = k
      BY <1>2, <3>1
    <3> QED BY <3>2
  <2>3. ASSUME NEW i \in 1 .. Len(u), u[i] = k PROVE k \in K \union T
    BY <1>3, <2>3
  <2> QED BY <2>1, <2>2, <2>3
<1> QED BY <1>1, <1>2, <1>5, <1>6

\* The end of a line.
LEMMA RestLists ==
    ASSUME NEW line, NEW K \in SUBSET Source, Lists(line, K), NEW n \in Nat, n <= Len(line)
    PROVE  Lists(SubSeq(line, n + 1, Len(line)),
                 {k \in Source : \E i \in n + 1 .. Len(line) : line[i] = k})
<1>1. PICK u : u = SubSeq(line, n + 1, Len(line))
  OBVIOUS
<1>2. line \in Seq(Source) /\ Len(line) \in Nat
  BY DEF Lists
<1>3. /\ u \in Seq(Source) /\ Len(u) = Len(line) - n
      /\ \A i \in 1 .. Len(line) - n : u[i] = line[n + i]
  <2>1. CASE n = Len(line)
    <3>1. n + 1 > Len(line)
      BY <1>2, <2>1
    <3>2. u = <<>>
      BY <1>1, <1>2, <3>1, SubSeqProperties
    <3> QED BY <1>2, <2>1, <3>2
  <2>2. CASE n # Len(line)
    <3>1. n + 1 \in 1 .. Len(line) /\ Len(line) \in n + 1 - 1 .. Len(line) /\ n + 1 <= Len(line)
      BY <1>2, <2>2
    <3>2. \A i \in 1 .. Len(line) - n : n + i = n + 1 + i - 1
      BY <1>2
    <3> QED BY <1>1, <1>2, <3>1, <3>2, SubSeqProperties
  <2> QED BY <2>1, <2>2
<1>4. \A i \in 1 .. Len(u) : n + i \in 1 .. Len(line) /\ n + i \in n + 1 .. Len(line) /\ u[i] = line[n + i]
  BY <1>2, <1>3
<1>5. ASSUME NEW i \in 1 .. Len(u), NEW j \in 1 .. Len(u), u[i] = u[j] PROVE i = j
  <2>1. n + i \in 1 .. Len(line) /\ n + j \in 1 .. Len(line) /\ line[n + i] = line[n + j]
    BY <1>4, <1>5
  <2>2. n + i = n + j
    BY <2>1 DEF Lists
  <2> QED BY <1>3, <2>2
<1>6. ASSUME NEW k \in Source, NEW i \in n + 1 .. Len(line), line[i] = k
      PROVE  \E j \in 1 .. Len(u) : u[j] = k
  <2>1. i - n \in 1 .. Len(u) /\ n + (i - n) = i
    BY <1>2, <1>3, <1>6
  <2> QED BY <1>4, <1>6, <2>1
<1>7. ASSUME NEW k \in Source, NEW j \in 1 .. Len(u), u[j] = k
      PROVE  \E i \in n + 1 .. Len(line) : line[i] = k
  BY <1>4, <1>7
<1> QED BY <1>1, <1>3, <1>5, <1>6, <1>7 DEF Lists

-----------------------------------------------------------------------------
(* What the operations leave of a cache *)

\* d is c with the keys of S requested, the first n of the line on the wire.
Ran(c, S, r, line, n, d) ==
    /\ n \in Nat /\ n <= Len(line) /\ c.active + n <= MaxConcurrent
    /\ n < Len(line) => c.active + n = MaxConcurrent
    /\ d \in Caches
    /\ d.active = c.active + n /\ d.waiting = c.waiting \o SubSeq(line, n + 1, Len(line))
    /\ d.retired = c.retired /\ d.timers = c.timers
    /\ \A k \in Source :
          /\ d.fetched[k] = IF k \in S THEN r[k] ELSE c.fetched[k]
          /\ k \in S => /\ d.flight[k].range = r[k] /\ ~d.flight[k].aborted
                        /\ d.flight[k].queued <=> \E i \in n + 1 .. Len(line) : line[i] = k
          /\ k \notin S => d.flight[k] = c.flight[k]
          /\ d.shown[k].data = c.shown[k].data /\ d.shown[k].error = c.shown[k].error
          /\ d.shown[k].range = c.shown[k].range
          /\ d.shown[k].loading <=> (c.shown[k].loading \/ k \in S)

\* run, field by field.
LEMMA RunFields ==
    ASSUME NEW c \in Caches, NEW S \in SUBSET Source, NEW r, \A k \in S : r[k] \in TimeRange,
           NEW line \in Seq(Source), NEW d, d = run(c, S, r, line), NEW n, n = served(c, line)
    PROVE  Ran(c, S, r, line, n, d)
<1> USE BoundAssumption, SourceAssumption
<1>1. c.active \in 0 .. MaxConcurrent /\ Len(line) \in Nat /\ MaxConcurrent \in Nat
  BY DEF Caches
<1>2. /\ n \in Nat /\ n <= Len(line) /\ c.active + n <= MaxConcurrent
      /\ n < Len(line) => c.active + n = MaxConcurrent
  BY <1>1 DEF served
<1>3. PICK q : q = [k \in Source |-> \E i \in n + 1 .. Len(line) : line[i] = k]
  OBVIOUS
<1>4. PICK w : w = c.waiting \o SubSeq(line, n + 1, Len(line))
  OBVIOUS
<1>5. w \in Seq(Source)
  <2>1. SubSeq(line, n + 1, Len(line)) \in Seq(Source)
    BY <1>1, <1>2, SubSeqProperties
  <2> QED BY <1>4, <2>1, ConcatProperties DEF Caches
<1>6. PICK f : f = [k \in Source |->
                IF k \in S
                THEN [NoFlight EXCEPT !.range = r[k],
                                      !.queued = \E i \in n + 1 .. Len(line) : line[i] = k]
                ELSE c.flight[k]]
  OBVIOUS
<1>7. /\ f \in [Source -> Flights]
      /\ \A k \in Source : k \in S =>
            f[k] = [range |-> r[k], queued |-> q[k], aborted |-> FALSE, timedOut |-> FALSE]
      /\ \A k \in Source : k \notin S => f[k] = c.flight[k]
  <2>1. f = [k \in Source |->
                IF k \in S THEN [NoFlight EXCEPT !.range = r[k], !.queued = q[k]] ELSE c.flight[k]]
    BY <1>3, <1>6
  <2> QED BY <1>3, <2>1 DEF Caches, Flights, NoFlight
<1>8. PICK s : s = [k \in Source |->
                IF k \in S THEN [c.shown[k] EXCEPT !.loading = TRUE] ELSE c.shown[k]]
  OBVIOUS
<1>9. /\ s \in [Source -> States]
      /\ \A k \in Source :
           /\ s[k].data = c.shown[k].data /\ s[k].error = c.shown[k].error
           /\ s[k].range = c.shown[k].range
           /\ s[k].loading <=> (c.shown[k].loading \/ k \in S)
  BY <1>8 DEF Caches, States
<1>10. PICK g : g = [k \in Source |-> IF k \in S THEN r[k] ELSE c.fetched[k]]
  OBVIOUS
<1>11. g \in [Source -> TimeRange \cup {None}]
  BY <1>10 DEF Caches
<1>12. d = [c EXCEPT !.shown = s, !.fetched = g, !.flight = f, !.active = c.active + n, !.waiting = w]
  BY <1>4, <1>6, <1>8, <1>10 DEF run
<1>13. d = [flight |-> f, retired |-> c.retired, waiting |-> w, active |-> c.active + n,
            fetched |-> g, shown |-> s, timers |-> c.timers]
  BY <1>12 DEF Caches
<1>14. c.active + n \in 0 .. MaxConcurrent
  BY <1>1, <1>2
<1>15. /\ d \in Caches /\ d.shown = s /\ d.fetched = g /\ d.flight = f /\ d.active = c.active + n
       /\ d.waiting = w /\ d.retired = c.retired /\ d.timers = c.timers
  BY <1>5, <1>7, <1>9, <1>11, <1>13, <1>14 DEF Caches
<1> QED BY <1>2, <1>3, <1>4, <1>7, <1>9, <1>10, <1>15 DEF Ran

\* retire, field by field.
LEMMA RetireFields ==
    ASSUME NEW c \in Caches, NEW S \in SUBSET Source, SlotGood(c), NEW d, d = retire(c, S)
    PROVE  /\ d \in Caches
           /\ d.active = c.active /\ d.waiting = without(c.waiting, S)
           /\ d.fetched = c.fetched /\ d.shown = c.shown /\ d.timers = c.timers
           /\ \A k \in Source :
                 /\ d.flight[k] = IF k \in S THEN NoFlight ELSE c.flight[k]
                 /\ d.retired[k] = IF k \in S /\ OnTheWire(c, k) THEN c.retired[k] + 1
                                   ELSE c.retired[k]
<1>1. PICK w : w = without(c.waiting, S)
  OBVIOUS
<1>2. w \in Seq(Source)
  <2>1. Queued(c) \in SUBSET Source
    BY DEF Queued
  <2>2. Lists(w, Queued(c) \ S)
    BY <1>1, <2>1, WithoutLists DEF SlotGood
  <2> QED BY <2>2 DEF Lists
<1>3. PICK f : f = [k \in Source |-> IF k \in S THEN NoFlight ELSE c.flight[k]]
  OBVIOUS
<1>4. f \in [Source -> Flights]
  BY <1>3 DEF Caches, Flights
<1>5. PICK g : g = [k \in Source |->
                      IF k \in S /\ OnTheWire(c, k) THEN c.retired[k] + 1 ELSE c.retired[k]]
  OBVIOUS
<1>6. g \in [Source -> Nat]
  BY <1>5 DEF Caches
<1>7. d = [c EXCEPT !.flight = f, !.retired = g, !.waiting = w]
  BY <1>1, <1>3, <1>5 DEF retire
<1>8. d = [flight |-> f, retired |-> g, waiting |-> w, active |-> c.active,
           fetched |-> c.fetched, shown |-> c.shown, timers |-> c.timers]
  BY <1>7 DEF Caches
<1>9. /\ d \in Caches /\ d.flight = f /\ d.retired = g /\ d.waiting = w /\ d.active = c.active
      /\ d.fetched = c.fetched /\ d.shown = c.shown /\ d.timers = c.timers
  BY <1>2, <1>4, <1>6, <1>8 DEF Caches
<1> QED BY <1>1, <1>3, <1>5, <1>9

\* settleAborted, field by field.
LEMMA SettleAbortedFields ==
    ASSUME NEW c \in Caches, NEW S \in SUBSET Source, NEW d, d = settleAborted(c, S)
    PROVE  /\ d \in Caches
           /\ d.active = c.active /\ d.waiting = c.waiting /\ d.flight = c.flight
           /\ d.retired = c.retired /\ d.timers = c.timers
           /\ \A k \in Source :
                 /\ d.fetched[k] = IF k \in S THEN c.shown[k].range ELSE c.fetched[k]
                 /\ d.shown[k].data = c.shown[k].data /\ d.shown[k].error = c.shown[k].error
                 /\ d.shown[k].range = c.shown[k].range
                 /\ d.shown[k].loading <=> (c.shown[k].loading /\ k \notin S)
<1>1. PICK s : s = [k \in Source |->
                IF k \in S THEN [c.shown[k] EXCEPT !.loading = FALSE] ELSE c.shown[k]]
  OBVIOUS
<1>2. /\ s \in [Source -> States]
      /\ \A k \in Source :
           /\ s[k].data = c.shown[k].data /\ s[k].error = c.shown[k].error
           /\ s[k].range = c.shown[k].range
           /\ s[k].loading <=> (c.shown[k].loading /\ k \notin S)
  BY <1>1 DEF Caches, States
<1>3. PICK g : g = [k \in Source |-> IF k \in S THEN c.shown[k].range ELSE c.fetched[k]]
  OBVIOUS
<1>4. g \in [Source -> TimeRange \cup {None}]
  BY <1>3 DEF Caches, States
<1>5. d = [c EXCEPT !.fetched = g, !.shown = s]
  BY <1>1, <1>3 DEF settleAborted
<1>6. d = [flight |-> c.flight, retired |-> c.retired, waiting |-> c.waiting,
           active |-> c.active, fetched |-> g, shown |-> s, timers |-> c.timers]
  BY <1>5 DEF Caches
<1>7. /\ d \in Caches /\ d.flight = c.flight /\ d.retired = c.retired /\ d.waiting = c.waiting
      /\ d.active = c.active /\ d.fetched = g /\ d.shown = s /\ d.timers = c.timers
  BY <1>2, <1>4, <1>6 DEF Caches
<1> QED BY <1>2, <1>3, <1>7

-----------------------------------------------------------------------------
(* Slots *)

\* The n requests each of the keys has on the wire.
Pairs(f) == UNION {{k} \X (1 .. f[k]) : k \in Expensive}
OnWire(c) == [k \in Source |-> onWire(c, k)]

\* Which pairs they are.
LEMMA PairsMembers ==
    ASSUME NEW f
    PROVE  /\ \A p \in Pairs(f) : \E k \in Expensive : \E n \in 1 .. f[k] : p = <<k, n>>
           /\ \A k, n : <<k, n>> \in Pairs(f) <=> k \in Expensive /\ n \in 1 .. f[k]
<1>1. \A k \in Expensive : \A p \in {k} \X (1 .. f[k]) : \E n \in 1 .. f[k] : p = <<k, n>>
  OBVIOUS
<1>2. \A p : p \in Pairs(f) <=> \E k \in Expensive : p \in {k} \X (1 .. f[k])
  BY DEF Pairs
<1>3. ASSUME NEW k, NEW n
      PROVE  <<k, n>> \in Pairs(f) <=> k \in Expensive /\ n \in 1 .. f[k]
  <2>1. \A j \in Expensive : <<k, n>> \in {j} \X (1 .. f[j]) <=> k = j /\ n \in 1 .. f[j]
    OBVIOUS
  <2> QED BY <1>2, <2>1
<1> QED BY <1>1, <1>2, <1>3

\* The requests on the wire are the pairs of a cache.
LEMMA WirePairs ==
    ASSUME NEW c \in Caches
    PROVE  Wire(c) = Pairs(OnWire(c)) /\ OnWire(c) \in [Source -> Nat]
<1>1. \A k \in Source : onWire(c, k) \in Nat
  BY DEF Caches, onWire
<1>2. \A k \in Expensive : OnWire(c)[k] = onWire(c, k)
  BY DEF OnWire, Expensive
<1>3. Wire(c) = Pairs(OnWire(c))
  BY <1>2 DEF Wire, Pairs
<1> QED BY <1>1, <1>3 DEF OnWire

\* One request more, or one less.
LEMMA PairsMore ==
    ASSUME NEW f \in [Source -> Nat], NEW g \in [Source -> Nat], NEW k \in Expensive,
           IsFiniteSet(Pairs(f)), g[k] = f[k] + 1, \A j \in Expensive : j # k => g[j] = f[j]
    PROVE  IsFiniteSet(Pairs(g)) /\ Cardinality(Pairs(g)) = Cardinality(Pairs(f)) + 1
<1>1. k \in Source
  BY DEF Expensive
<1>2. PICK p : p = <<k, f[k] + 1>>
  OBVIOUS
<1>3. p \notin Pairs(f)
  BY <1>1, <1>2, PairsMembers
<1>4. \A q \in Pairs(g) : q \in Pairs(f) \union {p}
  <2> SUFFICES ASSUME NEW j \in Expensive, NEW n \in 1 .. g[j], <<j, n>> # p
               PROVE  <<j, n>> \in Pairs(f)
    BY PairsMembers
  <2>1. j \in Source /\ f[j] \in Nat
    BY DEF Expensive
  <2>2. n \in 1 .. f[j]
    BY <1>1, <1>2, <2>1
  <2> QED BY <2>2, PairsMembers
<1>5. \A q \in Pairs(f) : q \in Pairs(g)
  <2> SUFFICES ASSUME NEW j \in Expensive, NEW n \in 1 .. f[j]
               PROVE  <<j, n>> \in Pairs(g)
    BY PairsMembers
  <2>1. j \in Source /\ f[j] \in Nat
    BY DEF Expensive
  <2>2. n \in 1 .. g[j]
    BY <1>1, <2>1
  <2> QED BY <2>2, PairsMembers
<1>6. p \in Pairs(g)
  BY <1>1, <1>2, PairsMembers
<1>7. Pairs(g) = Pairs(f) \union {p}
  BY <1>4, <1>5, <1>6
<1>8. Cardinality(Pairs(f) \union {p}) = Cardinality(Pairs(f)) + 1 /\ IsFiniteSet(Pairs(f) \union {p})
  BY <1>3, FS_AddElement
<1> QED BY <1>7, <1>8

LEMMA PairsLess ==
    ASSUME NEW f \in [Source -> Nat], NEW g \in [Source -> Nat], NEW k \in Expensive,
           IsFiniteSet(Pairs(f)), f[k] > 0, g[k] = f[k] - 1,
           \A j \in Expensive : j # k => g[j] = f[j]
    PROVE  /\ IsFiniteSet(Pairs(g)) /\ Cardinality(Pairs(g)) = Cardinality(Pairs(f)) - 1
           /\ Cardinality(Pairs(f)) \in Nat \ {0}
<1>1. k \in Source
  BY DEF Expensive
<1>2. PICK p : p = <<k, f[k]>>
  OBVIOUS
<1>3. p \in Pairs(f) /\ p \notin Pairs(g)
  BY <1>1, <1>2, PairsMembers
<1>4. \A q \in Pairs(f) : q # p => q \in Pairs(g)
  <2> SUFFICES ASSUME NEW j \in Expensive, NEW n \in 1 .. f[j], <<j, n>> # p
               PROVE  <<j, n>> \in Pairs(g)
    BY PairsMembers
  <2>1. j \in Source /\ f[j] \in Nat
    BY DEF Expensive
  <2>2. n \in 1 .. g[j]
    BY <1>1, <1>2, <2>1
  <2> QED BY <2>2, PairsMembers
<1>5. \A q \in Pairs(g) : q \in Pairs(f)
  <2> SUFFICES ASSUME NEW j \in Expensive, NEW n \in 1 .. g[j]
               PROVE  <<j, n>> \in Pairs(f)
    BY PairsMembers
  <2>1. j \in Source /\ f[j] \in Nat
    BY DEF Expensive
  <2>2. n \in 1 .. f[j]
    BY <1>1, <2>1
  <2> QED BY <2>2, PairsMembers
<1>6. Pairs(g) = Pairs(f) \ {p}
  BY <1>3, <1>4, <1>5
<1>7. Cardinality(Pairs(f) \ {p}) = Cardinality(Pairs(f)) - 1 /\ IsFiniteSet(Pairs(f) \ {p})
  BY <1>3, FS_RemoveElement
<1>8. Cardinality(Pairs(f)) \in Nat /\ Cardinality(Pairs(f)) # 0
  BY <1>3, FS_CardinalityType, FS_EmptySet
<1> QED BY <1>6, <1>7, <1>8

\* The first of a line are as many as they are.
LEMMA FirstOfLine ==
    ASSUME NEW line, NEW K \in SUBSET Source, Lists(line, K), NEW n \in Nat, n <= Len(line),
           NEW P \in SUBSET Source, \A k \in Source : k \in P <=> \E i \in 1 .. n : line[i] = k
    PROVE  P \in SUBSET K /\ IsFiniteSet(P) /\ Cardinality(P) = n
<1>2. line \in Seq(Source) /\ Len(line) \in Nat
  BY DEF Lists
<1>3. \A i \in 1 .. n : i \in 1 .. Len(line) /\ line[i] \in Source /\ line[i] \in K
  <2>1. \A i \in 1 .. n : i \in 1 .. Len(line)
    BY <1>2
  <2> QED BY <1>2, <2>1 DEF Lists
<1>4. PICK b : b = [i \in 1 .. n |-> line[i]]
  OBVIOUS
<1>5. b \in Bijection(1 .. n, P)
  <2>1. \A i, j \in 1 .. n : b[i] = b[j] => i = j
    BY <1>3, <1>4 DEF Lists
  <2>2. b \in [1 .. n -> P] /\ \A a \in P : \E i \in 1 .. n : b[i] = a
    BY <1>3, <1>4
  <2> QED BY <2>1, <2>2 DEF Bijection, Injection, Surjection, IsInjective
<1>6. ExistsBijection(1 .. n, P)
  BY <1>5 DEF ExistsBijection
<1>7. IsFiniteSet(1 .. n) /\ Cardinality(1 .. n) = n
  BY FS_Interval
<1>8. IsFiniteSet(P) /\ Cardinality(P) = n
  BY <1>6, <1>7, FS_Bijection
<1>9. P \in SUBSET K
  BY <1>3
<1> QED BY <1>8, <1>9

\* Each of the keys of P has one request more.
LEMMA PairsServed ==
    ASSUME NEW f \in [Source -> Nat], NEW g \in [Source -> Nat], IsFiniteSet(Pairs(f)),
           NEW P \in SUBSET Expensive, IsFiniteSet(P),
           \A k \in P : g[k] = f[k] + 1, \A k \in Expensive \ P : g[k] = f[k]
    PROVE  IsFiniteSet(Pairs(g)) /\ Cardinality(Pairs(g)) = Cardinality(Pairs(f)) + Cardinality(P)
<1>1. \A k \in Expensive : k \in Source /\ f[k] \in Nat /\ g[k] \in Nat
  BY DEF Expensive
<1>2. PICK added : added = [k \in P |-> <<k, f[k] + 1>>]
  OBVIOUS
<1>3. PICK A : A = {added[k] : k \in P}
  OBVIOUS
<1>5. IsFiniteSet(A) /\ Cardinality(A) = Cardinality(P)
  <2>1. added \in Bijection(P, A)
    <3>1. \A i, j \in P : added[i] = added[j] => i = j
      BY <1>2
    <3>2. added \in [P -> A] /\ \A a \in A : \E i \in P : added[i] = a
      BY <1>2, <1>3
    <3> QED BY <3>1, <3>2 DEF Bijection, Injection, Surjection, IsInjective
  <2>2. ExistsBijection(P, A)
    BY <2>1 DEF ExistsBijection
  <2> QED BY <2>2, FS_Bijection
<1>6. A \cap Pairs(f) = {}
  <2>1. ASSUME NEW k \in P PROVE added[k] \notin Pairs(f)
    <3>1. ~(f[k] + 1 \in 1 .. f[k])
      BY <1>1
    <3>2. <<k, f[k] + 1>> \notin Pairs(f)
      BY <3>1, PairsMembers
    <3> QED BY <1>2, <3>2
  <2>2. \A a \in A : a \notin Pairs(f)
    BY <1>3, <2>1
  <2> QED BY <2>2
<1>7. \A q \in Pairs(g) : q \in Pairs(f) \union A
  <2> SUFFICES ASSUME NEW j \in Expensive, NEW m \in 1 .. g[j], <<j, m>> \notin Pairs(f)
               PROVE  <<j, m>> \in A
    BY PairsMembers
  <2>1. ~(m \in 1 .. f[j])
    BY PairsMembers
  <2>2. j \in P /\ m = f[j] + 1
    BY <1>1, <2>1
  <2> QED BY <1>2, <1>3, <2>2
<1>8. \A q \in Pairs(f) : q \in Pairs(g)
  <2> SUFFICES ASSUME NEW j \in Expensive, NEW m \in 1 .. f[j]
               PROVE  <<j, m>> \in Pairs(g)
    BY PairsMembers
  <2>2. m \in 1 .. g[j]
    BY <1>1
  <2> QED BY <2>2, PairsMembers
<1>9. \A q \in A : q \in Pairs(g)
  <2> SUFFICES ASSUME NEW k \in P PROVE <<k, f[k] + 1>> \in Pairs(g)
    BY <1>2, <1>3
  <2>1. f[k] + 1 \in 1 .. g[k]
    BY <1>1
  <2> QED BY <2>1, PairsMembers
<1>10. Pairs(g) = Pairs(f) \union A /\ Pairs(f) \cap A = {}
  BY <1>6, <1>7, <1>8, <1>9
<1>11. Cardinality(Pairs(f)) \in Nat /\ Cardinality(A) \in Nat /\ Cardinality(Pairs(f) \cap A) = 0
  BY <1>5, <1>10, FS_CardinalityType, FS_EmptySet
<1>12. /\ IsFiniteSet(Pairs(f) \union A)
       /\ Cardinality(Pairs(f) \union A) =
             Cardinality(Pairs(f)) + Cardinality(A) - Cardinality(Pairs(f) \cap A)
  BY <1>5, FS_Union
<1> QED BY <1>5, <1>10, <1>11, <1>12

\* The slots do not depend on what is shown or scheduled.
LEMMA SlotSame ==
    ASSUME NEW c \in Caches, NEW d \in Caches, SlotGood(c), d.flight = c.flight,
           d.retired = c.retired, d.waiting = c.waiting, d.active = c.active
    PROVE  SlotGood(d)
<1>1. Queued(d) = Queued(c)
  BY DEF Queued
<1>2. Wire(d) = Wire(c)
  BY DEF Wire, onWire, OnTheWire, Pending
<1> QED BY <1>1, <1>2 DEF SlotGood

\* A request that is cancelled keeps its slot, one that waits had none.
LEMMA RetireSlots ==
    ASSUME NEW c \in Caches, NEW S \in SUBSET Source, SlotGood(c), NEW d, d = retire(c, S)
    PROVE  SlotGood(d) /\ d \in Caches /\ \A k \in S : ~Pending(d, k)
<1>1. /\ d \in Caches
      /\ d.active = c.active /\ d.waiting = without(c.waiting, S)
      /\ \A k \in Source :
            /\ d.flight[k] = IF k \in S THEN NoFlight ELSE c.flight[k]
            /\ d.retired[k] = IF k \in S /\ OnTheWire(c, k) THEN c.retired[k] + 1
                              ELSE c.retired[k]
  BY RetireFields
<1>2. Queued(d) = Queued(c) \ S
  BY <1>1 DEF Queued, NoFlight
<1>3. \A k \in Source : onWire(d, k) = onWire(c, k)
  BY <1>1 DEF onWire, OnTheWire, Pending, Caches
<1>4. Wire(d) = Wire(c)
  BY <1>3 DEF Wire, Expensive
<1>5. Lists(d.waiting, Queued(d))
  <2>1. Queued(c) \in SUBSET Source
    BY DEF Queued
  <2> QED BY <1>1, <1>2, <2>1, WithoutLists DEF SlotGood
<1>6. \A k \in S : ~Pending(d, k)
  BY <1>1 DEF Pending
<1> QED BY <1>1, <1>2, <1>4, <1>5, <1>6 DEF SlotGood

\* d is c without the keys that are not of w; of the books it has those of b.
Retained(c, w, b, d) ==
    /\ d \in Caches
    /\ d.active = b.active /\ d.waiting = b.waiting
    /\ d.retired = b.retired /\ d.flight = b.flight
    /\ d.timers = c.timers \ (Fetched(c) \ w)
    /\ \A k \in Source :
          /\ d.fetched[k] = IF k \in Fetched(c) \ w THEN None ELSE c.fetched[k]
          /\ d.shown[k] = IF k \in Fetched(c) \ w THEN Idle ELSE c.shown[k]
          /\ d.flight[k] = IF k \notin w THEN NoFlight ELSE c.flight[k]

\* retain, field by field.
LEMMA RetainFields ==
    ASSUME NEW c \in Caches, NEW w \in SUBSET Source, SlotGood(c), NEW d, d = retain(c, w)
    PROVE  \E b : SlotGood(b) /\ b \in Caches /\ Retained(c, w, b, d)
<1> DEFINE b == retire(c, {k \in Source \ w : Pending(c, k)})
<1>1. PICK S \in SUBSET Source : S = {k \in Source \ w : Pending(c, k)}
  OBVIOUS
<1>2. /\ b \in Caches /\ b.fetched = c.fetched /\ b.shown = c.shown /\ b.timers = c.timers
      /\ \A k \in Source : b.flight[k] = IF k \in S THEN NoFlight ELSE c.flight[k]
  BY <1>1, RetireFields
<1>11. SlotGood(b)
  BY <1>1, RetireSlots
<1>3. PICK s : s = [k \in Source |-> IF k \in Fetched(c) \ w THEN Idle ELSE b.shown[k]]
  OBVIOUS
<1>4. s \in [Source -> States]
  BY <1>2, <1>3 DEF Caches, States, Idle
<1>5. PICK g : g = [k \in Source |-> IF k \in Fetched(c) \ w THEN None ELSE b.fetched[k]]
  OBVIOUS
<1>6. g \in [Source -> TimeRange \cup {None}]
  BY <1>2, <1>5 DEF Caches
<1>7. d = [b EXCEPT !.fetched = g, !.timers = b.timers \ (Fetched(c) \ w), !.shown = s]
  BY <1>3, <1>5 DEF retain
<1> HIDE DEF b
<1>8. d = [flight |-> b.flight, retired |-> b.retired, waiting |-> b.waiting, active |-> b.active,
           fetched |-> g, shown |-> s, timers |-> b.timers \ (Fetched(c) \ w)]
  BY <1>2, <1>7 DEF Caches
<1>9. /\ d \in Caches /\ d.flight = b.flight /\ d.retired = b.retired /\ d.waiting = b.waiting
      /\ d.active = b.active /\ d.fetched = g /\ d.shown = s
      /\ d.timers = b.timers \ (Fetched(c) \ w)
  BY <1>2, <1>4, <1>6, <1>8 DEF Caches
<1>10. \A k \in Source : b.flight[k] = IF k \notin w THEN NoFlight ELSE c.flight[k]
  BY <1>1, <1>2 DEF Pending
<1>12. Retained(c, w, b, d)
  BY <1>2, <1>3, <1>5, <1>9, <1>10 DEF Retained
<1> QED BY <1>2, <1>11, <1>12

\* A queued request is pending.
LEMMA QueuedPends ==
    ASSUME NEW c \in Caches, NEW k \in Source, c.flight[k].queued
    PROVE  Pending(c, k)
  BY DEF Pending, NoFlight, Caches

\* New requests take the slots there are and wait in their order.
LEMMA RunSlots ==
    ASSUME NEW c \in Caches, NEW S \in SUBSET Source, NEW r, \A k \in S : r[k] \in TimeRange,
           NEW line, Lists(line, S \cap Expensive), SlotGood(c), \A k \in S : ~Pending(c, k),
           NEW d, d = run(c, S, r, line)
    PROVE  SlotGood(d) /\ d \in Caches
<1>1. line \in Seq(Source) /\ Len(line) \in Nat
  BY DEF Lists
<1>2. PICK n : n = served(c, line)
  OBVIOUS
<1>0. Ran(c, S, r, line, n, d)
  BY <1>1, <1>2, RunFields
<1>3. /\ n \in Nat /\ n <= Len(line) /\ c.active + n <= MaxConcurrent
      /\ n < Len(line) => c.active + n = MaxConcurrent
      /\ d \in Caches
      /\ d.active = c.active + n /\ d.waiting = c.waiting \o SubSeq(line, n + 1, Len(line))
      /\ d.retired = c.retired
      /\ \A k \in Source :
            /\ k \in S => /\ d.flight[k].range = r[k]
                          /\ d.flight[k].queued <=> \E i \in n + 1 .. Len(line) : line[i] = k
            /\ k \notin S => d.flight[k] = c.flight[k]
  BY <1>0 DEF Ran
<1>4. PICK rest \in SUBSET Source : rest = {k \in Source : \E i \in n + 1 .. Len(line) : line[i] = k}
  OBVIOUS
<1>5. \A i \in 1 .. Len(line) : line[i] \in S /\ line[i] \in Expensive /\ line[i] \in Source
  BY <1>1 DEF Lists
<1>6. rest \subseteq S \cap Expensive
  <2>1. \A i \in n + 1 .. Len(line) : i \in 1 .. Len(line)
    BY <1>1, <1>3
  <2> QED BY <1>4, <1>5, <2>1
<1>7. Queued(c) \cap S = {}
  BY QueuedPends DEF Queued
<1>8. Queued(d) = Queued(c) \union rest
  BY <1>3, <1>4, <1>6, <1>7 DEF Queued
<1>9. Lists(d.waiting, Queued(d))
  <2>1. Lists(SubSeq(line, n + 1, Len(line)), rest)
    <3>1. S \cap Expensive \in SUBSET Source /\ n \in Nat /\ n <= Len(line)
      BY <1>3
    <3> QED BY <1>4, <3>1, RestLists
  <2>2. Queued(c) \in SUBSET Source /\ Queued(c) \cap rest = {}
    BY <1>6, <1>7 DEF Queued
  <2>3. Lists(c.waiting, Queued(c))
    BY DEF SlotGood
  <2>4. Lists(c.waiting \o SubSeq(line, n + 1, Len(line)), Queued(c) \union rest)
    BY <2>1, <2>2, <2>3, JoinLists
  <2> QED BY <1>3, <1>8, <2>4
<1>10. \A k \in Expensive :
          onWire(d, k) = IF \E i \in 1 .. n : line[i] = k THEN onWire(c, k) + 1 ELSE onWire(c, k)
  <2> SUFFICES ASSUME NEW k \in Expensive
               PROVE  onWire(d, k) = IF \E i \in 1 .. n : line[i] = k THEN onWire(c, k) + 1
                                     ELSE onWire(c, k)
    OBVIOUS
  <2>1. k \in Source
    BY DEF Expensive
  <2>2. \A i \in 1 .. n : i \in 1 .. Len(line)
    BY <1>1, <1>3
  <2>3. CASE k \notin S
    <3>1. ~\E i \in 1 .. n : line[i] = k
      BY <1>5, <2>2, <2>3
    <3> QED BY <1>3, <2>1, <2>3, <3>1 DEF onWire, OnTheWire, Pending
  <2>4. CASE k \in S
    <3>1. PICK i \in 1 .. Len(line) : line[i] = k
      BY <2>1, <2>4 DEF Lists
    <3>2. \A j \in 1 .. Len(line) : line[j] = k => j = i
      BY <3>1 DEF Lists
    <3>3. (\E j \in 1 .. n : line[j] = k) <=> i <= n
      BY <1>1, <1>3, <2>2, <3>1, <3>2
    <3>4. (\E j \in n + 1 .. Len(line) : line[j] = k) <=> ~(i <= n)
      <4>1. \A j \in n + 1 .. Len(line) : j \in 1 .. Len(line)
        BY <1>1, <1>3
      <4> QED BY <1>1, <1>3, <3>1, <3>2, <4>1
    <3>5. Pending(d, k)
      BY <1>3, <2>1, <2>4, SourceAssumption DEF Pending, NoFlight
    <3>6. OnTheWire(d, k) <=> i <= n
      BY <1>3, <2>1, <2>4, <3>4, <3>5 DEF OnTheWire
    <3>7. onWire(c, k) = c.retired[k] /\ c.retired[k] \in Nat
      BY <2>1, <2>4 DEF onWire, OnTheWire, Caches
    <3> QED BY <1>3, <3>3, <3>6, <3>7 DEF onWire
  <2> QED BY <2>3, <2>4
<1>11. IsFiniteSet(Wire(d)) /\ Cardinality(Wire(d)) = Cardinality(Wire(c)) + n
  <2>1. PICK f \in [Source -> Nat] : f = OnWire(c) /\ Wire(c) = Pairs(f)
    BY WirePairs
  <2>2. PICK g \in [Source -> Nat] : g = OnWire(d) /\ Wire(d) = Pairs(g)
    BY <1>3, WirePairs
  <2>3. PICK P \in SUBSET Source : \A k \in Source : k \in P <=> \E i \in 1 .. n : line[i] = k
    <3>1. PICK P : P = {k \in Source : \E i \in 1 .. n : line[i] = k}
      OBVIOUS
    <3>2. P \in SUBSET Source /\ \A k \in Source : k \in P <=> \E i \in 1 .. n : line[i] = k
      BY <3>1
    <3> QED BY <3>2
  <2>4. P \in SUBSET Expensive /\ IsFiniteSet(P) /\ Cardinality(P) = n
    <3>1. S \cap Expensive \in SUBSET Source /\ n \in Nat /\ n <= Len(line)
      BY <1>3
    <3>2. PICK K \in SUBSET Source : K = S \cap Expensive
      BY <3>1
    <3>3. Lists(line, K)
      BY <3>2
    <3>4. P \in SUBSET K /\ IsFiniteSet(P) /\ Cardinality(P) = n
      BY <2>3, <3>1, <3>3, FirstOfLine
    <3> QED BY <3>2, <3>4
  <2>5. IsFiniteSet(Pairs(f))
    BY <2>1 DEF SlotGood
  <2>7. \A k \in Expensive : f[k] = onWire(c, k) /\ g[k] = onWire(d, k)
    BY <2>1, <2>2 DEF OnWire, Expensive
  <2>8. \A k \in P : g[k] = f[k] + 1
    BY <1>10, <2>3, <2>4, <2>7 DEF Expensive
  <2>9. \A k \in Expensive \ P : g[k] = f[k]
    BY <1>10, <2>3, <2>7 DEF Expensive
  <2>6. IsFiniteSet(Pairs(g)) /\ Cardinality(Pairs(g)) = Cardinality(Pairs(f)) + n
    BY <2>4, <2>5, <2>8, <2>9, PairsServed
  <2> QED BY <2>1, <2>2, <2>6
<1>12. Queued(d) # {} => d.active = MaxConcurrent
  <2>1. c.active \in Nat /\ c.active <= MaxConcurrent /\ MaxConcurrent \in Nat
    BY BoundAssumption DEF Caches
  <2>2. ASSUME Queued(c) # {} PROVE d.active = MaxConcurrent
    BY <1>3, <2>1, <2>2 DEF SlotGood
  <2>3. ASSUME rest # {} PROVE d.active = MaxConcurrent
    <3>1. n < Len(line)
      BY <1>1, <1>3, <1>4, <2>3
    <3> QED BY <1>3, <3>1
  <2> QED BY <1>8, <2>2, <2>3
<1>13. Queued(d) \subseteq Expensive
  BY <1>6, <1>8 DEF SlotGood
<1> QED BY <1>3, <1>9, <1>11, <1>12, <1>13 DEF SlotGood

\* The slot of an expensive request that settles is free when no one waits.
LEMMA SlotFreed ==
    ASSUME NEW c \in Caches, NEW d \in Caches, SlotGood(c), NEW k \in Expensive,
           onWire(c, k) > 0, onWire(d, k) = onWire(c, k) - 1,
           \A j \in Expensive : j # k => onWire(d, j) = onWire(c, j),
           Queued(c) = {}, Queued(d) = {},
           d.active = c.active - 1, d.waiting = c.waiting
    PROVE  SlotGood(d)
<1>1. PICK f \in [Source -> Nat] : f = OnWire(c) /\ Wire(c) = Pairs(f)
  BY WirePairs
<1>2. PICK g \in [Source -> Nat] : g = OnWire(d) /\ Wire(d) = Pairs(g)
  BY WirePairs
<1>3. \A j \in Expensive : f[j] = onWire(c, j) /\ g[j] = onWire(d, j)
  BY <1>1, <1>2 DEF OnWire, Expensive
<1>4. IsFiniteSet(Pairs(f)) /\ c.active = Cardinality(Pairs(f))
  BY <1>1 DEF SlotGood
<1>5. f[k] > 0 /\ g[k] = f[k] - 1
  BY <1>3
<1>6. \A j \in Expensive : j # k => g[j] = f[j]
  BY <1>3
<1>7. IsFiniteSet(Pairs(g)) /\ Cardinality(Pairs(g)) = Cardinality(Pairs(f)) - 1
  BY <1>4, <1>5, <1>6, PairsLess
<1> QED BY <1>2, <1>4, <1>7 DEF SlotGood

\* Otherwise it goes to the first of the line, which may be the same key.
LEMMA SlotPassed ==
    ASSUME NEW c \in Caches, NEW d \in Caches, SlotGood(c), NEW k \in Expensive,
           NEW h \in Queued(c), h = Head(c.waiting), onWire(c, k) > 0,
           h # k => onWire(d, k) = onWire(c, k) - 1 /\ onWire(d, h) = onWire(c, h) + 1,
           h = k => onWire(d, k) = onWire(c, k),
           \A j \in Expensive : j # k /\ j # h => onWire(d, j) = onWire(c, j),
           Len(c.waiting) > 0, Queued(d) = Queued(c) \ {h},
           d.active = c.active, d.waiting = Tail(c.waiting)
    PROVE  SlotGood(d)
<1>1. PICK f \in [Source -> Nat] : f = OnWire(c) /\ Wire(c) = Pairs(f)
  BY WirePairs
<1>2. PICK g \in [Source -> Nat] : g = OnWire(d) /\ Wire(d) = Pairs(g)
  BY WirePairs
<1>3. \A j \in Expensive : f[j] = onWire(c, j) /\ g[j] = onWire(d, j)
  BY <1>1, <1>2 DEF OnWire, Expensive
<1>4. IsFiniteSet(Pairs(f)) /\ c.active = Cardinality(Pairs(f)) /\ c.active = MaxConcurrent
      /\ h \in Expensive /\ Lists(c.waiting, Queued(c)) /\ Queued(c) \subseteq Expensive
  BY <1>1 DEF SlotGood
<1>5. IsFiniteSet(Pairs(g)) /\ Cardinality(Pairs(g)) = Cardinality(Pairs(f))
  <2>1. CASE h = k
    <3>1. \A j \in Expensive : g[j] = f[j]
      BY <1>3, <2>1
    <3>2. Pairs(g) = Pairs(f)
      BY <3>1 DEF Pairs
    <3> QED BY <1>4, <3>2
  <2>2. CASE h # k
    <3>1. k \in Source /\ h \in Source /\ f[k] \in Nat /\ f[h] \in Nat
      BY <1>4 DEF Expensive
    <3>2. f[k] > 0 /\ g[k] = f[k] - 1 /\ g[h] = f[h] + 1
      BY <1>3, <1>4, <2>2
    <3>3. \A j \in Expensive : j # k /\ j # h => g[j] = f[j]
      BY <1>3
    <3>4. PICK e : e = [f EXCEPT ![k] = f[k] - 1]
      OBVIOUS
    <3>5. e \in [Source -> Nat] /\ e[k] = f[k] - 1 /\ \A j \in Source : j # k => e[j] = f[j]
      BY <3>1, <3>2, <3>4
    <3>6. \A j \in Expensive : j # k => e[j] = f[j]
      BY <3>5 DEF Expensive
    <3>7. /\ IsFiniteSet(Pairs(e)) /\ Cardinality(Pairs(e)) = Cardinality(Pairs(f)) - 1
          /\ Cardinality(Pairs(f)) \in Nat \ {0}
      <4>1. f[k] > 0 /\ e[k] = f[k] - 1 /\ e \in [Source -> Nat] /\ IsFiniteSet(Pairs(f))
        BY <1>4, <3>2, <3>5
      <4> QED BY ONLY <3>6, <4>1, f \in [Source -> Nat], k \in Expensive, PairsLess
    <3>8. g[h] = e[h] + 1
      BY <2>2, <3>1, <3>2, <3>5
    <3>9. \A j \in Expensive : j # h => g[j] = e[j]
      <4> SUFFICES ASSUME NEW j \in Expensive, j # h PROVE g[j] = e[j]
        OBVIOUS
      <4> QED BY <3>2, <3>3, <3>5, <3>6
    <3>10. IsFiniteSet(Pairs(g)) /\ Cardinality(Pairs(g)) = Cardinality(Pairs(e)) + 1
      BY <1>4, <3>5, <3>7, <3>8, <3>9, PairsMore
    <3> QED BY <3>7, <3>10
  <2> QED BY <2>1, <2>2
<1>6. Lists(d.waiting, Queued(d))
  <2>1. Queued(c) \in SUBSET Source
    BY DEF Queued
  <2> QED BY <1>4, <2>1, TailLists
<1> QED BY <1>2, <1>4, <1>5, <1>6 DEF SlotGood

\* The queue, the slots and the expensive requests are as they were.
LEMMA SlotKept ==
    ASSUME NEW c \in Caches, NEW d \in Caches, SlotGood(c),
           \A j \in Expensive : onWire(d, j) = onWire(c, j), Queued(d) = Queued(c),
           d.active = c.active, d.waiting = c.waiting
    PROVE  SlotGood(d)
<1>1. Wire(d) = Wire(c)
  BY DEF Wire
<1> QED BY <1>1 DEF SlotGood

\* A request on the wire has its slot.
LEMMA SlotTaken ==
    ASSUME NEW c \in Caches, SlotGood(c), NEW k \in Expensive, onWire(c, k) > 0
    PROVE  c.active \in 1 .. MaxConcurrent
<1>1. PICK f \in [Source -> Nat] : f = OnWire(c) /\ Wire(c) = Pairs(f)
  BY WirePairs
<1>2. k \in Source /\ f[k] > 0 /\ f[k] \in Nat
  BY <1>1 DEF OnWire, Expensive
<1>3. 1 \in 1 .. f[k]
  BY <1>2
<1>4. <<k, 1>> \in Wire(c)
  BY <1>1, <1>3, PairsMembers
<1>5. c.active # 0
  BY <1>4, FS_EmptySet DEF SlotGood
<1> QED BY <1>5, BoundAssumption DEF Caches

\* A line that has someone in it has a first.
LEMMA FirstWaits ==
    ASSUME NEW c \in Caches, SlotGood(c)
    PROVE  /\ c.waiting = <<>> => Queued(c) = {}
           /\ c.waiting # <<>> => Len(c.waiting) > 0 /\ Head(c.waiting) \in Queued(c)
                                  /\ Head(c.waiting) \in Source
<1>1. Lists(c.waiting, Queued(c)) /\ Queued(c) \in SUBSET Source /\ c.waiting \in Seq(Source)
  BY DEF SlotGood, Queued, Caches
<1>2. ASSUME c.waiting = <<>> PROVE Queued(c) = {}
  BY <1>1, <1>2 DEF Lists
<1>3. ASSUME c.waiting # <<>> 
      PROVE  Len(c.waiting) > 0 /\ Head(c.waiting) \in Queued(c) /\ Head(c.waiting) \in Source
  <2>1. Len(c.waiting) > 0 /\ Len(c.waiting) \in Nat
    BY <1>1, <1>3, EmptySeq
  <2>2. Head(c.waiting) = c.waiting[1] /\ Head(c.waiting) \in Source
    BY <1>1, <2>1, TailLists
  <2>3. 1 \in 1 .. Len(c.waiting)
    BY <2>1
  <2> QED BY <1>1, <2>1, <2>2, <2>3 DEF Lists
<1> QED BY <1>2, <1>3

\* d is c with the slot of a request of k given back.
Released(c, k, d) ==
    /\ d \in Caches
    /\ d.retired = c.retired /\ d.fetched = c.fetched /\ d.shown = c.shown /\ d.timers = c.timers
    /\ k \notin Expensive =>
          d.flight = c.flight /\ d.waiting = c.waiting /\ d.active = c.active
    /\ k \in Expensive /\ c.waiting = <<>> =>
          d.flight = c.flight /\ d.waiting = c.waiting /\ d.active = c.active - 1
    /\ k \in Expensive /\ c.waiting # <<>> =>
          /\ d.waiting = Tail(c.waiting) /\ d.active = c.active
          /\ \A j \in Source :
                d.flight[j] = IF j = Head(c.waiting)
                              THEN [range |-> c.flight[j].range, queued |-> FALSE,
                                    aborted |-> c.flight[j].aborted,
                                    timedOut |-> c.flight[j].timedOut]
                              ELSE c.flight[j]

\* releaseSlot, field by field.
LEMMA ReleaseFields ==
    ASSUME NEW c \in Caches, SlotGood(c), NEW k \in Source, k \in Expensive => onWire(c, k) > 0,
           NEW d, d = releaseSlot(c, k)
    PROVE  Released(c, k, d)
<1>1. CASE k \notin Expensive
  <2>1. d = c
    BY <1>1 DEF releaseSlot, Expensive
  <2> QED BY <1>1, <2>1 DEF Released
<1>2. CASE k \in Expensive /\ c.waiting = <<>>
  <2>1. d = [c EXCEPT !.active = c.active - 1]
    BY <1>2 DEF releaseSlot, Expensive
  <2>2. c.active - 1 \in 0 .. MaxConcurrent
    BY <1>2, SlotTaken, BoundAssumption
  <2>3. d = [flight |-> c.flight, retired |-> c.retired, waiting |-> c.waiting,
             active |-> c.active - 1, fetched |-> c.fetched, shown |-> c.shown,
             timers |-> c.timers]
    BY <2>1 DEF Caches
  <2>4. d \in Caches
    BY <2>2, <2>3 DEF Caches
  <2> QED BY <1>2, <2>3, <2>4 DEF Released
<1>3. CASE k \in Expensive /\ c.waiting # <<>>
  <2>1. PICK h \in Source : h = Head(c.waiting) /\ h \in Queued(c) /\ Len(c.waiting) > 0
    BY <1>3, FirstWaits
  <2>2. PICK f : f = [c.flight EXCEPT ![h] = [c.flight[h] EXCEPT !.queued = FALSE]]
    OBVIOUS
  <2>3. PICK u : u = Tail(c.waiting)
    OBVIOUS
  <2>4. u \in Seq(Source)
    BY <1>3, <2>3 DEF Caches
  <2>5. c.flight[h] \in [range : TimeRange, queued : BOOLEAN, aborted : BOOLEAN, timedOut : BOOLEAN]
    BY <2>1 DEF Queued, Caches, Flights, NoFlight
  <2>6. [c.flight[h] EXCEPT !.queued = FALSE] =
           [range |-> c.flight[h].range, queued |-> FALSE,
            aborted |-> c.flight[h].aborted, timedOut |-> c.flight[h].timedOut]
    <3>1. PICK x \in [range : TimeRange, queued : BOOLEAN, aborted : BOOLEAN, timedOut : BOOLEAN] :
             x = c.flight[h]
      BY <2>5
    <3>2. PICK y : y = [x EXCEPT !.queued = FALSE]
      OBVIOUS
    <3>3. /\ y \in [range : TimeRange, queued : BOOLEAN, aborted : BOOLEAN, timedOut : BOOLEAN]
          /\ y.range = x.range /\ y.queued = FALSE /\ y.aborted = x.aborted
          /\ y.timedOut = x.timedOut
      BY <3>2
    <3>4. y = [range |-> x.range, queued |-> FALSE, aborted |-> x.aborted, timedOut |-> x.timedOut]
      BY <3>3
    <3> QED BY <3>1, <3>2, <3>4
  <2>7. \A j \in Source :
           f[j] = IF j = h THEN [range |-> c.flight[j].range, queued |-> FALSE,
                                 aborted |-> c.flight[j].aborted,
                                 timedOut |-> c.flight[j].timedOut]
                  ELSE c.flight[j]
    BY <2>2, <2>6 DEF Caches
  <2>8. f \in [Source -> Flights]
    <3>1. [c.flight[h] EXCEPT !.queued = FALSE] \in Flights
      BY <2>5, <2>6 DEF Flights
    <3> QED BY <2>2, <3>1 DEF Caches
  <2>9. d = [c EXCEPT !.waiting = u, !.flight = f]
    BY <1>3, <2>1, <2>2, <2>3 DEF releaseSlot, Expensive
  <2>10. d = [flight |-> f, retired |-> c.retired, waiting |-> u,
             active |-> c.active, fetched |-> c.fetched, shown |-> c.shown,
             timers |-> c.timers]
    BY <2>9 DEF Caches
  <2>11. d \in Caches
    BY <2>4, <2>8, <2>10 DEF Caches
  <2>12. /\ d.flight = f /\ d.retired = c.retired /\ d.waiting = Tail(c.waiting)
         /\ d.active = c.active /\ d.fetched = c.fetched /\ d.shown = c.shown
         /\ d.timers = c.timers
    BY <2>3, <2>10
  <2>13. \A j \in Source :
           d.flight[j] = IF j = Head(c.waiting)
                         THEN [range |-> c.flight[j].range, queued |-> FALSE,
                               aborted |-> c.flight[j].aborted,
                               timedOut |-> c.flight[j].timedOut]
                         ELSE c.flight[j]
    BY <2>1, <2>7, <2>12
  <2> QED BY <1>3, <2>11, <2>12, <2>13 DEF Released
<1> QED BY <1>1, <1>2, <1>3

\* In any order, the members of a set are a line.
LEMMA OrdersList ==
    ASSUME NEW S \in SUBSET Source, NEW line \in SetToSeqs(S)
    PROVE  Lists(line, S)
<1>1. IsFiniteSet(S) /\ Cardinality(S) \in Nat
  BY SourceAssumption, FS_Subset, FS_CardinalityType
<1>2. PICK n \in Nat : n = Cardinality(S)
  BY <1>1
<1>3. line \in [1 .. n -> S] /\ \A i, j \in 1 .. n : i # j => line[i] # line[j]
  BY <1>2 DEF SetToSeqs
<1>4. line \in Injection(1 .. n, S)
  BY <1>3 DEF Injection, IsInjective
<1>5. Cardinality(1 .. n) = n
  BY FS_Interval
<1>6. line \in Surjection(1 .. n, S)
  BY <1>1, <1>2, <1>4, <1>5, FS_Injection
<1>7. \A k \in S : \E i \in 1 .. n : line[i] = k
  BY <1>6 DEF Surjection
<1>8. line \in Seq(Source) /\ Len(line) = n
  BY <1>3
<1>9. ASSUME NEW i \in 1 .. n PROVE line[i] \in S
  BY <1>3
<1> QED BY <1>3, <1>7, <1>8, <1>9 DEF Lists

\* The requests of a key after a slot was given back to the first of the line.
LEMMA ReleasedWire ==
    ASSUME NEW c \in Caches, NEW d, SlotGood(c), NEW k \in Expensive, Released(c, k, d),
           c.waiting # <<>>, NEW h, h = Head(c.waiting)
    PROVE  /\ h \in Queued(c) /\ Len(c.waiting) > 0 /\ Queued(d) = Queued(c) \ {h}
           /\ \A j \in Source : /\ Pending(d, j) <=> Pending(c, j)
                                /\ j # h => d.flight[j] = c.flight[j]
                                /\ d.flight[j].range = c.flight[j].range
                                /\ d.flight[j].aborted = c.flight[j].aborted
                                /\ d.flight[j].timedOut = c.flight[j].timedOut
           /\ ~d.flight[h].queued /\ c.flight[h].queued
<1>1. h \in Queued(c) /\ Len(c.waiting) > 0 /\ h \in Source
  BY FirstWaits
<1>2. /\ \A j \in Source : j # h => d.flight[j] = c.flight[j]
      /\ d.flight[h] = [range |-> c.flight[h].range, queued |-> FALSE,
                        aborted |-> c.flight[h].aborted, timedOut |-> c.flight[h].timedOut]
  BY <1>1 DEF Released
<1>3. c.flight[h].queued
  BY <1>1 DEF Queued
<1>4. c.flight[h].range \in TimeRange
  BY <1>1, <1>3 DEF Caches, Flights, NoFlight
<1>5. Pending(c, h) /\ Pending(d, h)
  <2>1. Pending(c, h)
    BY <1>1, <1>3, QueuedPends
  <2>2. d.flight[h].range # None
    BY <1>2, <1>4, SourceAssumption
  <2> QED BY <2>1, <2>2 DEF Pending, NoFlight
<1>6. ~d.flight[h].queued
  BY <1>2
<1>7. Queued(d) = Queued(c) \ {h}
  BY <1>2, <1>6 DEF Queued
<1>8. \A j \in Source : Pending(d, j) <=> Pending(c, j)
  BY <1>2, <1>5 DEF Pending
<1> QED BY <1>1, <1>2, <1>3, <1>6, <1>7, <1>8

\* The newest request of a key settles: its slot is passed on, the key has none.
LEMMA FinishSlots ==
    ASSUME NEW c \in Caches, SlotGood(c), NEW k \in Source, OnTheWire(c, k), NEW d, d = finish(c, k)
    PROVE  /\ SlotGood(d) /\ d \in Caches
           /\ d.fetched = c.fetched /\ d.shown = c.shown /\ d.timers = c.timers
           /\ ~Pending(d, k) /\ ~d.flight[k].aborted
           /\ \A j \in Source : j # k =>
                 /\ Pending(d, j) <=> Pending(c, j)
                 /\ d.flight[j].range = c.flight[j].range
                 /\ d.flight[j].aborted = c.flight[j].aborted
                 /\ d.flight[j].timedOut = c.flight[j].timedOut
<1>0. c \in Caches /\ SlotGood(c) /\ k \in Source
  OBVIOUS
<1>1. c.retired[k] \in Nat /\ onWire(c, k) = c.retired[k] + 1 /\ onWire(c, k) > 0
  BY DEF onWire, Caches
<1>2. k \notin Queued(c)
  BY DEF Queued, OnTheWire
<1>3. PICK b : b = releaseSlot(c, k)
  OBVIOUS
<1>4. Released(c, k, b)
  BY <1>1, <1>3, ReleaseFields
<1>5. /\ b \in Caches /\ b.retired = c.retired /\ b.fetched = c.fetched /\ b.shown = c.shown
      /\ b.timers = c.timers
  BY <1>4 DEF Released
<1>6. PICK f : f = [b.flight EXCEPT ![k] = NoFlight]
  OBVIOUS
<1>7. f \in [Source -> Flights] /\ f[k] = NoFlight /\ \A j \in Source : j # k => f[j] = b.flight[j]
  BY <1>5, <1>6 DEF Caches, Flights
<1>8. d = [b EXCEPT !.flight = f]
  BY <1>3, <1>6 DEF finish
<1>9. d = [flight |-> f, retired |-> b.retired, waiting |-> b.waiting, active |-> b.active,
           fetched |-> b.fetched, shown |-> b.shown, timers |-> b.timers]
  BY <1>5, <1>8 DEF Caches
<1>10. /\ d \in Caches /\ d.flight = f /\ d.retired = c.retired /\ d.waiting = b.waiting
       /\ d.active = b.active /\ d.fetched = c.fetched /\ d.shown = c.shown /\ d.timers = c.timers
  BY <1>5, <1>7, <1>9 DEF Caches
<1>11. ~Pending(d, k) /\ ~d.flight[k].aborted /\ ~d.flight[k].queued
  BY <1>7, <1>10 DEF Pending, NoFlight
<1>12. onWire(d, k) = onWire(c, k) - 1
  BY <1>1, <1>10, <1>11 DEF onWire, OnTheWire
<1>13. CASE k \in Expensive /\ c.waiting # <<>>
  <2>1. PICK h : h = Head(c.waiting)
    OBVIOUS
  <2>2. /\ h \in Queued(c) /\ Len(c.waiting) > 0 /\ Queued(b) = Queued(c) \ {h}
        /\ \A j \in Source : /\ Pending(b, j) <=> Pending(c, j)
                             /\ j # h => b.flight[j] = c.flight[j]
                             /\ b.flight[j].range = c.flight[j].range
                             /\ b.flight[j].aborted = c.flight[j].aborted
                             /\ b.flight[j].timedOut = c.flight[j].timedOut
        /\ ~b.flight[h].queued /\ c.flight[h].queued
    BY ONLY <1>0, <1>4, <1>13, <2>1, ReleasedWire
  <2>3. h # k /\ h \in Source
    BY <1>2, <2>2 DEF Queued
  <2>4. \A j \in Source : j # k =>
          /\ Pending(d, j) <=> Pending(c, j)
          /\ j # h => d.flight[j] = c.flight[j]
          /\ d.flight[j].range = c.flight[j].range
          /\ d.flight[j].aborted = c.flight[j].aborted
          /\ d.flight[j].timedOut = c.flight[j].timedOut
    BY <1>7, <1>10, <2>2 DEF Pending
  <2>5. ~d.flight[h].queued
    BY <1>7, <1>10, <2>2, <2>3
  <2>6. onWire(d, h) = onWire(c, h) + 1
    <3>1. Pending(d, h)
      BY <2>2, <2>3, <2>4, QueuedPends
    <3>2. onWire(c, h) = c.retired[h] /\ c.retired[h] \in Nat
      BY <2>2, <2>3 DEF onWire, OnTheWire, Caches
    <3> QED BY <1>10, <2>5, <3>1, <3>2 DEF onWire, OnTheWire
  <2>7. \A j \in Expensive : j # k /\ j # h => onWire(d, j) = onWire(c, j)
    BY <1>10, <2>4 DEF onWire, OnTheWire, Pending, Expensive
  <2>8. Queued(d) = Queued(c) \ {h}
    BY <1>2, <1>11, <2>3, <2>4, <2>5 DEF Queued
  <2>9. d.active = c.active /\ d.waiting = Tail(c.waiting)
    BY <1>4, <1>10, <1>13 DEF Released
  <2>10. SlotGood(d)
    BY <1>1, <1>10, <1>12, <1>13, <2>1, <2>2, <2>3, <2>6, <2>7, <2>8, <2>9, SlotPassed
  <2> QED BY <1>10, <1>11, <2>4, <2>10
<1>14. CASE ~(k \in Expensive /\ c.waiting # <<>>)
  <2>1. b.flight = c.flight /\ b.waiting = c.waiting
    BY <1>4, <1>14 DEF Released
  <2>2. \A j \in Source : j # k => d.flight[j] = c.flight[j]
    BY <1>7, <1>10, <2>1
  <2>3. Queued(d) = Queued(c)
    BY <1>2, <1>11, <2>2 DEF Queued
  <2>4. \A j \in Expensive : j # k => onWire(d, j) = onWire(c, j)
    BY <1>10, <2>2 DEF onWire, OnTheWire, Pending, Expensive
  <2>5. ASSUME k \in Expensive PROVE SlotGood(d)
    <3>1. c.waiting = <<>>
      BY <1>14, <2>5
    <3>2. Queued(c) = {} /\ Queued(d) = {}
      BY <2>3, <3>1, FirstWaits
    <3>3. d.active = c.active - 1 /\ d.waiting = c.waiting
      BY <1>4, <1>10, <2>5, <3>1 DEF Released
    <3>4. d \in Caches
      BY <1>10
    <3> QED BY ONLY <1>0, <1>1, <1>12, <2>4, <2>5, <3>2, <3>3, <3>4, SlotFreed
  <2>6. ASSUME k \notin Expensive PROVE SlotGood(d)
    <3>1. d.active = c.active /\ d.waiting = c.waiting
      BY <1>4, <1>10, <2>6 DEF Released
    <3>2. \A j \in Expensive : onWire(d, j) = onWire(c, j)
      BY <2>4, <2>6
    <3>3. d \in Caches
      BY <1>10
    <3> QED BY ONLY <1>0, <2>3, <3>1, <3>2, <3>3, SlotKept
  <2>7. SlotGood(d)
    BY <2>5, <2>6
  <2> QED BY <1>10, <1>11, <2>2, <2>7 DEF Pending
<1> QED BY <1>13, <1>14

\* A cancelled request settles: its slot is passed on, to its own key perhaps.
GivesBack(c, k, d) == d = [releaseSlot(c, k) EXCEPT !.retired[k] = @ - 1]

LEMMA RetiredSlots ==
    ASSUME NEW c \in Caches, SlotGood(c), NEW k \in Source, c.retired[k] > 0,
           NEW d, GivesBack(c, k, d)
    PROVE  /\ SlotGood(d) /\ d \in Caches
           /\ d.fetched = c.fetched /\ d.shown = c.shown /\ d.timers = c.timers
           /\ \A j \in Source :
                 /\ Pending(d, j) <=> Pending(c, j)
                 /\ d.flight[j].range = c.flight[j].range
                 /\ d.flight[j].aborted = c.flight[j].aborted
                 /\ d.flight[j].timedOut = c.flight[j].timedOut
<1>0. c \in Caches /\ SlotGood(c) /\ k \in Source
  OBVIOUS
<1>1. c.retired[k] \in Nat /\ onWire(c, k) > 0 /\ onWire(c, k) \in Nat
  BY DEF onWire, Caches
<1>3. PICK b : b = releaseSlot(c, k)
  OBVIOUS
<1>4. Released(c, k, b)
  BY <1>1, <1>3, ReleaseFields
<1>5. /\ b \in Caches /\ b.retired = c.retired /\ b.fetched = c.fetched /\ b.shown = c.shown
      /\ b.timers = c.timers
  BY <1>4 DEF Released
<1>6. PICK g : g = [b.retired EXCEPT ![k] = b.retired[k] - 1]
  OBVIOUS
<1>7. /\ g \in [Source -> Nat] /\ g[k] = c.retired[k] - 1
      /\ \A j \in Source : j # k => g[j] = c.retired[j]
  BY <1>1, <1>5, <1>6 DEF Caches
<1>8. d = [b EXCEPT !.retired = g]
  BY <1>3, <1>6 DEF GivesBack
<1>9. d = [flight |-> b.flight, retired |-> g, waiting |-> b.waiting, active |-> b.active,
           fetched |-> b.fetched, shown |-> b.shown, timers |-> b.timers]
  BY <1>5, <1>8 DEF Caches
<1>10. /\ d \in Caches /\ d.flight = b.flight /\ d.retired = g /\ d.waiting = b.waiting
       /\ d.active = b.active /\ d.fetched = c.fetched /\ d.shown = c.shown /\ d.timers = c.timers
  BY ONLY <1>5, <1>7, <1>9 DEF Caches
<1>13. CASE k \in Expensive /\ c.waiting # <<>>
  <2>1. PICK h : h = Head(c.waiting)
    OBVIOUS
  <2>2. /\ h \in Queued(c) /\ Len(c.waiting) > 0 /\ Queued(b) = Queued(c) \ {h}
        /\ \A j \in Source : /\ Pending(b, j) <=> Pending(c, j)
                             /\ j # h => b.flight[j] = c.flight[j]
                             /\ b.flight[j].range = c.flight[j].range
                             /\ b.flight[j].aborted = c.flight[j].aborted
                             /\ b.flight[j].timedOut = c.flight[j].timedOut
        /\ ~b.flight[h].queued /\ c.flight[h].queued
    BY ONLY <1>0, <1>4, <1>13, <2>1, ReleasedWire
  <2>3. h \in Source
    BY <2>2 DEF Queued
  <2>4. \A j \in Source :
          /\ Pending(d, j) <=> Pending(c, j)
          /\ j # h => d.flight[j] = c.flight[j]
          /\ d.flight[j].range = c.flight[j].range
          /\ d.flight[j].aborted = c.flight[j].aborted
          /\ d.flight[j].timedOut = c.flight[j].timedOut
    BY <1>10, <2>2 DEF Pending
  <2>5. onWire(c, h) = c.retired[h] /\ c.retired[h] \in Nat /\ onWire(d, h) = g[h] + 1
    <3>1. Pending(d, h) /\ ~d.flight[h].queued
      BY <1>10, <2>2, <2>3, <2>4, QueuedPends
    <3> QED BY <1>10, <2>2, <2>3, <3>1 DEF onWire, OnTheWire, Caches
  <2>6. h = k => onWire(d, k) = onWire(c, k)
    BY <1>1, <1>7, <2>5
  <2>7. \A j \in Source : j # h => onWire(d, j) = g[j] + onWire(c, j) - c.retired[j]
    BY <1>5, <1>7, <1>10, <2>4 DEF onWire, OnTheWire, Pending, Caches
  <2>8. h # k => onWire(d, k) = onWire(c, k) - 1 /\ onWire(d, h) = onWire(c, h) + 1
    BY <1>1, <1>7, <2>3, <2>5, <2>7
  <2>9. \A j \in Expensive : j # k /\ j # h => onWire(d, j) = onWire(c, j)
    <3> SUFFICES ASSUME NEW j \in Expensive, j # k, j # h PROVE onWire(d, j) = onWire(c, j)
      OBVIOUS
    <3>1. j \in Source /\ c.retired[j] \in Nat /\ onWire(c, j) \in Nat
      BY DEF Expensive, onWire, Caches
    <3> QED BY <1>7, <2>7, <3>1
  <2>10. Queued(d) = Queued(c) \ {h}
    BY <1>10, <2>2 DEF Queued
  <2>11. d.active = c.active /\ d.waiting = Tail(c.waiting)
    BY <1>4, <1>10, <1>13 DEF Released
  <2>12. SlotGood(d)
    <3>1. d \in Caches /\ h \in Queued(c) /\ Len(c.waiting) > 0 /\ k \in Expensive
      BY <1>10, <1>13, <2>2
    <3> QED BY ONLY <1>0, <1>1, <2>1, <2>6, <2>8, <2>9, <2>10, <2>11, <3>1, SlotPassed
  <2> QED BY <1>10, <2>4, <2>12
<1>14. CASE ~(k \in Expensive /\ c.waiting # <<>>)
  <2>1. b.flight = c.flight /\ b.waiting = c.waiting
    BY <1>4, <1>14 DEF Released
  <2>2. d.flight = c.flight
    BY <1>10, <2>1
  <2>3. Queued(d) = Queued(c)
    BY <2>2 DEF Queued
  <2>4. \A j \in Expensive : j # k => onWire(d, j) = onWire(c, j)
    BY <1>7, <1>10, <2>2 DEF onWire, OnTheWire, Pending, Expensive
  <2>5. ASSUME k \in Expensive PROVE SlotGood(d)
    <3>1. c.waiting = <<>>
      BY <1>14, <2>5
    <3>2. Queued(c) = {} /\ Queued(d) = {}
      BY <2>3, <3>1, FirstWaits
    <3>3. d.active = c.active - 1 /\ d.waiting = c.waiting
      BY <1>4, <1>10, <2>5, <3>1 DEF Released
    <3>4. onWire(d, k) = onWire(c, k) - 1
      BY <1>1, <1>7, <1>10, <2>2 DEF onWire, OnTheWire, Pending
    <3>5. d \in Caches
      BY <1>10
    <3> QED BY ONLY <1>0, <1>1, <2>4, <2>5, <3>2, <3>3, <3>4, <3>5, SlotFreed
  <2>6. ASSUME k \notin Expensive PROVE SlotGood(d)
    <3>1. d.active = c.active /\ d.waiting = c.waiting
      BY <1>4, <1>10, <2>6 DEF Released
    <3>2. \A j \in Expensive : onWire(d, j) = onWire(c, j)
      BY <2>4, <2>6
    <3>3. d \in Caches
      BY <1>10
    <3> QED BY ONLY <1>0, <2>3, <3>1, <3>2, <3>3, SlotKept
  <2>7. SlotGood(d)
    BY <2>5, <2>6
  <2> QED BY <1>10, <2>2, <2>7 DEF Pending
<1> QED BY <1>13, <1>14

-----------------------------------------------------------------------------
(* The operations preserve what is said of each key *)

Good(c) == c \in Caches /\ SlotGood(c) /\ \A k \in Source : KeyGood(c, k)

\* The cache reads what a layout w under a range r names.
Polled(c, w, r) ==
    /\ Fetched(c) = w
    /\ \A k \in w \cap Sensitive : c.fetched[k] = r
    /\ c.timers \subseteq w
    /\ \A k \in Source \ w : ~Pending(c, k) /\ c.shown[k].data = None

\* A pending request has a range, and so has its key.
LEMMA PendingRange ==
    ASSUME NEW c \in Caches, NEW k \in Source, Pending(c, k)
    PROVE  c.flight[k].range \in TimeRange /\ c.flight[k].range # None
<1>1. c.flight[k].range \in TimeRange
  BY DEF Pending, Caches, Flights
<1> QED BY <1>1, SourceAssumption

\* A key a step leaves alone stays good.
LEMMA KeySame ==
    ASSUME NEW c, NEW d, NEW k \in Source, KeyGood(c, k),
           d.shown[k] = c.shown[k], d.fetched[k] = c.fetched[k], Pending(d, k) <=> Pending(c, k),
           d.flight[k].range = c.flight[k].range, d.flight[k].aborted = c.flight[k].aborted,
           d.flight[k].timedOut = c.flight[k].timedOut, k \in d.timers => k \in c.timers
    PROVE  KeyGood(d, k)
  BY DEF KeyGood

\* Timers of expensive keys may come and go.
LEMMA TimersGood ==
    ASSUME NEW c, Good(c), NEW T \in SUBSET Expensive, NEW d, d = [c EXCEPT !.timers = T]
    PROVE  /\ Good(d) /\ d.timers = T /\ d.fetched = c.fetched /\ d.shown = c.shown
           /\ d.flight = c.flight /\ d.retired = c.retired
           /\ d.waiting = c.waiting /\ d.active = c.active
<1>1. c \in Caches
  BY DEF Good
<1>2. d = [flight |-> c.flight, retired |-> c.retired, waiting |-> c.waiting, active |-> c.active,
           fetched |-> c.fetched, shown |-> c.shown, timers |-> T]
  BY <1>1 DEF Caches
<1>3. /\ d \in Caches /\ d.timers = T /\ d.fetched = c.fetched /\ d.shown = c.shown
      /\ d.flight = c.flight /\ d.retired = c.retired
      /\ d.waiting = c.waiting /\ d.active = c.active
  BY <1>1, <1>2 DEF Caches, Expensive
<1>4. SlotGood(d)
  BY <1>1, <1>3, SlotSame DEF Good
<1>5. ASSUME NEW k \in Source PROVE KeyGood(d, k)
  <2>1. KeyGood(c, k)
    BY DEF Good
  <2> QED BY <1>3, <2>1 DEF KeyGood, Pending
<1> QED BY <1>3, <1>4, <1>5 DEF Good

\* d is c with the keys of S on their way again.
Reread(c, S, d) ==
    /\ d.timers = c.timers
    /\ \A k \in Source : /\ d.fetched[k] = c.fetched[k]
                         /\ Pending(d, k) <=> Pending(c, k) \/ k \in S
                         /\ d.shown[k].data = c.shown[k].data

\* Keys that have no request are read again, under the range they have.
LEMMA RunGood ==
    ASSUME NEW c, Good(c), NEW S \in SUBSET Fetched(c), \A k \in S : ~Pending(c, k),
           NEW line, Lists(line, S \cap Expensive), NEW d, d = run(c, S, c.fetched, line)
    PROVE  Good(d) /\ Reread(c, S, d)
<1>1. c \in Caches /\ SlotGood(c)
  BY DEF Good
<1>2. S \in SUBSET Source /\ \A k \in S : c.fetched[k] \in TimeRange /\ c.fetched[k] # None
  BY <1>1 DEF Fetched, Caches
<1>3. SlotGood(d) /\ d \in Caches
  BY <1>1, <1>2, RunSlots
<1>4. line \in Seq(Source)
  BY DEF Lists
<1>5. PICK n : Ran(c, S, c.fetched, line, n, d)
  BY <1>1, <1>2, <1>4, RunFields
<1>6. ASSUME NEW k \in Source
      PROVE  /\ KeyGood(d, k) /\ d.fetched[k] = c.fetched[k]
             /\ Pending(d, k) <=> Pending(c, k) \/ k \in S
             /\ d.shown[k].data = c.shown[k].data
  <2>1. /\ d.fetched[k] = c.fetched[k] /\ d.timers = c.timers
        /\ k \in S => d.flight[k].range = c.fetched[k] /\ ~d.flight[k].aborted
        /\ k \notin S => d.flight[k] = c.flight[k]
        /\ d.shown[k].data = c.shown[k].data /\ d.shown[k].error = c.shown[k].error
        /\ d.shown[k].range = c.shown[k].range
        /\ d.shown[k].loading <=> (c.shown[k].loading \/ k \in S)
    BY <1>5 DEF Ran
  <2>2. Pending(d, k) <=> Pending(c, k) \/ k \in S
    <3>1. CASE k \in S
      BY <1>2, <2>1, <3>1 DEF Pending, NoFlight
    <3>2. CASE k \notin S
      BY <2>1, <3>2 DEF Pending
    <3> QED BY <3>1, <3>2
  <2>3. KeyGood(c, k)
    BY DEF Good
  <2>4. CASE k \in S
    BY <1>2, <2>1, <2>2, <2>3, <2>4 DEF KeyGood
  <2>5. CASE k \notin S
    BY <2>1, <2>2, <2>3, <2>5 DEF KeyGood
  <2> QED BY <2>1, <2>2, <2>4, <2>5
<1> QED BY <1>3, <1>5, <1>6 DEF Good, Ran, Reread

\* Nothing is pending after an abort, and what was falls back on its data.
LEMMA AbortGood ==
    ASSUME NEW c, Good(c), NEW d, d = abort(c)
    PROVE  Good(d) /\ d.timers = {} /\ \A k \in Source : ~Pending(d, k)
<1>1. PICK a : a = [c EXCEPT !.timers = {}]
  OBVIOUS
<1>2. /\ Good(a) /\ a.timers = {} /\ a.fetched = c.fetched /\ a.shown = c.shown /\ a.flight = c.flight
  BY <1>1, TimersGood
<1>3. PICK S \in SUBSET Source : S = {k \in Source : Pending(c, k)}
  OBVIOUS
<1>4. PICK b : b = retire(a, S)
  OBVIOUS
<1>5. /\ b \in Caches /\ SlotGood(b) /\ b.fetched = a.fetched /\ b.shown = a.shown
      /\ b.timers = a.timers
      /\ \A k \in Source : b.flight[k] = IF k \in S THEN NoFlight ELSE a.flight[k]
  BY <1>2, <1>4, RetireFields, RetireSlots DEF Good
<1>6. d = settleAborted(b, S)
  BY <1>1, <1>3, <1>4 DEF abort
<1>7. /\ d \in Caches
      /\ d.active = b.active /\ d.waiting = b.waiting /\ d.flight = b.flight
      /\ d.retired = b.retired /\ d.timers = b.timers
      /\ \A k \in Source :
            /\ d.fetched[k] = IF k \in S THEN b.shown[k].range ELSE b.fetched[k]
            /\ d.shown[k].data = b.shown[k].data /\ d.shown[k].error = b.shown[k].error
            /\ d.shown[k].range = b.shown[k].range
            /\ d.shown[k].loading <=> (b.shown[k].loading /\ k \notin S)
  BY <1>5, <1>6, SettleAbortedFields
<1>8. SlotGood(d)
  BY <1>5, <1>7, SlotSame
<1>9. ASSUME NEW k \in Source PROVE KeyGood(d, k) /\ ~Pending(d, k)
  <2>1. KeyGood(c, k) /\ (k \in S <=> Pending(c, k))
    BY <1>3 DEF Good
  <2>2. d.flight[k] = NoFlight
    BY <1>2, <1>5, <1>7, <2>1 DEF Pending
  <2>3. ~Pending(d, k) /\ ~d.flight[k].aborted
    BY <2>2 DEF Pending, NoFlight
  <2>4. /\ d.shown[k].data = c.shown[k].data /\ d.shown[k].error = c.shown[k].error
        /\ d.shown[k].range = c.shown[k].range /\ ~d.shown[k].loading
        /\ d.fetched[k] = IF k \in S THEN c.shown[k].range ELSE c.fetched[k]
    BY <1>2, <1>5, <1>7, <2>1 DEF KeyGood
  <2>5. k \notin d.timers
    BY <1>2, <1>5, <1>7
  <2> QED BY <2>1, <2>3, <2>4, <2>5 DEF KeyGood
<1> QED BY <1>2, <1>5, <1>7, <1>8, <1>9 DEF Good

\* After its effects the page reads what its layout names under its range: the
\* keys that have no such request get one, the others lose theirs.
LEMMA EffectGood ==
    ASSUME NEW c, Good(c), c.timers \subseteq Fetched(c), NEW w \in SUBSET Source,
           NEW r \in TimeRange, NEW asked, asked = {k \in w : asks(c, k, r)},
           NEW line \in sourcesFor(asked), NEW d, d = retain(ensure(c, asked, r, line), w)
    PROVE  Good(d) /\ Polled(d, w, r)
<1>1. c \in Caches /\ SlotGood(c) /\ asked \in SUBSET Source /\ asked \subseteq w /\ r # None
  BY SourceAssumption DEF Good
<1>2. PICK a : a = retire(c, asked)
  OBVIOUS
<1>3. /\ a \in Caches /\ SlotGood(a) /\ a.fetched = c.fetched /\ a.shown = c.shown
      /\ a.timers = c.timers /\ \A k \in asked : ~Pending(a, k)
      /\ \A k \in Source : a.flight[k] = IF k \in asked THEN NoFlight ELSE c.flight[k]
  BY <1>1, <1>2, RetireFields, RetireSlots
<1>4. Lists(line, asked \cap Expensive)
  <2>1. line \in SetToSeqs(asked \cap Expensive) /\ asked \cap Expensive \in SUBSET Source
    BY <1>1 DEF sourcesFor
  <2> QED BY <2>1, OrdersList
<1>5. PICK q : q = [k \in Source |-> r]
  OBVIOUS
<1>6. \A k \in asked : q[k] \in TimeRange
  BY <1>1, <1>5
<1>7. PICK b : b = run(a, asked, q, line)
  OBVIOUS
<1>8. b \in Caches /\ SlotGood(b)
  BY <1>1, <1>3, <1>4, <1>6, <1>7, RunSlots
<1>9. line \in Seq(Source)
  BY <1>4 DEF Lists
<1>10. PICK n : Ran(a, asked, q, line, n, b)
  BY <1>1, <1>3, <1>6, <1>7, <1>9, RunFields
<1>11. d = retain(b, w)
  BY <1>2, <1>5, <1>7 DEF ensure
<1>12. PICK e : SlotGood(e) /\ e \in Caches /\ Retained(b, w, e, d)
  BY <1>8, <1>11, RetainFields
<1>13. /\ d \in Caches
       /\ d.active = e.active /\ d.waiting = e.waiting
       /\ d.retired = e.retired /\ d.flight = e.flight
       /\ d.timers = b.timers \ (Fetched(b) \ w)
       /\ \A k \in Source :
             /\ d.fetched[k] = IF k \in Fetched(b) \ w THEN None ELSE b.fetched[k]
             /\ d.shown[k] = IF k \in Fetched(b) \ w THEN Idle ELSE b.shown[k]
             /\ d.flight[k] = IF k \notin w THEN NoFlight ELSE b.flight[k]
  BY <1>12 DEF Retained
<1>14. SlotGood(d)
  BY <1>12, <1>13, SlotSame
<1>15. \A k \in Source : b.fetched[k] = IF k \in asked THEN r ELSE c.fetched[k]
  BY <1>3, <1>5, <1>10 DEF Ran
<1>16. Fetched(b) \ w = Fetched(c) \ w
  BY <1>1, <1>15 DEF Fetched
<1>17. d.timers = c.timers \ (Fetched(c) \ w)
  BY <1>3, <1>10, <1>13, <1>16 DEF Ran
<1>18. ASSUME NEW k \in asked
       PROVE  KeyGood(d, k) /\ d.fetched[k] = r
  <2>1. k \in Source /\ k \in w /\ KeyGood(c, k)
    BY <1>1 DEF Good
  <2>2. d.fetched[k] = r /\ d.shown[k] = b.shown[k] /\ d.flight[k] = b.flight[k]
    BY <1>13, <1>15, <2>1
  <2>3. /\ b.flight[k].range = r /\ ~b.flight[k].aborted
        /\ b.shown[k].data = c.shown[k].data /\ b.shown[k].error = c.shown[k].error
        /\ b.shown[k].range = c.shown[k].range /\ b.shown[k].loading
    BY <1>3, <1>5, <1>10, <2>1 DEF Ran
  <2>4. Pending(d, k)
    BY <1>1, <2>2, <2>3 DEF Pending, NoFlight
  <2>5. k \in d.timers => k \in c.timers
    BY <1>17
  <2> QED BY <1>1, <2>1, <2>2, <2>3, <2>4, <2>5 DEF KeyGood
<1>19. ASSUME NEW k \in w, k \notin asked
       PROVE  /\ KeyGood(d, k) /\ d.fetched[k] = c.fetched[k] /\ d.fetched[k] # None
              /\ k \in Sensitive => d.fetched[k] = r
  <2>1. k \in Source /\ KeyGood(c, k) /\ ~asks(c, k, r)
    BY <1>19 DEF Good
  <2>2. d.fetched[k] = c.fetched[k] /\ d.shown[k] = b.shown[k] /\ d.flight[k] = b.flight[k]
    BY <1>13, <1>15, <1>19, <2>1
  <2>3. /\ b.flight[k] = c.flight[k]
        /\ b.shown[k].data = c.shown[k].data /\ b.shown[k].error = c.shown[k].error
        /\ b.shown[k].range = c.shown[k].range /\ (b.shown[k].loading <=> c.shown[k].loading)
    BY <1>3, <1>10, <1>19, <2>1 DEF Ran
  <2>4. k \in d.timers => k \in c.timers
    BY <1>17
  <2>5. d.flight[k] = c.flight[k] /\ (Pending(d, k) <=> Pending(c, k))
    BY <2>2, <2>3 DEF Pending
  <2>6. KeyGood(d, k)
    BY <2>1, <2>2, <2>3, <2>4, <2>5 DEF KeyGood
  <2>7. c.fetched[k] # None /\ (k \in Sensitive => c.fetched[k] = r)
    BY <1>1, <2>1, PendingRange DEF asks, KeyGood
  <2> QED BY <2>2, <2>6, <2>7
<1>20. ASSUME NEW k \in Source, k \notin w
       PROVE  /\ KeyGood(d, k) /\ d.fetched[k] = None
              /\ ~Pending(d, k) /\ d.shown[k].data = None /\ k \notin d.timers
  <2>1. KeyGood(c, k) /\ k \notin asked
    BY <1>1, <1>20 DEF Good
  <2>2. d.flight[k] = NoFlight
    BY <1>13, <1>20
  <2>3. ~Pending(d, k) /\ ~d.flight[k].aborted
    BY <2>2 DEF Pending, NoFlight
  <2>4. k \notin d.timers
    BY <1>17, <1>20
  <2>5. d.fetched[k] = None
    BY <1>13, <1>15, <1>20 DEF Fetched
  <2>6. CASE c.fetched[k] # None
    <3>1. d.shown[k] = Idle
      BY <1>13, <1>16, <1>20, <2>6 DEF Fetched
    <3> QED BY <2>3, <2>4, <2>5, <3>1 DEF KeyGood, Idle
  <2>7. CASE c.fetched[k] = None
    <3>1. d.shown[k] = b.shown[k]
      BY <1>13, <1>16, <2>7 DEF Fetched
    <3>2. /\ d.shown[k].data = c.shown[k].data /\ d.shown[k].range = c.shown[k].range
          /\ (d.shown[k].loading <=> c.shown[k].loading)
      BY <1>3, <1>10, <2>1, <3>1 DEF Ran
    <3>3. ~Pending(c, k)
      BY <1>1, <2>1, <2>7, PendingRange DEF KeyGood
    <3> QED BY <2>1, <2>3, <2>4, <2>5, <2>7, <3>2, <3>3 DEF KeyGood
  <2> QED BY <2>6, <2>7
<1>21. Good(d)
  BY <1>13, <1>14, <1>18, <1>19, <1>20 DEF Good
<1>22. Fetched(d) = w
  BY <1>1, <1>18, <1>19, <1>20 DEF Fetched
<1>23. d.timers \subseteq w
  BY <1>13, <1>20 DEF Caches
<1> QED BY <1>18, <1>19, <1>20, <1>21, <1>22, <1>23 DEF Polled

\* What a step leaves of what the page reads.
LEMMA PolledKept ==
    ASSUME NEW c, NEW d, NEW w, NEW r, Polled(c, w, r), w \subseteq Source,
           d.timers \subseteq w, \A k \in Source : d.fetched[k] = c.fetched[k],
           \A k \in Source \ w : d.shown[k].data = c.shown[k].data /\ (Pending(d, k) => Pending(c, k))
    PROVE  Polled(d, w, r)
<1>1. Fetched(d) = Fetched(c)
  BY DEF Fetched
<1> QED BY <1>1 DEF Polled

\* The deadline of a request passes.
TimesOut(c, k, d) == d = [c EXCEPT !.flight[k].timedOut = TRUE, !.flight[k].aborted = TRUE]

LEMMA DeadlineGood ==
    ASSUME NEW c, Good(c), NEW k \in Source, OnTheWire(c, k),
           NEW d, TimesOut(c, k, d)
    PROVE  /\ Good(d) /\ d.fetched = c.fetched /\ d.shown = c.shown /\ d.timers = c.timers
           /\ \A j \in Source : Pending(d, j) <=> Pending(c, j)
<1>1. c \in Caches /\ SlotGood(c)
  BY DEF Good
<1>2. PICK x \in [range : TimeRange, queued : BOOLEAN, aborted : BOOLEAN, timedOut : BOOLEAN] :
         x = c.flight[k]
  BY <1>1 DEF OnTheWire, Pending, Caches, Flights
<1>3. PICK y : y = [x EXCEPT !.timedOut = TRUE, !.aborted = TRUE]
  OBVIOUS
<1>4. /\ y \in [range : TimeRange, queued : BOOLEAN, aborted : BOOLEAN, timedOut : BOOLEAN]
      /\ y.range = x.range /\ y.queued = x.queued /\ y.aborted /\ y.timedOut
  BY <1>3
<1>5. PICK f : f = [c.flight EXCEPT ![k] = y]
  OBVIOUS
<1>6. f \in [Source -> Flights] /\ f[k] = y /\ \A j \in Source : j # k => f[j] = c.flight[j]
  BY <1>1, <1>4, <1>5 DEF Caches, Flights
<1>7. d = [c EXCEPT !.flight = f]
  BY <1>1, <1>2, <1>3, <1>5 DEF Caches, TimesOut
<1>8. d = [flight |-> f, retired |-> c.retired, waiting |-> c.waiting, active |-> c.active,
           fetched |-> c.fetched, shown |-> c.shown, timers |-> c.timers]
  BY <1>1, <1>7 DEF Caches
<1>9. /\ d \in Caches /\ d.flight = f /\ d.retired = c.retired /\ d.waiting = c.waiting
      /\ d.active = c.active /\ d.fetched = c.fetched /\ d.shown = c.shown /\ d.timers = c.timers
  BY ONLY <1>1, <1>6, <1>8 DEF Caches
<1>10. \A j \in Source : /\ Pending(d, j) <=> Pending(c, j)
                         /\ d.flight[j].range = c.flight[j].range
                         /\ d.flight[j].queued = c.flight[j].queued
                         /\ d.flight[j].aborted => d.flight[j].timedOut \/ c.flight[j].aborted
                         /\ c.flight[j].timedOut => d.flight[j].timedOut
  <2>1. Pending(d, k) /\ Pending(c, k)
    <3>1. d.flight[k].range \in TimeRange
      BY ONLY <1>4, <1>6, <1>9
    <3>2. d.flight[k].range # None
      BY <3>1, SourceAssumption
    <3> QED BY <3>2 DEF Pending, OnTheWire, NoFlight
  <2> QED BY ONLY <1>2, <1>4, <1>6, <1>9, <2>1 DEF Pending
<1>11. SlotGood(d)
  <2>1. Queued(d) = Queued(c)
    BY ONLY <1>10 DEF Queued
  <2>2. \A j \in Expensive : onWire(d, j) = onWire(c, j)
    BY ONLY <1>9, <1>10 DEF onWire, OnTheWire, Expensive
  <2> QED BY ONLY <1>1, <1>9, <2>1, <2>2, SlotKept
<1>12. ASSUME NEW j \in Source PROVE KeyGood(d, j)
  <2>1. KeyGood(c, j)
    BY DEF Good
  <2> QED BY ONLY <1>9, <1>10, <2>1, j \in Source DEF KeyGood
<1> QED BY ONLY <1>9, <1>10, <1>11, <1>12 DEF Good

\* d is c with a request of k settled.
Settled(c, k, d) ==
    /\ d.fetched = c.fetched /\ d.timers = c.timers
    /\ \A j \in Source : j # k => d.shown[j] = c.shown[j]
    /\ \A j \in Source : Pending(d, j) => Pending(c, j)

\* The newest request of a key settles on s, its answer or an error beside what
\* was there.
LEMMA SettlesGood ==
    ASSUME NEW c, Good(c), NEW k \in Source, OnTheWire(c, k), NEW s \in States,
           ~s.loading, s.data = None <=> s.range = None,
           s.error \/ s.range = c.flight[k].range,
           NEW b, b = [c EXCEPT !.shown[k] = s], NEW d, d = finish(b, k)
    PROVE  Good(d) /\ Settled(c, k, d)
<1>1. c \in Caches /\ SlotGood(c) /\ KeyGood(c, k) /\ Pending(c, k)
  BY DEF Good, OnTheWire
<1>2. PICK g : g = [c.shown EXCEPT ![k] = s]
  OBVIOUS
<1>3. g \in [Source -> States] /\ g[k] = s /\ \A j \in Source : j # k => g[j] = c.shown[j]
  BY <1>1, <1>2 DEF Caches
<1>4. b = [c EXCEPT !.shown = g]
  BY <1>2
<1>5. b = [flight |-> c.flight, retired |-> c.retired, waiting |-> c.waiting, active |-> c.active,
           fetched |-> c.fetched, shown |-> g, timers |-> c.timers]
  BY <1>1, <1>4 DEF Caches
<1>6. /\ b \in Caches /\ b.flight = c.flight /\ b.retired = c.retired /\ b.waiting = c.waiting
      /\ b.active = c.active /\ b.fetched = c.fetched /\ b.shown = g /\ b.timers = c.timers
  BY ONLY <1>1, <1>3, <1>5 DEF Caches
<1>7. SlotGood(b)
  BY ONLY <1>1, <1>6, SlotSame
<1>8. OnTheWire(b, k) /\ \A j \in Source : Pending(b, j) <=> Pending(c, j)
  BY <1>6 DEF OnTheWire, Pending
<1>9. /\ SlotGood(d) /\ d \in Caches
      /\ d.fetched = b.fetched /\ d.shown = b.shown /\ d.timers = b.timers
      /\ ~Pending(d, k) /\ ~d.flight[k].aborted
      /\ \A j \in Source : j # k =>
            /\ Pending(d, j) <=> Pending(b, j)
            /\ d.flight[j].range = b.flight[j].range
            /\ d.flight[j].aborted = b.flight[j].aborted
            /\ d.flight[j].timedOut = b.flight[j].timedOut
  <2>1. b \in Caches /\ SlotGood(b) /\ OnTheWire(b, k) /\ d = finish(b, k) /\ k \in Source
    BY <1>6, <1>7, <1>8
  <2> QED BY ONLY <2>1, FinishSlots
<1>10. KeyGood(d, k)
  <2>1. c.flight[k].range = c.fetched[k] /\ c.fetched[k] # None
    BY <1>1, PendingRange DEF KeyGood
  <2>2. d.shown[k] = s /\ d.fetched[k] = c.fetched[k] /\ (k \in d.timers => k \in Expensive)
    BY <1>1, <1>3, <1>6, <1>9 DEF KeyGood
  <2> QED BY <1>9, <2>1, <2>2 DEF KeyGood
<1>11. ASSUME NEW j \in Source, j # k PROVE KeyGood(d, j) /\ d.shown[j] = c.shown[j]
  <2>1. KeyGood(c, j)
    BY DEF Good
  <2>2. /\ d.shown[j] = c.shown[j] /\ d.fetched[j] = c.fetched[j]
        /\ (Pending(d, j) <=> Pending(c, j)) /\ d.timers = c.timers
        /\ d.flight[j].range = c.flight[j].range /\ d.flight[j].aborted = c.flight[j].aborted
        /\ d.flight[j].timedOut = c.flight[j].timedOut
    BY <1>3, <1>6, <1>8, <1>9, <1>11
  <2> QED BY <2>1, <2>2, KeySame
<1> QED BY <1>1, <1>6, <1>8, <1>9, <1>10, <1>11 DEF Good, Settled

-----------------------------------------------------------------------------
(* Every step of the page, the timers and the network *)

\* The invariant, as what is said of the cache and of the page.
LEMMA InvParts ==
    SourceInv <=> /\ CacheTypeOK /\ Good(cache) /\ UnmountedIsQuiet
                  /\ mounted => Polled(cache, wanted, range)
  BY DEF SourceInv, CacheTypeOK, Good, OnlyTheLayoutIsPolled, Polled

\* The same of the next state.
LEMMA InvAfter ==
    ASSUME CacheTypeOK', Good(cache'), UnmountedIsQuiet',
           mounted' => Polled(cache', wanted', range')
    PROVE  SourceInv'
  BY DEF SourceInv, CacheTypeOK, Good, OnlyTheLayoutIsPolled, Polled, SlotGood, KeyGood, Lists,
         Queued, Wire, onWire, OnTheWire, Pending, Fetched

\* The cache starts good.
LEMMA SourceInvInit == CacheInit => SourceInv
<1> SUFFICES ASSUME CacheInit PROVE SourceInv
  OBVIOUS
<1> USE SourceAssumption, BoundAssumption
<1>1. /\ cache.flight = [k \in Source |-> NoFlight] /\ cache.retired = [k \in Source |-> 0]
      /\ cache.waiting = <<>> /\ cache.active = 0
      /\ cache.fetched = [k \in Source |-> None] /\ cache.shown = [k \in Source |-> Idle]
      /\ cache.timers = {} /\ ~mounted
  BY DEF CacheInit
<1>2. /\ NoFlight \in Flights /\ Idle \in States /\ <<>> \in Seq(Source)
      /\ 0 \in 0 .. MaxConcurrent
  BY DEF Flights, States, Idle
<1>3. cache \in Caches
  BY <1>2 DEF CacheInit, Caches
<1>4. CacheTypeOK
  <2>1. mounted = FALSE /\ wanted = {} /\ range \in TimeRange /\ tick = 0 /\ steps = 0
    BY DEF CacheInit
  <2>2. mounted \in BOOLEAN /\ wanted \in SUBSET Source /\ range \in TimeRange
    BY ONLY <2>1
  <2>3. tick \in 0 .. (RecheckTicks - 1) /\ steps \in 0 .. MaxPageSteps
    BY ONLY <2>1, BoundAssumption
  <2> QED BY ONLY <1>3, <2>2, <2>3 DEF CacheTypeOK
<1>5. \A k \in Source : ~Pending(cache, k) /\ cache.flight[k] = NoFlight
  BY <1>1 DEF Pending
<1>6. Queued(cache) = {}
  BY <1>5 DEF Queued, NoFlight
<1>7. Wire(cache) = {}
  <2>1. \A k \in Expensive : onWire(cache, k) = 0
    BY <1>1, <1>5 DEF onWire, OnTheWire, Expensive
  <2>2. \A k \in Expensive : 1 .. onWire(cache, k) = {}
    BY <2>1
  <2> QED BY <2>2 DEF Wire
<1>8. SlotGood(cache)
  <2>1. Lists(cache.waiting, Queued(cache))
    BY <1>1, <1>2, <1>6 DEF Lists
  <2> QED BY <1>1, <1>6, <1>7, <2>1, FS_EmptySet DEF SlotGood
<1>9. ASSUME NEW k \in Source PROVE KeyGood(cache, k)
  BY <1>1, <1>5 DEF KeyGood, Idle, NoFlight
<1> QED BY <1>1, <1>4, <1>5, <1>8, <1>9
        DEF SourceInv, UnmountedIsQuiet, OnlyTheLayoutIsPolled

\* The page renders or mounts.
LEMMA RendersAndMounts ==
    ASSUME SourceInv, NEW w \in Layouts, NEW r \in TimeRange, Render(w, r) \/ Mount(w, r)
    PROVE  SourceInv'
<1>1. Good(cache) /\ CacheTypeOK
  BY InvParts
<1>2. w \in SUBSET Source
  BY SourceAssumption DEF Layouts
<1>3. cache.timers \subseteq Fetched(cache)
  <2>1. CASE mounted
    BY <2>1, InvParts DEF Polled
  <2>2. CASE ~mounted
    BY <2>2 DEF SourceInv, UnmountedIsQuiet
  <2> QED BY <2>1, <2>2
<1>4. PICK asked : asked = {k \in w : asks(cache, k, r)}
  OBVIOUS
<1>5. PICK line \in sourcesFor(asked) : cache' = retain(ensure(cache, asked, r, line), w)
  BY <1>4 DEF Render, Mount, Effect
<1>6. Good(cache') /\ Polled(cache', w, r)
  BY <1>1, <1>2, <1>3, <1>4, <1>5, EffectGood
<1>7. /\ mounted' /\ mounted' = TRUE /\ wanted' = w /\ range' = r
      /\ tick' \in 0 .. (RecheckTicks - 1) /\ steps' \in 0 .. MaxPageSteps
  BY <1>1, BoundAssumption DEF Render, Mount, Step, CacheTypeOK
<1>8. CacheTypeOK'
  BY <1>2, <1>6, <1>7 DEF CacheTypeOK, Good
<1>9. UnmountedIsQuiet'
  BY <1>7 DEF UnmountedIsQuiet
<1> QED BY <1>6, <1>7, <1>8, <1>9, InvAfter

\* The page unmounts.
LEMMA Unmounts ==
    ASSUME SourceInv, Unmount
    PROVE  SourceInv'
<1>1. Good(cache) /\ CacheTypeOK
  BY InvParts
<1>2. Good(cache') /\ cache'.timers = {} /\ \A k \in Source : ~Pending(cache', k)
  BY <1>1, AbortGood DEF Unmount
<1>3. mounted' = FALSE /\ wanted' = wanted /\ range' = range /\ tick' = tick
      /\ steps' \in 0 .. MaxPageSteps
  BY <1>1, BoundAssumption DEF Unmount, Step, CacheTypeOK
<1>4. CacheTypeOK'
  BY <1>1, <1>2, <1>3 DEF CacheTypeOK, Good
<1>5. UnmountedIsQuiet'
  BY <1>2 DEF UnmountedIsQuiet, Pending
<1> QED BY <1>2, <1>3, <1>4, <1>5, InvAfter

\* A step of a mounted page that reads keys again leaves the page what it reads.
LEMMA RunsAgain ==
    ASSUME SourceInv, mounted, NEW T \in SUBSET (Expensive \cap wanted),
           NEW c, c = [cache EXCEPT !.timers = T],
           NEW S \in SUBSET Fetched(cache), \A k \in S : ~Pending(cache, k),
           NEW line, Lists(line, S \cap Expensive), cache' = run(c, S, c.fetched, line),
           UNCHANGED <<mounted, wanted, range>>, tick' \in 0 .. (RecheckTicks - 1),
           steps' \in 0 .. MaxPageSteps
    PROVE  SourceInv'
<1>1. Good(cache) /\ CacheTypeOK /\ Polled(cache, wanted, range)
  BY InvParts
<1>2. T \in SUBSET Expensive
  OBVIOUS
<1>3. /\ Good(c) /\ c.timers = T /\ c.fetched = cache.fetched /\ c.shown = cache.shown
      /\ c.flight = cache.flight
  BY <1>1, <1>2, TimersGood
<1>4. S \in SUBSET Fetched(c) /\ \A k \in S : ~Pending(c, k)
  BY <1>3 DEF Fetched, Pending
<1>5. /\ Good(cache') /\ cache'.timers = c.timers
      /\ \A k \in Source : /\ cache'.fetched[k] = c.fetched[k]
                           /\ Pending(cache', k) <=> Pending(c, k) \/ k \in S
                           /\ cache'.shown[k].data = c.shown[k].data
  <2>1. Good(cache') /\ Reread(c, S, cache')
    BY <1>3, <1>4, RunGood
  <2> QED BY <2>1 DEF Reread
<1>6. Polled(cache', wanted, range)
  <2>1. wanted \subseteq Source /\ Fetched(cache) = wanted
    BY <1>1 DEF CacheTypeOK, Polled
  <2>2. \A k \in Source : cache'.fetched[k] = cache.fetched[k]
    BY <1>3, <1>5
  <2>3. \A k \in Source \ wanted :
           cache'.shown[k].data = cache.shown[k].data /\ (Pending(cache', k) => Pending(cache, k))
    <3>1. \A k \in S : k \in wanted
      BY <2>1
    <3> QED BY <1>3, <1>5, <3>1 DEF Pending
  <2>4. cache'.timers \subseteq wanted
    BY <1>3, <1>5
  <2> QED BY <1>1, <2>1, <2>2, <2>3, <2>4, PolledKept
<1>7. CacheTypeOK'
  BY <1>1, <1>5 DEF CacheTypeOK, Good
<1>8. UnmountedIsQuiet'
  BY DEF UnmountedIsQuiet
<1> QED BY <1>5, <1>6, <1>7, <1>8, InvAfter

\* The reader asks for a refresh.
LEMMA Refreshes ==
    ASSUME SourceInv, refresh
    PROVE  SourceInv'
<1>1. Good(cache) /\ CacheTypeOK /\ cache \in Caches
  BY InvParts DEF Good
<1>2. PICK c : c = [cache EXCEPT !.timers = {}]
  OBVIOUS
<1>3. c.fetched = cache.fetched /\ c.flight = cache.flight
  BY <1>1, <1>2, TimersGood
<1>4. PICK S : S = dueEntries(c, 0)
  OBVIOUS
<1>5. PICK line \in SetToSeqs(S \cap Expensive) : cache' = run(c, S, c.fetched, line)
  BY <1>2, <1>4 DEF refresh
<1>6. S \in SUBSET Fetched(cache) /\ \A k \in S : ~Pending(cache, k)
  BY <1>3, <1>4 DEF dueEntries, isDue, busy, Fetched, Pending
<1>7. S \cap Expensive \in SUBSET Source
  BY DEF Expensive
<1>8. Lists(line, S \cap Expensive)
  BY <1>5, <1>7, OrdersList
<1>9. /\ UNCHANGED <<mounted, wanted, range>> /\ mounted /\ tick' \in 0 .. (RecheckTicks - 1)
      /\ steps' \in 0 .. MaxPageSteps
  BY <1>1, BoundAssumption DEF refresh, Step, CacheTypeOK
<1>10. PICK T \in SUBSET (Expensive \cap wanted) : T = {}
  OBVIOUS
<1> QED BY <1>2, <1>5, <1>6, <1>8, <1>9, <1>10, RunsAgain

\* The interval fires.
LEMMA Ticks ==
    ASSUME SourceInv, Tick
    PROVE  SourceInv'
<1>1. Good(cache) /\ CacheTypeOK /\ cache \in Caches /\ Polled(cache, wanted, range)
  BY InvParts DEF Good, Tick
<1>2. PICK due : due = dueEntries(cache, tick')
  OBVIOUS
<1>3. due \in SUBSET Fetched(cache) /\ \A k \in due : ~Pending(cache, k)
  BY <1>2 DEF dueEntries, isDue, busy, Fetched
<1>4. PICK T : T = cache.timers \cup (due \cap Expensive)
  OBVIOUS
<1>5. T \in SUBSET (Expensive \cap wanted)
  <2>1. \A k \in cache.timers : k \in Expensive /\ k \in wanted
    BY <1>1 DEF Good, KeyGood, Polled, Caches
  <2>2. \A k \in due : k \in wanted
    BY <1>1, <1>3 DEF Polled
  <2> QED BY <1>4, <2>1, <2>2
<1>6. PICK c : c = [cache EXCEPT !.timers = T]
  OBVIOUS
<1>7. c.fetched = cache.fetched
  BY <1>1, <1>6 DEF Caches
<1>8. cache' = run(c, due \cap Cheap, c.fetched, <<>>)
  BY <1>2, <1>4, <1>6, <1>7 DEF Tick
<1>9. PICK S : S = due \cap Cheap
  OBVIOUS
<1>10. S \in SUBSET Fetched(cache) /\ \A k \in S : ~Pending(cache, k)
  BY <1>3, <1>9
<1>11. PICK line : line = <<>>
  OBVIOUS
<1>12. Lists(line, S \cap Expensive)
  <2>1. line \in Seq(Source) /\ Len(line) = 0
    BY <1>11
  <2>2. S \cap Expensive = {}
    BY <1>9 DEF Expensive
  <2> QED BY <2>1, <2>2 DEF Lists
<1>13. /\ UNCHANGED <<mounted, wanted, range>> /\ mounted /\ tick' \in 0 .. (RecheckTicks - 1)
       /\ steps' \in 0 .. MaxPageSteps
  <2>1. tick \in Nat /\ RecheckTicks \in Nat /\ RecheckTicks > 0
    BY <1>1, BoundAssumption DEF CacheTypeOK
  <2>2. (tick + 1) % RecheckTicks \in 0 .. (RecheckTicks - 1)
    BY <2>1
  <2> QED BY <1>1, <2>2 DEF Tick, CacheTypeOK
<1>14. cache' = run(c, S, c.fetched, line)
  BY <1>8, <1>9, <1>11
<1> QED BY <1>5, <1>6, <1>10, <1>12, <1>13, <1>14, RunsAgain

\* A step of the timers or the network that leaves the page as it is.
LEMMA Aside ==
    ASSUME SourceInv, UNCHANGED <<mounted, wanted, range, tick, steps>>, Good(cache'),
           \A k \in Source : cache'.fetched[k] = cache.fetched[k],
           \A k \in Source : ~Pending(cache, k) =>
               ~Pending(cache', k) /\ cache'.shown[k].data = cache.shown[k].data,
           cache'.timers \subseteq cache.timers
    PROVE  SourceInv'
<1>1. CacheTypeOK /\ UnmountedIsQuiet /\ (mounted => Polled(cache, wanted, range))
  BY InvParts
<1>2. CacheTypeOK'
  BY <1>1 DEF CacheTypeOK, Good
<1>3. UnmountedIsQuiet'
  <2>1. ASSUME ~mounted PROVE cache'.timers = {} /\ \A k \in Source : ~Pending(cache', k)
    BY <1>1, <2>1 DEF UnmountedIsQuiet
  <2> QED BY <2>1 DEF UnmountedIsQuiet, Pending
<1>4. ASSUME mounted PROVE Polled(cache', wanted, range)
  <2>1. Polled(cache, wanted, range) /\ wanted \subseteq Source
    BY <1>1, <1>4 DEF CacheTypeOK
  <2>2. cache'.timers \subseteq wanted
    BY <2>1 DEF Polled
  <2>3. \A k \in Source \ wanted :
           cache'.shown[k].data = cache.shown[k].data /\ (Pending(cache', k) => Pending(cache, k))
    BY <2>1 DEF Polled
  <2> QED BY <2>1, <2>2, <2>3, PolledKept
<1> QED BY <1>2, <1>3, <1>4, InvAfter

\* An offset timer fires.
LEMMA OffsetsFire ==
    ASSUME SourceInv, NEW k \in Source, OffsetFires(k)
    PROVE  SourceInv'
<1>1. Good(cache) /\ CacheTypeOK /\ cache \in Caches /\ k \in cache.timers
  BY InvParts DEF Good, OffsetFires
<1>2. mounted
  BY <1>1 DEF SourceInv, UnmountedIsQuiet
<1>3. Polled(cache, wanted, range)
  BY <1>2, InvParts
<1>4. PICK T : T = cache.timers \ {k}
  OBVIOUS
<1>5. T \in SUBSET (Expensive \cap wanted) /\ T \in SUBSET Expensive /\ k \in Expensive
  BY <1>1, <1>3, <1>4 DEF Good, KeyGood, Polled, Caches
<1>6. PICK c : c = [cache EXCEPT !.timers = T]
  OBVIOUS
<1>7. /\ Good(c) /\ c.timers = T /\ c.fetched = cache.fetched /\ c.shown = cache.shown
      /\ c.flight = cache.flight
  BY <1>1, <1>5, <1>6, TimersGood
<1>8. cache' = IF c.fetched[k] # None /\ isDue(c, k, 0) THEN run(c, {k}, c.fetched, <<k>>) ELSE c
  BY <1>4, <1>6 DEF OffsetFires
<1>9. UNCHANGED <<mounted, wanted, range, tick, steps>>
  BY DEF OffsetFires
<1>10. CASE c.fetched[k] # None /\ isDue(c, k, 0)
  <2>1. PICK S : S = {k}
    OBVIOUS
  <2>2. PICK line : line = <<k>>
    OBVIOUS
  <2>3. cache' = run(c, S, c.fetched, line)
    BY <1>8, <1>10, <2>1, <2>2
  <2>4. S \in SUBSET Fetched(cache) /\ \A j \in S : ~Pending(cache, j)
    BY <1>7, <1>10, <2>1 DEF isDue, busy, Fetched, Pending
  <2>5. Lists(line, S \cap Expensive)
    <3>1. line \in Seq(Source) /\ Len(line) = 1 /\ line[1] = k
      BY <2>2
    <3>2. \A i \in 1 .. Len(line) : i = 1
      BY <3>1
    <3>3. S \cap Expensive = {k}
      BY <1>5, <2>1
    <3> QED BY <3>1, <3>2, <3>3 DEF Lists
  <2>6. /\ UNCHANGED <<mounted, wanted, range>> /\ tick' \in 0 .. (RecheckTicks - 1)
        /\ steps' \in 0 .. MaxPageSteps
    BY <1>1, <1>9 DEF CacheTypeOK
  <2> QED BY <1>2, <1>5, <1>6, <2>3, <2>4, <2>5, <2>6, RunsAgain
<1>11. CASE ~(c.fetched[k] # None /\ isDue(c, k, 0))
  <2>1. cache' = c
    BY <1>8, <1>11
  <2> QED BY <1>4, <1>7, <1>9, <2>1, Aside DEF Pending
<1> QED BY <1>10, <1>11

\* A deadline passes.
LEMMA DeadlinesPass ==
    ASSUME SourceInv, NEW k \in Source, Deadline(k)
    PROVE  SourceInv'
<1>1. Good(cache) /\ OnTheWire(cache, k) /\ UNCHANGED <<mounted, wanted, range, tick, steps>>
  BY InvParts DEF Deadline
<1>2. /\ Good(cache') /\ cache'.fetched = cache.fetched /\ cache'.shown = cache.shown
      /\ cache'.timers = cache.timers /\ \A j \in Source : Pending(cache', j) <=> Pending(cache, j)
  <2>1. PICK d : d = cache'
    OBVIOUS
  <2>2. TimesOut(cache, k, d)
    BY <2>1 DEF Deadline, TimesOut
  <2>3. /\ Good(d) /\ d.fetched = cache.fetched /\ d.shown = cache.shown
        /\ d.timers = cache.timers /\ \A j \in Source : Pending(d, j) <=> Pending(cache, j)
    BY <1>1, <2>2, DeadlineGood
  <2> QED BY <2>1, <2>3
<1> QED BY <1>1, <1>2, Aside

\* A settled request leaves the page as it is.
LEMMA SettledAside ==
    ASSUME SourceInv, NEW k \in Source, OnTheWire(cache, k), Good(cache'),
           Settled(cache, k, cache'), UNCHANGED <<mounted, wanted, range, tick, steps>>
    PROVE  SourceInv'
<1>1. Pending(cache, k)
  BY DEF OnTheWire
<1>2. \A j \in Source : ~Pending(cache, j) =>
         ~Pending(cache', j) /\ cache'.shown[j].data = cache.shown[j].data
  BY <1>1 DEF Settled
<1>3. \A j \in Source : cache'.fetched[j] = cache.fetched[j]
  BY DEF Settled
<1>4. cache'.timers \subseteq cache.timers
  BY DEF Settled
<1> QED BY <1>2, <1>3, <1>4, Aside

\* An answer lands.
LEMMA AnswersLand ==
    ASSUME SourceInv, NEW k \in Source, NEW a \in Answer(k), Lands(k, a)
    PROVE  SourceInv'
<1>1. Good(cache) /\ OnTheWire(cache, k) /\ UNCHANGED <<mounted, wanted, range, tick, steps>>
  BY InvParts DEF Lands
<1>2. cache.flight[k].range \in TimeRange /\ cache.flight[k].range # None
  BY <1>1, PendingRange DEF OnTheWire, Good
<1>3. a \in Answers /\ a # None
  BY SourceAssumption DEF Answer, Answers
<1>4. PICK s : s = [data |-> a, error |-> FALSE, loading |-> FALSE, range |-> cache.flight[k].range]
  OBVIOUS
<1>5. s \in States /\ ~s.loading /\ s.data # None /\ s.range # None /\ s.range = cache.flight[k].range
  BY <1>2, <1>3, <1>4 DEF States
<1>6. PICK b : b = [cache EXCEPT !.shown[k] = s]
  OBVIOUS
<1>7. cache' = finish(b, k)
  BY <1>4, <1>6 DEF Lands, settleData
<1>8. Good(cache') /\ Settled(cache, k, cache')
  <2>1. PICK d : d = cache'
    OBVIOUS
  <2>2. d = finish(b, k)
    BY <1>7, <2>1
  <2>3. (s.data = None <=> s.range = None) /\ (s.error \/ s.range = cache.flight[k].range)
    BY <1>5
  <2>4. Good(d) /\ Settled(cache, k, d)
    BY ONLY <1>1, <1>5, <1>6, <2>2, <2>3, k \in Source, SettlesGood
  <2> QED BY <2>1, <2>4
<1> QED BY <1>1, <1>8, SettledAside

\* A request is rejected.
LEMMA RequestsReject ==
    ASSUME SourceInv, NEW k \in Source, Rejects(k)
    PROVE  SourceInv'
<1>1. Good(cache) /\ OnTheWire(cache, k) /\ UNCHANGED <<mounted, wanted, range, tick, steps>>
  BY InvParts DEF Rejects
<1>2. KeyGood(cache, k) /\ cache \in Caches /\ cache.shown[k] \in States
  BY <1>1 DEF Good, Caches
<1>3. ~(~cache.flight[k].timedOut /\ cache.flight[k].aborted)
  BY <1>2 DEF KeyGood
<1>4. PICK x \in States : x = cache.shown[k]
  BY <1>2
<1>5. PICK s : s = [x EXCEPT !.error = TRUE, !.loading = FALSE]
  OBVIOUS
<1>6. s \in States /\ ~s.loading /\ s.error /\ s.data = x.data /\ s.range = x.range
  BY <1>5 DEF States
<1>7. PICK b : b = [cache EXCEPT !.shown[k] = s]
  OBVIOUS
<1>8. settleRejected(cache, k) = b
  <2>1. settleRejected(cache, k) = [cache EXCEPT !.shown[k].error = TRUE, !.shown[k].loading = FALSE]
    BY <1>3 DEF settleRejected
  <2> QED BY <1>2, <1>4, <1>5, <1>7, <2>1 DEF Caches
<1>9. Good(cache') /\ Settled(cache, k, cache')
  <2>1. PICK d : d = cache'
    OBVIOUS
  <2>2. d = finish(b, k)
    BY <1>8, <2>1 DEF Rejects
  <2>3. (s.data = None <=> s.range = None) /\ (s.error \/ s.range = cache.flight[k].range)
    BY <1>2, <1>4, <1>6 DEF KeyGood
  <2>4. Good(d) /\ Settled(cache, k, d)
    BY ONLY <1>1, <1>6, <1>7, <2>2, <2>3, k \in Source, SettlesGood
  <2> QED BY <2>1, <2>4
<1> QED BY <1>1, <1>9, SettledAside

\* A cancelled request settles.
LEMMA CancelledSettle ==
    ASSUME SourceInv, NEW k \in Source, RetiredSettles(k)
    PROVE  SourceInv'
<1>1. /\ Good(cache) /\ cache.retired[k] > 0 /\ cache \in Caches /\ SlotGood(cache)
      /\ UNCHANGED <<mounted, wanted, range, tick, steps>>
  BY InvParts DEF RetiredSettles, Good
<1>2. PICK d : d = cache'
  OBVIOUS
<1>3. GivesBack(cache, k, d)
  BY <1>2 DEF RetiredSettles, GivesBack
<1>4. /\ SlotGood(d) /\ d \in Caches
      /\ d.fetched = cache.fetched /\ d.shown = cache.shown /\ d.timers = cache.timers
      /\ \A j \in Source :
            /\ Pending(d, j) <=> Pending(cache, j)
            /\ d.flight[j].range = cache.flight[j].range
            /\ d.flight[j].aborted = cache.flight[j].aborted
            /\ d.flight[j].timedOut = cache.flight[j].timedOut
  BY <1>1, <1>3, RetiredSlots
<1>5. ASSUME NEW j \in Source PROVE KeyGood(d, j)
  <2>1. KeyGood(cache, j)
    BY <1>1 DEF Good
  <2>2. /\ d.shown[j] = cache.shown[j] /\ d.fetched[j] = cache.fetched[j]
        /\ (Pending(d, j) <=> Pending(cache, j)) /\ d.timers = cache.timers
        /\ d.flight[j].range = cache.flight[j].range
        /\ d.flight[j].aborted = cache.flight[j].aborted
        /\ d.flight[j].timedOut = cache.flight[j].timedOut
    BY ONLY <1>4, j \in Source
  <2> QED BY ONLY <2>1, <2>2, j \in Source, KeySame
<1>6. Good(d)
  BY ONLY <1>4, <1>5 DEF Good
<1>7. /\ Good(cache') /\ cache'.timers \subseteq cache.timers
      /\ \A j \in Source : cache'.fetched[j] = cache.fetched[j]
      /\ \A j \in Source : ~Pending(cache, j) =>
            ~Pending(cache', j) /\ cache'.shown[j].data = cache.shown[j].data
  BY ONLY <1>2, <1>4, <1>6
<1> QED BY <1>1, <1>7, Aside

\* Every step preserves the invariant.
LEMMA SourceInvNext == SourceInv /\ [CacheNext]_cacheVars => SourceInv'
<1> SUFFICES ASSUME SourceInv, [CacheNext]_cacheVars PROVE SourceInv'
  OBVIOUS
<1>1. ASSUME NEW w \in Layouts, NEW r \in TimeRange, Render(w, r) \/ Mount(w, r)
      PROVE  SourceInv'
  BY <1>1, RendersAndMounts
<1>2. CASE Unmount
  BY <1>2, Unmounts
<1>3. CASE refresh
  BY <1>3, Refreshes
<1>4. CASE Tick
  BY <1>4, Ticks
<1>5. ASSUME NEW k \in Source, OffsetFires(k) PROVE SourceInv'
  BY <1>5, OffsetsFire
<1>6. ASSUME NEW k \in Source, Deadline(k) PROVE SourceInv'
  BY <1>6, DeadlinesPass
<1>7. ASSUME NEW k \in Source, Settles(k) PROVE SourceInv'
  BY <1>7, AnswersLand, RequestsReject DEF Settles
<1>8. ASSUME NEW k \in Source, RetiredSettles(k) PROVE SourceInv'
  BY <1>8, CancelledSettle
<1>9. CASE UNCHANGED cacheVars
  BY <1>9 DEF cacheVars, SourceInv, CacheTypeOK, UnmountedIsQuiet, OnlyTheLayoutIsPolled, SlotGood,
     KeyGood, Lists, Queued, Wire, onWire, OnTheWire, Pending, Fetched
<1> QED BY <1>1, <1>2, <1>3, <1>4, <1>5, <1>6, <1>7, <1>8, <1>9 DEF CacheNext

\* The invariant holds.
LEMMA SourceInvariant == CacheSpec => []SourceInv
  BY SourceInvInit, SourceInvNext, PTL DEF CacheSpec

-----------------------------------------------------------------------------
(* What the runs check of the source cache, for every set of sources *)

\* The maps, sets and counters createSourceCache closes over hold what the code
\* puts in them.
THEOREM CacheTypes == CacheSpec => []CacheTypeOK
<1>1. SourceInv => CacheTypeOK
  BY DEF SourceInv
<1> QED BY <1>1, SourceInvariant, PTL

\* What the refresh re-requests, schedules and keeps is what the layout on the
\* page reads, under the range it names.
THEOREM PollsOnlyTheLayout == CacheSpec => []OnlyTheLayoutIsPolled
<1>1. SourceInv => OnlyTheLayoutIsPolled
  BY DEF SourceInv
<1> QED BY <1>1, SourceInvariant, PTL

\* A card on the page is never left with nothing: it is being asked for, or it
\* shows an error, or the answer of the range the page names.
THEOREM CardsAreAskedOrAnswered == CacheSpec => []AskedOrAnswered
<1>1. ASSUME SourceInv PROVE AskedOrAnswered
  <2> SUFFICES ASSUME mounted, NEW k \in wanted
               PROVE  LET s == cache.shown[k] IN
                      \/ s.loading /\ Pending(cache, k)
                      \/ ~s.loading /\ s.error
                      \/ ~s.loading /\ s.data # None /\ (k \in Sensitive => s.range = range)
    BY DEF AskedOrAnswered
  <2>1. k \in Source /\ KeyGood(cache, k) /\ Polled(cache, wanted, range)
    BY <1>1, InvParts DEF CacheTypeOK, Good
  <2>2. cache.fetched[k] # None /\ (k \in Sensitive => cache.fetched[k] = range)
    BY <2>1 DEF Polled, Fetched
  <2> QED BY <2>1, <2>2 DEF KeyGood
<1> QED BY <1>1, SourceInvariant, PTL

\* takeSlot and releaseSlot keep the count of the slots in use equal to the
\* expensive requests on the wire, the cancelled ones included, and the queue
\* is the keys that wait, each once, while every slot is taken.
THEOREM SlotsAreCounted == CacheSpec => []SlotsCounted
<1>1. ASSUME SourceInv PROVE SlotsCounted
  <2>1. cache \in Caches /\ SlotGood(cache)
    BY <1>1, InvParts DEF Good
  <2>2. PICK q : q = cache.waiting
    OBVIOUS
  <2>3. PICK K \in SUBSET Source : K = Queued(cache)
    BY DEF Queued
  <2>4. Lists(q, K) /\ q \in Seq(Source) /\ Len(q) \in Nat
    BY <2>1, <2>2, <2>3 DEF SlotGood, Lists
  <2>5. ToSet(q) = K
    <3>1. ToSet(q) = {q[i] : i \in 1 .. Len(q)}
      BY <2>4 DEF ToSet
    <3>2. \A i \in 1 .. Len(q) : q[i] \in Source
      BY <2>4
    <3> QED BY <2>4, <3>1, <3>2 DEF Lists
  <2>6. Len(q) = Cardinality(K)
    <3>1. \A k \in Source : k \in K <=> \E i \in 1 .. Len(q) : q[i] = k
      BY <2>4 DEF Lists
    <3>2. Len(q) <= Len(q)
      BY <2>4
    <3> QED BY <2>4, <3>1, <3>2, FirstOfLine
  <2>7. cache.active <= MaxConcurrent
    BY <2>1, BoundAssumption DEF Caches
  <2> QED BY <2>1, <2>2, <2>3, <2>5, <2>6, <2>7 DEF SlotsCounted, SlotGood
<1> QED BY <1>1, SourceInvariant, PTL

=============================================================================
