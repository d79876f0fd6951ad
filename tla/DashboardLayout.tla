--------------------------- MODULE DashboardLayout ---------------------------
(***************************************************************************)
(* The editable dashboard: several pages of one user over one stored       *)
(* layout.                                                                 *)
(*                                                                         *)
(*   frontend/lib/dashboard/layout-store.ts   the page's copy of the layout*)
(*   frontend/lib/dashboard/edit-session.ts   the arrangement being edited *)
(*   frontend/src/islands/DashboardV2.tsx     the editor                   *)
(*   backend/internal/preferences/handler.go  GET and PUT of the layout    *)
(*   backend/internal/store/preferences.go    the row and its revision     *)
(*                                                                         *)
(* A page is one load of the document: a reload or a cluster switch leaves *)
(* one page and opens another, and the requests of a page that was left go *)
(* on at the server.  A layout is the set of its placements; where they    *)
(* stand is left out.  A placement that names a namespace is withheld by   *)
(* the server while the account may not see the namespace, under the       *)
(* record's unchanged revision.                                            *)
(***************************************************************************)
EXTENDS Integers, Sequences, FiniteSets

CONSTANTS
    Page,
    Widget,       \* placements a stored layout may hold
    Known,        \* those this build can render
    Namespaced,   \* those that name a namespace
    Default,      \* DEFAULT_OVERVIEW_LAYOUT
    Copied,       \* what another cluster's layout offers to copy
    MaxRevision   \* bound on the stored revision

ASSUME LayoutAssumption ==
    /\ Known \subseteq Widget /\ Namespaced \subseteq Widget
    /\ Default \subseteq Known \ Namespaced
    /\ Copied \subseteq Known \ Namespaced
    /\ MaxRevision \in Nat

VARIABLES
    stored,   \* the versions of the row, oldest first, and who wrote each
    revoked,  \* the account may not see the namespace now
    life,     \* "unopened", "open" or "left"
    store,    \* the signals of layout-store.ts
    session,  \* EditSession, or closed
    ui,       \* the other signals of DashboardV2.tsx
    get,      \* the page's read
    put       \* the page's write

vars == <<stored, revoked, life, store, session, ui, get, put>>

Items == SUBSET Widget
Nobody == "nobody"

Version == [items : Items, by : Page \cup {Nobody}]
Store == [layout : SUBSET Known, revision : Nat, withheld : Items, dropped : Items,
          loaded : BOOLEAN, unavailable : BOOLEAN, observed : BOOLEAN]
EditSession == [open : BOOLEAN, baseline : SUBSET Known, working : SUBSET Known,
                revision : Nat]
Editor == [grid : SUBSET Known, saving : BOOLEAN, saveBlocked : BOOLEAN,
           conflict : BOOLEAN, reloading : BOOLEAN]
Get == [at : {"idle", "sent", "read", "failed"},
        items : Items, revision : Nat, withheld : Items, overtaken : BOOLEAN]
Put == [at : {"idle", "sent", "create", "replace", "stored", "conflict", "failed"},
        claim : Nat, items : SUBSET Known]

Unloaded == [layout |-> Default, revision |-> 0, withheld |-> {}, dropped |-> {},
             loaded |-> FALSE, unavailable |-> FALSE, observed |-> FALSE]
NoSession == [open |-> FALSE, baseline |-> {}, working |-> {}, revision |-> 0]
Fresh == [grid |-> Default, saving |-> FALSE, saveBlocked |-> FALSE,
          conflict |-> FALSE, reloading |-> FALSE]
NoGet == [at |-> "idle", items |-> {}, revision |-> 0, withheld |-> {},
          overtaken |-> FALSE]
NoPut == [at |-> "idle", claim |-> 0, items |-> {}]

(* The stored row: revision 0 stands for no row, and no row is ever deleted. *)
Revision == Len(stored)
Row == stored[Revision].items

Open(p) == life[p] = "open"

Init ==
    /\ stored \in {<< >>, <<[items |-> Widget, by |-> Nobody]>>}
    /\ revoked \in BOOLEAN
    /\ life = [p \in Page |-> "unopened"]
    /\ store = [p \in Page |-> Unloaded]
    /\ session = [p \in Page |-> NoSession]
    /\ ui = [p \in Page |-> Fresh]
    /\ get = [p \in Page |-> NoGet]
    /\ put = [p \in Page |-> NoPut]

-----------------------------------------------------------------------------
(* The server.                                                             *)

(* The account gains or loses the namespace.                               *)
AccessChanges ==
    /\ revoked' = ~revoked
    /\ UNCHANGED <<stored, life, store, session, ui, get, put>>

(* The placements the account may not see now.                             *)
withholdUnauthorized(items) == IF revoked THEN items \cap Namespaced ELSE {}

(* HandleGetLayout: 204 without a row, else what the account may see.      *)
HandleGetLayout(p) ==
    /\ get[p].at = "sent"
    /\ LET items == IF Revision = 0 THEN {} ELSE Row
           withheld == withholdUnauthorized(items)
       IN get' = [get EXCEPT ![p] = [@ EXCEPT !.at = "read", !.items = items \ withheld,
                                              !.revision = Revision,
                                              !.withheld = withheld]]
    /\ UNCHANGED <<stored, revoked, life, store, session, ui, put>>

(* The read is refused, fails or its answer is lost.                       *)
GetFails(p) ==
    /\ get[p].at \in {"sent", "read"}
    /\ get' = [get EXCEPT ![p].at = "failed"]
    /\ UNCHANGED <<stored, revoked, life, store, session, ui, put>>

(* HandleSaveLayout up to its write: what is stored decides which write it is,*)
(* and a claim that disagrees about there being a row is a conflict.       *)
HandleSaveLayout(p) ==
    /\ put[p].at = "sent"
    /\ LET next == CASE Revision = 0 /\ put[p].claim = 0 -> "create"
                     [] Revision > 0 /\ put[p].claim > 0 -> "replace"
                     [] OTHER -> "conflict"
       IN put' = [put EXCEPT ![p].at = next]
    /\ UNCHANGED <<stored, revoked, life, store, session, ui, get>>

(* The INSERT of createLayout: a row that appeared meanwhile is a conflict.*)
CreateLayout(p) ==
    /\ put[p].at = "create"
    /\ IF Revision = 0
       THEN /\ stored' = <<[items |-> put[p].items, by |-> p]>>
            /\ put' = [put EXCEPT ![p].at = "stored"]
       ELSE /\ put' = [put EXCEPT ![p].at = "conflict"]
            /\ UNCHANGED stored
    /\ UNCHANGED <<revoked, life, store, session, ui, get>>

\* Mutant: the UPDATE does not name a revision.
ReplaceLayoutUnconditional(p) ==
    /\ put[p].at = "replace"
    /\ stored' = Append(stored, [items |-> put[p].items, by |-> p])
    /\ put' = [put EXCEPT ![p].at = "stored"]
    /\ UNCHANGED <<revoked, life, store, session, ui, get>>

(* The UPDATE of replaceLayout, which names the revision it replaces.      *)
ReplaceLayout(p) ==
    /\ put[p].at = "replace"
    /\ IF Revision = put[p].claim
       THEN /\ stored' = Append(stored, [items |-> put[p].items, by |-> p])
            /\ put' = [put EXCEPT ![p].at = "stored"]
       ELSE /\ put' = [put EXCEPT ![p].at = "conflict"]
            /\ UNCHANGED stored
    /\ UNCHANGED <<revoked, life, store, session, ui, get>>

(* The write is refused for another reason, fails, or succeeds and its answer*)
(* is lost.                                                                *)
PutFails(p) ==
    /\ put[p].at \in {"sent", "create", "replace", "stored", "conflict"}
    /\ put' = [put EXCEPT ![p].at = "failed"]
    /\ UNCHANGED <<stored, revoked, life, store, session, ui, get>>

-----------------------------------------------------------------------------
(* The page.                                                               *)

(* Opening the page loads the layout.                                      *)
OpenPage(p) ==
    /\ life[p] = "unopened"
    /\ life' = [life EXCEPT ![p] = "open"]
    /\ get' = [get EXCEPT ![p].at = "sent"]
    /\ UNCHANGED <<stored, revoked, store, session, ui, put>>

LeavePage(p) ==
    /\ Open(p)
    /\ life' = [life EXCEPT ![p] = "left"]
    /\ UNCHANGED <<stored, revoked, store, session, ui, get, put>>

dropUnknownWidgets(items) == items \cap Known

(* layoutFromResponse over what the server answered.                       *)
Loaded(answer) ==
    [layout |-> IF answer.revision = 0 THEN Default ELSE dropUnknownWidgets(answer.items),
     revision |-> answer.revision, withheld |-> answer.withheld,
     dropped |-> answer.items \ Known,
     loaded |-> TRUE, unavailable |-> FALSE, observed |-> TRUE]

\* Mutant: a failed load does not settle.
LoadFailedUnsettled(s) == [s EXCEPT !.unavailable = TRUE, !.observed = FALSE]

(* What is left of the store when its read failed.                         *)
LoadFailed(s) == [s EXCEPT !.unavailable = TRUE, !.loaded = TRUE, !.observed = FALSE]

(* The grid starts over from the store's layout, and Save is unblocked.    *)
adoptLoadedLayout(editor, items) == [editor EXCEPT !.grid = items, !.saveBlocked = FALSE]

(* loadLayout settles, and the grid adopts what the store then holds: through *)
(* the generation effect on the first load, by hand after a conflict.  A read  *)
(* that a committed save overtook (commitSeq) teaches the store nothing.   *)
LoadSettles(p) ==
    /\ Open(p) /\ get[p].at \in {"read", "failed"}
    /\ LET s == CASE get[p].overtaken -> store[p]
                  [] get[p].at = "read" -> Loaded(get[p])
                  [] OTHER -> LoadFailed(store[p])
           adopted == ui[p].reloading \/ (get[p].at = "read" /\ ~get[p].overtaken)
       IN /\ store' = [store EXCEPT ![p] = s]
          /\ ui' = [ui EXCEPT ![p] =
                [(IF adopted THEN adoptLoadedLayout(@, s.layout) ELSE @)
                    EXCEPT !.reloading = FALSE]]
    /\ get' = [get EXCEPT ![p] = NoGet]
    /\ UNCHANGED <<stored, revoked, life, session, put>>

(* editDisabled.                                                           *)
EditDisabled(p) == store[p].unavailable \/ ~store[p].loaded \/ ui[p].reloading

(* The conflict dialog is modal: it is answered before anything else.      *)
AtEditor(p) == Open(p) /\ ~ui[p].conflict

beginEdit(items, revision) ==
    [open |-> TRUE, baseline |-> items, working |-> items, revision |-> revision]

StartEditing(p) ==
    /\ AtEditor(p) /\ ~session[p].open /\ ~EditDisabled(p)
    /\ session' = [session EXCEPT ![p] = beginEdit(store[p].layout, store[p].revision)]
    /\ UNCHANGED <<stored, revoked, life, store, ui, get, put>>

(* Every edit goes through the session and, but for the grid's own, re-mounts *)
(* the grid on the result.                                                 *)
Arrange(p, items) ==
    /\ AtEditor(p) /\ session[p].open /\ ~ui[p].saving
    /\ session' = [session EXCEPT ![p].working = items]
    /\ ui' = [ui EXCEPT ![p].grid = items]
    /\ UNCHANGED <<stored, revoked, life, store, get, put>>

AddWidget(p) == \E w \in Known \ session[p].working : Arrange(p, session[p].working \cup {w})

HandleChange(p) == \E w \in session[p].working : Arrange(p, session[p].working \ {w})

ResetLayout(p) == Arrange(p, Default)

CopyFrom(p) == Arrange(p, Copied)

(* requestExit, after the question it asks about unsaved work, and closeEditing. *)
CloseEditing(p) ==
    /\ AtEditor(p) /\ session[p].open /\ ~ui[p].saving
    /\ ui' = [ui EXCEPT ![p].grid = session[p].baseline]
    /\ session' = [session EXCEPT ![p] = NoSession]
    /\ UNCHANGED <<stored, revoked, life, store, get, put>>

IsDirty(p) == session[p].working # session[p].baseline

(* The toolbar offers Save.                                                *)
SaveOffered(p) ==
    AtEditor(p) /\ session[p].open /\ ~ui[p].saving /\ IsDirty(p) /\ ~ui[p].saveBlocked

(* Named so that the bound below is not read as part of the code.          *)
RoomForRevision == Revision + Cardinality({p \in Page : put[p].at \notin
                      {"idle", "stored", "conflict", "failed"}}) < MaxRevision

\* Mutant: the withheld list is not consulted.
StoreAcceptsFiltered(p) == store[p].observed

(* saveLayout may write: its observation stands and nothing was withheld.  *)
StoreAccepts(p) == store[p].observed /\ store[p].withheld = {}

(* save and saveLayout up to the request.                                  *)
Save(p) ==
    /\ SaveOffered(p) /\ session[p].revision = store[p].revision
    /\ StoreAccepts(p) /\ RoomForRevision
    /\ ui' = [ui EXCEPT ![p].saving = TRUE]
    /\ put' = [put EXCEPT ![p] = [at |-> "sent", claim |-> store[p].revision,
                                  items |-> session[p].working]]
    /\ UNCHANGED <<stored, revoked, life, store, session, get>>

(* save stops before the request: the session's revision is not the store's, *)
(* which is a conflict, or the store refuses to write.                     *)
SaveRefused(p) ==
    /\ SaveOffered(p)
    /\ session[p].revision # store[p].revision \/ ~StoreAccepts(p)
    /\ ui' = [ui EXCEPT ![p].saveBlocked = TRUE,
                        ![p].conflict = session[p].revision # store[p].revision]
    /\ UNCHANGED <<stored, revoked, life, store, session, get, put>>

\* Mutant: the saved revision is not taken over.
SaveLandsKeepsRevision(p) ==
    /\ Open(p) /\ put[p].at = "stored"
    /\ store' = [store EXCEPT ![p] =
          [@ EXCEPT !.layout = put[p].items, !.observed = TRUE,
                    !.loaded = TRUE, !.unavailable = FALSE]]
    /\ get' = [get EXCEPT ![p].overtaken = get[p].at # "idle"]
    /\ session' = [session EXCEPT ![p] = NoSession]
    /\ ui' = [ui EXCEPT ![p].saving = FALSE]
    /\ put' = [put EXCEPT ![p] = NoPut]
    /\ UNCHANGED <<stored, revoked, life>>

(* The write is confirmed: the store holds it, and the session ends on it. *)
SaveLands(p) ==
    /\ Open(p) /\ put[p].at = "stored"
    /\ store' = [store EXCEPT ![p] =
          [@ EXCEPT !.layout = put[p].items, !.revision = put[p].claim + 1,
                    !.observed = TRUE, !.loaded = TRUE, !.unavailable = FALSE]]
    /\ get' = [get EXCEPT ![p].overtaken = get[p].at # "idle"]
    /\ session' = [session EXCEPT ![p] = NoSession]
    /\ ui' = [ui EXCEPT ![p].saving = FALSE]
    /\ put' = [put EXCEPT ![p] = NoPut]
    /\ UNCHANGED <<stored, revoked, life>>

(* The write failed or nobody knows: the store stops vouching for its      *)
(* revision, the session stays open and Save is withdrawn.                 *)
SaveFails(p) ==
    /\ Open(p) /\ put[p].at \in {"conflict", "failed"}
    /\ store' = [store EXCEPT ![p].observed = FALSE]
    /\ ui' = [ui EXCEPT ![p].saving = FALSE, ![p].saveBlocked = TRUE,
                        ![p].conflict = put[p].at = "conflict"]
    /\ put' = [put EXCEPT ![p] = NoPut]
    /\ UNCHANGED <<stored, revoked, life, session, get>>

(* The conflict dialog: keep the arrangement, which cannot be saved ...    *)
KeepEditing(p) ==
    /\ Open(p) /\ ui[p].conflict
    /\ ui' = [ui EXCEPT ![p].conflict = FALSE]
    /\ UNCHANGED <<stored, revoked, life, store, session, get, put>>

(* ... or take the stored layout.                                          *)
ReloadStoredLayout(p) ==
    /\ Open(p) /\ ui[p].conflict
    /\ ui' = [ui EXCEPT ![p].conflict = FALSE, ![p].reloading = TRUE]
    /\ session' = [session EXCEPT ![p] = NoSession]
    /\ get' = [get EXCEPT ![p] = [NoGet EXCEPT !.at = "sent"]]
    /\ UNCHANGED <<stored, revoked, life, store, put>>

-----------------------------------------------------------------------------

Server(p) ==
    \/ HandleGetLayout(p) \/ GetFails(p)
    \/ HandleSaveLayout(p) \/ CreateLayout(p) \/ ReplaceLayout(p) \/ PutFails(p)

Answered(p) == LoadSettles(p) \/ SaveLands(p) \/ SaveFails(p)

User(p) ==
    \/ OpenPage(p) \/ LeavePage(p)
    \/ StartEditing(p) \/ CloseEditing(p)
    \/ AddWidget(p) \/ HandleChange(p) \/ ResetLayout(p) \/ CopyFrom(p)
    \/ Save(p) \/ SaveRefused(p)
    \/ KeepEditing(p) \/ ReloadStoredLayout(p)

Next ==
    \/ AccessChanges
    \/ \E p \in Page : Server(p) \/ Answered(p) \/ User(p)

Spec == Init /\ [][Next]_vars

(* The server answers or the connection breaks, and the page's event loop runs *)
(* the continuation of an answered request.  Nothing is asked of the user. *)
FairSpec ==
    /\ Spec
    /\ \A p \in Page : WF_vars(Server(p)) /\ WF_vars(Answered(p))

-----------------------------------------------------------------------------
(* Properties.                                                             *)

(* Every variable keeps its type; what a page renders, edits and saves is  *)
(* of this build's widgets only (dropUnknownWidgets).                      *)
TypeOK ==
    /\ stored \in Seq(Version)
    /\ revoked \in BOOLEAN
    /\ life \in [Page -> {"unopened", "open", "left"}]
    /\ store \in [Page -> Store]
    /\ session \in [Page -> EditSession]
    /\ ui \in [Page -> Editor]
    /\ get \in [Page -> Get]
    /\ put \in [Page -> Put]

(* The stored layout keeps the promise of LayoutHistory.                   *)
History == INSTANCE LayoutHistory WITH
    versions <- [i \in 1 .. Len(stored) |-> stored[i].items],
    base <- [p \in Page |-> IF session[p].open THEN session[p].revision ELSE -1]

(* Two pages, lost answers and pages left in mid-save never make one      *)
(* arrangement replace another its author had not started from             *)
(* (HandleSaveLayout's claim, the session's pinned revision).              *)
ImplementsHistory == History!Spec

(* A save takes nothing out of the stored layout that its page was not     *)
(* showing or had not announced as dropped; in particular nothing that was *)
(* withheld from the page (saveLayout's refusal, layoutWithheld).          *)
NothingVanishesUnseen ==
    [][\A p \in Page :
         put[p].at # "stored" /\ put'[p].at = "stored" /\ Revision > 0 =>
            Row \ put[p].items \subseteq session[p].baseline \cup store[p].dropped]_vars

(* "Your layout was saved from another tab or device after you started     *)
(* editing": the conflict dialog never blames a page's own save.           *)
ConflictIsReal ==
    \A p \in Page : ui[p].conflict =>
        \E i \in session[p].revision + 1 .. Revision : stored[i].by # p

(* Every load and every save of a page that stays open comes to an end: no  *)
(* spinner stays, and a session gets its buttons back.  (After a load that  *)
(* failed Edit stays withdrawn.)                                            *)
RequestsSettle ==
    \A p \in Page :
        (Open(p) /\ (~store[p].loaded \/ ui[p].saving \/ ui[p].reloading))
            ~> (~Open(p) \/ (store[p].loaded /\ ~ui[p].saving /\ ~ui[p].reloading))
=============================================================================
