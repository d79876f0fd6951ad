# k8sCenter: specifications, model checks and proofs

k8sCenter is a Go backend that serves a browser and a mobile client and drives one
local and any number of remote Kubernetes clusters. Most of it reads objects from an
API server, filters them by the caller's access and renders them. The parts that can
go wrong in ways a test hardly reaches are the ones that keep state between requests,
replicas, pages and timers. In the backend: receipts of tracked applies, their
verification, the event hub, the remote read cache, refresh sessions and the backup
assurance collector. In the browser: the page that applies YAML and retries, the
clients that share one rotating cookie, the dashboard editor and the cache its widgets
read from. Those are modelled here, each from its source, checked by TLC on small
instances and proved about with TLAPS for every value of the constants.

`PROJECT.json` maps each definition to the lines it stands for. Paths below are
relative to the repository; `internal/` is `backend/internal/`.

## 1. Inventory

| Component | State | Operations | Hard behaviour | What makes it correct |
|---|---|---|---|---|
| Tracked apply (`internal/changes/service.go`, `internal/yaml/applier.go`) | the request's frame, `recorder.err` | `TrackedApply`, `resolveExisting`, `replay`, the observed engine | a lost answer and a retry of the same operation id; statements that fail on the client and commit later; a crash between PATCH and record | the engine runs once per id; the receipt never claims more or less than the cluster holds |
| Receipt store (`internal/store/change_receipts.go`) | `change_receipts` rows | insert, stamp, append, finalize, reconcile, set verdict, delete | guarded UPDATEs of several processes | a completed row is frozen |
| Receipt sweeper (`cmd/kubecenter/receipt_sweep.go`) | - | boot and periodic reconcile, retention | reaping a row whose apply is alive | every operation in flight ends |
| Verification (`internal/changes/verifier.go`, `handler.go`) | verdict and stored checks | `VerifyOnce`, `HandleVerification` | two tabs, a late write, the reaper, a context that ends | one verdict, one answer, one audit entry |
| Event hub (`internal/websocket`, `internal/server/handle_ws.go`) | client and subscription maps, five channels | register, unregister, subscribe, broadcast, resync, revalidate | three goroutines per connection, full buffers, closed channels | a channel is closed once; a dropped event is announced; revoked access ends |
| Remote read cache (`internal/k8s/remotecache`) | entries, LRU order, generations, flights | `Get`, `EvictCluster` | eviction during a fetch, callers that give up | a read after an eviction sees what it vouches for; views are not shared between identities |
| Refresh sessions (`internal/auth/session.go`, `internal/server/handle_auth.go`) | map of sessions | login, `Rotate`, `Restore`, logout, cleanup | concurrent refreshes, transient failures, an LDAP outage | one successor per token; no silent logout; the grace period is a bound |
| Backup assurance (`internal/velero/assurance_service.go`, `internal/store/backup_assurance*.go`) | policies, exceptions, delivery intents, lease | the tick: lease, collect, reconcile, drain, prune | overlapping replicas, crashes between send and mark, cached views | one open exception per condition, one intent per transition, bounded sends, no false recovery |
| Notification feed (`internal/notifications`) | `nc_notifications` | `EmitSync`, dispatch, push | dedup under concurrency, unacknowledged commits | what is delivered is in the feed |
| Browser session (`frontend/lib/api.ts`, `frontend/src/lib/session-boot.ts`, `frontend/src/lib/ws.ts`) | access token, cookie, refresh promise | boot refresh, retry after a 401, socket refresh, login, logout | several refreshers of one rotating token, answers lost to a reload or a timeout | no call is logged out by another call's refresh |
| YAML apply page (`frontend/lib/yaml-apply.ts`, `pending-apply.ts`, `src/islands/YamlApplyPage.tsx`) | text, pinned preview, attempt, ids kept in session storage | validate, apply, retry, file upload, cluster switch, logout | a lost answer and a second press, a reload, a switch or another user in between | a retry applies once; what is sent is what was previewed |
| Dashboard editor (`frontend/lib/dashboard/layout-store.ts`, `edit-session.ts`, `src/islands/DashboardV2.tsx`, `internal/preferences`, `internal/store/preferences.go`) | stored layout and revision, the page's copy, the edit session | load, edit, save, conflict, reload | two tabs, lost answers, namespaces that come and go | no version is replaced by a draft of an older one; nothing unseen is deleted |
| Dashboard source cache (`frontend/lib/dashboard/data.ts`) | in-flight, retired and queued requests, slots, timers, states | `ensure`, `retain`, `abort`, `refresh`, the refresh loop | range changes under a request, deadlines, cancelled requests that settle late, slots | a card is asked for or answered under the range the page names; refresh never stops |
| Cluster router (`internal/k8s/cluster_router.go`) | client and schema caches | build, evict, sweep | a registration replaced under a request | a request never reaches the old cluster |
| ExternalSecrets bulk jobs (`internal/externalsecrets`, `internal/store/eso_bulk_jobs.go`) | job rows | start, work, complete, orphans | restart in the middle of a job | one active job per scope |
| Incidents (`internal/incidents`) | incidents, evidence, grants | capture, export, retention | capture racing retention | what is exported was granted |
| Policy recorder, other preferences, limits, cert-manager poller | a row or a set each | poll, write | two replicas, two tabs | one record per period, no lost update |
| Readers (gateway, gitops, loki, monitoring, networking, policy, scanning, service mesh, storage, topology, Velero pages, wizards, diagnostics) | none, or a read-through cache | list, normalise, render | - | pure translations |
| Other frontend pages, mobile, charts, end-to-end tests | form and table state of one page | rendering, packaging | - | - |

Interactions. A tracked apply and its verification share the receipt row and nothing
else. The hub gets events from informers and asks the access checker when it
revalidates. The remote cache is evicted by writers and by the removal of a cluster.
The assurance collector reads the same Velero cache that the pages fill, and hands its
intents to the notification feed. Refresh sessions guard every other endpoint. The
apply page talks to the tracked apply protocol and decides which operation id it sends;
the browser's clients share the cookie of one refresh session; the dashboard editor
decides what the source cache is asked for.

## 2. Modules

| Module | Models | Extends / composed with |
|---|---|---|
| `ReceiptTable` | one `change_receipts` row and every SQL statement on it, as operators | - |
| `ChangeReceipts` | requests, engine, recorder, cluster and sweeper around a table of rows | `ReceiptTable` |
| `ChangeVerification` | pollers, reaper and late writes around one row | `ReceiptTable` |
| `WebSocketHub` | hub goroutine, both pumps of each connection, upgrade handler, access changes | - |
| `RemoteCache` | `Get` in its separately locked steps, the flight, eviction, expiry, writers | - |
| `Sessions` | store, refresh requests, logout, cleanup, clock | - |
| `BrowserSession` | one browser's API client, boot refresh and socket client around the refresh endpoint | extends `Sessions` and takes its server steps |
| `ApplyPage` | the apply page and its kept ids, with the server's steps on the receipt table | instance of `ReceiptTable` |
| `LayoutHistory` | abstract: a history of layouts, each drafted from the one before | - |
| `DashboardLayout` | pages, their requests and the stored row | implements `LayoutHistory` |
| `SourceCache` | the widgets' read cache and the page that drives it | - |
| `BackupAssurance` | replicas' ticks, lease, exceptions, outbox, feed, policies, the world | - |
| `MC...` | the sets and symmetries TLC needs, for the modules that need any | the module they are named after |
| `...Proofs` | theorems | the module they are named after |

Definitions named in a comment as a *mutant* are wrong versions of the definition that
follows. No specification uses them; `PROJECT.json` says which property refutes each.

### 2.1 ReceiptTable and ChangeReceipts

`rows[o]` is the receipt of operation `o`. A request `r` moves through `TrackedApply`
one SQL statement or one document at a time; `pc[r]` is the next step. A statement may
commit, fail, or fail on the client only: then it is put in `late[r]` and lands at any
later moment, or never. `held[o]` and `cut[o]` are the ground truth the code cannot
see: documents the API server committed, and documents sent without an answer.
`Crash(r)` ends a request anywhere. `GrowOld` and `Expire` move a row past the grace
and the retention period, `Reconcile` and `Cleanup` are the sweeper. Error texts,
Secret sanitising and `SetOwnership` are left out.

### 2.2 ChangeVerification

A poller loads the row, makes one check per recorded object, folds the checks and, if
it is the owner's, writes. Nothing is locked from the load to the write. What a live
read finds is a free choice among what `verifyObject` can return for such an outcome.

### 2.3 WebSocketHub

`hub` is where `Run` is; every action guarded by `hub = "select"` is one case of its
select. Buffered channels are bounded sequences and a send on a closed channel is a
panic, which ends the hub or, in a reader, the connection. `granted` is what the API
server allows now; `behind` remembers a dropped event until a resync is queued.

### 2.4 RemoteCache

Each lock section of `Get` is a step. `remote[c]` counts writes to a cluster and
`floor[c]` is the count its last eviction vouches for. The code's TTL is `Expire`.
`EndContext` is a caller going away; a waiting call then gives up (`Cancel`), and a
flight remembers who started it (`by`) although its fetch runs on a detached context and
never asks: `fetchErrors` says what a fetch may fail with.

### 2.5 Sessions

A refresh takes the session out, resolves the user in one of five ways, mints or puts
it back. `fate`, `successors` and `identity` are history: what became of a token, what
was minted from it, and when the identity behind it was last confirmed.

### 2.6 BackupAssurance

Every replica runs `tick`, one action per store call or `EmitSync`. Findings are taken
in any order. `world` is the truth about each condition, changed by the environment; a
replica evaluates `Fetched(r)`, its cached view or a fresh one. A view is dated by the
number of changes before it (`asof`), an exception has the view and the replica it was
opened from (`asof`, `by`), and a tick the conditions it found (`reported`); no action
reads these marks, only properties do. `Overlap` says whether a
lease may expire under a ticking replica (the tick deadline equals the ttl, so that
needs a process that was held up) and `Caching` whether a view outlives its reader: the
ttl of 30 s is half a tick interval, so a tick finds views of pages, and its own only
after a slow tick. All policies cover all conditions, so "some policy is enabled" decides whether a condition
is reported; the cron and freshness arithmetic of `assurance.go` is not modelled.
`outbox` is every intent there ever was in the order of creation, which is the order
the claim selects in; a row's deletion removes its intents and leaves their places, and
a tick's `jobs` are places.

### 2.7 BrowserSession

`jar` is the refresh cookie, which a refresh carries when it is sent and its answer
replaces when it arrives; `flight[r]` is what the browser knows of request `r`, and the
steps of `Sessions` are what the server does with it. `promise` is the API client's
shared refresh: a call that meets a 401 joins it, and so does a live stream whose token
ran out (`StreamExpires`). The socket client posts a refresh of its own. A page may be
reloaded, or may give up on a refresh, at any moment; the server goes on.

### 2.8 ApplyPage

A press of Apply sends a request (text, cluster, user) under an operation id: the
pending one when the request key has one in memory or in session storage, else a new
one. `handleValidate` and `handleApply` are split at their awaits; the pin, the
selected cluster, the text (a file may land late) and the user may change in between,
as far as the page's own controls allow. The server's side is `ReceiptTable`'s
statements with a bundle of one document, so that a collision, a failed stamp or a
lost answer is one of the answers `TrackedApply` gives. `user` is whom the server takes a
send to be from, `page.me` whom the page takes him to be: `NoUser` until `/auth/me`
answers (`fetchCurrentUser`), which it may never do, and out of date once another tab has
signed in as somebody else (`refreshSession`, which carries the shared cookie). The key of
a kept id has `page.me` in it, as `yaml-apply.ts:529` has `currentUserId()`. `storage`
says whether the tab has a session storage at all. `aged` holds the ids older than
the lifetime of a kept attempt. Repair links, forced applies and rendering are left out.

### 2.9 DashboardLayout and LayoutHistory

A layout is the set of its placements. `stored` is the sequence of versions of the row,
its length the revision; a save is two steps at the server, the read that chooses
INSERT or UPDATE and the statement itself, which carries the revision claim. The server
withholds placements in namespaces the account may not see, the page drops widgets it
does not know, and `NothingVanishesUnseen` says what of a stored layout a save may
remove. The refinement maps `stored` to the history and the revision an edit session
started from to the base of a draft: `ImplementsHistory` is `LayoutHistory`'s
specification as a property.

### 2.10 SourceCache

`cache` is one record: the request of each key that may write its state (`flight`), the
number of cancelled ones still on the wire (`retired`), the queue and the slots taken,
the range each key was last requested under (`fetched`), what is on screen (`shown`)
and the offset timers. The code never awaits inside an operation, so each is an operator
from cache to cache and an action composes them as the handler does. The loops of the
code over keys are one step for the set of them: a turn of `ensure`, `retain`, `abort` or
the refresh reads and writes what belongs to its own key, and otherwise only the count of
the slots and the end of the queue, so that the order of the turns decides nothing but
who is served by the slots there are. That order is the `line` the operators take: the
header's sources first for `ensure` (`sourcesFor`), any order for the refresh, which
iterates a `Map` in the order its keys came in. A form of the module that folds the
loops key by key reaches the same 220 642 states on the run's instance. `Render` is
the effect that ensures and then retains the layout's keys; `Mount` and `Unmount` are the
refresh effect and its cleanup. `refresh()` has no caller outside the tests and is
an action all the same.

## 3. Runs

All bounds are in the `.cfg` files. A counter that the code does not bound is bounded
in a guard, and the constant that does it starts with `Max`.

| Run | Shows | Bounds and why they suffice |
|---|---|---|
| `receipts_bundle` | `TruthfulPrefix`, `ClassifiedTruthfully`, `EngineRunsOnce`, `AnswersTruthful`, `FinalRowsFrozen`, `InFlightEnds` | two sends of one id: a first and a retry, by the same user with the same bundle, or another user, or another bundle; two documents: a recorded prefix, a gap of one, an unsent tail; both requests may die anywhere. All but `InFlightEnds` are proved for any number |
| `verification_tabs` | `OwnerAnswersAgree`, `AuditNamesTheVerdict`, `VerdictEarned`, `WindowDecides` | two tabs are enough to race, the third party is the reaper; two documents of every outcome, one of a kind without a postcondition; all four are proved for any number |
| `hub_fair` | `ClosedOnce`, `NoSilentLoss`, `RevokedEnds`, `LeaversRemoved` | one connection that may subscribe to one namespace or to all, buffers of one: full after one message; `ClosedOnce` and `NoSilentLoss` are proved for any number of connections and any sizes |
| `cache_gets` | `ReadsWhatEvictionVouchesFor`, `OwnView`, `Bounded`, `GetsReturn` | two calls by two identities, either giving up, two writes and two evictions, a cache that holds half of the keys; `GetsReturn` is a liveness property whose safety half, that a caller is told of an ended context only if it is its own, is proved like the other three for any number |
| `browser_session` | `OneSuccessor`, `StillUsable`, `GraceBounded`, `CallsShareARefresh` | two refreshes by any two of the clients, a chain of three tokens, every provider, an outage longer than the grace; all four are proved for any number |
| `assurance_overlap` | `OneOpenPerCondition`, `IntentPerTransition`, `SendsBounded`, `DeliveredWasCarried`, `ResolvedOnEvidence` | two replicas, one takeover, any first state of the world and the policies and one change of either, one failure of any kind, three rows: the condition, a second occurrence and the unknown collection; all five are proved for any number of replicas |
| `assurance_settles` | `Converges`, `PendingEnds` | one replica, two changes, any page read in between, a batch of one with up to three intents waiting |
| `dashboard_tabs` | `ConflictIsReal`, `NothingVanishesUnseen`, `ImplementsHistory`, `RequestsSettle` | two pages that may be open together, three revisions: a base, a save and a save over it; one widget the build knows and one it does not, in a namespace that may be withheld; all but `RequestsSettle` are proved for any number |
| `source_cache` | `AskedOrAnswered`, `OnlyTheLayoutIsPolled`, `SlotsCounted`, `KeepsPolling` | one slot for a range-sensitive source and a discovery status, so that a cancelled request, its successor and another source compete for it; a cheap source beside them; three steps of the page: mount, leave and return, or two changes; a recheck every second tick. All but `KeepsPolling` are proved for any sources and any number of slots |
| `apply_page` | `RetryNeverAppliesTwice`, `IdKeepsItsRequest`, `AppliedWasPreviewed` | two presses: a send and its retry or successor, among two texts, two clusters and two users, each known to the page, unknown or mistaken, with and without session storage; all three are proved for any number |

Each module has a type invariant (`TypeOK`, `CacheTypeOK` in `SourceCache`); it held on
these instances and is part of an inductive invariant that is proved. Larger
instances that take longer than a run should were checked once, without error: the hub
with two connections (1.7 million states), the apply page with three presses of one
text on one cluster by one user (4.4 million), two assurance replicas that cache their
views (0.35 million), one whose intents fail until their attempts are used up (0.2
million, in two instances), the browser with three refreshes of local sessions
(0.9 million), the verification with a guest beside the tabs (8.4 million) and the
source cache with two cards beside the status and four steps of the page (0.6 million).

Deadlock is checked for the assurance and verification runs, which never stop. In the
others requests, calls or tokens are used up, the hub is shut down or the page is left.

### 3.1 Where the code and its documentation disagree

Two runs end in a counterexample, and a finding quotes the line each contradicts.

| Run | What TLC shows |
|---|---|
| `hub_survives` | a subscription still queued when its connection unregisters is added afterwards; the next event is sent on a closed channel and ends the hub |
| `apply_retry` | after a lost answer, a second press that is refused before its receipt is looked at makes the page forget the id of a send that did apply, and show the failure with no receipt; after a pin refusal it says in so many words that nothing was applied |

Other gaps between what a comment says and what the code does, met while modelling.
The models have these behaviours, and the properties are stated so as not to deny them:

- `internal/auth/session.go:108`: `Restore` stores the session unconditionally, so a
  logout that lands between a refresh's `Rotate` and its `Restore` is undone, although
  `handle_auth.go:414` says that logout invalidates the token. No property of `Sessions`
  denies it.
- `frontend/src/lib/ws.ts:221`: the socket client's refresh does not join the API
  client's. Whichever comes second finds the token spent; when it is the API client, the
  call it retries for ends at the login page. `CallsShareARefresh` is stated for the
  callers of `refreshSession`.
- `frontend/src/islands/YamlApplyPage.tsx:171`: a file chosen before Validate may be
  read while the preview is out. It clears the pin, as a real edit does (line 460: it
  "invalidates the previous verdict"), but the answer that comes after it pins again, and
  the text on the page is then one nobody previewed. `AppliedWasPreviewed` names this
  exception.
- `frontend/lib/yaml-apply.ts:529`: the key of a kept id has `currentUserId()` in it, "so
  an id never travels to a different identity". It is null until `/auth/me` answers on each
  load, and stays null when that fails, as it does for someone who is not an administrator
  while a remote cluster is selected. `YamlApplyPage` does not wait for it, whereas
  `CaptureToIncidentButton.tsx:237` is "inactive until it is known". Three histories follow,
  and all are behaviours of `ApplyPage`. A press before the answer is lost, the same press
  after it is keyed apart, mints a second id, and both apply. Two users who sign in one
  after the other when a session ends (which keeps the storage) and are both unknown share
  a key: the second continues the first one's id and is answered `operation_id_conflict`.
  And a page whose cookie another tab replaced goes on under the first user's key.
  `RetryNeverAppliesTwice` counts as a retry what the same identity sends, as the page knows
  it; `IdKeepsItsRequest` holds an id to its content always and to its user where every page
  that sent it knew him (`Mistaken`). Both were seen to fail without these exceptions.
- `frontend/lib/pending-apply.ts:4`: "the operator's retry must reuse the same operation id,
  even across a remount, reload or page navigation". Where session storage is unavailable
  the id is in the mounted hook only, and a press after a reload mints another.
- `frontend/lib/pending-apply.ts:28`: an attempt is forgotten after its lifetime whether
  or not its outcome is known, and a press after that mints a new id.
  `RetryNeverAppliesTwice` is stated for attempts within it.
- `internal/changes/verifier.go:165`: a PATCH that was cut off and never commits leaves
  the previous object, whose own healthy rollout is what the check then reads.
- `internal/store/backup_assurance_delivery.go:436`: an intent whose last claimer died
  stays pending with its attempts used up, and is never claimed again. `PendingEnds`
  speaks of claimable intents.
- `internal/changes/handler.go:507`: a context that ends after the verdict was written
  and before this line skips the audit hook, and later polls read the verdict back
  without auditing it.
- `internal/websocket/hub.go:169`: subscribe and unsubscribe travel on two channels; an
  unsubscribe taken before the subscribe it follows finds nothing.
- `internal/server/handle_ws.go:43`: concurrent upgrades all pass the `MaxClients`
  check, which counts registered clients only.
- `internal/server/handle_auth.go:213`: each refresh of an OIDC session starts another
  hour from the cached user, so the hour bounds a token and not the chain.
- `internal/velero/assurance_service.go:451`: a replica that takes over the lease may
  evaluate a view cached before its predecessor opened an exception, and resolve it; so
  may a tick that outlived its lease. TLC finds it with two replicas: one collects a clear
  view, its lease expires, the condition begins to hold, the other opens the exception, and
  the first resolves it. `ResolvedOnEvidence` therefore compares the dates of views only for
  the replica that opened the exception; that the resolving tick's own collection was ok and
  its findings, those held open included, do not report the condition is demanded of every
  replica.
- `internal/notifications/store.go:144`: a commit that was not acknowledged is reported
  as a failed send; on the last attempt the intent is parked as failed although the feed
  carries it. `DeliveredWasCarried` states the direction that holds.
- `internal/velero/assurance_service.go:662`: a send whose mark was lost is repeated
  once the dedup window has passed, or when the dedup lookup fails. `SendsBounded`
  bounds the repetitions.

## 4. Fairness

- `ChangeReceipts`: a live request goes on (`Step`), rows age, and the sweeper ticks.
  Nothing is assumed of retries or of late statements.
- `WebSocketHub`: Go's `select` chooses uniformly among ready cases, hence strong
  fairness for each case; a revalidation that finds denied access happens every five
  minutes.
- `RemoteCache`: goroutines run; a fetch has a deadline.
- `DashboardLayout`: the server handles a request it has, or the connection fails; a page
  that is open takes its answer. Nothing is assumed of the user.
- `SourceCache`: the interval and the timers of a visible tab fire. A request settles once
  its deadline has aborted it, because every fetcher hands its signal to `fetch`; before
  that nothing is assumed of the network. The page takes a bounded number of steps: an
  operator who switches ranges for ever can keep a queued read from its slot.
- `BackupAssurance`: every replica ticks each minute, and no cached view outlives its
  ttl. Failures and changes are finite in number.

## 5. Proofs

Eight modules hold theorems. Each follows one scheme: an inductive invariant, checked by
TLC on the run's instance before it was proved; lemmas that say what an action or a
group of like actions does to one part of it; a theorem that it always holds; and the
listed properties from it. All theorems hold for every value of the constants, so for
any number of requests, replicas, pages, tokens or documents and any size of a buffer.

**`ChangeReceiptsProofs`**
- `TypeCorrect`: `TypeOK` always holds.
- `EngineOnce`: `EngineRunsOnce` always holds. It is not inductive: what stops a second
  engine run is the row that the first request inserted. `OnceInv` adds that a request
  past its insert has a backing row (`ClaimBacked`), that a late insert of a request can
  only land on a row that is its own or refuses it (`ClaimKept`), that a request which
  ran is not before its insert (`ClaimSpent`), and that two requests are never both
  past the insert of one row (`ClaimUnique`).
- `PrefixTruthful`, `RowsClassified`, `AnswersHold`. They speak of the cluster, which no
  row and no request sees. `TruthInv` ties the three together. Per request
  (`RequestAt`): the row it works on is there and out of retention's reach, only a
  request that ran sends, appends or finalizes, one that closes a row it could not stamp
  is alone with it, and before its run it has attempted nothing. Per operation (`OperationAt`): without a runner nothing was
  sent and nothing is recorded (`IdleAt`); with one, the outcomes it holds are true of
  the cluster (`OutcomesTrue`), the row records a prefix of them (`RecordsAre`) that is
  behind by one at most, and by none where the recorder is believed (`Lag`), only a crash
  under a PATCH leaves a document sent that was not attempted (`SentBy`), and a row is
  settled by the end of its run only (`Ended`). `AnswerStands` says
  that what was answered cannot be overtaken by what is still to come.
- `FinalFrozen`: `FinalRowsFrozen` holds; every statement on a row is guarded by
  `completed_at IS NULL`, and the lemmas say so operator by operator.

**`ChangeVerificationProofs`**
- `OneAnswer`, `AuditTrue`, `WindowEnds`, `VerdictsEarned`. A poller acts on the row it
  loaded, which is stale by the time it writes. `VerdictInv` says what a pass's
  checks and a write on its way have to do with the row there is now: nobody verifies a
  receipt that is not finished (`VerdictsFollowFinish`), a pass checks the recorded
  objects in order (`PassInOrder`), a stored or a late verdict is the fold of the checks
  that go with it (`EvidenceFits`), and at most one owner's request landed a final
  verdict, which is the stored and the audited one (`LandedOnce`, `WrittenIsStored`,
  `AuditIsStored`).

**`WebSocketHubProofs`**
- `HubTyped`, `ClosedAtMostOnce`, `LossIsAnnounced`. `HubInv` adds that `h.clients`
  holds the connections that were registered and whose channel is open
  (`ConnectedIsOpen`), that `clientCount` is their number (`Counted`), that whoever has a
  subscription, in the hub, in its channel or still to be served, was registered
  (`SubscribersRegistered`), and that a connected client that is behind is the one the
  hub is about to send a resync (`SlowIsConnected`, `OnlySlowIsBehind`).

**`RemoteCacheProofs`**
- `EvictionHolds`, `ViewsAreOwn`. `CacheInv` follows a value from the fetch to the
  answer: a floor was reached by the remote cluster (`FloorReached`); an entry
  is at least as new as the floor and belongs to its key's identity (`EntriesGood`); so is
  what a flight carries, as far as its generation is current (`FlightsGood`); what a call's
  flight carries is at least as new as the floor the call began under (`CallsGood`); and
  so are the answers (`AnswersGood`).
- `CancelsAreOwn`: a read that was answered that a context ended had its own context
  ended. `CancelsOwn` is inductive, because no flight lands such an answer.
- `SizeBounded`: `Bounded` always holds. `Lists(s, K)`, "`s` lists the members of `K`,
  each once", is what appending a new key, dropping the first and keeping those of the
  other clusters preserve. The last rests on `Counting`: the members of a finite set of
  places are numbered by how many of them come before.

**`SessionsProofs`**
- `SessionsTyped`, `SuccessorUnique`, `LiveUsable`, `GraceHolds`. `SessionInv` adds that
  a token is in one place only, the store or one request, and has no
  successor while it is in either (`InOnePlace`), that it never has two successors
  (`AtMostOne`), that a live one is in either place (`LiveIsKept`), and that the stamp on
  a session is the time its identity was confirmed (`StampsTrue`).
- `BrowserUsesSessions`: every behaviour of `BrowserSession` is one of `Sessions`, so the
  four hold there, where the run checks them.
- `CallsAreNotRaced`: `CallsShareARefresh` always holds. `BrowserInv` adds that a cookie
  on its way to the browser was never sent or stored before (`AnswersAreFresh`), that
  the jar never returns to a cookie that was exchanged (`SpentIsPast`), and that the one
  API refresh that is waited for is the promise (`OneApiRefresh`).

**`BackupAssuranceProofs`**
- `OneOpen`, `TransitionsAnnounced`, `SendsAreBounded`, `DeliveredIsCarried`.
  `AssuranceInv` adds that the outbox names no transition twice and only transitions that
  were made (`QueuedOnce`), that jobs are places of it (`JobsQueued`), and, for the bound
  on sends, that the sends made and those that claimers still owe are together at most
  the attempts spent (`SendsCovered`): a claim spends the attempt before the send, and
  a row that is deleted under its claimer takes the counter away and not the debt.
- `ResolutionsEvidenced`: `ResolvedOnEvidence` holds, for any number of replicas.
  `Evidence` says that a tick has yet to treat every condition it reported or has matched
  the open row of it, so that what it lists as unmatched after its findings is not reported
  (`Accounted`, `Evidenced`); `ViewsInOrder` says that no exception a replica opened is
  younger than the view its tick has, or would be given by its cache.

**`DashboardProofs`**, about the two modules of the dashboard page
- `ConflictsReal`, `NothingUnseenVanishes`, and `HistoryImplemented`, the refinement of
  `LayoutHistory`. `LayoutInv` relates a page's copy, the session's base and a save on
  its way to the version of the row they came from: the claim of a save is the session's
  revision (`WriteIsOfTheSession`), every version after a revision the page vouches for
  is by another page (`RevisionsBehind`), and of the version it stands on everything is
  shown, announced as dropped or listed as withheld (`NothingUnaccounted`).
- `CardsAreAskedOrAnswered`, `PollsOnlyTheLayout`, `SlotsAreCounted` and `CacheTypes` of
  `SourceCache`. `SourceInv` has three parts beside the types. `KeyGood` relates, key by
  key, what is shown to the request and the recorded range: a key reads as loading exactly
  while a request of its own is pending, under the range recorded; otherwise what is
  recorded is the range of the data or of a request that failed, and only the deadline
  aborts a request that is still current, so that a rejected one always leaves an error.
  `SlotGood` says that the queue lists the waiting keys, each once, that the slots are as
  many as the requests on the wire, and that someone waits only while all are taken.
  `UnmountedIsQuiet` says that an unmounted page has nothing pending or scheduled, so that
  a page that mounts finds no timer of an earlier layout. Each operation has a lemma
  that says what it leaves of every field (`RunFields`, `RetireFields`, ...) and one that it
  keeps `SlotGood`; the counting rests on `PairsServed`, `PairsLess` and `PairsMore`, which
  number the requests of each key and add or take away a pair, and `WithoutLists`, by which
  the queue stays in its order when cancelled keys leave it. A slot that a cancelled request
  gives back may go to a newer request of the same key: `SlotPassed` has that case.

**`ApplyPageProofs`**
- `RetryAppliesOnce`, `IdKept`, `PreviewedIsApplied`. `ApplyInv` says that an id, in
  memory, in session storage or on the wire, has one text, one cluster and one user as the
  pages that sent it knew him, and that its row has the text, the cluster and the user of
  one of its sends (`SendInv`, `RowInv`), that an attempt whose outcome is unknown still has its id where the next
  press finds it, that a pinned
  page shows the text that was previewed or knows of the race (`PinIsPreviewed`), and
  that one send at most claims a row (`ClaimsUnique`).

The assumptions are those stated in the modules: sizes are natural numbers, the
providers are the three the code knows, the sources are finitely many, and the values that stand for "none" are no
members of the sets they are absent from. Nothing else is assumed.

Only model-checked is liveness (`InFlightEnds`, `RevokedEnds`, `LeaversRemoved`,
`GetsReturn`, `Converges`, `PendingEnds`, `RequestsSettle`, `KeepsPolling`): fairness is
beyond the prover; of `GetsReturn` the half that is a safety property is `CancelsAreOwn`.
Every other property of a passing run is a theorem.

The invariants were checked on the instances of the runs: `TruthInv` (1.3 million states),
`VerdictInv` (3.2 million), `AssuranceInv`, `Evidence` and `ViewsInOrder` (1 million),
`BrowserInv` (1.8 million), `SourceInv` (0.2 million) and `LayoutInv`; `ApplyInv` on two
presses of one text on one cluster by two users (0.3 million); `HubInv` on one connection,
and on the first 13 million states of two.

## 6. Plan

Worth modelling next: the cluster router with its eviction hooks into
`RemoteCache`; the bulk jobs of ExternalSecrets; the dispatch side of the notification
feed; incident capture against retention.

## 7. Not modelled

Most of the frontend is rendering: tables, wizards, detail pages and charts compute
markup from fetched objects and keep the state of one form. What it shares and keeps
across requests is in the modules above; a model of the rest would transliterate
layout. Readers and normalisers, the wizards, diagnostics and topology compute a result from
fetched objects and keep nothing. Proxies to Loki, Prometheus and Hubble are I/O.
Configuration is read once. The Kubernetes API server, PostgreSQL, the identity
providers and Velero are environment: their effects appear as the choices an action
offers. Cryptography, cookie attributes and wire formats are left out
everywhere.
