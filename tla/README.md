# GenAPI: a TLA+ model of the image service

GenAPI is a self-hosted site that sells image generation by the dog coin (狗狗币, "GGB"). A
Python process (FastAPI under one uvicorn worker) serves the API and keeps its state in
SQLite and in JSON files; a Next.js application is the user interface. This directory
holds TLA+ models of the parts of it where order, concurrency, failure or arithmetic
matter, the TLC configurations that check them, and TLAPS proofs.

## 1. Inventory

### How things run

*The site.* Every route is an `async def` on one event loop, so the synchronous service
calls it makes directly are serialised with each other. Calls handed to
`run_in_threadpool` (registration, login, check-in, gallery, account maintenance, the
image handler and every `next` of a stream) run in worker threads and interleave with
the loop and with each other, subject to the locks named below. Daemon threads run the
register machine, the import jobs, the account watcher and an update; an update in
Docker runs in a helper container, another process.

*The web application.* JavaScript runs one continuation at a time; everything between
two `await`s is one step. Requests overtake each other in both directions, fail before
or after the site acted on them, and are answered when the page has been left. Tabs of a
browser share a store (localforage over IndexedDB) with no transaction over two keys.

### Parts

| part | state | operations | what is hard |
|---|---|---|---|
| dog-coin ledger (`services/user_service.py`) | balances, limits and counters, memberships, usage events, redeem codes, check-ins | reserve, settle, recover, redeem, check in, authenticate, administrators' edits | late and repeated settlements, recovery racing them, periods that roll over in between, restarts |
| image request (`api/ai.py`, `services/log_service.py`, `utils/helper.py`) | one reservation, the stream wrapper | handle, take the first item, stream, close, fail | cancellation at every await, exactly one settlement, charged = delivered |
| account pool (`services/account_service.py`, `services/protocol/conversation.py`) | upstream accounts with status and quota | pick, refresh, mark, edit, remove | a pick made under the lock and used after an unlocked remote call |
| update jobs (`services/update_service.py`, `api/update.py`) | job directories, `.active.lock` | create if idle, poll, advance, recover | a lock in the file system that every reader may remove |
| release switch (`services/update_executor.py`) | releases, `current`, `previous` | activate, roll back, restart | a failure between two renames |
| accounts of users (`services/user_service.py`) | users, roles, token versions, revoked tokens, login failures | set up, log in and out, edit, delete | the last administrator, tokens that outlive a change |
| image queue (`web/src/app/image/`, `store/image-conversations.ts`) | conversations, the runtime of a session, the loop and its workers, the history in the store | submit, run, retry, delete, clear, load, save, abort | results for turns that were deleted, a page that is left and opened again, two loops, a reload in the middle |
| session (`web/src/store/auth.ts`, `lib/`) | the key and the session that all tabs share | check, repair, clear, sign in and out, redirect | answers for a session that has been replaced, tabs that send each other round |
| gallery (`web/src/app/gallery/`, `services/gallery_service.py`) | items, cursor, previews; rows and files | load, load more, refresh, preview, delete | pages of a list that shrinks and grows |
| registering, redeeming, checking in (`web/src/app/register`, `redeem`, `membership`) | forms, cool-down, balances; codes and accounts | send a code, register, redeem, check in | lost answers and retries, stale answers |
| connections and imports (`web/src/app/settings`, `services/cpa_service.py`, `sub2api_service.py`) | lists, dialogs, an interval; pools with their job | add, edit, delete, browse, import, poll | polls beside edits, a job written back over another |
| administration lists (`web/src/app/admin/*`) | four lists with their dialogs | create, edit, toggle, delete, reload | one flag for many requests, dialogs closed under way |
| account page (`web/src/app/accounts`) | the list of upstream accounts, its selection, two dialogs | refresh, delete, edit, import | a selection over a list that every answer replaces |
| register machine, settings, update card (`web/src/app/admin/register-machine`, `settings`; `services/register_service.py`) | draft, polled configuration, dialogs; the runner | save, start, stop, reset, poll, update, roll back, restart | polls over typed text, a switch read in three steps |
| mail, image cache, settings, storage back ends, protocol conversion, call log, presentation, installers | | | not modelled, see section 7 |

### What makes each part correct

* **Ledger.** Coins are neither created nor lost: a request costs exactly the images it
  delivered, whatever purse they came from; an event ends once; the counter the
  concurrency limit reads is the number of open events; member coins stay inside the
  period that granted them; a code is spent once; a reservation nobody settles is
  eventually given back.
* **Image request.** Once over, its reservation is settled, once; it charges the images
  the client got; a failure charges nothing.
* **Account pool.** An account that was removed is not brought back by an answer; a
  request tries each account at most once; limited accounts come back.
* **Update jobs and release switch.** At most one job is active; a dead one is failed as
  long as its lock lies there (without a lock it blocks updates, section 5); `current`
  always names a complete release; an update can be undone.
* **Accounts of users.** An enabled administrator always remains; a token from before a
  change of password, role or state is refused; no failure is lost.
* **Image queue.** A queued turn ends once, each of its images requested once; what is
  shown is what is stored; what was deleted stays away.
* **Session.** A stale answer clears nobody else's session, and the tabs come to rest.
* **Pages.** Every flag comes down again; an answer changes what it is the answer to;
  what is sent for an item was filled for it; a code pays once; an import under way is
  followed by one interval, and ends; the register machine follows its switch.

## 2. Modules

`PROJECT.json` has the source lines of every definition under `map`.

| module | models | composed in |
|---|---|---|
| `QuotaLedger` (and its abstract specification `CoinHolds`, sums in `QuotaAudit`) | dog-coin ledger | `MCQuotaLedger` |
| `ImageRequest` | one request at the site | `MCImages` |
| `ImageQueue` | image page, its runtime and its history | `MCImages` |
| `UpdateJobs`, `ReleaseSwitch` | job store; renames on disk | `UpdateRun` (`MCUpdateRun`) |
| `AccountPool` | upstream accounts | |
| `UserAccounts` | accounts, tokens, login failures | `MCUserAccounts` |
| `WebSession` | key, session, guards, interceptors, shell | |
| `WebPage` | what all pages have in common | extended by the six modules below |
| `Gallery`, `UserPages`, `AdminPages`, `AccountPages`, `ImportPages`, `SettingsPages` | pages with their share of the site | `MCPages` |
| `QuotaLedgerProofs`, `ImageProofs` (extended by `ImageQueueProofs`), `AccountPoolProofs`, `UpdateProofs`, `UserAccountsProofs`, `WebSessionProofs`, `PagesProofs` | proofs | |

### QuotaLedger, CoinHolds, QuotaAudit

`QuotaLedger` has the rows of `services/user_service.py`: balances (`imageQuota`),
limits (`imageConcurrency`) and counters (`activeRequests`), `membership`, `events`,
`codes`, check-ins (`streakOn`), and the throttle of the recovery pass (`lastRecovery`,
`recovering`). Each action is one service call: `Reserve`, `Settle`, `EndRequest`,
`Redeem`, `Checkin`, `Authenticate`, `SetQuota`, `SetConcurrency`, `SetEnabled`,
`DeleteUser`, `SetCodeEnabled`, `DeleteCode`, `Restart`. The recovery of stale
reservations is one transaction over many rows; it is split into one step per row, and
`Quiet` keeps every other action out until it has finished, which is what the
transaction does.

`CoinHolds` is the abstract specification: coins leave a purse only into a hold, a hold
closes once, and closing returns all that is not charged. `HonoursContract` is the
refinement (`purse` is the regular balance, a hold the regular part of a usage event).
`QuotaAudit` recomputes balances from the rows that explain them and needs the sums of
the community modules.

Abstractions. The clock counts check-in days, and membership periods and the age at
which a reservation is stale are whole days of it. Administrators' own requests bypass
the ledger in the code and are left out. Count columns that are always the coins divided
by the price are not repeated. The keys and refunds of rows written by earlier versions
are not modelled. A deleted code keeps `usedBy` as a ghost, so that balances stay
explained. The refresh of the membership that `checkin` makes after its commit, in the
same worker thread, is part of the action; a redeem of the event loop may in fact come
between.

### ImageRequest

The coroutine (`phase`), the worker thread it waits for (`worker`), the generator
(`round`, `gotResult`), the wrapper of the stream (`pending`, `actual`, `closed`), what
the client got (`received`), what was saved (`gallery`), and the reservation with what
it was charged. The actions follow `api/ai.py`, the generator of
`services/protocol/conversation.py` and `services/log_service.py`. `CancelInsideNext`
tears the coroutine away while its worker runs on; `Crash` ends the process; a recovery
pass may release the reservation at any time. `cutAt` remembers the await at which a
request was torn away with no handler around it; `SettledUnlessCutOff` excepts just
those awaits, where the code relies on the recovery pass.

### ImageQueue

A step is what runs between two awaits. The module has the runtime that outlives the
page (conversations in memory, the queue, `drainInProgress`, abort controllers), the
mounts of the page with a `conversationsRef` of their own, the loops and the workers of
a batch (`image-batch-runner.ts`), the write queue of `store/image-conversations.ts`
with deletions, clearing, tombstones and the recovery of turns that a reload
interrupted, and the ends of a session. `Hazards` names what may happen besides
submitting: leaving the page, hasty clicks, deleting, clearing, signing out here or
elsewhere, a failed write, a reload: each at most once, and at most `MaxEvents` of them
and of the submissions together.

Left out: a second tab with the same session, the wording of errors, prompts and
references (a prompt that is empty starts nothing), the upgrade of turns stored by
earlier versions, and the branch for a turn without pending images (`page.tsx:923`),
which no caller reaches.

### MCImages

A behaviour is one side of an image on its way: the page (`side = "page"`) or one of its
requests at the site (`side = "site"`). All the page sees of a request is that it is
answered or fails, all the site sees of the page is that the client goes away, and
neither reads a variable of the other; running them side by side would only multiply
states.

### UpdateJobs, ReleaseSwitch, UpdateRun

`UpdateJobs` is `services/update_service.py` with `_run_update` of `api/update.py`.
`lock` is the file `.active.lock` (who created it, what it says, when), `job` and
`helper` are `job.json` and `status.json` of each directory, `where`, `todo`, `seen`,
`noted`, `mine` the threads. A step is one file-system call, or the reading of one job
directory; a scan sees the directories that were there when it began. `MayDie` says
whether the service or helpers may die. The history `undercut` remembers the two ways
the code loses its promise of one job: somebody removed the lock of a request between
its scan and its job (finding 1), or recovery failed a job as stale whose request or
helper still works on it and will write it again.

`ReleaseSwitch` is the rename protocol of `services/update_executor.py`: `tree` (what
each release directory holds), `current`, `previous`, the temporary link names (`tmp`,
shared by the threads of one process, because they hold only its id), `running`, and one
program counter per thread. Download and unpacking end before the first link is touched
and are one step. A step in `FailAt` may raise; `Crash` may happen anywhere.

`UpdateRun` composes them: the thread of a job performs the update of `ReleaseSwitch`,
while rollbacks and restarts come from other requests, which no job store holds back.
`ReleaseSwitch` has two readings of itself: with `OneUpdate` it assumes that updates
come one at a time, which is what its proofs need. `StoreAdmitsOneUpdate` is the other
half, over the composition: until the store is undercut, every step of `UpdateRun` is on
disk a step of `ReleaseSwitch` with `OneUpdate` (an `INSTANCE` with `OneUpdate <- TRUE`)
or none. `AdmitsOneActive` and `LinksStayRunnable` say under the same condition that one
job is active and that the links can be started from; `UpdateCanBeUndone` needs no
store.

### AccountPool

`services/account_service.py`, the loop of `stream_image_outputs_with_pool`, the watcher
of `api/support.py` and the account routes. `account` is what is stored; a change under
the service's lock is one step; a call to the upstream service is a window between two
steps, whose answer is chosen when it is applied. The rotation index is left open,
batches are fetched one at a time, and memory is what is stored (there is one process).

### UserAccounts

`user` holds role, state, version and e-mail of an account; `token` the token each
browser holds; `revoked`, `failed` and `loginLock` the two tables and the lock of the
login failures; `attempt` what a login thread read before it hashed the password. Routes
are atomic on the event loop; a login is three steps in a worker thread. A password is
right or wrong by choice, and `outdated` remembers which logins and tokens began before
the account changed. A token is its account, version and second of issue, so two of them
made in one second for one version are the same token, as in the code. Setting the site
up and registering are one step each, that of the commit; anybody may register, also
before there is an administrator. An administrator may not demote himself, or send
`enabled: false` for himself; one who sends `enabled: null` does disable himself
(`reject_self_admin_status_change` compares with `is False`), so in the model nothing
but the condition of the UPDATE stands in his way.

### WebSession

`store` is the key and the session that the tabs of a browser share; `tab` what each tab
shows and where it is; `thread` one asynchronous function of one tab (a check, a guard,
an interceptor, a sign-in, a sign-out), one operation of the store or one request per
step. The shell around the pages of a tab (`Framed`) makes the same check as the page. A
half-written sign-in, a key revoked at the site, a failed store and a failed check are
steps that may happen (`MaxEvents`, `MaxTroubles`). Two abstractions: the two reads of a
`Promise.all` are one step, and a key read that fails inside the interceptor of `me` is
the failure of the next read.

### Pages

`WebPage` has `page` (React state and refs), `site` (what the site keeps for it),
`calls` (the requests under way) and `clicks` (a bound of what happens). A request is
sent, the site acts on it at some moment (`Served`) and its answer is handled at a later
one; it may fail before or after the site acted. A page that was left is "away", its
answers set the state of nothing. Every page module says what its handlers do between
awaits, what the site does with each request, and what others do to the site meanwhile:

* `Gallery`: the list by cursor, refreshing beside loading more, deletions, object URLs
  of previews; rows and files at the site, where an image is stamped, its file written
  and its row committed in two steps, and a listing reads rows and then judges them by
  their files.
* `UserPages`: sending a code with its cool-down, registering, redeeming with the
  history, checking in. At the site, verification, invitation and promotion codes, which
  a registration checks in one step and spends in a later one; a failed one commits only
  its attempt.
* `AdminPages`: redeem codes, users, promotion codes and plans; the same list of rows,
  dialogs and flags with each page's own differences.
* `AccountPages`: upstream accounts, what is done to a selection, the edit form, the
  import dialog with its files and confirmation.
* `ImportPages`: CPA pools and Sub2API servers; the browser of remote accounts; the
  interval that polls; import jobs with runners that read and write back a record, and a
  restart of the service.
* `SettingsPages`: the register machine with its polled draft and the runner, the
  configuration with the secrets that are not shown, the update card with its dialogs.

`MCPages` opens one of the pages in a behaviour: no two of them share state on screen,
and what others do to the site is part of each module.

## 3. What the runs check

| run | instance | distinct questions it answers |
|---|---|---|
| `quota_membership` | one member, two plans, two requests for 1 or 2 images that deliver 0, 1 or 3, days 0 to 3 | `CoinsAreExact`: an event charges what it delivered; per period exactly the plan's coins are left, held or charged; member coins are spent in their period only |
| `quota_contention` | two users, three requests, coin and concurrency codes, an administrator | `ActiveMatchesReserved`, `OwnersExist`, `DoneOnce`, and `HonoursContract`: the ledger implements `CoinHolds` |
| `quota_checkin` | one user, days 0 to 4, a bonus every second day, edits | `RowsExplained`: balances are what the rows say, streaks are runs of days; `AbandonedAreRecovered` |
| `images` | page: two conversations, two turns of one or two images, two workers, two loops, two mounts, three events of the eight hazards; site: one request for up to three images in rounds of one or two | page: an image is requested once in one session, and no two loops run one conversation (`RunsAreSingle`), what is shown is stored and what was deleted stays away (`StoreIsTrue`), results are not undone in one session, nor stored turns lost (`OutcomesStay`); site: `SettledUnlessCutOff`, `ChargesDelivered`; both: `ImagesEnd` |
| `image_queue_unmounts` (violation) | the page with leaving it as the only hazard | finding 2 |
| `update_run` | binary: two administrators, three releases, every call may fail, crashes; Docker: one administrator, a page, two jobs, helpers that die | `AdmitsOneActive`, `LinksStayRunnable`, `UpdateCanBeUndone`, `StoreAdmitsOneUpdate`: one active job and one update on disk until the store is undercut, links that can be started from, updates that can be undone |
| `update_recovery` | one administrator, a page, two jobs; the service and helpers die, a job cannot be recorded; one tick makes jobs and locks stale | `OrphansEnd`: a stale job that nobody works on is failed as long as a lock lies there, a lock that was left is removed |
| `update_polled` (violation) | two administrators and a page | finding 1 |
| `account_pool` | two accounts, one request for two images, watcher, administrator, both removal settings | `PoolRecovers` (requests end, limited accounts come back), `GoneStaysGone`, `NoLimitedKept` |
| `user_accounts` | two accounts, two e-mails, two browsers, lock after one failure, tokens of one second | `OutdatedAreRefused`, `FailuresCounted`, `AdminRemains` |
| `web_session` | two tabs, one with its shell, two sign-ins, two events, one of them a failure | `CleanupSparesOthers`, `ShowsWhatIsStored`, `TabsComeToRest` |
| `web_pages` | each page with three clicks or events besides free ones | see below |

The properties of `web_pages`:

* `PagesSettle`: every flag that disables a button or turns a spinner has its request,
  its timer or its dialog behind it.
* `FormsSaveTheirOwn`: fields filled for one item are saved with no other; secrets that
  are not shown are neither blanked nor overwritten with older ones; only accounts of
  the browsed connection are imported; a selection has only accounts that are listed;
  files are confirmed only when there are some.
* `GalleryFollowsSite`: a deleted image does not come back to the list; an image of the
  site that is not shown is newer than all that are, still to be loaded, or was
  committed late, after an image with a later creation time, and in no page loaded
  since; every object URL that is held is shown, and the other way round.
* `CodesPayOnce`: a redeem code pays once, an account that was registered used up one
  verification and what else it was registered with.
* `DueStaysOffered`: a check-in that is enabled, and a restart that is due, are offered
  when the answers are there.
* `ImportsAreFollowed`: one interval at most; an unfinished job has a runner (unless
  that died with an exception).
* `RegisterFollowsSwitch`: after a stop at most one more registration begins; a
  switched-on machine has a runner (unless a start came too late for the one it found,
  or that died with an exception).
* `ShownStays`: generated codes, shown in plain text once, and a draft that was typed
  are not replaced by an answer.

Why the bounds are enough. The ledger's actions touch one user, one event and one code;
interference needs two events of a user (a late settlement beside a recovery), two users
of a code, and three periods (reserve in one, settle in another, replaced in the third).
A request of three images in rounds of two overshoots. Two loops and two mounts are what
leaving the page and coming back makes; two workers and two images make a batch in which
one is under way while another ends. What does not hold for every size is guarded in the
property itself: `OneSession` (the user signs out nowhere, waits for the history, and
does not both leave the page and delete) for `RequestedOnce` and `OverStaysOver`,
`Patient` (the same without the first) for `StoredIsKept`. Section 5 says how each
guard's absence breaks them in larger instances. The other hazards (reloads, failing
writes, leaving or deleting) happen in what is left. Two threads and three releases give
an update, a second one and a roll back to the first; a lock that outlives its job needs
two jobs (too few, without a page, to have two active ones: the theorems of
`UpdateProofs` cover any number). Two accounts are the least in which one administrator
acts on another, and one failure locks an e-mail so that concurrent wrong passwords pass
the threshold. Two tabs and two keys are a session that is replaced under another's
check. Three clicks let two requests overtake each other while something else happens at
the site; lists of up to three items have one before, one after and one at what changed.
`MaxTime`, `MaxProgress`, `MaxVersion`, `MaxFailures`, `MaxQuota`, `MaxClicks` and
`MaxEvents` only cap counters in guards. Symmetry is used for event slots, for accounts,
e-mails and browsers, and for administrators, jobs and releases, in runs without
liveness; the models treat those values alike.

Deadlock is checked except where a behaviour really ends: in `images`, `web_session`,
`web_pages` and `image_queue_unmounts`, where users have no more clicks, and in
`user_accounts`, where the clock and the versions run out.

### Fairness

* `QuotaLedger`: the clock goes on, and recovery passes start when due. In the code a
  pass is started by the next reservation: users go on asking for images.
* `ImageRequest`: the coroutine and its worker go on; neither the client, nor an error,
  nor a cancellation is obliged to happen.
* `ImageQueue`: what was begun between two awaits goes on, requests are answered or fail
  (a request has a time limit); no click is obliged to happen. Pages need none: what
  they promise is stated over the states in which requests are still under way.
* `WebSession`: weak fairness of all steps of threads together: one of the promises that
  can go on does.
* `UpdateJobs`: the administrator keeps trying, threads go on, time passes, a helper
  that lives reports.
* `AccountPool`: requests go on, the watcher comes round, and, for `AccountsComeBack`
  only, the upstream service grants an account the watcher keeps asking about quota
  again and again (strong fairness on that answer).

## 4. What is proved

All proofs hold for every value of the constants that satisfies the modules'
assumptions.

* `QuotaLedgerProofs`. `TypesAreKept`, `CounterIsExact` (`ActiveMatchesReserved`),
  `OwnersAlwaysExist` (`OwnersExist`) and `NothingIsDoneTwice` (`DoneOnce`). The counter
  is not inductive alone: a settlement decrements the counter of the event's owner, so
  an open event must have one; the recovery decrements per row, so the rows it holds
  must still be open; and the code decrements with a floor of zero, which loses nothing
  only because the counter is positive while an event is open. The strengthening
  (`RowsAlways`) says the first two together with the types, and that a stored
  membership period has begun, which the types of later periods need.
  `OwnersAlwaysExist` rests on two lemmas: `EventStep` (a step opens one event, ends
  one, or leaves them alone) and `Deleting` (only `DeleteUser` removes an account, and
  it spares one with an event); the first of them also gives that an event that ended is
  never written again.
* `UpdateProofs`, about the switch alone. `LinksAlwaysRunnable`, from `OneUpdate` (one
  update at a time), for any number of threads that roll back. The strengthening
  (`SwitchAlways`) says that every link, temporary link and target a thread remembers is
  a complete release, and that the directory a failing update removes is named by
  nobody. Without `OneUpdate` two updates share the temporary link names and the
  property fails. `SwitchTypes` and `UndoAlways` need no such assumption: while
  `disturbed` is false one thread at most is under way, what it has read of the links is
  still so, and what it has linked is what it renames.
* `UpdateProofs`, about jobs. For any number of administrators, pages and jobs:
  `StoreAdmitsOneJob` and `RunAdmitsOneJob` (`AdmitsOneActive`), `RunTypes`, `LinksStay`
  (`LinksStayRunnable`), `StoreGuardsTheSwitch` (`StoreAdmitsOneUpdate`) and
  `UpdatesAreUndone` (`UpdateCanBeUndone`). That one job is active is not inductive: a
  request may create one on the strength of a scan that is over, and one that works on a
  job may write it back to life. `StoreInv` (`StoreAlways`) says, until the store is
  undercut, that a request between lock and job holds the lock, so that there is one;
  that every active job is still ahead of its scan or has been seen by it; that a job
  somebody works on is active, so that no write makes a second one so; and that a
  helper's job has no final status before the helper wrote it. `RunInv` ties the thread
  on disk to the request that waits for it, and `PerformAlone` gives the switch its
  condition: two requests that perform have two active jobs.
* `UserAccountsProofs`. `AccountsTyped` (`TypeOK`), `TokensFollowAccounts`,
  `AdminAlwaysRemains`, `FailuresAlwaysCounted`. The strengthening (`AccountsAlways`)
  says that no login or token is ahead of its account's version, that a token which the
  account outdated is behind it, and that one its browser signed out of is revoked until
  it has expired; and that the thread inside the failure section holds the lock and read
  the count that is still stored. That a lock ends at a time the types allow needs that
  `2 ^ n` is an integer, which the prover does not know beyond 0: a smallest n for which
  it is none would have a predecessor for which it is one.

* `QuotaLedgerProofs` again, about coins. `LedgerHonoursContract` is the refinement:
  each step of the ledger opens a hold of `CoinHolds`, closes one, adjusts a purse or is
  a stutter; it rests on `EventsAlways` (the two parts of an event add up to what it
  reserved, one that ended charges what it delivered, out of member coins first).
  `RowsAlwaysExplained`: a balance is a sum over codes, check-in days and events, so the
  module proves that sums over a finite set exist, are integers, and change by the one
  term that changes (induction with the library's theorem about smallest members of
  well-founded sets, which takes sets and no operator); then each kind of step changes a
  balance and one term by the same amount. Streaks are inductive by day
  (`StreaksAlwaysRuns`): today's check-in must look at the latest earlier day, and days
  after today have none. `CoinsAlwaysExact`: what is left, held and charged of a period
  is what its plan grants. This needs `PeriodInv`: a row's key says when it was
  activated and at which period it is, no other row ever had that activation, and events
  were paid by no period later than the row's own; otherwise a late settlement could pay
  into a period that a roll-over then fills again.
* `AccountPoolProofs`. `PoolTypes`, `LimitedNeverKept`, `GoneForGood`. `PoolInv` adds
  what a request remembers: an account it may still mark. Every step stores, of each
  account, something that the removal setting lets stay (`StepStoresWell`), and the
  accounts that are gone it leaves so, but for adding.
* `ImageProofs`, about the request at the site. `RequestTypesKept`, `AlwaysSettled`
  (`SettledUnlessCutOff`) and `DeliveredIsCharged` (`ChargesDelivered`). `RequestInv`
  ties three places that know how far the stream is: what the wrapper counts is what was
  sent; what was saved is that plus the first item and the pending one; and the chunk
  under way is what makes an item pending. Where the coroutine waits says what its
  worker is inside of, but not when it was given up, which is why a settlement may still
  come from the worker alone.
* `ImageProofs` and `ImageQueueProofs`, about the page's queue with any number of
  conversations, turns, images, workers, loops and mounts. `QueueTyped`; `RunsAreHeld`
  (`OneRunEach`): a run has its conversation in `active` until its own last step, so no
  other loop begins one there. `DeletedIsGone` (`DeletedStayGone`) rests on three
  invariants: the mount on screen shows what is in memory (`MountsInv`), the history is
  read while nothing runs if the user waits for it (`HistoryInv`), and what was deleted
  is, in every copy that may still come back, taken out again by a later write
  (`DeletionsInv`, `StoreForgets`). `ShownIsInTheStore` (`ShownIsStored`): while the
  session lasts and no write fails, a conversation in memory is in the store as it is,
  or its last version is queued, or the loop that changed it is about to queue it
  (`SteadyInv`). `ImagesAreRequestedOnce` (`RequestedOnce`), in one session
  (`OneSession`), whatever is reloaded or not written: a turn that is queued where a
  loop that is on, or a submission being written, reads it was not requested yet. That
  needs `OnceInv`: the turn a run has taken is queued nowhere it could be taken again,
  but for the submission of an older copy that is written before the run's own save; and
  of the loops one at most is still draining. `StoreIsKept`: a write that ends replaces
  a conversation in the store by one with all its turns and finished images. That needs
  the order of the queue, whether earlier writes failed or not: what is written later,
  what is shown, and what a failed deletion would bring back, has what was written
  before (`FollowInv`); a conversation has each id of a turn once (`SoundInv`); and what
  a load recovers of the store is what its saves write (`RecoveryInv`). `OverIsOver`:
  late answers find their image loading, so what could begin a turn again is only a loop
  that reads it as queued. What is queued where a loop or a submission reads is, on the
  screen, not over either (`QueuedInv`), from `OnceInv` and `FollowInv`. Both are about
  steps, with the guards of the properties: `StoreIsKept` of a user who is `Patient`,
  `OverIsOver` in `OneSession`: a page that is left while a deletion is written shows,
  when it is opened again, what is being deleted, and a deletion that then fails brings
  an older copy back. `BothSides` takes all of this to the composition: `ImagesTyped`
  (`ImagesTypeOK`), `StoreAlwaysTrue` (`StoreIsTrue`), `RunsStaySingle`
  (`RunsAreSingle`) and `OutcomesLast` (`OutcomesStay`).

* `WebSessionProofs`, about any number of tabs and sign-ins. `CleanupAlwaysSparesOthers`
  (`CleanupSparesOthers`) and `AlwaysShowsWhatIsStored` (`ShowsWhatIsStored`), both
  about steps. The comparison of a refused key and the removal of the session are steps
  of their own, so the strengthening (`SessionAlways`) carries the one to the other: a
  thread that is to remove a session, for another reason than signing out or a read,
  remembers the session of its own key, or something has failed; and a thread that
  stores a session has one, so that storing never makes it disappear. `Outcome` says
  what the end of any thread may do to the tabs, and each step is shown to have one: of
  the stored session when it reads, of none otherwise.

* `PagesProofs`, about whatever is clicked, answered, lost and overtaken.
  `CodesAlwaysPayOnce` (`CodesPayOnce`), `DueAlwaysStaysOffered` (`DueStaysOffered`),
  `ImportsAreAlwaysFollowed` (`ImportsAreFollowed`), `RegisterAlwaysFollowsSwitch`
  (`RegisterFollowsSwitch`), `FormsAlwaysSaveTheirOwn` (`FormsSaveTheirOwn`),
  `PagesAlwaysSettle` (`PagesSettle`), `GalleryAlwaysFollowsSite` (`GalleryFollowsSite`)
  and the action property `ShownAlwaysStays` (`ShownStays`). The strengthening
  (`PagesAlways`) says of the page on screen what it needs, and that each step shows the
  same page or none; a page that was left needs nothing, but a registration goes on
  without its page. That codes pay once is not inductive: a registration checks its
  codes in one step and spends them in a later one, so the invariant says that one
  registration at most is in between, that it holds the lock, and that what it found is
  still so (`OneHolds`); and that a use of the promotion code belongs to one account
  (`PaidFor`), a used row to one account (`RowsAreUsed`). For the update card: of the
  update, the rollback and the restart one request each is under way at most, an update
  excludes the others, and a restart that is due has its button or an answer on its way
  that brings it; the one case that breaks this, a restart asked for during a rollback,
  is what `unclear` records. For imports: the interval in the ref is the only one, so
  that clearing it clears all. For forms: what a form was filled from is what it is sent
  to, in the page and in each request under way; one edit at most is under way, so its
  answer closes no dialog of another; and a dialog's browser holds accounts of its own
  connection only. For what is shown: while codes are on screen none are being
  generated, so no answer can replace them; and there is a draft only once the settings
  were loaded, so the first answer cannot overwrite one. For what waits (`WaitsInv`): an
  answer clears the flag of its request only, so where a flag stands for a set of
  requests there is one request of its kind at most (`FlagsSet`), and on the gallery,
  whose late answers clear nothing, the last listing is of the kind that its spinners
  show. For the gallery's list (`GalleryOK`): what a listing leaves out, of what it was
  to read, is newer than all of it or behind its cursor (`Read`, `Found`), which stays
  so while images go, newer ones come, and older ones are committed late, which are kept
  in `site.late` until a page that read them is shown; the answer that counts goes on
  where the page ends; and what was deleted is no longer there when the page hears of
  it. `ListPageFits` shows that a page's cursor is the oldest of a full page, from the
  cardinality of what is newer. For the previews: a URL is of one image only
  (`URLsDiffer`), so revoking those that left takes no other's.

The ledger's proofs assume that the codes are a finite set (`LedgerAssumption`): a sum
over infinitely many is not defined. Those of the image queue assume that null is no
conversation (`NoneIsNoConversation`), and those of the pages that null is no number, no
answer and no name of a request (`PageAssumption`, `CardAssumption`).

Only model-checked:

* all liveness, which this prover does not do.

## 5. Findings

1. `update_polled`: `list_recent` decides from jobs it has read that none is active and
   unlinks `.active.lock`, which may by then be the fresh lock of another request; two
   jobs become active. Two administrators alone, with no page listing jobs, can do the
   same with three jobs, because a request that finds an active job releases the lock by
   name.
2. `image_queue_unmounts`: the loop of a page that was left looks for turns in that
   page's ref, so a turn submitted after coming back is in the runtime and not in the
   ref: the loop finds the conversation active, finds nothing to start, and goes round,
   and no loop of the new page starts while it does.

### Known and not counted as findings

Behaviours met while modelling which no document contradicts. The properties are stated
around them.

*Site.* A response start that cannot be sent leaves a reservation to the recovery pass.
A Docker helper that dies after it wrote `status.json` leaves a job that no recovery can
end, because recovery writes `job.json` only and reading merges `status.json` over it:
updates are refused from then on. So they are by an active job that has lost its lock,
because the job could not be recorded in the lock file after it was written
(`RecordFails`), or because a listing or another request removed the lock and the
service then died: `create_if_idle` acquires the lock, finds the job, gives the lock
back and refuses, and never gets to the recovery of stale jobs, which only a request
that meets another's lock performs. `OrphanedJobsEnd` names both exceptions. An update
that awaits its restart and whose rollback fails at the second rename leaves the running
release under neither link. An account disabled while its image is made, or its state is
being fetched, may become limited by the answer, and the watcher then brings it back.
Signing in, out and in again within one second gives back the very token that was
revoked. A register machine started when its runner is past its last look is undone, or
left switched on with nobody working. The runners of two imports of one pool share its
job record; an edit of a connection marks its job failed while the runner goes on; an
exception of a runner leaves the job running until the next restart. A git push that the
remote rejects leaves a commit which a failed pull removes.

*Image queue.* Over two sessions an image can be requested twice: a loop still waits for
`loadQuota` of its turn, which may take 30 seconds, while its user signs out and in
again with the same key; the loop of the new page runs a turn of another conversation to
its end, and when one more is submitted there, the old loop, for which the runtime is
active again, enters that conversation and takes the first turn queued in the ref of its
own page, which is the one that is over. TLC finds such a run with two listed
conversations, three turns of one image, four events and `logout` as the only hazard
(`AskedOnce` is violated, which `RequestedOnce` is for one session); with the two turns
of `images` it cannot happen. With six events, a page that is left while a deletion is
written shows what is being deleted when it is opened again, and a deletion that then
fails brings an older copy back (what `Patient` excludes). Leaving or signing out before
a queued deletion is written shows the conversation again until a reload, and turns
submitted to it then are never stored. A save that fails leaves its turn generating
until a reload. A clearing that fails puts the old list back. Signing out cancels turns
in memory only.

*Session.* Comparing and removing the stored session are two steps, between which
another tab may sign in. A sign-in that is half written is damaged for another tab,
which clears it. A failing store signs out everybody. A delayed repair may leave a key
that is not the session's until the next read; a page may show one user while its
requests carry the key of another tab.

*Pages.* An image gets its creation time before its file is written and its row
committed (`save_user_image`), so of two saves at a time the older may be committed
after a page whose cursor has passed it was loaded: it stays out of the list until its
page is read again. `GalleryHasNoGaps` leaves these out (`site.late`), and TLC finds the
gap without that exception. An exception of the register machine's loop (a file that
cannot be written) ends its runner and leaves the switch on (`RunnerFails`); the next
start begins another. An older list answer replaces a newer one (all lists). A flag is
cleared by another item's answer, and a finished update closes another item's dialog.
The user edit form and the account edit form write absolute balances. A list answer
after a mutation ignores the search words. Enter redeems while a redeem is under way; a
history that cannot be loaded reports a redeem that succeeded as failed. A registration
whose answer is lost says the e-mail exists when retried. A failed poll of an import
ends the polling until the list changes; starting one restores the list from before the
request. Edits typed during a save of the register machine are lost; saves of whole
drafts overwrite another administrator's. "Remove problem accounts" deletes by what the
page believes; files read late ask for a confirmation after the import dialog was
closed. A due restart is forgotten when the page is left.

## 6. Plan

Done: the core (`QuotaLedger` with `CoinHolds`, `ImageRequest`, `UpdateJobs`,
`ReleaseSwitch`, `AccountPool`, `UserAccounts`), then the web application (`ImageQueue`,
`WebSession`, the page modules) and the compositions (`MCImages`, `UpdateRun`). Next, in
this order:

1. `OneRunEach` and `StoredIsKept` with larger instances of several sessions; what of
   `AskedOnce` survives a session that comes back.
2. `ImageCache`: eviction as a function, compared with its reference.

## 7. Not modelled

Listed with reasons in `PROJECT.json`: the sending of mail, the image cache (one
critical section), settings and the token secret (single writes under a lock), storage
back ends (the outcomes are those of git and of databases), what talks to remote
services and converts between public APIs, the call log, the presentation of the web
application (layout, lightbox, composer, lists that only show), installers and scripts.
The files `proxy-settings*.tsx` and `base-url-card.tsx` are used by nothing. In the
modelled pages, filters, search words, pagination, animation and wording are left out,
and so are the groups of Sub2API servers, the expiry of gallery files and codes, the
jumps of the gallery's lightbox, and the screen of a site that is closed for
registration.
