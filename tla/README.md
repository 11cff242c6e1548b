# magnetX in TLA+

magnetX is an iOS movie browser (Swift, RxSwift, Moya) for the Douban service.
The repository has no tests and few comments; what can go wrong in it happens
between callbacks: gestures, animations, blocks posted to the main queue,
network answers and a timer on a background queue. Under it lie vendored pods:
the object storage that keeps the pages, and WCDB, a SQLite with locks and a
write-ahead log of its own making. This directory models these parts, checks
them with TLC and proves the central invariants with TLAPS.

## 1. Inventory

| Part | Where (under `src/magnetX/`) | State | Operations | Hard behaviour |
|---|---|---|---|---|
| Hot feed | `magnetX/Classes/Hot` | `startIndex`, `sections` | refresh, more | answers out of order, cached page first, failures |
| Refresh controls | `Pods/MJRefresh` | `MJRefreshState` of header and footer | drag, release, draw, end | animations and posted blocks between gesture and callback |
| State tracking | `magnetX/Extension/Cocoa+Rx` | none | `trackState`, `HUD.state` | reports elements and errors, ends the control |
| Network layer | `magnetX/Network`, `magnetX/Target`, `Pods/RxSwiftX` | none | `requestWithResult`, `mapResult`, `storeCachedObject` | cached object then answer, swallowed errors |
| Progress HUD | `magnetX/Vendor/UI/KRProgressHUD`, `HUD.swift` | visibility, windows, `dismissHandler`, layout | show, dismiss, tap | two-block show, one-block dismiss, work item on a global queue without a lock |
| Network indicator | `NetworkIndicatorPlugin.swift`, `MoyaProvider+Internal.swift` | `numberOfRequests` | willSend, didReceive | counter read when a posted block runs, cancelled requests |
| Object storage | `Pods/Cache/Source/Shared` | NSCache, key set, files, a configured expiry for each level | entry, set, remove, remove all, expire | memory and disk diverge: failing steps, dates made apart, eviction, trimming, restart |
| WCDB file locks | `Pods/WCDB.swift/sqlcipher/src/os_unix.c`, `os_wcdb.c`, `queue.c` | lock of a handle, record of a process, POSIX locks, queue of waiting threads | lock, unlock, open, close, wait, signal | processes between system calls, handles of one process, time-outs, crashes |
| WCDB write-ahead log | `Pods/WCDB.swift/sqlcipher/src/wal.c` | log, wal-index, database file | read, write, checkpoint, recover | snapshots under writers and checkpoints, crash and power loss |
| WCDB, the rest | `Pods/WCDB.swift` | | SQL | vendored; no source of the application imports it |
| Movie detail | `magnetX/Classes/MovieDetail` | sections, expanded cell | load, expand, scroll | cached detail then answer, state kept in cells |
| Decoding | `magnetX/Vendor/CleanJSON` | none | decode | defaults for what is missing: an error body decodes as an empty page |
| Router | `magnetX/Vendor/Router` | navigation stack; routes are static types, nothing is registered | open, push, present | a `Routable` that is no view controller, or a push without a navigation controller, is fatal (`Router.swift:71`, `:80`) |
| Web container | `magnetX/Vendor/UI/WebViewContainer` | progress, error page, buttons | load, navigation callbacks | failed provisional navigation |
| Star rating | `magnetX/Vendor/UI/SwiftyStarRatingView` | value | set, touch, draw | clamping and rounding at the ends |
| Main screens, tab bar, stub tabs, style extensions | `magnetX/Classes/Main`, `Extension` | none of interest | | |
| Other third-party pods | `Pods/` | | | vendored |

How they interact. `HotChildViewController.bindViewModel` connects the header's
and the footer's callbacks to `HotMovieViewModel.transform`; the view model asks
the network layer, which reads and writes the object storage; `trackState`
reports each element or error, `isRefreshing` turns that into `endRefreshing`,
which posts a block. The HUD is a singleton behind the `HUD` facade and
`HUD.state`. All of this runs on the main thread, except the HUD's work item and
the storage's own queues. WCDB is linked (`Podfile`) but not called by the
application yet: its locks and log are modelled as the code that any use of it
will meet, from the calls its Swift interface makes (`Database.swift:399-458`:
journal mode WAL, synchronous NORMAL, checkpoints on a queue of its own). The two tabs of the Hot screen are independent
instances of the feed.

What makes each part correct:

- Feed: a spinner has a cause and stops; load-mores do not overlap; the page on
  the screen is the page stored; for a careful user on a working network the list
  is a paged list without gaps, repetitions or older pages.
- HUD: the application gets its key window back; messages end; no timer is left
  that nothing can cancel; a dismissal hides.
- Indicator: visible exactly when requests are running, once the queue is empty.
- Storage: memory and disk hold the same objects, a file outlives its entry in memory,
  the key set covers the cache, a call that succeeds has done what it is for, and what
  was replaced does not come back.
- File locks: handles of all processes exclude each other as the five lock levels
  promise; the record a process keeps agrees with its handles and is backed by the
  locks the system has; nobody sleeps without an entry in the queue.
- Log: a transaction reads one snapshot; a checkpoint does not overtake a reader;
  what was published survives the process, what was synced survives the machine.
- Decoding, rating: defaults and clamping agree with their declarations.

## 2. Modules

| Module | Models | Extends / uses |
|---|---|---|
| `HotFeed` | one tab of the Hot screen: controls, view model, requests, cached page | |
| `PagedFeed` | abstract: what a paged list promises its reader | |
| `MCHotFeed` | `HotFeed` for TLC, refinement mapping, continuity of the index | `HotFeed`, `PagedFeed` |
| `HotFeedProofs` | theorems about `HotFeed`, and that it implements `PagedFeed` | `MCHotFeed` |
| `ProgressHUD` | KRProgressHUD: show, dismiss, timer, fades, windows | |
| `ProgressHUDProofs` | theorems about `ProgressHUD` | `ProgressHUD` |
| `HybridStorage` | the object storage of the Cache pod | |
| `MCHybridStorage` | `HybridStorage` for TLC: two sizes, expiries, symmetry of keys | `HybridStorage` |
| `HybridStorageProofs` | theorems about `HybridStorage`: types, key set, objects and dates of memory and disk | `HybridStorage` |
| `HybridStorageCallsProofs` | theorems about its calls: what success means, what does not come back | `HybridStorageProofs` |
| `LockLevels` | the five lock levels | |
| `FileLock` | abstract: what the locks of a database file promise | `LockLevels` |
| `UnixLocks` | locks in several processes, and the queue of waiting threads | `LockLevels`, instance of `FileLock` |
| `MCUnixLocks` | `UnixLocks` for TLC: an application and an extension | `UnixLocks` |
| `UnixLocksProofs` | theorems about the locks, and that they implement `FileLock` | `UnixLocks` |
| `UnixLocksQueueProofs` | theorems about the queue of waiting threads | `UnixLocksProofs` |
| `Wal` | the write-ahead log: readers, writers, checkpoints, recovery | |
| `MCWal` | `Wal` for TLC: two connections | `Wal` |
| `WalProofs` | a theorem about `Wal`: no reader is overtaken | `Wal` |
| `WalSnapshotProofs` | theorems about `Wal`: types, one snapshot, nothing lost | `WalProofs` |

### HotFeed and the code

| TLA+ | Code |
|---|---|
| `state` | `MJRefreshComponent.state` of header and footer |
| `animating` | animations of `setState:` (header 129, footer 114) whose completion has not run |
| `mainQueue` | blocks of `dispatch_async(dispatch_get_main_queue())`: the header's animation, `executeRefreshingCallback`, `endRefreshing` |
| `startIndex`, `sections` | `HotMovieViewModel.startIndex`, `.sections` |
| `cache` | the stored object for `start = 0` (`Network.storage`) |
| `refreshes`, `more` | inner subscriptions of `flatMap`, of `flatMapLatest` |
| `pulls`, `issued` | none: they bound and number |

`Drag`, `DragBack`, `ReleaseHeader` and `ReleaseFooter` are
`scrollViewContentOffsetDidChange:` of the two controls with their guards.
`Draw` is `drawRect:` of a header asked to refresh in `viewDidLoad` before it was
on screen. `RunAnimate`, `AnimationEnds`, `RunRefresh`, `RunMore` and `RunEnd` are
the posted blocks and completions between a gesture and its callback.
`RunRefresh` is the whole synchronous chain of the header's callback: reset of
`startIndex`, the request, and, with a cached page, its delivery, the new
`sections` and the end posted to the header. The four answers cover every
result of a request. A `status_code` other than 0, a body that is no JSON, a network
error and the 15 s timeout are one failure, since the code treats them alike. An
error body without `status_code` is not among them: the decoding defaults make it
status 0 without subjects (`CleanJSON.swift`, `Network+Rx.swift:38-46`), so it is a
success with an empty page, and for `start = 0` it replaces the stored one.
A row is abstracted to the request that fetched its page (`[id, start]`), and such a
page may be an empty one: no property looks at how many rows it has. The empty section
of a failed request is `None`.

The animation of setting a control to Idle, insets, titles, and the setNeedsLayout
block of `setState:` are left out: nothing the properties mention depends on them.
An answer may come between any two blocks, a wider choice than the main run loop
gives.

### ProgressHUD and the code

| TLA+ | Code |
|---|---|
| `mainQueue` | the block of `show` (`prepare`), the block that one posts (`reveal`), the block of `dismiss` (`fadeOut`) |
| `fades` | fade-out animations whose completion has not run |
| `visible`, `appWindow`, `dismissHandler` | the fields of the same name |
| `keyWindow` | `UIApplication.shared.keyWindow` |
| `layout` | what `updateLayouts` laid out: spinner, message, or a spinner stopped since |
| `items`, `held` | each `DispatchWorkItem` and its progress through lines 146, 138 and 139-141 |
| `calls`, `lastCall` | none: bound and history |

Three facts about the platform are used. A deadline of now makes `asyncAfter` a
plain `async`; `cancelCurrentDismissHandler` always answers true (there is no
handler, or it has just been cancelled), so the delay of `fadeTime` is never
taken. `DispatchWorkItem.cancel` stops an item that has not begun and no other.
An animation with nothing to animate, such as fading what is hidden, completes
at once. Otherwise durations are abstracted: a fade may end, and an armed item
may begin, at any later moment.

`Preempted = FALSE` makes the three statements of a work item one step as far as
others can see; `Preempted = TRUE` lets the main thread run between them, which
nothing in the code prevents. `Spaced = TRUE` admits a call only when the main
queue is empty and no fade runs.

`showOn` has no caller in the app and is left out, and so are colours, fonts,
offsets and which icon a message has.

### HybridStorage and the code

| TLA+ | Code |
|---|---|
| `memory`, `keys` | `MemoryStorage.cache`, `.keys` |
| `disk` | the files of `DiskStorage.path`: contents, and the modification date, which is the expiry |
| `dir` | whether that directory exists |
| `call` | the call a serial queue is running: arguments, the expiry asked for among them, next step, the date it has read, what an expiry has listed |
| `now` | the clock |
| `torn` | none: keys of which a step on disk has failed since they were last written whole |

A call is split where it touches memory, the key set or the file system, so that
eviction, the clock, the end of the program and the calls of the other interface
come between. Each step on disk may fail: `createFile` reports that to nobody
(`DiskStorage.swift:72`), all others end the call. The set of keys is not
protected, so two updates at once leave anything; that case needs two interfaces.
The loop over the keys in `MemoryStorage.removeExpiredObjects` is one step:
nothing but eviction can come between its iterations when one interface is used,
and an eviction there is as well placed before or after.

An expiry is `.never`, a number of seconds or a date (`Expiry.swift:6-12`), and the two
levels make a date of it apart. `MemoryDate` is `expiry?.date ?? config.expiry.date` with
the configuration of the memory (`MemoryStorage.swift:40`), looked up when the entry is
made; `DiskDate` is the same with the configuration of the disk
(`DiskStorage.swift:69`), looked up when the file is given its date (`:73`), so that an
expiry in seconds is counted from a later moment there. A lookup puts the date of the
file back into memory (`HybridStorage.swift:21`). The dates of the levels therefore need
not agree, and `Coherent` is about objects only; what holds of the dates is
`FileOutlives`, for configurations that put memory first (`MemoryFirst`), such as those of the
pod's README (two minutes in memory, two hours on disk, lines 115-142) and of the
application (`.never` for both). `.never` is a date in 2038, here one after the end of
the clock, as is every date the clock does not reach.

### UnixLocks and the code

| TLA+ | Code |
|---|---|
| `fileLock`, `isOpen` | `unixFile.eFileLock`, whether the handle is open |
| `inode` | `unixInodeInfo` of each process: `eFileLock`, `nShared`, `nLock`, length of `pUnused` |
| `posix` | the `fcntl` locks of each process on the pending byte, the reserved byte and the shared range |
| `queue` | `qWaitQueue`; `freed` marks an entry whose handle has been closed |
| `pc`, `target` | where a thread is in `unixLock` or `posixUnlock`, and the level it unlocks to |
| `op`, `hot` | what the caller is doing: `sqlite3BtreeBeginTrans`, `pager_wait_on_lock`, rollback of a hot journal |
| `late` | none: the processes in which a wait has timed out |

Every `fcntl` is a step. The VFS mutex keeps the other handles of the process out
of `unixLock` and `posixUnlock`; `Leave` is the assignment after the mutex has
been left. `posixUnlock` to NO_LOCK and to SHARED are the paths of the code;
`unixFileLock` failing for a reason other than a conflict, as the code itself says
of a downgrade, does not happen. What becomes of a BUSY is taken from the three
callers: the busy handler always answers 1 (`main.c:1484`), so reads, writes and
commits are tried again; an upgrade ends. `Fail` is the error of a write or of a
rollback, after which `pager_unlock` drops every lock at once.

`FileLock` says what all this is for. Its one concession to the code: while
somebody waits with PENDING, a handle may still start to read beside a reader of
the same process, which `unixLock` allows by counting (1629-1642).

### Wal and the code

| TLA+ | Code |
|---|---|
| `shm` | the wal-index: header, page of each frame, `nBackfill`, `aReadMark` |
| `log`, `db` | the two files; of a frame: page, transaction, frame it follows, salt, commit mark |
| `safe` | what a power loss may leave of each frame and page: every version since the last sync |
| `own`, `slot`, `min` | `Wal.hdr`, `.readLock`, `.minFrame` |
| `mark` | local `mxReadMark` of `walTryBeginRead` |
| `writer`, `ckpt`, `todo` | holder of WAL_WRITE_LOCK; of WAL_CKPT_LOCK, with the progress of `walCheckpoint`; pages of the writer |
| `commits`, `base`, `kept` | none: history the properties compare with |

A step is what happens between two accesses to what others share: the header is
read, the slot chosen, locked and confirmed in separate steps; a checkpoint reads
the header, builds its iterator, passes each slot, copies each page and sets
`nBackfill` in separate steps. The checksum of a frame covers the frames before it,
so a frame keeps which transaction wrote its predecessor, and `Follows` is
`walDecodeFrame`. Locks of the wal-index are taken as atomic, which
`unixShmLock` makes them by its own mutex and one `fcntl`; handles are those of one
process, which ends as a whole.

## 3. Runs

| Run | Specification | Shows |
|---|---|---|
| `feed_safety` | `Spec`, 4 pulls, network faults | `TypeOK`, `SpinnerHasCause`, `LoadMoreExclusive`, `TopIsCached` hold |
| `feed_live` | `FairSpec`, 3 pulls, network and storage faults | `SpinnerStops`, `FirstPageArrives` hold |
| `feed_patient` | `Spec`, 5 pulls, a patient user, no faults | `HotFeed` implements `PagedFeed` |
| `feed_gap` | `Spec`, a patient user, network faults | `ContinuesIndexing` is violated |
| `hud_calls` | `Spec`, 3 calls at any time | `TypeOK`, `WindowRestored`, `MessageHasEnd` hold |
| `hud_spaced` | `FairSpec`, 4 spaced calls | `OnlyLoadingRemains`, `ArmedIsRegistered`, `MessageEnds` hold |
| `hud_dismiss` | `Spec`, 3 calls at any time | `DismissHides` is violated |
| `hud_preempted` | `Spec`, 3 calls, interrupted work items | `MessageHasEnd` is violated |
| `storage` | `Spec`, 2 keys, one interface | `TypeOK`, `Coherent`, `FileOutlives`, `KeysCover`, `OkMeansDone`, `NothingResurfaces` hold |
| `unix_locks` | `Spec`, 3 handles of one process, 1 of another | `TypeOK`, `InodeAgrees`, `LockBacked`, `SleepersQueued`, `HeadWaits`, `WokenWhenUnlocked` hold, and `UnixLocks` implements `FileLock` |
| `wal` | `Spec`, 2 connections, a crash or power loss | `TypeOK`, `Snapshot`, `NothingLost`, `NotOvertaken` hold |
| `wal_passive` | `Spec`, PASSIVE checkpoints of another connection | `Snapshot` is violated |

Bounds. Four pulls allow two refreshes and two load-mores to overlap in every
order, with the first refresh answered before, between and after them and with
an older page in the cache or not; three are enough for liveness, which needs one
refresh overtaken by another and a load-more. Page size is the program's 20; the
proofs hold for any. Three HUD calls are a show, a second one that
meets the first one's timer or fade, and a third that meets both; four are used
where calls are spaced and so overlap less.

Storage: two keys make one call trim while another key expires; the larger
object alone is over the limit of 4, two small ones are under half of it. The
clock takes two values, so that entries are fresh, expired or never to expire. Callers
ask for no expiry, for `.never`, for a second or for a date; memory is configured for a
second and the disk for ever, so that a call without an expiry, and one in seconds that
the clock overtakes, date the levels differently. With a clock of three values
(a larger instance, not kept) TLC finds nothing either. Excepted from `Coherent`,
`FileOutlives` and what `OkMeansDone` says of a set are keys of which a disk step has
failed (`torn`), until they are written whole or removed: for them the code promises
nothing.
Locks: two writers and a main-thread reader in one process, a reader in another,
are the least for a process that shares, one that closes while locked, a waiter
behind another in the queue, and a PENDING lock of one process between readers of
the other; one entry may be left in a queue by a timeout. Log: two pages in two frames,
two transactions and one marked slot let the log be filled, copied in part and begun anew under a
reader; every crash point is reached with one crash. The other instance needs a
single page. With both connections in every role and checkpoints FULL and
TRUNCATE (a larger instance, not kept as a run) TLC found no violation either.

Fairness. The main loop drains its queue (weak fairness of the step that runs the
oldest block), animations complete, a view in a window is drawn, and a request is
answered, if only by its timeout (`NetworkService.swift:15`). For the HUD, blocks
run, fades end and armed items begin and finish. The user owes nothing: gestures
and calls have no fairness. Storage, locks and log are checked for safety only:
nothing fair decides which thread or process gets a lock, and the busy handler
that never gives up makes a wait for another process a busy loop.

Deadlock is checked in every run. In the feed the user can always drag again. A finished behaviour of the HUD takes the explicit stuttering step
`AllOver`. In the log a reader can always begin again; the bounds on frames and
transactions end writes, not reads.

### Findings

1. `startIndex` moves on before the load-more is sent and is not moved back when
   it fails (`HotViewModel.swift:61`): the next load-more skips the 20 rows that failed,
   although the target continues indexing "from position startIndex"
   (`MoviesTarget.swift:11`). Run `feed_gap`.
2. A `dismiss` called right after a `show` is overtaken by the show's second block
   and the overlay stays (`InnerKRProgressHUD.swift:82`), although `dismiss`
   "Hides the HUD." (`KRProgressHUD.swift:364`). Run `hud_dismiss`.
3. A work item that is interrupted after posting its dismissal cancels the timer
   of the message shown meanwhile, which then never leaves
   (`InnerKRProgressHUD.swift:147`), although a message is dismissed "after 1
   secound" (`KRProgressHUD.swift:346`). Run `hud_preempted`. The shortest
   counterexample TLC prints lets a fade end early; the same end is reached
   with realistic times: the item posts its dismissal and is descheduled, the
   overlay fades out and is hidden, the next message is shown and arms its item,
   and the first item, resumed, reads and cancels that one.
4. A PASSIVE checkpoint copies the header of the wal-index without the writer's
   lock and compares `nBackfill` with that copy (`wal.c:1749`). If a writer has
   begun the log anew in between, the old `mxFrame` looks like work to do, and
   frames of the new log, committed or not, are copied as if they were those of the old
   one, or `nBackfill` passes what has been copied. A snapshot is then not "a
   consistent snapshot of the database from a single point in time"
   (`wal.c:113-115`). Run `wal_passive`; WCDB checkpoints this way on a queue of
   its own (`Database.swift:442-458`). In run `wal` the PASSIVE checkpoints are the
   writer's own connection's and the other's mode takes the writer's lock: there the
   snapshots hold.

Seen while modelling and stated by no text of the repository, so not findings:
refreshes answered out of order show the older page; a load-more answered after
a refresh has begun is appended to the fresh list; a failed refresh wipes rows
already shown; two shows in one turn of the main loop forget the first
timer; a fade's completion stops the spinner of a show already prepared;
a program that ends between `createFile` and `setAttributes` leaves a file that counts as expired; when
`removeAll` fails to make the directory again nothing is stored on disk until the
next launch; trimming removes the files that expire last first; a thread that timed
out leaves an entry on which a later signal is spent, and two such entries in one
process can leave a sleeper at the head of the queue whom nothing keeps from its
lock: one stands in the way of `TrySignal`, a clash takes the other from the head
(`os_wcdb.c:103-134`); the unlock of another handle wakes it in the end, which is
`WokenWhenUnlocked`, while `HeadWaits` is stated for processes that have had no
time-out, and `late` remembers which have; a committing thread may wait
ten seconds behind another's entry at the head of the queue; `pager_wait_on_lock`
clears the wait flag `sqlite3BtreeBeginTrans` has set (`pager.c:3853`), so that only
the first lock of a write waits in the queue. Two interfaces of the storage used at
once do break `Coherent` (the queues of `Storage.swift:35-41` are two), although
the pod calls itself thread safe; the application uses one.

## 4. Proofs

Every theorem holds for all values of the constants. Assumptions are those on the
constants, stated in the modules: `Step` a positive number, `MaxPulls` and
`MaxCalls` naturals, the switches Booleans; for the storage, finitely many keys,
that the stand-ins for absent values are no keys, objects or expiries, that what callers
ask for and what is configured are expiries, and that sizes, limit and clock are naturals; for the locks, finitely many handles, each with a process; for the log, finitely many
connections, which of them read, write and checkpoint, and that the bounds are naturals. A theorem that needs more says so in
its hypotheses, and each such hypothesis is one under which a run checks the same
property. Where an invariant had to be strengthened, TLC checked the strengthened
one on the instance of the run before it was proved.

### The feed

`HotFeedProofs`, for every user and every set of faults:

- `TypeCorrect`: `Spec => []TypeOK`.
- `SpinnerAlwaysHasCause`: `Spec => []SpinnerHasCause`. Whatever takes away the
  header's last cause (the callback turns into a request, the answer into a
  posted end) puts another one in place, and the end block itself sets Idle.
- `LoadMoresExclude`: `Spec => []LoadMoreExclusive`, inductive by itself given
  types: the footer's block, animation and request exclude each other. The lemmas
  `WaitingAppend`, `WaitingTail` and their like say how the footer's places in
  the queue move when a block is posted or run.
- `TopAlwaysCached`: `Spec => []TopIsCached`. A first section that is a page 0 came
  from the cache or from an answer stored in the same step; load-mores never
  start at 0 (types), so none can become such a first section.

and for a patient user and no faults:

- `Refinement`: `Spec => RefinesPagedFeed`. Such a feed does one thing at a time.
  `OneThing` lists what that can be (undrawn, at rest, the header's or the footer's
  turn between gesture and callback, a first or a next page being fetched), with
  the queue, the animations, the requests and the count of requests in each case;
  `ListOk` adds that the list begins with the cached page, that `startIndex` is
  where its last page starts, and that no page has a greater number than the last request.
  A gesture is then only possible at rest (`TouchedAtRest`), and each answer is a
  `Refresh` or a `LoadMore` of `PagedFeed`. Run `feed_gap` shows that a network that
  fails breaks the order of the pages.

### The HUD

`ProgressHUDProofs`, for every number of calls:

- `TypeCorrect` and `WindowAlwaysRestored`, on any schedule of threads and calls:
  proved together, since that `appWindow` is only ever the application's window
  depends on attaching only an overlay that is not on the screen.
- `MessageAlwaysHasEnd`, assuming `~Preempted`. `MessageHasEnd` alone is not
  inductive: a loading overlay's reveal could leave a message laid out with
  nothing ahead. `MessageInductive` adds that a laid-out message belongs to the
  last reveal in the queue, and that a work item under way has its dismissal
  still in the queue. `hud_preempted` shows that the assumption is needed.
- `ArmedAlwaysRegistered`, assuming `Spaced` and `~Preempted`. `TimerInductive` adds
  that at most one show is in the queue, that nothing is registered while it waits
  to reveal, and that at most one item is under way, holding what is registered.
- `OnlyLoadingEverRemains`, assuming the same. `RemainInductive` adds that each block
  of a show in the queue is one of the last call, and that an overlay of a message
  has an armed timer, a fade or a block ahead of it.

### The object storage

`HybridStorageProofs`, for all keys, objects, sizes and limits:

- `TypeCorrect`: `Spec => []TypeOK`, for any number of interfaces, by `Typed`: types,
  and that a call under way has the key and object its step needs.
- `KeySetCoversCache`: `OneQueue` implies `Spec => []KeysCover`. An entry put into the
  cache is missing from the set exactly while its call stands before the set;
  `OneQueue` (one interface) rules out a second update at that moment.
- `ObjectsAgree`: `OneQueue` implies `Spec => []Coherent`, and `FilesOutlive`: `OneQueue`
  and `MemoryFirst` imply `Spec => []FileOutlives`. Both follow from `Agreed`, since neither
  is inductive: a lookup reads contents and date before it puts them back, and a
  `setObject` makes its two dates at different steps. `Knows` adds that what a lookup has read
  so far is what its file holds and that memory has no entry of the key meanwhile, and
  that a `setObject` between its steps has its own object in the file and in memory, there
  with a date made at some moment until now (`DatedBy`). When the file is dated, that
  moment is past, so the date of the file is no earlier (`MemoryDateFirst`): dates do not
  go back (`DateOfGrows`), and without an expiry `MemoryFirst` compares the two
  configurations. The theorems say nothing of two interfaces, and `FilesOutlive` nothing of
  a configuration that keeps memory longer than the disk; with those an entry does outlive
  its file.

`HybridStorageCallsProofs`, again through one interface:

- `ReplacedStaysGone`: `Spec => NothingResurfaces`, an action property, from the
  invariant of `ObjectsAgree`: what a lookup sets back is what its file
  holds, so no step makes another object visible than the one a `setObject` brings.
- `SuccessMeansDone`: `Spec => []OkMeansDone`, by `Done`. What it says of a call that
  reports success: a set has left its object on disk under the date the expiry had at some
  moment of the call, unless `createFile` failed, which `setObject` does not notice; what
  was removed is in neither level; an expiry leaves nothing that had expired when it
  began, and files within the limit, within half of it if a file that has not
  expired had to go. `Did` says what a call that sets
  or removes has done by each of its steps, and that it is not undone; `Listed` that
  the files there are are those an expiry has listed and not deleted, and that those it
  may trim had not expired; `Expires` that nothing in memory had expired when the
  expiry began, once its first step is done, and what is left when each loop ends; `Kept` says that
  until trimming begins no file that has not expired has gone, and `WithinHalf` what is
  left when it ends. That the cache holds nothing expired when the call ends needs
  `KeysCover`, since the pod walks the key set and not the cache. That the files left
  fit into the limit needs sums: `SumFunctionOnSet` is defined by recursion, and
  that it is a natural number, zero on the empty set, and depends only on the values
  it adds is proved from its definition by a smallest counterexample among the
  subsets of a finite set.

### The file locks

`UnixLocksProofs`, for any handles, processes and number of stale entries:

- `TypeCorrect`, `RecordsAgree` (`InodeAgrees`), `LocksBacked` (`LockBacked`) and
  `LocksCompatible` (`Compatible`): within a process at most one handle is above SHARED;
  over all processes at most one is RESERVED, at most one PENDING or EXCLUSIVE, and
  beside one that is EXCLUSIVE no other has a lock. It does not say that one handle at most
  is above SHARED in all processes, which is not so: a handle may take RESERVED while one of
  another process has PENDING on its way to EXCLUSIVE for the rollback of a hot journal,
  for which it never takes RESERVED (`os_unix.c:1537-1750`). They are proved together, by `IInv`.
  None is inductive alone: whether a handle may take a level follows from the record of
  its process and from what `fcntl` answered some steps before. For each handle,
  `IInv` says what holds at each of its program counters: what it has locked so far
  (`Mine`), that it is the one in the mutex (`Inside`), and that its process has the
  POSIX locks its level needs (`Backed`); for each process, that one handle is inside
  the mutex at most (`MutexOne`), that one at most is above SHARED (`AboveOne`) and that
  the record counts and tops its handles (`Counts`, `Tops`), each taken at the level it
  is counted at, which is not its `eFileLock` while that is still to be written after the
  mutex; and that the POSIX locks of two processes exclude each other (`Exclusion`), as
  the system sees to it.
- `Refinement`: `Spec => RefinesFileLock`. Each action leaves the levels alone, raises
  one handle's, lowers it, shares in a lock its process has, or is the end of a
  process; each of these is a step of `FileLock`, by `IInv`.

`UnixLocksQueueProofs`:

- `SleepersStayQueued`: `Spec => []SleepersQueued`, with `AllOwned`: the entries of a
  queue are of handles of its process, so that only a step of that process takes
  them. Every step takes entries from the head and wakes whose they are, or adds the
  handle's own (`Signalled`, `Enqueued`).
- `NobodyLeftAsleep`: `Spec => []WokenWhenUnlocked`, for any number of stale entries: the
  last reader's signal goes on until it finds somebody who sleeps.
- `HeadAlwaysWaits`: `Spec => []HeadWaits`. `AllOrderly` says, for each process without a
  time-out, that each entry is of a sleeping thread, one for each, of which only the one
  with PENDING waits for EXCLUSIVE (`Tidy`), and that the head waits for what it cannot
  have unless a handle stands between the two halves of an unlock (`HeadHeld`).

### The log

`WalProofs`:

- `NeverOvertaken`: `OwnPassive` implies `Spec => []NotOvertaken`. `OwnPassive` says that
  a connection asked for PASSIVE checkpoints is the only one that writes; it is
  what run `wal` has and `wal_passive` has not, and finding 4 is what happens
  without it. WCDB's default checkpoint queue, a connection of its own beside those that
  write (`Database.swift:442-458`), does not satisfy it: the theorems about the log do not
  cover that set-up. The invariant says what the writer's copy of the header and a
  checkpoint's have to do with the published one: `Writing` (the writer's is
  current), `Backfilling` (a checkpoint works on a header that cannot be replaced
  meanwhile, or lies in a log that cannot be begun anew), `Protected` (for each
  reader with a slot, the slot's mark is its own and no higher than its snapshot, and a
  checkpoint that has passed the slot copies no further than that), `Alone` (who begins the log anew
  has all marked slots), `BackfillsHdr` (`nBackfill` does not pass the published
  end), and `Invalid` (after a crash there is nobody).

`WalSnapshotProofs`, under the same assumption:

- `SnapshotHolds` (`Snapshot`), `NothingIsLost` (`NothingLost`) and `TypesHold`
  (`TypeOK`), by `DataInv`, which is inductive together with the invariant of
  `WalProofs`. Not even the types are inductive alone: that the number of commits a
  header stands for stays in its range depends on recovery finding the commit of the
  last frame it accepts.
  `FilesOk` is about the files, and speaks of everything a power loss may leave of them:
  `Outcome(g, k, salt)` is a log to frame `k` that could be left and that recovery would
  accept as far as the chain goes, and `Genuine` says that if such a log ends in a
  commit mark, its frames and the database it was begun on are the contents of one of
  the commits (`Holds`). `Versions` (no two versions of a frame are of one transaction,
  transactions rise along a chain) makes a chain unique by its last frame
  (`ChainUnique`), so that adding one frame to what may be left adds logs that end in it
  and no others. `Paged` says that a page of the database that is not as the log found it,
  torn ones included, has a synced frame below a synced commit mark, so that recovery
  hides it: a checkpoint syncs the log before it copies.
  `Stable(safe.at)` and `Lost` say that what has been synced, or was published when
  the process ended, is there to be recovered; `NothingLost` follows when `Recover` takes
  the last commit mark.
  `IndexOk` ties the wal-index to the files: `Published` (the header ends the log in
  the commit it stands for, or begins a log whose salt no commit mark has, `Dead`), `DbOk`
  (the database has what is backfilled, synced when that is all), `WriterOk` (the frames
  of the transaction so far), `CopierOk` (the frames still to copy are the last of
  their pages, and those already copied are in the database) and
  `ReaderOk`, with `SnapOk`: what a transaction reads in the log is its snapshot, and so
  is the database for the pages it does not read there. `SnapOk` survives a checkpoint by
  `NotOvertaken`, and a new log because no slot is in use then.

### Only model-checked

The liveness properties (`SpinnerStops`, `FirstPageArrives`, `MessageEnds`) are out of
reach of the prover. Every invariant, action property and refinement that a passing
run checks is proved, under the hypotheses named above.

## 5. Not modelled, and why

Drawing, layout and styling (content insets included), the contents of rows, and
static set-up (`AppDelegate`, tab bar, stub tabs): nothing in them can go wrong
between two steps. Of the third-party pods, everything but the parts named above.

Nearly all lines of C under `src/` are SQLite's SQL engine, B-tree, full text
search and shell (`fts5.c`, `vdbe.c`, `btree.c`, `where.c` and others, some 200,000
lines) which no source of the application calls. They are sequential data structures
and compilers whose correctness is a matter of data, beyond bounded models of
useful size; the locks and the log, where processes, threads and crashes meet, are
the part a model checker reaches, and are modelled.

Of `UnixLocks`: `unixShmLock` and WCDB's queue for it, locking styles other than POSIX,
system calls that fail for other reasons than a conflict, rollback journals (only
that one may be hot). Of `Wal`: transactions that spill before they commit,
savepoints, closing and its checkpoint, `exclusiveMode`, file sizes, a failing
`walIndexAppend`, giving up after 100 retries; a truncated log is taken as durable.
FULL and RESTART checkpoints take part of the steps of TRUNCATE, and the kept run
has PASSIVE and TRUNCATE.

Network indicator, movie detail, decoding, router, web container and star rating
are described in section 1 and not modelled; they are sequential or small, and the
plan below keeps them.

## 6. Plan

Done, in this order: feed, its abstract specification, HUD, their proofs; object
storage with its proofs; file locks with their abstract specification; log. What
is left:

1. `RequestIndicator`: life of a Moya request, cancellation, the plugin's counter
   and its posted blocks. The indicator must agree with the counter when the
   queue is empty.
2. `WebContainer` and `Router`: navigation callbacks, progress, buttons; routes.
3. `MovieDetail` and decoding: cached detail then answer, expanded cell; decoding
   defaults and star rating as operators against reference definitions.
4. Proofs: the half of `NotOvertaken` about salts without `OwnPassive`.
5. `unixShmLock` under `Wal`, with connections of several processes.
