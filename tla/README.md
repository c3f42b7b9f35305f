# A TLA+ model of WaterfallViewer

WaterfallViewer is a desktop media browser: a TypeScript application in a
WebView (scheduling, layout, rendering) over a Rust backend (scanning, media
resources, thumbnails, metadata) behind Tauri commands. This directory models
the parts in which several actors share state and the algorithms whose inputs
are hard to exhaust by example, checks them with TLC on small instances, and
proves most of the safety properties with TLAPS for all instances.

`PROJECT.json` lists the components, the runs, the theorems, the hazards and,
for every definition, the source lines it stands for.

## 1. Inventory

How the parts talk to each other:

    ViewerPage / controllers --requestThumbnail, release--> RepresentationScheduler
    RepresentationScheduler --invoke request/cancel/release--> representation.rs
    representation.rs --> ThumbnailRequestRegistry, MediaResourceRegistry,
                          ThumbnailGenerator, ThumbnailCacheManager, disk
    MediaSessionController --invoke start_scan/cancel_scan--> scan.rs
    scan.rs --> LocalFilesystemScanner, MediaResourceRegistry
    LocalFilesystemScanner --> CachingVisualMetadataReader --> header and video readers
    CachingVisualMetadataReader --> SqliteVisualMetadataCache (memory, queue, writer, table)
    scan.rs --channel of events--> MediaSessionController --> MediaIndex
    MediaIndex --> flow models, canvas scene --> browser controllers
    MediaIndex --> MediaActivationController --> PreviewMediaDetailController
    PreviewMediaDetailController --invoke get_media_detail--> detail.rs --> detail readers
    WebView --media protocol--> media_resource.rs --> the bytes of files and thumbnails
    canvas controller --update--> PixiCanvasRenderer --acquire/release--> AssetLeasePool

| component (source) | state | operations | what is hard | what makes it correct |
|---|---|---|---|---|
| RepresentationScheduler (`representationScheduler.ts`) | jobs by key, heap with outdated entries, running count, lease groups | requestThumbnail, abort, answer, release | joins and upgrades, orphaned calls answered late, repeated releases | slots accounted for and never idle; every request settles; one call per key; registrations = leases |
| ThumbnailRequestRegistry (`thumbnail_request.rs`) | active tokens, tombstones of early cancellations | register, cancel, finish | a cancellation overtakes its request | a cancellation is not lost; bounded memory |
| MediaResourceRegistry and media protocol (`media_resource.rs`) | session generation, keys, derived keys with counts | begin_session, register, register_derived, release_derived, resolve, respond | keys of an earlier session, shared keys; byte ranges of a file being written | a key serves its file or nothing; counts = users; a range gets its bytes |
| ThumbnailCacheManager, prune_disk_cache (`thumbnail_cache.rs`, `cache.rs`) | active paths with counts, files generated since maintenance | register_and_maintain, release | files removed outside the lock | a file in use is kept |
| Thumbnail commands (`ipc/representation.rs`, `thumbnail.rs`) | none of their own | request_thumbnail, cancel, release | a cancellation at any stage, undo after partial registration | nothing leaks, nothing is taken twice |
| Tauri port (`mediaRepresentation.ts`) | request ids | request with abort | the cancellation races the call | the backend is told |
| AssetLeasePool (`assetLeasePool.ts`) | entries with refs, load and unload promises | acquire, release, releaseAll | acquire during unload, release during load | a held texture is loaded, an unheld one is unloaded |
| PixiCanvasRenderer (`pixiCanvasRenderer.ts`) | one record per tile | update, destroy | a texture arrives for a tile that changed its mind | a tile shows its item or nothing |
| MediaSessionController (`mediaSession.ts`) | current session, sort, kinds | openSource, cancelCurrent, setSort, setIncludedKinds, events | late events, superseded scans, state after an await | a terminal state is final and complete; old scans stop |
| Scan commands (`ipc/scan.rs`, `scanner.rs`) | registered scans with a flag, event channel | start_scan, cancel_scan | two scans on two threads, cancellation before registration | every scan ends with one terminal event or an error |
| MediaIndex (`mediaSession.ts`) | items, sorted view, two revisions | upsertMany, setSort, setIncludedKinds | append or rebuild | the view is the sorted selection; a revision announces each reordering |
| Media and canvas browser controllers | viewport, representation states, snapshot | setViewport, setLayoutMode, session events, lease arrivals | leases that arrive for replaced states; append or compare anew | every lease is shown or released; what is laid out is the view |
| Flow models, canvas scene (`application/flow/`, `application/canvas/`) | incremental layout, pending row | configure, append, sync, markTerminal | append against rebuild, the end of a scan | append = rebuild; nothing emitted moves |
| Layout algorithms (`layout/`) | builders, vertical index | append, flush, query | gaps that use up a row, edges of tiles | no overlap; a window finds its tiles |
| Viewer controllers (`application/viewer/`) | active item, detail, pick generation | pick, activate, previous, next, clear, dispose | late answers of pickers and details | only the current one is shown; nothing loads for ever |
| Metadata cache (`metadata/cache.rs`, `metadata/sqlite.rs`) | bounded map, queue, batch, table | lookup, store, load, prune, persist, drop | capacity, stale fingerprints, kill and restart, closing | an answer is for the file as it is; what was accepted is not reordered; closing ends |
| Metadata readers (`metadata/*.rs`) | none | read dimensions, read detail | damaged sizes, cut files, interleaved streams | what is said belongs to one track or stream of the file |
| Selection, query, input | small machines | clicks, keys, pointers | lost pointers | no stuck gesture |
| Core types, classification, presentation, bootstrap | none | | drawing, wiring | |

## 2. Plan

Modules are written so that they can be proved about: parameters are CONSTANTS
with named assumptions, one action per handler, invariants are conjunctions of
named parts, and recursion is avoided.

1. `RepresentationScheduler` with `RepresentationContract` (done, proved).
2. `ThumbnailBackend` over `ThumbnailRequestRegistry`, `MediaResourceRegistry`,
   `ThumbnailCacheManager` (done, proved).
3. `PixiCanvasRenderer` over `AssetLeasePool` (done, proved).
4. `MediaSessionController` over `ScanBackend` (done, proved).
5. `BrowserRepresentations`, the two browser controllers as consumers of
   `RepresentationContract` (done for the representation states, proved).
6. `SqliteVisualMetadataCache` over `InMemoryVisualMetadataCache`, with the
   scans that read through it, kills and restarts (done, proved).
7. `MediaReaders` over one module per format and `MediaProtocol` (done, the
   protocol proved).
8. `MediaPreview` over `MediaIndex`: picking, activation and details (done,
   proved).
9. `MediaFlow` over `MediaIndex` and `Layouts`: what the two browsers lay out
   (done, checked).
10. The selection, and the touch input as a machine over pointer events.
11. The uniform grid against a scan of all rectangles, on a grid of whole numbers.

Theorems still to come: LaidOutAsViewed of the media flow, for any builder that
keeps what it has emitted.

## 3. Modules and how they correspond to the code

**RepresentationScheduler** models `representationScheduler.ts`. JavaScript
runs a handler to its end, so an action is one synchronous run: a call of
`requestThumbnail` (`CreateJob` or `JoinJob`, then `pump`), an abort event
(`cancelSubscriber`), the continuation of `run` after the port's answer
(`PortResolves`, `PortRejects`, both ending in `EndRun`), and a lease's
`release`. `jobs` is the map of joinable jobs; the other job fields are
functions of the job. Requests are numbered; a job has the number of the
request that created it, which is its `sequence`. The heap is the set of its
entries: `comesBefore` is a total order on the live ones, so popping is
choosing the least. An entry is outdated when its revision is old, its job has
left the map or no longer waits; `LiveEntries` are the ones `popNextJob`
accepts. `refs` counts the backend's registrations per key, which the code does
not store but causes: one when an answer is kept, minus one when the last
lease of its group is released.

**RepresentationContract** is what the consumers rely on: a request settles
once; the requests served by one registration share it; it goes back with the
last of their leases, and every request settles in the end. It has no jobs,
queue or slots; `ImplementsContract` is the refinement, liveness included.
`Safe` is the contract without its liveness, which is what can be proved.

**ThumbnailRequestRegistry**, **MediaResourceRegistry** and
**ThumbnailCacheManager** model one mutex-protected Rust structure each: their
operators are the critical sections. **ThumbnailBackend** composes them with
the commands: each call has a stage `pc` and moves through the code between
two accesses to shared state: `Invoke` (the port), `Start` (register the
request), `Probe`, `Ensure`, `Reuse` or `Generate` (the file), `Derive` (media
registry), `Protect` (cache manager), `PruneList` and `PruneRemove` (maintenance,
without the lock), `Conclude` with `Undo` (the last cancellation check),
`Finish`, `Answer`. Beside it run the cancellation (`SendCancel`,
`ExecuteCancel`, which may come before `Start`), the release in its two halves,
`BeginSession`, and `GrowOld` (the grace period of a file ends).

**AssetLeasePool** models the pool. Every acquire call has a number, which
also names the generation of an entry it creates; promises are the stages of a
generation. `release` and `releaseAll` drop a generation from the map at once
and unload it later. **PixiCanvasRenderer** adds one record per tile (uri
shown, uri wanted, load under way) and the continuations of
`#beginTextureLoad`: a texture that is no longer awaited is released
(`DropTexture`), an awaited one is shown (`ShowTexture`), a failed one is
given up (`LoadFailed`). A tile's uri changes to another one only through
"none", as `CanvasBrowserController` publishes it; `#updateRecord` relies on
that (line 216 compares the new uri with the one shown only).

**BrowserRepresentations** models what both browser controllers do with
thumbnails. A representation state and the request it was made for share an
identity, which stands for the identity test `get(id) !== state` of the code.
`refresh` is the two loops of `#refresh` with `#ensureThumbnail` /
`#ensureRepresentation`: states that no tile wants are released, a state with
another key or, while it loads, a lower priority is replaced. Its input is the
view, the tiles to render with their edge and priority, in which scrolling,
zooming, level of detail and new items come together; items that need no
thumbnail are outside `Media`. The scheduler is represented by what its
contract promises (`Answer`), and a promise is heard of in a step of its own
(`ArrivesLate`, `ArrivesLeased`, `ArrivesFailed`, each with the refresh the
code makes). `openSource`, `setLayoutMode` and `dispose` drop every state. The
branch for a current request that was cancelled is left out: NoForgottenTile
shows that it is never taken.

**ScanBackend** models `start_scan` on its own thread per session: `Register`,
`BeginSession`, the scanner's loop (`ScanStarts`, `WalkMedia`,
`WalkUnreadable`, `WalkFinished`, `WalkCancelled`), `Conclude`, with `Emit`
sending each event over the channel, and `ExecuteCancel`.
**MediaSessionController** models the controller: each event is handled by one
of `HandleStale`, `HandleLate`, `HandleStarted`, `HandleBatch`,
`HandleWarning`, `HandleTerminal`, in the order of the code's tests;
`cancelCurrent` and `CancelReply` are the two sides of its `await`;
`scanSettles` is the continuation of `#runScan`. The channel is in order; the
answer of the command may overtake it. `setSort` and `setIncludedKinds`, which no
event of a scan depends on, are in MediaFlow.

**MediaIndex** is the projection of a session's items, which are the numbers of
their order in the source: `upsertMany` appends while the order is that of the
source and otherwise rebuilds, as the code does.

**MediaPreview** composes it with the viewer controllers, and with what they
meet of the scan and of the media registry. `pickAndOpenSource` and
`FolderPicked` are the two sides of a picker (two may be open); `DetailResolves`
and `DetailArrives` those of a detail, whose first half finds the file under the
key and whose second half is the continuation of `#onActivationChanged`.
`onActivationChanged` runs inside every change of the activation, and
`reconcile` inside every change of the session, as the listeners do. The scan
registers and sends one item at a time; a session that another one has replaced
finds its keys gone.

**MediaFlow** is the same session seen by the two browsers. `shown` has the flow
model and the scene, each with the items, the session and the layout it has
built; `Refreshed` is the decision of `#refresh` between `append` and `sync`,
`sync` the second decision, inside the model, between appending and `rebuild`.
`append` notes in `refused` what the code throws on, and LaidOutAsViewed says
that it never does. **Layouts** has the builders: masonry columns, justified
rows with their pending tail, the atlas, and the vertical index with its two
bisections. Sizes are whole numbers of a thousandth of a pixel, rounded down.

**InMemoryVisualMetadataCache** has the critical sections of the map behind
`cache.rs`. **SqliteVisualMetadataCache** has the rest: a scan takes a
fingerprint (`TakeFingerprint`), looks it up (`Lookup`), reads the file
(`ReadFile`), stores it in the memory (`StoreMemory`) and offers it to the queue
(`TrySend`), while files are rewritten (`Modify`); the writer opens its
connection (`WriterOpens`), waits (`Receive`), fills a batch (`Collect`) and
commits it (`Persist`, which may fail); `Open` loads, prunes and starts the
writer; `Drop`, `SendShutdown` and `Join` are the end, `Crash` a kill. Versions
of a file are numbers with a fingerprint each; two may share the size, and the
time may be unreadable.

**MediaReaders** runs every reader on a file. A file is its length and the
headers at their offsets, as boxes, elements, pages, blocks, chunks or frames;
the bytes between are those that start nothing. Of an ISO file a wrong size may
lead a reader to bytes that are no header and no data of the type it expects;
what they say is a part of the file (`stray`). **Containers** has what the
readers share (an optional answer, an error, a walk over parts), **IsoBox** the
box header, **IsoBmff** the three readers of ISO files, **Ebml** WebM,
**ImageHeader** PNG to JPEG, **VorbisComment** the comments that **Ogg** and
**Flac** read, **WavId3** chunks and ID3 frames. Walks are recursive functions
from an offset to the parts from there on. `ReadVisual` is the scan's reader,
`GetDetail`, `IsoAudioReader` and `VideoReader` are the chain of
`read_media_detail`, each opening the file again. **MediaProtocol** answers
requests for bytes: `OpenServed` takes the length and parses the range,
`ReadServed` reads, and the file may change its length in between.

The `MC*` modules only give the constants their values for TLC (`MCMediaReaders`
also lays out the files). Operators named `Bug...` are faulty variants of the
operator that follows them; no specification uses them. They document, for each
property, a mistake in the code that the property detects.

## 4. Runs

| run | checks | bounds |
|---|---|---|
| RepresentationScheduler | TypeOK, SlotAccounting, NoIdleSlot, OrphanNeverRejoined, RegistrationsMatchLeases, NoPriorityInversion, ImplementsContract | 2 keys, ranks 1 and 3, 2 slots, 4 requests |
| ThumbnailBackend | TypeOK, CountsMatchUsers, KeyServesItsFile, CancellationNotLost | 2 calls, 2 files, 1 tombstone, 2 sessions, maintenance at every file |
| ThumbnailBackendPrune | ActiveFilesKept is violated | the same |
| ThumbnailBackendTombstones | RetainedIdsBounded is violated | the same |
| PixiCanvasRenderer | TypeOK, RefsMatchHolders, TileShowsItsItem, TexturesSettle | 2 tiles, 2 uris, 3 acquires |
| BrowserRepresentations | TypeOK, LeasesAreShown, NoForgottenTile | 2 browsers, 1 item, 2 sizes, 2 sessions, 3 requests not forgotten at one time |
| MediaSessionController | TypeOK, CompleteAtTerminal, SupersededScanStops, CurrentScanEnds | 2 sessions of 2 directory entries and 1, batches of 2, 1 cancelCurrent |
| MediaSessionControllerReplace | NewSessionUndisturbed is violated | as MediaSessionController |
| SqliteVisualMetadataCache | TypeOK, AnswerIsCurrent, OrderNamesEntries, AcceptedIsKept, DropEnds | 2 scans, 2 files, a memory and a queue of 1, batches of 2, 2 launches with a parser each, 3 reads |
| MediaReaders | TypeOK, NothingMixed, DamageStaysLocal, ClippedIsSound, RangeServed | files of every format, whole, cut at every length, with every box size damaged in ten ways, and zeros or misleading bytes where a reader is then led; requests on files of up to 4 bytes |
| MediaPreview | TypeOK, PreviewIsCurrent, ChoiceStays, LoadingEnds | 2 items, 2 sessions, 2 picks, 2 calls for details |
| MediaFlow | LaidOutAsViewed, TilesInPlace, WindowFindsTiles, TilesStay | 5 items, 2 sessions, 3 widths, 3 filters, 2 orders, 3 changes of them in a session |

Why the bounds are enough. The scheduler's hazards need a job, a second one for
the same key after the first was orphaned, a joiner and a competitor: four
requests; two slots show an idle one beside a busy one, and with two keys and
two slots a third job waits. The backend's need two calls, on one file or
two, in two sessions; one tombstone is the smallest limit that is reached. A
texture needs three generations to be acquired, unloaded, acquired again and
released late. A browser's tile needs a current request and an earlier one
still on its way while the other browser asks for the same key: three requests,
and two sizes for a change of key. A session needs a predecessor whose scan
overlaps it, and a walk that ends with a full batch or with a rest. The metadata cache needs a full memory
and a full queue (one entry each), a batch that is cut short and one that is
full (two), a second file to evict the first, and a second launch to read what
the first one wrote; three reads let one scan be overtaken by two. The readers
need two tracks with different handlers and sizes, an Ogg file with two streams
and a packet over two pages, and limits that fall inside what they limit. A tkhd
that is too short has its size read four bytes early, the matrix word 1.0 as the
width; the misleading bytes contain this case, a handler and a codec that no
track has, and boxes of nine bytes that put every later box out of place. They
are why NothingMixed lets a box with a wrong size say anything of its own track:
`read_tkhd_dimensions` and the two others check that the box is large enough and
not where its data lies. Without that exception the run finds such a file. The
limits of the code are scaled down to the size of these files. A preview needs
an item that is active and one that moves it, and two of everything that
answers late. A layout needs three columns, a row that is full, one whose gaps
use up its width, one that is left over, an item without a size, and widths at
which these change places: five items.

Every counter is bounded in the guard of the action that raises it
(`MaxRequests`, `MaxGeneration`, `MaxAcquires`, `MaxSessions`,
`MaxCancelCalls`, `MaxLaunches`, `MaxReads`, `MaxPicks`, `MaxDetails`,
`MaxRevision`, `MaxServed`), and never by a constraint.

`CHECK_DEADLOCK FALSE` is set where those bounds, or the end of all work, let the
system stop: a scheduler with every lease released simply has no request left.
Symmetry is used in runs of safety properties, over model values that no
definition distinguishes.

The three violations:

- **ActiveFilesKept** (`thumbnail_cache.rs:135`). The comment at 63-67 says
  maintenance "never removes paths still registered as active". The protected
  paths are collected under the lock, but the files are removed after it is
  dropped; an old file that another call reuses and registers in between is
  removed while active. Fresh files are safe by the grace period.
- **RetainedIdsBounded** (`thumbnail_request.rs:45`). The comment at 30-34
  promises no unbounded request ids. A consumed tombstone leaves its id in
  `pending_order`, which only the eviction loop shortens.
- **NewSessionUndisturbed** (`scan.rs:294`). `docs/DESKTOP_ACCEPTANCE.md:140`
  says "the new session remains fully interactive while old work converges".
  If the thread of a superseded `start_scan` is delayed until the newer one has
  begun its session, its own `begin_session` replaces the newer one, whose
  registrations then fail. It needs a thread delayed by a whole command.

One thing the runs show to hold by a thread: `MediaIndex.upsertMany` rebuilds a
sorted view without advancing `replacementRevision`, by which the browsers
learn that they must not append. LaidOutAsViewed holds only because
`MediaSessionController` defers an order until the scan has ended
(`BugSortNotDeferred` shows what happens otherwise).

## 5. Fairness

- Scheduler: the backend answers every call (`WF` on the two answers of each
  job). Consumers owe nothing: they may never abort or release.
- Renderer: loads and unloads end (`WF` per acquire call and generation) and the
  continuations run, as the event loop runs every microtask. Nothing is assumed
  of `update` and `destroy`.
- Session: each scan thread keeps running, each event sent is delivered in its
  order, and the answer of each command arrives (`WF` per session). The user
  owes nothing; a cancellation that is never sent is not assumed.

- Preview: the backend answers each call for a detail and the answer is heard of
  (`WF` per call). It has to be per call: each batch changes the number of items,
  publishes the activation again and asks for the detail anew, so an earlier
  call may be replaced before it is answered, for as long as batches arrive.
- Metadata cache: the thread that closes the cache and the writer are scheduled
  (`WF` on their steps). A transaction may fail, the writer may be dead; nothing
  is assumed of the scans.

No run needs strong fairness.

## 6. What is proved

Every theorem is about the specification that TLC checks, without its fairness
where it has one (`Safe`), and for all values of the constants. In each module
`IInv` is the inductive invariant and `Invariance` says that it holds (in
`MediaReaders_proofs` there are two, of the request and of the scan, and the
theorems themselves do); there is a lemma per action. TLC
found each to hold on the instance of its run, with the numbers it quantifies
over bounded (that of the media protocol compares values TLC will not compare
and was only proved). The assumptions are the `ASSUME`s of
the modules. They say how many there are of a thing and never how few: sizes are
natural numbers, positive where the code fixes a positive one; the sets that are
counted are finite; a value that stands for "none" is not a member of the set it
stands beside.

| module | theorems | for every |
|---|---|---|
| `RepresentationScheduler_proofs` | TypeCorrect, SlotAccountingHolds, RegistrationsHold, NoIdleSlotHolds, OrphanNeverRejoinedHolds, NoPriorityInversionHolds, RefinesContract | set of keys, number of slots and requests |
| `ThumbnailBackend_proofs` | TypeCorrect, CountsMatchUsersHolds, KeyServesItsFileHolds, CancellationNotLostHolds | finite set of calls and paths, number of tombstones and sessions |
| `PixiCanvasRenderer_proofs` | TypeCorrect, RefsMatchHoldersHolds, TileShowsItsItemHolds | finite set of tiles, set of URIs, number of acquires |
| `MediaSessionController_proofs` | TypeCorrect, CompleteAtTerminalHolds, SupersededScanStopsHolds | number of sessions, directory, batch size |
| `BrowserRepresentations_proofs` | TypeCorrect, LeasesAreShownHolds, NoForgottenTileHolds | set of browsers, items and sizes, finite set of requests |
| `SqliteVisualMetadataCache_proofs` | TypeCorrect, AnswerIsCurrentHolds, OrderNamesEntriesHolds, AcceptedIsKeptHolds | set of scans, files and parsers, versions with distinct fingerprints, budget, queue capacity and batch size |
| `MediaPreview_proofs` | TypeCorrect, PreviewIsCurrentHolds, ChoiceStaysHolds | number of items, sessions, picks and details, sort and filter |
| `MediaReaders_proofs` | RangeServedAlways, ClippedIsSoundHolds | length of a file, set of Range headers; WebM, JPEG or other image, limit that holds the fixed headers |

**The scheduler.** SlotAccounting is not inductive. `pump` starts as many live
entries as slots are free, so the count stays right only if no job has two live
entries, and the number started depends on how many there can be. Two facts
settle it: an entry whose revision is current carries the priority of its job
(`Heap`), so a job has at most one live entry; and a slot is free only while
the heap is empty (`Slots`), so a handler finds either no free slot, or one just
freed, or an empty heap with one entry just pushed. In all three at most one job
starts, which lemma `PumpEffect` and its neighbours turn into the shape
`Pumped`; each action's proof then works on that shape. `Fresh` (a number not
handed out stands for nothing) is needed to create jobs. For
RegistrationsMatchLeases the lease group of a job has to count its holders
(`Groups`), which needs a subscriber to know the job that lists it
(`Members`).

A second invariant, `PromiseInv`, carries the promises to the consumers. The map
has exactly the jobs that have subscribers and have not ended (`Mapped`), from
which OrphanNeverRejoined follows. A waiting job has a current entry in the heap
(`Entered`), which a change of priority must not break; with `Slots` it gives
NoIdleSlot. A pending request is a subscriber of a job with at least its
priority (`Asked`), by which an overtaken request would be an overtaken job:
NoPriorityInversion. `RefinesContract` is the step refinement: each
action of the scheduler is a step of the contract or a stutter, under the mapping
that the run ImplementsContract uses. The contract forgets which job a request
had, so the proof has to say for each handler which requests move together.

**The thumbnail backend.** CountsMatchUsers fails to be inductive at the first
release: giving up a key of an older session must not lower the count of a
newer one, and giving up a key must find the path it was taken for. So the
invariant follows a key from the registry through the call to the cache manager
(`RegistryInv`, `CacheInv`): a number is given out once in a generation, the
path whose derived key it is is the path of each call that holds it, and a key
names one path for ever, so that the cache manager never sees a conflict. Both
counts are then cardinalities of sets of calls, named by their stages, and each
step moves one call in or out of them. CancellationNotLost rests on the
tombstones being of executed cancellations only, of calls not yet busy
(`RequestInv`).

**The renderer.** `release` is told a key, not an entry. The invariant says that
an entry with references is the one the map holds for its key (`Owned`), and
that a record which shows a texture names the key it was loaded under
(`Records`), so that the reference released is the one that was held. Unloads
that are under way are entries without references.

**The session.** Items are counted, so that completeness is an account
(`Ledger`): what the controller has received, what the events in the channel add
up to, and what the scan has not sent is what the walk accepted, while the
session is active; and a terminal event is the last of its channel (`EndsLast`).
That the events add up is a statement about sequences; it is made with the
function of partial sums as a witness (`AddsUp`), which is extended at one end
and cut at the other, and so needs no recursive sum. SupersededScanStops needs
that the current session is shown as active while its command is at work
(`ShownActive`), for otherwise the next `openSource` would send no cancellation.

**The browsers.** A state and the request it was made for know each other
(`Linked`): the request has the browser, the item and the session of the state,
and its promise is where the phase says. The leases of a key are the cardinality
of the requests leased (`LeaseCounts`). Inside a `refresh` these two are kept
from one intermediate state to the next, `Facts` having the states, promises and
leases as parameters; only at the end of a handler is a tile's state the one its
view wants (`Rendered`). A refresh gives requests to several states at once,
which must be different ones and free: the argument about the choice of fresh
requests is that it is injective.

**The preview.** PreviewIsCurrent is kept by the identity of calls: the latest
call for a detail was made for the active item (`Details`), and a call asks
with the key of its own session, whose generation no other session has
(`Generations`). The latter makes an answer found after the registry has moved on
an answer about the session's own file. ChoiceStays is an action property, which
follows from the same invariant: the source changes in the step that answers the
latest picker (which then leaves `picks`) and in no other, so neither an earlier
picker that is answered while the latest is open nor one answered afterwards can
replace it. TypeCorrect says more than types: the view that
`upsertMany` keeps by appending is the projection that `rebuildProjection` would
build of the items received, under every sort and filter. `Sorted` gives an item
the place that so many go before it; the order is strict and total, so no two
items have one place (`PlacesDiffer`), the places are used up (`SortedAtPlace`),
and items later in the source go behind (`LaterItemsGoBehind`, `UpsertIsRebuild`).
The invariant for it (`Types`) counts the items sent against the keys registered, for
an item that came without a key of its session would not be an item.

**The media protocol.** The lemma `RangeIsAsked` says what `parse_range`
computes: the interval that the header asks for, cut to the file, or a refusal
when that is empty. The invariant carries it over the gap between length and
bytes: an open request holds the range that belongs to its header and to the
length it was opened with.

**The scan's reading of a clipped file.** ClippedIsSound is about walks over
data of any depth, one over the beginning of a file and one over all of it. A
limit does one of three things to an element (`ReadClipped`): its header does
not fit, and the walk ends; or it is read as in the whole file; or its payload
is cut, and then it is not complete, has the same beginning, and nothing follows
it. So the one walk begins the other but for its last part (`Begins`,
`ElementsBegin`). This is carried up the readers, from numbers to the size of a
video, the track, the tracks and the segment (`NumberClipped` to
`SegmentClipped`): each answers None or what it answers for the whole element. A
reader stops at the first part at which it has all it asks for; that the clipped
walk stops at the same part as the whole one is `ChosenClipped`, and what makes
it true is that a number that is cut is no number. For a JPEG the two scans are
compared offset by offset (`ClippedJpeg`), and the headers of the other images
fit into what is read (`FastHeaderAssumption`). The walks are recursive
functions; `WalkExists` and `ScanExists` show by induction from the end of the
file that these exist.

**The metadata cache.** AnswerIsCurrent speaks of a moment, the invariant of all
that is stored (`Sound`): an entry in memory, on the queue, in the batch or in the
table was found by the parser of its key, in a version that its file had
between the one the key was taken from and now. That is what a row brings along
when it is loaded at the next launch, and `SoundLater` is why a modification does
not spoil it. OrderNamesEntries needs that the order repeats nobody
(`Ordered`); with it the eviction loop pops the oldest entry of a full memory and
no other (`EvictsTheOldest`), also when the table is loaded row by row.
AcceptedIsKept is kept as `Kept`: the newest entry of a file is on the queue, or
in the batch with none on the queue, or in the table with none behind it. The last case
needs that the table has one row of a file (`Rows`), for an upsert keeps the
place of a known file. That nothing follows the shutdown on the queue, and that the
queue of a writer that is off is empty (`Queue`, `Writer`), is why closing loses
nothing. Loading the table and writing a batch are loops over sequences; they
are recursive functions, and `LoadsRowByRow` and `WritesOneByOne` show by
induction that these exist and take one row at a time.

Several of these proofs need the least-number principle. It is derived from
the well-foundedness of inclusion among finite sets (`LeastNatural`), and
induction for a set of natural numbers, or downwards for a set of offsets, from
it (`SetInduction`, `DownwardInduction`). This is how the inductions of these
proofs are done, the library's own induction theorems being out of reach (section
7). Lemmas of this general kind are repeated in each module that uses them.

## 7. What is only model-checked

- Liveness (TexturesSettle, CurrentScanEnds, LoadingEnds, DropEnds, and
  EveryRequestSettles, the liveness half of ImplementsContract, whose safety half
  is `RefinesContract`): fairness and ENABLED are beyond the proof system.
- NothingMixed and DamageStaysLocal of the readers, and LaidOutAsViewed,
  TilesInPlace, WindowFindsTiles and TilesStay of the layouts. The layouts are
  folds over items, and the comments of Ogg and FLAC folds over pages and
  blocks: the library defines folds, `SelectSeq` and `SortSeq` recursively, and
  what such a definition computes for every input would need induction with an
  operator parameter, which none of the backends can instantiate. Sets of
  numbers can be written down and so replace it for the walks of section 6, one
  proof for each loop. NothingMixed and DamageStaysLocal compare the boxes that
  are read with the layout the file was written with, of which one size is
  wrong: they are statements about those files. They are checked on the files
  and items of their runs. TypeOK of MediaReaders includes what all readers
  return, the folds among them, and stays with them.
- A module with RECURSIVE operators cannot hold theorems; only `MCMediaReaders`
  has one, to lay out its files.

## 8. What is not modelled, and why

- Argument validation, telemetry, logging, error texts, content types and
  poisoned mutexes: they change no state the properties read.
- Pixels: decoding, scaling and the PNG written; a thumbnail is a file that is
  absent, fresh or old.
- The byte budget of the disk cache: files have one size, so the budget of
  files stands for both.
- Camera, levels of detail, uniform grid and hit test, and the rounding of
  floating-point numbers in the layouts: integers would leave out the arithmetic
  in which they can be wrong.
- Pointer and keyboard input, the selection, and the query controller, which
  forwards to setSort and setIncludedKinds.
- The replacement of a known item in MediaIndex: a scan sends each item once.
- Paths: `safe_relative_path`, portable paths and the format of keys. A path, a
  key and a request id are values.
- In the metadata cache: damaged rows and newer schemas (a failure of `Open`),
  the kind of a medium in the key (it follows from the locator), an edit that
  keeps both size and time (no cache by fingerprint can see it), and the loss of
  power, after which `synchronous=NORMAL` may lose committed rows; a kill keeps
  them.
- The bound of 100,000 boxes of the ISO readers, which no file of a run reaches.
- Types, classification by extension, presentation, bootstrap, benchmarks and
  tests: see the components of `PROJECT.json` with status `not_modelled`.
