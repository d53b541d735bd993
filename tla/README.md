# TLA+ verification of Semiont

Semiont is a knowledge base for annotated documents. Its state of record is an
append-only event log on disk, one stream per resource; everything else — the
resource views, the graph, the vectors, what clients show — is projected from
it. Long work (detection, generation) is done by worker processes that take jobs
from a queue of files. This directory holds TLA+ modules of the parts whose
correctness depends on the order in which things happen, the TLC runs that check
them on small instances, and TLAPS proofs of the most important results for
instances of any size.

The modules are translated from the source (`src/packages/...`), not from its
documentation; where the two disagree the run that shows it is described under
*Disagreements*.

## 1. Inventory of the system

| component | state it keeps | operations | hard behaviour | modelled |
|---|---|---|---|---|
| **event log storage** (`event-sourcing/src/storage/event-storage.ts`) | JSONL files of a stream; in memory the last sequence number and the file being appended to | initialise, append, rotate, read, recover after a crash | concurrent appends to one stream across many awaits; two caches that are stale at once; recovery from the last line only | `EventStorage` |
| **event store and views** (`event-store.ts`, `view-manager.ts`, `view-materializer.ts`, `view-storage.ts`) | one view file per resource; a chain of pending view updates per resource | append = persist, materialise, enrich, publish; rebuild everything at start | events reach the view in completion order; a first view is rebuilt from a log that is ahead; failure after persisting | `EventStore` |
| **job queue and workers** (`jobs/src/fs-job-queue.ts`, `job-claim-adapter.ts`, `worker-process.ts`, `make-meaning/src/handlers/job-commands.ts`) | one JSON file per job in the directory of its status; what each worker holds | create, claim, progress, complete, fail and retry, cancel, stale recovery, clean-up | a move is an unlink and a write; nothing keeps the commands of one job apart; lost posts, lost answers, dead workers, crashes between the two halves | `JobQueue`, `JobLifecycle` |
| **weaver** (`make-meaning/src/weaver.ts`, `weaver-checkpoint.ts`, `weave-progress.ts`) | graph; applied mark per resource; checkpoint file | live lanes, batches, catch-up, reconcile, rebuild, readiness | sequence gate against redelivery, failures that hold the mark back, rebuild against live events | `Weaver` |
| **smelter** (`make-meaning/src/smelter.ts`, `smelt-progress.ts`) | vectors; processed mark; drain chain | live lanes, archive and unarchive, reconcile waves | counters as completion signal, archive racing a re-embed, plans older than the events done meanwhile | `Smelter` |
| **stower** (`make-meaning/src/stower.ts`) | none of its own | turns commands of the bus into appends | serial per channel, concurrent across channels | as the caller of `EventStorage` |
| **storage URI index, system projections, reducers, queries** | index files, pure folds | index, move, remove, fold | index updated after the view | planned (index), not modelled (folds) |
| **gatherer, matcher, browser** | none between requests | answer requests from views, graph and vectors | none of their own | no |
| **clone tokens** (`clone-token-manager.ts`) | tokens with an expiry | make, use, expire | expiry against use | planned |
| **bus gateway** (`apps/backend/src/routes/bus.ts`) | subscriptions per connection, retained replies | subscribe, resume from the log, live delivery, emit | live events while a resumed subscription drains the log; retention limits | `BusStream`, `EventFeed` |
| **HTTP transport** (`http-transport/src/transport/`) | the connection, seen event ids, resume marks | connect, reconnect, swap connections, emit | two connections overlap; an event seen on both, or on neither; refused state transitions | `BusStream`; in `JobQueue` as a channel that loses |
| **request and reply** (`core/src/bus-request.ts`) | one waiter per correlation id | request, reply, timeout | answer after the timeout; the attach gate | `BusStream`; for the claim, in `JobQueue` |
| **SDK cache and browse namespace** (`sdk/src/cache.ts`, `cache-persister.ts`, `namespaces/browse.ts`) | entries, requests in flight, failure markers; on disk the documents and a bookmark | observe, fetch, invalidate, write in place, save, reload | an event during a fetch, a bookmark ahead of the content, an observer nobody answers | `BrowseCache` |
| content stores, graph adapters, anchoring, schemas, configuration, processors, frontend, launcher | — | — | input/output, generated code, pure data work, user interface | no |

How they interact: clients and workers emit commands over HTTP to the gateway,
which puts them on the in-process bus; the stower, the job handlers and the
request handlers subscribe to it. The stower calls `EventStore.appendEvent`,
which publishes each stored event on the bus again; weaver, smelter and the
gateway's SSE streams are its subscribers. Jobs are announced on the bus, and the
workers' claims and reports are commands like any other.

What makes each part correct: for the **log**, that numbers identify events and
that what was acknowledged stays; for the **views**, that they agree with the
log, apply every event once and are there before anybody hears of it; for the
**queue**, that a job is never lost, never in two places, never retried too
often, worked on by one worker and over in the end; for **weaver** and
**smelter**, that the projection converges to the log and that their marks never
run ahead of what was applied; for **gateway and transport**, that each event is
delivered once and in order across reconnections; for the **cache**, that it
ends up with every event it has heard of, and never leaves an observer waiting.

`PROJECT.json` lists the hazards of each part at the line where they bite, with
the properties that cover them.

## 2. The modules

### EventStorage — the append path of one stream

Streams share no state, so one is modelled. A *task* is one call of
`appendEvent`; it also names its event. `pc[t]` is the await the task stands at.
One action is one filesystem call with the code that runs before the next await;
`TakeNumber` is the part of `appendEvent` and `writeEvent` that runs without an
await, from the increment of the counter to the choice of the file.

| module | code |
|---|---|
| `dir`, `present`, `files` | the stream's directory, its files, their lines |
| `counter` | `resourceSequences` (0 when absent) |
| `cached`, `entry` | `currentFiles`: which object is in the map, and the objects (a task goes on using the one it got, also after another has replaced it) |
| `BeginUninitialized` … `SetCounter` | `initializeResourceStream` |
| `ListFiles`, `CountLines`, `Cache` | the cold start of `writeEvent` |
| `Rotate`, `NewFile`, `UseNew` | `createNewEventFile` and what the caller does with it |
| `AppendFile`, `Stored` | `fs.appendFile`, `eventCount++` and the return |
| `CallFails` | a filesystem call that is refused: `appendEvent` throws, whatever it has done so far stays |
| `FirstFileUnstaged`, `Unstaged` | `git add` throws, for the new directory or once the line is in the file |
| `Restart` | the process dies; the maps start empty |

History variables record the three interleavings in which the code does not keep
its promise: `initOverlap` (two tasks were initialising the stream at once),
`createOverlap` (two were creating the same file at once; the later
`writeFile(path, '')` empties it) and `staleTail` (a restart recovered from a
last line that was not the newest, or from an empty last file). The properties
say what holds outside of them, which shows that there is no fourth.

### EventStore — persist, view, enrich, publish

Extends `EventStorage`; every step of the log is a step of the store. A view is
the sequence of the events folded into it and its `lastSequence` stamp, which is
all the properties tell apart. `chain` is the promise chain of
`serializePerKey`, `held` the view computed and not yet saved. `Persisted`
joins the end of an append to the entry into the chain (there is no await
between them). `RebuildView` is the first materialisation of a resource, which
reads the whole log; `overtaken` records that it ran while another append was
between the log and the view, in which case that event is applied twice.
`ViewFails` and `FailsLate` are the places where `appendEvent` throws after the
event is in the log. `RestartStore` ends in the rebuild of all views, which the
service runs before it takes requests; a resource whose rebuild fails is skipped and
keeps the view it had.

### JobQueue — the queue and the workers

`copy[j][s]` is the job's file in directory `s`: its `retryCount`, `Absent`, or
`Torn` while `recordProgress` has truncated it and not yet written it. A
*command* occupies a slot from the moment its handler is entered: `getPending`
and `getRunning` (the search of `getJob`), `unlink` and `write` (the halves of
`updateJob`), `open` and `write` for progress. Commands carry what they read, so
stale reads are in the model. The terminal directories are not searched step by
step: no command does anything with a job it finds there.

The worker's protocol is `HearQueued` (announcement, claim posted or lost),
`ReceiveReply`, `ClaimFails` (time-out, refusal, death), `ReportProgress`,
`Finish`, `FinishAcknowledged` (any HTTP status counts) and `JobThrows`, after
which `job:fail` is on its way and may get lost. Server timers are
`GoQuiet`/`RecoverStale` (half an hour without a write), `Prune`, and the cancel
request that lists the pending jobs and cancels them one by one.

History: `phase` (what became of the job, `lost` when a fault came between unlink
and write), `raced` (two commands handled the job at once), `grants` (how often it
was given out), `doubted` (recovered as stale while a worker had it).

### JobLifecycle — what the queue promises

Per job: none, pending, running, over, gone; a retry costs one of the retries, a
terminal status is left only by pruning, and only faults lose a job. Nothing in the
code keeps two commands off one job, so a job may at any time become *raced*, and
nothing is promised of it from there on. Jobs move each on its own. `JobQueue`
implements it, with any number of commands in progress, under the mapping at its end:
while a command is between unlink and write, the job is where it came from; a job
nobody can read and nobody is moving is gone.

### Weaver — one resource's lane into the graph

Resources share nothing in the weaver, so one is modelled; an event is its
sequence number. `lane` stands for the burst buffer and the `concatMap` behind
it. `StartRun` takes any beginning of the lane whose events above the mark have
one type: that is what the timers of the burst buffer and the partition of a batch
(`partitionByType`) can yield. `ApplyNext` applies the events of a run one by one,
`ApplyBatch` several `mark:added` events in one call to the graph; both end in
`noteApplied`. An event comes to one `Outcome`: it is folded (`Applies`), the graph
throws and the failure is counted (`Throws`), the fold of `mark:body-updated` catches
the failure itself (`Swallows`), or what the event changes is not in the graph and the
fold does nothing, without a failure (`Skips`: `weaver.ts:854-856`, 869-874 and
885-887). `Base` gives the event that puts there what an event changes. `mark` is `lastProcessed`, `checkpoint` the
saved map, `told` the greatest number `weave-progress.ts` has heard.

`CatchUpLoad`, `CatchUpFetch`, `CatchUpPush`, `CatchUpAhead` and `CatchUpEnd` are
the awaits of `catchUp`; `RebuildDelete`, `RebuildFetch` and `RebuildApply` those
of `rebuildResource`, which reads the log and applies it beside the lane.
`Store` and `Announce` are the event store as the weaver sees it. The stream is
not resumed after a reconnect (the bus it subscribes to is global), hence the
branch of `Announce` in which nothing arrives.

The graph is `landed`, the events that are in it, and `newest`, the event folded
last, which tells an older fold over a newer one. Additions are exempt: they
commute.

History: `doubt` says that something happened after which the weaver cannot know
that log and graph agree, and that the code leaves to reconcile or to an
operator's rebuild: an event came after a later one, or not at all before a later
one was received; an event of a log tail older than the checkpoint arrived before
the checkpoint was loaded; an event was swallowed or skipped, and is noted although it is
neither in the graph nor among the failed; a rebuild began. A rebuild in
which everything landed and which nothing crossed (`crossed`) ends it.

`Ascending` puts the sequence numbers of a log, and any part of a sequence, in order:
what a sort and a partition of the code yield, defined by places and without
recursion, so that it can be reasoned about. `Smelter` distributes its waves with it.

A failed event is offered again although newer ones were applied after it: the gate
lets it through, since the mark is below it, and it is then folded over them. When
it succeeds, the mark passes both. The comment at the gate (`weaver.ts:166-172`) has
displaced redeliveries in mind and says "Failed events sit above the mark and still
retry". `refolded` is the event after which this happened; until an event at or
above it is applied again, `NewestAtMark` makes no claim.

### EventFeed — what a client may expect of a stream

Each stored event of a resource is handed to the client's subscribers at most once
and after every earlier one that is not *excused*. Excused are, in `BusStream`, the
events a gap signal stands for, those before a saved watermark, those published before a
subscription that carried no watermark, those published after a later one (see
`EventStore` for how that happens) and those that reach the log after a replay has
handed on a later one. `BusStream` implements `EventFeed` and `BrowseCache` is built on it: a step
of the stream there is a step of the feed.

### BusStream — the two ends of the event stream

| module | code |
|---|---|
| `conn[c]` | one `POST /bus/subscribe`: the gateway's closure (`delivered` = `lastDeliveredSeq`, `buffer` = `liveBuffer`, `stage` = buffering or live) and the client's controller (`superseded`, `previous`); `wire` is what was written and not read |
| `stored`, `missing` | the numbers given out, and those of them whose line is not in the log: appends of one resource overlap, so the log may have a later event first |
| `mark`, `seenEventIds`, `wanted` | `scopeWatermarks`, which `loadLastEventIds` may have seeded (`Starts`), `seenEventIds`, `scopedSubscriptions` of one scope |
| `state` | `currentState`; a transition the table refuses leaves it |
| `retries`, `clearable`, `changed` | the drop-recovery timers, whether `reconnectTimer` names one of them (the last that was set; those it was overwritten in fire all the same), the debounced reconnect |
| `retained`, `request` | the retention buffer and one `busRequest` |
| `Attach`, `Replay`, `ReplayFails`, `Drain` | subscribe first, replay of what the log holds above the watermark with the gap signal of `bus.ts:437` (`Missed`), retained replies, drain, live |
| `Connect` in `Start`, `Reconnect`, `Retry` | `connect(keepPrevious)` |
| `Opened`, `LingerEnds`, `Drop` | the response, the linger timer, the end of a stream |
| `HandOn` … `Absorbed` | the read loop: claim, fan-out, then the watermark; only other read loops run in between (`Idle`) |

History: `heard`, `excused`, and `stray`: the state was set for another stream than
the newest. That happens in two ways the code does not exclude: a response that
comes after a newer `connect` was posted, and a second recovery timer that fires on
an open stream because the first one's handle was overwritten
(`actor-state-unit.ts:447`). The client recovers from both (`NeverStranded`).

### BrowseCache — a persisted cache entry

The annotation list of one resource: a value is the set of events it shows. `fetch`
are the requests that are out, `inflight` the one that `runFetch` joins, `first` and
`retry` say which handlers of `runFetchSWR` hang on a request. `observer` is what the
observer that came last sees. `Hear` is a handler of `browse.ts` followed by
`saveLastEventId`: an invalidation, or for `mark:body-updated` an update in place.
`Save`, `SaveOther`, `Flush` and `Quiet` are the debounced save and the coupled
bookmark, `Reload` and `Dispose` end a session, `Reconnect` and `ResumeGap` are what
a break of the stream does to the feed.

`forgiven` names the events the code loses, at the places marked *Forgiven*; §5 lists
them. The properties show that there is no other place.

### Smelter — one resource in the vector store

A resource with bytes and tags (generations) and one annotation. `lane` holds live
events and work items; a lane does one item after the other, and `doing` is the await
its first item stands at. `fetchEmbeddableText`, `resolveEntityTypes` and the
upsert are steps of their own, since bytes, tags and the archived flag may
change between them. `plan` is `reconcile`, `drain[w]` a planner's `drain`,
`chain`, `workDone`, `workFailed` and `workWaiter` the fields of the class.
`stream` is the subscription: `StartUp` asks for it, which takes a debounce and a
connection, and `reconcile` begins meanwhile; it is there from `Attach` on, and
`Break` drops it until it is attached again. The channels are global ones and have no
watermark, so what is published in between does not come later (`Publish`). `Crash`
includes `process.exit(1)` after a failed reconcile.

`rebuildAnchors` ends in `RebuildOver`, or in one of its error paths: the listing fails
(`RebuildListFails`), or the emit of the answer, which is inside the `try`
(`RebuildUnanswered`). An emit that an HTTP status refuses looks like one that worked;
one that rejects may have arrived or not, and leads to the `catch`, which emits
`-failed` and only logs that this fails too (`Apologise`). `reply` is the first answer
to reach who asked.

`drift` says that something happened that the code leaves to the next reconcile: a
failed item, text that could not be fetched or anchored, an update or an annotation
of an archived resource (which is indexed without a look at the flag), a planned
item that events have overtaken (`Overtaken`, `PurgesRestored`), and an event lost by a
broken stream or, once reconcile has listed the resources, by one not yet attached; it
ends at the next start. `hurt` says that an item of the rebuild failed, `interrupted`
that the rebuild met an error that is none of its items', or died.

### Slips

Definitions commented "Slip for the runs" are not part of the model. Each is the
definition after it with a plausible mistake — a dropped condition, a stale
value, a missing reset. `PROJECT.json` pairs each property with a slip that
breaks it, as evidence that the property can fail.

## 3. The runs

| run | instance | states | shows |
|---|---|---|---|
| `event_store` | 2 tasks, 1 event per file, 3 files, 2 restarts | 51 000 | numbers identify events and acknowledged events are in the log, outside the named interleavings; read-your-writes, view against log, events applied once, the stamp, views never shrink, every append is answered |
| `sequence_reuse` | 2 tasks, no restart | — | the disagreement on `sequenceNumber` |
| `job_queue` | 1 job with one retry, 1 worker, 2 commands at once, no faults, symmetry on slots | 2 000 000 | what holds in every interleaving of two commands; what holds of a job, and refinement of its lifecycle, while none overlap |
| `job_lifecycle` | 1 job with one retry, 2 workers, 1 command at a time, 1 fault | 20 000 | refinement of the lifecycle, one worker per job, every job ends |
| `job_double_claim` | 2 workers, 2 commands at once | — | the disagreement on claims |
| `weaver` | 3 events, one overtaken, the second a body update of what the first adds; 2 failures, 1 redelivery, 1 missed announcement, 1 crash | 3 800 000 | the mark, the checkpoint and the signals are honest; no older event over a newer one |
| `weaver_handles` | 2 additions, one overtaken; 1 failure, 1 rebuild command, 1 crash | 180 000 | the same for batches; every event lands or is known to have failed |
| `weaver_gap` | 2 events in order, no fault | — | the disagreement on the catch-up |
| `bus_stream` | 3 events: one before the session and no watermark, or a watermark of 1 with event 3 published before event 2 is in the log; 1 request, 3 connections at once, 2 faults, 1 change of the channel set | 2 500 000 | events at most once and in order, none lost without a signal; the reply reaches the client; one live stream, and never none |
| `browse_cache` | 2 events, the second a body update; 2 fetches at once, 2 failures, 1 interruption, 1 reload | 360 000 | observers see every event and are answered; the bookmark does not lead |
| `browse_replay` | the same without failures and reloads | — | the disagreement on replayed body updates |
| `smelter` | 2 events, 1 rebuild command, 1 failure, break of the stream or crash, waves of 2; the second bytes yield no text | 630 000 | stores against catalog, waves, the rebuild's answer, termination of the planners |


**Properties.** `NumbersUnique`, `StoredIsDurable` (log). `ReadYourWrites`: an
event that is published, or whose enrichment is reading the view, is in the
view, also with other appends in every stage. `ViewFromLog`, `AppliedOnce`,
`StampIsNewest`, `ViewGrows`, `EveryAppendAnswered` (a failing link does not
block the chain). `RetryBound` and `NothingVanishes` hold for the queue in every
interleaving. `OneCopy`, `AttemptsBounded`, `OneWorker` and `TerminalStays` are
claimed for jobs whose commands never overlapped, which the code does not
enforce: the exception is in the property, and `job_double_claim` shows what
lies behind it. `EveryJobEnds` is liveness.
`ImplementsLifecycle` is the same claim for a job's whole course; `job_lifecycle`
checks it with two workers and a fault, `job_queue` with commands that meet.
`MarkSound`: whatever the mark, the checkpoint or a signal claims is in the graph,
across failures, redelivery, crashes and catch-up. `NewestAtMark`: the graph never
shows an older event over one the mark claims. `EveryEventHandled` is liveness.
All three are claimed while `doubt` is false.
`ImplementsFeed` and `NothingLost` together are the stream's promise: nothing twice,
nothing out of order, nothing missing that was not announced. `OneLiveStream`,
`OpenMeansLive` and `NeverStranded` relate the state machine, which others read, to
the connections there are; `ReplyNotLost` follows a reply through drops.
`FreshAtRest` and `BookmarkNeverLeads` relate an observer's value and the disk to the
log; `Served` is liveness. `StoresAgree`: after reconcile, with nothing waiting, vectors,
annotation vector and anchored text are those of the catalog, also with events lost
before the stream is attached, if they are in the listing; `drift` excuses those that
are not. `WavesComplete` and
`RebuildHonest` are what the shared counter must give its two users: a rebuild answers
ok only if no item of it failed, failed only if one did or a call of its own failed,
and one that skipped something and met no such error has said so. `PlannersEnd` is
liveness.

**Why these bounds.** One event per file makes every append a rotation, so the
file-creation race needs only two tasks; with three one of them can be late for
both races. One restart suffices for recovery from any disk a run can leave; two
let a rebuilt view meet a recovered counter. The larger instances 3 tasks with 1
restart (2.6 million states) of `EventStore`, and 2 slots with 2 workers, no
retry and 1 fault (about 1 million) of `JobQueue`, were checked too and are left
out of the standing runs for time. Jobs interact only through the bound on slots
(and through workers, which take one job at a time), so one job is enough to see
every interleaving of its own commands; two commands in progress are the least
that can overlap. In `Weaver` a wrong mark takes an event below it and one above,
and a third to stand between them when one is overtaken; one fault of each kind can
fall between any two steps of the others. The second failure lets a redelivered event
fail again while another is held back. `MaxRetries` is 0 or 1 in the code. `MaxFiles`, `MaxRestarts`,
`Slots` and `MaxFaults` are bounds of the model only, in the guards of `Rotate`,
`Restart`, `Start` and of the faults; so are `MaxSeq`, `Overtaking` (in `Store` and
`Announce`) and `MaxFailures`, `MaxRepeats`, `MaxMisses`, `MaxRebuilds` and
`MaxCrashes` (all in `Spend`), and that one rebuild runs at a time.
In `BusStream` two events tell order and duplicates apart, and a third, before them, is
what a watermark covers; of the two `Starts` one has no watermark and two events to
come, the other one that is saved and a log out of order (which is one of its faults);
three connections are one that is read, one that lingers and one that is made; two
faults let a recovery meet a second drop. `MaxEvents`, `MaxConns`, `MaxFaults` and `MaxChanges` are in the
guards of `Store`, `Connect`, `Spend`. In `BrowseCache` one event must invalidate and
one be applied in place, in this order, and two fetches are one that is trusted and one that is
not (`MaxFetches` in `RunFetch`, the others in `Spend`). In `Smelter` two changes are
enough for archive and unarchive, for an annotation made and removed, and for bytes and
tags; one rebuild suffices for the two planners to meet; a wave of two with three
items makes a second wave. With a failure and a crash, and with repeated archives,
it was checked too, and is left out of the standing run for time.

**No deadlock check.** A finite number of calls ends, and then the system rests.

**Fairness.** Every await of a call that has started is answered, if only with an
error: weak fairness of `Continue(t)`, and of a command's steps. Nothing makes a
caller call: beginning an append or creating a job is not fair. In `JobQueue`
announcements repeat every 30 s, stale recovery runs on a timer, a posted failure
arrives or is lost, and a worker gives every job up in the end (inference
time-out, stall watchdog); deliveries are strongly fair because a bounded number
of slots may be full again and again, which is a limit of the model and not of
the code. A claim is delivered sooner or later when announced again and again.
Without faults or overlapping commands every job then ends.
In `Weaver` calls to the graph and reads over the bus are answered, if only with
an error, and a stored event is announced in the end (the backend stays up);
the checkpoint timer, redelivery, rebuild commands and restarts of a dead weaver are
not fair. `EveryEventHandled` claims nothing while the weaver is down, and is
checked without missed announcements, which only the next start would repair.
In `BrowseCache` a fetch that is out is answered or fails, which the timeout of
`busRequest` ensures. In `Smelter` whatever has begun goes on (`Advance`): every call
to the stores, the provider and the bus is answered, if only with an error; events,
commands, crashes and the restart are not fair.

## 4. The proofs

`EventStorage_proofs`, `EventStore_proofs`, `JobQueue_proofs`, `Weaver_proofs`,
`Smelter_proofs`, `BusStream_proofs` and `BrowseCache_proofs` prove for every number of
tasks, files, jobs, workers, slots, retries, events, connections, fetches, sessions and
faults, and every size of a wave, from the named assumptions on the constants only,
except for the hypothesis about jobs of `OneWorkerEach`. `Ascending_proofs` holds the
lemmas about sequences and ordered sets that several of them use.

* `TypeCorrect`, `StoreTypes`, `QueueTypeCorrect`, `WeaverTypes`, `SmelterTypes`,
  `StreamTypes`, `CacheTypeCorrect`: the type invariants.
* `NumbersIdentifyEvents` (`NumbersUnique`). Uniqueness alone is not inductive:
  two tasks could hold the same number and both still have to append it. The
  invariant `Numbering` adds that while the counter is 0 at most one task is at
  work, initialising (`InitAlone`), that it recovers the greatest number of the
  log (`InitRecovers`), that from then on the counter bounds every number in the
  log and in flight (`CounterBounds`), and that a number in flight is held once
  and not yet written (`NumbersHeldOnce`).
* `StoredEventsStay` (`StoredIsDurable`). Every event is followed from the write to
  the return (`WrittenInLog`). The only step that takes lines away is the
  creation of a file that exists; `CreatesAreFresh` says that a file about to be
  created is not there and is nobody else's, and `PathsPresent`, which holds in
  every state, that appends go to files that are there and so cannot create one.
* `StoreUsesStorage`: every step of the store is a step of the log or leaves the log
  alone, so what is proved of the log holds in the store.
* `PublishedIsReadable` (`ReadYourWrites`), `ViewComesFromLog` (`ViewFromLog`),
  `FoldedOnce` (`AppliedOnce`), `StampIsGreatest` (`StampIsNewest`) and `ViewOnlyGrows`
  (`ViewGrows`) come from one invariant, `StoreInv`. The view on disk and the one being saved are good
  (`GoodView`): each event in them has been logged and the stamp is the greatest of
  their numbers (`ViewFits`); unless two creations of a file met, their events are in
  the log (`FromLog`); and unless an append was overtaken each is there once and none is
  there that still waits for its turn in the chain (`Once`, `Fresh`). The last is what a
  view rebuilt from a log that is ahead of the chain breaks. Whoever saves is the head
  of the chain, and what it saves extends what is there and holds its own event
  (`HeldGood`); only an append that has been stored is in the chain (`StagesFit`).
* `RetriesBounded` (`RetryBound`). The inductive part is `CountsBounded`: a
  command's copy of the count, read at some earlier time, obeys the bound too. A
  failing command writes its count plus one only below the limit, and `failed` is
  reached only at it, whatever happened to the file in between.
* `JobsDoNotVanish` (`NothingVanishes`). The property says that some command is
  about to write; that is not inductive, because a progress report whose file
  was taken away writes to nobody. `AlwaysSaved` therefore counts a progress
  report only while the file it emptied is still there. Every step that takes a
  file away leaves a writer that will make the job readable.

The steps of `JobQueue_proofs` are grouped by what they do to the files: most
actions leave the files and the writers alone (`FilesLeftAlone`), and those that
change one file are handled by `OneFileBounded` and `OneFileSaved`.

* `OneCopyEach` (`OneCopy`), `AttemptsAreBounded` (`AttemptsBounded`) and `EndedStays`
  (`TerminalStays`) speak of jobs that were never raced. For such a job what its one
  command read still holds (`Fits`), so the halves of a move leave it in one place, and
  each grant costs a retry or is the one that is out (`GrantsFit`); this is `Calm`.
  `Settled` adds from which directory a command moves its job (`MovesFit`), so that
  nothing moves a job out of where it ended, and that nobody knows of a job that was
  not created (`Untouched`).
* `OneWorkerEach` (`OneWorker`) has the hypothesis that a job has at most one retry,
  which is all `job-commands.ts:54` asks for. With two the property is false: a worker
  taken off a job as stale may fail late, which retries the job under a second worker
  and gives it to a third. `Held` adds to the property that nobody holds a job that can
  still be given out (`Reserved` implies `Unheld`): one that is pending or on its way
  there, or one of a single grant that a failure is about to send back.
* `QueueImplementsLifecycle` (`ImplementsLifecycle`), for any number of commands in
  progress. For each job that is not raced a step of the queue is a step of its lifecycle
  or changes nothing of it; a step in which a job becomes raced is the lifecycle's
  `Race`, and from there on nothing is seen of it. What the lifecycle sees of a calm job
  is where its one file is or, between the halves of a move, where its one command took
  it from (`Seen`).
* `MarkIsSound` (`MarkSound`) and `NewestStaysOnTop` (`NewestAtMark`). While there is no
  `doubt`, everything up to the mark is in the graph or is about to be: each number
  above the mark that some claim will cover is in the lane, in the run, or applied
  (`LaneCovered`, `RunCovered`, `SeenCovered`), in this order (`Above`), and the claims
  themselves, that is the mark, the checkpoint and the signals, are met (`Honest`).
  That holds for every `Base`; an event that is skipped begins a doubt.
  `NewestFits` does the same for the event folded last. A rebuild ends the doubt; what
  that takes is `RebuildFits`: if nothing crossed it, the part of the log it has gone
  through is in the graph, and what is not in the log it has read is above every claim.
* `WavesAreComplete` (`WavesComplete`). The inductive part is a count (`Waited`): all
  planned items in the lanes are those of the planner that waits, and their number and
  the counter add up to the waiter's target. A wave is enqueued when there is no waiter,
  so when no planned item is left; with the last item of a wave, successful or not,
  the target is met, and not before. Two planners do not meet because only the first of
  the chain drains (`Turns`).
* `RebuildIsHonest` (`RebuildHonest`). As only the rebuild's items are in the lanes
  during its turn, the failures counted since the turn began are its own (`Answers`).
  No answer is out while the rebuild is at work, and the `catch` is reached only with
  `interrupted`, so a second answer adds nothing to what the first said.
* `StoresComeToAgree` (`StoresAgree`). The property speaks of a smelter at rest, so the
  inductive part (`AgreeInv`, proved as `SmelterAgrees`) says what is still asked for
  while it is not. `Asked` has one part per store and direction: whatever the vectors,
  the annotation or the anchored text lack of the catalog is being done by the first
  item of the lane with current bytes or tags, or is asked for by an item of the lane,
  an event to come or an item still to be enqueued (`Soon`), or reconcile has not read
  that store yet, or has read it and its plan will ask. That is kept when an item ends
  only if later items do not undo it and earlier ones are undone in turn: `Order` says
  that every item that leads away from the catalog has behind it, in the lane or among
  the events to come, one that leads back. Both are claimed while the smelter is up and
  there is no `drift`; a start begins with everything unread, which makes every part of
  `Asked` true again. What is lost until the stream is attached does no harm while
  reconcile has not listed the resources, because the stores are then still what it has
  read of them (`Fresh`). `Fitting` holds always and carries what the two rest on, such as
  that the first item has read what its kind reads and that it is current unless an
  event behind it says otherwise or was lost (`StepsFit`), that the events to come lead to the
  catalog as it is (`NewsFit`), and that what reconcile plans fits what it read
  (`PlanFits`).

* `OneStreamLives` (`OneLiveStream`). Two connections that are read at once are found
  while one of them is still opening: `Ordered` says that of two connections that
  are not superseded one is going to supersede the other, so that the opening of
  either leaves one. It needs that only connections that are there are named
  (`PreviousThere`), since a connection that ends frees its place for the next, and
  that an opened connection has done its superseding (`ReadingHasNone`).
* `OpenIsHonest` (`OpenMeansLive`) and `ClientNotStranded` (`NeverStranded`). The
  property of the client at rest follows from `NewestCarries`, which holds always:
  as long as no recovery timer is pending the newest connection is there, it carries
  the channels that are wanted or a change is pending, and if it is read the state
  is open. The newest connection is the one nobody is going to supersede, and only
  its end may leave the client without one; then a timer is pending.
* `NoEventTwice` (`AtMostOnce`, stated beside the proof). What was heard was claimed
  (`HeardInv`), so a second copy, from whichever connection, is skipped. The runs
  check it as a part of the refinement of `EventFeed`.
* `ObserverIsFresh` (`FreshAtRest`) and `BookmarkDoesNotLead` (`BookmarkNeverLeads`).
  Both follow from one invariant, `CacheInv`, about the entry while fetches are
  out. A value that no fetch is going to replace shows what is known
  (`SettledShowsKnown`); the fetch that is joined was asked after every event but
  those applied in place, because every other event gives it up (`JoinedIsFresh`);
  a value from the disk has been neither observed nor changed (`RehydratedIdle`); and
  what is not about to be saved is on the disk (`SavedIsShown`), so the gate of the
  bookmark keeps it behind the document (`ValueCoversBookmark`, `BookmarkKnown`).
  The stream's part is that what is known has no holes (`KnownIsPrefix`).

* `ResumeLosesNothing` (`NothingLost`) and `StreamIsFeed` (`ImplementsFeed`). Neither
  property says anything while connections are open, break or replay, so the inductive
  part is what each connection owes (`StreamInv`). `Starts` is any set of starts that
  the assumption on it admits, and the log may at any time lack events before its last. Take as known what was heard or is
  excused. A connection that has subscribed has on its wire, in its buffer or still in
  front of its replay (`Fetching`) every event that is public and not known, and before
  each event on its way everything that precedes it, unless that is known (`InOrder`);
  what the gateway has counted as delivered is on the wire or known, so the frames it
  drops are no loss; and a buffer is only filled while a replay is going to precede it
  (`Ready`). The watermark covers only what is known, which is why the next connection
  may start there, and a claimed event was handed on, which is why one that another
  connection has claimed may be skipped. The event at the head of a wire is then
  either claimed or one that the feed may deliver (`HeadIsNext`). That one sequence of
  writes keeps the order is `Accounted`: what `writeBusEvent` lets through of some
  frames (`Passing`) accounts for all of them.
* `RetainedReplyReaches` (`ReplyNotLost`). The property may become true again only by
  something that a *new* connection does, so it is proved through the newest one
  (`NewestWaits`): while the state is connecting or open, and was not set for another
  stream, the newest connection is the one that is or will be read, and it has the reply
  or will ask for it; while the reply is not yet given, it listens or has named it.
  `ReplyFits` adds that no reply is there before it was given and none is read twice.
  Otherwise the state is reconnecting, and `NewestCarries` has a timer pending.
* `StreamTypes` rests on more than the property: no more recovery timers are pending
  than connections have failed (`TypeInv`).

The library defines folds over sequences by recursion, which the provers cannot unfold.
Induction over sets is possible, through the theorems on well-founded orders with an
explicit set in the place of the predicate: that a finite set of numbers has a greatest
element is proved in this way. What is not recursive, a selection, a sort or a sequence
of writes, the models say by places instead of by a fold (`Rank` in `EventStore`,
`Ascending`, `Passing` in `BusStream`).

Only model-checked: liveness (`EveryAppendAnswered`, `EveryJobEnds`, `EveryEventHandled`,
`Served`, `PlannersEnd`), which the prover does not handle under fairness.

## 5. Disagreements between the code and what is written about it

* `sequence_reuse`: two first appends of a process to one stream both initialise
  it and take the same sequence number
  (`event-storage.ts:175`), which `docs/STORAGE-LAYOUT.md:51` of the package
  calls the monotonic position and source of truth for ordering.
* `job_double_claim`: two claims that read the pending file before either unlinks
  it are both granted (`job-commands.ts:125`), against `fs-job-queue.ts:24` and
  `apps/backend/docs/ARCHITECTURE.md:267`.
* `weaver_gap`: a live event applied before `catchUp` reaches its resource leaves a
  mark above the events missed while the weaver was down (`weaver.ts:343`), which are
  then not replayed; the comment at line 284 says nothing falls in the gap.
  Reconcile, which follows, repairs what its comparison of view and graph shows.
* `browse_replay`: a `mark:body-updated` that is replayed after an interruption comes
  as the log has it (`routes/bus.ts:441`), without the annotation that only publishing
  adds, and its handler returns at once (`browse.ts:691`): the cached list stays as it
  was, against `browse.ts:636` "No blanket invalidation is needed".

Weak points met while modelling, which the models contain and no run is about:

* A job claimed between the listing and its turn in a cancel request is cancelled
  while running (`fs-job-queue.ts:405`), against the comment at line 389
  (`CancelNext`).
* An error of the graph in `mark:body-updated` is caught by the fold
  (`weaver.ts:857`), and the mark passes the event, against line 41 (`Swallows`). A
  failed event is later folded over newer ones (`refolded`).
* A body update or a tag whose annotation or resource is not in the graph is skipped
  (`weaver.ts:854-856`, 869-874, 885-887) and noted as applied. The event that it needed
  had failed, is redelivered later and lands; then the mark passes both, against
  `weaver.ts:238`, "the mark asserts 'everything at or below me landed'", and nothing
  folds the skipped one again before a rebuild (`Skips`; `doubt` excuses it).
* The smelter's `start()` has only scheduled the subscription when reconcile begins
  (`smelter-main.ts:212` and 250, `actor-state-unit.ts:490`), against `smelter.ts:802`
  and `smelter-main.ts:245`, "the live subscription is attached": an event published
  after reconcile's listing and before the stream is attached is in neither. An event
  published while a dropped stream is reconnecting is lost as well, since these channels
  have no watermark, and no reconcile follows (`Publish`; `drift` excuses both).
* The emit of `smelt:rebuild-anchors-ok` is inside the `try` (`smelter.ts:996`): if it
  rejects, a rebuild that failed nowhere answers failed, or, when the emit of that fails
  too, not at all (`RebuildUnanswered`, `Apologise`).
* A replay hands on what the log holds; when an append that took an earlier number is
  still to come, its event is passed over, and a gap is signalled only if it is the first
  after the watermark (`bus.ts:437`; `Replay` excuses the events passed over).
* When `git add` throws after the line is written (`event-storage.ts:241`), the caller is
  told of a failure and the event is in the log (`Unstaged`).
* A scoped subscription that has not heard an event has no watermark: when it breaks,
  what is published until it is back is neither replayed nor announced by a gap
  signal, and caches filled in the meantime stay stale (`routes/bus.ts:422`;
  `Attach` excuses these events).
* An overwritten recovery timer fires on an open stream and replaces it
  (`actor-state-unit.ts:447`; `stray`).
* The answer of a fetch that `invalidate` gave up still replaces the value, so that an
  older answer may overwrite a newer one, and the bookmark then leads (`cache.ts:281`). A
  body update heard while a fetch is out is overwritten by the answer. When a chain of
  fetches is exhausted the stale value stays and the bookmark moves on. `set` takes a value
  from the disk for a current one. `dispose` empties the `inflight` of one cache before
  a later one's save asks whether all are quiet.
* An observer that subscribes while only an awaited `fetch()` is out stays pending if that
  fails: nobody retries or tells it (`cache.ts:410`; `observer = "attached"`), although
  B14 and B15 exclude that state.
* A work item planned before an archive or unarchive is done after it
  (`smelter.ts:814-900`), against the comment at 788-806; an orphan's purge has a lane
  of its own and may come after the unarchive that restored it; content that is not
  available counts as a success (`smelter.ts:576`). `batchAnnotationAdded`
  leaves out the `machineRead` stamp that `indexAnnotation` sets.

## 6. Abstractions to know about

* `getAllEvents` reads the files in one step; `fs.appendFile` is atomic, so torn
  log lines are not in the model; the `__system__` stream, whose projections are
  not serialised, is not modelled.
* An error of `fs.access` other than that the directory is not there makes
  `initializeResourceStream` empty the first file of a stream that exists
  (`event-storage.ts:114-129`); it is not in the model, where `Access` finds what is
  there. When `CallFails` the call has done nothing.
* `createJob` is one step (nobody knows the job before it is announced). `Prune`
  happens only while no command handles the job: files go after a day. An announcement
  for a job that is neither pending nor being moved is left out: its claim
  changes nothing. One cancel request is in progress at a time.
* Progress writes are throttled in the code to one in some seconds; the model
  allows one whenever the worker has the job, which contains that.
* A failed write leaves no partial file; a torn file after a crash is in the model
  as `Torn`.
* `Weaver`: event types are additions, body updates and the rest; what a fold does
  to the graph is that it is in it and which fold was last. `rebuildAll`, the
  comparison that makes reconcile rebuild a resource (in the model a rebuild may come at
  any time), the waiters of readiness and the lane of system events, which has no
  mark, are left out. A stop is a `Flush` followed by `Crash`. An event has at most one
  `Base`, the event that adds its annotation or the resource; that a removal takes what
  a later event needs is not in the model. `Base` is the second event's in the run
  `weaver` and nobody's in the others.
* `BusStream`: one scope, the resource's; the global channels only carry the reply. Two
  frames of one batch are written one after the other without a pause; what is written is
  read in order or not at all; all that a superseded connection has been sent is read
  before its linger timer ends. The state `degraded`, which behaves like
  `reconnecting`, `stop`, and the caps on remembered ids and retained replies
  (`Evict` is possible at any time) are left out.
* `BrowseCache`: one key; the other caches are `SaveOther` and the flag of `Dispose`.
  `remove`, `invalidateAll`, changes from another tab, the throttle of the
  save and the removal of documents are left out.
* `Smelter`: a batch is its items one by one; chunks, embeddings, `smelt:settled` and
  the waiters of `smelt-progress.ts` are left out; so is `stop`. The stream, and not each
  connection of it, is modelled: `BusStream` has the connections. The first answer to a
  rebuild is the one that counts, and that its asker may have stopped waiting is not in
  the model.
* Job payloads, wording, logs, statistics and metrics are left out everywhere.

## 7. Not modelled, and plan

Stower, gatherer, matcher, browser, content stores, graph adapters, import and export,
clone tokens, configuration, schemas, the user interfaces, the launcher and the
command line are not modelled: most of them keep no state between requests or are input
and output. Worth doing next, in this order:

1. `Weaver`: an abstract specification (a projection that converges to the log) and its
   refinement, `rebuildAll`, two rebuilds at once, the waiters of `weave-progress.ts`.
2. `StorageUriIndex` beside the event store, chunked appends with torn log lines,
   `CloneTokens`, the waiters of `smelt-progress.ts`.
3. Composition of `BusStream` with the job protocol, so that claims and reports go over
   the modelled stream.
