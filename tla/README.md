# Split-flap display server: TLA+ models, checks and proofs

The program is a Go server for a split-flap display. Requests add messages, a
scheduler shows them one after the other over MQTT, the display reports what it
shows over MQTT, and every change reaches the web clients over server-sent
events. All state is in memory. What is hard in it is concurrency: one loop, any
number of request handlers, two goroutines and a writer per stream, and the
handlers of an MQTT library, all sharing small critical sections.

Paths below are relative to `backend-go/` of the repository unless they start
with `frontend/`.

## Inventory

| part | state | operations | interacts with |
|---|---|---|---|
| scheduler, `internal/scheduler/scheduler.go` | `current`, wakeup channel (one slot), history ring (50), loop context | `AddMessage`, `RemoveMessage`, `schedulerTick`, `handleIdle`, `Start`, `Stop` | store, MQTT `Publish`, subscriber queues |
| scheduler subscribers, same file | set of queues | `SubscribeQueue`, `UnsubscribeQueue`, the announcements of each operation | API, queue |
| store and messages, `internal/store`, `internal/models` | `byID`; status and counts of each message | `Add`, `Update`, `MarkCompleted`, `EvictCompleted`, `ListActive` | used by the scheduler only |
| event queue, `internal/queue` | bounded buffer, notification channel (one slot) | `Push`, `Notify`, `Pop` | producers: scheduler, MQTT client, relays; consumers: relays, stream writer |
| MQTT connection, `internal/mqttclient` | `connected`, context, paho client | `Start`, `Stop`, the connect and loss handlers, `Publish` | paho (external), main |
| display state, same file | `latest`, history ring (500), set of queues | `handleMessage`, `SubscribeDisplayState`, `UnsubscribeDisplayState` | paho, API |
| API, `internal/api` | registry of streams to cancel | REST handlers, `handleSSE`, `Shutdown` | all of the above |
| lifecycle, `cmd/server/main.go` | - | start in order, stop in order | all |
| configuration, `internal/config` | - | defaults, file, environment | main |
| web page, `frontend/static/app.js` | last current, queue, history, display state | event handlers, reconnect, requests | API |

The hard behaviours, each with its line and the properties that watch it, are the
`hazards` of `PROJECT.json`; where no run can go wrong because of one (its time is not
modelled, arrivals are bounded, or the code simply does it) its note says so. What makes each part correct:

* *scheduler*: a message is shown exactly as often as its count says, completes
  only when it reached its target or was deleted, never comes back, and completes
  in the end; the limits hold up to what concurrency adds; a new message is never
  slept through; `Stop` returns.
* *queue*: order kept, only the oldest lost, no event behind a lost notification.
* *subscribers*: after a change is announced every registered client shows it.
* *connection*: the loop retries until connected, every connection is subscribed,
  `Stop` ends it; `Publish` ends, and says nil for no text that was lost.
* *streams*: in order, at most once, lost only to a backlog; a live stream is fed and
  can be cancelled; one that is over leaves nothing behind.
* *rendering and order*: a text covers the display; the queue shown is the order of
  selection.

## Modules

| module | models | state and actions |
|---|---|---|
| `Scheduler` | scheduler, store, messages | One action per critical section: `AddMessage` is `CheckRoom`, `NewMessage`, `AddToStore`, `EvictCompleted`, `RecordHistory`, `SignalWakeup`; a tick is `SelectNextMessage` or `SelectNothing`, `SetCurrent`, `PublishSucceeds` or `PublishFails`, `MarkDisplayed`, `DwellElapses`, `TargetReached` and so on. Times are not modelled: a sleep may end at any moment. A message is its number in the order of creation. |
| `MessageBoard` | what the scheduler promises of its messages | abstract: a message is new, waiting or done; one at a time is chosen, in the promised order, and shown; each is shown as often as it wants, after a delete at most once more |
| `MCScheduler` | - | handlers, targets and priorities of the runs |
| `SchedulerProofs` | - | proofs about `Scheduler` |
| `LossyFifo` | what a queue promises | abstract: in order, at most once, only the oldest missed |
| `Queue` | `queue.go` and the loop of its consumer | `Push` and `Signal` are separate steps, as in the code; `Notified`, `Pop`, `FoundEmpty`, `Cancel` |
| `MCQueue`, `QueueProofs` | - | instance, proofs and the refinement of `LossyFifo` |
| `SseStream` | `handleSSE`, the registry, `Shutdown`'s cancellation | the handler, two relays, the writer and the fallback step by step; a push and its signal are one step; a write succeeds, fails or blocks; times are not modelled, so the fallback's 30 seconds may end at any moment. `Shutdown` sweeps once: `sweep` says whether it has, and whether the stream had registered by then |
| `LossyStream` | what a stream promises | abstract: per source in order, at most once, lost only to a backlog |
| `MCSseStream`, `SseProofs` | - | instance, proofs |
| `MqttClient` | connect loop, `Stop`, handlers, `Publish` | paho is external: an attempt succeeds, fails or is aborted, connections drop and are re-established, each handler runs in a goroutine of its own, a text handed over is sent, skipped or lost, also after its timeout |
| `MCMqttClient`, `MqttProofs` | - | instance, proofs |
| `DisplayFeed` | `handleMessage` and its subscribers | a payload is its number; `shown` is what a client shows |
| `MCDisplayFeed`, `DisplayProofs` | - | instance, proofs |
| `EventFeed` | the announcements of the scheduler | operations are sequences of steps (change, collect, snapshot, push), run concurrently; a snapshot is the number of changes it contains |
| `MCEventFeed`, `FeedProofs` | - | instance, proofs |
| `Rendering` | `publishPayload`, `padToWidth` | operators and their proofs; a text is a sequence of runes |
| `QueueOrder` | the sorts of `SelectNextMessage` and `QueueSnapshot` | the two comparisons and their proofs; an instant is in nanoseconds, the local clock an offset |

How they compose. `Scheduler` instantiates `MessageBoard` as `Board`: a message is
`done` when its status is Completed, else `waiting` when it is stored, else `new`; the
board is `chosen` from the selection to the end of the publish, `showing` from there to the
end of the dwell, and `free` or `halted` otherwise. A failed publish is `Miss`, the end of
a dwell `Rest`. The handlers and their places, the wakeup token, the current message,
eviction and the history are not part of it: steps that touch only those are stutters.

`Queue` is the event queue at its finest grain; its refinement of
`LossyFifo` is why `SseStream`, which holds three queues, may push and signal in one
step. `SseStream` in turn shows what lies between a subscription's queue and the
client, and `EventFeed` and `DisplayFeed` look at what is pushed to a subscription
and take the client's view to be what was pushed last. That is right for a client
that keeps up. A queue never drops its newest event, but it does not tell events of
different kinds apart: for a client that is slow, 500 newer events of other kinds can
push the last `queue` event out, and `LossyStream` is all that holds then.

`EventFeed` repeats the control of `Scheduler`'s operations at the grain of their
announcements. It leaves out the status of the message on display, which no client
reads from a `current` event, and treats the marshalling of a queue as one step.
A change is counted also where it changes nothing (marking a deleted message).

Each module names its bounds with `BOUND`. Definitions marked as mutants, each a
plausible mistake beside the code it could replace, are used by no specification:
`PROJECT.json` names the property that notices each of them.

## Runs

| run | what it checks | bounds |
|---|---|---|
| `sched_race` | types, the overshoot of the limit, the store's size, no lost wakeup, shown equals counted, history, refinement of `MessageBoard` | two handlers, three messages, limit 1, nothing kept, default target 0 (never validated, so it can be) |
| `sched_live` | each message shown as often as wanted, completions earned, one late publication at most, current is on display, no overtaking; every message completes, deleted ones leave the display, `Stop` returns | one handler, two messages of both priorities, target 2 |
| `sched_limit`, `sched_deleted` | two statements of a comment and a document the code does not keep | two handlers; one message |
| `queue` | no lost notification, refinement of `LossyFifo`, every event leaves | two producers, capacity 2, six events |
| `stream` | a live stream is fed, and Shutdown's sweep misses none that registered before it; refinement of `LossyStream`; nothing is stuck; a stream ends | source queues of 1, merged queue of 2, two scheduler events (one of them a seed) and one of the display |
| `mqtt` | `Connect` only when off; retries, subscriptions, `Stop`; what nil from `Publish` means, and that it ends | two losses, two failures, any number of calls of `Publish` |
| `mqtt_stop`, `mqtt_flag` | two statements of comments the code does not keep | no loss; one loss |
| `feed` | what changes is announced to every stream, the display in order | five parts of ticks, one request, one stream |
| `feed_order` | one statement of the web page the code does not keep | two requests |
| `display` | history, clients show the latest and never go back | four payloads, history of two, two clients |

Why the bounds suffice. Every race here is between two goroutines of one kind or
the loop and one handler, so two handlers or producers and one loop show it; the
third message is the one that arrives while two others are under way. Limits of
one or two are reached at once, so the steps at, below and above them all occur.
In `stream` the scheduler's queue overflows when its second event meets the seed, and
the merged one when all three events reach it before the writer runs; the display's
queue does not overflow, its single event is there to compete for the merged one.
`StreamIsLossyStream` holds for all sizes and any number of events. Every program
counter of the stream's five goroutines takes each of its paths, and the cleanups
race at each of their four calls, with the sweep before or after the registration.
`NoOvertaking` compares two messages, and one handler is its premise. Five parts of
ticks reach every place of the tick and come back; the request is what races with
them, and two requests race in `feed_order`.

Deadlock is not checked where a run may really stop: after `Stop`, or when its
bounds are used up.

### What the failing statements show

* The limit of 100 active messages can be exceeded by the number of concurrent
  requests less one (`ActiveLimit`); `ActiveBound` is what holds.
* A deleted message can be published once more (`DeletedNeverPublished`);
  `AtMostOneLateShow` is what holds.
* `Connect` can follow `Disconnect`, so a stopped client connects
  (`StoppedIsDisconnected`).
* Handlers that run in the wrong order leave the connected flag wrong, and with it
  every `Publish` refused (`ConnectedIsCurrent`).
* Concurrent operations may push their snapshots in the opposite order
  (`ShowsQueue`): the client keeps the older queue.

Three more, without a run of their own. A change between a stream's seeds and its
registration is lost to it, for the scheduler's events and the display's, until the
next change (`BUGS.md` lists it as open): `CurrentInSync`, `NothingUnannounced` and
`ShowsLatest` name this gap and say that nothing else is lost. An idle loop is woken
by the token of a message it has already shown, and publishes its idle text once
more. The connected flag survives `Stop`, since `Disconnect` runs no handler; a
`Publish` after it fails by its token.

### What a stream does at its end

`StreamEnds` and `CanBeCancelled` hold with exceptions that their definitions name;
each is what the code does, and no property here says otherwise.

* The fallback goroutine waits for the stream's context or for 30 seconds. When
  `Shutdown` cancels the stream before its writer has run, the fallback returns and
  leaves the cleanup to a writer the library may never run; the process is ending.
* A write to a client that no longer reads has no timeout (`WriteTimeout` is 0) and
  sees no cancellation. `Shutdown` gives up on such a stream after five seconds.
* `Shutdown` sweeps the registry once. A stream still in its setup may register after
  that: nobody cancels it while its client stays and its writer runs, and the five
  seconds end with the process. `CanBeCancelled` says that this is the only stream the
  sweep can miss: one that had registered is cancelled by it, or has been taken out by a
  writer that cancels it next. `StreamEnds` says that a sweep that came late enough ends
  the stream.
* The merged queue is shared: a burst of one source can push out the other's events.

## Fairness

* Weak fairness of the loop, of each handler, relay, stop and callback: goroutines
  are scheduled, sleeps end, mutexes are held for a few instructions only.
* Strong fairness of `PublishSucceeds` (`sched_live`): the broker is not unreachable
  for ever at exactly the moments of publishing. Without it a message is retried
  for ever, which is what the code does.
* A connection attempt has an outcome, and the library reconnects (`mqtt`).
* The stream's handler, relays, writer and fallback (`stream`). That the library runs
  the writer at all is not assumed, nor that a blocked write ends.
* The steps of `Publish` (`mqtt`), but not that a token completes: the timeout is what
  ends the wait.
* Nothing is assumed of clients: nobody has to add, delete, stop, or stay.

## Proofs

All proofs are checked with the SMT, Zenon and PTL backends, for every value of
the constants under the named assumptions (finite set of handlers, positive
limits, targets of requests positive, the default target any integer).

* `SchedulerProofs`. `TypeOK` and `NoLostWakeup` are inductive (the latter with types).
  The rest needs, one after the other: `FreshInv` (a message being added is not
  stored yet and no two handlers add the same), `CountInv` (a message at its target
  is the one in its dwell, so no selected message is exhausted), `DisplayInv`
  (between publish and count the message on display is one short; a selected
  message that is completed was deleted) and `RoomInv` (active messages plus additions
  under way stay within the bound); with it `StoreBound` is inductive.
  From them: `CompletionEarned`, `CountIsHonest`, `OneLateShowAtMost`,
  `CountsBounded`, `ActiveBounded`, `StoreBounded`; `CompletedStays` is an action
  property. `CurrentOnDisplay` becomes inductive once it starts at the publish.
  `OlderFirst`, whose premise is one request at a time, carries the comparison of the
  selection to the count (`OrderInv`). `NewestKept` counts, for each recorded message,
  the older records above it together with the handlers still to record an older one
  (`HistoryInv`): recording moves one from the second number to the first.
  `SchedulerIsMessageBoard` is the refinement, one lemma for each step of the board: the
  invariants above say that between publish and count the message on display is one short
  and that a selected message is not exhausted, which is what the board's guards ask
  (`RoomInv` for `Accept`). `CompletedStays` and
  `CountsBounded` remain as theorems of their own, which the board implies.
  `ShownAsWanted` adds `ShowInv`, the same count kept over eviction, when the store
  forgets it. `NeverStuck` says that the quantified guards standing for the two sorts have
  exactly one outcome: a least element exists (least-number principle on the number
  of messages, with the set as its argument and no operator) and two sets of the
  oldest of one size are equal. `LimitKeptAlone` and `DeletedNeverChosenAgain` say what is
  left of the two statements the runs refute: one request at a time keeps the limit, and a
  deleted message that is not already selected is never selected or published.
* `QueueProofs`. `NoLostNotification` is inductive with types. The refinement of
  `LossyFifo` needs that the buffer is the newest events in order and that
  everything between the last event received and its head was pushed out.
* `MqttProofs`. A failed attempt leaves the library off until the loop calls
  `Connect` again. Until a first connection nothing is outstanding, and from then on
  each connection replaces one that was lost: with that `TInv` bounds the handlers.
  `PInv` ties the token's outcome to what became of the text. `SubscriptionNeverForgotten`
  (a connection that is neither subscribed nor refused has a handler still to run) and
  `LoopNeverGivesUp` (`ParkInv`: the loop ends only when cancelled and waits only for an
  attempt that is under way) are the safety halves of `Resubscribes`, `KeepsTrying` and
  `StopReturns`. `FlagRightBeforeLoss` is what is left of `ConnectedIsCurrent`: only a
  loss can make the flag wrong.
* `SseProofs`. `CInv` relates where the goroutines are to what is subscribed and
  registered: the fallback's first call cancels, so on a live stream only the writer
  has cleaned up, and it does so only when it has ended; a late sweep leaves nothing
  registered, so what it finds is cancelled or about to be. The queues are typed apart
  from that (`Data`), with one lemma for every push (`Appended`). The refinement of
  `LossyStream` rests on `LinedUp`: of each source the event written last, the wire, the
  merged queue, the relay's hand and the source's queue follow one another in order,
  and the source's queue holds its newest events without a gap. `Here` says the same
  events are `Under` way by where they are, so a pop moves an event and changes nothing
  (`PopStays`, `TakeStays`), a write is `Receive` (`WriteReceives`), a push is `Send`,
  which drops an event only when the queue behind it is full (`PushSends`), and a merge
  into a full queue is `Lose`: older than what it drops is at most the event on the wire
  (`MergeDrops`), and with the one in hand more than `MergedCapacity` events are under
  way (`BacklogFull`). `StreamLeavesNothing` and `NotificationsReachQueues` are the
  safety halves of `StreamEnds` and `NothingStuck`: a stream whose goroutines are over is
  in no set of subscribers and in no registry, and an event waits in a queue only with a
  notification, or a reader that is not asleep.
* `Rendering`. The payload is the text between two margins (`PayloadIsText`); from
  there it covers the display and centres to the left. For every text, alignment and
  width, also negative ones.
* `QueueOrder`. Both comparisons are orders a stable sort may be given, the selection
  leaves nothing open between different instants, and the queue shown agrees with it
  up to one second. This last assumes that the local clock keeps its offset: over a
  change of it the two orders may contradict each other.
* `FeedProofs`. The invariant has five parts besides the types: bounds on what is
  counted (`Bounded`), the shape of what each operation still has to do (`Shaped`:
  every change in it is followed by its announcement, the display's snapshot is never
  older than the last change), a new stream has its seed or is in the gap (`Seeded`), and
  whoever made the latest change of a kind owes it to every registered stream until it
  has pushed it (`Told`: it was sent the newest; `Synced`: it shows it, for a kind that one actor
  `Owns`, which pushes what it snapshot after its last change, `InOrder`). The display is
  the loop's, the history the handler's when there is only one. At rest nobody owes
  anything, which is the theorem; `HistoryInSyncAlone` is the same for the history with
  one handler, and what is left there of the statement `feed_order` refutes: stale views
  come from overlapping requests only.
* `DisplayProofs`. `Fresh` says of a client before registration that its seed is
  current or it is in the gap, and of a registered one that it is up to date, about
  to be pushed to, or in the gap.

Only model-checked: liveness, all of it; the provers do not reach it. What can be proved
of it are the invariants named above as safety halves: nobody waits for what no enabled
step provides. That the steps are taken is left to the runs.

The proofs by component rest on each other only through definitions: no theorem assumes
another's, and the assumptions on constants are those of the modules, except where a
theorem says `ASSUME` (`OneAtATime`: at most one request handler; `Callers = {c}`).

## Not modelled, and why

* paho and fasthttp themselves (external); the equality of two `time.Now()` stamps;
  `Start` after `Stop` (main does neither twice); `queue.Drain` and the raw MQTT
  history subscribers, which have no caller; logging, static files and layout.
* The REST handlers' validation and status codes, the parsing of the configuration and
  the search for its files: sequential, without state, and within a unit test's reach.
  One thing seen while reading them: `server.go:153` says a text is used "exactly as
  received: no trimming", and a plain-text body is trimmed at 140 and 144. The values of
  the configuration are the constants of the modules, with assumptions no stronger
  than what is validated.
* The web page's reconnection. A source is closed at its first error and fires none
  after that, so there is one timer per source and nothing to interleave.
* Starvation under endless arrivals: a new message has the lowest count and is
  selected first, so endless arrivals keep older ones of the same priority from
  completing. That is the order the code states; the runs bound the arrivals.
* main's order of the three stops. Each is checked at any moment relative to the
  others, which covers the order main chooses.

## Plan

Built: the scheduler with its abstract `MessageBoard`, the queue, the connection with
`Publish`, both feeds, the streams with `Shutdown`, rendering and the two orders, and the
proofs above: every safety property and all three refinements the runs check are proved.

Left to prove, in this order:

1. the queue as clients show it: a change announced by an operation that overlaps with no
   other brings every client back to the latest queue, whatever went wrong before it;
2. the safety half of `EventuallyCompleted`: a loop that waits has no active message, or
   a token, or its context is over, as one invariant over `NoLostWakeup` and the tick;
3. `EventFeed`'s operations as the announcements of `Scheduler`'s: today the two modules
   repeat the control, and only reading them side by side shows that they agree.

What remains of the code is listed above with the reason it is left out.
