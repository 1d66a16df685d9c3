# A TLA+ model of ems-bridge

ems-bridge moves messages between folders, HTTP endpoints and TIBCO EMS queues.
A *route* joins starters, which produce messages, with a chain of processors.
This directory holds TLA+ modules of its concurrent and failure-prone parts, TLC
configurations that check them on small instances, and TLAPS proofs of their
safety properties for instances of any size. Paths below are relative to the repository (`src/`).

    tlc -workers 4 -config file_single.cfg MCFileSingle.tla
    tlapm FileEventStarterProofs.tla

## Inventory

| Part | State it keeps | Operations | Hard behaviour | What makes it correct |
|---|---|---|---|---|
| `file_event` starter (`starters/file_event.go`) | input folder, lock files, output folder, semaphore of 4, `done` | poll, walk, one goroutine per file: lock, read, route, move, unlock; stale-lock clean-up; Stop | several instances on one folder, the lock files being all they share; crash between route and move; files that vanish or are rewritten; walk blocked on the semaphore | at-least-once delivery, archived only if delivered, nothing lost, locks protect, every file drains, Stop stops |
| `jms_queue_consumer` (`starters/jms_consumer.go`) and `ConsumeQueue` (`components/jms/tibco`) | `consumerCount` goroutines, each with a session; `done`; what the broker holds | receive (250 ms), closure (jmsProperties, route, reply), acknowledge, deferred closes; Stop | acknowledgement modes against crashes, lost connections, redelivery to another goroutine, reply failures, poison messages | CLIENT acknowledges only what was routed and replied to; AUTO at most once; goroutines end exactly when they should |
| route (`routes/route.go`) | processors, links, FirstProcessor | Init, Execute | every configuration is accepted by `New`; maps overwrite duplicates; cycles | a well-formed chain runs each processor once and in order; Execute returns |
| `jms_send` (`processors/jms_send.go`) and `PublishTextMessage` | per call: session, reply queue, its consumer | send, wait, timeout, replace payload | concurrent callers on one reply queue, late and repeated replies, timeouts after the request is out | own reply, timeout is an error, handles closed, calls return |
| `rest` starter (`starters/rest.go`) | handlers on the shared mux | register, serve | duplicate registration panics; concurrent requests run one route, and wait as long as it does | an answer is the reply to its own request; every client gets one |
| JmsComponent (`components/jms.go`) | the connection | Start, Stop, Conn | another provider leaves it nil without an error (nothing calls Stop today) | found before a message is at stake |
| life cycle (`app.go`, `main.go`) | components, routes, server | NewApplication, Start, Serve | starters of early routes run before later routes are initialised; any failure exits the process, with messages in flight | no route works before all is connected; /health means complete; somebody comes to serve, and messages get through |
| configuration, key store (`config.go`, `sqlite`, `encr`) | keys table, decrypted properties | LoadConfig, OpenDB, SeedKeys, Encrypt, Decrypt | several processes seeding; keys found by an 8-digit prefix; names shared between apps | what was encrypted can be decrypted; a failed start is found before anything serves |
| `transform`, expressions, messages, HTTP client | none between calls | pure calls | none | not modelled |

Interaction: `main` loads the configuration, creates the components, then the
routes; `Route.Init` starts the starters, which call `Route.Execute` as their
handler, from any number of goroutines; `Execute` calls the processors one after
the other; `jms_send` and the consumers share the connection of a component.
`PROJECT.json` lists each component with its status, and each hazard at its line.

## Modules

### `FileEventStarter` (and `FileDelivery`)

One instance `i` is one starter; the folder (`version`, `present`, `locks`,
`archive`) is shared by all, whether they live in one process or in several. A
file is a path with a version number for its content. `phase[i]` is where `poll`
is, `todo`, `below` and `doomed` are what the walk and `cleanStaleLocks` have
still to visit, and `job[i][f]` is where the goroutine of a file is:

| code | actions |
|---|---|
| `poll` | `ScanExisting` (with the listing), `Exit`, `EndScan` |
| `scanExisting` | `EnterSubfolder`, `VisitGone`, `VisitSkip`, `VisitMatch`, `TakeSlot`, `Join` |
| `cleanStaleLocks` | `Join` lists, `CleanStaleLocks` removes one file |
| `processFile` | `AcquireLock`, `ReadFile`, `Handle`, `MoveFile`, `ReleaseLock` |
| `Stop`, `Start` | `Stop`, `Restart` |
| outside | `Write` (the producer), `Crash` |

Every system call is a step of its own, since other instances and the producer
act in between. A failing call is a disjunct of its action that spends one of
`MaxFaults`. `checkSubfolders` chooses between `filepath.Walk`, which skips an
entry that is gone, and the `ReadDir` loop, which then visits nothing more.
There is one subfolder. `Producer` says how paths are used: `"once"`, `"fresh"`
(again when the path is free) or `"rewrite"`. A write is one step: half-written
files are not modelled. `delivered` and `strayed` are history variables.

`VisitGone` is that of Linux: on Windows `DirEntry.Info` answers from what `ReadDir`
has cached, so that the loop does not end at an entry that is gone but starts a
goroutine, which finds no file to read; the model has this for a file that goes just
after its visit.

`FileDelivery` is what the folder promises: items arrive, are delivered, are
archived, in this order and for good. `Delivers` states that the starter
implements it, with `arrived` mapped to the versions written so far.

### `JmsConsumer`

One goroutine per consumer, `pc` following `ConsumeQueue` and the closure of
`Start`: `Open`, `Poll` (the `select` on `done`), `Receive` or `ReceiveNothing`,
`Handle` (jmsProperties and route), `Reply`, `Ack`, `Close` (the defers). The
Linux and Windows loops are the same. The broker is external and assumed to
behave as JMS says: the queue is a set (any order), what a session has received
and not acknowledged returns to it when the session or connection ends, in AUTO
mode a message is settled once received, in DUPS_OK at any time (`LazyAck`), and
acknowledging one message acknowledges all of the session. Neither prefetching
nor a redelivery limit nor reconnection by the client library is assumed. `runs`,
`replied` and `slipped` are history variables.

`QueueDelivery` is what a queue starter promises in the modes that promise
something: messages arrive, run and are settled; in CLIENT mode settled after a
run and not run again, in AUTO run at most once. `KeepsDelivery` states that
`JmsConsumer` implements it. `Reply` is one call of
`PublishTextMessage`, which may fail with the reply already sent. `Fickle` are the
messages whose reply queue may go without any fault of the bridge, so that `Reply`
fails; `bridge` uses it.

### `Route`

Every configuration in `ProcLists` and `LinkLists` is an initial state, the ill
formed ones too. `InitRoute` is `Route.Init`; `Execute`, `Process`,
`ProcessFails`, `NotFound` and `Return` are the loop of `Route.Execute`, with the
two maps as the operators `ById` and `NextId` (the last entry wins). Starting the
starters at the end of `Init` is left to the life cycle. `ran` counts to two.

### `RequestReply`

One call of `jms_send` at a time per caller: `Prepare` (all up to `SetReplyTo`,
with the temporary queue), `Send`, `OpenReply` (the consumer is created after the
send), `ReceiveReply`, `Timeout` or `ReceiveFails`. `open` holds the handles of the
EMS library, `Opened` in which order they are created and `Released` which of them
the defers of each platform close, so that every error exit of
`PublishTextMessage` leaves what the code leaves: on Linux the handle of the reply
queue, temporary or named, which no exit destroys; on Windows nearly all.

`RunDeferred` is what a call that has waited does on its way out. Deferred calls run
last first: the temporary queue is to be deleted (`DeleteQueue`) *before* its consumer
is closed. A broker refuses to delete a queue that has a receiver, as JMS
prescribes, and the code looks at no status; so the queue stays, as do those of the
error exits before the wait. The mutant `DeleteClosed` is the other order. A queue
goes when the connection is lost (`Disconnect`, `linked`), which nothing in the
program opens again; from then on every call of the library fails.

The service that answers is external: it may answer late, never, or again after a
redelivery. `got` is the request whose reply ends up in the payload; bodies are not
modelled (an empty one leaves the payload alone, see the findings).

`RemoteCall` is what a request and its reply promise to the one who asks: a call
that returns has the result of that very call, made by a service that got it; it
may fail at any time, served or not, and may be served late, again or never.
`KeepsCalls` states that `RequestReply` implements it, with `got` as the result,
and `AnswersRequests` that the two bridges of `Bridge` do, with an HTTP request as
the call, status 200 as its return and the runs of the back route as the service.

### `RestStarter` and `Bridge`

`RestStarter` is the HTTP handler: the exits before the route, the route, and the
answer (JSON only for payloads other than text). `Bridge` composes it with
`RequestReply` and `JmsConsumer`: a front bridge answers HTTP requests with the
reply to the request its `jms_send` puts on a queue, the consumers of a back
bridge take the request, run a route and reply to the temporary queue. Shared
actions are conjunctions (`Post` is `Accept` and `Prepare`, `Send` is the send and
the arrival in the queue); `requests` and `answered` of `RequestReply` become the
requests the back bridge has still to answer (`Pending`) and `replied`. `ServesCalls`
states that the composition refines `RequestReply`: the consumers are one of the
services it allows. The back bridge may
crash or lose its connection (`Upset`); the front one may lose its own, and with it
all temporary reply queues, or a wait may fail (`FrontFails`). A crash of the front
bridge is not modelled: its clients get no answer, and the back bridge sees what it
sees of a lost connection.

### `KeyStore` and `AppLifecycle`

`KeyStore` is the keys table with the processes that seed it (`Count` and `Insert`
are two statements without a transaction), encrypt and decrypt. `AppLifecycle` is
`main`: `Seed`, `Load` (files, decryption, `NewApplication`), `Connect` one component
at a time, `InitRoute` one starter at a time, `Listen`. Any error is `Exit`, which
returns what consumers hold to the queue (CLIENT mode). Meanwhile the consumers
of routes that have been initialised `Take` messages and `Finish` them, or
`GiveBack` when the route or its reply fails: always if `jms_send` meets a component
without a connection, else as one of the `MaxFaults`. That ends the consumer for as
long as the process lives, so that a bridge may serve and answer /health with no
consumer left. A lost acknowledgement is left to `JmsConsumer`. `Refused` says when
the mux panics: a pattern that is registered or, by the constant `Conflicts`, in
conflict with one (a malformed one counts as in conflict with /health). A
configuration is a value of `Configs`; `Lookup` is the registry, in
which a later component replaces an earlier one of the same name. Several
processes share the key store, the queue and the port; the encr tool prints
ciphertexts which the operator may put into the configuration (`Edit`).

## Runs

All passing runs together fire every action. `CHECK_DEADLOCK` is off wherever a
system may rightly end: a stopped poller, ended consumers, callers out of calls.

| run | instance | shows |
|---|---|---|
| `file_single` | 1 starter; a top file, a top file the filters reject and a subfolder file; 1 slot; names reused once, 2 failures | `TypeOK` (with the slot bound), `RedeliveryExcused`, `LiveLocksKept`, `ScanEnds`, `StopEndsPolling` |
| `file_cluster` | 2 starters, 2 files written once, no subfolder, 1 failure | `NothingLost`, `TopFilesDrained`, `Delivers` hold although locks are stolen |
| `file_lock_theft` | as above, no failure | **violated**: `MutualExclusion` |
| `file_stale_path` | as above, paths written again once free | **violated**: `ArchivedWasDelivered` |
| `file_overwrite` | a top file and a subfolder file of the same name, no failure | **violated**: `NothingLost` |
| `jms_consumer` | 2 consumers, 3 messages (plain, with JMSReplyTo, rejected by the selector), all modes, 2 failures | `TypeOK`, `AckedWasRouted`, `AutoAtMostOnce`, `RerunExcused`, `KeepsDelivery`, `QueueServed`, `StopEndsConsumers` |
| `jms_lost_connection` | a lost connection | **violated**: `LostConnectionEndsConsumers` |
| `route` | all lists of up to 3 ids and 3 links (with empty ids up to 2) | `TypeOK`, `ChainRunsAll`, `LinkOrder`, `ExecuteReturns` |
| `request_reply` | 2 callers, 2 calls each; temporary queues on either platform, and no reply; 2 failures, one of which may be the loss of the connection | `TypeOK`, `OwnReply`, `KeepsCalls`, `LinuxReleasesHandles`, `CallsReturn` |
| `reply_crosstalk` | `replyDestination` set | **violated**: `OwnReply` |
| `bridge` | 2 clients of one request each, 2 consumers, AUTO and CLIENT, with and without timeout, one request the back route rejects, a failure or lost connection on each side | `TypeOK`, `AnswersRequests`, `RoutedOnce`, `LateRepliesAccepted`, `ServesCalls`, `PostsEnd`, `PatienceRewarded` |
| `app_startup` | 2 bridges, 1 encr tool, 2 key values, 1 message, 8 configurations (one good, one that names no component, one that does not parse, five with errors found late), 1 failure | `TypeOK`, `SecretsReadable`, `WorkOnlyWhenReady`, `HealthyMeansComplete`, `SomeoneServes`, `MessagesGetThrough` |

A violated property states what a comment or the documentation says;
`PROJECT.json` quotes the line next to each. `NothingLost` and `Delivers` hold in
`file_cluster` because its names are distinct and used once, which is what the
output folder needs: `file_overwrite` shows what equal names do, `file_stale_path`
what several instances do to names that come again. With one instance and names
reused only once free, nothing else moves a file that is being worked on; that case
is left to the proof (`DeliveredBeforeArchived`). Every property of a passing run has
a mutant, a definition marked `Mutant:`, under which TLC finds
it violated.

**Bounds.** One slot is the smallest semaphore that makes the walk wait for a
goroutine; the code's four only add files. Two starters suffice for a stolen
lock, because the victim's and the thief's scans need not overlap further. Two
failures allow a crash in the recovery from an error. Two versions of a path are
the least that make a stale read visible. Two consumers are the least for a
message to move to another goroutine, and two selected messages for one
acknowledgement to cover another. Three processors are the least with a middle
one, a fork, a join and a cycle apart from the head. Two calls per caller are
the least for a late reply of the first to meet the second; in `bridge` one call
each suffices, as temporary queues are never shared. Two processes are
the least that race for the key store and the port, and one message the least
that goes back from one to the other.

**Fairness.** The Go scheduler runs every goroutine that can run: weak fairness
of each poller, worker, consumer and caller, which includes that the calls they
make return (handlers, file system, timers of the polling interval, the receive
timeout). In `AppLifecycle` the start-up of each process and the routes at work
are weakly fair. Nothing obliges producers, `Stop`, crashes, restarts, or the
service that answers requests in `RequestReply`; in `Bridge` that service is the
consumers, which are fair. The only strong fairness is the broker's: a message
that consumers ask for again and again is handed out at last. `TopFilesDrained` and
`QueueServed` are conditional on an instance that keeps serving, `CallsReturn` on
a `replyTimeout`, `ExecuteReturns` on a configuration without cycles.
`SomeoneServes` and `MessagesGetThrough` need a good configuration and somebody who
restarts what has exited, `MessagesGetThrough` also that in the end the bridge that
serves has a consumer left (`ConsumersLeft`): without that premise TLC finds a serving
bridge whose consumer has ended, and another that takes the message and, for want
of the port, gives it back for ever. `PatienceRewarded` needs that nothing fails and
a consumer is left. A wait without a timeout need not notice a lost connection.

## Proofs

Each theorem holds for every value of the constants: any number of instances,
consumers, callers, processes, files, messages and failures, lists of any length.
The only axioms are the named assumptions on the constants in the modules, which
TLC evaluates on each run. They give types, and say that `Consumers` is finite;
`BridgeAssumption` adds that the front bridge uses temporary reply queues, which
is what `Bridge` models. Further conditions are stated in the theorem.

| module | theorem | states | under |
|---|---|---|---|
| `FileEventStarterProofs` | `TypeCorrect` | `TypeOK` | - |
| | `DeliveredBeforeArchived` | `ArchivedWasDelivered` | no path written twice, or one instance and no overwriting in place |
| | `LoneStarterKeepsLocks` | `LiveLocksKept` | one instance |
| | `LoneStarterRedeliversOnlyStrays` | `RedeliveryExcused` | one instance, `outputFolder` set, no overwriting in place |
| | `FolderDelivers` | `Delivers` (refines `FileDelivery`) | `WrittenOnce`: no path written twice, distinct names |
| | `FilesAreKept` | `NothingLost` | `WrittenOnce` |
| | `ScansComeToAnEnd` | each step of a scan leaves less of it to come | - |
| | `StoppedPollersReturn` | a stopped poller only goes towards its return | - |
| `JmsConsumerProofs` | `TypeCorrect` | `TypeOK` | - |
| | `AcknowledgedOnlyRouted` | `AckedWasRouted` | CLIENT mode, in the property |
| | `RerunsAreExcused` | `RerunExcused` | CLIENT mode, in the property |
| | `AutoRoutesOnce` | `AutoAtMostOnce` | AUTO mode, in the property |
| | `StarterDelivers` | `KeepsDelivery` (refines `QueueDelivery`) | - |
| | `NoMessageVanishes` | an arrived message is settled, queued, or held by one live session | - |
| | `StopWindsDown` | after `Stop` each step of a consumer brings it nearer its end | - |
| `RouteProofs` | `TypeCorrect`, `FollowsLinks` | `TypeOK`, `LinkOrder` | - |
| | `RunsEveryProcessorOnce` | `ChainRunsAll` | acyclic, and for "every" well formed, in the property |
| | `RoundsRunOut` | each round of `Execute` leaves fewer processors to come | acyclic, in the property |
| | `FindsProcessors` | no step of `Execute` is `NotFound` | well formed, in the property |
| `RequestReplyProofs` | `TypeCorrect` | `TypeOK` | - |
| | `CallsRemotely` | `KeepsCalls` (refines `RemoteCall`) | no `replyDestination` |
| | `TimeoutIsNoSuccess` | a call that expects a reply returns with one that was sent | - |
| | `CallsGetOwnReply` | `OwnReply` | no `replyDestination`; with one it is false (`reply_crosstalk`) |
| | `LinuxClosesAll` | `LinuxReleasesHandles` | - |
| | `QueuesStay` | no call removes its temporary queue while the connection lasts | - |
| `AppLifecycleProofs` | `TypeCorrect`, `WorksOnlyWhenReady`, `HealthyIsComplete` | `TypeOK`, `WorkOnlyWhenReady`, `HealthyMeansComplete` | - |
| | `SecretsStayReadable` | `SecretsReadable` | `PrefixesDiffer`: no two keys share the digits they are looked up by |
| | `KeysAreForGood` | no key or printed ciphertext is removed or replaced | - |
| | `OneServes` | at most one bridge of a host serves | - |
| | `OnlyExcusedExits` | with a `Good` configuration a bridge exits only for a fault, a lost seed race or a taken port | `PrefixesDiffer` |
| | `MessagesMoveOn` | done messages stay done; with a `Good` configuration only an exit, or a failure that ends the consumer, gives a message back | - |
| `BridgeProofs` | `TypeCorrect`, `RoutesOnce`, `LateRepliesEndNobody` | `TypeOK`, `RoutedOnce`, `LateRepliesAccepted` | - |
| | `ServiceIsAllowed` | `ServesCalls` (refines `RequestReply`) | - |
| | `BridgesAnswer` | `AnswersRequests` (refines `RemoteCall`) | - |
| | `AnswersAreOwn` | status 200 goes with one's own reply | - |

Few of the properties are inductive. What is added to them, and why:

- `file_event`. The slot bound follows because only `TakeSlot` makes a file
  busy, and only when fewer than `Slots` are (`SlotsStep`, by cardinality).
  `MoveFile` archives the version the path has *now* while `Handle` delivered the
  one *held*; `CurrentInv` adds that a goroutine that has read a file holds its
  current version, that a handled version is delivered, and that nothing
  delivered is newer than what has been written. With one instance the path stays
  present while its goroutine holds it, so that `Write` cannot touch it; with
  several the invariant rests on paths not being reused: locks do not help, as
  `file_lock_theft` shows. `LockInv` says that goroutines exist only during the
  walk, which is what `wg.Wait` establishes. `ScanInv` (an entry still to be
  visited has no goroutine) and `StrayInv` (a present, delivered version is about
  to be moved or has strayed) give `RedeliveryExcused`. With `OnceInv`, `Write` maps
  to `Arrive`, the first `Handle` to `Deliver`, `MoveFile` to `Archive`. `KeptInv`
  adds that there is one version of a path, so that a move replaces only itself.
  `ScansComeToAnEnd` gives a scan a variant: what `ToCome` holds only shrinks, a
  goroutine starts only for an entry that leaves it, and moves only forward.
  `BelowInv` is needed for the walk into the subfolder.
- `jms_queue_consumer`. `Owned` says where a message can be: in the queue, settled,
  or held by one session, and in the hands of at most one goroutine; `Kept` that it
  is somewhere. `ClientInv` is what makes acknowledging *all* of a session safe:
  all a session holds beyond the message at hand has been routed and replied to,
  because a handler error ends the goroutine. `RerunInv` follows
  a routed message back to the queue, and `PaidInv` adds the count: a message that
  is back in the queue has run at most as often as there were failures, one in
  hand or settled once more. `EndedInv`, that an ended consumer's session holds
  nothing, makes `Kept` say that no message is stranded (`NoMessageVanishes`).
  `StopWindsDown` ranks the program counter of a stopped consumer (`StepsLeft`). For the bound on losses, `Doomed` contains
  the messages that are lost or will be, and grows only with a failure and by no
  more than the goroutines have in hand.
- route. The last entry of a list exists (`MaxIsLast`, from the well-foundedness
  of the naturals). `OrderInv` says what the next processor is linked from, `Chain`
  that what has run is a chain from the first processor to `current` (`Trail`). A
  processor reached twice would close a cycle (`NotTwice`), whether or not the lists
  are well formed; so each round takes one out of the finite set of those left
  (`RoundsRunOut`). At the end each processor left
  out has a predecessor left out, since only `first` has none; this map is injective on a
  finite set, so it is onto, each has a successor left out, and that is a
  cycle too (`NothingLeft`).
- `jms_send`. `QueueInv`: while a call is active, and the connection lasts, its
  temporary queue exists, and a reply lies in the queue of its own request. `GotInv`: what a call that has
  returned has got is its own and has been answered. `MadeInv` adds that nothing is
  asked or answered for a call that has not been made. With them each step is one of
  `RemoteCall` or a stutter (`RemoteStep`): `Prepare` is `Call`, `Answer` is `Serve`, a
  call that gets a reply is `Return`, one that fails or times out is `Fail`. With
  `replyDestination` a call may return with another one's reply, which `RemoteCall`
  does not allow, so it is excluded. `WaitInv`: a call that
  waits has its consumer open, which is why `DeleteQueue` never removes the queue
  (`QueuesStay`).
- life cycle. `Bridging` says of each phase of `Start` what has been connected
  and started (`InPhase`): during initialisation exactly the starters `Before` the
  position. `Queueing` ties work in hand to a started starter, `StoreInv` printed
  ciphertexts to rows of the table that stay. `OnlyExcusedExits` goes through every
  error exit of `Start`: a bridge that loads finds a key (`Keyed`), and it opens the
  password (`LoadWorks`); the starter that `Init` has come to is not among those
  started, so its uri is free, and what it refers to is connected (`StartWorks`).
- two bridges. `BridgeProofs` takes the lemmas of `RequestReplyProofs` and
  `JmsConsumerProofs` through INSTANCE: a step of the whole is a step of each
  component or leaves it alone (`ConsumersStep`, `CallsStep`), so that both
  components' invariants hold together (`Parts`). `CallsStep` is the refinement: a
  reply is `Answer`, a message that is dropped is `Lose`, one that comes back after
  its reply is `Redeliver`. It needs `Owned` and `Kept`: that nobody else answers the same
  request, and that a request whose consumer dies is still at the broker.
  `BridgesAnswer` composes: `GotInv` and `ClientInv` say that what an HTTP request is
  answered with is the result of its own call, `Kept` that this was routed.
  `RoutesOnce` rests on `OnceInv`: the queue of every request that arrived is still there
  while the connection of the front bridge lasts (`SentInv`, from `QueuesStay`), so that
  a reply that finds its queue gone has an excuse, which lasts (`QueueGone`,
  `ExcuseLasts`). `LateRepliesEndNobody` is the other half of it.

Only model-checked: all liveness (`TopFilesDrained`, `ScanEnds`, `StopEndsPolling`,
`QueueServed`, `StopEndsConsumers`, `ExecuteReturns`, `CallsReturn`, `PostsEnd`,
`PatienceRewarded`, `SomeoneServes`, `MessagesGetThrough`), as fairness and ENABLED
are out of the prover's reach. What these need of single steps is proved for some:
the variants behind `ScanEnds`, `StopEndsPolling`, `StopEndsConsumers` and
`ExecuteReturns`, that no message is stranded for `QueueServed`, and which exits and
which ways back into the queue there are for `SomeoneServes` and
`MessagesGetThrough`. That the steps are taken, and the well-founded argument over
them, stay with TLC. All safety properties of passing runs are
proved, under the conditions above. `MutualExclusion` and
`LostConnectionEndsConsumers` are false and have counterexamples instead.

## Not modelled, and why

The EMS C library, DLL loading and header copying are straight-line calls. Values
(payloads, expressions, property values, priorities, expiration) do not influence
the control modelled here. File name filters are a set of paths; their regular
expressions are not evaluated. YAML decoding and AES-GCM are data transformations
without state; two keys that share their first eight digits are left out. The
transformer is a processor like any other in `Route`. `Stop` of a component is
called by nothing. TLS changes nothing above the listener. Empty reply bodies, and a failed
acknowledgement in `AppLifecycle`, are left out as said above.
