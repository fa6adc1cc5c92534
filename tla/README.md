# ServerEye: verification project

TLA+ models of ServerEye (Go), a Telegram bot that administers servers through
agents: the bot sends commands to an agent over Redis, the agent executes them
and answers. The models are translated from the code under `src/`. TLC checks
them on small instances; TLAPS proves the safety properties, and that the
detailed modules implement the abstract ones, for every instance.

    tlc -workers 2 -config CommandStreams_safety.cfg MCCommandStreams
    tlapm CommandStreams_proofs.tla

## 1. The system

| Part (source) | State it keeps | Operations | How it interacts |
|---|---|---|---|
| Callers in the bot (`internal/bot/api*.go`, `streams_api.go`) | one stack frame per call: deadline, poll cursor, subscription | `sendCommandAndParse`, `sendCommandViaStreams`, `sendCommandViaPubSub`, `getContainers` | XADD/XREAD or SUBSCRIBE/PUBLISH in Redis; Streams first, Pub/Sub as fallback |
| Streams adapters (`pkg/redis/streams`) | none beyond the Redis client | `AddMessage`, `ReadMessages`, `waitForResponse`; consumer groups (no caller) | go-redis, which repeats a command whose reply was lost |
| Pub/Sub client (`pkg/redis/client.go`) | one goroutine and a channel of 100 per subscription | `Publish`, `Subscribe`, `Close` | the same |
| Redis proxy (`internal/bot/http_server.go`) | none | XADD, XREAD, publish, subscribe, key registration | the agent's only way to Redis when `API.BaseURL` is set |
| HTTP Pub/Sub client (`pkg/redis/http_client.go`) | a polling goroutine per subscription | `Publish`, `Subscribe`, `Close` | the proxy |
| Agent (`internal/agent/agent.go`, `helpers.go`) | read position, batch, response in hand | `handleCommandsViaStreams` or `handleCommands`, `processCommand`, `Start`, `Stop` | Redis through the proxy, or directly |
| Agent update (`internal/agent/update.go`) | four files, shared by all update goroutines | `performUpdate`: download, `verifyChecksum`, backup, replace; `restartAgent` | GitHub, the file system, systemd, which ends the process; its end kills the goroutine |
| Metrics (`internal/agent/metrics_collector.go`, `pkg/publisher`, `pkg/kafka`, `pkg/metrics/system.go`) | the Kafka writer, `prevNetStats` shared by two goroutines | `GetNetworkInfo`, `collectAndSendMetrics`, `publishMetricToKafka`, `Publish`, `Close` | Kafka |
| Registry (`internal/bot/database.go`) | tables `generated_keys`, `servers`, `user_servers` | `connectServerWithName`, `removeServer`, key registration | PostgreSQL, several bot instances |
| Menus (`servers.go`, `utils.go`, `callback_*.go`, `monitoring.go`, `containers.go`) | none: the state is in the user's chat | commands with a number, buttons with a number | registry, then the command path |
| Bot life cycle (`bot.go`, `cmd/bot`) | update channel, shutdown channel | `Start`, `handleUpdates`, `Stop` | Telegram |

What is hard in it: callers that share two streams; an agent that reads from
"$" and restarts; replies of the proxy and of Redis that are lost after the
effect; two transports with different guarantees behind one deadline; SQL
transactions without locks on several instances; buttons that outlive the list
they were made from; updates that overlap on the same files, or that the end of
the process cuts in two; a map that two goroutines use without a lock. Each
such place is a hazard in `PROJECT.json`, with the property that covers it or
the module of the plan that will.

What makes each part correct:

- command path: a caller gets the answer to its own command; a call ends; the
  agent executes what it received, in order, and nothing that nobody sent;
- registry: rows and links agree, one row per key, only registered keys, no
  user loses what another removes, every transaction ends, and additions and
  removals of links that exist do not deadlock;
- menus: a request acts on the server the user meant, and on no one else's;
- life cycle: updates are handled in order and none is skipped, connections
  outlive the handlers that use them, a stop ends;
- update: an update that ran alone installs what the checksums name, and a
  binary that an update broke has a backup;
- metrics: a network speed shows the traffic since the reading before it;
- agent's process: however it ended, the agent serves again; its `Stop` ends
  although goroutines still publish.

## 2. Modules

| Module | Models | Checked by | Lines to read first |
|---|---|---|---|
| `CommandRPC` | the promise of the command path to its callers (abstract) | refined by the two below | `streams_api.go:14` |
| `CommandStreams` | the path over Redis Streams | `command_streams_*` | `bot_adapter.go:26`, `agent.go:400` |
| `MCCommandStreams` | symmetry of the callers | | |
| `CommandStreams_proofs` | the theorems | tlapm | |
| `PubSubCommands` | the path over Pub/Sub and the two fallbacks | `pubsub_*` | `streams_api.go:41`, `api.go:50`, `agent.go:232` |
| `PubSubCommands_proofs` | the theorems | tlapm | |
| `Registry` | the promise of the registry (abstract): who is connected to what | refined by the two below | `database.go:196,272` |
| `ServerRegistry` | the transactions on the registry, statement by statement | `server_registry*` | `database.go:196,272` |
| `ServerRegistry_proofs` | the theorems on tables and transactions | tlapm | |
| `ServerRegistry_deadlock_proofs` | the theorem on which transactions can wait in a circle | tlapm | |
| `ServerMenu` | which server a command or button acts on | `server_menu*` | `callback_router.go:18`, `callback_servers.go:224` |
| `ServerMenu_proofs` | the theorems | tlapm | |
| `MCServerMenu` | symmetry of users and servers | | |
| `BotLifecycle` | start, update loop, signals and stop of the bot's process | `bot_lifecycle*` | `bot.go:191-334`, `cmd/bot/main.go:53` |
| `BotLifecycle_proofs` | the theorems | tlapm | |
| `AgentUpdate` | the goroutines of updates and the files they share | composed below | `update.go:94` |
| `AgentMetrics` | readings of the network counters, the Kafka publisher | composed below | `system.go:314`, `metrics_collector.go:13` |
| `AgentProcess` | the agent's process: command loop, collector, updates, signals, systemd | `agent_process` | `agent.go:206`, `cmd/agent/main.go:72` |
| `AgentMetrics_proofs` | the theorems about the readings | tlapm | |
| `AgentProcess_proofs` | the theorems about types, updates and what `Stop` waits for | tlapm | |

### CommandStreams

A stream is the sequence of all entries ever added; an entry's ID is its
position, which is what the code relies on (IDs grow). `cmdTrim` is how far
MAXLEN has trimmed the command stream; the response stream is written by the
proxy, which never trims. A call (`state`, `cursor`, `expired`, `answer`) goes
`idle -> (sending) -> waiting -> done`, or through `fallback` to `failed`.
`cursor` is the local `lastID` of `waitForResponse`. The agent's `agentPc` is
the point of `handleCommandsViaStreams` it has reached: `idle` (top of the
loop), `blocked` (XREAD BLOCK), `replied` (the reply is on its way), `working`
(the batch `lo..hi` in hand), `executed` (`processCommand` is about to send).
`firstRead` is the code's own flag: "0" the first time, "$" afterwards.

Failures, each counted by `faults`: a lost reply of XADD on either side, which
go-redis answers with a second XADD (`SendCommandRepeats`,
`SendResponseRepeats`) or which reaches the caller as an error with the entry
added (`SendCommandError`); a lost read reply; a panicking handler; a lost
response; a restart of the bot. The agent may stop in any state (`AgentStops`)
and starts with fresh locals.

### PubSubCommands

For agents without `API.BaseURL`. Redis keeps no message, so `Publish` either
delivers to the agent's subscription at once or the command is `lost`. A call
makes one attempt, `getContainers` a second with a new command ID and a timer
of its own. `Accepts` is the ID comparison of `getContainersViaPubSub`, which
compares with the ID of the response message; `handleGetContainers` makes that
one anew, so the second attempt never accepts anything. `repeated` marks the
commands whose PUBLISH the Redis client repeated. The agent's queue (100 in
go-redis and 100 in the wrapper) is unbounded here: the instances never get
near it. An answer with another status ends the call with an error, but sends
`getContainers` into its second attempt (`ReceiveError`). `BotStops` is the part of the bot's `Stop` that a call sees: `b.ctx`
is cancelled and the subscriptions are closed. A context made from `b.ctx` is
done at once (`ContextDone`); a call that waits with a deadline of its own
receives from a closed channel, which returns at once until the deadline
(`WaitOver`). When an outage has lost the reply of a PUBLISH, `PublishFails`
may follow without a new fault: one outage outlasts all repetitions.

### ServerRegistry

`txn[i]` is the open transaction of instance `i`: its next statement, its
locals and what it has written. A statement sees the committed tables and its
own writes (READ COMMITTED, the default of `db.Begin()`), and is taken when it
is `Granted`: `WaitsFor(i, j)` says when PostgreSQL makes the next statement of
`i` wait for `j`: row locks of updates and deletes, uncommitted rows of the
same unique key, foreign keys. An UPDATE of a name and an INSERT of a link to
the row do not wait for each other (`FOR NO KEY UPDATE`, `FOR KEY SHARE`). The
last statement of `removeServer` waits twice: `DeleteServer` for whoever has
locked the server's row, and then, with the row taken, `CheckReferences` (the
foreign key of `user_servers`) for whoever has deleted a link to it and may
still put it back. A statement whose precondition turned false while it waited
ends the transaction. When transactions wait in a circle PostgreSQL aborts one
of them (`DeadlockVictim`, a `Rollback` that must come; `Rollback` alone may
come at any time). `alone` is history for the properties about transactions
that nothing overlapped. Names, roles and timestamps are left out, and so is
the existence of the user's row: only /start registers a user (`registerUser`,
`handlers.go:87`), so the /add of a user who never sent it fails on the foreign
key of `user_id`, which is one more `Rollback`. `registered` and
`members` of `Registry` are the committed keys and the pairs of user and key
that the committed rows and links join; each commit is one step of it, or none.

### ServerMenu

`created` is the table of servers in the order of `ORDER BY created_at DESC`,
`linked` the user's servers, `Selection` what the query returns of them (the
rows with a link, in that order, stated by what they are and not how they are
found), `chat` the messages with buttons a user sees, and
`presses` the callback queries that wait in the channel of `handleUpdates`.
Each handler is one step because that loop is serial; the model therefore
describes one instance, with the registry's transactions one at a time. A
button remembers which server it was made for (`meant`) and the list shown,
only to state the properties: the handlers use its number alone.

### BotLifecycle

`main` is where the main goroutine is: in `Start` until `b.shutdown` is closed,
then in `main` itself. `stop[l]` is the call of `Stop` that a listener makes:
`handler` is the goroutine of `setupGracefulShutdown`, which reads one signal,
`main` is the wait at the end of `main()`. Both channels hold one signal, and a
signal before the first listener kills the process. Updates go from Telegram
(`sent`, `forgotten`) through the library's goroutine (`batch`, `offset`) and
its channel to `handleUpdates` (`current`, `handled`). Telegram, its library
and the delivery of signals are external; the library's channel has 100 places,
here 2. A cancelled `b.ctx` ends a handler's call to an agent
(`api_helpers.go:24`), but the handler then still answers the user. It may hang
there, because the Telegram client has no deadline, so its end is left open; a
handler that panics ends like one that returns (`processUpdate` recovers). The
end of `main()` is no action: `main` never comes back from its own `Stop`,
because `StopReceivingUpdates` closes a channel of the library that is closed
already, and panics (`StopReceiving`; `close(b.shutdown)` would come next). A
poll that is under way when the library is told to stop may still bring its
updates (`receiver = "last"`).

### AgentUpdate

`file` is the content of the download (`tmp`), the installed binary (`opt`) and
its `backup`: a release, `Damaged` (incomplete, or mixed of two) or `Absent`;
`sums` is the release that the checksum file is about. `step[c]` is the
statement of `performUpdate`, `verifyChecksum` or `replaceAgentBinary` that the
goroutine of command `c` is at, `upd[c]` its locals: the file wget has open
(`fd`), the checksum read (`expected`), what a copy has read (`saved`). wget
and a copying cp or mv write over a span of time, so each is a first and a last
step; the checksums, one line, come in one. sha256sum (`Verify`) and the
removal of the checksum file after it (`SumsRemoved`) are two steps, between
which another update may write the file. `odd` and `installed` are history
for the two properties. What an open file is called follows its renames: a slow
download that another update has moved to `/opt/servereye` writes on in the
installed binary. mv is a rename if both directories lie in one file system,
and a copy otherwise, so both are there. With `ProtectSystem=strict` the unit
forbids both mv and cp (`ReplaceFails`, `BackupFails`); an agent that was
started otherwise can do them. `UpdatesDie` loses `/tmp` or keeps it, because
only the unit has `PrivateTmp`. The rollback by hand is the operator's and not
modelled.

### AgentMetrics

One interface, whose counter has `CounterValues` values instead of 2^64. A
reading is its value, with history: what was received in all, and before the last
reset. `prev` is `prevNetStats`, which the command loop and the collector both
compare with and then overwrite; the overwriting is a span (`storing`), in
which another access to the map may end the process (`MapRace`). `publishing` are the
goroutines of `publishMetricToKafka` that have not come to `WriteMessages`, and
may find the writer closed when they do (`BeginWrite`); `writes` are the
`WriteMessages` under way. kafka-go gives up a write whose context is done,
but the write goes on; `Close` waits for all of them. Metrics without a reading
that depends on an earlier one (CPU, memory, temperature) are not
distinguished.

### AgentProcess

Composes the two. `main` is `serving` until a signal, `stopping` and `closing`
in `Stop`, then `stopped` or `dead`; `life` counts processes. The command loop
is `firstRead`, its batch `inbox` and the command whose reading is under way
(`current`); what a read may return is what `CommandStreams` shows of it,
without the failures. An update's restart sends the signal that a stop by the
operator sends, and systemd starts the binary again whatever ended the process,
unless it is broken. Kafka is taken to be enabled: without it nothing is
published and nothing is collected. Error responses are not published.

## 3. Runs

| Run | Instance | Shows |
|---|---|---|
| `command_streams_safety` | 2 callers, COUNT 2, MAXLEN 2, 2 lives, 2 faults; 1.5 million states | `OwnAnswer`, `NoMissedAnswer`, `InOrderPerLife`, `AnswersInRunOrder` |
| `command_streams_liveness` | the same with 1 fault; 0.2 million states | implements `CommandRPC`; `CallsEnd`; `ReceivedIsExecuted` |
| `command_streams_received` | no fault, no restart | **violated**: a command may never be received (`docs/ARCHITECTURE.md:121`) |
| `pubsub_commands` | a plain call and a `getContainers`, 2 lives, 2 faults, a stop of the bot; 126 thousand states | `OwnAnswer`, `AtMostOnce`, `NoLostReply`, implements `CommandRPC`, `CallsEnd` |
| `pubsub_fallback` | 1 call, no fault, prompt deadlines | **violated**: the fallback after Streams has no time left |
| `server_registry` | 2 users, 2 keys, 2 instances, 3 server IDs; 263 thousand states | implements `Registry`; `Consistent`, `OnlyGeneratedKeys`, `OnlyLinklessRemovalsDeadlock`, `OthersKeepTheirs`, `AloneLeavesNoOrphan`, `AloneConnects`, `TransactionsEnd` |
| `server_registry_orphan` | the same | **violated**: two removals leave a server without a user |
| `server_menu` | 2 users, 2 servers, 1 message and 1 waiting press; 68 thousand states | implements `Registry`; `OwnServersOnly`, `UnchangedListHits`, `OthersKeepMyNumbers` |
| `server_menu_stale` | 1 user, 2 servers | **violated**: a stale button acts on another server |
| `bot_lifecycle` | 3 updates, channel of 2, 2 signals, 2 lives; 150 thousand states | `NoGap`, `ClosedOnlyWhenIdle`, `PanicsOnlyAfterStop`, `StopEnds`, `UpdatesHandled` |
| `bot_lifecycle_signal` | 1 update, 1 life | **violated**: a stopped bot's process goes on |
| `agent_process` | 2 pieces of work (commands or rounds of the collector), 2 releases, 2 lives, counter of 4 values, 1 reset; 1.42 million states | `AloneInstallsVerified`, `BrokenHasBackup`, `SpeedIsTraffic`, `ComesBack` |

Why these bounds are enough to be interesting:

- Streams: two callers are what foreign answers need. Two commands, a repeated
  XADD and COUNT 2 give batches of one and of several entries and responses
  that do not fit one poll window; MAXLEN 2 is exceeded by the third entry; a
  second life re-reads a stream that was executed before. Two faults allow a
  repetition on each side of an exchange. The proofs do away with the bounds.
- Pub/Sub: the two kinds of call meet in the agent's queue; two lives lose the
  queue and the response in hand.
- Registry: every conflict is between two transactions on one key; two
  instances give all pairs, two users all combinations of own and foreign
  links, and a second key shows that it is left alone. A third ID lets a server
  be deleted and inserted again while an old one is remembered.
- Menu: with two servers every off-by-one hits the wrong one or none. One
  message suffices because handlers never read the chat. A press may still
  become stale, because commands run while it waits. The same model with two
  waiting presses (2.2 million states) passed too, but takes longer than a run
  should.
- Life cycle: one signal for each listener, and one life more to start from what
  Telegram still has. Three updates fill the handler and the channel at once.
- Agent's process: two update commands are two goroutines on the same files; a
  second life executes both again. A get_network_info command and a round of
  the collector are two readers of the map. With a traffic of 2 and one reset a
  counter of 4 values wraps.

Deadlock is checked in every run but those of `BotLifecycle` and
`AgentProcess`, where a process that has ended, or one without work left, is
done. `PubSubCommands` has an explicit `Finished` step for the end of all
calls; in the others something can always happen.

Fairness (liveness runs only). The bot's and the agent's goroutines keep
running, go-redis ends its repetitions, the deadlines of Go's contexts pass,
BLOCK ends, and systemd restarts the agent (`Restart=always`,
`scripts/servereye-agent.service:12`): weak fairness on those steps. No
fairness makes a user act, makes anything fail, or makes a fault stay away.
A statement of a transaction gets strong fairness: PostgreSQL queues lock
waiters, so a waiting statement is not overtaken for ever. `DeadlockVictim`
gets weak fairness: a transaction that waits longer than `deadlock_timeout`
looks for a circle. In `BotLifecycle`
nothing makes a handler return: `StopEnds` holds without, because of the
30-second timer, and `UpdatesHandled` has it as its premise `HandlersReturn`.
In `AgentProcess` systemd starts the agent, the two steps of `Stop` are taken,
and a write to Kafka ends by its timeouts (`pkg/kafka/producer.go`); nothing
makes an update, a reading or the collector go on, and `ComesBack` needs none
of it.

### What the violated runs show

1. `command_streams_received` (`agent.go:416`): after its first read the agent
   reads from "$" (only what comes from now on), although it keeps `lastID`.
   What is added while it processes a batch, or between two reads, is skipped.
2. `pubsub_fallback` (`streams_api.go:37`): the fallback inherits a context
   that the Streams attempt has waited out.
3. `server_registry_orphan` (`database.go:226`): write skew of two removals.
4. `server_menu_stale` (`callback_router.go:25`, `callback_servers.go:253`):
   buttons carry list positions, and the list is read again.
5. `bot_lifecycle_signal` (`cmd/bot/main.go:62`): the signal that ends `Start`
   is not the one `main` waits for. A second one makes `Stop` panic in
   `StopReceivingUpdates` (`bot.go:275`).

`ClosedOnlyWhenIdle` names the two ways in which a handler meets closed
connections. One is the timeout of `Stop`. The other is a signal between
`GetUpdatesChan` and `wg.Add` (`bot.go:239-242`): `wg.Wait` returns at once,
and `handleUpdates`, started afterwards, may pick an update although `b.ctx` is
done.

`AloneInstallsVerified` and `BrokenHasBackup` name their exceptions too, each a
way of `update.go` to install what nobody verified or to lose the last sound
binary: two updates at once (`update.go:50`), checksums that cannot be
downloaded (`update.go:106`), a backup that fails (only a warning,
`update.go:131`), and an update tried again after a broken mv, which copies the
broken binary over the backup.

One disagreement has no run, because the installer is a script: when the
registration of the key fails, `scripts/install-agent.sh:229` says that the key
can still be used manually, and `cmd/agent/main.go:233` goes on. But
`connectServerWithName` (`database.go:279`) refuses a key that is not in
`generated_keys` (`OnlyGeneratedKeys`).

## 4. Proofs

Eight modules hold theorems. Each has one inductive invariant, one lemma per
action and under it one step per conjunct that the action can disturb; a
refinement maps the initial states and then every step. The constants are
assumed to be what the code makes them, and TLC evaluates the assumptions in
the runs: natural numbers, positive where the code has a positive constant
(`ConstantsAssumption`, `BoundsAssumption`; the two bounds of `ServerMenu` may
be 0), nonempty sets of users, keys and IDs (`ConstantsAssumption` of
`ServerRegistry`), at least one release (`ReleasesAssumption`). The proofs about
the agent also assume that an interface receives less than a counter can hold
(`CounterAssumption`; with 64 bits it does) and that commands are numbered in
the order of the stream (`ProcessAssumption`).

| Module | Theorems about the runs' properties |
|---|---|
| `CommandStreams_proofs` | `TypeOK`, `OwnAnswer`, `NoMissedAnswer`, `InOrderPerLife`, `AnswersInRunOrder`, `ImplementsRPC` |
| `PubSubCommands_proofs` | `TypeOK`, `OwnAnswer`, `AtMostOnce`, `NoLostReply`, `ImplementsRPC` |
| `ServerRegistry_proofs` | `TypeOK`, `Consistent`, `OnlyGeneratedKeys`, `OthersKeepTheirs`, `AloneLeavesNoOrphan`, `AloneConnects`, `ImplementsRegistry` |
| `ServerRegistry_deadlock_proofs` | `OnlyLinklessRemovalsDeadlock` |
| `ServerMenu_proofs` | `TypeOK`, `OwnServersOnly`, `UnchangedListHits`, `OthersKeepMyNumbers`, `ImplementsRegistry` |
| `BotLifecycle_proofs` | `TypeOK`, `NoGap`, `ClosedOnlyWhenIdle`, `PanicsOnlyAfterStop` |
| `AgentMetrics_proofs` | `SpeedIsTraffic` |
| `AgentProcess_proofs` | `TypeOK`, `AloneInstallsVerified`, `BrokenHasBackup` |

Hardly any of the properties is inductive. What each `IInv` adds, and why:

**CommandStreams.** `BatchInStream`: the batch in hand lies in the stream, and
a batch is only in hand after a successful read. `RunsOfEntries`,
`ResponseOwed`, `ResponsesOfRuns`: a chain from stream entry to execution to
response that carries the command ID, which gives `OwnAnswer` once a poll
compares it. `RunsBeforeBatch`: in this life everything executed lies before
the batch in hand, and "$" never returns an older entry, which gives
`InOrderPerLife`. `CursorInStream`, `NothingReadYet`: a cursor never passes the
end of the response stream, and is 0 until the call waits, so a new response is
always ahead, which gives `NoMissedAnswer`. `RestartLeft` is only for the bound
on lives. The refinement uses `IInv` in `Answer` (the returned response belongs
to an execution of this call) and in `Execute` (what is executed was issued).

**PubSubCommands.** `EmptyUntilSubscribed`: an attempt starts with an empty
channel of its own, so an answer to an earlier attempt or to another call
cannot be in it. `OnlyPublished` with `IdleIsFirst`: what the agent has in its
queue or has run was published by an attempt that exists. `QueuedOnce`: two
copies of a command, queued or run, come from a repeated PUBLISH. That is
`AtMostOnce` one step ahead. `AgentKnows`: an agent that answers has run
something.

**ServerRegistry.** The tables are consistent because of what every open
transaction has written, what it remembers, and what locks and unique keys keep
from the others:

- `Shape`: what a transaction can have written at each statement;
- `FreshRows`: an uncommitted server has a key and an ID that nobody else has,
  by the unique keys that `InsertServer` waits for;
- `DeletedOnce`: two transactions never delete the same row, by its lock;
- `LinkedServerStays`, `DeletedIsUnlinked`: the two sides of the foreign key.
  Whoever inserts a link waits for a delete of its server; whoever deletes a
  server takes its row, for which uncommitted links to it make it wait, and
  then checks the committed ones. Neither finds out too late;
- `UnlinkedIsMine`, `FoundIsMine`: the ID that `removeServer` or
  `connectServerWithName` has read still belongs to its key when it is used;
- `KeysAreGenerated`: the key was looked up, and keys are never taken back;
- `AloneKnows`: a transaction that is alone still finds what it has read, which
  gives `AloneLeavesNoOrphan` and `AloneConnects`. Without "alone" both are
  false (`server_registry_orphan`).

In the refinement only a commit and a key registration change what the tables
say of users and keys. A commit of `connectServerWithName` adds at most the
pair it was called for (`FreshRows`, `FoundIsMine`), one of `removeServer`
takes at most that pair (`UnlinkedIsMine`, `DeletedIsUnlinked`).

**Deadlocks.** There are some. A removal by a user who has no link (he has
removed the server before) counts nobody and takes the server's row, then waits
in `CheckReferences` for another removal that has deleted the last link, and
that one waits for the row; PostgreSQL has to abort one of the two.
`OnlyLinklessRemovalsDeadlock` says that every circle, of any number of
transactions, contains such a removal. A circle is taken apart by what each of
its transactions has written, since only that can be waited for
(`WaitingWrites`). An insertion of a link waits for nobody
(`LinkWaitsForNobody`): the link is new (`LinkIsNew`), so nobody can have
deleted it; its server was inserted or updated by the transaction itself, or is
gone (`FoundIsUpdated`), and such a row is nobody else's to delete
(`UpdatedStays`) or update (`UpdatedOnce`), so nobody can insert the same link
either (`NobodyElsesLink`). With that nobody in the circle has inserted or
updated a server, and what is left to wait for are deleted links and rows. Were
every removal at "check" one that had deleted links, each in the circle would
wait for a removal that has deleted links (`WaitsForUnlinked`), and that one
for another removal of the same server that has too. But of two removals that
found no link left only one has deleted links (`OneHasUnlinked`), which is
`CirclesAreLinkless`. The theorem is the safety core of `TransactionsEnd`: it
says which circles there are to break. That the detector breaks them, and that
a queued statement is served, is PostgreSQL's fairness. The mutant that inserts
the link without the look before it (`LinkExists_Skips`) makes other circles.

**ServerMenu.** The list a query returns is a CHOOSE, so the first thing to
prove is that there is one: were there rows without an ordered list, there
would be a shortest such table, and the list for all its rows but the last
makes one for all (`OrderExists`, by well-foundedness instead of an induction,
which would need an operator parameter). It follows that a list depends only on
the rows it shows (`SelectionAgrees`), that a new server only lengthens it at
the front (`SelectionOfOlder`) and that a removal takes one row out
(`SelectionWithout`). `LinkedExist` ties the links to the rows; `PressesAsShown`
ties the number of a waiting press to the list its message showed, through each
handler's numbering, and `PicksShowOne` says that the container and template
messages still name a first server; from these, an unchanged list is hit
(`Right`). The refinement needs less: an update changes the links of one user by
one server, whichever number it read from whichever list.

**BotLifecycle.** `Contiguous` is `NoGap` piece by piece (handled, in the
handler, in the channel). `BatchFollows`: what was polled follows what was
received, because the next poll asks for the offset after it and Telegram has
not forgotten more than that. `LoopIsWaitedFor`: once a `Stop` is past its
wait, the loop does not run, or `late` says why. `MainStopsSecond`: `main`
listens, is notified and stops only after `b.shutdown` was closed, only the
package's own handler can have closed it, and it has stopped the library before.

**AgentProcess.** What a goroutine knows of the files while it is at a step:
`OpenFiles` (only a download has a file open, and it loses the file's name only
to another update), `AloneIsAlone`, `CheckedIsTmp` (what was compared with the
checksums is what will be installed), `SavedIsSource` (what a copy has read is
what its source still is), `NobodyWritesIt` (no download goes on in a binary
that was verified and installed), `OddIfNotAlone` and `BackupBeforeReplace`
(the binary is sound until the backup of it is). Counters and the collector do
not touch the files and drop out of the proof.

**The readings.** `MapIsLast`: the map holds the reading that was finished last.
`LaterThanMap` and `ComparedWithMap` with `NotBothAlone`: a reading that nobody
has disturbed has compared with what is still in the map when it is finished,
and is not smaller. `ReadingsArePast` and `SameBase`: of two readings with no
reset between them both count from the same base. The subtraction of two
`uint64` is then that of the traffic (`DifferenceIsTraffic`); with a reset, or
with another reading in between, it need not be.

**What liveness rests on.** Fairness and ENABLED are outside what TLAPS does, so
liveness stays with TLC; but in four places the hard part is a safety property,
and that part is proved:

| Liveness | What is proved of it | Why it is the hard part |
|---|---|---|
| `TransactionsEnd` | `OnlyLinklessRemovalsDeadlock` | only removals without a link depend on the deadlock detector; in every other set of waiting transactions somebody waits for nobody in it |
| `ReceivedIsExecuted` | `BatchIsExecuted` | an entry leaves the agent's batch only by its execution or the end of the process, so panics and failed responses before it do not matter |
| `UpdatesHandled` | `UpdatesKept` | while the bot serves, its loop runs, and an update that Telegram keeps is on its way: Telegram forgets only what was received (`NoneForgotten`), and library and loop go on until a `Stop` has cancelled (`GoesOn`) |
| `ComesBack` | `CloseDrains` | what `Stop` waits for is finite and only becomes less: the writer was closed before (`CloseWaits`), so goroutines that still publish, or only begin to, add nothing |

`BatchIsExecuted`, `UpdatesKept` and `CloseDrains` are stated in the proof
modules. What is left to fairness is that a step which stays possible is taken.

Only model-checked: that liveness itself (`CallsEnd`, `ReceivedIsExecuted`,
`TransactionsEnd`, `StopEnds`, `UpdatesHandled`, `ComesBack`), and the
violations of section 3. Every invariant and every action property of a passing
run is a theorem.

## 5. Plan

Done: both transports of the command path with their common specification, the
registry and the menus with theirs, the bot's and the agent's process, updates
and metrics, and the proofs above. What could come next:

| Module | Models | Properties |
|---|---|---|
| `ResponseScan` | the scan of the response stream with time per tick (`bot_adapter.go:71`) | an answer within the deadline if the backlog is short enough, and the bound on the backlog |
| `ConsumerGroup` | `AgentAdapter`, if it gets a caller | acknowledged only after a response; a command that failed is read again (it is not: every read asks for ">") |
| `HTTPSubscription` | proxy subscribe and polling client, if they get a caller again | what is lost between two polls; close while sending |

## 6. Not modelled

- Texts and keyboards, message formats and their JSON conversions, logging, the
  Docker API client, parsing of `/proc`, configuration: no state of their own,
  or only data that no property tells apart.
- Code that nothing reaches: `connectServer`, `AgentAdapter` and the consumer
  group endpoints, `MultiPublisher` (`initializeMetricPublisher` makes one
  publisher at most), `PublishBatch`, and `HTTPClient.Subscribe` with its
  polling (an agent that has `API.BaseURL` always uses Streams). A module about
  one of them would show what a program could do that nobody runs.
- Statements of the registry that stand alone: `keyExists`, `registerUser`,
  `renameServer`. A server's name is shared by all its users, so a rename is
  seen by all of them.
- The proxy's monitoring and statistics handlers, and its handlers for publish
  and subscribe: one request to Redis or PostgreSQL each, without state. They
  go on with closed connections after `Stop`, which does not end the HTTP
  server, and fail one by one.
- The heartbeat, which is sent and not used, and the installation of the agent,
  one pass of file writes and one request, without anything beside it.
- A rollback of an update by hand from the backup: `BrokenHasBackup` says when
  it is possible.
- Telegram, Redis, PostgreSQL, Kafka, GitHub and systemd are modelled only by
  what the code can see of them.
