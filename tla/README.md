# Formal model of cable

`cable` is a game server in Rust on tokio: it accepts player connections (TCP or
WebSocket) and connections of other servers (rpc), hands every message to one
task that owns a Lua state, opens connections to other servers when a script
calls them, and runs the script's timers. These TLA+ modules model the tasks,
the bounded channels between them, the logger and the conversions between Rust
and Lua; check them with TLC on small instances; and prove with TLAPS, for every
size, every safety property, action property and refinement that a passing run
checks; liveness is model-checked only.
All paths below are under `src/cable/src` unless they start with `src/`.

## 1. The system

| Component | Code | State | Operations | Modelled in |
|---|---|---|---|---|
| connection | `network/tcp/{read,write}.rs`, `network/ws/{read,write}.rs` | reader task, writer task, permit, writer's channel | read a frame and `try_send` it; report SocketClosed; write; end with the other half | `Connection` |
| accept loop | `network/tcp/service.rs`, `network/ws/service.rs` | listener, semaphore, counter, back-off | bind, accept, handshake, acquire, register, stop | `TcpService` |
| game hub | `services/game_hub.rs`, `states/game_state.rs`, `states/tcp_state.rs` | receivers of two services, registries `gs` and `rpc_gs`, Lua state | one branch of `select!` at a time | `GameHub` |
| start-up, shutdown | `services.rs`, `services/tcp_hub.rs`, `modules/instance.rs` | who owns which channel end | spawn in order, wait for all, drop the runtime | `GameServer` |
| rpc client hub | `services/rpc_client_hub.rs`, `network/tcp/client_service.rs` | registry, `proceeding_connections`, `delay_msg`, own `Service` | route, connect on demand, delay, flush, forget | `RpcClientHub` |
| robot | `src/robot/src/services/client_hub.rs` | registry, own `Service` | dial all, log in, dispatch or dump, forget | `Robot` |
| timers | `states/timer_state.rs` | two sorted lists, next identifier | add, remove, update | `TimerState` |
| logger | `logger/*.rs` | queue, log files, per file: handle, date, size | stamp, send, write, roll, start again | `LogSink`, `LogBook` |
| script bindings | `luautil.rs`, `protos.rs`, `src/protogen/build.rs` | none | tcp_send, rpc_send, list and table conversions | `ListFields`, `ScriptText`, `ScriptCalls` |

**How they interact.** An accept loop builds both halves of a connection, takes
a permit, sends `(vfd, sender)` to its hub on a bounded channel (awaiting room),
and spawns the two tasks. The reader uses `try_send` for frames (a full channel
drops the frame) and `send().await` for the final SocketClosed. Dropping the
reader returns the permit and closes the writer's `pairdrop`. The hub takes
registrations and messages from *different* channels in one `select!`, so their
order is lost. The rpc client hub and the robot are their own producers: they
send registrations to the channel they receive from. `main` holds a sender that
each task has a clone of, and ends the process when the last one is dropped.
Every task logs into one queue that a plain thread empties.

**What is hard.** Orders between the two channels; a permit whose take and return
are in different tasks and on error exits; blocking sends of tasks that must end;
a hub that dies, or does not exist yet; closes that overtake registrations and
reconnects; three maps (registry, marker, delay queue) changed in different
branches; tasks that wait for themselves; a wall clock that jumps; log files
whose size and day a new process has to guess; lists that count from 0 on one
side and from 1 on the other. `PROJECT.json` lists each hazard at its line, with
the properties that would catch it.

## 2. The modules

    LogBook <- LogSink      ScriptCalls -> ListFields, ScriptText      TimerState

    Connection <- TcpService <- GameHub <- GameServer
    Connection <- RpcClientHub
    Connection <- Robot

(`A <- B`: B extends A; LogSink instead instantiates LogBook, as what it
refines.) The proofs about `X` are in `X_proofs`: `TcpService_proofs <-
GameServer_proofs`, which also has those about GameHub, and `RpcClientHub_proofs`,
`Robot_proofs`, `TimerState_proofs`, `LogSink_proofs` and `ScriptCalls_proofs`. The
last two extend `FlattenTheorems`, lemmas about joining sequences. Each module `X`
that is run has `MCX` with the values of its constants, and one `.cfg` per run. A step
is what one task does between two awaits. Beside some actions stands a *mutated
form*, the same code with a plausible mistake in it; it is used only to show that
a property notices the mistake.

* **Connection**: the two tasks of a connection as state functions
  (`reader`: none, built, run, notify, drop, gone; `writer`: none, built, run,
  write, done), the writer's channel `inbox`, the semaphore `permits`, the two
  channels to the hub (`chan`, `msgs`), `notified` (the service's broadcast sender
  was dropped) and `hubUp`. `notify` is the await of the SocketClosed, `drop` the
  moment between it and the drop of `ConnReader`; `write` is the await inside
  `write_frame`, during which pairdrop is not polled. A message is its kind,
  `vfd`, and two history fields (connection, number) that no action reads. For
  services of `Ws` the reader and writer are those of `network/ws`.
* **TcpService**: the accept loops. `loop` says where each is; `counter` and
  `backoff` are the code's. `WsAccept` and the handshake actions replace `Accept`
  for services of `Ws`. The hub is the *weakest* one: it takes what is in the
  channels in any order, sends anything to connections it knows, and may die.
  `SplitPanics` is the panic on a missing `conn_msg_chan_size`: the task ends with a
  reader whose permit was not taken, and its drop returns one all the same.
* **GameHub**: the code's hub in its place, one action per branch of `select!`.
  Scripts may do any single `tcp_send` at each call. `Panic` is a panic of the
  hub's task; no other exit exists, because the hub's `Module` values keep a sender
  of each channel.
* **GameServer**: `main` spawns the two services, the rpc client hub and the game
  hub in the order of the code; the tasks of GameHub run once they are spawned,
  and each drops its sender in the step in which it ends (`Releases`). `main`
  returns when no sender is left; when it returns, or panics while it starts, the
  runtime drops every task where it is (`RuntimeDropped`), and every reader that is
  dropped returns a permit, that of a loop still waiting for one included.
* **RpcClientHub**: the rpc client hub over the same connections. The task's
  awaits (`connect`, `acquire`, `register`) and the flush of the delayed messages
  are separate steps; while it is in one it receives nothing.
* **Robot**: the test client over the same connections. It dials all robots
  inside one branch of `select!`, so between `Connected`, `Acquire` and `HandOver`
  the connections dialled so far read, close and fill its channels.
* **TimerState**: `TimerState` over a clock that moves both ways. The sort is the
  stable sort of the code, `Place` being where it puts an element; `freq as i32`
  keeps `freq` modulo `Word`, and division by zero ends the hub.
* **LogSink**: tasks that stamp and send, the thread, one file with its rolled
  predecessors, the clock and the end of the process, between two messages or between
  a write and `check_size`. A message has a length in bytes, and the shape of its
  last line: one that is `dated` shows a new process its day, one that is not hides it,
  and one that is `cut` makes the thread panic (`ThreadPanics`, `logger/inner.rs:130`).
  A line of the file remembers, as history, the day it was written, by which process,
  and the size of the file after it, line breaks included, which the thread counts
  only when it finds a file on disk (`DiskSize`).
  **LogBook** is the abstract specification: a book that is written at its end
  only, in the order of the queue, where messages may be lost but never
  reordered, repeated or removed.
* **ListFields**: a repeated field as a script sees it (a function from the
  indices in use) and as a message has it; Lua's length is any of its `Borders`.
  **ScriptText**: the writer of table text as a walk over a heap of tables that
  may contain each other, strings as sequences of kinds of bytes, numbers as integers
  or floats named by their value, and Lua's reader. A number is written as its digits,
  so that it may come back as the other type; infinite ones are written as names
  that are nil to the reader, which fails on their negatives and on such keys.
  **ScriptCalls** is both, as the two calls a script can make.

Abstracted: frame contents (only service, identifier and number count), what a
script computes, the peers (they may send, close or hang at any time), wording of
logs. Of tokio's channels the model keeps order, capacity, closing and waiting.

## 3. What is checked

| Run | Instance | Checks |
|---|---|---|
| `game_hub` | a WebSocket player and an rpc connection with the same number, 1 permit per service, 2 frames each | types; `PermitAccounting`, `DelayStartsOver`, `QueueOrder`; `TcpNeverLost`, `CloseNotLost`, `DispatchInOrder`; the hub refines `TcpService!Spec` |
| `game_server` | the whole process, 2 WebSocket players for 1 permit and 1 place | types; `PermitAccounting`; `EndsLast`, `ServerEnds`; `CloseHeard`, `PermitReturned`, `StoppedServiceDrains` |
| `game_hub_rpc`, `game_hub_first` | as `game_hub`, 1 frame each | violated: see section 5 |
| `rpc_client` | server 1, one remote host, 2 connects, 2 messages per host | types; `MarkerMatches`, `DelayOnlyUnsent`, `OneConnectionPerHost`, `InOrder`; `ConnectingEnds`, `WriterFollows`; no deadlock |
| `rpc_client_stale` | same, no frames | violated: see section 5 |
| `robot` | 2 robots with 2 permits and 2 places | types; `DialsThrough`, `AnswersLogin`, `EveryoneLogsIn` |
| `timers` | 3 timers, clock to 150 ms in steps of 50 | types; `ListsInOrder`, `FiresExactlyDue`, `DeadStayDead`, `PeriodKept`; no deadlock |
| `timer_once` | same | violated: see section 5 |
| `script_calls` | lists up to 4 elements, 3 sends; strings up to 2 bytes of 8 kinds; 3 tables with up to 2 pairs, with integers, floats and infinite numbers | types; `FillerNeeded`, `RefusedForCause`, `ReadsBack` |
| `script_list` | same | violated: see section 5 |
| `log_sink` | 2 tasks, 2 dates, 3 messages of 1 or 2 bytes, files of 2 bytes, 2 restarts | types; `OneDayPerFile`, `WithinLimit`, `LosesOnlyAfterFull`; `KeepsBook`, that LogSink refines LogBook |

In words:

* `PermitAccounting`: free permits and connections that hold one add up to
  max_connection, whatever order tasks end in, with the hub dead or alive; only a
  loop that is dropped, or panics, with a reader whose permit it has not taken
  leaves one more behind, and it has stopped for good.
* `DelayStartsOver`: only failures to accept in a row end a service; an accept
  that succeeds makes the next failure wait the shortest time again.
* `QueueOrder`, `DispatchInOrder`: a connection's frames stay in order through a
  channel that drops some of them, and its SocketClosed is behind all of them.
* `CloseNotLost`, `CloseHeard`: dropping frames never drops the close.
* `TcpNeverLost`: a live player can always be reached by `tcp_send`.
* `PermitReturned`, `StoppedServiceDrains`, `WriterFollows`: connections end,
  although they wait for room in the hub's channel, and although the code after
  `start_loop` that would wait for them is never reached. The writer's end
  excepts a write its peer never lets finish.
* `EndsLast`, `ServerEnds`: `main` returns when, and only when, both accept loops
  and both hubs are over, so the runtime it drops has none of them left in it.
* `MarkerMatches`, `DelayOnlyUnsent`, `OneConnectionPerHost`, `InOrder`: the
  registry, the marker and the delay queue of a host agree after any connects,
  failures and closes; at most one connection per host; messages to a host are
  tried in the order sent, through the delay queue or around it.
  `ConnectingEnds`: no host is left connecting for ever.
* `DialsThrough`, `EveryoneLogsIn`, `AnswersLogin`: the robot finds a permit and
  room each time it needs them although it empties nothing while it dials; every
  connection dialled is logged in; frames count only between login and close.
* `ListsInOrder` and the three action properties: `update` takes the first n
  entries of each list as the n that are due, and that is right under any adds,
  removals and clock changes.
* `OneDayPerFile`, `WithinLimit`: a log file has the messages of one day, as far as
  its lines show their day, and no process adds to a file that has max_size bytes of
  text, if no message in it has a line break, across lost counters, restarts and
  clocks set back. A file *may* pass max_size, see section 5.
* `LosesOnlyAfterFull`: a log thread that goes on loses a message only when the one
  before it filled the file and the date has changed since, so that there is no file
  to rename. `KeepsBook` allows any loss, but nothing else to go wrong.
* `FillerNeeded`: a script must leave the last index of a list to a filler, see
  section 5. `RefusedForCause`: a table is refused exactly if something in it has no
  text or it is too deep; that the writer stops at all is the bound on its stack in
  `CallTypeOK`. `ReadsBack`: any other table arrives as it was, but for the type of
  some numbers and entries with an infinite value, or does not load, exactly if it has
  a negative infinite value or an infinite key in it.

**Bounds.** Everything the code counts without limit is bounded by a named
constant: `Conn` (connections ever made), `MaxRead` (frames per connection),
`MaxSend` (messages per host), `MaxClock`, `MaxTimers`, `MaxLog` (messages ever
logged), `MaxStarts` (processes), `MaxLen`, `Slots` and `MaxSends` (the first list,
the indices a script sets, the passes), `Heaps` (contents of tables). Capacities
and limits are the code's parameters with small values (`MaxSize`, `ListLimit`,
`MaxDepth`, `RobotNum`, `DelayLimit`, the channel sizes): full channels, exhausted
permits, a full delay queue, a full file, a list at its limit and tables on both
sides of the depth limit all occur. Two connections are enough for one to wait for
another and for a number to be in use in both services; two connects to one host
allow a close, a reconnect and a late message about the first (with one host and two
places in its own channel the hub cannot wait for itself, which is what
sysconfig.conf:19-20 asks of the administrator); a third robot
identity is there so that dialling one too many could happen. Three timers allow two of
one kind and one of the other. Two dates, three messages and files of two bytes allow
a day roll after a size roll, a message that takes its file past the limit, restarts
at each point and a clock set back. Connection
numbers start at 101 in both services, as in the code (`counter: 100`). Deadlock is
checked where the system never stops (timers, rpc client hub), and not where all
connections or messages of the bound may be used up or the process ends.

**Fairness.** A task that can run is polled again (weak fairness of its step). A
`select!` picks at random between ready branches, so a branch that is ready again
and again is taken (strong fairness of pairdrop and of the hubs' branches).
tokio's channels and semaphores serve waiters in order, so a waiting `send` or
`acquire` is served (strong fairness). `main` is polled like a task
(`FairServerSpec`). Nothing is assumed of peers, of accepting, of a write
finishing, of the handshake, of panics or of failures. A connect is assumed to end,
one way or the other. `ConnectingEnds` and `EveryoneLogsIn` need room for the
hub's own registrations and permits for all of them: that is what
src/cable/etc/sysconfig.conf:19-20 and src/robot/etc/sysconfig.conf:13-17 ask of
the administrator (`RobotAssumption` states it for the robot).

## 4. What is proved

The proofs bound nothing: the assumptions say that the constants have their types,
that capacities and permits are positive, that `Vfd` contains the numbers in use,
that tables have some contents (`CallAssumption`) and, for the robot, that room
and permits suffice. Overflow of the `u64` counters, and of `i64` times where a script
asks for a delay or a period of almost 2^63 ms (`states/timer_state.rs:47`, `112`), is
outside the model.

`TcpService_proofs`: `PermitsBalance` (`PermitAccounting`), `TypeCorrect` and
`DelayRestarts` (`DelayStartsOver`). The first two are not inductive. That a returned
permit does not exceed the maximum, or that plus one once the loop has stopped with a
reader in hand, follows from the accounting, so the induction uses `TypeInv`, types with
permits only in `Nat`. That a permit is taken for a connection that does not hold one
needs `LoopInv`: the only built and not yet running connection of a service is the one
its loop is handling. Each step leaves permits and holders alone (`AccountSame`), moves
one connection in (`AccountTake`) or out (`AccountReturn`). `QueueInOrder`
(`QueueOrder`): that a new frame is younger than the queued ones needs their numbers
bounded by `readnum`; that it is not put behind a SocketClosed needs that one is queued
only when its reader has left the loop (`QueueInv`). `HalvesInv` (both halves are built
and started together, under the connection's own number) and `ChanInv` (a connection is
in the channel of connections at most once, when its writer has been started) prepare
what follows.

`GameServer_proofs`, under the code's hub: `HubRefines` (`HubSpec => Spec`), so that the
above holds there: a `tcp_send` goes to a connection whose sender has come (`GsInv`).
`PlayersReachable`, `ClosesKept`, `DispatchOrdered`, `HubTypeCorrect` are the properties
of run `game_hub`; `ClosesKept` rests on `ClosedQueued` and `HeardInv`,
`DispatchOrdered` on `DispatchInv`, that everything queued is younger than what was
dispatched. Under `main`: `ServerTypeCorrect`, `ServerPermits`, `ServerChannels` and
`ServerEndsLast`. A step of the process is one of the hub's specification, or starts a
task, or drops them all where they are; that the invariant of the hub survives the last
is `DroppedHub`: each reader that is dropped returns one permit, so that a loop still
waiting for its permit leaves one too many, and then it is stopped. `EndsLast` needs
`CloserInv`, that whoever was started and is not over holds a sender of the channel
`main` waits on, and that `main` waits only when all are started.

`RpcClientHub_proofs`: all four safety properties of run `rpc_client` and the
types, in two inductions. For `MarkersMatch`, `NothingStaysDelayed` and
`NeverTwoConnections` the invariant says that a host with an open connection has
a marker and no second one (`OpenInv`), that while the hub dials, the host has a
marker, no sender and no other connection (`DialInv`), and that a queued
SocketClosed is the only one of a connection that has left its loop and was not
heard (`CloseInv`), so that it ends the right connection even when it overtakes
the registration. For `TriedInOrder` the messages of a host stand in one line: the
number last handed over, the messages being flushed, the delay queue, the message
the hub dials for, the channel; each is younger than the ones before (`Line`), and
a step only moves the head of one part to the end of another, past empty ones.

`Robot_proofs`: `NeverWaitsForItself` (`DialsThrough`) counts: permits taken and
registrations queued are at most the identities dialled so far (`RoomInv`), and
while the robot dials those are fewer than `RobotNum`, whatever the connections do.
`DispatchesInOrder` (`AnswersLogin`) needs that a registered number has been sent
its login (`LoginInv`), that every queued frame is younger than what was
dispatched, and that nothing is queued behind a close (`QueueInv`).

`TimerState_proofs`: a stable sort puts element i at 1 + the number of elements
before it. That this is a permutation is a counting argument over finite sets, and
that the timers due are exactly the first `DueCount` of a sorted list is another;
no induction over lists is needed. `ListsKeptInOrder` follows, and from it
`FiresWhatIsDue`, `DeadNeverFire` and, with the times remembered in `last`,
`PeriodIsKept`.

`ScriptCalls_proofs`: `LosesTheLast` (`ShrinksByOne`) says how far `AllItemsKept` is
from the truth, for lists of any length: the only border of a table with indices 0 to
n is n; `FillerIsNeeded`; `CallTypeCorrect`. `RefusedForCauseKept`: `CauseInv` names the path of tables the
writer is in (`Walk`) and, for each number of levels left, tables known to have a
text within it (`Family`); a finished walk makes the root one of them, and a
refusal is at the end of a path too long or at a pair without a text.
`ReadsBackKept`: `LoadInv` says, while the text is being written, what its reader
would have loaded from the text so far: frame for frame, for each table the writer
is in, the pairs it has finished (`Loads`), unless a negative infinite value or an infinite
key was met, and then that nothing is. One piece more of text is one step more of the reader (`LexAppend`, `LoadAppend`); that
a quoted string is read as one string, whatever its bytes, is `LiteralIs`.

`LogSink_proofs`: `OneDayKept`, `LimitKept` and `LossExplained` (`LosesOnlyAfterFull`)
for any number of tasks, dates and restarts, messages of any length and shape, a
thread that panics and a process that ends between a write and `check_size`. The
invariant `Known` is what the thread may believe of its file: an open file was last
written on the thread's date, and its counted size covers the text of its lines, if
none of them has a line break, and is no more than the file has on disk; without an
open file and with a date there is no file, and the last one that was rolled was filled
by this process (`FullRoll`), which is why only such a roll can lose a message. `Fresh`
says that a process without a date has not written to the current file, so that the
limit (`Rationed`) binds no process for what another has left behind. `BookKept`
(`KeepsBook`): LogSink refines LogBook, step by step. The book is the files one after
the other (`Lines`): rolling a file moves a boundary between them and no line, writing
appends one. That a message is in the book once needs `IdInv`: no two messages held,
queued or written have one identity.

Facts about what a recursive function or a fold does with one element more
(`FlattenTheorems`, and the lexer and loader of `ScriptCalls_proofs`) need
induction. It is done without predicates as parameters: the naturals for which the
fact holds are a set that contains 0 and the successor of each member, hence `Nat`
(`Induct`).

**Only model-checked:** liveness (`CloseHeard`, `PermitReturned`,
`StoppedServiceDrains`, `ServerEnds`, `ConnectingEnds`, `WriterFollows`,
`EveryoneLogsIn`), which is out of the prover's reach with its fairness and
ENABLED.

## 5. Where code and text disagree

* `game_hub_rpc` (`RpcNeverLost`): the close of a player connection is removed
  from `rpc_gs` (`game_hub.rs:47`). Numbers of the two services overlap, so a live
  rpc connection loses its sender; and `gs` never forgets anybody.
* `game_hub_first` (`SenderBeforeFrames`): a first frame may reach the script
  before the sender that would answer it is registered.
* `rpc_client_stale` (`FinishedIsOpen`): a close that overtakes its registration
  leaves a host with a dead sender for good.
* `timer_once` (`UpdateFiresAllDue`): one-shot timers wait while there is no
  periodic timer.

* `script_list` (`AllItemsKept`): a list that a script passes on as it came loses its
  last element each time, since src/protogen/build.rs:595 and 623 copy the indices from
  0 up to a length that Lua counts from 1. Yet
  src/protogen/proto/inventory/c2s_inventory_req.proto:7 calls such a list "all items
  of the backpack" (该背包的所有物品). By `ShrinksByOne` nothing else happens to it;
  and a list counted from 1, as Lua's own are, is refused (`FillerNeeded`).

Observed without a run of its own:

* `logger/inner.rs:18` calls `max_size` the upper limit of the size of a file, in bytes.
  It is looked at after the write (`:55`, `:68`), so that a file may pass it by a message,
  and line breaks are not counted (`:97`). `WithinLimit` says what does hold.
* src/cable/etc/sysconfig.conf:13 asks for an upper limit of the log queue,
  `log_chan_size`; `logger/sink.rs:33` makes a queue without one.
* A file whose last line cannot be cut where its date should end (`logger/inner.rs:130`)
  ends the log thread of every process that finds it (`ThreadPanics`).

## 6. Not modelled, and what is left

Not modelled, with the reason:

* configuration: parsed once, before any task exists, into a map that never
  changes. That a setting is missing later is `MainPanics` of GameServer and, for
  `conn_msg_chan_size`, `SplitPanics` of TcpService; in the rpc client hub and the
  robot, where it would panic the task at its first connect, it is assumed to be there;
* the http service: `start_service` is called from nowhere;
* the wire format: a header of two numbers and a body, read and written by
  library functions; that a bad length ends its reader is in Connection;
* of the protocol generator, the numbering of messages and the conversion of single
  fields, which are copied by name;
* of the logger, the level filter, the text of a line and several files at a time
  (they do not touch each other);
* loading and reloading of scripts, and code that is not compiled (`network/udp.rs`,
  `network/ws/client.rs`, `modules/manager.rs`).

Known hazards that no property covers are in `PROJECT.json` with a note each: most
of them are states the model has and about which the repository promises nothing.

What would add most next: a composition of an rpc client and the rpc service of
another server over a link that may break, with the abstract specification
"each rpc at most once, in order".
