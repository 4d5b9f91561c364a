# EdgeSentinel: formal models and proofs

TLA+ models of EdgeSentinel: the bounded queue, the fixed object pool, the motor state
machine, the runtime that joins them, the UART, CAN and I2C inputs, the command server
with its client and parser, and the daemon. TLC checks every model on small instances.
TLAPS proves safety properties of each of them for every value of the constants. Paths
below are relative to `src/include/edge_sentinel/` unless they begin with `src/`;
`PROJECT.json` maps every definition to its lines.

## The system

A sensor task samples a motor, a control task feeds the samples and the operator's
commands to a protection state machine, and a monitor task counts its periods.
Events travel as pool handles through a bounded queue, so no path allocates. The daemon
takes commands from a Unix socket, one connection at a time.

```
 edgectl --socket--> command server --> parser --> build_response() --+
                                                                      | publish()
 UART, CAN, I2C, simulation --> read() --> sensor task ---------------+
                                                                      v
 main(): start(), stop() ----------> pool_ --handle--> queue_ --> control task --> machine_
                                       ^                               |
                                       +------- handle destroyed ------+
```

| Part | State | Operations that change it | What is hard about it |
|---|---|---|---|
| Bounded queue (`concurrency/`) | ring, `closed_`, statistics, sleepers on two condition variables | `try_push`, `wait_push`, `try_pop`, `wait_pop`, `wait_pop_for`, `close` | notifications sent after the unlock, deadlines that race with them, spurious wake-ups, close against sleepers, wrap-around |
| Fixed object pool (`memory/`) | free list, occupied flags, statistics, handles | `try_create`, `destroy`, the handle's `reset`, moves, `release` | a constructor that throws, releases in any order, invalid and repeated releases |
| Motor state machine (`fsm/`, `domain/`) | state, last sample, four counters | `handle` | counters cleared on different early returns, a sample that completes two runs, limits of zero |
| Runtime (`runtime/`) | pool, queue, machine, metrics, lifecycle flags, three tasks | `start`, `stop`, `publish`, the loops of the tasks | publishers let in before `stop`, exhaustion, the shutdown event itself dropped, joins |
| UART protocol (`protocols/`) | buffer and position, error counts | `feed` | resynchronisation after lost, damaged and inserted bytes |
| CAN and I2C protocols, sensor adapters (`protocols/`, `src/src/linux/sensor_adapters.cpp`) | the merged sample, the descriptor | `read` of each source | silence, failing transfers, foreign and short frames |
| Simulated sensor (`simulation/`) | override | `read`, `set_override`, `clear_override` | injections beside a reading task |
| Command parser (`ipc/`) | none | none | limits on length, tokens and values |
| Command server (`src/src/linux/unix_command_server.cpp`), edgectl | listener, socket path, thread | `start`, `stop`, accept loop, `serve_client` | partial reads, stalled and killed clients, a killed server's socket file |
| Daemon (`src/apps/`) | signal flag | `main`, `build_response` | a reset made of two events, shutdown from two sides, the order of the two stops |

## Modules

| Module | Role |
|---|---|
| `Fifo` | what the queue promises: a bounded FIFO that `close` ends without losing values |
| `BoundedQueue`, `BoundedQueueProofs` | `concurrency/bounded_queue.hpp` and its theorems |
| `ObjectPool` | what the pool promises: an object in a slot no live object uses, and failure only when there is none |
| `FixedObjectPool`, `FixedObjectPoolProofs` | `memory/fixed_object_pool.hpp` and its theorems |
| `Readings`, `MotorStateMachine` | samples and thresholds; `fsm/motor_state_machine.hpp` |
| `ProtectionPolicy` | the protection stated on the samples, without counters |
| `MotorHistory`, `MotorProofs` | the machine with a history of judged samples and its properties; its theorems |
| `EventPipeline` | what the runtime promises of published events: accepted ones are handled in order, each once |
| `EdgeRuntime` | `runtime/edge_runtime.hpp`, `runtime/runtime_metrics.hpp`, over `ObjectPool`, `Fifo` and `MotorStateMachine` |
| `EdgeRuntimeProofs`, `EventPipelineProofs` | the runtime's theorems: who owns each event; in which order events are handled |
| `ByteOrder`, `Crc16` | the byte order of values on the buses; `crc16_ccitt` |
| `UartDecoder`, `UartLine` | `protocols/uart_protocol.hpp`; a device and a faulty line around it |
| `SensorSources` | `src/src/linux/sensor_adapters.cpp`, CAN and I2C decoding, over `MotorStateMachine` |
| `SensorProofs` | the theorems of the UART line and of the sensor sources |
| `CommandServer` | `src/src/linux/unix_command_server.cpp`, `src/apps/edgectl_main.cpp` |
| `CommandParser` | `ipc/command.hpp` against the documented grammar |
| `CommandLimit` | `kMaximumCommandLength`, which the server and the parser share |
| `CommandServerProofs` | the theorems of the command server and of the parser |
| `Daemon`, `DaemonProofs` | `src/apps/edge_sentinel_daemon.cpp`, `simulation/simulated_sensor.hpp`, over `EventPipeline`; their theorems |
| `MC...` | constants and symmetry for TLC |

The parts are composed by what they promise: the queue implements `Fifo` and the pool
`ObjectPool`, the runtime is built on these two and implements `EventPipeline`, and the
daemon is built on that.

A definition whose comment begins "Faulty variant" is a plausible bug in the operator
below it. The specifications never use it. Putting it in the place of that operator
must make TLC find a property violated, which shows that the property depends on
the code.

### BoundedQueue

The variables `slots_`, `head_`, `tail_`, `size_`, `closed_` and `stats_` are the
members. `pc` says where each thread is in its call and `val` which value that call
holds. A critical section is one step, as `mutex_` is never held across a blocking
call. Everything outside is a step of its own: `notify_one` after the unlock
(`NotifyNotEmpty`, `NotifyNotFull`), the two `notify_all` of `close`, a spurious
wake-up, the deadline (`Expire`, asleep or already awake and waiting for the lock),
and the new evaluation of the predicate (`...Awake`, `...Expired`). `notify_one`
wakes an arbitrary sleeper. The standard library's condition variable is external and
modelled by this contract. `closed()` and `stats()` only read.

### FixedObjectPool

`next` and `occupied` are the slots' members, `object_` is what each handle owns,
`raw` the pointers `release()` gave away, `stale` pointers kept after a `destroy`.
`try_create` and `destroy` hold the lock throughout, so each is one step.
`TryCreateThrows` is the constructor that throws, which changes nothing: the object
is constructed before the list is touched. `misused` is history: a caller destroyed a
pointer again after its slot was reused. From then on two handles may name one object,
so `ExclusiveOwnership` is stated up to that point; the pool's own data stay correct
after it too. The pool's destructor, which ends its life, and the storage's alignment
are not modelled.

### MotorStateMachine, MotorHistory, ProtectionPolicy

One step is one call of `handle`. Readings are integers, because only their order
against the thresholds matters; a NaN compares false with every threshold and so
behaves like a sample between them. The sample's sequence number is left out.
`MotorHistory` adds `recent`, the samples judged since the state was entered.
`ProtectionPolicy` decides on `recent` alone: latch, degrade or recover when the last
n samples agree.

### EdgeRuntime, EventPipeline

`publish()` is split at every access to shared state: the test of
`accepting_events_`, `try_create`, `wait_push`, and the metrics after it. `start()`
and `stop()` are split at their publishes, at the wait for `safe_shutdown` (which may
end at any time, as it has a timeout), at the joins and at the close. The three tasks
are actions of their own. The pool and the queue are used through `ObjectPool` and
`Fifo`, the specifications they are shown to implement.

Merged into one step: the stores at the beginning of `start()`; the `request_stop` of
both tasks; `record_processed` with `record_transition`; the destruction of a refused
handle with `record_dropped`. No property tells the order inside these apart. The
sensor is present, as in both applications. Latencies are left out. `snapshot()`
and `running()` only read. A `start()` or `stop()` that returns at once changes
nothing and has no step.

`EventPipeline` forgets the pool, the threads and the metrics. `IsPipeline` says that the
runtime implements it: whatever the clients do, the machine sees the accepted events in
their order, each once.

### UartDecoder, UartLine

`feed` takes one byte, as in the code, with real bytes and the real CRC. `buffer_` is the
part of the array in use, so its length is `position_`. `UartLine` is external: a device
that sends frames back to back and a line that may lose, damage and insert bytes.
`spoiled` and `missed` are history: a frame counts as missed only if no fault touched it
or the gap before it. The checksum is the constant operator `Crc16`; the `MC` modules give
it the code's `crc16_ccitt`. `NoMagicInside` says of the frames the device sends that none
has the magic bytes behind its own two. `MCUartLine` assumes it of its frames, so that TLC
evaluates it; those of `MCUartMagic` are chosen to break it.

### SensorSources

One step is one call of `read` of the adapter in use, followed by the state machine's
judgement of the sample. Sending and falling silent are the device's own steps. UART
frames are whole here, as `UartLine` covers the bytes; CAN frames carry identifier,
length and data, and I2C any of the four transfers may fail. `unheard` is history: how
many calls in a row brought no measurement or ended in a report that the sensor is
offline. The CAN source takes one frame per call, so frames may wait on the bus. The
frames of one UART `read` are applied to the sample one after the other (`Received`).

### CommandServer

`path` is the file at the socket path: none, a server's socket, the socket of a killed
server (`stale`), or a file that `start()` refuses to remove (`foreign`). `start()` is split
at `lstat`, `unlink`, `bind` and `listen`, `stop()` at the request, the shutdown of the
listener, the join and the removal, the accept thread at its polls and its `recv`.
`running_`, `listener_` and `owns_socket_path_` are the members. `Crash` kills the
server between any two steps and leaves its socket file. Clients connect, send in
pieces of any size, stall, and may be killed (`Die`). A command is its number of bytes.
A response is its kind, an answer or `too_long`.

### CommandParser

Text is a sequence of pieces: spaces, words or parts of words, and numerals with their
value; pieces with no space between them are one token.
`trim`, `tokenize`, `in_range` and `parse_command` are translated with their limits and
the order of their errors; a piece counts as one character of the length. A `string_view`
is its first and its last place in the text, so `remove_prefix` and `remove_suffix` move
these. `Round` is one turn of the loop of `tokenize`; its array of four tokens ends the
loop in the fifth turn at the latest. The reference is the grammar of `src/docs/zh-CN/05-linux-ipc.md`. What `from_chars` makes of the
characters of a number is the library's affair.

### Daemon

`main()`, the signal, the handler on the server's thread, the sensor task and the control
task are processes. The server is reduced to whether it takes commands; that its
`stop()` joins is in `CommandServer`. A publish succeeds, or is refused when the queue
is full or `accepting_events_` is cleared. A reset is two publishes with other steps
between them. `status` and `metrics` only read and are left out. The pool of 256 has
room for the queue of 128 and every publisher, so it cannot run out first.

## What TLC checks

| Run | Configuration | Properties |
|---|---|---|
| `queue` | `BoundedQueue.cfg`: 3 threads, 3 values, 2 slots, 5 calls, fair | `RingWindow`, `SinglePlace`, `StatsBalance`, `NoLostWakeup`, `NoSleeperMissesClose`, `ImplementsFifo`, `TimedCallsReturn`, `CloseEndsCalls` |
| `motor_policy` | `MotorPolicy.cfg`: default limits, 5 classes of sample | `CountersAreRuns`, `NoRunOverdue`, `ImplementsPolicy` |
| `pool` | `FixedObjectPool.cfg`: 3 slots, 4 handles, 6 creations, 2 invalid releases | `FreeListExact`, `UsageCounted`, `ExclusiveOwnership`, `ImplementsPool` |
| `runtime` | `Runtime.cfg`: 2 clients, 2 slots, queue of 1, 2 client events, 2 readings | `OneOwner`, `StoppedIsQuiet`, `ShutdownHonoured`, `EventsAccounted`, `IsPipeline` |
| `runtime_live` | `RuntimeLive.cfg`: the same with 1 client event and 1 reading, fair | `StopReturns`, `LeavesBooting`, `QueuedEventsComplete` |
| `runtime_shutdown` | `RuntimeShutdown.cfg` | `StopReachesSafeShutdown`, violated |
| `uart_line` | `UartLine.cfg`: 3 frames, 2 faults | `MissesAtMostOne`, `ReturnsSentFrames` |
| `uart_magic_value` | `UartMagicValue.cfg`: frames whose value is 0xAA55, 1 fault, fair | `Resynchronizes`, violated |
| `sensor_sources` | `SensorSources.cfg`: default limits, a bus that holds 2 frames, fair | `OfflineMeansUnheard`, `SilenceLatches` |
| `command_server` | `CommandServer.cfg`: 1 server, 2 starts, 1 kill, 1 failure, 2 clients, fair | `ThreadHasListener`, `NoDeadSocket`, `RestartNotBlocked`, `WholeCommands`, `StopReturns`, `ConnectionsEnd` |
| `command_parser` | `CommandParser.cfg`: every input of up to 9 pieces of space and two words, and of up to 6 pieces of 11 | `TokensAreWords`, `AcceptsTheGrammar` |
| `daemon` | `Daemon.cfg`: queue of 2, one injection, 3 commands, fair | `HandlerHasRuntime`, `PromiseKept`, `DaemonEnds`, `InjectionActs`, `ResetRecovers` |

What the less obvious ones say:

- `NoLostWakeup`: when values wait, or slots are free, there are as many threads about to
  notify or to look again as are needed, or nobody sleeps for them.
- `ShutdownHonoured`: a shutdown event that was queued is honoured before `stop()` returns.
- `MissesAtMostOne`: however the line failed, the decoder misses at most one frame that
  came through whole, and returns the next.
- `OfflineMeansUnheard`, `SilenceLatches`: a sensor that sends in time is never latched as
  offline, and one that falls silent always stops the motor in the end.
- `RestartNotBlocked`: what a killed server leaves behind does not keep the next one from
  starting.
- `WholeCommands`: the handler sees the whole command of a client that is still there, or
  nothing of it. For a client that was killed this does not hold: its connection ends, and
  what it had sent is handed to the parser.
- `HandlerHasRuntime`: as `main()` stops the server before the runtime, no command meets a
  runtime that is being stopped.
- `PromiseKept`: a daemon that answered `ok=shutdown_requested` exits in `safe_shutdown`.
- `ResetRecovers`: a reset sent in `fault_latched`, both of whose events were accepted and
  that is the only one under way, leads to `healthy` for good, although the sensor task may
  still hold one sample of the old injection. `critical_samples` is 2, so one is harmless.

**Bounds.** `MaxCalls` (queue): five calls of three threads fill the ring, wrap it, put
sleepers on either condition variable and close it while they sleep; the theorems below
remove this bound for safety. `MaxCreates` 6 uses every slot twice, so the list leaves
its initial order. `MaxRecent` 6 is longer than the longest limit of the default
configuration (5). `MaxPublish`, `MaxReadings` and `MaxTicks` bound the callers of the
runtime; two slots and a queue of one make exhaustion, a full queue and a dropped
shutdown reachable with very few events. `MaxFaults` 2: two faults put the decoder out
of step and hit it again while it recovers. The frames end in a magic byte, are negative
and of an unknown kind; damage takes eight byte values, the magic bytes among them. A
CRC of 16 bits can be met by chance, so `ReturnsSentFrames` is a statement about these
frames and bytes. No value there holds both magic bytes, which `MissesAtMostOne` needs;
the run `uart_magic_value` shows what happens when one does. `CounterModulus` 2 makes the error
counters wrap. `BusCapacity` 2 lets frames of different kinds wait together. `MaxStarts`
2, `MaxCrashes` 1 and `MaxFailures` 1 give a restart after a kill or a failed `listen`;
with a limit of two bytes a command of one fits with its newline and one of two is too
long. One server is enough for TLC here; the safety theorems hold for any number of
servers at one path. The parser's limits are scaled down with its inputs
(`kMaximumCommandLength` 8), so every limit is met and exceeded. `MaxCommands` 3 is an
injection, a reset and a retry; a queue of two refuses events. Clients, handles and slots
are interchangeable, so the safety runs of the pool and of the runtime use symmetry;
no run with liveness does.

**Deadlock.** It is checked for the machine, the UART line and the sensor sources. In the
queue a consumer may wait for a value nobody pushes; the other behaviours end at their
bounds or when the program exits.

**Fairness.** Queue: a thread that can continue its call does (`WF(Continue)`) and
deadlines pass (`WF(Expire)`); nothing forces a thread to begin a call or a sleeper to
wake spuriously. Runtime: a publisher, a lifecycle call that has begun and each task keep
running. UART: the device keeps sending, which only the violated property uses. Sensor
sources: the sensor task calls `read` every period. Command server: `start()`, `stop()`
and the accept thread continue, its polls end by their timeouts; clients have none.
Daemon: control task, sensor task, handler and `main()` continue; nobody must send a
command or a signal. The operating system's scheduler and a monotonic clock justify these.

## Disagreements found

Shown by a run:

1. **`stop()` may not reach `safe_shutdown`** (`runtime/edge_runtime.hpp:100`, run
   `runtime_shutdown`). Its shutdown event goes through the same pool and queue as every
   other, and the result of `publish` is ignored. When the pool is exhausted, or the queue
   stays full for `event_push_timeout`, the event is dropped and `stop()` returns with the
   machine in its old state. `src/tests/runtime_test.cpp:70` expects `safe_shutdown`.
2. **The decoder may stay out of step** (`protocols/uart_protocol.hpp:88`, run
   `uart_magic_value`). After an error it drops the whole buffer and looks for the magic
   bytes again. When a steady reading contains them, 43.605 degrees for example, it can
   take the value for the start of a frame, fail on the CRC, and meet the next one in the
   same place, for ever. `src/docs/zh-CN/06-linux-buses.md:39` says it synchronizes again.

Met while modelling; the models do what the code does, and no run states the documented
behaviour:

3. A repeated release after the slot was reused is reported as `released` and destroys the
   new object (`memory/fixed_object_pool.hpp:152`; `src/docs/zh-CN/02-memory-pool.md:65`
   has no such exception).
4. An internal fault latches from `booting` and `self_test` too
   (`fsm/motor_state_machine.hpp:70`), which the diagram in `src/README.md:42-54` does
   not show.
5. A second `stop()` returns at once while the first is still joining
   (`runtime/edge_runtime.hpp:94`), though the comment at line 90
   says that `stop()` joins all tasks.
6. The first samples of the UART and CAN sources are online with the channels not yet
   measured at zero (`src/src/linux/sensor_adapters.cpp:98`, `hal/sensor_source.hpp:7`).
7. A CAN remote frame is taken as a reading (`src/src/linux/sensor_adapters.cpp:165`,
   `src/docs/zh-CN/06-linux-buses.md:57`): the mask drops the flag. The frames of the run
   are data frames.
8. `stop()` removes the file at its path even when another server has put its own there
   (`src/src/linux/unix_command_server.cpp:96`, `src/docs/zh-CN/05-linux-ipc.md:40`).
9. A command of exactly 256 bytes is refused, because the newline that edgectl adds counts
   (`src/src/linux/unix_command_server.cpp:159`, `src/apps/edgectl_main.cpp:38`,
   `src/docs/zh-CN/05-linux-ipc.md:57`).

## What TLAPS proves

**The queue**, for every capacity, every finite set of threads and every set of values
(`CapacityAssumption`, `ValuesAssumption`, `ThreadsAssumption`, `MaxCallsAssumption`), in
`BoundedQueueProofs`:

| Theorem | States |
|---|---|
| `TypeCorrect` | `[]TypeOK` |
| `WindowCorrect` | `[]RingWindow` |
| `StatsCorrect` | `[]StatsBalance` |
| `PlaceCorrect` | `[]SinglePlace` |
| `SleepersHearClose` | `[]NoSleeperMissesClose` |
| `WakeupsCorrect` | `[]NoLostWakeup` |
| `FifoImplemented` | `ImplementsFifo` |

`TypeOK` is not inductive: a producer that wakes up pushes `val[t]`, so the proof adds
`HoldsParameter`, that a producer between its calls to the condition variable still
holds its value. `StepCases` reduces a step to what it does under the lock (pushes,
refuses, sleeps, pops, finds nothing), to `Close` or to a step outside the lock, and
the other proofs go by these cases. `NoLostWakeup` is inductive beside the type
invariant. It compares the queued values with the number of threads that are about to
notify or to look again, so the proof counts: `CountSteps` says how that number changes
when one thread moves, `NotifyReplaces` that a notification replaces the notifier by the
thread it wakes. The refinement reads the ring from `head_` on and needs `RingWindow`.

**The pool**, for every capacity and any handles and creations (`CapacityAssumption`,
`PointerAssumption`), in `FixedObjectPoolProofs`:

| Theorem | States |
|---|---|
| `FreeListCorrect` | `[]FreeListExact` |
| `UsageCorrect` | `[]UsageCounted` |
| `PoolImplemented` | `ImplementsPool` |
| `OwnershipCorrect` | `[]ExclusiveOwnership` |

`StepCases` reduces a step to what it does to the pool: an object is created, a creation
fails, a release is refused, a slot is released, or nothing. `FreeListExact` is inductive
beside `PoolTypes`, the types of the members. Its witness is the chain of free slots from
`free_head_` on: a creation drops its first element, a release puts one in front, and
`RoomInList` shows by counting that the longer chain still fits. The refinement and the
counters follow from it: the head of the list is a free slot (`HeadIsFree`), and the list
is empty only when all slots are occupied. `ExclusiveOwnership` needs in addition
`OwnerTypes`, and that misuse is never forgotten (`MisusedStays`).

**The state machine**, for every `ProtectionConfig`, limits of zero included, and every
set of samples (`ConfigAssumption`, `SamplesAssumption`), in `MotorProofs`:

| Theorem | States |
|---|---|
| `TypeCorrect` | `[]TypeOK` |
| `CountersCorrect` | `[]CountersAreRuns` |
| `OverdueNever` | `[]NoRunOverdue` |
| `PolicyImplemented` | `ImplementsPolicy` |

The inductive form of `CountersAreRuns` is `CountersEndInRuns`, the same statement with
sets of samples in the place of the operator that `IsRun` takes, which the provers cannot
instantiate; `RunsAsSets` relates the two. `StepCases` reduces a call of `handle` to a
transition (all counters and the history are cleared), a counted sample or an idle
step, and `RunGrows` says what one more sample does to a run. `NoRunOverdue` is
inductive beside `TypeOK`. The refinement needs the runs: by `TripsAreVerdicts` a
counter that is the length of a run reaches its limit exactly when the last n samples
agree, for n = 0 as well.

**The runtime**, for any finite set of clients, any finite pool, any queue capacity, any
protection and samples (`ThreadsAssumption`, `SlotsAssumption`, `EventsAssumption`,
`QueueAssumption`), in `EdgeRuntimeProofs` and `EventPipelineProofs`:

| Theorem | States |
|---|---|
| `OwnerCorrect` | `[]OneOwner` |
| `QuietCorrect` | `[]StoppedIsQuiet` |
| `AccountsCorrect` | `[]EventsAccounted` |
| `PipelineImplemented` | `IsPipeline` |
| `ShutdownCorrect` | `[]ShutdownHonoured` |

The first inductive invariant is `Lifecycle`: where each thread can be, that at most one
client is in `start()` and one in `stop()`, and what each of them has already done.
`HandOvers` then reduces a step to the few that move a handle or an event, and `OneOwner` is
inductive beside `Lifecycle` and `Owners`, which says that a thread holds a handle exactly
in the positions where it should. `StoppedIsQuiet` follows from these. `EventsAccounted`
counts the publishers about to call `record_published`, one more or one less at each step.

For the refinement, `Pending` is the event in the control task's hands followed by those of
the queued slots. A push is `Accept`, the call of `handle` is `Handle`, and closing the queue
is `Shut`. Everything else leaves `Pending` alone, and this is where ownership is used: a
slot that is filled or cleared is not one that the pipeline holds. `ShutdownHonoured` is
then argued on the pipeline: `Sent` says that a shutdown event is pending or the machine
is in `safe_shutdown`, which no step of the pipeline ends, and `Announced` follows that event
through the `publish()` of `stop()` until it is queued.

**The command server**, for any number of servers at one path, clients, starts, kills and
failures and any length limit (`ServersAssumption`, `LengthAssumption`,
`BoundAssumption`), in `CommandServerProofs`:

| Theorem | States |
|---|---|
| `ListenerOutlivesThread` | `[]ThreadHasListener` |
| `SocketsRemoved` | `[]NoDeadSocket` |
| `CommandsWhole` | `[]WholeCommands` |
| `RestartCorrect` | `[]RestartNotBlocked` |

The first two rest on `LifecycleInv`: `Shape` says where callers, threads and the path can
be, `Together` how `start()` and `stop()` keep `running_`, the listener, the thread and the
socket file in step. `WholeCommands` alone is not inductive, because what makes a
command whole is decided in `recv` and used when the handler runs. `CommandInv` adds
`Bytes`, the types and ranges of the byte counts, and `Complete`: a client that waits has
sent everything, and a thread about to respond to a client that is still there holds all
of its command or more than the limit. `RestartNotBlocked` rests on `Entering`: a `start()`
that found a socket and later finds none, or the other way around, has met a server that
was started, and where the path names a foreign file no server gets past `lstat`.

**The parser**, for any vocabulary, any integer values of its numerals, any length limit and
an input of any length (`LengthAssumption`, `VocabularyAssumption`, `NumeralsAssumption`),
also in `CommandServerProofs`:

| Theorem | States |
|---|---|
| `TokensAreWordsCorrect` | `[]TokensAreWords` |
| `AcceptsTheGrammarCorrect` | `[]AcceptsTheGrammar` |

The words of an input are defined without a loop, by where words begin (`Starts`) and how
many begin before. `FoundWords` is the invariant of the loop of `tokenize`: with k tokens
found, these are the first k words, and k words begin before the place where the input is
left. `RoundFinds`, `RoundEnds` and `RoundOverflows` are the three ways a turn can go, and
`Tokenized` puts five of them together, for any view with nothing but spaces around it
(`Window`). `TrimmedWindow` says that the result of `trim` is one. `LinesParsed` and
`ParsedLines` are the two directions of the grammar on the tokens: each line of it is read
as its command, and what is read as a command is a line of it.

**The UART line**, for any frames, any checksum operator with 16-bit values on them, any
bytes the line inserts or puts in, and any number of faults (`CounterAssumption`,
`LineAssumption`, `FramesAssumption`), in `SensorProofs`:

| Theorem | States |
|---|---|
| `MissesAtMostOneCorrect` | `NoMagicInside => []MissesAtMostOne` |
| `WholeFramesExact` | with `NoMagicInside`: the last byte of a whole frame returns that frame or nothing |
| `ReturnsWhatCameIn` | a returned frame is of a known kind and is encoded by the last twelve bytes, under any faults |
| `CleanLineCorrect` | until the first fault, `ReturnsSentFrames` and no frame missed |
| `CleanLineExact` | until then each valid frame is returned with its last byte, and nothing else is |

`MissesAtMostOne` rests on `Resync`, which says where the buffer can stand while the frame
on the line is still whole. `Aligned`: it holds what has gone of this frame. `Adrift`: it was
begun before the frame, or was emptied within it, and then the frame before was not missed.
As a frame with no magic bytes inside cannot start the buffer anew, a decoder adrift is empty
or holds a single first byte when the next frame begins, and so is aligned. `uart_magic_value`
shows that `NoMagicInside` cannot be left out. The theorem does not depend on the checksum. `CleanLineCorrect` does not
need `NoMagicInside`: its invariant `Clean` says that without a fault the decoder is aligned
and has missed nothing. `CleanLineExact` and `ReturnsWhatCameIn` use that taking two's-complement
integers apart into bytes and putting them together are inverse, in both directions, for
every 16-bit sequence number and every 32-bit value.

**The sensor sources**, for any frames and registers of the protocols' types, any bus
capacity and any protection, limits of zero included (`BusAssumption`,
`ProtectionAssumption`), in `SensorProofs`:

| Theorem | States |
|---|---|
| `OfflineMeansUnheardCorrect` | `[]OfflineMeansUnheard` |
| `OnlineIsHeardCorrect` | `[]OnlineIsHeard`: a sample is online exactly when its `read` had news |

`OfflineMeansUnheard` relates the machine's transition to the calls of `read`, with the merged
sample and the machine's counter between them, so it is not inductive. `SourceInv` adds the
types, `CountIsUnheard` (`offline_count_` is at most the number of calls in a row without
news) and `OnlineIsHeard`. A UART `read` may bring any number of frames: `ReceivedLoop` shows by
induction that the loop over them is well defined and that the last one decides.

**The daemon**, for any protection, injections, queue capacity and number of commands, in
`DaemonProofs`:

| Theorem | States |
|---|---|
| `HandlerCorrect` | `[]HandlerHasRuntime` |
| `PromiseCorrect` | `[]PromiseKept` |

`Order` says how far the server and the runtime are taken down at each point of `main()`,
and is inductive. `PromiseKept` needs `Kept` as well: once a client was answered ok, a shutdown
event is pending or the machine is in `safe_shutdown`, and no step ends that. The daemon
is built on `EventPipeline`, which the runtime implements by `PipelineImplemented`; that the two
compose is the argument of this document and not itself a theorem.

**Induction over data.** The library's induction theorems take an operator, which the provers
cannot instantiate. `SensorProofs` states induction with a set in the place of the operator
(`Induction`) and proves it from the well-foundedness of the natural numbers; the least
element of a set of places (`LeastExists`, in `CommandServerProofs`) comes from there too.

**Only model-checked:** every liveness property, as the prover does not treat fairness, and
`ReturnsSentFrames` on a line that has failed. Whether the remains of two frames can
have a right checksum depends on the frames and on the CRC's polynomial; `ReturnsWhatCameIn`
proves that nothing but a right checksum lets them through.

## Not modelled

- The demo (`src/apps`) is a straight-line client of the runtime and the benchmark
  (`src/benchmarks`) a measuring program with one producer and one consumer; the clients
  of `EdgeRuntime` and the threads of `BoundedQueue` make every such sequence of calls.
- `domain/format.hpp`, `version.hpp` and `to_string` hold strings for output.
- Opening, configuring and closing devices is pure I/O: of the adapters' constructors only
  the outcome is modelled.
- The characters of numbers (`from_chars`), the length check of the socket path, the
  socket file's permissions, the commands `status` and `metrics`, and `set_baseline`,
  which no program calls.
- Latencies and sequence numbers of samples: no decision depends on them.

## Running

```
tlc -config BoundedQueue.cfg BoundedQueue        # PROJECT.json names the module of each run
tlc -config Daemon.cfg MCDaemon
tlapm BoundedQueueProofs.tla
tlapm FixedObjectPoolProofs.tla
tlapm MotorProofs.tla
tlapm EdgeRuntimeProofs.tla
tlapm EventPipelineProofs.tla
tlapm CommandServerProofs.tla
tlapm SensorProofs.tla
tlapm DaemonProofs.tla
```
