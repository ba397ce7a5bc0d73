# A TLA+ verification of rplc

rplc is a library for soft PLCs in Rust: a project lists its field devices in
`plc.yml`, a build script generates the code that exchanges them with a shared
context, and the user's `main` spawns programs over that context and calls
`run_plc!()`.  This directory holds TLA+ modules that model what the library
does at run time, TLC configurations that check them on small instances, and
proofs, checked by TLAPS, that the main results hold for any number of threads.
Paths below are those of the repository (`src/tasks.rs` and so on).

## 1. The system

| component | state | operations | meets the others through |
|---|---|---|---|
| task scheduler, `src/tasks.rs` | `STATUS` (atomic i16), `CONTROLLER_STATS` (mutex: readiness maps, their three flags, thread statistics), `WAIT_HANDLES` (mutex: join handles), `SHUTDOWN_FN` | `spawn*`, `spawn_loop`, `mark_*`, `set_*`, `shutdown`, `wait_can_run_*` | the status, read by every thread; the locks |
| process, `src/lib.rs` | `TERM_FLAG`, the main thread's position, the pid file and the API socket in `var_dir` | `init`, `run`, signal handler, force-stop timer, panic hook | calls the scheduler; the generated `launch_datasync` and `stop_datasync` |
| interval loop, `src/interval.rs` | next deadline, `marked` | `prepare`, `tick`, `parse_interval` | waits for the status, marks its thread, reports jitter |
| thread statistics, `src/tasks.rs` | `iters` and `jitter` per thread, a bounded channel | `report_jitter` (both), `reset`, `info` | loops send, the stats service folds, the API reads and resets |
| communicators, `src/comm/*.rs` | a TCP stream or serial port in a mutex, the bus lock, the frame timer | `lock`, `write`, `read_exact`, `reconnect` | shared by all workers of one bus |
| Modbus client, `src/io/modbus` | none of its own; the generated worker's buffers | input and output worker, register codecs | takes the bus lock for a transaction, writes or reads the context |
| Modbus server, `src/server` | a listener, a thread per client | `handle_tcp_stream` | reads and writes the context |
| OPC-UA client, `src/io/opcua` | session, cache of values, | workers, reconnect | the context, the scheduler |
| EAPI (EVA ICS bus), `src/eapi.rs`, `src/io/eapi` | publisher channel, handler table, raw state cache, `CONNECTED` | `run`, `publish`, `notify`, action handlers | a service thread with its own runtime; workers push to the channel |
| API, `src/api.rs` | a Unix socket | info, statistics, reset | `CONTROLLER_STATS` |
| command line, `src/cli.rs`, `src/client` | none of its own: the unit file, its link, what systemd has read and runs | register, unregister, start, stop, restart | `systemctl`; the signals systemd sends; the API socket |
| generation, `src/builder`, `derive` | none | text generation at build time | fixes the names and kinds of the threads |

What is hard in it:

* **Order through one word.**  Inputs, programs, outputs and the main thread
  synchronise only by the numeric order of `STATUS`, which six places store to,
  some under `CONTROLLER_STATS` and some not, each having read it before.  A
  program must not compute before every input has been read; an output must send
  a last context after the shutdown function; nothing may be joined that waits
  for a status that does not come back.
* **SIGTERM at any time**, above all during the startup, and a stop timeout that
  may elapse at any time after it, while a device does not answer.
* **Locks held over calls**: `shutdown()` joins with `WAIT_HANDLES` locked.
* **A condition variable whose predicate is read outside its mutex**, so that
  wake-ups are lost.
* **Counters at their limits**: u32 counters restarted at two different places.
* **Buses**: one connection shared by several workers, time-outs that leave an
  answer behind, reconnections in the middle of a transaction.
* **Deadlines** that a round misses, that a late wake-up moves, or that overflow
  where the interval is parsed.
* **Commands of many steps** against systemd, each of which may fail, be killed, or
  meet what an earlier one has left half done.
* **Caches** filled before the write they stand for has succeeded (OPC-UA, EAPI),
  and channels filled while their reader is gone.

What makes each component correct is listed in section 4; what is left out is listed
in section 7.

## 2. Modules

| module | what it is |
|---|---|
| `PlcStatus` | the status values and the comparisons the code makes with them |
| `Tasks` | the scheduler and `run()`: all threads, one action per step |
| `TasksProperties` | type, safety, liveness, the inductive invariant, the refinement mapping |
| `Lifecycle` | the abstract specification: phases of a controller, no threads or locks |
| `TasksRounds` | `Tasks` with a history of the rounds that end during the shutdown |
| `TasksClaims` | a comment of `tasks.rs` as a formula the code does not satisfy |
| `StatusGate` | `set_status` and `wait_can_run_*` at the grain of mutex and condition variable |
| `ThreadStats` | the jitter statistics |
| `LoopClock` | the deadlines of the loops, and the jitter they report to `ThreadStats` |
| `PlcProcess` | the pid file and the socket a process makes, removes, or leaves behind |
| `Registration` | the commands against systemd, and the service whose process is a `PlcProcess` |
| `FieldBus` | a communicator, TCP or serial, and the Modbus workers of its bus |
| `Opcua` | the OPC-UA client: session, rounds, cache of written values |
| `Eapi` | the connection to the EVA ICS bus: reconnection, publisher channel, outputs, actions |
| `Registers` | the data of the Modbus workers: layouts of values, offsets, maps |
| `MCTasks`, `MCTasksRounds`, `MCLoopClock`, `MCFieldBus`, `MCOpcua`, `MCEapi`, `MCRegisters`, `MCRegistration` | the names, values and intervals TLC uses, the symmetry of threads of one kind, the blocks of `Registers` |
| `TasksProofs`, `StatusGateProofs`, `LoopClockProofs`, `FieldBusProofs`, `OpcuaProofs`, `EapiProofs`, `RegistrationProofs`, `RegistersProofs` | theorems |

`Tasks`, `StatusGate` and `Opcua` extend `PlcStatus`; `TasksProperties` extends `Tasks` and
instantiates `Lifecycle`; `TasksRounds` extends `TasksProperties`; `LoopClock` extends `ThreadStats` and implements it;
`Registration` extends `PlcProcess`.

### Tasks

A step is what one thread does between two accesses to state that another thread
may change.  `mainPc` follows `run()` line by line; `tpc` follows the three loops
of `spawn_loop` and `spawn_program_loop`: `wait` (in `Loop::prepare`), `gate` (the
status is read before the body), `run`/`send` (the body), `check` (`need_stop`),
`tick`, `mark` and `finished`.  The grain matters in these places:

* `mark_*_ready()` runs with `CONTROLLER_STATS` locked, but `set_status` in it is
  seen by readers without that lock.  `MarkInputReady`, `MarkSetPreparing` and
  `MarkSetActive` are therefore three steps; `StatsLocked` keeps other holders of
  the lock out between them.
* `set_preparing_if_no_inputs()` drops the lock before it stores (the guard is a
  temporary of the condition): `CheckNoInputs`, then `SetPreparing`.
  `set_active_if_no_inputs_and_programs()` stores under it: one step.
* `shutdown()` keeps the guard of `WAIT_HANDLES` to the end of its `if let`:
  `WaitHandlesHeld` while it joins and while it runs the shutdown function.
* An output worker copies what it maps under the context's read lock and sends
  later: `OutputSnapshot`, then `OutputSend`, which may fail, with or without
  having reached the device.

The context is reduced to what the properties tell apart: whether an output's
snapshot, and what its device was last sent, is still the context.  Every write
(`ContextWritten`) clears both for every output.

`TasksRounds` adds one history variable, `lateRounds`: how many rounds each input and
program has ended since `shutdown()` stored `Stopping`.  It restricts no step.

Left out, on purpose: a SIGTERM before `register_signals()` and a panic in a body,
both of which end the process at once; thread priorities and affinities; the
messages; a spawn of a name already taken by the main thread (a panic).

### StatusGate

`Tasks` takes `wait_can_run_*` for one step.  `StatusGate` refines that step: the
check without the mutex, the lock, the sleep that gives the mutex up, the
notification or the time-out, the mutex again.  `late` is a history variable: the
`WAIT_STEP`s a waiter slept out although its gate was open.

### ThreadStats

`report_jitter` as it is, with u16 and u32 replaced by the constants `U16Max` and
`U32Max`, so that TLC reaches the restarts and the theorem holds for any width.
`Report` takes any time a round may have taken.  The names of services that report
nothing are not modelled.  It has no run of its own: `LoopClock` is its instance.

### LoopClock

`prepare()` sets the first deadline; `tick()` is `Compare` (the clock against the
deadline), then `Wake` or `Late`, which looks at the clock again, then `BeginRound`,
which reports.  Time passes between any two of these steps, so a thread may be late
anywhere.  An interval is a number with its suffix, as `plc.yml` or a `spawn` macro has
it; `ParseInterval` multiplies in u64 as `parse_interval` does.  The intervals of the
instance include one that overflows.  `before` is a history variable.  Loops that do not
report their jitter make the same steps without the report.

### PlcProcess and Registration

`run()` is reduced to what it does to the two files of `var_dir`: it writes the pid
file, removes an old socket, binds its own, and removes both at the end; the rest of it
is `Tasks`.  A crash, a panic or the stop timeout leaves them.  A SIGTERM before
`register_signals()` ends the process, later it sets a flag.  Besides the service there
may be an instance run by hand in the same directory.  That removing the old socket
fails is left out.

A command of `Registration` is a sequence of the file operations and the calls of
`systemctl` of `src/client/mod.rs`, in their order: `Stop` asks and `StopReturns`
waits, `Disable`, `Remove`, `Write`, `Enable`, `Undo`, `Start` and `StartReturns`.  A call
of `systemctl` and the write of the unit may fail, with or without their effect (a
removal fails only where the file is gone), and a command may be killed between any two
steps (`Killed`).  `forced` is `register --force`, which stops and unregisters what is
there, ignores how that ended, and starts what it has written.  systemd is external:
the unit files as it has read them (`loaded`), what it was asked for (`want`), the
process of the service, started again whenever it has ended.  A unit whose file is gone
is taken to be unknown to `systemctl`; one whose file was replaced is known as it was
read last.  `Init` is any state that earlier commands leave, faults included: a unit
without its link, a link without its unit.  What a finished command has reported is
kept until the next one begins; `overlapped`, `faulted` and `stopped` are history
variables.

### FieldBus

A worker goes through a transaction: the bus lock, the write, the six bytes of the
header, the rest of the frame.  The lock is dropped with the block that made the
transaction; the parser, and the reconnection it may ask for, run without it.  A
worker of the bus is an input or an output: both make the transaction in the same
way, and an input that is joined by `shutdown()` is one whose transaction must end.

The connection is abstracted to the answers on their way (`wire`): whose request
each answers, whether its header has been read already, and whether its transaction
is over (`late`, a history variable).  The device may lose a request (`Write`
without an answer) and be late (`ReadFails` with the answer on its way).  The end of
a closed connection is noticed in two steps, as TCP does it: the first write still
succeeds.  `get_stream` opens a connection when there is none, also in a read.  An
answer shorter than seven bytes has no rest; for the properties it is one whose
rest is read at once.

`SerialComm` differs in one thing: `read_exact` and `write` reconnect themselves
when they fail, inside the port's mutex (`SelfLock`).

### Registers

The conversions of `src/io/modbus/types.rs` are operators with the names of the
code's functions, over bytes of `Base` values: the runs use 4, the proofs hold for every
even `Base` up to the 256 of the code.  A float is its bit pattern; a field may be an
array of no values, which takes no registers and is sent wherever it is.  Names in `plc.yml` are
numbers already; what may overflow u16 gives a set of outcomes, the error of a build
with overflow checks (`NoValue`) and the wrapped value of one without.  The machine
round them is a block with its map: the output writes it to the device, the input
reads it, or less of it, and the PLC may restart with an empty context in between,
which makes the device the only one to know what was sent.  The device is found with
registers of its own (`Found`), which tells a register that is kept from one that is set
to zero.  A number given for a block replaces that of its range, but the range is parsed
all the same and may be an error.  Each entry has a field of
its own.  Transactions that fail are `FieldBus`'s.

### Opcua

A round of an output is three steps, because the status and the context may change
between them: `StartRound` reads `output_last_sync()` and copies the context (the
two commute with everything the properties see), `Retain` reads `is_active()` and
asks the cache, `WriteNodes` or `WriteFails` is `session.write()` with the session's
mutex held.  A write is decided node by node, as the server's statuses are, and one
that fails may have been done.  A read of an input is one step, and the
reconnection after a failed one another.

`lost` is a history variable: the nodes whose last write was not confirmed, or whose
server has restarted.  `round` keeps what an output has copied in its last round,
which the code's map of values does not outlive; between rounds it is history too.
The status goes from `Preparing` to `StopSyncing`; the rest of the life cycle is in
`Tasks`.

### Eapi

The runtime of `src/eapi.rs` has one thread, so a lock that `run()` takes outside an
`await` stops every task of it: `StoreTx` and `TakeTx` are steps of their own and
the publisher (`Receive`, `Publish`) moves only while `run()` sleeps between two looks
at the connection (`rt = "up"`).  The other threads send in two steps: `LockTx` takes
`PUBLISHER_TX`, `Send` waits for room with the lock held, as the guard lives to the
end of the `if let`.  An action is a blocking thread of a pool of `PoolSize`;
`tableLock` is `ACTION_HANDLERS`, held from the look-up to the return of the handler.

A payload is reduced to who sent it and, for an action, which event it is.  Whether
`publish()` reaches the bus is whether the connection is there; what `is_connected()`
says of a lost connection is the truth, sooner or later (`Notice`).  `calledIn` is a
history variable: the losses before an action was called.  The raw state cache of an
output worker, which thins what it sends, is left out.

## 3. Runs

| run | instance | shows |
|---|---|---|
| `Tasks_safety` | 2 inputs, 1 program, 2 outputs, symmetric; every subset spawned, in any order, from `main` or `launch_datasync`; with and without a shutdown function | the safety properties, the inductive invariant, the refinement of `Lifecycle` |
| `Tasks_live` | 1 + 1 + 1, with and without a shutdown function, fair | startup and shutdown complete without a timer; a loop ends one more round at most, joined or not |
| `Tasks_forced` | 1 + 1 + 1, the input hangs in its device, the program spawns services, servers write the context, the stop timeout may elapse | the process ends |
| `StatusGate` | an input and an output waiter, 2 setters, fair | lost wake-ups cost one `WAIT_STEP`; an open gate is passed |
| `LoopClock` | one loop, three intervals of which one overflows, a clock of 12 values, small `U16Max`, `U32Max` and channel | deadlines and rounds; the counters agree at their limits |
| `FieldBus` | 2 workers whose answers look the same, 3 answers on their way, TCP, fair | whose answer is parsed; transactions end; a dead connection is replaced |
| `Registers` | bytes of 4 values, 16 addresses; one entry of each type, relative and absolute, in 8 blocks (in the middle, at the end, of all registers, reversed; with and without a number given); two entries that may meet, of 1 or 2 values; a field of no values inside a block, at its end and beyond | fields are where `plc.yml` says and come back as they were; what does not fit is not sent and not set |
| `Opcua` | an input, an output with 2 nodes of which programs change one, 2 values, one fault, fair | what the cache leaves out; the final round; a lost value is written again |
| `Eapi` | an output, 2 actions, a channel of 2 places, a pool of 2, one loss, fair | the order of an action's events; every action is answered; when the connection is made again and when not |
| `Registration` | any leftovers and two commands on them, two callers, the service and an instance by hand, one upset (a crash, a kill, a failed step, a run by hand), fair | what a command reports; why one fails; the service gets its socket |
| `Claim_*` | small instances | violations, section 6 |

Why the bounds are enough: the code distinguishes the kinds of threads, "none",
"the last one" and "another one" of a kind; two inputs and two outputs have all
of these, and a kind may stay empty because spawning is never forced.  Programs
mark themselves by the same code as inputs.  Two setters are all the threads that
can be inside `set_status` at a time when one of them is the main thread and the
others hold `CONTROLLER_STATS`.  The proofs remove the bounds for safety.  On
a bus the second worker stands for all others, since only the holder of the bus
lock writes or reads; three answers are the late ones of two transactions and the
current one.  In `Opcua` a fault is a death of the session or a restart of the
server: after one, the others find the same state again; the values of nodes
meet only in a write that fails as a whole, for which two nodes are enough.  In
`Eapi` three senders fill the channel while each of them may hold either lock or
wait for it, and a channel of two holds the two events of one action, or one of each
action; the connections before and after a loss are all that an action can meet.
In `LoopClock` twelve instants
hold several rounds of each interval, late and in time.  In `Registration` two
commands meet in every order on every state that earlier ones leave, so that longer
histories add none; an upset is what a single fault can do, which the next command then
finds.  The values of `Registers` set one byte at a time, which tells any two orders of bytes
apart, and all bits, which is -1; two entries are next to each other, apart, or on
top of each other.

### Fairness

* Weak fairness of the main thread and of every control step of a thread: the
  operating system runs threads that can run, and nothing there waits for
  anything but a lock or a sleep.
* Strong fairness of the bodies of threads not in `Hanging`: a body that calls
  `spawn_service` goes through another point and back, finitely often.  Nothing is
  assumed of a hanging body, of signals, of spawns, of field servers.
* Weak fairness of `ForceStop` when `StopTimeout` holds: the sleep of the timer
  thread ends.
* In `StatusGate`, strong fairness of taking the mutex: `parking_lot` hands its
  mutexes over fairly from time to time.  No fairness of calls of `set_status`.
* In `FieldBus`, weak fairness of a worker's own steps: every call on a stream ends,
  by its time-out at the latest.  Strong fairness of taking the bus lock, for the
  reason above.  Nothing is assumed of the device.
* In `Opcua`, weak fairness of the workers and of the expiry of cache entries, and
  strong fairness of each node's write: a node that is written again and again is
  written in the end.
* In `Registration`, weak fairness of each step of a process and of systemd starting
  what it has been asked to run (`Restart=always`).  Nothing is assumed of commands,
  signals and crashes.  `LoopClock` promises no liveness.
* In `Eapi`, strong fairness of what takes a lock, for the reason above, and of
  `run()`, whose `connect()` succeeds in the end: the broker is there.  A handler
  returns.  Nothing is assumed of calls and of losses.  The run allows deadlock: the
  code has one, which is the exception `RecoversUnlessFull` makes.  So do `LoopClock`, whose clock is bounded,
  and `Registration`, where no command need ever be given.

## 4. Properties

* `ProgramsAfterInputs`, `ActiveAllReady`: the order of the startup.
* `JoinNeverMeetsAGate`, `FinalSyncReachesDevices`: the order of the shutdown, and that
  the device of every output holds the context the shutdown function left, unless its own
  last send failed.
* `OneLateRoundAtMost`: once `Stopping` is stored an input or program ends one round at
  most.  Without a shutdown function nobody waits for it, and it may look at the status
  only when that is `StopSyncing` or `Stopped`; it must stop then too, and never find a
  status at which it goes on, although threads inside `mark_*_ready()` store theirs late.
* `ImplementsLifecycle`: the status goes once through its values in order, each
  stored only when its condition holds, up to an abort or a kill.
* `StartupCompletes`, `ShutdownCompletes`.
* `LostWakeupCostsOneStep`, `OpenGateIsPassed`; `NoSleepBetweenStoreAndNotify` is a
  theorem and has no run.
* `TotalMatchesIters`, `InfoIsConsistent`: the statistics, at the limits of the counters.
* `DueInTime`, `NoBurst`: a late loop does not make up for the rounds it has missed; no
  three rounds begin within an interval, unless that overflows.
* `OwnAnswerOrLate`: reconnections by other workers and interleaved transactions
  never make a worker parse another's answer; only a late answer can.
* `TransactionsEnd`, `DeadStreamIsDropped`.
* `LayoutsAgree` (`EncodingIsInvertible` and `FloatsAreSwapped`), `FieldsAreWhereNamed`,
  `SendsIfMapFits`, `InputSetsWhatFits`: the data of a Modbus transaction, from `plc.yml` to the device
  and back.  The exceptions for u16 overflows are stated in them.
* `ServedOrLost`: what the cache leaves out of a write is on the server, unless the
  last write of that node failed or the server restarted; `LostValueIsRewritten`:
  such a value is written again, once its entry has expired.
* `FinalRoundIsWhole`: the final round writes every node.
* `SendersHaveAChannel`, `FinalIsLast`, `ActionAnswered`: what the locks of `Eapi` are
  for, over reconnections and a full channel.
* `RecoversUnlessFull`: a lost connection is made again, unless it is lost while a
  sender waits for room; then `run()` waits for the sender, on the thread that would
  make room, and the process keeps no connection until it is restarted.
* `ReportsAreTrue`: what a command reports is so, on whatever earlier ones have left,
  as long as no other one runs at the same time.
* `FailuresHaveAReason`: a command fails by a fault of its own or because the PLC is
  registered, or is not, as it says; a registration that could not be enabled leaves no
  unit; `register --force` repairs whatever is there.
* `ServiceComesUp`: a service that is asked to run gets its socket, whatever files
  crashed processes have left.
* `DeadSessionIsReplaced`, which needs an input: an output does not reconnect.

`IndInv` of a run is the type invariant with the inductive invariant the proofs use.

Every one of them is checked against a mutant of the code that breaks it; the
mutants stand beside the definitions they replace, marked as such.

## 5. Proofs

`TasksProofs` proves `TypeCorrect` and then `Invariance`: `Inv` is inductive
together with `TypeOK`.  None of the promises is inductive alone.  That no program
runs before the inputs are ready needs to know that `Preparing` means ready inputs
(`ReadyInv`); that needs the flags and maps to agree and a thread that is about to
store `Preparing` to still have `Syncing` before it, unless the controller was
declared stopped meanwhile (`MarkInv`); that needs to know what the status can be
at each point of the main thread (`StatusInv`).  `OutputInv` follows an output
through its last round: the round is entered only when nobody writes the context
any more (`QuitInv`), so its snapshot and then its device stay current.  The
promises follow from `Inv` in a line each.  `LateRounds` is proved of `RoundsSpec`, whose
steps are steps of `Tasks` (`RoundsImplementTasks`), from an invariant of its own: a loop
that has ended a late round stands before its look at the status, or has finished
(`RoundsInv`).  That needs `Inv` for what the status is once the main thread has gone past
`Stopping`: at every such point a loop that looks stops (`StoppingIsSeen`).  `Refinement`
maps every step to a step of `Lifecycle` or to none, using `Inv` for the guards of the
abstract steps, also with a stop timeout and hanging devices, whose `Kill` steps no run checks against it.

`StatusGateProofs` proves that a waiter that has slept a `WAIT_STEP` out with its
gate open looks next, and passes or finds it shut.

`FieldBusProofs` proves `OwnAnswerOrLate` for any number of workers, on both kinds
of communicator.  It needs the lock (`LockInv`), that a stream that is dropped takes
its answers along (`StreamInv`), and that an answer on its way which is not late is
the one the holder of the bus waits for (`WireInv`): a reconnection by a worker
outside its transaction empties the wire, but never puts an answer on it.

`OpcuaProofs` proves `ServedOrLost` and `FinalRoundIsWhole`.  `CacheWritten` says of
an active controller's cache that it holds what the server holds, what the output is
about to write, or what was lost; it holds because nothing is cached before the
controller is active (`CacheUnused`) and no cache is asked once it is not.

`LoopClockProofs` begins with `ThreadStats`: `iters` reports between `min` and `max` add
up to `total` at any width, hence `info` divides by a positive number and its average is
between its extremes.  A loop on its schedule is a reporter of `ThreadStats`
(`ImplementsThreadStats`), so that these theorems hold for it (`LoopsReport`); its own are
`LoopTypes` and `DueInTime`.  `NoBurst` follows: a round begins no earlier than its
deadline, which is an interval after the round before the last at least.

`EapiProofs` proves that whoever sends holds the lock, and that a channel is there to
send to (`LockInv`), and that after its final event an action has none on the way
(`OrderInv`), wherever that event is: in the channel, with the publisher or on the bus.
That is inductive since an action sends its final event last, and a channel is dropped
as a whole.

`RegistrationProofs` proves what commands report for any number of callers, commands,
upsets and instances.  A command that no other one has overlapped is the only one
there is (`AloneInv`); so what it knows of the unit and the link (`KnowsUnit`) and, once
it has stopped the service, of the process (`KnowsService`) is disturbed by nobody
but systemd and the process itself, which systemd does not start while `want` is `stop`.

`RegistersProofs` goes from arithmetic to the device.  Division with remainder gives that
bytes, words and their multiples are taken apart and put together without loss, hence
that `Decode` undoes `Encode` for each type and wherever the registers stand
(`DecodeEncode`), and `Encode` undoes `Decode` (`EncodeDecode`).  A worker goes through
its map entry by entry.  The induction on entries cannot be the library's, whose theorems
take an operator as a parameter; a lemma of induction over a set (`SetInduction`) takes its place,
from the pigeonhole principle for finite sets.  By it, `DataAfterEntries` says which entry a register of the
data comes from, and when an entry was out of bounds; `StoredAfterEntries` says what a
field is after an input.  `IInv` adds to the types that `map` is what `config` says, that
the context is one for the map, and that the device holds what the map makes of `sent`, and
what was found there elsewhere: without the last part `FieldsAreWhereNamed`, which relates the device to what was sent
any number of rounds and restarts ago, is not inductive.  `SentComesBack` puts both
directions together: an input that gets all registers reads the values that were sent,
unless two fields share a register.

The assumptions are `ThreadsAssumption` (the names of the three kinds differ: the
code prefixes them with I, P and O), `GateAssumption`, `StatsAssumption`,
`ClockAssumption`, `BusAssumption`, `OpcAssumption`, `EapiAssumption`, `ProcessAssumption`,
`RegistrationAssumption`, `RegistersAssumption`, `DeviceAssumption` and `ConfigsAssumption`, all of them
evaluated by the runs.  `RegistersAssumption` says that a byte has an even number of values
up to 256, so that there is a sign bit, and that an error is no value;
`ConfigsAssumption` that `plc.yml` has u16 where the code parses u16 and that programs
write values of the field's type; `DeviceAssumption` that the device has 16-bit registers.

Every invariant and every action property of the runs is stated by a theorem.  Only
model-checked is liveness (`StartupCompletes`, `ShutdownCompletes`, `OpenGateIsPassed`,
`ServiceComesUp`, those of `FieldBus`, `Opcua` and `Eapi`), which is out of the prover's
reach here.

## 6. Where the code and its comments part

* `Claim_stopped_last`: SIGTERM during the startup; a thread inside `mark_*_ready()`
  stores over `Stopped`.
* `Claim_serial`: on a serial line the first failed read or write locks its worker,
  and with it the bus, for good: `reconnect()` takes the mutex the caller holds.

Besides, without a run:

* The TCP stream is dropped on `TimedOut` only (tcp.rs:23), but on Unix a read time-out
  is reported as `WouldBlock`; the next transaction reads the answer that was late, and
  nothing in it tells it from its own.  This is the exception `OwnAnswerOrLate` makes.
* The comment of `Active` says "outputs can run", but `can_run_outputs()` opens the
  outputs at `Preparing` already, so that an output may publish a context no program
  has computed.
* `spawn()` reads the status before it takes its locks (tasks.rs:560), so that an input
  or program spawned by a service during the startup may join a controller that has
  started, which the comment of line 543 rules out; in `Tasks` only the main thread
  spawns inputs and programs.  Nor does that comment's "except service ones" hold to the
  end: a program that calls `spawn_service()` while `shutdown()` joins it waits for
  `WAIT_HANDLES`, which `shutdown()` holds; in `Tasks_forced` it takes the stop timeout
  to end the process.
* `register --start` is described as "start PLC after registration" (cli.rs:76), but the
  command starts what it has registered only with `--force` (cli.rs:286).
* A number without a suffix is in seconds for `interval.rs:117`; the `derive` macro
  refuses it.
* A second instance run by hand in the same `var_dir` takes the socket from the service,
  and its pid file, whose absence then makes the service panic on its way out; until the
  service is restarted it has no API.

## 7. Not modelled

* The raw state cache and the final round of an EAPI output, and its API methods other
  than `action`.  The cache is that of `Opcua`, filled before the send; with it, the
  values and the status, the instance of `Eapi` that two actions need grows from 46
  thousand states to eight million, too many for its liveness.
* `spawn()` of inputs and programs by services (section 6); the final round together with
  the communicators' failures, of which `Tasks` has only "failed".
* The Modbus server beyond its writes to the context: a pool of threads, each of which
  reads a frame, lets `rmodbus` process it under the context's lock, and answers.
* The overlap of two commands is modelled, but nothing is promised of it: the command
  line has no lock.
* The commands that only read and print (`list`, `stat`, `info`, `test`, `status`), the
  framing of the API socket, the samples: no state.
* Text generation at build time (`src/builder`, the `generate_*` functions) and the
  derive macro: what the generated code does is modelled where it runs; that the text is
  that code is not.
