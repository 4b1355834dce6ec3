# A verification project for dnstap-forwarder

dnstap-forwarder accepts DNSTAP frame streams on a Unix socket, turns each DNS
message into a JSON event and hands the events to one output writer (Splunk
HEC, file, Unix socket or named pipe). This directory holds TLA+ models of its
concurrent and failure-prone parts, TLC runs over small instances, and proofs
of every safety property that the runs confirm; they hold for any number of
goroutines, events and clients.

Sections: [inventory](#1-inventory), [modules](#2-modules-and-their-code),
[runs](#3-runs), [proofs](#4-proofs), [divergences](#5-where-code-and-comments-disagree),
[limits](#6-what-is-not-modelled), [plan](#7-plan).

## 1. Inventory

| Component | State | Operations | Interacts with |
|---|---|---|---|
| Service (`src/service/service.go`, `src/main.go`) | connection count, `wg`, `activeConnections` (keyed by a time stamp), `shutdownChan`, listener, health server | `Run` (accept loop, flush ticker, shutdown goroutine), `handleConnection`, `cleanupInactiveConnections` | calls the writer's `AddEvent`/`Flush`/`Close` from three kinds of goroutine; the process ends when `Run` returns to `main` or the shutdown goroutine calls `os.Exit` |
| Metrics, `/health`, `/metrics`, `/stats` (`service.go`) | atomic counters, latency samples behind a mutex | `record...`, `updateMetrics`, `handleMetrics`, `handleStats` | handlers write, HTTP handlers read |
| Writer interface, `BaseWriter` (`src/output/output.go`) | buffer, `bufio.Writer` | `NewWriter`, `writeMessage` | pipe, socket and file writers |
| Circuit breaker (`output.go:24-83`) | `state`, `failureCount`, `lastFailureTime` | `CanExecute`, `OnSuccess`, `OnFailure` | every goroutine in `postToHEC` |
| HEC writer (`src/output/hec.go`) | buffer, in-flight copies, DLQ and persistent buffer files, statistics | `AddEvent`, `Flush`, `Close`, batch POST with retries, individual retries | service, breaker, Splunk, file system |
| HEC replay (`hec.go:527-756`) | the two files, a file position | scan, POST, truncate at startup | runs inside `NewHECWriter` with `fileMutex` held |
| File writer (`src/output/file.go`) | as `BaseWriter`, size, current file | `AddEvent`, `Flush`, `rotateFile`, `cleanupOldFiles`, `reconnect`, `Close` | service, file system |
| Pipe and socket writers (`pipe.go`, `socket.go`) | as `BaseWriter`, descriptor | `AddEvent`, `Flush`, `reconnect` inside a flush, `Close` | service, readers and peers |
| Configuration (`src/config/config.go`) | none | flag / environment / default | everything |
| Event processing (`src/events/events.go`) | none | DNS message to flat record | handlers |
| `pipe_reader`, `mock_hec_server` | test tools | | |

What is hard here: three kinds of goroutine reach one writer; a batch is copied
under a mutex and sent after the unlock; retries with answers that got lost;
files that are written at failure and replayed at startup, with crashes in
between; a breaker whose methods lock differently; writers with a buffer and a
`bufio.Writer` that no lock protects, which reconnect in the middle of a flush;
files named by the second; a shutdown that closes the listener on which the
main goroutine's life depends and waits for some goroutines only. `PROJECT.json` lists each
hazard at its line with the properties that watch it.

What makes each component correct:

* breaker: trips at the threshold, lets a trial through after the timeout, is
  never closed with its failure budget spent, whatever calls overlap;
* HEC writer: an added event is never lost without a trace and never held by
  two goroutines; redelivery is bounded; success is reported only for
  acknowledged events; events do not stay in memory for ever;
* replay: what is truncated was sent; startup comes to an end;
* stream and file writers: an event stays in the buffer until a descriptor has
  taken its message, arrives in order and once per descriptor; rotation loses
  the oldest events only and never the file in use; the buffer is emptied;
* service: the limit on connections, no work on a closed writer, a slot comes
  back from a silent client, every connection is tracked, the process outlives
  its shutdown work, and in an orderly end every added event is accounted for;
* metrics: a page adds up, though nothing stops while it is written;
* configuration: what stops the process, and which limits come out of it.

## 2. Modules and their code

| Module | Models | Extends / instantiates |
|---|---|---|
| `CircuitBreaker` | the three methods as operators on a breaker value | |
| `CircuitBreakerSerial` | the breaker called by nobody at the same time | `CircuitBreaker` |
| `CircuitBreakerThreads` | each atomic load, store and add of the methods, for any set of goroutines | `CircuitBreaker`, instance of `CircuitBreakerSerial` |
| `CircuitBreakerProofs` | theorems about `CircuitBreakerThreads` | `CircuitBreakerThreads`, `TLAPS` |
| `OutputWriter` | abstract contract of the `Writer` interface | |
| `HECWriter` | the running HEC writer | `CircuitBreaker`, instance of `OutputWriter` |
| `HECWriterProofs` | theorems about `HECWriter` | `HECWriter`, `FiniteSetTheorems`, `TLAPS` |
| `HECReplay` | the two files over restarts and crashes | |
| `HECReplayProofs` | theorems about `HECReplay` | `HECReplay`, `FiniteSetTheorems`, `SequenceTheorems`, `TLAPS` |
| `Service` | accept loop, handlers, cleanup, ticker, shutdown, main | |
| `ServiceProofs` | theorems about `Service` | `Service`, `FiniteSetTheorems`, `TLAPS` |
| `Forwarder` | service and HEC output together | `Service`, instance of `HECWriter` |
| `ForwarderProofs` | theorems about `Forwarder`, from those about its two parts | `Forwarder`, `ServiceProofs`, instance of `HECWriterProofs` |
| `BaseWriter` | pipe, socket and file writer | instance of `OutputWriter` |
| `BaseWriterProofs` | theorems about `BaseWriter` | `BaseWriter`, `FiniteSetTheorems`, `SequenceTheorems`, `TLAPS` |
| `Metrics` | counters, latency samples, the pages of `/metrics` and `/stats` | |
| `MetricsProofs` | theorems about `Metrics` | `Metrics`, `FiniteSetTheorems`, `TLAPS` |
| `Configuration` | settings as pure operators | |
| `PipeReader` | `findJSONStart` as a pure operator | |
| `StatelessProofs` | theorems about `Configuration` and `PipeReader` | both, `TLAPS` |
| `MC*` | instances for TLC; `MCService` also evaluates `Configuration` on samples | |

Some definitions stand next to a variant of themselves with a fault in it
(`OnSuccessResetForgotten`, `AddEventKeepingBuffer`, ...). No specification uses
them: they are the mutations that show each property can fail.

**Breaker.** `expired` stands for `time.Since(lastFailureTime) > timeout`; the
count saturates at the threshold because the code only compares it. The locks
are read off the program counters: `Readers` are inside `CanExecute`, `Writers`
inside `OnFailure`; `OnSuccess` takes no lock. `HECWriter` uses the whole-call
operators: its steps put no other step between the parts of one call, which is
sound for its properties because none depends on what the breaker answers.

**HECWriter.** One `pc` per goroutine walks through `flushBufferCopy`:
`gate` (CanExecute) - `posting` (the retry loop) - `accepted` or `exhausted` -
`dlq` - `save` - `singly` (individual retries) - `dlqFailed` - `saveFailed`.
What runs under `bufferMutex` (append, compare, copy, clear) or under
`fileMutex` (one file write) is one step. An open breaker goes from `gate`
straight to `save`. A POST ends `accepted`, `retryable`, `rejected` or `lost`
(no answer: the server may have indexed it); `received` counts the copies that
reached Splunk, `acked` the events of a POST answered 2xx, as the environment
knows them. File writes fail when `DiskFaults` allows it and always after
`Close` closed the files; `faults` and `givenUp` are history variables for the
events of such writes and of flushes that ended in an error. Batches are sets,
so order is not modelled.

**HECReplay.** The persistent buffer is a sequence of cells - a line, or NUL
bytes of a line's length - with the file position as a cell index, because the
file is opened without `O_APPEND` and `Truncate(0)` does not move the position
(`hec.go:145`, `729`). The DLQ is a sequence of entries. `ScanLimit` is
`bufio.MaxScanTokenSize`. Crashes can come at any step, and in the middle of a
save. The position is process state: `Open` sets it to 0. `pc = "stuck"` is the
goroutine that waits for the `fileMutex` it holds itself.

**Service.** `conn[c]` follows a client from `backlog` through
`handleConnection`; `wg` and `connectionCount` change where the code changes
them (`wg.Add` in the accept loop, the counter in the handler). Deferred calls
run in their order: untrack and cancel, close and `wg.Done`, counter. Cleanup
looks, cancels and deletes in three steps. The writer shows as the steps at
which a call to it returns. Message contents and times are choices.
Connections are identified as in the code, by the value of a clock: `id[c]` is
a member of `Stamps`, which two handlers may read alike, and `active` has one
entry per ID. `Track` replaces the entry that is there; `Untrack` and
`CleanupDeletes` remove it, whoever's it is by then. Which of the connections
in `active` has been silent too long is a choice of `CleanupFinds`:
`LastActivity` is not in the state.

**Forwarder.** `Service` and `HECWriter` side by side, with the connections'
handlers as the writer's. The writer moves only inside the calls in which the
service is: a handler's `AddEvent` while it is at `adding`, the ticker's `Flush`
while it is `flushing`, `Close` while the shutdown goroutine is at
`closingWriter`. A call returns when its goroutine has nothing left to do in the
writer. The pipe, socket and file writers are not composed with the service:
they have no lock that would give an event to one flush only, and lose events
when the service's calls overlap (section 5); and a `reconnect` of the pipe or
the socket waits without a bound for a reader or a peer (`pipe.go:55`,
`socket.go:56`), so that nothing can be said there of the slot of the
connection whose handler is in it.

**BaseWriter.** `kind` says which of the three writers it is; they share
`AddEvent` and `Flush` almost to the letter. A call is a chain of steps,
because no lock makes it one: `append` - `added` - `writing` (the loop over
the events there were when it began) - `reconnect` - `opening` - `rotating` -
`cleaning` - `clearing`. `array` and `len` are the slice: two appends that
overlap write the same slot, a `Clear` that overlaps an append drops the
event. `pending` is the content of the `bufio.Writer`, `broken` its sticky
error. `size` is counted in messages, `files` maps the second a file was named
after to its last change, number of messages and events. Four
history variables name what the properties except: `overlapped`, the events two
calls had in their hands at once; `skipped`, those in a `bufio.Writer` that a
reconnect replaced; `retried`, those that were in the buffer when a flush
failed; `setbacks`, how often the clock was set back (NTP, an operator, or the
end of daylight saving, since names are in local time). `owner` is the
goroutine whose FIFO or socket is at the output path: another `reconnect`
removes it, and the first goroutine then waits for a peer that cannot come.

**Metrics.** A handler records in steps; a page is filled field by field in
the order of the struct, with the read lock that `/metrics` holds and `/stats`
has released by then. A rate is represented by the number of events that it
was computed from.

**Configuration.** `flag[s]` and `env[s]` are what the command line and the
environment give for setting `s`; the environment's value is a set with at
most one element. `Start` is what the settings alone decide: error, panic, or
a process that runs. `MaxCapacity` is what `make` can allocate, and `Duration`
converts seconds as a `time.Duration` does, wrapping around: both decide about a
panic. Other conversions of units are not in the model.

## 3. Runs

| Run | Instance | Shows |
|---|---|---|
| `breaker` | 3 goroutines, threshold 3 | type, no closed breaker with a spent budget, half-open only after the timeout, an open breaker recovers |
| `breaker_serial` | 1 goroutine, threshold 10 | refinement of the sequential breaker, trips exactly at the threshold, a trial decides |
| `hec` | 2 handlers, ticker, Close; 2 events, batches of 2, 1 retry, breaker, both files, failing disk, lost answers | one owner per event, bounded batches, honest statistics, no silent loss, bounded redelivery, nil means acknowledged, refinement of `OutputWriter`, events leave memory |
| `replay` | 3 events, batches of 2, both files, a scanner for 2 lines | truncation loses nothing readable, a save leaves what the scanner reaches where it is and within reach |
| `replay_gap`, `replay_startup` | persistent buffer only, the scanner no limit; the second with 2 events | violations, see section 5 |
| `service` | 2 clients, 1 connection allowed, 2 frames each, 2 time stamps, HTTP server | no event into a closed writer, one late event at most; tracked, cancelled or sharing an ID |
| `forwarder` | 1 client, 2 frames; HEC output with batches of 2, breaker, DLQ, no retries | nothing is added behind `Close`, an orderly end loses nothing but the ticker's batch and what had no file to go to, the slot of a silent client comes back |
| `service_limit`, `service_shutdown` | as `service` without HTTP server, the second with 1 client | violations, see section 5 |
| `writers` | a pipe and a file; 1 handler, ticker, Close; 3 events, batches of 2, `bufio.Writer` for 2, rotation at 2 messages, 1 file kept, 2 mishaps, 2 seconds | refinement of `OutputWriter`, order, oldest lost first, current file kept, buffer emptied |
| `writers_overlap` | a pipe; as `writers`, `bufio.Writer` for 3, 1 mishap | violation, see section 5 |

**Bounds and why they are enough.** Three goroutines in the breaker: one inside
`OnSuccess` between its two stores, one inside `OnFailure`, one reader; with
the threshold at 3 the budget can be spent by separate goroutines. In the HEC
writer two events give a full batch, and two overlapping batches when the
ticker takes the first alone; a buffer that fills again while earlier batches
hang in retries is covered by the proof of `BatchBound` only. One retry is the
smallest number that separates first attempt, retry and the individual round,
and the redelivery bound `2 * (MaxRetries + 1)` is tight in it; a threshold of
1 opens the breaker at the first failed batch. In the writers, three events in
batches of two give a full batch, a rest for the ticker or Close, and with a
`bufio.Writer` for two messages a write in the middle of a loop and one at its
end; two mishaps are any two of failures, overlaps and clocks set back, enough
for a reconnect that fails after a write that failed, and for a retry of what
was written already; with one file kept and two seconds to name it after, the
first rotation has a file to remove. The exception that `RotationLosesOldest`
makes of retried events does not show there: it takes a `bufio.Writer` smaller
than the batch (batches of 3, a writer for 1), where a reconnect in the middle
of a flush loses event 1, the old file gets 2, the flush fails, and its retry
puts 1 into the file after it. The theorem covers all such instances. The
socket differs from the pipe in the model by its name only and is not in the
run. In the forwarder one client with two frames fills a batch or leaves it to
the ticker or `Close`, so that each of the three callers can be in any part of
a flush beside the others; a second client is in `service`, and the theorems
about both modules cover any number. With answers that are `accepted` or
`rejected`, no retries and a breaker that opens at the first failure a batch
takes every way through the writer but those of lost answers, the persistent
buffer and the failing disk, which `hec` has. In the replay, three events give
a full and a smaller batch, two DLQ entries, and a save after a truncation; a
scanner for two lines is stopped by the gap that a replay of two leaves. It
reads any DLQ entry, as the theorem's hypothesis wants. In `replay_gap` and
`replay_startup` the scanner has no limit that a file could reach (50 cells):
they show what goes wrong with short lines and small files. Two time stamps let
two connections have one ID or two. With two clients and one slot a second
connection meets a busy, a finishing and a not yet counted first one. Clients
are symmetric in `service`; no run with a liveness property uses symmetry.

**Liveness as stated.** `EventsLeaveMemory`: every event is outside the memory
again and again, one by one, so that none stays in the buffer or a copy for ever;
but one that a handler left behind by the timeout adds when `Close` has taken
its copy may stay in the buffer.
`EventsLeaveBuffer`: the buffer of a stream writer is emptied again and again,
until somebody closes it. `BreakerRecovers` and `SlotsComeBack` are leads-to
properties of one breaker and one slot.

**Fairness.** Breaker: goroutines keep calling (every batch asks), calls end
(the HTTP client has a 30 second timeout), time passes; `Finish` is strongly
fair because Go's `RWMutex` does not starve a waiting writer. HEC: the ticker
ticks until `Close` begins, when its goroutine has been told to end
(`service.go:209`), and a flushing goroutine goes on, since its sleeps and
POSTs are bounded in time; no handler has to add and nobody has to close.
Replay: startup goes on once the process was started; a crash is always
possible and never required. Forwarder: handlers go on, because reads carry a
deadline (`service.go:334`) and, with the HEC output, `AddEvent` makes a number
of POSTs that batch size and `MaxRetries` bound, each of at most the HTTP
client's 30 seconds; clients and signals are free, the ticker and `Close` too.
`Service` alone has no fairness, since with another output `AddEvent` may never
return. Writers: the ticker ticks and a call that has begun goes on, which for
pipe and socket includes that a reader comes to every one it can find
(`OpenFile` and `Accept` wait for it); mishaps are bounded, so in the end
writes succeed.

**Deadlock.** It is checked for breaker and replay. The writers, the service
and the forwarder may stop for good (all events sent; process gone), and their
configurations say so.

## 4. Proofs

Each theorem holds for every value of the constants that meets the named
assumptions, which are what the code's constructors and defaults provide:

| Assumption | Says |
|---|---|
| `ThresholdAssumption` (`CircuitBreaker`) | the threshold is at least one; `NewHECWriter` passes 5 |
| `ConfigAssumption` (`HECWriter`) | a batch holds at least one event (a `BatchSize` of 0 acts as 1, `hec.go:339`), the number of retries is a natural number (a negative one from the environment means no POST at all and is not modelled), the switches are Booleans |
| `GoroutineAssumption` (`HECWriter`) | ticker and Close are not handlers, nor each other |
| `ServiceAssumption` (`Service`) | at least one connection is allowed (`service.go:110-122`; theorem `ConnectionsAllowed`), clocks show something, `None` is no client and no time stamp |
| `CallerAssumption`, `WriterAssumption` (`Forwarder`) | ticker and Close are not clients; those of `HECWriter` |
| `ReplayAssumption` (`HECReplay`) | batch size and scanner limit are positive, NUL bytes are no event, the switches are Booleans |
| `WriterAssumption` (`BaseWriter`) | batch, `bufio.Writer`, file size and number of files are positive (theorem `PositiveEnvironmentSuffices`), ticker and Close are not handlers |
| `SizesAssumption` (`Configuration`) | the default buffer can be allocated and the default interval converted |

No set is assumed finite: handlers, clients and, but for `BaseWriter`, events
may be infinitely many. Every invariant and every action property of a passing
run, and every refinement, is a theorem; six theorems have a hypothesis
besides the assumptions, which their paragraph names. The inductive invariants
are conjunctions of named parts, and TLC checked them on small instances before
they were proved: `IInv` for breaker, HEC writer, service and metrics,
`ForwarderInv`, `Sound` and three more for the replay, `FileInv`, `Typed`,
`OrderInv` and `RotationInv` for `BaseWriter`. `Metrics` has no run of its own:
its theorems cover every instance a run could.

**`CircuitBreakerProofs`**: `TypeCorrect` (`TypeOK`), `ClosedIsBelow`
(`ClosedBelowThreshold`), `HalfOpenIsTimely` (`HalfOpenOnlyAfterTimeout`).
None of these is inductive alone. `IInv` adds four facts: `LockDiscipline` (an
`OnFailure` inside its lock has no reader or other writer beside it),
`CountedIsLatest` (the count can only have been reset since `OnFailure` read
it, so `failureCount <= newCount`), `SpentIsTransient` (a closed breaker with a
spent budget has a goroutine under way that will reset the count or open it:
this is `ClosedBelowThreshold` before things settle), and `SeenTimeoutHolds`
(nobody can set the clock back between `CanExecute`'s look at it and its store:
`OnFailureLock` needs the write lock).

For one caller (hypothesis `Threads = {t}`, which is the claim): `SequentialBreaker`
(the refinement `SerialSpec`), `TripsAtThreshold` (`SerialTrippedAtThreshold`),
`TrialsDecide` (`SerialTrialDecides`). `OneCaller` ties what the caller has
read to what is still there, and says that but for the inside of `OnSuccess`
and `OnFailure` the breaker is closed if and only if its count is below the
threshold. With two callers the first two are false: while one is between the
two stores of `OnSuccess`, the other counts failures that the reset then erases,
or opens a breaker whose count is reset to zero.

**`HECWriterProofs`**: `TypeCorrect`, `EventsHaveOneOwner` (`OneOwner`),
`BatchesAreBounded` (`BatchBound`), `RedeliveryIsBounded`
(`BoundedRedelivery`), `SuccessIsHonest` (`NilMeansAcknowledged`),
`CountIsHonest` (`EventCountHonest`), `Refinement` (`ContractSpec`) and
`NothingIsLostSilently` (`NoSilentLoss`).

* Ownership comes first. `Owned` says that an event is fresh, in the buffer, in
  one goroutine's copy or given up, and nowhere twice. From it follows that a
  step of one goroutine changes nothing the others' facts are about (lemmas
  `Frame`, `LocalFrame`), so the rest of the invariant, `Local(g)`, is proved for the
  goroutine that moves only.
* `Local(g)` says what is known at each point of `flushBufferCopy`: what has
  been answered (`Answered`), what has been written (`FailedInDLQ`,
  `WrittenSoFar`), and how often the events of the batch can have gone out
  (`SentSoFar`). The bound on redelivery is the two loops' bounds added up at
  the end of the individual round, and holds of events that are in no batch
  because the last step of a batch leaves them with it.
* `SuccessIsHonest` is an action property: only the steps that end a flush can
  empty a batch, and `Answered` decides what is acknowledged there.
* `Refinement` maps each step to `AddEvent` or `Output` of `OutputWriter`
  or to a stutter. `NothingIsLostSilently` is the accounting of that contract,
  carried back over the mapping.
* `CountIsHonest` needs a set that is not in the state: `CountedOnce` says
  there is a set of acknowledged events, disjoint from all batches still to be
  counted, of as many elements as `eventCount`. Cardinalities come from the
  library's theorems on finite sets.

**`HECReplayProofs`**: `TypeCorrect`, `ReadableAreSent`
(`ReadableSentBeforeTruncation`), `DLQIsSent` (`TruncatedDLQWasSent`),
`SavesKeepReach` (`SavesKeepReachableLines`), over any number of crashes.

* `Sound` is the type invariant with `SmallFlush` and `SmallEntries`: no flush
  and no DLQ entry is larger than a batch.
* `BufferQueued` and `DLQQueued`: while a replay runs, what it has read and not
  sent is in its queue. The lemmas on the scan say that the queue built at the
  start holds every readable line, the rest of a last batch included. A replay
  that fails leaves this state for `stuck`, from which only a crash leads away.
* `DLQIsSent` has the hypothesis `BatchSize <= ScanLimit`: then no entry is too
  long to be read. Without it the property is false (section 5).
* `SavesKeepReach` holds whatever the lengths of lines and gaps, and needs to
  say what a save may overwrite. `BehindReach`: once the file has been scanned, a
  line behind the file position is out of the scanner's reach, because the
  scanner stopped at a line in front of it that is too long, or because the
  position has so much nothing in front that whatever is written there is too
  long itself. A scan that ends early leaves the position inside the line it
  stopped at.

**`ServiceProofs`**: `TypeCorrect`, `CountersAreExact` (`Counting`),
`WriterClosesLast` (`NoAddAfterClose`), `LateEventsAreFew`
(`AtMostOneLateEvent`), `NobodyIsForgotten` (`TrackedOrCancelled`).

* `Counting`: `wg` is the number of connections between `wg.Add` and `wg.Done`,
  and `connectionCount` of those between their increment and decrement. That
  both are natural numbers (a negative `WaitGroup` panics) depends on it.
* `NoAddAfterClose` rests on the order of two steps: `close(shutdownChan)`
  comes before `wg.Wait` returns (`ChanFirst`), so when the wait is over no
  handler exists (`Counting` with `wg = 0`), and one that starts later finds
  the channel closed before it reads.
* `AtMostOneLateEvent`: a late event means the channel is closed and the
  handler is past its frame (`LateIsLast`), so the next `select` ends it.
* `TrackedOrCancelled`: cleanup cancels before it deletes (`CancelFirst`), a
  handler has an ID since it tracked its connection (`IDFromTracking`), and who
  replaces or deletes another's entry has the same one (`SharesID`, the
  exception that the property makes).

**`ForwarderProofs`**: `ForwarderIsService`, `ForwarderIsWriter`,
`ForwarderInvariant` (`ForwarderInv`), `CloseTakesAll` (`NothingBehindClose`),
`OrderlyExit` (`ExitLosesNothing`).

* `ForwarderIsService` (`ForwarderSpec => Spec`) and `ForwarderIsWriter`
  (`ForwarderSpec => HP!Spec`, the specification of `HECWriter`) say that a step of
  the composition is a step of each part or leaves it alone. They bring along
  the invariants of both, so that nothing about counters, channels, batches or
  files is proved twice.
* `InCalls`: a goroutine is in the writer only while the service has it in a call.
* `CloseTakesAll` is about the two together. When `Close` begins in an orderly
  shutdown no handler is in `AddEvent` nor will one be (`NoAddAfterClose`), so
  nobody adds to the buffer that its flush has emptied.
* `OrderlyExit` follows: the buffer is empty, the handlers and `Close` have
  nothing in their hands, and `NoSilentLoss` of the writer says where every
  event that is not in memory has gone. What is left is the ticker's batch.

**`BaseWriterProofs`**: `TypeCorrect` (`TypeOK`), `CurrentFileIsKept`
(`CurrentFileKept`), `OrderIsKept` (`ReceivedInOrder`), `Refinement`
(`ContractSpec`), `RotationLosesTheOldest` (`RotationLosesOldest`).

* The file being written to is the newest one: `Directory`, which holds of the
  file kind as long as the clock has not been set back (`SetBack`), says that
  no file has a later name or a later change than the current one. Its `Rank`,
  which breaks ties by name, is then 0. `Directory` also orders the others - a
  file was last changed before a later one was named, or in that second - so
  that rank by change and order by name agree.
* That only events are ever written needs `Filled`: the slots of the array up
  to the length that any call has in its hands have been stored, whatever
  overlapping appends and clears have made of `len` since.
* `OrderInv` separates calls that run alone from calls that overlap. A call
  alone makes `Progress`: the slots it has passed are out or skipped, and those
  to come follow all that the descriptor has been sent. Overlapping calls are
  `Together`: all that they can touch is in `overlapped`. The start of a second
  call turns the first into the second, and no call that goes on turns back.
  `BufferIsNext` and `StreamInOrder` say the same between calls and of the
  `bufio.Writer`.
* `Refinement` is the step that clears the buffer: a call alone has by then
  passed every slot, a call in company clears marked events only.
* `RotationInv` says that the files are in order, and the buffer behind them
  (`FilesInOrder`, `BufferIsBehind`), but for `retried` events. Proving it
  showed that the property without this exception is false: see the instance
  under the bounds in section 3.

**`MetricsProofs`**: `TypeCorrect` and `PagesAddUp`, for any number of handlers
and requests. `Accounted` says that the outputs are the events processed plus
the handlers between `recordOutput...` and `recordEventProcessed`, a finite
set; `PagesHonest` says it of what a page holds so far, against the counters it
has yet to read.

**`StatelessProofs`**: `ConnectionsAllowed`, `PanicNeedsEnvironment`,
`PositiveEnvironmentSuffices`, `FalseFlagLoses` of the configuration,
`FindsFirstColon`, `SyslogLineIsCutInItsTimeStamp` of the pipe reader: pure, for
all values. `DurationIsExact` and `PanicsOutside` are the lemmas about intervals:
one that a `time.Duration` can hold is converted to itself, and the start panics
only on a size or an interval out of range.

Only model-checked: liveness (`BreakerRecovers`, `EventsLeaveMemory`,
`EventsLeaveBuffer`, `SlotsComeBack`), since fairness and `ENABLED` are out of
the proof system's reach, and the violations of section 5, which are
counterexamples and not theorems.

## 5. Where code and comments disagree

Shown by a run:

* `replay_gap`: the persistent buffer is truncated as a whole "since we've
  successfully sent all events" (`hec.go:726`). The position is not reset, the
  next save leaves a gap of NUL bytes in front of its first line, that line does
  not parse at the next start, and is truncated with the others.
* `replay_startup`: "Don't fail startup" (`hec.go:105`). The first replay POST
  that fails calls `writeToDLQ`, which locks the `fileMutex` the replay holds.
  `TruncatedDLQWasSent` in `replay` holds because of this: a replay that fails
  in part never reaches its truncation. Who repairs the self-deadlock must make
  the truncation selective as well.
* `service_limit`: "Maximum number of concurrent connections" (`config.go:38`)
  is compared with a counter that handlers increment only once they run.
* `service_shutdown`: "Wait for active connections to finish", "Close output
  writer" (`service.go:178`, `192`). Closing the listener ends `Run` and `main`,
  and the process with them.
* `writers_overlap`: "Flush writes all buffered events to the pipe"
  (`pipe.go:77`). `pw.buffer[:0]` drops what another goroutine appended since the
  loop began; the file and socket writers do the same. It takes the default
  configuration and two of the three kinds of caller.

Seen in the models, and excepted by the properties that hold:

* HEC replay. A DLQ entry longer than 64 KiB ends the scan; with one sent entry
  before it the file is truncated, and the entry lost with it (`hec.go:745`). That is
  `TruncatedDLQWasSent` with a `ScanLimit` below `BatchSize`. In the persistent buffer
  ordinary lines are enough: after a replay of more than 64 KiB the gap that the
  truncation leaves is longer than the scanner takes, the next scan stops in it
  (`hec.go:559`), and the saves of that process overwrite the lines behind it,
  which were saved and never sent. `SavesKeepReachableLines` speaks of the lines in
  front of the gap.
* Service. Connections are tracked by `time.Now().UnixNano()` (`service.go:286`).
  Of two handlers that read the same value the later replaces the earlier in
  `activeConnections`, and the end of either removes the entry: a live connection
  is then neither cleaned up nor counted (`TrackedOrCancelled`, `SharesID`).
* Forwarder. The ticker is not in the `WaitGroup`: "Shutdown complete"
  (`service.go:197`) may be logged, and the process end, while it is sending a
  batch, which is then lost (`ExitLosesNothing`, `batch[Ticker]`).
* Overlapping calls of pipe, socket and file writer lose events in a second way:
  two appends store into one slot (`pipe.go:69`). Their order is not kept either
  (`overlapped`).
* Of one call at a time, too: a reconnect in the middle of a flush loses the
  messages that were in the old `bufio.Writer` (`output.go:132`), and the flush then
  clears the buffer and returns nil (`skipped`). If the flush then fails as well,
  its retry writes the lost ones again, behind later ones: rotation can then
  remove a later event and keep an earlier one (`retried`).
* Of two goroutines that reconnect a pipe, the first has its FIFO removed by
  the second and waits for ever for a reader of a name that is gone.
* Rotation goes by the wall clock (`file.go:60`, `172`). When the clock is set
  back, the file that a rotation opens may have the oldest time of change or, at
  equal times, the oldest name: cleanup removes it, and what is written to it
  goes with it (`setbacks`).

Modelled, with no property to violate: delays between retries grow
linearly, `attempt * baseDelay` (`hec.go:237`), where the README of the program
says exponential; 400, 401 and 403 are retried like 5xx although `doPost`
distinguishes them (`hec.go:314-322`); the individual retries POST while the
breaker is open (`hec.go:405`).

Metrics and configuration:

* A `MaxFiles` of 0 from the environment removes the file that is open, a
  negative one is a slice bound out of range (`file.go:177`); a negative
  `MaxLatencySamples` one in `recordLatency` (`service.go:562`).
* A buffer size that `make` cannot allocate panics at the start, from the command
  line as from the environment (`pipe.go:25`), as does a flush interval of
  centuries, which may become negative when it is converted (`service.go:162`).
* `recordEventProcessed`, "a successfully processed event" (`service.go:566`),
  also follows an error of `AddEvent`.
* `/stats` encodes the metrics after releasing the lock (`service.go:503-508`),
  so its rate may count events that the page does not report.
* `total_connections`, `output_latency` and `memory_usage_bytes` are never set;
  `ProcessMessage` returns no error, so `processing_errors` stays 0.
* "Command-line flags take precedence" (`config.go:69`), but a false or
  non-positive flag is as good as none: theorem `FalseFlagLoses`.
* With JSON output and batches "events are sent as JSON arrays" (the program's
  `README.md:114`), which only the uncalled `flushBatchBuffer` does for the
  writers with a `BaseWriter`.
* `findJSONStart` finds the colon in the time stamp, not the one "that
  separates the syslog header from the message" (`pipe_reader/main.go:92`).

## 6. What is not modelled

* In `HECWriter` the order of events, and everywhere the bytes of an event: no
  property there depends on them, and JSON is left to its library.
* `HECBufMaxSize`, logged and never enforced: there is no limit to model.
* Counters behind `GetStats` other than `eventCount`; `/health` and `/`; the
  average of the latencies.
* Durations. What a timeout decides is a choice at any time. In particular the
  read deadline of a frame replaces the connection's (`service.go:303`, `334`),
  so `ConnectionTimeout` bounds the handshake only.
* The pipe, socket and file writers together with the service, see `Forwarder`
  in section 2.
* In `Service` the time of the last activity: cleanup may find any tracked
  connection inactive.
* How often an event is sent over several processes: `BoundedRedelivery` is about
  one. A crash between replay and truncation has the file sent again, without a
  bound.
* In `HECReplay` one flush runs at a time, and an unanswered individual POST
  counts as not received (the concurrent flushes are in `HECWriter`). A single
  write of a line is not torn.
* In `BaseWriter` what the memory model allows beyond interleaved steps: a
  slice header or a `bufio.Writer` torn by a race. A write of the
  `bufio.Writer` ends between two messages. Other programs' files with the
  same prefix, which cleanup may remove (`file.go:160`). `sort.Slice` is stable up to
  twelve files only; the model breaks ties between equal times of change by
  name, the order in which `os.ReadDir` lists them, for any number.
* `flushBatchBuffer` and `flushBuffer` (`output.go:147-192`): nothing calls them.
* In `Configuration` the overflow of other conversions than that of the flush
  interval, and the settings that are only passed on.
* Event processing: stateless conversion by libraries, whose only outcomes for
  the rest are no event or one (`Service!ProcessMessage` chooses).
* The mock server: a test tool with three counters under one mutex.

## 7. Plan

Done, in this order because the HEC path is the program's core: breaker, HEC
writer, replay, service; then the writers with a `BaseWriter`, the composition
`Forwarder`, metrics, configuration and the pipe reader; then the theorems, in
the same order, until every safety property of the runs had one. Left:

1. What the service can promise with the pipe, socket and file writers: the
   composition of `Service` with `BaseWriter`, for one client, whose handler, ticker
   and shutdown overlap as they do in `Forwarder`.
2. The bounds the violated runs leave: how far the connection counter can
   exceed its limit, and which events a gap in the persistent buffer costs.
3. The hazards that `PROJECT.json` lists without a property, as far as the code
   makes a promise about them.
