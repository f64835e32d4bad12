# Verification of the Host Link client (plc-comm-hostlink-python)

TLA+ models, TLC runs and TLAPS proofs of the Python package `src/hostlink`, a
client for KEYENCE PLCs that speaks the Host Link protocol over TCP and UDP.
Line numbers below are lines of `src/src/hostlink/client.py` unless another
file is named.

## 1. The system

| Component | State | Operations |
|---|---|---|
| Sync admission, `_SyncFifoAdmission` (84-149) | `_active`, `_queue`, `_generation`; per thread `depth`, `generation`, the waiter's event and error | `__enter__`, `__exit__`, `invalidate`, `active_was_invalidated`, `adopt_if_current` |
| Async admission, `_AsyncFifoAdmission` (164-234) | `_owner`, `_owner_generation`, `_depth`, `_queue` (ordered dict of tickets), `_generation` | `__aenter__` (with cancellation), `__aexit__`, `invalidate`, `active_was_invalidated` |
| Sync client transport, `HostLinkClient` (1180-1635) | `_sock`, `_connecting_sock`, `_udp_remote_endpoint`, `_udp_logically_connected`, `_rx_buffer`, monitor metadata, aggregate deadline, counters | `connect`, `close`, every command through `_exchange` |
| Async client transport, `AsyncHostLinkClient` (1965-2480) | `_reader`, `_writer`, `_udp_transport`, `_udp_protocol`, the rest as above | the same, as coroutines |
| UDP protocol, `_HostLinkUDPProtocol` (2817-2865) | `_future`, `_unowned_datagram`, `_unowned_error` | `datagram_received`, `prepare_response`, `wait_response`, `cancel_pending_response`, `reject_unowned_response` |
| Hostname worker (496-595) | `_SyncConnectState`: `done`, `abandoned`, `sock`, `error`, `completed_at` under a condition | a daemon thread that resolves and connects; a waiter that polls |
| TCP accumulator, `_TcpReceiveAccumulator` (237-331) | buffer, `_start`, `_count`, `_scan` | `append`, `try_take_line`, `discard_separators`, `reset` |
| Read-modify-write of one bit (1734-1776, 1920-1963 and async) | `_aggregate_deadline` | one read and one write in one turn |
| Planned reads, named and typed writes, polling (`utils.py`) | the compiled plan | compile, execute, resolve |
| Device addresses (`device.py`), wire protocol (`protocol.py`), ranges and profiles, errors | none | pure functions and catalogues |

How they interact. Every public call of a client runs inside one turn of the
client's admission, in arrival order; a thread (task) that has the turn may
enter again. `close()` takes no turn: it *invalidates* the generation, which
rejects everybody queued, and then takes away the sockets under the hands of
whoever has the turn. That call finds out by an error of its socket, by
`active_was_invalidated()`, or at `adopt_if_current()`. The network answers
late, never, twice, or with something malformed, and responses carry no
transaction number. The failed request's transport is therefore discarded
(1596-1601), over UDP together with a fresh socket for the next request. That keeps
late *answers* away; a late *request* is not recalled by it. What a failed call has sent may
get to the PLC when later calls have been served.

What is hard, and what makes each part correct:

* Admission: mutual exclusion across a hand-over to a thread that is not yet
  scheduled; arrival order; no turn lost when a waiter is rejected or cancelled
  in the very step in which the turn reaches it; nothing retired is admitted;
  everybody leaves the queue.
* Transport: no socket leaks in any interleaving of connect, failure and close;
  no retired call publishes a connection; a response is accepted only for the
  request it answers; a write is reported as done, not done, or of unknown
  outcome, and the report is true of the PLC and stays so; only requests of unknown outcome
  get to the PLC out of order or between the two requests of a bit write; every call returns.
* Data functions: a batch of a read plan never exceeds its limit and every value
  is taken from its own word; a list of values is written by one command that sets
  exactly what it names; a line is cut out of the byte stream whatever the chunks are.

## 2. Modules

| Module | Models | Notes |
|---|---|---|
| `FifoTurn` | the abstract promise of both admissions: one owner, a FIFO of waiters, withdrawal, `close` | implemented by both detailed modules |
| `SyncAdmission` | `_SyncFifoAdmission` | refines `FifoTurn` |
| `SyncAdmission_proofs` | theorems about `SyncAdmission` | section 6 |
| `AsyncAdmission` | `_AsyncFifoAdmission` | refines `FifoTurn` |
| `AsyncAdmission_proofs` | theorems about `AsyncAdmission` | section 6 |
| `SyncClient` | connect (numeric address), requests over TCP and UDP, the two-request bit writes, close, monitor registration | composes `SyncAdmission` by INSTANCE |
| `SyncClient_proofs` | theorems about `SyncClient` | section 6 |
| `AsyncClient` | the same for the coroutine client with its endpoint protocol and cancellation | composes `AsyncAdmission` by INSTANCE |
| `AsyncClient_proofs` | theorems about `AsyncClient` | section 6 |
| `HostnameConnect` | the worker thread of a connection to a host name, the waiting caller, adoption and close | workers outlive their callers |
| `HostnameConnect_proofs` | theorems about `HostnameConnect` | section 6 |
| `TcpAccumulator` | `_TcpReceiveAccumulator` with `_reject_unowned_tcp_input` and `_recv_tcp_line`, which drive it | bytes; not composed with the clients |
| `TcpAccumulator_proofs` | theorems about `TcpAccumulator` | section 6 |
| `DeviceAddress` | device families, bit-bank numbers, span widths, read limits | pure operators |
| `ReadPlan` | `read_named` and `poll`: compilation, preflight, execution, resolution | extends `DeviceAddress` |
| `NamedWrite` | `write_named`, `write_typed`, `write_*_single_request` and the client's `write`, `write_consecutive`, `write_timer_counter_preset`: the checks, the compilation into one command, the client's builders; then a read of the same list | extends `ReadPlan` |
| `ReadPlan_proofs` | theorems about `ReadPlan` and the bit-bank numbers | section 6 |
| `NamedWrite_proofs` | theorems about `NamedWrite` | section 6 |
| `MC*` | constants for TLC | |

### How the state corresponds

`SyncAdmission`: `active`, `queue`, `generation` are the fields of the class;
`event[t]` and `waiterGeneration[t]` belong to thread t's `_SyncAdmissionWaiter`
(`event = "rejected"` is the event set with an error); `depth[t]` and
`localGeneration[t]` are the thread locals; `pc[t]` is outside, waiting or
inside. Sections under `_guard` are single actions.

`AsyncAdmission`: code between two suspensions is one action. `future[t]` is the
waiter's future; `cancelled[t]` says that a `CancelledError` is on its way.

`SyncClient`: `client` is the record of the object's fields, `me[t]` the program
counter and the locals of the call of thread t, `wire[s]` a socket with the peer
behind it: its state, the answers that have arrived and not been read (`inbox`),
the requests that are under way (`flight`), and those that the PLC has and may still answer
(`pending`). `sendall` puts a request in flight and nothing more. `Arrive` takes it to the PLC at any
later time, or never: while its call waits, after the call has given up, after its
socket was closed and after requests over the next socket. Over one TCP connection requests keep
their order; datagrams, and the requests of two connections, do not. An action ends wherever
another thread, the network or the clock can change what the next line sees:
`c_*` labels are in `connect`, `x_*` in `_exchange`, `k_*` in `close`. `received`
(the requests the PLC got, in that order), `late` (those whose call no longer waited when they
arrived), `checked`, `since`, `retired` and `sent` are only read by properties. A monitor registration is the identity of the connection it
was made on.

A `bit` call makes two requests with consecutive numbers: `req` is the one in progress,
`alters` the one that changes the PLC (the second), and `WriteBack` is the step from
one to the other. Over TCP a response arrives in two parts (`ReceivePart`,
`ReceiveLine`) and is taken out of the receive buffer by a step of its own (`TakeLine`),
because `close()` resets the buffer without the turn; `rxData` says that the buffer holds
something, and `whole` that nothing of a line was lost.

`AsyncClient`: `running` names the task between two suspensions; while it is set
nothing else moves. `close()` is one action, because nothing in it suspends.
An attempt to connect is a `wire` in state `opening` that finishes on its own;
the response future of the UDP protocol is `wire[s].response`.

`HostnameConnect`: `attempt[a]` is the worker of the a-th call of `connect`, its
candidate socket and its `_SyncConnectState`; `worker` is the line the thread is at
(`failing` is its `except`, `disposing` its `finally` clause), `handed` is `state.sock`,
`late` compares `completed_at` with the deadline. `call` is the calling thread, of
which there is one at a time: it has the turn. The sections under the condition
are single actions. An error of the resolver that is no `OSError` is the outcome
`other`: no clause of `connect` maps it.

`TcpAccumulator`: `rx` is the record of the accumulator's fields, with the zero-based
buffer; the counters `scan_byte_count` and `copy_byte_count` are left out. Each
round of the loop of `try_take_line` is an action (`SkipSeparator`, `Advance`,
`TakeLine`, `NotYet`). A body byte is the position at which it was received, so that
a line shows which bytes it was cut from; `stream` and `from` say what was received, and
how much of it before the present request. They are read by properties only.

`NamedWrite`: `counts` are the counts of the keys ("DM0:U,3"), `fits` whether every value is one of its
dtype, `helper` the function or method called (one name stands for a method, its run and its former
names), `stage` how far it has come, `command` the kind, first device, format and items
of the one command. An item is the sequence of the parts of values it carries, each the entry,
the position and the word. `Builds` is what the client's builders refuse: a word format that is missing, a
family the command does not write, no values or too many, a value outside its format.
A timer or counter has two cells, its current value and its preset: WS and WSS write the one, WR and
WRS the other, and a read returns the preset (`utils.py` 364-368). After the write the same list is
read back through `ReadPlan`, from the same initial state.

`ReadPlan`: `entries` is the list of the caller, each a family, a number, a format
and a bit. `todo`, `current` and `segments` are the sorted rest, the segment under
construction and the plan of `_compile_read_named_plan`; `Arrange(i)` is one round of
its loop. `resolved` is the list of the same name. The memory of the PLC is
not stored: the value of a device is named by the device and by the instant
`clock` at which it was read, so that a property can tell whose value an
entry got and when. A logical number is `Place`, the number of the device among those
of its family.

What is abstracted: in the client models payloads and replies are a request number and one of four
kinds (well formed, PLC error, framing violated, undecodable); which bytes are
which kind is decided by `protocol.py`, outside. Deadlines are a timeout that may
strike at any blocking call. In `ReadPlan` the texts of addresses, the encoding of
comments, the arithmetic that makes a number out of words and the upper ends of
the families are left out; the transport does not test the latter either
(`device.py` 268-270). In `HostnameConnect` the resolver names some address or fails.

## 3. Runs

| Run | Shows |
|---|---|
| `SyncAdmission` | three threads, two closes, nesting two deep: exclusion, no lost turn, exact and current queue, refinement of `FifoTurn`, every waiter leaves |
| `AsyncAdmission` | the same with three tasks and cancellation: `_owner` and its generation are exact, no ticket is left, a cancelled waiter never begins |
| `SyncClient` | two threads, both transports, connect, registrations, bit writes, close, requests that arrive late or never: no leak, stable connection, own answers, outcomes that are true and stay so, closed errors only for retired calls, nothing but late requests of unknown outcome out of order or between the read and the write of a bit |
| `SyncClientThree` | three threads over TCP, calls queued behind an active one when both are closed: every call returns |
| `AsyncClient` | two tasks, both transports, the same operations and network, cancellation: as above, and metadata that always belongs to the connection, cancellation errors only for cancelled calls, only current calls publish |
| `HostnameConnect` | two attempts and two closes: each socket has one holder that closes it, what comes late has no effect, nothing survives the `close` that met it, `connect` returns and late sockets are closed though a resolver may hang |
| `ReadPlan` | every list of up to three of twenty-two addresses, the last with none to five values, written by every helper and method that takes it: the plan reads each entry whole, nothing else and within the limits; every value is the entry's own, of one instant of the present cycle; a write that is sent sets exactly the cells of its list |
| `TcpAccumulator` | every stream of up to twelve bytes in every division into chunks of up to three: the response is the line after the last request or is refused, no request waits for what it has, the buffer stays bounded |
| `SyncTornAnswer`, `SyncUdpOutcome`, `AsyncAttributeError`, `NamedWriteFamilies` | findings, section 7 |

`register` stands for every confirmed write in the two large runs: it does the same and also
stores metadata. `bit` contains a plain read. The run over three threads uses plain writes.

## 4. Bounds

Three threads (tasks) are the least in which a hand-over, a second waiter and a
newcomer or a close meet. Two generations let a close fall on work admitted
before it and on work that came after an earlier close; the client runs need one
close, of which every thread may be the author. Two sockets are an old connection
and its replacement, over UDP the socket of a failed request and the next one.
Three requests are a bit write and another call around it, the least for an answer to reach the wrong
one; one repeated reply (`MaxRepeats`), or one repeat or cancellation (`MaxMishaps`), is enough for a
duplicate, and all bounds are guards of the actions they bound. How long a request is under way has no
bound: a request of the old socket can arrive between, or after, the two of a bit write over the new one, and
the write of a bit after the next call. `MaxRepeats` and `MaxMishaps` count answers that are repeated. *Requests* that the
network duplicates are not modelled: the client has no part in them, and the properties about the order at the PLC and about
outcomes are not claimed for them. A call is begun
only if its socket and its requests are still in the budget, so no call stops half-way.

Two attempts let the worker of a retired call run beside the next one, and two
closes let either be retired. The read plan and the writes have limits of 4 (general) and 2 (TM, Z, timers)
devices in place of 1000, 512, 12 and 120: with three entries, or with a count of up to five, the limits are
reached, met exactly and exceeded, by one word and by the second word of a pair.
The twenty-two addresses touch, overlap, repeat, leave gaps, lie on both sides of a
bank's end, are of a second family, are read alone between mergeable ones, are of bit devices with a word
format, of timers and counters with one and with two cells, or are refused. Counts of none to five values
include the empty list and one more than every limit. A list that was written with a count, or with a value
outside its dtype, is not read back: reads know neither. Two cycles show a value of an earlier one, and
two changes of the memory a mixture of instants.

The accumulator starts at a capacity of 2 in place of 4096, with a cap of 2 and
chunks of up to 3 bytes: twelve bytes are enough to compact, to grow twice, to
grow while a line is half scanned, and to take several responses out of one buffer. Its
two properties are proved for all values, so the bound matters little there. The run
may stop, since no more bytes come (`CHECK_DEADLOCK FALSE`).

## 5. Fairness

The admission runs assume that a thread whose event is set and a thread inside
its turn eventually go on (weak fairness per thread): nothing in the class blocks
apart from `event.wait()`. The client runs assume the same for every call in
progress, and that a blocked socket call ends, at the latest by its deadline: each
of them is given the rest of the deadline as timeout (1533, 1537, 1623). The peer
owes no answer. For the event loop the fairness is strong, because a task is not
ready while another one runs, and the loop serves its ready queue in order.
`HostnameConnect` assumes that the caller wakes (it waits 10 ms at most), that the
clock reaches the deadline, that a worker goes on once its resolver has returned (its
socket calls have a timeout) and that a `close` that took a socket closes it. It
assumes nothing of the resolver. Liveness of the coroutine client is checked where it can fail, at its turn:
`EveryWaiterLeaves` of `AsyncAdmission`. A task inside the turn waits for the network
only, and each of these waits has the rest of the deadline as its timeout.

## 6. Proofs

`SyncAdmission_proofs` proves, for every set of threads and every bound:
`TypeCorrect`, `TurnIsExclusive`, `TurnIsNotLost`, `HandOverIsCurrent` and
`RefinesFifoTurn` (every step of the detailed admission is a step of the abstract
turn or a stutter). All follow from one inductive invariant, `IInv`. Mutual exclusion is not
inductive by itself: between `event.set()` and the wake-up of the successor no
thread is inside, so `IInv` counts a thread that is inside *or* has been granted
the turn as its holder, says that `active` is true exactly when there is one, that
a queued thread waits with its event unset and is in the queue once, and that
queued threads carry the current generation. The assumptions are those named
in `SyncAdmission`.

`HostnameConnect_proofs` proves `TypeCorrect`, `SocketsAreHeldOnce`, `AbandonedIsInert`
and `CloseIsFinal` for every number of attempts and closes. The
invariant says of each attempt separately what its worker, its shared state and
its socket look like together (`handed` only if done without an error, a worker that
has ended holds nothing), and of the call, the client and `close` which attempt
each holds; the three are different because an attempt leaves the worker once. `CloseIsFinal` adds `ClientInv`: a
connection older than the generation is one that a running `close` is about to take. It is not a restatement of `Adopt`:
it fails if adoption forgets the generation, and also if `close` took the socket before it invalidated.
`AttemptAssumption` is all it needs.

`ReadPlan_proofs` proves `BitBankInverse` by arithmetic, and `TypeCorrect`,
`PlanCorrect` and `ValuesCorrect` for every list of addresses and all limits that
let a value of two words into a command (`LimitAssumption`; family Z has no such
values). The invariant is about segments: `SegmentInv` adds to exactness that
the start is the first request's, that a mergeable segment is within the limit
*of its family's command*, and that a segment of several requests is mergeable, so
that its logical numbers are places. `LimitFacts` shows that the limit of the
compilation is that of the later check; hence the preflight never refuses. Exactness
of an extension rests on sorting only through `CanAppend`: the number lies within the
segment or touches it. Deliver never misses an entry, because each is in some
segment and each segment before `next` has resolved its members.

`TcpAccumulator_proofs` proves `BufferStaysBounded` and `ResponseStaysExact` for every capacity, cap,
chunk size and stream. `BufferInv` says that the unread bytes lie inside the buffer, that
the scan is among them or at their end, that between start and scan there are only
body bytes, at most as many as the cap, and that at most a chunk more has been
received when the client waits. This is why growth stops: `Room` grows only to hold
what is unread, which is a cap and a chunk, and doubling passes that once at
most. `ResponseInv` adds that the unread bytes are the end of the stream and that all
before them since the request were separators, so that a line cut out of the
buffer is a line of the stream. Neither needs more than `AccumulatorAssumption`.

`AsyncAdmission_proofs` proves all safety properties of the asyncio admission (`TypeCorrect`,
`OwnerStaysExact`, `QueueStaysExact`, `CancelledStaysOut`, `RefinesFifoTurn`) for every set of
tasks and every bound. `OwnerIsExact` and `QueueIsExact` are inductive only together: a hand-over makes
an exact owner because the head of the queue is suspended on a pending future, and the queue
stays exact because whoever is appended is outside. `NoneIsAhead` (no waiter is of a
generation to come) is added for the refinement, where `invalidate()` has to mark the
owner. `RemovedTicket` says what taking a ticket out of the middle leaves;
`CancelledInQueue` is then three cases: still queued (a withdrawal), already handed the turn (a leave),
rejected (a report). `CancelledStaysOut` needs that only suspended tasks carry a cancellation.

### The clients

`AsyncClient_proofs` and `SyncClient_proofs` prove every safety property the client runs check, for any
number of threads (tasks), sockets (connections), requests, closes and repeated replies, and in the
first also of cancellations. Both are laid out alike.

*The turn is a lemma.* Each instantiates the proofs of its admission (`Turn == INSTANCE ...`).
Every step of the client is a step of the admission or leaves it alone (`StepIsTurnStep`, and for tasks
`ClientStepIsTurnStep`), so that the inductive invariant proved there holds in the client and is not
proved again (`AdmissionHolds`, `TurnStep`); `ClientKeepsTheTurn` states it as a refinement. Nested entry is no step of a
client, and needs none. `TurnAssumption` repeats what the admission assumes of its
constants, and `ClientAssumption` says that bounds are natural numbers.

*Moves.* Some twenty handlers with their error paths do to the state what some fifteen
*moves* do (`Retires`, `GivesUp`, `Adopts`, `Opens`, `Sends`, `Takes`, ...). A lemma per handler shows
which moves it can be, and each part of the invariant has a lemma per move. A move keeps the
condition under which the code takes it, such as the one under which it reports a closed
error (`Honest`, `TrueEnd`, `Truthful`).

*The invariant* (`IInv`, checked by TLC on the bounds of the runs before it was
proved) adds to the properties what they rest on. It comes in layers, each kept with the help of those below:

1. The turn (`Admission`), the types (`Typed`), and what the label of a call says about it (`Control`).
   `Enough` (`EnoughConnections`) says that there are as many unused sockets as calls which may create one:
   it makes `NextSocket` a socket, and is the only place where the budget matters.
2. Whose each socket is (`Ownership`, `Connections`). `OpenSocketsAreOwned` is not inductive: it
   needs that a candidate belongs to the call in its turn, that nobody but that call publishes, that
   `_udp_logically_connected` is false while it connects, and that what a `close()` took is closed by it.
   `SteadyConnection` needs in addition that before the first close a call keeps its socket
   (`CallKeepsSocket`). In the coroutine client `close()` is one step, so `MonitorIsOfConnection` holds without that
   condition.
3. Whose each answer is (`Responses`). `AcceptedIsOwn` needs that a connection nobody is receiving on
   is quiet, with nothing pending and nothing unread, and that a receiving call waits for one answer, its own. This is
   where discarding the transport of a failed request is used: `Retires` leaves no connection,
   and over UDP the next one has another socket.
4. What the PLC has got or may still get (`AnswersWereAsked`, `InFlight`, `Ordered`, `Updates`). The requests are numbered in the
   order in which calls enter the queue; a queued call has greater numbers than the one in its turn, which has greater
   numbers than anything sent. `InFlight` says that a request under way is not received yet and is on one connection only,
   that nothing is received twice, that what is received out of order is late, that the write of a bit is received after
   its read (`ReadBefore`), that a call still waiting for its answer has no late request, and that the call of a late write
   ended without having been told success or definitive failure (`LateIsUnknown`).
   `OutcomeIsTrue` and `UpdatesAreWhole` follow with
   `Updates`: a call that has not sent its write has not changed the PLC, and nothing of it is under way.
5. `Cancellations` (coroutines only): whoever carries a cancellation was cancelled, though `close()` too
   cancels response futures.

### Writes

`NamedWrite_proofs` proves `WriteCorrect`, `ReadBackCorrect` and `CallIsRead` for every list of one family, every count
and limit, every helper and every writing method of the client, in every family that its builder accepts. Two things a caller might not expect are part of what
`WriteIsExact` says, as the code does them: `write_typed` and the methods for WR and WRS set the current value of a T or C, though `read_typed`
returns the preset (`write_named` writes what `read_named` returns), and `write_dwords_single_request` takes two devices for each value in families
whose devices hold 32 bits, so that a dword for Z1 goes to Z1 and Z2 (`utils.py` 1377-1381, as its docstring says). `CallInv` says that a compiled command writes what the list asks for (`CommandInv`). The argument
is one of layout: `Laid` is the set of devices and words when the values of a list lie one after another, d devices each.
A command writes `Laid`, as items of a format (`ItemsLaid`) or as pairs of words (`PairsLaid`); what is wanted
is `Laid` too, because the values of one address lie so by definition (`AloneIsWanted`) and those of several addresses by the
contiguity test (`ListIsWanted`). `WidthFacts` shows that d is the same in both: the words a read takes,
the step of the test and the width of an item agree for each format and family. `OneFamily` is a hypothesis inside
`WriteIsExact` because the code does not test families (`NamedWriteFamilies`, section 7); every list that the code treats
as the guide promises satisfies it. `CallIsRead` maps the reads after the write to `ReadPlan`, so that
`EntriesAreWhole` is cited and not proved again.

### What is only model-checked

Liveness (`EveryWaiterLeaves`, `EveryCallReturns` and the like) and all that rests on ENABLED; what recursive
definitions compute for every input; and the findings, which are counterexamples. Every invariant and action
property that a passing run checks is also proved. `SMTT` and `ZenonT` at a leaf name the prover
that finds it and allow it more time. Choices that a proof has to look into are written with IF, as the
provers do not find the last arm of a CASE with OTHER.

## 7. Findings

* `SyncTornAnswer`: `close()` invalidates (1308) before it resets the receive buffer
  (1321) and takes the sockets. A `connect()` and a read of the next generation that are
  admitted in between have received the beginning of their answer when the reset drops it; the
  rest is taken for the line, and the read returns 34 where the PLC sent 1234. The
  connection is closed a moment later by the same `close()`.
* `SyncUdpOutcome`: `select()` on a socket that `close()` has closed raises a
  plain `ValueError`, which is not an `OSError`; at the second input check of a UDP
  write (1372) it takes the place of the promised unknown-outcome error. The same
  happens to a `connect()` in its select (464), as the action `ConnectSelect` shows.
  Over TCP the reset of the buffer under `try_take_line` can leave it with an index
  without a byte (281), and a plain `IndexError` for the same promise.
* `AsyncAttributeError`: `_recv_tcp_line` reads `self._reader` again after each
  suspension (2472); after a close it is None.
* `NamedWriteFamilies`: the contiguity test of `write_named` (`utils.py` 762) compares kind,
  step, format and number but not the family: `{"DM0:U": 1, "EM1:U": 2}` becomes
  `WRS DM0.U 2 1 2`, and the value for EM1 goes to DM1.

More disagreements have no run of their own. The window of `SyncTornAnswer` also lets a
`connect()` of the next generation publish a candidate that this close then closes, and a
registration stores its metadata after its last test of the generation (1849, 1857), so that a
close in between leaves it behind; `SteadyConnection` states both for the time in which nobody
closes. `write_named` accepts D, L and F values in one "packed" command, which the guide calls mixed
dtypes; every value reaches its own words (`WriteIsExact`). An active request that close()
meets before `_exchange` has tested `_sock` (1506-1510, 2338-2341) raises the not-connected
error, the test being outside the `try` that turns it into the closed error. An
async `connect()` that was retired by close and whose attempt is then refused or
times out reports that error and not the closed one (2074-2083). `wait_closed()`
in the disposal of a late writer may raise a bare `OSError` out of an `except` clause.
The models contain all of these. One more: `docsrc/user/API_REFERENCE.md` 134-138 says that
compatible contiguous spans are merged when they fit, but an entry that is read alone
(a comment, a `.H` value) and sorts between two words ends their segment, so
that they are read by two commands; `Arrange` does the same.

## 8. Not modelled, and the plan

Left, in this order:

1. The commands of the client that cannot be built for an address (`client.py` 596-1179): limits of
   32-bit counts, expansion buffers, monitor lists.
2. X/Y numbers and the parsing of addresses (`device.py`), as far as they decide which device a request names.
3. A composition of `TcpAccumulator` with a client. Now the clients have a reply in two parts, and the
   accumulator proves that a line is cut out whole.

Not planned: the wire formats of `protocol.py` (single-call functions on bytes), the
catalogues of `device_ranges.py` and `plc_profiles.py`, traces and traffic
counters, samples and scripts.
