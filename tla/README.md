# oculus_driver in TLA+

This directory specifies oculus_driver, the C++ driver of the Blueprint Subsea
Oculus sonars, in TLA+. TLC checks the specifications on small instances and
TLAPS proves the central properties for every value of the constants. Paths
and line numbers below are those of the driver's source tree; `CallbackQueue.h`
is `include/oculus_driver/CallbackQueue.h`, `SonarClient.cpp` is
`src/SonarClient.cpp`, and so on.

## 1. The system

A sonar broadcasts a UDP status datagram about once a second. The driver waits
for one, connects to the sonar over TCP, sends it "fire" messages (its
configuration) and receives a stream of pings or, in standby, dummy messages.
One `io_service` thread runs every handler. User threads call the driver:
they send, register callbacks, and wait for the next message.

| component | state it keeps | operations | correct when |
|---|---|---|---|
| **CallbackQueue** (`CallbackQueue.h`) | `callbacks_`, `singleShots_`, one flag `sShotsCalled_`, two mutexes, a condition variable | `add_callback`, `remove_callback`, `add_single_shot` (timed or infinite wait), `call` | ids are never shared; a message reaches the callbacks registered at the time; a waiter is told "called" only if its own callback ran, once; a timed wait returns |
| **StatusListener** (`StatusListener.cpp`) | UDP socket, clock of the last status, a CallbackQueue | `message_callback` and its re-arming | one receive always pending; the clock says how old the last status is |
| **SonarClient** (`SonarClient.cpp`) | `connectionState_`, `socket_`, `socketMutex_`, the watchdog timer, the one buffer `message_` | watchdog, `reset_connection`, `close_connection`, `on_first_status`, `connect_callback`, the two read handlers, `send` | nobody uses a socket that is gone; an attempt to connect always has something pending; a dead connection is replaced; one reception loop per connection |
| **SonarDriver** (`SonarDriver.cpp`) | `lastConfig_`, `lastPingRate_`, four CallbackQueues | `send_ping_config`, `request_ping_config`, `current_ping_config`, `standby`, `resume`, `on_connect`, `handle_message` | the configuration it remembers is the one the sonar has; a reconnection restores it; requests end |
| **Message, reception** (`OculusMessage.h`, `SonarClient.cpp`) | `header_` and `data_`, read into in place | `update_from_header`, the read handlers | on a connection with one reception loop, callbacks are given whole messages, each with its own header, in order |
| **Ping layout** (`OculusMessage.h`, `helpers.h`, `python/src/message_utils.h`) | none | the sizes a ping wrapper deduces, the views of Python, the conversions to arrays and images | deductions end and find the size; all views agree on where a sample is |
| **PingRenderer** (`python/oculus_python/utils.py`) | cached geometry | `render` | an image is drawn with the geometry of its own ping |
| **AsyncService** (`AsyncService.cpp`) | `thread_`, `isRunning_` | `start`, `stop` | handlers run on two threads at most while calls overlap; `stop` returns with the thread gone |
| **Recorder, FileReader** (`Recorder.cpp`) | a file, a position, the next item's header, the bits of the stream | `open`, `write`, `close`; `read_next_item`, `read_next_message`, `read_next_ping`, `rewind`, `jump_item` | what is read is what was written, also after a crash in the middle of an item |
| **Python recorder handle** (`python/src/oculus_python.cpp`) | `recorderCallbackId_`, a Recorder | `recorder_start`, `recorder_stop` | a session records each message; its own callback is removed |
| Clock, bindings, protocol structures, printing | none or trivial | accessors and formatting | in the other models as far as they matter, see section 8 |

Interactions. The `AsyncService` thread runs the handlers of StatusListener and
SonarClient. A datagram calls the StatusListener's queue, which calls
`on_first_status`. A completed message calls the virtual `handle_message`,
implemented by SonarDriver, which updates `lastConfig_` and calls its queues;
the callbacks are user code, the Python recorder's among them.
`connect_callback` calls the virtual `on_connect`, implemented by SonarDriver,
which calls `send`. User threads enter through `send` (under `socketMutex_`)
and through `add_single_shot`, which blocks them until the io thread calls the
queue.

What is hard here:

- *Two mutexes and a flag per queue.* One boolean answers all the waiting
  threads, while others register, time out, or wait inside a callback.
- *Handlers that outlive their socket.* Resetting the connection aborts
  reads, but their handlers are already queued, or will be, and run later, on
  whatever `socket_` is then.
- *Failures at each step*: refused connections, a `shutdown` that fails because
  the peer reset the connection, statuses that stop and come back.
- *Progress*: the watchdog ignores a client that is attempting to connect, so
  the attempt has to bring itself to an end.
- *Unlocked shared state*: `lastConfig_`, `connectionState_`, `isRunning_`, the Recorder's file.
- *One buffer*: every message is read into the same `Message`, over the one before, also by a second
  reception loop.
- *Files that end anywhere*: a stop or a crash falls between any two of the four
  writes of a message, and a stream that met the end of its file stays failed.
- *A second lock nobody sees*: from Python, calls come with the interpreter lock (GIL), and
  callbacks need it.

`PROJECT.json` lists each hazard at its line with the properties that cover it.

## 2. Modules

| module | what it is |
|---|---|
| `SingleShot` | abstract specification: what `add_single_shot` promises, without mutex, condition or flag |
| `CallbackQueue` | CallbackQueue.h in full, shown to implement `SingleShot` |
| `SonarClient` | the client with its watchdog, reception loops and senders; `StatusListener`'s callback, the call of `SonarDriver::on_connect` and the clock as far as the client depends on them |
| `ParameterRegister` | abstract specification: what `lastConfig_` is to the driver's users in its parameters, one register that only pings write |
| `SonarDriver` | the configuration: what user threads ask, what the sonar has, what `lastConfig_` says; a wait for a message is what `SingleShot` promises; shown to implement `ParameterRegister` |
| `MessageChannel` | abstract specification: what the callbacks are given, with no stream, header or buffer |
| `Reception` | how the stream is cut into messages, below what `SonarClient` calls the outcome of a read; shown to implement `MessageChannel` |
| `AsyncService` | the thread of the io_service and who starts and stops it, with the GIL or without |
| `LogFile` | a `.oculus` file: the pieces a write makes, and what a log is |
| `Recorder` | recording from Python: the handle, the callback, the file, crashes |
| `FileReader` | reading a file that may end anywhere |
| `Recording` | the composition: a process records, exits or crashes, another reads what it left |
| `PingLayout` | pure operators: sizes, addresses, tables |
| `Display` | `PingRenderer` over a sequence of pings read with `PingLayout` |
| `MCCallbackQueue`, `MCSonarClient`, `MCSonarDriver`, `MCReception`, `MCAsyncService`, `MCRecording`, `MCDisplay` | the instances TLC checks |
| `CallbackQueueProofs`, `SonarClientProofs`, `SonarDriverProofs`, `ReceptionProofs`, `AsyncServiceProofs`, `FileReaderProofs`, `RecordingProofs`, `DisplayProofs` | theorems and their proofs |

How they compose. `CallbackQueue` is shown to implement `SingleShot`, and `SonarDriver`
waits for messages the way `SingleShot` promises. `ParameterRegister` and `MessageChannel` say the same of the driver
and of the reception: what their users see, without how. `SonarClient` abstracts a
read to its outcome and `Reception` opens one connection after the other up to its words.
`Recording` puts `Recorder` and `FileReader` together over one disk. `Display` applies
`PingLayout`.

### CallbackQueue

| variable | code |
|---|---|
| `callbacks`, `singleShots` | `callbacks_`, `singleShots_`, as functions from ids |
| `handle[c]` | the id a client of the queue kept from `add_callback` |
| `snapshot`, `pc`, `shotsLeft` | the io thread inside `call`: its copy of the list, its place, the single shots its loop has not reached |
| `sShotsCalled` | `sShotsCalled_`. The constructor leaves it uninitialised, so `Init` leaves it open |
| `state[t]`, `expired[t]`, `result[t]` | a thread inside `add_single_shot`: waiting on the condition, or woken and waiting for the mutex; whether its deadline has passed; what it returned |
| `runs`, `due`, `served` | history: how often each wait's callback ran; clients this call owes and has served |

`mutex_` is held for one step only, so its critical sections are single
actions. `sShotsMutex_` is held by `call` while it runs single shots
(`pc = "shots"`); `Register` and `Reacquire` need it free. `call` is `BeginCall`
(the copy, 132-137), `RunCallback`/`CallbackReturns` (139-142), `LockShots`,
`RunShot`, `ClearShots` (144-152) and `NotifyAll` (155); the step between
`ClearShots` and `NotifyAll` is the one where the mutex is free and the waiters
are not yet notified. While a regular callback runs (`pc = "inside"`) its code may
itself add, remove or wait, on the io thread. `WakeUp` is the end of the
condition wait by deadline or spuriously, `Reacquire` the evaluation of the predicate. An id
search (82-84, and 109-111 in `add_single_shot`) is `FreshId`: the first free id
from `size()` on.

Two uses of the queue are undefined in C++ or stop the program, and are not
inputs of the model: a single shot that registers another single shot in its own
callback (it locks a mutex its thread holds), and an infinite wait on the io
thread (`InfiniteAssumption`).

### SonarClient

| variable | code |
|---|---|
| `connState` | `connectionState_`; `Initializing` ends within the constructor |
| `link` | the object in `socket_` and its connection: none, connecting, up, closed by the peer (`finished`), reset by the peer (`reset`) |
| `listening` | `on_first_status` is registered in the StatusListener |
| `ioPc`, `fate` | where the io thread waits for `socketMutex_`: in `close_connection` or in `on_connect`'s `send`; and what ended it, if anything: a refused connection, a send of `on_connect` on a connection already reset, the use of a null `socket_` |
| `statusOld`, `messageOld` | the watchdog's two comparisons (5 s, 10 s) |
| `phase[k]`, `op[k]`, `stale` | reception loop `k`, started by the `k`-th connection: what it reads, whether that read is pending or completed with its handler queued, and whether it was issued on a socket since destroyed |
| `sender[s]` | a user thread in `send`: holding the mutex, past the test, writing |

Each handler is one action, except where the io thread may have to wait for
`socketMutex_`: `CheckMessages` enters `reset_connection` and `CloseConnection`
completes it; `ConnectCallback` enters `on_connect` and `OnConnect` completes
it. `ReadCompletes` is the network's part of a read and the read handlers are the
driver's. `DestroySocket` is what dropping a socket does to its reads: they fail
and their handlers are queued. `CloseConnection` follows 129-143 including
the early return when `shutdown` fails, which leaves `socket_` in place; the
next `on_first_status` then destroys that socket when it assigns a new one.

Order of handlers. Asio runs handlers in the order they were queued, and the
model keeps what follows from that: the handlers of reads aborted by a reset
were queued before the completion of the next `async_connect`, so `ConnectCallback`
requires `stale = {}`. A status datagram may have been queued before the reset
(two datagrams pending is enough), so `StatusMessage` may run ahead of them.
Likewise a header read that completed just before the watchdog ran is
handled after it.

`ReadCompletes(k, "fail")` stands for errors, short reads, invalid headers and
also for a payload whose length no longer equals `message_->header_.payloadSize`
because another loop has overwritten the shared header (line 237).

### SonarDriver

| variable | code |
|---|---|
| `lastConfig`, `lastPingRate` | `lastConfig_`, `lastPingRate_`, which no lock protects |
| `ioPc`, `message`, `newConfig` | `handle_message` on the io thread: its copy is made (`parsed`, 160-182), then the configuration callbacks run and `lastConfig_` is assigned (`stored`, 184-187), then the message callbacks are called |
| `pc[t]`, `call[t]`, `request[t]`, `count[t]`, `answer[t]` | a thread in `send_ping_config` or a call that uses it: about to send (44), to save the rate (56), to keep it for `resume` (60-62), to ask for a feedback (84), waiting; the local variables of `request_ping_config` |
| `calls[t]`, `drops` | counters of the bounds |
| `sonar`, `toSonar`, `fromSonar`, `connected` | environment: the sonar's configuration, the two directions of the connection, `connected()` |
| `heard`, `measured`, `told` | history: the message behind a feedback; the parameters of the last ping stored; those the configuration callbacks were last told |

A configuration is its ping rate and its other parameters. The two differ: a
ping reports the parameters (in the sonar's units, which 167-177 rescale) but
not the rate, which the driver stores when it sends (56) and when a dummy message
tells of standby (180). The io thread sends too, in `on_connect`.

`Changed` is `config_changed` (utils.h:125-141), which decides (184) whether the configuration
callbacks are told. It compares with tolerances (135-138), through an `abs` without `std::`, which may be the
integer function and then takes any two values less than one apart for equal. What passes for equal is therefore
a constant, `Near`, any reflexive relation. `lastConfig_` is assigned (187) whether or not the change is told, so that
the callbacks may be left behind by small steps, as far as one likes; in the instance `p0` lies between
`p1` and `p2` and passes for either, and the parameters can go from one to the other untold. `Matching` is the comparison of
`check_config_feedback` in the same way, any relation at all.

`SendShort` is a `send` that reports fewer bytes than it was given (45-46): without a connection, or when only a part
went. A part of a fire message is taken not to change the sonar.

`KeepRate` leaves open which value each of the two reads of `lastConfig_.pingRate`
sees (60, 61): the data race makes it the choice of the compiler whether they are
made at all. The sonar takes fire messages in order and reports, between other
messages, pings or dummies according to its rate; it may restart with any
configuration when the connection is lost. `SendThrows` is a `send` on a connection
the peer has closed.

### Reception

| variable | code |
|---|---|
| `sent`, `wire`, `up`, `connection` | environment: what the sonar sent, what is on its way, the connection |
| `first`, `due` | history: whether the connection is *sound*, that is, began at the start of a message with no loop of an earlier one left; `first` is its first message (else beyond any), `due` the one that must be handled next (else 0) |
| `reading[l]`, `wanted[l]`, `got[l]` | loop `l`: which `async_read` is pending, for how many words, and how many it has moved into the buffer |
| `stale` | the loops whose read was issued on a socket since replaced: it is over, and its handler is yet to run |
| `moved` | the loops that are reading a payload into a `data_` which another has resized since |
| `header`, `data` | `message_->header_` and `message_->data_`, one of each for all the loops |
| `handled` | history: the messages handed to `handle_message` |

The unit is a word, the stream a sequence of words tagged with message and
position, and a header is `HeaderSize` of them. `Receive` moves one word, in
place: after `update_from_header` has resized `data` (`Resized`) the words of
the message before are still there until they are overwritten, as in the code. The
header copied to the beginning of `data` is the one just read. `HeaderReceived` is
204-232: an invalid header starts the next header read where the stream is,
which is how a connection that began in the middle of a message is resynchronised.
`DataReceived` is 234-250 with the test of the count. A connection ends
with any part of what was on its way (`Break`), and the next may begin anywhere in a
message (`Reconnect`).

`is_valid` (45-48) looks at few fields. It is certain to pass a header as the sonar sent it, and may pass any other
words (`looks`): those of a payload, or a header in which the words of two messages are mixed. Such a header
announces any payload size, and the message that follows it is handed on like any other.

Loops. `connect_callback` starts one (186) whether or not one of the connection before is left, and a loop is left
when the handler of its aborted read runs with the next socket in place (188-198, finding 2). All loops read
into `message_`: two of them share out the words of the stream between them, write to one header, and each resizes `data_`
under the read of the other, whose words may then go to the new memory or to memory that was freed, and be lost
(`moved`, `Lands`). The size that a payload is compared with (237) is that of the header there is by then
(`Announced`). Two loops are as many as the instance has; `Loops` is any set.

### AsyncService

| variable | code |
|---|---|
| `isRunning`, `stopped`, `thread` | `isRunning_`, `service_->stopped()`, which runner `thread_` is if joinable |
| `runner[r]`, `created` | the threads created: polling, in a handler, waiting for the GIL for it, ended |
| `pc[c]` | a caller (a user thread, or a handler on runner `c`) inside `start` or `stop`, one step per access to unlocked state |
| `fresh[c]` | the temporary `std::thread` that a `start` has created and not yet moved into `thread_` |
| `python`, `gil` | whether the service is used from Python; who has the GIL |
| `terminated` | `std::terminate`: a joinable thread was assigned to, or a handler threw |
| `overlapped` | history: whether two calls were ever under way together |

`start` is `BeginStart` (the test), `Reset`, `Create`, `Assign`, `Mark`; `stop` is `BeginStop`, `Halt`, `Join`,
`Unmark`. `thread_ = std::thread(...)` (53) is two steps: the new thread is in `io_service::run` before the
assignment looks at `thread_`, and ends the program if that is joinable. Between the two, a `start` that
overlaps another call may run handlers on a second thread; nothing ends the program if the first thread is joined
in that time. `Join` throws when there is no thread or when the caller is that thread (a handler
that stops its own service), and then `isRunning_` stays up. `run` returns when the
service was stopped or by itself.

### LogFile, Recorder, FileReader, Recording

| variable | code |
|---|---|
| `disk`, `cut` | the files: the pieces written, and whether a crash left the last one incomplete |
| `openFile`, `opened` | `file_` of the Recorder, and how many were opened |
| `callbacks`, `recorderId` | the queue of message callbacks of the driver, `recorderCallbackId_` |
| `op`, `opByIo` | the method of the handle that has the GIL: between the open and the file header, before `add_message_callback`, before `remove_message_callback`; whether it runs inside a callback |
| `ioPc`, `message`, `pending` | the io thread: the message it handles, the callbacks of its copy still to run, which of the four writes comes next |
| `session`, `covering`, `due`, `quiet` | history: the file between the end of `recorder_start` and the beginning of `recorder_stop`; the messages handled wholly in that time; the files opened with no recorder callback left |
| `status`, `item`, `failbit`, `eofbit`, `outcome` | a FileReader: open or refused, the number of `nextItem_` (0: the zeroed header), the bits of the stream, how the last call ended |
| `returned`, `skipped` | history: the messages returned since the file was opened or rewound; whether a call passed over something |
| `file`, `torn`, `reading` | the file being read, whether its last piece is incomplete, which one it is |

A piece is a whole argument of `ostream::write`: the file header, an item's header, a payload.
The io thread writes a message as four pieces, `WriteMessage`, and tests `is_open` only
where the code does, so that a file closed between a header and its payload loses the
payload, and a file opened meanwhile gets the rest. `Crash` keeps any beginning of the
open file, the last piece perhaps incomplete. `Exit` runs the destructors.

The reader's calls are one action each. Only `read_next_header` looks ahead (`ReadHeader`),
and a cut payload shows up where it is read, not where it is jumped over
(`Broken`, `JumpItem`). `Rewind` after a failed read: `seekg` clears `eofbit` but fails on
`failbit`, the read fails, and as `eof()` is no longer true, `read_next_header` throws.

`Recording` lets a process record until it exits or crashes, then a reader open a file it
left, or a foreign one: items of other types and no stamps.

### PingLayout and Display

`PingLayout` has no state: `HasGains`, `SampleSize`, `Step` and the checks around them are those of
`PingWrapper1` and `PingWrapper2`; `RawAddress`, `GainAddress` and `DataAddress` are the three
memory views (shape, strides and offset evaluated to an address); `AcousticData` is
`ping_data_to_array`, as the address each element of the array is converted from; `BearingLut` and
`Pixel` are the table and the choice of a cell of `image_from_ping_data`, over integer angles. `Display`
renders one ping after the other: `ping`, the cached `geometry`, the `outcome`.

## 3. Properties

CallbackQueue:

- `HandlesAreOwned`: an id belongs to one client at a time, whatever was freed
  and reused.
- `MessageReachesTheCopy`: a call runs exactly the callbacks registered when
  it copied the list.
- `RunsAtMostOnce`, `NoShotIsLost`: a single shot runs at most once, and is
  stored until it has run.
- `CalledMeansRan`: `true` is returned only after the caller's own callback ran.
  `ShotsInv`, which the proof uses, says why: while the flag is up nothing is stored, so a thread
  that finds it up cannot be reading the answer to a later registration.
- `ImplementsPromise`: every behaviour is one of `SingleShot`, under the mapping
  at the end of the module.
- `TimedWaitsReturn` (liveness): a timed wait returns, also inside a callback.

SonarClient:

- `SendSafe`: no socket is destroyed or replaced under a thread writing to it,
  though `on_first_status` creates it without the mutex (159). `SendInv`, which the proof
  uses, says why: `reset_connection` changes the state, then takes the mutex, then drops the
  socket, and only then listens.
- `ReconnectToken`: in Attempt, which the watchdog ignores, exactly one activity is
  pending (closing, listening, connecting); in other states none.
- `ConnectionIsRead`: a client not attempting to connect has a socket and the
  newest loop reads from it.
- `AttemptsEnd`, `DeadLinksAreReplaced` (liveness): an attempt ends in a connection
  or an error, and a connection the peer dropped is replaced, also from Lost.

Reception:

- `HandledWhole`: on a sound connection, what the callbacks are given is one message, whole, with its own header, and
  later than everything given before on any connection, wherever the stream was cut and whatever `message_`
  held.
- `NothingIsSkipped`: on a sound connection that holds, each
  message sent has been handled, is being read or is on its way. So the reader never loses its
  alignment, and a stream that is drained has been handled to its last message.
- `ImplementsChannel`: every behaviour is one of `MessageChannel`. A sound connection gives every message, in order and once,
  up to where it breaks, the last one perhaps after it broke. One that is not sound gives only messages that
  were sent, in any order.
- `AlignedDelivers` (liveness): a sound connection delivers every message unless it is lost first.

That is all the code promises: of a connection that is not sound, one that began within a message or that an older loop
reads too, none of the first two is true. In the model, as in the code, such a connection can hand on a message twice, one whose words are those of two messages, or one with words missing; and nothing brings a connection with two
loops back to one. `client_loops` shows how it comes to that.

SonarDriver:

- `ConfirmedMeansReported`: a feedback that `request_ping_config` accepts comes from a
  message handled during its wait, and that message itself fits the request, although the
  feedback is read from the shared `lastConfig_`. `FeedbackInv`, which the proof uses, says why: only
  `handle_message` writes the parameters, so nothing changes them between its copy and
  its callbacks.
- `ParamsAreMeasured`: the parameters in `lastConfig_`, and those `on_connect` gives
  back to the sonar, are those of the last ping; no update is lost and no request leaks into them.
- `ImplementsRegister`: every behaviour is one of `ParameterRegister`, under the mapping in the module. Each reader
  (the configuration callbacks, a waiting user, the sonar at a reconnection) is given the value that the last
  ping left, and none of them while a ping is between its copy of `lastConfig_` and its update. The callbacks are told
  of every value but one near the value it replaces; of those they need not be told, so that what they know
  may be left behind (`Write`).
- `RequestsEnd` (liveness): every call returns, although a timeout is not counted.
- `StandbyIsLearned`, `ParamsAreLearned` (liveness): once the sonar stays in standby, or fires
  with some parameters, `lastConfig_` comes to say so and goes on saying so: an update
  lost in the race is repaired by a later message. Nothing of the kind holds of the
  rates above standby, see section 7.

AsyncService:

- `OneRunner`: the handlers run on two threads at once only while calls of `start` and `stop` overlap, and then one of the
  two threads is that of a `start` that has created it and not yet assigned it. Everything
  the client leaves unlocked rests on this. Calls that overlap can break it, see section 7.
- `ApartIsConsistent`: if no two calls ever overlap, `isRunning_` tells whether there is a
  thread to join, and after a stop no handler runs, also after a stop that a
  handler made and that failed.
- `StopReturns` (liveness): without Python a stop that overlaps no other call ends.

Recording:

- `QuietFilesAreLogs`: a file opened with no recorder callback left is a log up to where it
  ends, wherever stops and crashes fell.
- `SessionsAreRecorded`: every message handled between the end of `recorder_start` and the
  call of `recorder_stop` is in the file, whole and followed by its own stamp.
- `ReadsInOrder`: what is returned was recorded whole, in order, nothing twice.
- `NothingLeftBehind`: a reader that passed over nothing has been given every whole message
  behind its position, and all of them once it is at the end or has thrown: a cut
  costs the message it fell in and no other.
- `ReplayGivesTheSession`: from end to end, a reader that reaches the end of a file that no crash
  cut has been given every message of the session with its own stamp.
- `OnlyCutFilesThrow`: without going back, a reader throws on a log only if a crash cut it
  or a stop left a header without its payload.

Display:

- `SizeIsFound`: the size of the samples and the presence of gains are found, for both versions, also
  when `dataSize` is invalid and the size of the image alone can tell.
- `ViewsAgree`: the three views of Python and `helpers.h` read every sample where the sonar put it.
- `PixelsShowTheirBeam`: a pixel shows the sample at its range of a beam none is nearer than.
- `RenderingIsCurrent`: a ping is rendered with its own bearings and counts, which fails only on samples of three
  bytes, or, if neither the mode nor the range has changed since the ping before it, with the
  geometry of an earlier ping of that mode and range.

Each module with variables also has one `TypeOK`. It is proved in all of them, and an invariant of the
runs of all but Reception and Display.

## 4. Runs

| run | instance | shows |
|---|---|---|
| `queue_shots` | 2 waiters (one infinite) + the io thread, 2 waits each, 1 client | type, the single-shot invariants, the refinement of `SingleShot`, and that timed waits return |
| `queue_callbacks` | 3 clients (symmetric), 1 waiter, 1 wait | ids and delivery while callbacks change the list |
| `queue_flag` | 2 waiters, 1 wait | *violated*: finding 1 |
| `client` | 2 senders, 3 connections | the safety properties of the client; attempts end, dead links are replaced |
| `client_loops` | 1 sender, 2 connections | *violated*: finding 2 |
| `reception` | headers of 2 words, payloads of 0 or 3, 2 messages, 3 connections that begin between messages, within a header or within a payload, 2 loops | on sound connections whole messages, in order, none passed over; the refinement of `MessageChannel` |
| `driver_safety` | 1 user with 1 call, the io thread, 1 rate and standby, 3 parameters of which one is near both others (which are symmetric), `MaxCount = 2`, 1 message each way, 1 lost connection | type, feedbacks and parameters, the refinement of `ParameterRegister` |
| `driver_live` | the same with 2 parameters, told apart exactly, and without lost connections | requests end, the configuration is learned |
| `service` | 2 users and the handlers of any thread, 3 threads created, with and without Python | when there are two runners, consistency, stops end |
| `recording` | 3 messages (one a ping), 2 files, 1 other callback, a crash at any point; foreign logs of 2 items | everything recorded is read back |
| `display` | both versions, 1 or 3 ranges, fans of 2 and 4 beams (even and uneven), samples of 1 to 4 bytes, gains or not, `dataSize` right or invalid, 2 modes, 2 ranges | sizes, views, pixels and the cache |
| `display_rows` | the same | *violated*: finding 3 |

Bounds and why they suffice. `MaxWaits = 2` lets a thread register again while its
first callback is still stored after a timeout, the only way one thread owns two
shots; two waiters plus the io thread are enough for one registration to
interfere with the wake-up of another thread while a third waits in a callback.
Three clients make id reuse collide: the search from `size()` meets a taken
id only after a removal among several. `MaxConnects = 3` allows a reset while a loop of
the first connection still lives next to that of the second; when the bound is
reached `CheckMessages` no longer resets, and the liveness property that needs a
further connection says so (`connects = MaxConnects`). Symmetry is used in two safety runs
only: over the clients of the queue, and over the two parameters of the driver that are far
apart; nothing tells them apart.

For the driver, `MaxCount = 2` stands for 100: a failed
first try and a last one. One user thread already races with the io thread, which handles
messages and sends in `on_connect`; two parameters tell a request from what the sonar had, and a third between
them lets a change be made of two that pass for none;
one message in each direction at a time, with what the threads hold, lets a message
be handled after a send that it precedes. Two user threads that race with each other are
beyond TLC here (5 million states with one): for safety the proofs cover any number of users, tries, messages and
losses, and for liveness two users are not checked.

A header of two words can be cut inside and mixed from two messages, and its second word must not pass for a
beginning; payloads of none and of more than a header make a block of the size of a
header fall before, across and inside messages; three connections let one that began in the
middle, or that two loops read, come before one that is sound, and two messages one to be missed and one to be kept. Three starts let a
thread be replaced while a call that saw the first is still under way. Two files let a
second session follow the first with the io thread still inside a message of the first;
three messages let one fall before, one inside and one after a session. Fans of
two and four beams with one or three ranges are never square, and an uneven fan has
beams that are nearest to no evenly spaced angle.

Deadlock is checked for the queue and for the driver. It is not for the others. In the client the io
thread really ends after a connection failure, a failed greeting or a use of the null socket,
and once the clocks have aged nothing moves. A service that was stopped, a
terminated program, a process that is gone with a refused file, a stack that overflowed,
and a stream whose bounds are used up, really stop.

Each property of a passing run has a mutant: a change to one definition, of the
kind an edit of the code could make (a dropped mutex, a flag not reset, a list not
cleared, a search that does not test, a count not compared, an offset forgotten), under which
TLC finds the property violated. The alternatives stand in the modules, marked "Mutant".

## 5. Fairness

CallbackQueue: a call that has begun proceeds and user callbacks return
(`WF CallStep`); deadlines pass and end waits (`WF Expire`, `WakeUp`); a thread that
finds `sShotsMutex_` free again and again obtains it (`SF Reacquire`; the scheduler
and the mutex may favour others, not for ever). `BeginCall` is not fair: messages may
stop, so infinite waits may never return.

SonarClient: the sonar goes on broadcasting (`WF StatusMessage`); a connection
attempt succeeds or fails; queued handlers run, those of every loop; a `send` returns (it blocks in
the kernel otherwise, and then the io thread does too: that assumption is real); a mutex
free again and again is obtained (`SF CloseConnection`, `SF OnConnect`); no
message arrives on a dead connection, so `messageOld` becomes true. The
watchdog fires every second and a status stays fresh for five, so it runs between
a status and its ageing: strong fairness of `CheckMessages`, which is enabled
while the status is fresh. Nothing is assumed of users or of the peer.

SonarDriver: a thread in a call proceeds, the io thread handles messages, SonarClient
connects, the sonar takes what it is sent (`WF`), and goes on reporting whenever there is
room, among other messages (`SF`). `NoLateMessages` says that from some point on no wait times out: a sonar
pings, or sends a dummy, more often than every 5 s. Without it the retries
really have no bound, since `continue` (108) skips the counter. Calls are not fair: users need not make any.

AsyncService: threads run the steps of a call they can take (`WF CallStep`), handlers return,
`run` returns once stopped, and the GIL, free again and again, is obtained (`SF RunStep`: a
runner may find the GIL taken at any one moment). Nothing makes users
start or stop, or handlers come. A handler that throws ends the program, which the properties say.

Reception: the network delivers what is on its way and the handlers run, for every loop (`WF`). Nothing is
assumed of the sonar or of the connection. Recording and Display have no liveness property.

## 6. Proofs

Assumptions are those named in the modules: finitely many threads and clients where ids are
counted, the io thread is not a user thread, bounds are naturals, a header has at least a word, a
foreign file is made of pieces. `Waiters`, `Clients`, `Senders`, `Users`, `ActiveRates`,
`Params`, `Sizes`, `Offsets`, `Loops`, `Pings`, `ForeignLogs`, `Modes` and every bound are arbitrary, but
for standby not being an active rate and the default rate and parameters being among theirs. `Near` is any reflexive relation on `Params`, `Matching` any relation
on them. Of
pings it is assumed that they have ranges, a sample has one to four bytes, and the bearings are a sequence of at
least two integers whose last is beyond the first (`SizesAssumption`, `FansAssumption`): helpers.h
divides by `nBeams - 1`, by the range and by the aperture without a test, so its results mean nothing
otherwise. Bearings need not be in order, nor even.

| theorem | statement |
|---|---|
| `FreshIdIsFree` | among `size()+1` consecutive ids one is free: the search of `add_callback` ends, on an id not in use |
| `CallbackQueueProofs!TypeCorrect` | `Spec => []TypeOK` |
| `HandlesCorrect` | `Spec => []HandlesAreOwned` |
| `ShotsInvariant` | `Spec => []ShotsInv` |
| `ShotsRunAtMostOnce`, `ShotsAreKept`, `TrueMeansRan` | the three single-shot invariants |
| `DeliveryCorrect` | `Spec => []MessageReachesTheCopy` |
| `QueueImplementsPromise` | `Spec => Promise!Spec` |
| `SonarClientProofs!TypeCorrect` | `Spec => []TypeOK` |
| `TokenCorrect` | `Spec => []ReconnectToken` |
| `WritersDelayTheReset`, `WritersAreSafe` | `Spec => []SendInv`, `Spec => []SendSafe` |
| `ConnectionAlwaysRead` | `Spec => []ConnectionIsRead` |
| `SonarDriverProofs!TypeCorrect` | `Spec => []TypeOK` |
| `MeasuredCorrect` | `Spec => []ParamsAreMeasured` |
| `FeedbackInvariant`, `FeedbackCorrect` | `Spec => []FeedbackInv`, `Spec => []ConfirmedMeansReported` |
| `DriverImplementsRegister` | `Spec => Register!Spec` |
| `ReceptionProofs!TypeCorrect` | `Spec => []TypeOK`: no read has more than it was asked for, whatever other loops do |
| `ReceptionProofs!DeliveryCorrect` | `Spec => HandledWhole` |
| `NothingSkipped` | `Spec => []NothingIsSkipped` |
| `ReceptionImplementsChannel` | `Spec => Channel!Spec` |
| `AsyncServiceProofs!TypeCorrect` | `Spec => []TypeOK` |
| `RunnersAreKnown` | `Spec => []OneRunner` |
| `ApartCorrect` | `Spec => []ApartIsConsistent` |
| `ReaderTypeCorrect` | `ReaderSpec => []ReaderTypeOK`, for every file |
| `OrderCorrect` | `ReaderSpec => []ReadsInOrder`, for every file |
| `CompleteCorrect` | `ReaderSpec => []NothingLeftBehind`, for every file |
| `RecordingProofs!TypeCorrect` | `Spec => []TypeOK` |
| `LogsCorrect` | `Spec => []QuietFilesAreLogs` |
| `SessionsCorrect` | `Spec => []SessionsAreRecorded` |
| `ReplayCorrect` | `Spec => []ReplayGivesTheSession` |
| `ThrowsCorrect` | `Spec => OnlyCutFilesThrow` |
| `ReplayInOrder`, `ReplayComplete` | `Spec => []ReadsInOrder`, `Spec => []NothingLeftBehind`: what is proved of a reader on every file holds of a reader in the composition |
| `DisplayProofs!TypeCorrect` | `Spec => []TypeOK` |
| `SizesCorrect` | `Spec => []SizeIsFound` |
| `ViewsCorrect` | `Spec => []ViewsAgree` |
| `PixelsCorrect` | `Spec => []PixelsShowTheirBeam` |
| `RowMajorWithoutGains` | without gains `RowMajor` holds, which finding 3 shows to fail with them |
| `RenderingCorrect` | `Spec => RenderingIsCurrent` |

The argument for the queue. `FreshIdIsFree` counts: the taken ids are
`Cardinality(ids)` many and the interval searched has one more element. With
it a registration never overwrites an entry. `RunsAtMostOnce`, `NoShotIsLost` and
`CalledMeansRan` are not inductive. Together with `ShotsInv` they are:
a stored callback has not run unless the loop of `call`, which holds the mutex
until it clears the list, has passed it; distinct ids hold distinct waits; tickets not
yet issued have not run. `CalledMeansRan` then follows at the one step that
matters, `Reacquire`: the flag is up, so nothing is stored, so by `NoShotIsLost` the thread's own
callback has run. `MessageReachesTheCopy` needs that what the copy still holds
and what was served make up what was due (`DeliveryInv`). The refinement maps registration, the run of a
shot and the two answers to the abstract actions, and every other step to a stutter.

The argument for the client. `ClientInv` is the conjunction of `TypeOK`,
`ReconnectToken`, `SendInv`, `ConnectionIsRead` and `RoomInv`, which says
that an attempt still finds room below the bound. A writer pins the state: it saw
Connected under the mutex, the io thread may set Attempt but is then stuck at the
mutex ("closing"), and by `ReconnectToken` it is neither listening nor
connecting, so the socket cannot be replaced.

The argument for the driver. `DriverInv` is `TypeOK`, `FeedbackInv`,
`ParamsAreMeasured` and `IoInv`, which says that `on_connect` and `handle_message` are
never in progress together. The parameters have one writer, so the copy in
`handle_message` cannot become stale in them, however many users write the rate; the update makes
`lastConfig_` and the history agree, and
the message callbacks, which come next on the same thread, read what was just
stored. `SendPingConfig` cannot disturb it because it writes the rate alone (56). The
rate has several writers, and nothing of the sort is true of it. In the refinement `Parse` of a ping receives
its parameters and `Store` writes them, which needs `FeedbackInv` (what is stored is what was received) and
`ParamsAreMeasured` (a message that is no ping writes what is there, and if it tells the callbacks, which `Tell` is
for, it tells them that). `Deliver` gives the register to all
that wait, and every store of a rate is a stutter.

The argument for the reception. `StreamInv` is `TypeOK` with four parts. The words on
the wire are consecutive (`WireInv`). What was handled was sent, and so was what is being read (`SentInv`), on any
connection. Of a sound connection `SoundInv` says the rest: there is one loop at most, and what it reads
continues the message that is due (`LoopInv`): the words it has are the first of that message, in
their places, and what is on the wire comes right after them (`Joined`, `Position`). Every header it completes is therefore one the
sonar sent, and announces what the sonar sent; nobody resizes its buffer; and the word that follows a
whole payload is the first of the next message, which is due then. An incomplete payload is only given by a
connection that is lost, with nothing left on the wire. `FirstInv` ties the two histories together. There is one lemma per action
(`SendsStep`, `BreakStep` and so on), since a new loop makes a connection unsound, which is why nothing has to be said
about two of them. The refinement of `MessageChannel` follows from `StreamInv` as it stands: a delivery is that of the message that is
due if the connection is sound, and of one that was sent (`SentInv`) if it is not.

The argument for the service. A thread that is not over is the one in `thread_`, or the temporary of a `start`
between `Create` and `Assign` (`RunnerIsKnown`): only a thread that has ended is joined, and only a `thread_` that is not
joinable is assigned to. Two live threads are therefore never both without such a `start`. If calls never overlap, one caller at most is inside, and its place
determines how `isRunning_`, `stopped` and the thread stand to each other (`ApartInv`): a start finds no thread to
overlap with.

The argument for files. Nobody writes to a quiet file before its header is there, and from then on
only the io thread does, so that its place in a message tells what the file ends with
(`OpenInv`): each piece extends a log. During a session nobody else touches its file and a recorder
callback is registered, since no other callback takes its id (`NewIdIsFree`); a message that
began in the session is therefore still to be given to it, or being written with what is there at
the end of the file, or there (`CoveringInv`), and what is there stays. The reader returns messages that
lie before `nextItem_`, and `nextItem_` becomes 0 only when no whole message lies behind
it: a payload that is missing is the end of its file (`BrokenIsLast`). `ReplayCorrect` puts
these together: in a log the pieces of a session's message are an item and its stamp
(`SessionItem`), whole because no crash cut the file (`CutInv`), so the reader has been there, and what
it returns carries the stamp of the item that follows (`StampsInv`).

The types of `Recording` need the types of the recorder's side (`TypesInv`): the tables of callbacks map
ids to owners, and while the io thread is not idle the message it handles is one. The reader's side and
its properties carry over because every step of the composition is a step of the reader, or leaves it alone, or opens a
new file, which `FileReaderProofs` covers for every file.

The argument for the display is arithmetic. The image is `nRanges`
lines of one length (`ImageIsLines`), so that it is larger than its samples alone exactly if it has gains
(`GainsShowInTheSize`), and a line without its gain, divided by the number of beams, is the size of a sample:
`Deductions` goes through the cases of the two wrappers. The three views give one address by distribution of products
(`AddressesAgree`). An element of the converted array is written from one cell only, because an index has
one pair of digits in base `nBeams` (`DigitsAreUnique`, `WithoutGains`). The
quotients that choose a beam and a range stay in the table (`QuotientInRange`). That the beam in the table is a nearest one is an
induction over the turns of the loop: `Induction` is proved here for sets of
naturals, from `WellFoundedInduction`, the loop is the recursive function `Nearest`
(`LoopExists`), and its turns keep the nearest beam seen so far (`LoopKeepsTheNearest`). `RenderingCorrect` is
about steps: the geometry kept has the mode and the range of the last ping (`KeptInv`), so that it is the next ping's own
or the two pings share mode and range, and a ping's own geometry never reaches outside its data (`OwnGeometryFits`).

Only model-checked: the liveness properties (`TimedWaitsReturn`, `AttemptsEnd`,
`DeadLinksAreReplaced`, `AlignedDelivers`, `RequestsEnd`, `StandbyIsLearned`, `ParamsAreLearned`,
`StopReturns`), which rest on fairness, out of this prover's reach. Every safety property that a
passing run checks is also proved. The three violated properties are refuted by their runs.

## 7. Disagreements between the code and what it says

With a run that shows them:

1. `queue_flag`. CallbackQueue.h:102-106 says the flag keeps its value until all
   registered callbacks have returned. A registration between the end of a call
   and the wake-up of the threads it served lowers it: those threads report a timeout, or
   wait for another message, though their callback has run. (`CalledMeansRan`, the
   other direction, holds.)
2. `client_loops`. A read handler of the old connection that runs once the next
   socket exists starts reading from it, beside the loop of the new connection, into the same
   `message_`. After a reset by the peer the old socket is kept (line 134)
   and this is what normally happens.
3. `display_rows`. With gains, `ping_data_to_array` writes to `dst[nBeams*w + h]` (helpers.h:133,
   153): not the row major format of 114-115, but the two indices mixed with one stride. Unless the
   image is square, samples land in the rows of others and some behind the array. Without gains the
   format is the one described, for every size (`RowMajorWithoutGains`).

Stated in the modules without a run of their own, each with the trace that breaks it:

- `ShotsRunWithinTheWait` (CallbackQueue). SonarDriver.h:95 calls `on_next_message` and its kin
  synchronous. After a timeout the callback stays stored and runs at the next
  message; SonarDriver.cpp:77 passes a lambda that captures the caller's locals.
- `NoReadOfANullSocket` (SonarClient). `header_received_callback` uses `*socket_` (229) without
  `initiate_receive`'s test; a header completed before the reset is handled after it.
- `LossIsRecoverable` (SonarClient). After more than 5 s without status the state is Lost; if
  statuses return while messages keep coming, nothing leads back to Connected and `send`
  refuses everything, though 86-88 speak of a recoverable loss.
- `RequestedRateIsTraced` (SonarDriver). A dummy on the wire when a `resume` or a fire message is sent is
  handled after it: `lastConfig_` says standby while the sonar pings, no ping corrects it
  (166), and the next `on_connect` sends standby. Lines 52-55 call the
  assignment a trace of the requested rate.
- `RewindRestarts` (FileReader). `python/scripts/oculus_to_video.py:52-53` rewinds after reading some
  pings. Once a read has met the end of the file `rewind` throws, so that the script fails on
  files with few pings.
- `RecordedOnce` (Recorder). `recorder_stop` does not remove the id 0, the first a queue gives
  (python/src/oculus_python.cpp:114), so that the next session has two recorder callbacks and each
  message twice; and it never forgets an id, so that a second stop may remove somebody
  else's callback.
- `PythonStopReturns` (AsyncService). `python/examples/record_sonar.py:47-48` calls `stop` and goes on. `stop` joins
  the io thread with the GIL held; if the io thread is about to run a Python callback it waits for
  the GIL, and neither goes on.

Met while modelling and read off the code directly:

- A refused connection (168), or a reset while `on_connect` sends, throws through
  `io_service::run` and ends the watchdog that lines 66-69 describe as independent of the
  connection. The model has both (`fate`), and the liveness properties except them.
- `start` and `stop` have no lock, and `isRunning_` is set last. Two starts that overlap may create a
  second thread while the first is there (AsyncService.cpp:53). Both run handlers until the assignment
  terminates the program, or, if a stop joins the first thread in that time, until that one is gone. SonarClient.h:49-52
  takes what it does without a lock to be done in one thread. The model has it (`OneRunner`).
- A configuration that differs from `lastConfig_` by less than the tolerances of utils.h:135-138 is stored (187) and
  not told, and the next is compared with what was stored: the configuration callbacks, for "(detectable) configuration changes" (SonarDriver.h:57), may
  never hear of a change made in small steps. The model has it (`Near`, `ParameterRegister!Write`).
- `is_valid` (45-48) compares two fields, so that a connection which begins within a message may take the words of a payload for a
  header and hand on what follows. The model has it (`looks`).
- `lastPingRate_` is assigned from a second read of `lastConfig_.pingRate` (60, 61); if a
  dummy is handled between the two, standby becomes the rate to resume to, which 58-59
  exclude. It takes a build that makes both reads.
- The rate is stored when it is sent, so the dummy that confirms a standby shows no change,
  and the configuration callbacks are not told (SonarDriver.h:57).
- `standby` sends `lastConfig_`: parameters sent a moment before, which no ping has
  reported yet, are taken back (SonarDriver.h:73).
- `request_config` from Python (oculus_python.cpp:82) waits with the GIL held. A Python callback
  registered on the same queue runs before the single shot and needs the GIL: the wait times out, and
  is retried without end.
- `has_gains` and `sample_size` of `PingWrapper2` call each other without end if `dataSize` is none of
  the four values (OculusMessage.h:286). `Display` gives such a ping the outcome `overflow`.
- `make_ping_wrapper` gives a null wrapper for what is no ping (OculusMessage.h:335); a `PingMessage`
  made of such a message keeps it (353), and its accessors use it without a test.
- The views of samples of three bytes return `None` as a `memoryview` (message_utils.h:62), which
  raises an exception instead (`Viewable`).
- `abs` in helpers.h:280 is the integer function or the floating one, depending on the headers a
  program includes; the integer one makes a bearing of less than one radian 0.

## 8. What is not modelled

- *Reception.* The words of a message are tags: values, and the fields of the header but for its size
  and validity, are left out. A write to memory that was freed (by a `resize` under a pending read) only loses the
  word. Which read of two loops on one socket gets a word is open, one word at a time. What becomes of `message_` once its callbacks have
  returned, and views of it that outlive it, are left out.
- *StatusListener.* The error paths only listen again. The user's status callbacks are a
  `CallbackQueue`. *Clock* is two booleans that age.
- *SonarClient.* `reset_connection` and `close_connection` are modelled where the driver calls them, not
  as calls from user threads. Data races on `connectionState_` are taken as atomic reads and
  writes.
- *SonarDriver.* User callbacks that themselves send from the io thread are left out, and
  the four queues are reduced to what `SingleShot` promises.
- *CallbackQueue.* A single shot that registers a single shot, and an infinite wait in a callback.
- *AsyncService.* Two `join`s of one thread at the same time are undefined in C++; the
  model lets the second throw.
- *Recorder.* Failures of the file system; `open` on an open file, which the handle excludes; bytes that
  are no header are not given to a reader.
- *Layout and rendering.* Values of samples, gain compensation, the floating point geometry of the image and
  its interpolation. `Pixel` is about pixels inside the fan, taken from the first bearing to the last: the test of line 280 takes half the
  aperture to each side of 0, through an `abs` without `std::`, so that pixels outside the fan may pass it; those are left
  out. `VideoEncoder` feeds an ffmpeg process.
- *Bindings, scripts, protocol structures, printing.* They keep no state and take no decisions; what
  the components read of them is in the components.

## 9. Plan

Done, in this order: CallbackQueue with its abstract specification, SonarClient, SonarDriver, Reception,
AsyncService, Recorder and FileReader with their composition, PingLayout and Display; the abstract specifications of
the driver's parameters and of the reception; proofs of all the safety properties and of the three refinements. What would add most next:

1. **The queue and the GIL**: `CallbackQueue` with callbacks that need a lock which waiters hold, for
   `request_config` from Python; then `stop` in the same model.
2. **Callbacks that send** in `SonarDriver`, from the io thread, between the update and the delivery of a
   message.
3. **SonarClient with the queues** of StatusListener and SonarDriver, using `SingleShot`.
