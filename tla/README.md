# Spherly: TLA+ models and proofs

Spherly lets a child drive a Sphero robot with Blockly programs.  A web page
runs the program and sends commands over a WebSocket to a local server, and
the server turns them into packets on a Bluetooth link.

```
 page (browser)                     server (Java)                    robot
 runblockly*.js   -- buttons -->
 Sphero.js        -- JSON -->       SpherlyWebSocketServer.java
   command_queue                      onMessage -> Sphero.java  -- packets -->
   execute()      <-- collision,        listener thread         <-- packets --
                      power --          bluecoveRFCOMM.java
```

Paths of `.js` files are relative to `src/SpherlyServer/assets/www`, paths of
`.java` files to `src/SpherlyServer/src`, those of the WebSocket library to
`src/JavaWebSocket/src/org/java_websocket`.

Every run is `tlc -config <run>.cfg <MC module>`, and every proof is
`tlapm <module>_proofs.tla`; `PROJECT.json` lists the runs, the properties,
the mutations that each property catches, the source lines of every
definition, and the theorems.

## Inventory

| component | state | operations | modules |
| --- | --- | --- | --- |
| **Program executor** (`Sphero.js`, `runblockly_program_execution.js`) | `command_queue`, `timeout_id`, `wait_time`, `then`, the four event handlers, `window.loopTrap` | run, reset, stop, calibrate, disconnect, `collisionDetected`, timer callbacks, `execute()` | `ProgramExecutor` |
| **Generated code** (`sphero_blocks.js`) | none | a handler pushes commands, counts the loop trap down, may throw | the handlers of `ProgramExecutor` |
| **Connection session** (`Sphero.js`, `runblockly.js`) | the socket's one message callback, `isConnected`, the buttons, the power watchdogs and their timers | connect, cancel, search, disconnect, sleep, the answers and the robot's messages | `ClientSession`; the server's view of it in `SpherlyServer` |
| **Message handling and threads** (`SpherlyWebSocketServer.java`) | `sp`, `spheros`, `webclientConnectedToSphero`, `sp_devices`, `listDevicesThread` | `onOpen`, `onMessage`, `onClose`, one thread for each connect and each search, the error handler | `SpherlyServer`, `DeviceSearch` |
| **Commands and packets** (`Sphero.java`) | `heading`, `packet_number` | roll, turn, calibrate, the other packets, `buildCommand` | `SpheroDevice` |
| **Listener** (`Sphero.java`) | the error flag | the read loop, the packets, the call of the error handler | `SpherlyServer` |
| **Bluetooth connection** (`bluecoveRFCOMM.java`) | `connection`, `input_stream`, `output_stream`, `devicesDiscovered`, `lock` | connect, disconnect, read, write, `findDevices` and the stack's callbacks | `SpherlyServer`, `SpheroDevice` (write), `DeviceSearch` |
| **WebSocket library** (`JavaWebSocket`: `WebSocketServer.java`, `WebSocketImpl.java`, `SocketChannelIOHelper.java`) | the queues of a connection, its state, the pool of buffers, the key's interest set | the selector's round, the workers, send, close | `PageSocket` |
| HTTP server, window, dialogs, projects, languages | none that behaviour depends on | | not modelled |
| Python server for Linux (`src/__Linux`) | its own heading, socket and listener | | not modelled |
| Blockly, jQuery, pywebsocket | | | as they are used |

**How they interact.**  Buttons, socket messages and timer callbacks are turns
of the browser's one event loop.  A JSON message reaches `onMessage` on a
worker thread of the WebSocket library, which takes the messages of a page one
after the other; `onClose` runs on the library's selector thread.  `onMessage`
calls `Sphero` in place, except that connecting and searching get threads of
their own.  A connection that is made starts a listener thread, which reads
the robot's packets and sends collisions and power states to the page.  All
these threads share the fields of the server and of the one `comm` object,
without a lock.

**What is hard.**

* The executor remembers one timer id, while commands set timers of several
  kinds, collisions replace the pending one, and handlers push commands
  between them.
* An exception in a handler leaves the queue as it was.
* Java's signed bytes: angles, checksums, the packet number.
* Connection threads, listeners, a disconnect and a closing page set and
  reset the same fields in any order.
* A read that blocks, throws, or returns -1 for ever when the link is lost.
* The page's one callback slot, and watchdog timers that outlive a session.
* Searches that share one vector, one lock and one `notify`.
* A connection's worker and the selector both open, close and write it.

`PROJECT.json` lists each hazard at its line, with the properties that would
catch it going wrong.

**What makes each component correct.**  The executor: no command of a program
is lost, repeated or reordered, a collision takes precedence, a queue that is
not empty drains, and what was started is ended.  The device: the robot's
idea of heading, numbers and checksums is the server's.  The server: page,
flag, connection, link and listener agree; links and listeners end with their
connection; a request is answered.  The session: a connected page listens, is
watched and has its buttons, and every request ends.  The search: whoever waits
is woken, and answers with what it found.  The socket: messages and answers
keep their order, none is left behind, and a page that is gone is closed.

## Plan

The order is by how much of the program's behaviour a component decides.

1. `ProgramExecutor`: the queue, its timers and handlers.
2. `SpheroDevice`: commands and packets.
3. `SpherlyServer`: messages, connection threads, listeners.
4. `ClientSession`: the callback, the buttons and the watchdogs of the page.
5. `DeviceSearch`: searches between `findDevices`, the stack and cancellation.
6. `CommandSequence`: an abstract executor, which `ProgramExecutor` implements.
7. `PageSocket`: one connection in the WebSocket library.
8. `MessageLink`: an abstract connection, which `PageSocket` implements.
9. `ConnectProtocol`: how a page comes to be connected, which both
   `ClientSession` and `SpherlyServer` implement.

All of these are written and checked, and every safety property of a run that
passes is proved.  What is left: a second page at the server, which nothing in
the repository says the server is to have; the Python server.

The modules compose along messages: a page of `SpherlyServer` is what
`ClientSession` does to its socket, the server in `ClientSession` is what
`SpherlyServer` and `DeviceSearch` may answer (late, never, or for nobody), and
both take from `PageSocket` that messages arrive in order and that a page which
is gone is noticed.  What the page and the server take one another to do is one
specification, `ConnectProtocol`, and what the library gives to both of them is
another, `MessageLink`.

## ProgramExecutor

| model | code |
| --- | --- |
| `command_queue`, `timeout_id`, `wait_time`, `handlers`, `loopTrap` | the fields of the same names |
| `timers` | the browser's pending `setTimeout` callbacks: what each does, and its delay |
| `elapsed` | `Date.now() - this.then` |
| `runButton`, `calibrateButton`, `isConnected` | the toolbar |
| `listening` | whether `spheroMessageCallback` is the socket's callback |
| `history` | what the properties compare with: nothing in the model reads it |
| `Run`, `Reset`, `Stop`, `Calibrate`, `EndCalibrate`, `Disconnect` | one button each, with everything it calls |
| `Connect`, `OtherCallback` | an answer to connect, which installs the callback be it "yes" or "no", and a dialog that takes the callback away |
| `CollisionWhenIdle`, `CollisionWhenBusy` | `collisionDetected`, in its two branches |
| `FireTimer`, `Tick` | timer callbacks, and time |
| `Dispatch`, `Finish` | `execute()` with a command to take and with none |
| `HandleThenExecute` | a handler, then `begin_execute` |

A block program is data: a sequence of steps for each event, with the loop
checks and exceptions at their places.  What its expressions compute is left
out, and so are blocks outside event blocks.  `loopTrap` goes on counting below
zero, as the code's does.  A collision needs the callback and no more: it is not
asked whether the page is connected.  A command is one of the kinds
that `execute()` treats differently; all commands that only send a message are
`plain`.  An entry without a block id loses its argument, as in the code.

`setTimeout` never calls back early, and may call back late: a timer that is
due stays due while time goes on, and timers that are due fire in any order.

| run | shows |
| --- | --- |
| `executor_mixed` | under all interleavings of buttons, collisions and timers: types, the recorded timer is pending, idle means done, no stall, order, no loss, precedence of collisions, `Drains`, and the refinement `ImplementsSequence` |
| `executor_alone` | every program of at most three commands of six kinds: waits are honoured, timed rolls and calibrations end |
| `executor_wait` | finding: a collision cuts the program's own wait short |

Bounds: three timer ids, one more than the most that are pending together
while a timer is set; two to five presses, enough for run, a second button and
its undoing, after a connection; up to two collisions, so that one meets the wait that another
left; a loop budget of 3, so that a loop of three iterations runs out of it and
one of two does at the second collision, and the code's own 1000 where it is
not the subject;
delays of 0 to 3 ticks with `COMMAND_WAIT_TIME` = 1, so that delays are
shorter than, equal to and longer than one another.

Fairness: time passes, and the browser runs every timer that is due.  Nothing
is assumed of the user or the robot.

### CommandSequence

What the executor promises, without timers: commands wait in one sequence and
are issued from its front (`Issue`), a collision only puts commands before those
that wait (`Interrupt`), the END handler adds to a sequence that is at its end
(`Extend`), a button starts or gives up a program (`Request`), and once an
exception has escaped nothing is promised (`Fail`).  The mapping is
`waiting <- command_queue`, `failed <- history.broken`,
`requests <- presses`.  `ImplementsSequence` is a property of
`executor_mixed`, with fairness: a sequence that can be issued does not wait for
ever.  The executor's fairness is of timers, of which a collision may cancel one
each time, so that this needs the bound on collisions, as `Drains` does.

### Proofs

`ProgramExecutor_proofs` proves for every set of programs, every bound and
every length of the queue: `TypeCorrect`, `RecordedTimer`, `IdleIsDone`,
`ExecutionGoesOn`, `ProgramOrder`, `ProgramComplete`, `CollisionFirst`, and
`Implements`, that every step is a step of `CommandSequence` or a stutter.
The assumption is `ConstantsAssumption`.  None of the
invariants is inductive alone: order needs to know that nothing is lost (a
prefix is issued, the rest is in the queue), precedence needs `IdleMeansDone`
(or the idle branch could append a handler to an unfinished program), and all
need the types.  Their conjunction `Ind` is inductive.  The proof goes along the
code: first what a handler pushes (`CompletedPrefix`, `PushedType`), then
`Dispatch`, `Finish` and `HandleThenExecute` for any queue, timers and
history, and last each action, which calls them with its own.  The refinement
is proved action by action from `Ind`: which abstract step each is, and that
what a collision leaves behind is the old queue.

`WaitsKept` is about the wait block.  Of the whole system it is false, so it has
two hypotheses, and each of them is a way in which the code breaks a wait: a
collision replaces the pending timer (the finding of `executor_wait`), and a
button does not find the pending timer when `clearAllCommands` has forgotten
it (`Lost`).  In every behaviour without a collision in which no button is pressed
while the timer is forgotten, waits are honoured, for every set of programs and
any number of presses.  The invariant (`Waits`) is that there is one timer at
most, that it lasts as long as the wait that is under way, and that the
program's entries have their block ids, without which `execute()` finds no
seconds.  `WaitsAlone` draws the consequence for the bounds of
`executor_alone`: two presses are too few to get to such a button.  `Spec` bounds
the timers by `HasRoom`; the theorems hold for every finite set of ids.

## SpheroDevice

| model | code |
| --- | --- |
| `heading`, `packet_number` | the fields; `packet_number` is a Java byte |
| `sent` | the packets that the last operation wrote |
| `linked` | `comm.isConnected()`, without which `write` does nothing |
| `facing`, `rolled`, `count` | history |
| `Roll`, `Turn`, `Calibrate`, ... | the methods of the same names, with the clamping of `onMessage` |
| `Connect`, `ConnectFails` | `connectToDevice` |
| `Byte`, `Rem`, `ToInt` | Java's cast, `%` and int arithmetic |

One operation is one action, and the packets of one operation are a sequence.

| run | shows |
| --- | --- |
| `device` | with angles beyond a full circle both ways: unless a roll message was the last to turn the robot, a turn moves it by what it says from where it faces, and it faces where `heading` says; degrees and checksums are what the robot expects; over 300 packets, past both places where a byte wraps, numbers follow one another |

Bounds: `IntSize` is 2^20 in the runs, which TLC can compute with, and which is
congruent to 2^32 modulo 360; 2^32 is one of the values that the proofs cover.
The angles are few and chosen: beyond a full circle in both directions, on
both sides of one byte.  300 packets are more than 256.

Assumptions: degrees of turn messages are so far from the ends of an int that
the addition does not overflow, and setHeading messages carry 0..359: no
block and no button of the page sends one.

`SpheroDevice_proofs` proves `DeviceTypes`, `Turns`, `Headings`, `WireHeadings`
and `PacketNumbers` for all angles, speeds and lengths of run, from lemmas about
Java's numbers: a cast keeps a number modulo 256 (`ByteCast`), two remainders
make degrees of any int (`DegreesMod`), two bytes carry them
(`DegreesOnWire`), and the checksum completes any sum of signed bytes to 255
(`ChecksumComplements`).  The inductive invariant adds to the properties
that packet numbers are congruent to `count`.

`Checksums` proves that every packet written carries the checksum that the robot
computes.  A checksum is a fold over the packet's bytes, and induction over the
fold is out of the prover's reach, but no packet of the code has more than six data
bytes: the fold is unfolded that often (`TermSumStep`, `SumOfSix`).  Java adds
signed bytes where the robot adds unsigned ones; the two sums are congruent
(`SignedSum`), and the rest is `ChecksumComplements`.  One lemma for each
kind of packet then says what its bytes are (`RollIs`, `RGBIs`, ...).

## SpherlyServer

| model | code |
| --- | --- |
| `sp`, `spheros`, `webclientConnectedToSphero`, `connection`, `input_stream` | the fields; a Sphero object is present or not, a link is a number |
| `open`, `readable`, `lost` | the operating system's side: links and streams that are open, links the radio has lost |
| `unclosed` | history: links of which a close threw an exception |
| `page`, `session` | what the page takes its session to be |
| `pc`, `owner` | each connection thread: its place, and the page that asked |
| `listener` | the listener that each thread started: its place, the stream it is reading, the error flag, attempts to reconnect |
| `stop` | `disconnect` from a message and from `onClose`: their places |
| `overlapped`, `leftover`, `kept` | history: a request came while a connection thread worked; one to connect came when there was a connection or a listener still; the links that it found |

A step reads or writes one shared field between two others' steps.  Steps in
which nothing shared happens are merged with their neighbours: installing the
handlers with the start of `connect`; `startListening` with taking the streams;
the catch block of `connect`; the last assignments of `onClose`.  The cast of
the message's `id` always fails, so the id is 0.  One page is open at a time:
the selector thread, which runs `onClose`, is also the one that accepts the
next page.  The page is the environment.  It asks to connect when it is not
connected, waits, cancels, disconnects or closes at any time, and takes the
first message that comes while it waits for the answer.

Nothing but the page orders the threads.  What can be promised depends on what
is left of earlier requests, which three histories record.  `Sequential` (not
`overlapped`): a page lets the work of a request to connect end before it asks
for anything else but to cancel it.  `leftover`: a request to connect found a connection or a listener
of an earlier one, which needs no overlap: a sleep keeps the connection, and a
listener may still be in a read when the next request comes.  `kept`: the links
found that way.  The properties say what each of them costs: a second listener,
and the link that is replaced with its stream, but nothing else.
`server_overlap` drops `Sequential` for the properties that hold without it.

| run | shows |
| --- | --- |
| `server_session` | while requests do not overlap: a connected page has an open link, the flag and a listener, exactly one if no request to connect found an earlier connection or listener; the flag is set only with a connection, at each step of a disconnect; no reconnection that nobody wants; the links that nothing names are those that a later request replaced or that could not be closed; every listener ends with its connection, whether blocked, at the end of a stream or between packets |
| `server_overlap` | with requests that overlap at will: the refinement `ImplementsProtocol` (every connect is answered, once, to the page that asked), attempts to reconnect stay in their limit |
| `server_lost` | finding: a lost link never reaches the code that reconnects |

Bounds: two connection threads, one or two links and two pages, so that each
page connects, a second connect follows a disconnect, a sleep or a lost link,
and the work of one page may go on when the next one asks; the code's own three
attempts.  `server_session` does not go on from a state in which requests have
overlapped (`CONSTRAINT Constraint`, which is `Sequential`): such a state stays
one, and there the properties hold trivially.

Fairness: threads are scheduled, and `Connector.open` returns, with a link or
an exception.  Nothing is assumed of the page, the user and the radio, except in
`server_lost`: its module `MCServerLost` adds the page's power watchdog, which
ends a session with a silent robot (Sphero.js 94-104), as `SilenceNoticed` of
`client_session` has it, and a user who leaves a connected page alone.  The
watchdog waits for two periods of seconds, a read that fails takes no time, so
it comes only after every listener has read in vain `Patience` times or is
caught at the end of the stream; two failures are enough for the error flag
and the loop to have come round again.  The session then ends, and no listener
has tried to reconnect.

A lost link makes a read throw or return -1.  The model allows either for a
header; the finding holds for both.

`SpherlyServer_proofs` proves `ServerTypes`, for requests that overlap at will,
and `ConnectedIsLinked`, `WantedIsLinked`, `NoReconnect` and `NoLinkLeaks`, for
any number of threads, links and pages.  The assumption is `ServerAssumption`:
the threads are finitely many, and null is not a link.  None of the four
invariants is inductive.  The inductive one has layers, each for what is left of
earlier requests.  `InTurn`: while requests do not overlap, one thread is at work
at a time and no stop beside it.  `Linked`: if besides no listener has tried to
reconnect, each place of that thread fixes what connection, flag and links are
(`PlacesLinked`, `FlagLinked`, `LinkHeard`, `LinkNamed`), sleep and connect included.
`OneListener`: if besides no request to connect found anything of an earlier
one, there is one listener at most, and it does not get as far as to try, because
the flag is reset before the connection is.  The proof has a lemma for each actor:
the page, a stop, a connection thread (`ThreadLinked`, `StepPlaces` is the step
from one place to the next) and a listener (`ListenerLinked`,
`OneListenerListens`).

### ConnectProtocol

How a page comes to be connected, without threads, dialogs and timers: it asks,
the server works on its requests (more than one, when it has cancelled and asked
again), each of them is answered at most once, and the page becomes connected
only when it waits and a "yes" arrives.  Whatever else arrives while it waits is
taken for a "no".  A page that closed hears nothing more, and the next one starts
without requests.  `Answered` adds that no page waits for ever.

Both sides implement it, each with the other one as its environment:

| `ConnectProtocol` | in `SpherlyServer` | in `ClientSession` |
| --- | --- | --- |
| `page` | `page` | `View`: the socket, `isConnected` and the callback |
| `requests` | the threads at work whose page is open (`Requests`) | `jobs["connect"]` |
| `inbox` | empty: answers arrive at once | `inbox` |
| `Notes` | none: a collision or warning that ends a wait is a `Leave` | all messages but the answers |

These are two refinements of one specification, and not a proof that the two
models composed implement it: each model's environment is checked for being
what the protocol allows, together with its own side.

`ServerFollows` proves the safety half for the server, with requests that
overlap at will: the invariant is only that no thread is owned by a page to come
(`OwnersPast`), and the count of requests follows from the places of the threads.
`SessionFollows` proves it for the page: it needs `Ind`, that a socket which is
not open has nothing under way (`NothingUnderWay`), and that a page which waits for
the answer has no button to ask again (`WaitingForOne`).

## ClientSession

| model | code |
| --- | --- |
| `socket`, `wanted`, `inbox` | the WebSocket: its state, what `tryTo` does once it is open, messages on their way |
| `onmessage` | which function the socket's one callback is |
| `isConnected`, `buttons`, `dialog` | the field, the enabled buttons, and what the dialog's button does |
| `watchdogs`, `power_timeout_id`, `got_power_notification` | pending `powerNotificationHandler` timers, and the fields |
| `jobs`, `linked` | the server as the page sees it: its threads, and whether it has a robot |
| `silence` | history |
| `Request`, `Opened`, `Cancel`, `OtherDialog`, `Disconnect`, `Sleep`, `Close` | the user, and the socket |
| `ConnectAnswered`, `SearchAnswered`, `SpheroMessage`, `Ignored` | a message, by the callback that gets it |
| `Watch`, `GiveUp` | `powerNotificationHandler` in its two branches |

A dialog's button can be pressed when the dialog is hidden: Enter clicks it
(runblockly.js 198-204), so `Cancel` stays enabled after a dialog is closed,
until another takes its place.  A callback takes any message that comes for its
answer, as in the code.  The server answers late, not at all (a search that
fails), or for a page that has gone (an orphan).

| run | shows |
| --- | --- |
| `client_session` | whatever requests, cancellations, late answers and leftover watchdogs come: a page that is connected, or waits to be, remembers a pending watchdog; it listens to its robot; its buttons are those of its session, and are all disabled only while the callback of a request is in place (its answer may never come); the refinement `ImplementsProtocol` (it is connected only by an answer to its own request, and a request to connect ends); a silent robot is noticed |
| `client_off` | finding: the watchdog of a cancelled request ends a later session |

Bounds: two watchdogs, the session's and one left over; two requests at work, so
that the answer to one comes during the next; two messages on their way; a
watchdog of two ticks, so that one is in the middle of its time when another
begins.

Fairness: time passes and timers that are due fire.  Nothing is assumed of the
user, the network and the server: that a request ends (the liveness half of
`ImplementsProtocol`) rests on the watchdog alone.

`ClientSession_proofs` proves `SessionWatched`, `SessionHeard`, `SessionButtons`
and `SessionFollows` for any number of watchdogs, requests and messages, from
the types (`SessionTypes`).  The invariant adds to the properties which callbacks go with which buttons, and that
a watchdog of its own comes with every request to connect: `GiveUp` of any
leftover watchdog ends the request together with its own.

## DeviceSearch

| model | code |
| --- | --- |
| `pc`, `listDevicesThread`, `interrupted` | each `ListDevicesThread`, the field, and Java's interrupt flags |
| `devicesDiscovered`, `lock`, `sp_devices` | the fields that all searches share |
| `running`, `completing` | the Bluetooth stack: an inquiry, and callbacks to come |
| `result`, `answer` | what each thread got, and sent |
| `found`, `alone` | history |
| `ClearDevices`, `StartInquiry`, `Wait`, `Interrupted`, `Woken` | `findDevices` |
| `Filter`, `Filtered` | `FindSpheros` over the shared vector, whose iterator throws if it has changed |
| `Assign`, `Answer` | `listDevices` |

The stack makes one inquiry at a time, which is what BlueCove does: it throws
(`Refused`) or returns false (`NotStarted`).  It may call back late, when the next
inquiry has begun.  `wait()` returns when notified or interrupted; Java's
spurious wakeups are left out, and with them a search could answer early.

| run | shows |
| --- | --- |
| `device_search` | with searches that overlap, are cancelled, refused and not started: there is a callback to come for each search that waits; every search ends; a search that met no other answers with exactly the Spheros of its own inquiry |

Bounds: two searches, a robot and a phone: a search may meet what an earlier one
has left in the vector, the lock or the stack.

Fairness: the stack ends its inquiries and calls back; the threads run.

`DeviceSearch_proofs` proves `NoLostNotify` for any number of searches and devices,
from the types (`SearchTypeCorrect`): starting an inquiry and waiting are under one lock, so an
inquiry that is over cannot call back in between, and each callback wakes
exactly one that waits, if any does.

`AloneIsComplete` says that a search that met no other answers with exactly the
Spheros of its own inquiry, whatever earlier ones have left.  `AloneOK` follows
such a search from place to place (`Stage`): while it is between inquiry and
callback there is exactly one callback to come and the vector holds what its
inquiry has found, before and after that the stack is quiet.  That rests on its being
the only one at work (`Single`), which `alone` says of the past and the guards of
the other threads keep true.

## PageSocket

| model | code |
| --- | --- |
| `inbound`, `received`, `page` | the network and the browser |
| `selecting`, `readyOps`, `wakeup`, `interestOps`, `channel` | the selector thread, the key and the channel |
| `buffers`, `inQueue`, `outQueue`, `iqueue`, `workerThread` | the pool and the queues |
| `readystate`, `flushandclosestate`, `draft`, `connected` | the fields of the connection, and whether `connections` has it |
| `decoding`, `frame`, `sending` | workers and senders: their places |
| `handled`, `written` | history |
| `ReadFrame`, `ReadEnd`, `Write`, `Written`, `Interest` | the selector's round over one key |
| `CloseChannel`, `RemoveConnection`, `Closed` | `closeConnection` |
| `Take` ... `Done` | `WebSocketWorker.run` and what it decodes |
| `Send`, `SendFrame`, `SendDemand` | `send`: it looks at the state, puts the frame and makes the demand |
| `Put`, `Demand` | `write` and `onWriteDemand`, which other threads come between |

The page is a browser: one handshake, then messages, at most one close frame,
and the end of its stream or a reset at any time.  A read brings one frame; a
write takes all of a buffer or stops; on a page that has gone it may throw.
`closeConnection` and `flushAndClose` exclude each other, as their
`synchronized` says.  A worker that fails stops the server (`Fatal`).

| run | shows |
| --- | --- |
| `page_socket` | messages reach the application in order, none twice or left out, with any choice of workers; the page receives a prefix of what was written; the refinement `ImplementsLink`; what is sent is handled while the page stays; a page that has gone is closed |
| `socket_ghost` | finding: a page that leaves during its handshake is registered after it was closed |

Bounds: two workers and two senders, so that frames could overtake each other and
demands meet; two messages; two buffers, which is what the pool holds after a
second connection was accepted, fewer than the frames a page may have on their way.

Fairness: the selector and the workers run.  Nothing is assumed of the page or the
senders.

`PageSocket_proofs` proves `SocketTypes`, `SocketOrder` and `SocketAnswers` for any
number of workers, senders, buffers and messages.  Between the page and the
application a frame is inbound, in `inQueue`, or with a worker; the
invariant is that these three, one after the other, hold the messages that follow
the handled ones (`InLine`).  That needs that all frames are with one worker
(`OneWorker`), that an open page has lost none (`WhileOpen`), and that nothing but
the handshake comes before there is a draft (`Early`).  The lemmas `ReadLine`,
`TakeLine`, `HandleLine`, `SpecialLine` and `SendLine` say what each movement does
to the line.  For the answers the invariant (`Answering`) is that what was written
is what the page has received and what is still queued, until the queue is cleared;
by then the channel is closed, and the selector does not come to write.

### MessageLink

What the library promises to the page and to the application, without threads,
buffers and frames: the application is given the messages that the page has sent, one
after the other (`Handle`); the page gets what was written, in that order
(`Deliver`), and first of all the response to its handshake, of which there is one
(`Write`), and sends nothing before that; a connection that is down stays
down (`HangUp`).  The mapping is `up <- Usable`, the channel is open and the page
is there; the other variables are those of `PageSocket`.

`LinkImplemented` proves `ImplementsLink`.  Beyond `Ind` and `Answering` it needs
that what is on its way to the application was sent (`Sourced`), for otherwise
`Handle` could run ahead of the page, and that a connection which is open has
written its response (`Answered`), for otherwise a close or a sender could come
before it.  A sender that has found it open may put its frame after it was closed,
but not before the response (`SendersAnswered`).  `PutLink`, `DownLink` and `HandledIsNext` are the abstract steps;
everything else is a stutter.

## Deadlock

`CHECK_DEADLOCK FALSE` in every run: a page nobody touches and a server nobody
calls rightly do nothing, and the bounds on presses, packets, threads, links
and pages stop every behaviour in the end.

## What is model-checked and not proved

Liveness rests on fairness, which the prover does not handle: `Drains` and the
fair half of `ImplementsSequence`, `TimedEffectsEnd`, `ListenersEnd`, the half of
`ImplementsProtocol` that says that no page waits for ever, `SilenceNoticed`,
`SearchEnds`, `AllHandled` and `GoneIsClosed`.  The safety halves of the two are
`Implements`, `ServerFollows` and `SessionFollows`.  Everything else that a
passing run checks is a theorem; `WaitHonoured`, which is false in general, is one
under the hypotheses of `WaitsKept`.

## What is not modelled

* Two pages at a time: `spheros` and `sp` belong to the server, and nothing in the
  repository says what a second page should see.  Two threads that build packets
  at once: only the packet number is shared, and nothing compares it.
* In the WebSocket library: the parsing of handshakes and frames (the drafts),
  the client's half, SSL, pings and fragments, which a browser does not send
  here, and the stop of the server by the application.
* The framing of the robot's packets, the HTTP server, the window with the log,
  the dialogs' contents, files and languages: input, output and layout.
* The Python server for Linux: an older, separate program in one thread.
* Blockly, jQuery and pywebsocket, nine tenths of the repository's lines: other
  projects' code, of which Spherly uses the text that Blockly generates and the
  DOM.  They keep no state that the robot, the server or the program in
  execution depends on, so the share of all lines that is modelled is small
  while the page's, the server's and the socket's own logic is covered.

## Findings

Four runs end in a violation, each of one property that quotes what the
repository says of itself; `PROJECT.json` has the lines.  A collision shortens
the program's own wait (`executor_wait`).  A lost link is never reconnected
(`server_lost`).  The watchdog of a cancelled request ends a later session
(`client_off`).  A page that leaves during its handshake stays among the
active connections (`socket_ghost`).

What the models show besides, without a run of its own:

* `clearAllCommands` leaves a timer: `setTimeout(this.execute(), 0)` overwrites the
  id of the one that `execute()` has set (Sphero.js 352).
* The loop budget is set once and spent by all runs of all handlers, so a finite
  collision handler is cut short in the end (runblockly_program_execution.js 25).
* A reset in the middle of a timed calibration clears the timer that would have
  ended it (`TimedEffectsEnd` is checked for programs that nothing
  interrupts).
* The entry `final_end` is never recognised, so an END handler, which only a saved
  project can have, runs again and again (`Finish`).
* `roll` does not update the heading that `turn` adds to (Sphero.java 168), while
  the turn block says "each turn is relative to its current facing"
  (msg/spherly/en.js 103); `FacingKnown` and `TurnIsRelative` except it: a turn
  after a roll starts from where the robot faced before the roll.
* The inactivity timeout of 6000 is cut to a byte and sent as 112 (Sphero.java 238).
* `cancelConnection` cancels nothing: the thread goes on and connects the robot
  (`CancelConnection`).
* A request to connect does not ask whether there is a connection.  After a sleep,
  or a cancelled request that went through, `connection` is overwritten
  (bluecoveRFCOMM.java 55): the old link and its stream stay open and nothing names
  them, and the old listener goes on next to the new one (`ConnectToDevice`).  Such
  a listener may even connect again behind a connect that failed (`ErrorHandler`).
* An exception of one close skips those that remain, and `connection` is null all
  the same (bluecoveRFCOMM.java 82-92, `CloseLink`).
* A late list, or a message of the robot, is taken for the answer to a request to
  connect, and means that it failed (`ConnectAnswered`).  A search that gives no
  answer leaves the buttons disabled until it is cancelled (`SearchDone`).
* Searches that overlap answer with what the others left in the vector, or not at
  all (`Filtered`).
* A worker that finds the connection closed before the handshake was decoded ends
  with a NullPointerException and stops the whole server, for every page (`Fatal`).
* The selector overwrites a demand to write that was made after it found the queue
  empty; the answer waits for the next one (`Interest`).  Messages may be decoded
  after `onClose`, and those on their way are lost when a write to a page that has
  gone fails (`Write`).
