# MyStreamer in TLA+

MyStreamer streams the pictures of a V4L2 camera over HTTP, as still images and
as an MJPEG stream, to a page whose scripts keep the picture fresh and set the
camera's properties. It is built on a network library of its own: event loops,
timers, connections, a small HTTP server. This directory holds TLA+ models of
the parts where threads, callbacks and failures meet, the TLC runs that check
them on small instances, and TLAPS proofs of the properties that matter most.

* `X.tla` is the model of component X, `MCX.tla` with `MCX*.cfg` its instance
  for TLC, `XProofs.tla` the theorems about it.
* `PROJECT.json` lists components, runs, the source lines behind each
  definition, the hazards and the theorems.
* A definition whose comment begins with "Mutant:" is no part of a
  specification. It is what a plausible mistake would make of the definition
  after it, and shows that a property would notice.

Model checking: `tlc -workers 2 -config MCX.cfg MCX`. Proofs: `tlapm XProofs.tla`.

## The system

`main.cpp` creates a camera, a `VideoSourceToWeb` that listens to it, and a
`WebCameraServer` with two I/O threads; then it starts the camera and the server.
At run time there are

* the camera's control thread (`v4l2_camera_data.cpp`), which opens the device,
  captures frames and hands them to a listener,
* the main thread with the base event loop, which accepts connections,
* the I/O threads, each with an event loop that owns some of the connections,
* in each browser the page (`web/`): `camera.js` asks for pictures or for the
  stream, `cameraproperties.js` and its panel read and set properties. The two
  scripts share nothing; both meet the server in requests that may fail, be
  late, or overtake one another.

They share the frame (`VideoSourceToWebData`, two mutexes), the loops' queues of
functors (`pendingFunctors_`, one mutex and an eventfd) and a few unguarded
fields. Everything else belongs to one thread and is reached by handing its
loop a functor. Asserts are compiled into every build (`CMakeLists.txt` never
defines `NDEBUG`), so that a failing assert ends the process; the models say so.

### Components

| Component | State | Operations | Hard because | Correct when | Module |
|---|---|---|---|---|---|
| Event loop | `pendingFunctors_`, `quit_`, the eventfd, `callingPendingFunctors_` | `loop`, `quit`, `runInLoop`, `queueInLoop` | callers race the loop on its way into `poll()` | no lost wakeup, functors once and in order, `quit` ends it | `EventLoop`, `TaskQueue` |
| Frame hand-over | `CameraImage`, `JpegBuffer`, `NewImageAvailable`, errors | `OnNewImage`, `OnError`, `EncodeCameraImage`, the handlers' reads | flags read outside the locks, failing allocations and encodes | bodies whole and fresh, no deadlock | `FramePipeline` |
| TCP connection and server | `state_`, `outputBuffer_`, channel events, the server's map | `send`, `shutdown`, `forceClose`, `handleRead/Write/Close` | calls from other threads, partial writes, closes from three sides | no byte stranded or reordered, FIN last, closed once | `TcpConnection` |
| Timer queue | `timers_`, `activeTimers_`, `cancelingTimers_`, timerfd | `addTimer`, `cancel`, `handleRead` | cancels inside callbacks, ids read late, clock changes | sets agree, fd set for the earliest, no timer lost or revived | `TimerQueue` |
| Camera control | `Running`, `VideoFd`, `ControlThread`, `PropertiesToSet` | `Start`, `SignalToStop`, `WaitForStop`, `SetVideoProperty` | the control thread touches shared state without the lock | device closed when not running, waiting ends, saved values applied | `CameraControl` |
| Asynchronous logging | two front and two spare buffers, the queue of full ones | `append`, `start`, `stop`, the logging thread | buffers are moved in a ring, dropped when too many | asserts hold, lines once and in order | `AsyncLogging`, `LineLog` |
| Picture page (`camera.js`) | `mjpegMode`, `frameInterval`, `timeStart`, the image element, pending timers | `Start`, `refreshImage`, `onImageLoaded`, `onImageError` | each callback has to leave exactly one successor; errors, stream ends and clock changes meet it anywhere | one refresh at a time, at the page's pace, pictures come back | `CameraPage` |
| Stream handler | the connection's timer, its output | `HandleHttpRequest`, `HandleTimer` | a slow connection, an error in the middle of the stream | what waits is bounded, the stream goes on or is closed | `CameraPage`, `FramePipeline` |
| Control page (`cameraproperties.js`, the panel) | the controls, POSTs in flight | the `handle...Property` functions, `setCameraProperty`, the panel's load, `resetToDefaults` | POSTs overtake one another, failures nobody hears of, a panel loaded between them | a burst of changes lands, a difference has a reason | `ControlPage` |
| Event loop threads | `loop_`, `exiting_`, the list of loops | `startLoop`, `threadFunc`, `getNextLoop` | a `quit` before `loop()`, a destructor without lock | started once, ended by the destructor | planned |
| Poller, channel | `channels_`, `index_` of each channel | `updateChannel`, `removeChannel` | a channel removed while events are handled | the kernel's set is the table's | planned |
| Acceptor | the listening socket, the spare descriptor | `listen`, `handleRead` | no descriptor left | the spare one comes back | planned |
| Connector, client | `state_`, `connect_`, the retry timer | `start`, `stop`, `restart`, `handleWrite`, `retry` | timers that fire after a restart | one attempt at a time | planned |
| Thread pool, queues | `queue_`, `running_`, two conditions | `run`, `take`, `stop` | producers and workers that wait while it stops | tasks once, nobody left waiting | planned |
| Buffer, ring buffers | reader and writer indices | append, retrieve, prepend, read, write | growth, wrap-around, full and empty | a queue of bytes | planned |
| HTTP | the parser's state, the handlers' table | `parseRequest`, `onMessage`, `onRequest` | requests in pieces, or several in one | one answer for each request | planned |
| Log front end, drawing, configuration files | none worth checking | formatting, pixels, text parsing | | | not modelled |

The network library also holds a poll(2) poller, a client and a thread pool the
streamer does not use, and `async_logging` is not instantiated by any program of
the repository. They are library code all the same and are modelled, or
planned, as such.

## The modules

### EventLoop and TaskQueue

`EventLoop` follows `loop()`: `loopPc` is where the loop thread is (`start`,
`test` of `quit_`, `poll`, `handle` the active channels, `swap` and `run` of
`doPendingFunctors()`). Any thread in `Callers` may call `queueInLoop()`/
`runInLoop()` or `quit()`; each call is two steps, the store and the write to the
eventfd. The loop thread makes the same calls from a callback or a functor, and
then wakes itself only while `callingPendingFunctors_` is set.

`TaskQueue` is what a caller is promised: a queue of tasks, emptied from the
front. The refinement maps its queue to the batch being run followed by
`pendingFunctors_`. `Queue!Spec` includes the fairness of `RunNext`: every task
of an open loop is run at last. `Queue!NothingLost`, what the queue itself
guarantees, carries over to the loop through the refinement.

### FramePipeline

One camera thread and any number of I/O threads. The locks `ImageGuard` and
`BufferGuard` are variables; each unlocked read (`IsError()`,
`NewImageAvailable`, the two tests of `ReportError()`) is a step of its own. Only
`HandleTimer()`'s condition is one: the two fields `IsError()` reads, with
`JpegSize`. So are the two fields of every other `IsError()`.

A thread that holds `BufferGuard` takes several steps with the buffer, so that
the lock is what keeps an answer whole. `CopyJpeg` copies and `NoteJpegSize` notes the
length; `OfferBuffer` sets `JpegSize` to the room there is and `EncodeRgb` to the
length of the result, and between the two a timer's unlocked test sees the former.
A handler reads `JpegSize` twice, for the body and for the length it announces
(`MeasureBody`, `CopyBody`; a stream announces first, a still copies first). A frame
is its number and the length of its JPEG form.

`ServedWhole` has three parts. The length announced is that of the body, whatever
fails and whichever camera it is. As long as nothing failed, a body is empty
exactly if there was no frame yet: a still or the start of a stream is a 200
without a picture then, while a timer closes its stream. And the body of an
uncompressed camera is a whole frame. Copying a frame over the old one keeps the
old width, as `Image::CopyData` does, so for a camera that delivers JPEG the
length served can be an older frame's: the last part is about RGB cameras
only. `EncodeRgbFails` and the actions whose name ends in `NoMemory` are the
failures, at most `MaxFaults` of them.

### TcpConnection

One connection of a server, from `newConnection()` to its destruction, with its
loop taken as the queue that `EventLoop` implements (`functors`): this is how
the two compose. The server's thread, the loop's events and functors, the calls
of user callbacks in the loop, calls of other threads and the peer interleave.
`shutdown()` and `forceClose()` of another thread are three steps: the test of
`state_`, the store (`OtherStores`) and the functor (`OtherQueues`); `send()` is two.
The socket takes `KernelRoom` bytes. `raced` records that `shutdown()` or
`forceClose()` of another thread stored `state_` over a `handleClose()`: the
code marks that race with a FIXME, and the properties are stated without it, but
for the part of `InOrder` that says order and no duplicates, which holds with it
too. The connection's loop is one of the I/O threads, not the server's own.

A message is its number in the order of the calls of `send()` that took it, and
`sender` (history) says which thread made each; its bytes are the pairs of that
number and a place. `wire` is what `write(2)` took, so that the properties compare
bytes, not messages.

### TimerQueue

Timers live at `Addresses`, which are reused once a timer is deleted, as a raw
pointer is. `HandleRead` is three actions: `GetExpired` takes the batch out,
`RunTimer` runs one callback, `Reset` puts repeating timers back and sets the
timerfd; between them callbacks may add and cancel. `Poll` is the round of the loop
that finds the timerfd readable (`reported`): another handler of that round may
set it anew, `readTimerfd()` then gets `EAGAIN`, and `getExpired()` takes what
there is. Other threads add and cancel
through the loop's queue and read the new timer's sequence after they have
handed it over (`CallerReadSequence`), when it may already be gone: `misread`
records that an id got another timer's number. A tick is the 100 microseconds
of `howMuchTimeFromNow()` (its comment says 100 milliseconds). The wall clock
may be set, the timerfd counts on.

### CameraControl

The owner's calls, the setters' calls and the control thread's `Init`,
`VideoCaptureLoop` and `Cleanup`. `Sync` guards `Running` and the property calls;
`VideoFd` and the walk over `PropertiesToSet` are outside it, so a property call
is two steps. A call that joins inside `Sync` waits for a thread that no longer
needs it and is one step with a guard.

### AsyncLogging and LineLog

The buffers are moved as in the code: `current`, `hasNext`, `buffers` in front,
`spare1`, `spare2` and `toWrite` at the logging thread. `append()` is one critical
section. The logging thread writes one buffer a step (`written` counts them), so
that calls of `append()` and `stop()` come between. Lines are one unit long.

`LineLog` is what a thread that logs is promised, without buffers: a set of lines
that wait and a file. A step may write some of the lines, the oldest first, or
give some up, which leaves a notice; while the log is open no line waits for
ever. The mapping takes `running_` for `open` and the lines of all buffers, those of
the batch that are not yet written included, for `waiting`.

### CameraPage

`camera.js` as a whole, with the two handlers of `web_request_handler.cpp` it
asks. A callback of the page is one action (`TimerFires`, `onImageError`,
`ImageLoads`, `PartLoads`, which call `refreshImage`, `onImageLoaded` and
`setTimeout` as the script does); so is a callback of the server (`HandleJpeg`,
`RefuseStream`, `OpenStream`, `SendPart`, `CloseStream`). `img` is what has become of
the request of the image element, `timers` the pending calls of `refreshImage`,
`output` the bytes of the stream that wait in the connection.

Times are kept as differences: what a timer has left, and what
`new Date().getTime() - timeStart` would give. Whatever is later than the longest
wait (`Late`) is alike. `1000 / fps` is an integer here, because `setTimeout()`
takes whole milliseconds. The environment is the browser (it shows streams or
does not, `mjpeg`; it reports the end of a stream as an error or does not,
`reportsEnd`), a camera that fails and recovers, connections that break at any
time while the network is `failing`, bytes that arrive when they like, and a wall
clock that may be set (`SetClock`), which timers do not notice. Setting `src`
drops what the element was loading, and with it its events. There is one page
with one image element, and each stream has a connection of its own. A part of
the stream sent with no picture in it has a header only, which is left out.

### ControlPage

`cameraproperties.js` and the panel that uses it (`cameraproperties.html`, opened
and closed by `index.html`). A property is an integer, a checkbox or a selection
(`kind`). `posts` are the POSTs without an answer, in the order they were made; the
browser has the oldest `Connections` of them on its connections, and the server
handles those in any order. The panel goes from `closed` through `loading` and
`read` to `shown`, or to `empty` when the configuration could not be read. The
server is `HandlePostRequest` of `web_camera_control_handler.cpp`, or a 404: in this
program `main.cpp` registers no handler at `/camera/config`, and the page does not
know. Other clients may set properties too.

`chosen`, `trouble`, `behind` and `logged` are history: what the user chose for a
property since it was last quiet (no POST in flight), how POSTs went wrong since,
who set it last behind the back of its control, and whether the page logged it. A
POST that is not handled is marked (`late`) when one made after it for the same
property is handled first (`overtaken`), or when the panel reads the configuration
(`read`); `behind` takes the mark from the POST that set the property last. An
overtaking thus needs two POSTs out of order, and a stale panel is a reason of
its own: `Explained` tells the five reasons for a difference apart. A panel is not
opened a second time while it loads.

## The runs

| Run | Expect | Instance | States | What it shows |
|---|---|---|---|---|
| `event_loop` | pass | 2 callers, 3 tasks | 6480 | no wakeup or quit lost; implements `TaskQueue`; `quit` ends the loop |
| `frame_pipeline` | pass | 2 I/O threads, 2 frames, lengths 1 to 3 around a buffer of 2, 1 fault | 648 k | locks exclusive and free of deadlock; announced length and body agree, bodies whole and fresh; requests finish |
| `frame_pipeline_report` | violation | the same without faults | | `ReportError()` may report nothing |
| `tcp_connection` | pass | 1 other thread, 2 messages of 2 bytes, room for 1 byte, 3 functors | 434 k | output watched and drained, per-thread order, FIN after the loop thread's data, closed once |
| `tcp_connection_fin` | violation | the same | | the FIN may overtake another thread's data |
| `tcp_connection_closed` | violation | the same | | a closed connection stays in the map |
| `camera_control` | pass | 1 setter, 2 properties, 2 values | 309 k | device released, waiting ends, saved values applied |
| `camera_control_property` | violation | the same | | a value set during `Init()` may be lost |
| `async_logging` | pass | 3 units a buffer, more than 3 buffers are dropped, 8 lines | 1822 | asserts hold, lines in one place and in order; implements `LineLog`; `stop` returns |
| `timer_queue` | pass | 1 caller, 2 addresses, 2 timers, times up to 3, clock set once, 2 functors | 551 k | sets agree, fd armed for the earliest, timers kept, none revived, all expire |
| `camera_page` | pass | pause 4, default interval 3, rates 0, 1, 2 and 5, clock set back by 2 or forward, pictures of 2 bytes and headers of 1 | 168 k | one refresh at a time, at its pace, output bounded; pictures come back |
| `control_page` | pass | 1 property of any type, 2 values, 2 connections, 4 POSTs | 600 k | bursts land, a difference has one of five reasons, POSTs end |

Every property is broken by at least one mutant listed in `PROJECT.json`.

### Bounds

All counters that grow in the code have a named bound in the guards of the
actions that would exceed it: `MaxFrames`, `MaxFaults`, `MaxSends`, `MaxCalls`,
`MaxLines`, `MaxTimers`, `MaxTime`, `MaxSteps`, `MaxPosts`, `ClockBack`. They are chosen so that what the
properties speak about happens: two callers, so that one store falls between
another's store and its eventfd write; lengths below, at and above the buffer's
size; a message that never fits the socket at once, so that every send is
partial; enough lines to fill more buffers than are kept; an address that is
reused while an id of its earlier timer is around; delays of zero and beyond
the current tick. The rates of
`camera_page` give intervals below, at and above the pause after an error, and
zero; `2 * JpegSize` bytes of output are reached and passed, also by a part that is
not a multiple of it. `control_page` has one property, since POSTs of different
properties meet only on the connections, which one property fills too; two
connections and four POSTs let a later burst overtake and start anew, and the
theorems hold for any number. In `timer_queue` wall-clock time stops at `MaxTime` while the
timerfd counts on; `TimersExpire` speaks of timers due by then.

Deadlock is checked where the system never stops. `tcp_connection`,
`async_logging` and `timer_queue` do stop: after a failed assert, after `stop()`,
or once the bounds are used up.

### Fairness

* The loop thread is scheduled and callbacks return (`WF` on the loop's steps);
  a thread that has stored its functor finishes the call.
* An I/O thread in a request goes on (`WF`); the camera's thread leaves
  `OnNewImage()`. Requests and frames need not come.
* The connection's loop runs its functors and the events the poller reports, the
  peer reads what it was sent, and another thread inside a call goes on with it
  (`WF`). Nobody has to send or close.
* The control thread and a waiting owner get `Sync` when it is free again and
  again (`SF`: `std::recursive_mutex` is not fair, but setters spend no time in it
  and leave gaps); a setter inside leaves it (`WF`).
* The logging thread runs and a wait with a timeout ends.
* Time passes, a due callback of the page is called, the server answers and its
  connection's timer fires, bytes arrive (`WF` each). Camera, network and clocks may
  do what they like: `PictureReturns` supposes that they stay well from some time
  on, and a browser that reports the end of a stream.
* The browser calls back the control page and the server handles its requests
  (`WF`). The user need not do anything.
* Each round of the loop finds a readable timerfd, serves it and the functors, and
  time goes on.

## What is proved

For all values of the constants that meet the named assumptions (finite
`Addresses`, positive sizes and the like), from `Init /\ [][Next]_vars` alone:

| Theorem | Statement | Inductive invariant and argument |
|---|---|---|
| `EventLoopProofs!TypeCorrect` | `TypeOK` | inductive as it stands: it says where `callingPendingFunctors_` is set, a batch exists and channels are active |
| `EventLoopProofs!WakeupsKept` | `NoLostWakeup` | `WakeInv`, inductive with `TypeOK`: the claim is made wherever the swap of this round is behind, not in `poll()` alone, so that it holds when the loop gets there |
| `EventLoopProofs!QuitsKept` | `NoLostQuit` | `WakeInv` again: a `quit()` of the loop's own thread is tested before the next `poll()`, one of another thread writes the eventfd |
| `EventLoopProofs!Refinement` | the loop implements `TaskQueue`'s safety part | step by step; `swap` and the flags stutter |
| `EventLoopProofs!TasksKept` | `Queue!NothingLost`: a task handed over is queued once or was run once, not both | from the refinement alone, with the abstract queue's own invariant; nothing of the loop is looked at |
| `FramePipelineProofs!TypeCorrect` | `TypeOK` with `JpegSize <= JpegBufferSize` | with `Owners` and `Roomy`: who is between two steps of an encode holds both guards, so that image and room are still those of the step before |
| `FramePipelineProofs!BuffersGuarded` | `GuardedBuffers` | `Owners`: who owns which mutex is a function of where the threads are |
| `FramePipelineProofs!NoDeadlock` | `SomebodyGoesOn`: while a request is under way a thread can go on | `Owners`: who has `BufferGuard` waits for nothing, who has `ImageGuard` at most for `BufferGuard` |
| `FramePipelineProofs!BodiesWhole` | `ServedWhole` | `Whole`: while nobody encodes, `JpegSize` is what the buffer has (`Full`), and what a handler has measured is `JpegSize` still (`Measured`), both because encoder and handler hold `BufferGuard` from their first step to their last |
| `FramePipelineProofs!BodiesFresh` | `ServedFresh` | `Fresh`: without faults the buffer holds the newest frame unless `NewImageAvailable` says that one waits; `Owners` keeps the camera away from a frame between its encode and the clearing of the flag, so a flag found clear outside the locks means that the buffer is new enough |
| `TcpConnectionProofs!TypeCorrect` | `TypeOK` | with `Named`: a functor that sends has a message |
| `TcpConnectionProofs!WatchedWhileWaiting` | `OutputIsWatched` | `Orderly`: `connectEstablished` is the first functor and comes once, and before it nothing is watched or sent (`Early`); for connections whose `state_` was not stored over |
| `TcpConnectionProofs!ToldOnce` | `ClosedOnce` | the same invariant with `Ended`: the user has been told exactly when the state is `kDisconnected` |
| `TcpConnectionProofs!BytesInOrder` | `InOrder` | `Delivery`: the flow, `wire` followed by the output buffer, holds whole messages, one caller's in order and before those of it that wait in functors (`Callers`, `Fifo`, `InTurn`); without the race no message is lost before the connection gives up (`Kept`), and what is lost then is followed by nothing of its caller (`Gapless`) |
| `TcpConnectionProofs!FinBehindLoopData` | `FinAfterLoopData` | the same invariant with `Late` and `Drained`: a FIN is sent, and its functor queued, only once `state_` is stored, a FIN only when the output buffer is empty, and the loop thread's messages never wait in a functor |
| `CameraControlProofs!TypeCorrect` | `TypeOK` | inductive, with `Sync` held exactly inside a property call |
| `CameraControlProofs!ReleasedWhenStopped` | `DeviceReleased` | `Lifecycle`: where the control thread is decides what is open, running and joinable |
| `CameraControlProofs!StoppedWhenWaited` | `WaitStops` | an action property, from `Lifecycle` |
| `CameraControlProofs!SignalsKept` | `SignalKept`: while `WaitForStop()` waits for a camera that runs, `NeedToStop` is set | inductive with `TypeOK`: only `Start()` takes a signal back, and the owner that waits does not start; `WaitReturns` rests on it |
| `CameraControlProofs!SavedReachDevice` | `SavedIsApplied` | `Kept`: `PropertiesToSet` holds the value last accepted or the device has it, through the walk over the map, and a call that began outside `Init()` and `Cleanup()` ends before the next `Init()` |
| `AsyncLoggingProofs!TypeCorrect` | `TypeOK` | first the buffers (`BuffersTyped`: the current one never fills), then the file, whose entries are lines of the batch or notices |
| `AsyncLoggingProofs!AssertsHold` | `NoAssertFails` | `Accounted`: `nextBuffer_` is missing only while a full buffer is queued, and a batch that took both spares has two buffers |
| `AsyncLoggingProofs!LinesInPlace` | `NothingLost` | `Kept`: the file, the rest of the batch, the full buffers and the current one, read as one row of chunks, are each in order, each below the next, and hold the lines appended but the dropped (`Sound`); every action adds to the end of the row, takes from its middle, or joins the second chunk to the first |
| `AsyncLoggingProofs!Refinement` | the buffers implement `LineLog`'s safety part | step by step: `append` is `Log`, `WriteBuffer` is `Write`, `DropBuffers` is `GiveUp`, what moves buffers stutters because the row stays the same |
| `TimerQueueProofs!TypeCorrect` | `TypeOK` | with `Coherent`, because expiry reads timers through pointers |
| `TimerQueueProofs!AssertsHold` | `NoAssertFails` | `Coherent`: a timer is in both sets, or in the batch that runs, or once in the functors, and is not deleted meanwhile; the sizes agree because both sets are in bijection with the addresses in use |
| `TimerQueueProofs!ArmedInTime` | `ArmedForEarliest` | inductive as it stands: `addTimer` and `Reset` set the timerfd, ticks shorten both waits alike |
| `TimerQueueProofs!NoneForgotten`, `NoneRevived` | `TimersKept`, `GoneStaysGone` | `Traced`: a timer on the heap is active, queued or in the batch, sequence numbers are drawn once, ids name their timers, and while the batch runs `cancelingTimers_` has exactly those of it that were cancelled |
| `CameraPageProofs!TypeCorrect`, `RefreshesOnce` | `TypeOK`, `OneRefresh` | `Refreshing`: the request was made in the mode the page is in, and only a stream has load events of parts, so that `onImageLoaded` schedules nothing for a stream and something for a picture |
| `CameraPageProofs!KeepsPace` | `OnSchedule` | `Paced`: while nobody sets the clock, `timeTaken` is the time since the request |
| `ControlPageProofs!TypeCorrect` | `TypeOK` | with the parts below; what is logged was rejected |
| `ControlPageProofs!BurstsLand` | `BurstLands` | `Within`, `Chosen` and `Landing`: what is in flight was chosen, and a property with a value nobody chose has a POST that is not handled, trouble, or others |
| `ControlPageProofs!DifferencesExplained` | `Explained` | `Shown`: the page was told of trouble or a POST failed, or what the control shows is in flight, in time, and nothing later is anything else (`Newest`), or the camera has it unless it was set last from behind, and every POST still in time carries it (`Agrees`) |

Each proof has one case for each action. The inductive invariants are checked by
TLC as well (they were invariants of the runs while they were developed).

The theorems of `TcpConnectionProofs` (types and the order part of `InOrder`
excepted) and the last two of the timer queue are about executions in which the
races the code has did not happen (`raced`, `misread`): the theorems say so, and the
races themselves are hazards.

Order in a sequence of sequences is stated without recursion: a row of chunks is
sound when each chunk is in order and each entry of a chunk is below those of the
chunks after it. The lemmas about rows (a chunk more at the end, two chunks
joined, an entry added to the last, chunks left out) are proved once, for an
opaque predicate of a sequence, and each action cites the one it needs.

Only model-checked: everything about liveness (TLAPS has no rule for it here, nor
for `ENABLED`): `QuitEndsLoop`, `RequestsFinish`, `OutputDrains`, `WaitReturns`, `StopEnds`,
`TimersExpire`, `PictureReturns`, `Settles`, and the fairness parts of
`ImplementsTaskQueue` and `ImplementsLog`. Every invariant and every action property
that a passing run checks has a theorem.

## Where code and words disagree

1. `ReportError()` promises an HTTP error and may set no status
   (`video_source_to_webdata.cpp:15`).
2. The FIN of `shutdown()` may be sent before data the same thread sent earlier
   (`net_tcp_connection.cpp:447`).
3. `handleClose()` no longer tells the server; its comment says it does
   (`net_tcp_connection.cpp:489`).
4. A property set while the device is being opened may be forgotten
   (`v4l2_camera_data.cpp:521`).

On the pages, where a run would show no more than the line itself:

* "always try capturing in MJPEG mode" (`camera.js:46`) and "it defaults to MJPEG;
  ... 30 fps" (`index.html:140`), but the mode is `false` and `Start(15)` is called.
  `docs/API.md:91` says that the default is `/camera/jpeg`.
* `failure` (`cameraproperties.js`, `index.html`, the panel) is no option of
  `$.ajax`: a request that fails is reported to nobody. `Explained` counts it as a
  reason of its own.
* `main.cpp` registers no handler for `/camera/info`, `/camera/config` and
  `/camera/properties`, `CameraControlHandler` is empty and `HandlePostRequest` has
  no caller: in this program the panel stays without controls.
* `resetToDefaults` of the panel ends with a name that is not defined
  (`propertiesHtml`) and throws, after all its POSTs are made.

And on the server: `web_request_handler.cpp:47` answers "No image from video
source", but the test before it (line 45) is of `Owner`, which is never null. Before
the first frame a still is a 200 without a body, and a stream begins with an
empty part, which its timer then ends (line 117 tests `JpegSize`). `ServedWhole`
says when that happens and when not.

Met on the way and recorded as hazards: a `quit()` before `loop()` is lost, an id
of a timer added from another thread may name another timer, a failed encode
leaves `JpegSize` at the size of the buffer, a compressed image keeps the width
of the one it is copied over.

## Not modelled

The vendored scripts (jQuery and its mobile part) beyond what the page's own
scripts make of `$.ajax`. Formatting of logs, times and responses, the drawing of pixels, JSON and
configuration text, wrappers of system calls: they keep no state that
interleaves. Memory order below the level of single reads and writes: fields
that are read without a lock are read atomically and in program order.

## Plan

In this order, each with its proofs where there is an inductive invariant. Twelve
runs are in use, so that each of these first has to take the place of a run that
shows less, or to share a module's run as a second subject:

1. `ThreadPool`, which will implement a bounded task queue: producers, workers
   and `stop()`; with the bounded blocking queue as the buffer it is built on.
2. `LoopThread`: `EventLoopThread` and its pool on top of `EventLoop`'s states; the
   start handshake and the lost `quit`.
3. `Poller`: the channel table against the kernel's set, with removal while events
   are handled; `Acceptor` on top of it.
4. `Connector` and `TcpClient`: attempts, retries, restart and destruction, with the
   timer queue as a set of pending calls. The streamer opens no connections.
5. `HttpContext` and several requests on one connection: pieces of a request, two
   requests in one segment, a second stream on a connection that has one.
6. `Buffer` and `RingBuffer` as sequential components against a plain queue, in one
   run whose initial state chooses the subject.
7. Proofs of what the remaining liveness properties rest on, as `SomebodyGoesOn` and
   `SignalKept` are for two of them: that a readable timerfd or a functor is there
   while timers are due, that a POST without an answer is on a connection, that a
   page that shows nothing has something pending.
