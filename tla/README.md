# CloudPhoneProject in TLA+

CloudPhoneProject shows the screen of an Android phone on a desktop or in a web
page and sends it the mouse and the keyboard. It is a fork of scrcpy 1.12.1
(`scrcpy/`), to which it adds a relay written in Java on Netty (`ScrcpyServer/`)
and a web page (`scrcpy-web/`). This directory holds a TLA+ model of its
concurrent parts, the TLC configurations that check it, and TLAPS proofs.

    tlc -workers 2 -config Controller.cfg Controller.tla     # one run
    tlapm ControllerProofs.tla                               # one proof module

## 1. The system

### Components, state, operations

| Component | Source | State | Operations |
|---|---|---|---|
| Video buffer | `app/src/video_buffer.c`, `decoder.c`, `screen.c` (update) | two AVFrames and which is which, `rendering_frame_consumed`, `interrupted`, the SDL event queue | decode, offer (wait or replace), push NEW_FRAME, consume, interrupt |
| Controller | `controller.c`, `util/cbuf.h`, `util/net.c` | ring of 64 messages, `stopped`, the thread | push, take, send, stop, join, destroy |
| Receiver | `receiver.c`, `device_msg.c` | receive buffer and `head` | receive, parse, set the clipboard |
| Stream and recorder | `stream.c`, `recorder.c`, `util/queue.h` | pending config packet, recorder queue, `previous`, `stopped`, `failed`, the file | receive, concatenate, decode, queue, write, stop, join, close |
| Session | `scrcpy.c`, `server.c`, `device.c` | sockets, adb tunnel, process, settings commands, what was initialised | start, connect, event loop, the `goto end` ladder |
| File handler | `file_handler.c` | the same ring, `current_process` | request, run adb, stop, join, destroy |
| FPS counter | `fps_counter.c` | `started`, `interrupted`, ticks | start, stop, count, interrupt, join |
| Window | `screen.c` | frame size, windowed size and its backup, fullscreen, maximized | new frame size, resize, switch, window events |
| Input | `input_manager.c`, `event_converter.c` | none of its own: what is held, and what the phone believes to be held | keys, text, mouse, fingers, shortcuts |
| Relay | `ScrcpyServer/.../Server.java`, `WebServerHandler`, `AppServerHandler`, `ClientHandler`, `SocketChannelData`, `AdbExecTools` | two maps, two channel pairs, adb mode | upgrade, register, prepare the phone, forward |
| Framing | `MessageDecoder.java` (relay), `ControlMessageReader.java`, `DesktopConnection.java` (phone) | cumulated bytes, reader buffer | find frames, wait for the rest |
| Screen of the phone | `Device.java`, `ScreenInfo.java`, `ScreenEncoder.java` | `screenInfo`, listener, `rotationChanged`, configuration of the encoder | rotate, configure, dequeue, send |
| Touch | `Controller.java`, `PointersState.java` (phone), `AppYuvCanvas.js` | pointers, `isMouseDown` | mouse handlers, inject |
| Device messages | `DeviceMessageSender.java`, `DeviceMessageWriter.java` | one text | push, send (reached by nothing in this fork) |
| Web page | `AppYuvCanvas.js` (`App.js` is not rendered) | two WebSockets, size | draw, send |
| Third-party, generated | `src/main/jni` (librtmp), protobuf output, Broadway, Android headers | - | - |

### Interactions

    web page --WebSocket--> relay --adb reverse/forward, TCP--> phone server
    desktop client ------------------ adb tunnel, TCP ---------> phone server

* In the desktop client the stream thread feeds the decoder (and the recorder
  thread), which hands frames to the main thread through the video buffer and an
  SDL event; the main thread fills the controller's ring, the controller thread
  empties it into the control socket; the receiver thread reads the same socket.
  Shutdown sets flags, shuts the sockets down, then joins every thread.
* In the relay each Netty channel has an event loop; the maps of `Server` are
  shared between them and the threads that connect the phone.
* On the phone a binder thread delivers rotations, the main thread encodes, the
  controller thread injects touches; they share `Device` (synchronized) and one
  atomic flag.

### What is hard, and what makes each part correct

* Video buffer: the decoder writes a frame with no lock held. No frame being
  shown may change; one event for each waiting frame, whatever is replaced.
* Controller: a signal only when the ring was empty; wrap-around and overflow;
  the text of a message freed exactly once; shutdown from any state.
* Receiver and framing: TCP cuts anywhere. Nothing lost, nothing twice.
* Recorder: one packet late, any step may fail, stop while packets are queued.
  The file must be a gapless beginning of the stream.
* Relay: sockets register in any order, on several threads that share unlocked
  maps. Control and video must be told apart on both sides, the phone started
  once, and no association of the two sides stay lost.
* Session: twenty steps, each of which may fail, and one ladder for all of them.
  Everything is released once, no thread uses what is gone, and it returns.
* File handler: the process that one thread waits for is killed and waited for by
  another. FPS counter: a flag set without the lock its waiter holds.
* Window: the mode, the size and the events that report them are three stories
  of one window, the events come in no promised order, and a frame, a shortcut or
  the user may come between two of them. In the end the program must know the
  window again.
* Input: a press and its release take different paths, and so do a key and the
  text it types. Nothing may stay down.
* Screen: it turns while it is being configured, encoded and touched. No frame
  of an outdated configuration, the encoder catches up, no finger is left down.

## 2. The modules

An action is the code between two points where another thread can be seen: a
critical section is one action, a value read under a lock and used after it is a
local variable and a second action. A blocking wait is a state; a condition
variable moves its waiter and may also wake it for no reason, where the code
tests in a loop. Names are those of the source where TLA+ allows it.

**LatestFrame / VideoBuffer.** `VideoBuffer` has the stream thread (`dec`), the
main thread (`main`), the two AVFrames with the number of the frame each holds,
and the SDL event queue, which the user's events share and which can be full.
The mutex is held by the main thread exactly while `main = "update"`, that is
while the texture is written; everything else under the mutex is one action.
`Decode` writes outside the mutex, as avcodec_receive_frame() does. Whether
expired frames are rendered is chosen in `Init`. `LatestFrame` is what a user of
the buffer may rely on: a mailbox of one frame, newest only, and with
`--render-expired-frames` none skipped.

**BoundedFifo / Controller.** `data`, `head` and `tail` are the macros of
`cbuf.h`. `PushMsg` is controller_push_msg() with the caller's reaction to a
refusal; `TakeMsg`, `ProcessMsg` and `Wait` are run_controller(). `freed` counts
control_msg_destroy() for each message. `PARTIAL_SEND` says whether send() may
take a message in parts. `BoundedFifo` is a bounded queue that its owner destroys
at the end, and the ring implements it.

**Receiver / MCReceiver.** Bytes: a message is a type, a length on two bytes and a text.
`Receive` is one turn of run_receiver(), written as the code is: what is kept is
neither appended to nor taken into account. `fragmented`, chosen at the start,
says whether a message may arrive in pieces.

**Recording.** The stream thread (`str`) from opening to the event it pushes at
the end, and the recorder thread (`rec`). Packets are numbers, `configs` says
which have no PTS, and times are squares so that every duration is different.
`locked` is the mutex left locked by the two early returns of recorder_push();
SDL mutexes are recursive, so the stream thread itself goes on.

**Relay.** A socket is its ephemeral port. The handler of a web socket is two
actions, because only putChannelId() is synchronized. The handler of a device
socket is five: putChannelId(), and for each of the two puts of
associateWebAppAddr() the moment when it takes the table of the HashMap
(`TakeTable`) and the moment when it stores into it (`Store`). A put that found no
table allocates one in place of any other, and one that holds a table replaced
meanwhile (`saw` is "stale") stores for nobody; that is how two first puts lose an
entry. initChannel() puts the channel and then associates, channelActive() of
`ClientHandler` the other way round (`AfterPut`, `AfterAssociate`). Each connection
thread (`thr`) tries adb reverse by itself and falls back to adb forward, so that
device servers of both kinds may be started in one behaviour. A page's control
socket has an odd number and its video socket the next one.

**Wire / MCWire.** Upwards the bytes of the phone's frames, after noise that
holds no beginning of a frame; `DecodeAll` is the loop of Netty's
ByteToMessageDecoder around decode(). Downwards only the lengths matter: what the
reader holds is a number of bytes received minus the end of the last message
taken. In each behaviour one direction has traffic, since they share nothing.

**Geometry / DeviceScreen.** `Geometry` holds the arithmetic of `Device.java` and
`ScreenInfo`: the crop, the intersection, the masks, the scaling, the turning. In
`DeviceScreen` the binder's calls are a queue in order; the main thread's `pc`
walks through `new Device()`, `DesktopConnection.open()`, `streamScreen()` and
`encodeAndDecoder()`. getScreenInfo() is called twice, so `content` and `video`
are read in two actions. `info` is computed once from `config` and turned ever
after, as the code does, so that computing and turning can be compared. The mouse
handlers are those of AppYuvCanvas.js, with the size the page was told once. A
touch is handled in one action: the controller thread shares only
getScreenInfo() with the others.

**FileHandler / FpsCounter / Session.** `Session` is the main thread of the
desktop client from server_start() to the return of scrcpy(): `pc` names the next
step, a step either goes on or jumps to `end`, and from there every rung of the
ladder is an action. It calls the operations of the other two, as scrcpy() does.
A file handler's process has the name of its file, and main holds the mutex over
several steps only in file_handler_stop() (`stopping`). The counter's thread
holds its mutex from the test of the flags to the wait (`tosleep`, `totimed`),
which is what a signal sent without the mutex may fall into. The other threads
are seen as main sees them: running until they end or are told to. `Options`
leaves out combinations that share nothing but the main thread.

**Window / Input / MCInput.** `Window` separates what the window manager has
(`win`, `wm`, `normal`), what it has told (`wevents`) and what the program keeps
(`windowed`, `backup`, `maximized`). `Input` represents a message by its effect on
the phone: the keycodes and the pointers that are down there, and how often a
character arrived. The window changes at once, and what SDL tells of it waits in
`wevents`: a new mode and the new size are two events in either order, SDL keeps
one SIZE_CHANGED only, and before each of them is handled there may be frames,
shortcuts and further changes, as many as `MaxEvents` lets wait. The window manager
may refuse a size while it holds the window maximized. The assertions of
screen.c:396-397 end the program (`aborted`). The backup size is kept after MAXIMIZED,
as in a build without DEBUG. A behaviour is about the keyboard, the pointers or the window
(`user`), which have no state in common, except that a double click fits the
window.

## 3. The runs

| Run | Question | Bounds | States |
|---|---|---|---|
| `video` | one event per frame, no torn frame, mailbox, every frame shown or replaced, end of stream, in both modes and with a queue that fills up | 5 frames, 4 user events, queue of 4 | 27 667 |
| `controller` | FIFO, one owner, no lost wakeup, every message taken, shutdown ends | ring of 3, 8 messages, partial sends | 4 467 |
| `receiver` | whole messages reach the clipboard in order, indices in bounds | texts of 0..3 bytes, 3 messages | 64 240 |
| `receiver_partial` | (violation) a message cut in two is lost | same | |
| `recording` | decoder gets all, file is a prefix, durations, completeness, the stream thread ends | 5 packets, any of them config | 5 138 |
| `relay` | channels right, nothing misdelivered, no association lost, one listening device server, a connection tried | 1 page, 3 device sockets, reverse or forward for each thread | 648 064 |
| `relay_two_pages` | (violation) the control channel has the larger port | 2 pages, 3 device sockets | |
| `wire` | framing both ways, cut anywhere | 2 frames up, 3 down, buffer of 10 | 15 500 |
| `device_screen` | rotation, encoder, where touches land, no stuck pointer | 2 displays, 2 rotations, 3 mouse events | 378 192 |
| `session` | everything released, nothing used after, nothing started late, it returns | 2 files, queue of 1, 2 attempts, counter switched twice | 283 976 |
| `input` | the program knows its window and the video fits it, each character once, no key or pointer left down | 2 keys or fingers at a time, 2 frame sizes, a change of the window while fewer than 3 events wait | 1 015 742 |
| `desktop_readonly` | (violation) a finger sends although `--no-control` | same | |

Why these bounds are enough: the ring wraps twice and fills; three frames are
enough for one to be shown, one to wait and one to replace it, and two more for
the next rounds; three messages allow one whole, one cut, and one behind it;
five packets allow config packets first, in a row, and in the middle; two
rotations allow there-and-back while the encoder is between its two reads, and
three mouse events a whole gesture. Of the two displays one is scaled and one is
cropped to a square, whose video looks the same when it turns. In a session one
file is handled, one waits and a third request would not be new; two attempts are
a first and a last one; switching the counter on and off covers both of its
waits. Two keys allow a key under a changed modifier and another beside it; the
window sizes are a few pixels, on either side of the shape of the video, as
rounding matters most there; three waiting events are all three kinds, in any
order. Three device sockets are the two of one device and one that is dead or of
a second. Four user events fill the queue of SDL, so that a push of a frame fails.

Each property of the passing runs is known to fail for at least one plausible
mistake in the modelled code: those variants (`IsFull_OffByOne`,
`Check_Skipped`, `Joined_NotReceiver`, `WithRotation_SizeOnly`, ...) stand before
the definitions they alter, are used by nothing, and are listed in
`PROJECT.json`.

### Fairness

Threads are scheduled: weak fairness of each thread's own steps, never of the
outside world, with these exceptions. `VideoBuffer`: once the main thread has
stopped, the socket is shut down, so the end of the stream comes (scrcpy.c:445).
`Relay`: event loops serve the requests they have. `Wire`: bytes sent arrive or
the socket is closed. `DeviceScreen`: the codec yields a frame again and again,
as the display is drawn anew when it turns and
KEY_REPEAT_PREVIOUS_FRAME_AFTER repeats what stands still, and the binder
delivers its calls. `Session`: a process that was killed ends, a command that
only changes a setting ends, a thread ends whose socket is closed and that was
told to stop (the runs `video`, `controller` and `recording` show as much of the
real ones), and main gets the counter's mutex, which its thread leaves for up to
a second at a time (the one strong fairness). An installation, the phone's
connections and the user may take for ever, and so do closing a socket,
quitting, rotating and using the mouse elsewhere.

## 4. What is proved

TLAPS checks these for every value of the constants: any number of frames,
packets, messages, pages, files or rotations, any capacity, any texts, payloads
and lengths. Every safety property of the passing runs is proved, with one
restriction (Relay, below). The theorems are listed in `PROJECT.json`; this is the
argument of each.

Assumptions are the named ASSUME of each module and nothing else. Most say that
bounds are natural numbers and that a ring has at least one place. The others:
`ConfigAssumption` (no side of the video or of the crop is 0, max_size is masked),
`RcvAssumption` (a text is a C string, without a zero byte, whose length fits the
buffer and the two bytes of the header), `WireAssumption` (a payload is shorter
than 16 MB, so that three bytes hold its length; the noise before a frame holds
no 0x6688; a message of a page fits the reader's buffer of 1024 bytes).

Modules that share lemmas share a proof module: `ControllerProofs` has the ring,
`DeviceScreenProofs` the geometry, `InputProofs` the window, `StreamProofs` the two
streams that the desktop client receives, `RelayProofs` the relay and its framing.

**VideoBufferProofs.** The inductive invariant is `TypeOK`, `FramesInv` (the two
pointers differ, the frame offered is the successor of the last, `consumed`
compares taken with offered), `OneEventPerFrame` and `StoppedIsLast`.
`OneEventPerFrame` alone is not inductive: that a NEW_FRAME is pushed behind
no other one needs `consumed` to have been true at the swap. From it follow
the assertion of video_buffer.c:94, the stability of the frame being shown,
the order of the end of the stream, and the refinement of `LatestFrame`.

**ControllerProofs.**
* `RingInv` says which slots are used, by cases instead of modulo, and that they
  hold messages; it is what makes `TypeOK` inductive, as a take of an unused slot
  would give no message. `NoLostWakeup` is inductive with the signal of a push
  into an empty ring. `WholeSendsEndForAReason`: the partial send is the only
  cause of the thread's ending that nobody asked for.
* The contents of the ring are a segment without modulo (`Segment`); a push
  appends to it and a take removes its first item, whichever side wraps around.
  This gives the refinement of `BoundedFifo` for any capacity. `OneOwner` needs
  that no two owners have the same message before the last copy is freed:
  `OwnInv` adds that a message which has not been made yet is nowhere.

**DeviceScreenProofs.**
* What computeVideoSize(), the crop and the turning return, and
  `TurnedIsComputed`: to turn what was computed is to compute anew, which is true
  of a square video only because max_size is masked (Server.java:88).
  `ScaledCovers`: the pixels of the page are spread over the whole content.
* `FlagInv`: from the first read on, the listener is set, and what was read is of
  now or `rotationChanged` is set. `StaleIsFlagged` speaks only of the running
  encoder; the strengthening covers the moment between the two reads.
  `FrameOfCurrentScreen` follows at the second test of the flag. `PointerInv`: with
  the button up, the last event under way is an UP. `InfoInv`: `info` was computed
  for some rotation, and the last call under way brings the one of now; with the
  lemmas on sizes it gives `TouchesLand`, for every display, crop and maximal size
  whose video is not empty.

**SessionProofs.**
* `NoUseAfterDestroy` needs the order of the ladder (`OrderInv`: what is destroyed
  has been joined before, at every stage of it), and `NothingStartedAfterStop`
  follows, step by step, from the test of the flag in the critical section that
  takes a request.
* `ReleasedAll` speaks of the return only. It has one invariant for each thing to
  release, saying what is open, started or allocated at each `pc`: `SockInv` (the
  sockets), `ServerInv` (tunnel and process: server_stop() removes a tunnel only
  if `enabled`), `SerialInv`, `TouchesInv` (the command that turns the touches off
  starts after the other has ended), `AliveInv` (the components) and `FilesInv`
  (an accepted file is queued, or with the thread, or freed once). None
  needs another, except that what was never initialised has nothing to release,
  which is why one ladder can serve every failure.

**InputProofs.**
* `TypedInv` counts the key events of a press until its text event comes, so that
  exactly one of the two handlers is responsible for a character. `KeysInv`: what
  is down on the phone is sent by a key that is held, unless a modifier changed
  under it (`dirty`). `PointersHeld` becomes inductive with "without control the
  mouse is never down", as its release would send nothing.
* `WindowAgrees` first needs arithmetic: whatever get_optimal_size() is given,
  its result fits the display and leaves less than a pixel beside the video. Its
  invariant, `WindowInv`, has three parts. `ModeInv`: the last event about the mode
  among those that wait (`Tells`) is right, and if none waits (`TellsNone`) the flag
  is. `SizeInv`: unless some event waits, a normal window has the size the program
  believes. Both hold for any number of waiting events, in any
  order, which rests on what appending, removing the old SIZE_CHANGED and taking
  the first event do to a sequence of any length. The third part is only about
  `fitted`: which of the three sizes the fitting one is meanwhile, the window's,
  `windowed`, or `backup` while a MAXIMIZED is still to come.

**SequenceLemmas.** What the next two modules say of sequences of any length rests
on it. Induction is stated over a *set* of numbers (`NatInduct`, from the
well-foundedness of `<`), and the step of a recursion is a *function*
(`RecursionExists`, `BackwardExists`): no operator is a parameter. From these: the
function that a `CHOOSE` picks is the only one (`Alike`, `BackwardAlike`), what
`FlattenSeq` is and how it grows (`FlattenIs`, `FlattenAppend`, `FlattenTail`), and at
which places of a flattened sequence each of its parts lies (`CutBy`, `FlattenCuts`,
`CutPart`), however the result is then cut (`PartOfPart`, `PartsJoin`).

**StreamProofs.**
* *Recording.* Packets are pushed in order, so that what was pushed is 1..n
  (`StreamInv`), and the queue is the end of it (`QueueInv`). `DecoderGetsAll` is then
  inductive: what was decoded, flattened, and what is pending are all packets, once.
  The three properties of the file follow from `FileInv`: the file has the frames
  of the first k packets, where k is two less than the packets taken while one is
  being written, or one less, as the recorder is a packet behind (`Wrote`), and the
  duration of its last frame is right for whichever packet comes next
  (`LastRight`): without that, `Durations` is not inductive, because it says nothing
  of the last frame until another is behind it.
* *Receiver.* `RcvTypeOK` holds for every splitting, cut messages included: nothing
  that the parser answers takes `head` out of the buffer. `WholeMessagesProcessed`
  needs to know where in the stream the receiver is (`AtMessage`: the bytes to come
  begin at the n-th message and the clipboard has the first n texts), that `head` is
  then 0, and that process_msgs() takes exactly the messages of any part of the
  stream that begins and ends with one (`ProcessPart`), which is an induction from the
  last message to the first, as the recursion runs over the bytes.

**RelayProofs.**
* *Relay.* `OneDeviceServer`: the port is bound by one thread. By `StartedInv`
  nothing of the phone is started before both sockets of a page are registered.
  `LinkedWhenQuiet` is not inductive, as entries of `addrMap` do get lost while
  handlers are inside it. `MapInv` says why they come back: a put that finds no
  table is one of the web address, so a table in use always has that one, and it
  has the device's or some handler has still to put it there (`Completes`).
  `AppInv` adds that a registered device socket has put its channel. `ChannelsRight` and
  `NothingMisdelivered` are true of one page only, as the finding about
  `SmallerPortIsControl` shows. So their web half is proved until a second page is
  opened (`FirstPageChannelsRight`, `FirstPageNothingMisdelivered`), whatever the bound
  on pages, and their device half where the relay listens and for any number of
  pages (`DeviceChannelsRight`): in whichever order ports 1 and 2 are put, the
  smaller one ends up as control (`RightSoFar`).
* *Wire, upwards.* `UpInvariant`: there are places in the stream of the phone
  between which its frames lie (`Places`), and three numbers: n frames are
  forwarded, the bytes before p are done with, those from q on have not arrived
  (`Holds`). The decoder stands in the noise of the next frame or at its first byte
  (`Between`), never beyond, and the next frame has not arrived whole (`Ahead`).
  `ForwardsPrefix` alone is not inductive: a decoder that stood inside a payload
  could find a frame in it. That it never does is `DecodesTo`, by induction from
  the last byte to the first; that noise followed by a frame hides no earlier
  beginning, not even across their border, is where the assumption on the noise
  is used (`SkipsTo`).
* *Wire, downwards.* `DownInvariant`: the reader is behind what it received by no
  more than its buffer, and where the received bytes end inside a header, `cut` is
  set. So only a cut header kills it, and the buffer is never full of an incomplete
  message. `WireTypeOK` follows from both.

Only model-checked: the liveness properties, as liveness under fairness and ENABLED
are beyond TLAPS (`EveryFrameOvertaken`, `StreamThreadEnds`, `EveryMsgTaken`,
`ShutdownEnds`, `StreamEnds`, `ConnectionIsTried`, `AllHandled`, `EncoderFollows`,
`EndIsReached`). With `adb forward` the device half of `ChannelsRight` claims nothing,
as a device that starts late leaves a dead socket in front.

## 5. Findings

1. `receiver.c:68`: a device message cut by TCP is lost and the stream
   desynchronised (`ReceivedIsProcessed`).
2. `SocketChannelData.java:27`: with a second page the control channel is not the
   one with the smaller port (`SmallerPortIsControl`).
3. `scrcpy.c:184`: with `--no-control` a finger still pushes a message, to a
   controller that was never initialised (`ReadOnly`).

Seen while modelling, and part of the models rather than runs of their own:

* `recorder.c:364,370`: recorder_push() returns with the mutex locked; after a
  failed allocation the recorder thread is joined for ever. `StreamEnds` is about
  the behaviours without it.
* `util/net.c:111`: net_send_all() returns the size of the last part only, and a
  message sent in two parts ends the controller thread. The theorem
  `WholeSendsEndForAReason` shows that nothing else does.
* The desktop client accepts the video socket first and, in forward mode, reads a
  byte (server.c:181, 282); the phone of this fork takes the first socket for
  control and writes no byte (DesktopConnection.java:49-51). Main then waits for
  ever in `ReadInfo` or `ReadByte`, as it does in `AcceptVideo` when the phone's
  server dies: neither has a timeout.
* `scrcpy.c:196`: a file that the handler refuses is freed by nobody, which
  `ReleasedAll` leaves out.
* A rotation between Device.java:30 and :31 is missed until the next (`missed`).
* The page ignores rotations, so that its touches are refused (Device.java:126)
  and a pointer may stay down (`ignored`).
* Device.java:94: `(minorExact + 4) & ~15` neither rounds to the nearest multiple
  of 16 nor keeps a narrow side from being 0 (`ConfigAssumption`).
* `screen.c:396-399` relies on a SIZE_CHANGED handled in the normal mode right
  before each MAXIMIZED, which SDL does not promise. If MAXIMIZED is told first, or
  the program goes fullscreen before it handles the SIZE_CHANGED, an assertion ends
  the program the first time (assert.h comes before config.h, so NDEBUG has no
  effect here), and later an older size is restored; a frame of a new size between
  the two is reverted with the size of the maximized window. `WindowAgrees` claims
  the mode and the size in all these cases, where the program goes on, but the fit
  of the video only without them (`fitted`).
* `Server.java:197-200`: while two device sockets are being registered, an entry of
  `addrMap` may be missing or lost for a moment, and what is sent then is dropped.
  `LinkedWhenQuiet` says that it does not stay so. Two keys that share a bucket, and
  one thread seeing late what another wrote, are not modelled.
* `Server.java:220-223`: a picture in a format other than the two known ones is
  dropped; the byte is the phone's colour format, cast. Such a phone shows nothing.
* `SocketChannelData.java`: as long as one socket of the device is registered, it
  stands for its control socket, so that input of the page may go to the video
  socket.
* `AdbExecTools`: a command whose failure prints no "error" counts as success. A
  connection thread may fail at any step and nobody tries again:
  `ConnectionIsTried` says only that one is started.
* `server.c:209-212`: a socket whose close() fails is shut down and left open;
  `ReleasedAll` asks that each was shut down. When cmd_terminate() fails (server.c:333) main
  waits all the same, for a server whose sockets are shut; `EndIsReached` assumes that
  it ends.
* A modifier that changes while a key is held leaves the key down on the phone
  (`dirty`).
* The phone's sender of device messages waits for a message that nobody sends,
  so that its process does not end when the connection does.

## 6. What is not modelled

Formatting and parsing of options, SDL rendering, libavformat containers,
protobuf payloads, the tables of key codes, adb itself, Android's own services,
reflection wrappers, JNI glue and generated code: no concurrency of this program,
or not its code. yuv420spToYuv420P() regroups the bytes of one picture and has no
state. The ticks of the FPS counter are left out; its timed wait may end at any
moment. In the relay, channels are never removed by the code, so a closed page is
a channel that stays. ScreenEncoderAsyncDecoder, SocketDataHandler,
handleEvent(), ControlMessageReader.next() and the sender of device messages are
reached by nothing.

The share of lines that are modelled stays small whatever is added: of some
46 000 lines counted as implementation, 37 800 are the vendored librtmp
(`src/main/jni`), and 1 600 more are Android's key tables.

## 7. Plan

Done: VideoBuffer, Controller, Receiver, Recording, Relay, Wire, Geometry and
DeviceScreen, Session with FileHandler and FpsCounter, Window and Input; the
proofs of section 4. Next:

1. The safety half of what the liveness properties promise: where a thread is not
   done, some action can move it, stated without ENABLED as a disjunction of guards
   (no deadlock of the session, the recorder and the controller for any constants).
2. `ChannelsRight` for several pages, under what would make it true (both sockets
   of a page registered before the next page is opened).
