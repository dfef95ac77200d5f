---------------------------- MODULE DeviceScreen ----------------------------
(***************************************************************************)
(* The screen of the device while it turns: the rotation watcher of        *)
(* Device.java (a binder thread), the encoder of ScreenEncoder.java (the   *)
(* main thread), the touch handler of Controller.java (its own thread) and *)
(* the mouse of the web page (AppYuvCanvas.js).  Sizes and coordinates are *)
(* in Geometry.                                                            *)
(***************************************************************************)
EXTENDS Geometry, Sequences

CONSTANTS Configs,      \* displays, with the options crop and max_size
          MaxRotations, \* bound: how often the screen turns
          MaxMouse      \* bound: mouse events of the page

ASSUME DSAssumption == MaxRotations \in Nat /\ MaxMouse \in Nat

(* The option max_size is masked (Server.java:88), the crop leaves something *)
(* of the display, and no side of the video is 0.                            *)
Config == [display : Size, crop : Rect, max_size : Nat]
ASSUME ConfigAssumption ==
  /\ Configs \subseteq Config
  /\ \A c \in Configs : LET i == InfoOf(c, 0) IN
       /\ c.max_size = Masked(c.max_size)
       /\ Width(i.rect) > 0 /\ Height(i.rect) > 0
       /\ i.size.w > 0 /\ i.size.h > 0

VARIABLES
  config,    \* what Device was made with
  rotation,  \* rotation of the display, in quarter turns
  watched,   \* the watcher is registered with the window manager
  calls,     \* onRotationChanged() calls that the binder has not delivered
  missed,    \* history: the display turned before it was watched, and not since
  info,      \* Device.screenInfo
  listening, \* Device.rotationListener is the encoder
  changed,   \* ScreenEncoder.rotationChanged
  pc,        \* where the main thread is
  content,   \* contentRect, and
  video,     \*   the size of videoRect, the encoder runs with
  eof,       \* the codec announced the end of the stream
  page,      \* the size the page was told
  down,      \* isMouseDown of the page
  wire,      \* touch events on their way to the device
  pointer,   \* PointersState.pointers holds the pointer of the page
  ignored,   \* history: an event was ignored since the last UP taken
  turns, clicks \* how often the screen turned, the mouse was used

device  == <<config, rotation, watched, calls, missed, info, turns>>
encoder == <<pc, content, video, eof>>
touch   == <<down, wire, pointer, ignored, clicks>>
vars == <<device, listening, changed, encoder, page, touch>>

Rotations == 0..3
NoRect == RectOf(0, 0, 0, 0)
NoSize == [w |-> 0, h |-> 0]
NoInfo == [rect |-> NoRect, size |-> NoSize, rotated |-> FALSE]
Running == {"test", "dequeue", "check", "send"}   \* encodeAndDecoder()
Connected == Running \cup {"listen", "content", "video"}

Init == /\ config \in Configs /\ rotation \in Rotations
        /\ watched = FALSE /\ calls = <<>> /\ missed = FALSE
        /\ info = NoInfo /\ listening = FALSE /\ changed = FALSE
        /\ pc = "compute"
        /\ content = NoRect /\ video = NoSize /\ eof = FALSE /\ page = NoSize
        /\ down = FALSE /\ wire = <<>> /\ pointer = FALSE /\ ignored = FALSE
        /\ turns = 0 /\ clicks = 0

-----------------------------------------------------------------------------
(* The display turns; whoever watches it will be called.                   *)
Rotate(r) == /\ turns < MaxRotations /\ r # rotation
             /\ rotation' = r
             /\ turns' = turns + 1
             /\ calls' = IF watched THEN Append(calls, r) ELSE calls
             /\ UNCHANGED <<config, watched, missed, info, listening, changed, encoder, page,
                            touch>>

(* The watcher: the information is replaced and the listener told in one   *)
(* synchronized block.                                                     *)
OnRotationChanged == /\ calls # <<>>
                     /\ calls' = Tail(calls)
                     /\ info' = WithRotation(info, Head(calls))
                     /\ changed' = (changed \/ listening)
                     /\ missed' = FALSE
                     /\ UNCHANGED <<config, rotation, watched, turns, listening, encoder, page,
                                     touch>>

-----------------------------------------------------------------------------
(* Startup: new Device(), DesktopConnection.open(), setRotationListener(). *)
ComputeScreenInfo == /\ pc = "compute"
                     /\ info' = InfoOf(config, rotation)
                     /\ pc' = "register"
                     /\ UNCHANGED <<config, rotation, watched, calls, missed, turns,
                                    listening, changed, content, video, eof, page, touch>>

RegisterRotationWatcher == /\ pc = "register"
                           /\ watched' = TRUE
                           /\ missed' = (info.rotated # IsRotated(rotation))
                           /\ pc' = "open"
                           /\ UNCHANGED <<config, rotation, calls, info, turns, listening,
                                          changed, content, video, eof, page, touch>>

(* The page is told the size once.                                         *)
Open == /\ pc = "open"
        /\ page' = info.size
        /\ pc' = "listen"
        /\ UNCHANGED <<device, listening, changed, content, video, eof, touch>>

SetRotationListener == /\ pc = "listen"
                       /\ listening' = TRUE
                       /\ pc' = "content"
                       /\ UNCHANGED <<device, changed, content, video, eof, page, touch>>

-----------------------------------------------------------------------------
(* streamScreen(): getScreenInfo() is called twice, each time locked.      *)
ReadContent == /\ pc = "content"
               /\ content' = info.rect
               /\ pc' = "video"
               /\ UNCHANGED <<device, listening, changed, video, eof, page, touch>>

ReadVideo_Reset == /\ pc = "video"
                   /\ video' = info.size
                   /\ eof' = FALSE /\ changed' = FALSE
                   /\ pc' = "test"
                   /\ UNCHANGED <<device, listening, content, page, touch>>
ReadVideo == /\ pc = "video"
             /\ video' = info.size
             /\ eof' = FALSE
             /\ pc' = "test"
             /\ UNCHANGED <<device, listening, changed, content, page, touch>>

(* encodeAndDecoder() returns !eof, and the encoder starts again or ends.  *)
Leave == /\ pc' = IF eof THEN "ended" ELSE "content"
         /\ listening' = ~eof

(* while (!consumeRotationChange() && !eof)                                *)
Test_Swallows == /\ pc = "test"
                 /\ changed' = FALSE
                 /\ IF eof THEN Leave ELSE pc' = "dequeue" /\ UNCHANGED listening
                 /\ UNCHANGED <<device, content, video, eof, page, touch>>
Test == /\ pc = "test"
        /\ changed' = FALSE
        /\ IF changed \/ eof THEN Leave ELSE pc' = "dequeue" /\ UNCHANGED listening
        /\ UNCHANGED <<device, content, video, eof, page, touch>>

(* dequeueOutputBuffer(-1) returns when the codec has something.           *)
Dequeue == /\ pc = "dequeue"
           /\ eof' \in BOOLEAN
           /\ pc' = "check"
           /\ UNCHANGED <<device, listening, changed, content, video, page, touch>>

(* "must restart encoding with new size"                                   *)
Check_Skipped == /\ pc = "check"
                 /\ pc' = "send"
                 /\ UNCHANGED <<device, listening, changed, content, video, eof, page, touch>>
Check == /\ pc = "check"
         /\ changed' = FALSE
         /\ IF changed THEN Leave ELSE pc' = "send" /\ UNCHANGED listening
         /\ UNCHANGED <<device, content, video, eof, page, touch>>

(* The frame is decoded and written.                                       *)
Send == /\ pc = "send"
        /\ pc' = "test"
        /\ UNCHANGED <<device, listening, changed, content, video, eof, page, touch>>

(* The connection was closed: writing throws, the listener is removed.     *)
SendFails == /\ pc = "send"
             /\ pc' = "ended"
             /\ listening' = FALSE
             /\ UNCHANGED <<device, changed, content, video, eof, page, touch>>
-----------------------------------------------------------------------------
(* The page sends its events with the size it was told.                    *)
Uses == /\ pc \in Connected /\ clicks < MaxMouse
        /\ clicks' = clicks + 1
        /\ UNCHANGED <<device, listening, changed, encoder, page, pointer, ignored>>

(* The left button touches, the right one goes back, the wheel does nothing. *)
OnMouseDown == /\ Uses
               /\ down' = TRUE
               /\ wire' \in {wire, Append(wire, "down"), Append(wire, "back")}

OnMouseMove == /\ Uses /\ down
               /\ wire' = Append(wire, "move")
               /\ UNCHANGED down

OnMouseUp == /\ Uses
             /\ down' = FALSE
             /\ wire' = Append(wire, "up")

OnMouseOut_Leave == Uses /\ down /\ down' = FALSE /\ UNCHANGED wire
OnMouseOut == /\ Uses /\ down
              /\ down' = FALSE
              /\ wire' = Append(wire, "up")

(* newGetPhysicalPoint() refuses a size that is not the one of now.        *)
WrongSize == page # info.size

(* PointersState: a touch adds the pointer if it is new, and update()      *)
(* removes it if it is up.                                                 *)
PointerAfter(action) == action # "up"

(* newHandleEvent(); pressBackOrTurnScreenOn() keeps nothing.              *)
NewHandleEvent ==
  /\ pc \in Connected /\ wire # <<>>
  /\ wire' = Tail(wire)
  /\ CASE Head(wire) = "back" -> UNCHANGED <<pointer, ignored>>
       [] Head(wire) # "back" /\ WrongSize -> ignored' = TRUE /\ UNCHANGED pointer
       [] OTHER -> /\ pointer' = PointerAfter(Head(wire))
                   /\ ignored' = (ignored /\ Head(wire) # "up")
  /\ UNCHANGED <<device, listening, changed, encoder, page, down, clicks>>
-----------------------------------------------------------------------------
Main == \/ ComputeScreenInfo \/ RegisterRotationWatcher \/ Open
        \/ SetRotationListener \/ ReadContent \/ ReadVideo
        \/ Test \/ Dequeue \/ Check \/ Send
Mouse == OnMouseDown \/ OnMouseMove \/ OnMouseUp \/ OnMouseOut
Terminated == pc = "ended" /\ UNCHANGED vars

Next == \/ Main \/ SendFails \/ OnRotationChanged \/ Mouse \/ NewHandleEvent
        \/ \E r \in Rotations : Rotate(r)
        \/ Terminated

Spec == Init /\ [][Next]_vars

(* The main thread is scheduled and the binder delivers its calls.  The    *)
(* codec gives a frame again and again: the display is drawn anew when it  *)
(* turns, and KEY_REPEAT_PREVIOUS_FRAME_AFTER repeats what stands still.   *)
Fairness == WF_vars(Main) /\ WF_vars(OnRotationChanged)
FairSpec == Spec /\ Fairness
-----------------------------------------------------------------------------
(* Types.                                                                  *)
TypeOK == /\ rotation \in Rotations /\ calls \in Seq(Rotations)
          /\ config \in Configs /\ info \in ScreenInfo /\ content \in Rect
          /\ video \in Size /\ page \in Size
          /\ watched \in BOOLEAN /\ missed \in BOOLEAN /\ listening \in BOOLEAN
          /\ changed \in BOOLEAN /\ eof \in BOOLEAN /\ down \in BOOLEAN
          /\ pointer \in BOOLEAN /\ ignored \in BOOLEAN
          /\ pc \in Connected \cup {"compute", "register", "open", "ended"}
          /\ wire \in Seq({"down", "move", "up", "back"})
          /\ turns \in 0..MaxRotations /\ clicks \in 0..MaxMouse

Now == InfoOf(config, rotation)

(* While the encoder runs, a size of it that is not the one of now, the    *)
(* two read apart included, has rotationChanged set: it will start again.  *)
StaleIsFlagged == pc \in Running /\ (content # info.rect \/ video # info.size) => changed

(* A frame is written only when the encoder that made it runs with the     *)
(* content and the size of now (ScreenEncoder.java:104-107).               *)
FrameOfCurrentScreen ==
  [][pc # "send" /\ pc' = "send" => content = info.rect /\ video = info.size]_vars

(* Once the screen stops turning, the encoder comes to run, for good, with *)
(* what computeScreenInfo() would compute now, unless the connection or    *)
(* the stream ended, or the screen turned between the reading of the       *)
(* rotation and the registration of the watcher (Device.java:30-31) and    *)
(* never again.                                                            *)
EncoderFollows ==
  <>[](\/ pc = "ended" \/ missed
       \/ pc \in Running /\ content = Now.rect /\ video = Now.size)

(* With the button released and every event handled, the device holds no   *)
(* pointer, unless it ignored an event for its size.                       *)
NoStuckPointer == ~down /\ wire = <<>> /\ ~ignored => ~pointer

(* A touch that is taken lands on the content as the display is now, where  *)
(* the video shows the pixel the page's mouse was on: the first pixel on    *)
(* the content's first, the last one less than a pixel of the video from    *)
(* its end; unless the device does not know of a rotation yet.              *)
Lands(from, to, first, last, pixels) ==
  first = from /\ from <= last /\ last < to /\ (to - last) * pixels < to - from + pixels

TouchesLand ==
  pc \in Connected /\ ~WrongSize /\ calls = <<>> /\ ~missed =>
    /\ Lands(Now.rect.left, Now.rect.right, PhysicalX(info, 0), PhysicalX(info, page.w - 1), page.w)
    /\ Lands(Now.rect.top, Now.rect.bottom, PhysicalY(info, 0), PhysicalY(info, page.h - 1), page.h)
=============================================================================
