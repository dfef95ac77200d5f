---------------------------- MODULE VideoBuffer ----------------------------
(***************************************************************************)
(* The hand-over of decoded frames from the stream thread to the main      *)
(* thread: video_buffer.c, with its two users, decoder.c (stream thread)   *)
(* and screen.c driven by the event loop of scrcpy.c (main thread), and    *)
(* the SDL event queue between them.                                       *)
(*                                                                         *)
(* The content of an AVFrame is the number of the frame it holds, in       *)
(* decoding order.  One action is one step between two points where        *)
(* another thread can be seen; the mutex is held by the main thread        *)
(* exactly while main = "update".                                          *)
(***************************************************************************)
EXTENDS Naturals, Sequences

CONSTANTS MaxFrames,       \* bound: frames decoded in a behaviour
          MaxInputs,       \* bound: no user event arrives behind that many events
          EventCap         \* capacity of the SDL event queue

ASSUME VBAssumption == /\ MaxFrames \in Nat
                       /\ MaxInputs \in Nat
                       /\ EventCap \in Nat

VARIABLES
  dec,          \* where the stream thread is
  main,         \* where the main thread is
  content,      \* what each of the two AVFrames holds
  decoding,     \* vb->decoding_frame
  rendering,    \* vb->rendering_frame
  consumed,     \* vb->rendering_frame_consumed
  render_expired_frames, \* vb->render_expired_frames
  interrupted,  \* vb->interrupted
  frame,        \* local variable of screen_update_frame()
  events,       \* the SDL event queue
  lost,         \* history: an SDL_PushEvent() of ours has failed
  taken,        \* history: number of the last frame consumed
  exit          \* why the event loop ended

buf == <<content, decoding, rendering, consumed, render_expired_frames>>
vars == <<dec, main, buf, interrupted, frame, events, lost, taken, exit>>

AVFrames == {"f0", "f1"}
UserEvents == {"INPUT", "QUIT"}
Events == UserEvents \cup {"NEW_FRAME", "STREAM_STOPPED"}

Init == /\ dec = "decode" /\ main = "loop"
        /\ content = [f \in AVFrames |-> 0]
        /\ decoding = "f0" /\ rendering = "f1" /\ frame = "f1"
        /\ consumed = TRUE
        /\ render_expired_frames \in BOOLEAN
        /\ interrupted = FALSE
        /\ events = <<>> /\ lost = FALSE
        /\ taken = 0 /\ exit = "none"

MutexFree_Never == TRUE
MutexFree == main # "update"

(* SDL_PushEvent(): every caller of ours ignores the failure. *)
Push(e) == IF Len(events) < EventCap
           THEN events' = Append(events, e) /\ UNCHANGED lost
           ELSE lost' = TRUE /\ UNCHANGED events
-----------------------------------------------------------------------------
(* The stream thread. *)

(* A packet completes a frame, written in decoding_frame without the lock. *)
Decode == /\ dec = "decode"
          /\ content[rendering] < MaxFrames
          /\ content' = [content EXCEPT ![decoding] = content[rendering] + 1]
          /\ dec' = "offer"
          /\ UNCHANGED <<main, decoding, rendering, consumed, render_expired_frames,
                         interrupted, frame, events, lost, taken, exit>>

(* The socket is closed, or a packet cannot be decoded. *)
EndOfStream == /\ dec = "decode"
               /\ dec' = "notify"
               /\ UNCHANGED <<main, buf, interrupted, frame, events, lost, taken, exit>>

MustWait == render_expired_frames /\ ~consumed /\ ~interrupted

OfferWaits == /\ dec = "offer" /\ MutexFree
              /\ MustWait
              /\ dec' = "waiting"
              /\ UNCHANGED <<main, buf, interrupted, frame, events, lost, taken, exit>>

(* cond_wait() may return without a signal; the loop tests again. *)
SpuriousWakeup == /\ dec = "waiting"
                  /\ dec' = "offer"
                  /\ UNCHANGED <<main, buf, interrupted, frame, events, lost, taken, exit>>

(* An event is pushed only when the previous frame was consumed. *)
AfterOffer_AlwaysPush == "push"
AfterOffer_Inverted == IF consumed THEN "decode" ELSE "push"
AfterOffer == IF consumed THEN "push" ELSE "decode"

Offer == /\ dec = "offer" /\ MutexFree
         /\ ~MustWait
         /\ decoding' = rendering /\ rendering' = decoding
         /\ consumed' = FALSE
         /\ dec' = AfterOffer
         /\ UNCHANGED <<main, content, render_expired_frames, interrupted, frame, events,
                        lost, taken, exit>>

PushNewFrame == /\ dec = "push"
                /\ Push("NEW_FRAME")
                /\ dec' = "decode"
                /\ UNCHANGED <<main, buf, interrupted, frame, taken, exit>>

NotifyStopped == /\ dec = "notify"
                 /\ Push("STREAM_STOPPED")
                 /\ dec' = "done"
                 /\ UNCHANGED <<main, buf, interrupted, frame, taken, exit>>
-----------------------------------------------------------------------------
(* The main thread. *)

HandleNext(e) == main = "loop" /\ events # <<>> /\ Head(events) = e /\ events' = Tail(events)

(* A signal wakes the stream thread if it waits, and is lost otherwise. *)
Signal_Lost == UNCHANGED dec
Signal == dec' = IF dec = "waiting" THEN "offer" ELSE dec

RenderedFrame_Wrong == decoding
RenderedFrame == rendering

(* screen_update_frame(): lock, consume, signal; the lock is kept. *)
HandleNewFrame == /\ HandleNext("NEW_FRAME")
                  /\ main' = "update"
                  /\ consumed' = TRUE
                  /\ frame' = RenderedFrame
                  /\ taken' = content[RenderedFrame]
                  /\ Signal
                  /\ UNCHANGED <<content, decoding, rendering, render_expired_frames, interrupted,
                                 lost, exit>>

(* ... the texture is written from the frame (or not: no texture), and unlock. *)
UpdateTexture == /\ main = "update"
                 /\ main' = "loop"
                 /\ UNCHANGED <<dec, buf, interrupted, frame, events, lost, taken, exit>>

HandleInput == /\ HandleNext("INPUT")
               /\ UNCHANGED <<dec, main, buf, interrupted, frame, lost, taken, exit>>

LeaveLoop(e, why) == /\ HandleNext(e)
                     /\ main' = "quit" /\ exit' = why
                     /\ UNCHANGED <<dec, buf, interrupted, frame, lost, taken>>

(* video_buffer_interrupt(), called by stream_stop(): the flag under the mutex... *)
Interrupt == /\ main = "quit"
             /\ IF render_expired_frames
                THEN interrupted' = TRUE /\ main' = "signal"
                ELSE UNCHANGED interrupted /\ main' = "stopped"
             /\ UNCHANGED <<dec, buf, frame, events, lost, taken, exit>>

(* ... and the signal after it is released. *)
InterruptSignal == /\ main = "signal"
                   /\ Signal
                   /\ main' = "stopped"
                   /\ UNCHANGED <<buf, interrupted, frame, events, lost, taken, exit>>
-----------------------------------------------------------------------------
(* The user, through SDL: mouse, keyboard, window, and closing the window. *)
UserInput == /\ exit = "none" /\ Len(events) < MaxInputs /\ Len(events) < EventCap
             /\ \E e \in UserEvents : events' = Append(events, e)
             /\ UNCHANGED <<dec, main, buf, interrupted, frame, lost, taken, exit>>

Terminated == dec = "done" /\ main = "stopped" /\ UNCHANGED vars

(* What the stream thread does by itself, without waiting for the socket. *)
StreamThread == OfferWaits \/ Offer \/ PushNewFrame \/ NotifyStopped

MainThread == \/ HandleNewFrame \/ UpdateTexture \/ HandleInput
              \/ LeaveLoop("QUIT", "user") \/ LeaveLoop("STREAM_STOPPED", "eos")
              \/ Interrupt \/ InterruptSignal

Next == Decode \/ EndOfStream \/ StreamThread \/ SpuriousWakeup \/ MainThread \/ UserInput \/ Terminated

Spec == Init /\ [][Next]_vars

(* Both threads are scheduled.  The device may send no frame and keep the  *)
(* stream open for ever, until the main thread shuts the socket down, right *)
(* after stream_stop() (scrcpy.c:445).                                     *)
FairSpec == /\ Spec /\ WF_vars(StreamThread) /\ WF_vars(MainThread)
            /\ WF_vars(main = "stopped" /\ EndOfStream)
-----------------------------------------------------------------------------
TypeOK ==
  /\ dec \in {"decode", "offer", "waiting", "push", "notify", "done"}
  /\ main \in {"loop", "update", "quit", "signal", "stopped"}
  /\ content \in [AVFrames -> Nat]
  /\ decoding \in AVFrames /\ rendering \in AVFrames /\ frame \in AVFrames
  /\ consumed \in BOOLEAN /\ render_expired_frames \in BOOLEAN /\ interrupted \in BOOLEAN /\ lost \in BOOLEAN
  /\ events \in Seq(Events) /\ Len(events) <= EventCap
  /\ taken \in Nat
  /\ exit \in {"none", "user", "eos"}

Pending == \E i \in 1..Len(events) : events[i] = "NEW_FRAME"

(* A frame waits to be rendered exactly when one event for it is queued or   *)
(* about to be, so the assertion of consume (video_buffer.c:94) holds, and   *)
(* "the previous EVENT_NEW_FRAME will consume this frame" (decoder.c:25).    *)
OneEventPerFrame ==
  /\ dec = "push" \/ Pending => ~consumed
  /\ ~consumed /\ ~lost => dec = "push" \/ Pending
  /\ dec = "push" => ~Pending
  /\ \A i, j \in 1..Len(events) :
       events[i] = "NEW_FRAME" /\ events[j] = "NEW_FRAME" => i = j

(* video_buffer.c:94: the assertion holds whenever the event is handled.     *)
ConsumeAssertion ==
  main = "loop" /\ events # <<>> /\ Head(events) = "NEW_FRAME" => ~consumed

(* While update_texture() reads the frame, the decoder, which writes without *)
(* the lock, never changes it (decoder.c:72, screen.c:310).                  *)
FrameStable == main = "update" => content[frame] = taken

(* The end of the stream is seen only after its last frame was rendered.     *)
EosAfterLastFrame == exit = "eos" /\ ~lost => taken = content[rendering]

(* The buffer is the mailbox of LatestFrame: each frame rendered is the      *)
(* newest, none twice; with render_expired_frames none is skipped.           *)
Mailbox == INSTANCE LatestFrame
             WITH latest <- content[rendering], closed <- interrupted,
                  keep_all <- render_expired_frames
ImplementsMailbox == Mailbox!Spec

(* Every offered frame, or a newer one, is rendered unless the loop ended.   *)
EveryFrameOvertaken ==
  \A n \in 1..MaxFrames :
    content[rendering] = n ~> taken >= n \/ exit # "none" \/ lost

(* stream_stop() gets the stream thread out of any wait, so it can be joined *)
(* (scrcpy.c:429-451).                                                       *)
StreamThreadEnds == exit # "none" ~> dec = "done"
=============================================================================
