------------------------- MODULE VideoBufferProofs -------------------------
(***************************************************************************)
(* Proofs about VideoBuffer, for every number of frames and of events and  *)
(* for both modes.                                                         *)
(***************************************************************************)
EXTENDS VideoBuffer, SequenceTheorems, TLAPS

(* The two pointers are never equal; the frame being handed over is the    *)
(* successor of the last one offered; consumed compares taken with it.     *)
FramesInv ==
  /\ decoding # rendering
  /\ dec \in {"offer", "waiting"} => content[decoding] = content[rendering] + 1
  /\ IF consumed THEN taken = content[rendering] ELSE taken < content[rendering]
  /\ main = "update" => frame = rendering /\ consumed

(* STREAM_STOPPED is the last event the stream thread pushes.              *)
StoppedIsLast ==
  /\ \A i \in 1..Len(events) :
       events[i] = "STREAM_STOPPED" =>
         /\ dec = "done"
         /\ \A j \in 1..Len(events) : events[j] = "NEW_FRAME" => j < i
  /\ exit = "eos" => /\ dec = "done"
                     /\ ~lost => consumed
  /\ main \in {"loop", "update"} <=> exit = "none"

IInv == TypeOK /\ FramesInv /\ OneEventPerFrame /\ StoppedIsLast

-----------------------------------------------------------------------------
(* What the three operations on the event queue do to it.                  *)
Appended(e) == /\ Len(events') = Len(events) + 1
               /\ events'[Len(events) + 1] = e
               /\ \A i \in 1..Len(events) : events'[i] = events[i]

(* A push of ours appends the event, or is lost when the queue is full.    *)
LEMMA PushEffect ==
  ASSUME TypeOK, VBAssumption, NEW e \in Events, Push(e)
  PROVE  /\ events' \in Seq(Events) /\ Len(events') <= EventCap
         /\ lost' \in BOOLEAN
         /\ \/ lost' = TRUE /\ events' = events
            \/ lost' = lost /\ Appended(e)
<1>1. events \in Seq(Events) /\ Len(events) \in Nat /\ Len(events) <= EventCap /\ EventCap \in Nat
  BY EmptySeq, LenProperties DEF TypeOK, VBAssumption
<1>2. CASE Len(events) < EventCap
  <2>1. events' = Append(events, e) /\ lost' = lost
    BY <1>2 DEF Push
  <2> QED
    BY <1>1, <1>2, <2>1, AppendProperties DEF TypeOK, Appended
<1>3. CASE ~(Len(events) < EventCap)
  BY <1>1, <1>3 DEF Push
<1> QED
  BY <1>2, <1>3

(* Handling an event removes the first one and shifts the others.          *)
LEMMA HandleEffect ==
  ASSUME TypeOK, VBAssumption, NEW e, HandleNext(e)
  PROVE  /\ events' \in Seq(Events) /\ Len(events') <= EventCap
         /\ Len(events) \in Nat \ {0} /\ events[1] = e
         /\ Len(events') = Len(events) - 1
         /\ \A i \in 1..Len(events') : events'[i] = events[i + 1]
<1>1. events \in Seq(Events) /\ events # <<>>
  BY DEF TypeOK, HandleNext
<1>2. Len(events) \in Nat \ {0}
  BY <1>1, EmptySeq
<1> QED
  BY <1>1, <1>2, HeadTailProperties DEF TypeOK, VBAssumption, HandleNext

(* An event of the user is appended, and it is none of the program's.      *)
LEMMA InputEffect ==
  ASSUME TypeOK, VBAssumption, UserInput
  PROVE  /\ events' \in Seq(Events) /\ Len(events') <= EventCap
         /\ \E e \in UserEvents : Appended(e)
<1>1. PICK e \in UserEvents : events' = Append(events, e)
  BY DEF UserInput
<1>2. e \in Events
  BY DEF Events
<1> QED
  BY <1>1, <1>2, AppendProperties DEF TypeOK, VBAssumption, UserInput, Appended

-----------------------------------------------------------------------------
(* Type correctness: Spec keeps every variable in its type, and the event  *)
(* queue within its capacity.                                              *)
THEOREM TypeCorrect == Spec => []TypeOK
<1>1. Init => TypeOK
  <2> SUFFICES ASSUME Init PROVE TypeOK
    OBVIOUS
  <2>1. events \in Seq(Events) /\ Len(events) <= EventCap
    BY VBAssumption, EmptySeq DEF Init, VBAssumption
  <2> QED
    BY <2>1 DEF Init, TypeOK, AVFrames
<1>2. TypeOK /\ [Next]_vars => TypeOK'
  <2> SUFFICES ASSUME TypeOK, [Next]_vars PROVE TypeOK'
    OBVIOUS
  <2> USE VBAssumption DEF TypeOK, buf
  <2>1. CASE Decode
    BY <2>1 DEF Decode, AVFrames
  <2>2. CASE EndOfStream \/ OfferWaits \/ SpuriousWakeup
    BY <2>2 DEF EndOfStream, OfferWaits, SpuriousWakeup
  <2>3. CASE Offer
    BY <2>3 DEF Offer, AfterOffer
  <2>4. CASE PushNewFrame \/ NotifyStopped
    BY <2>4, PushEffect DEF PushNewFrame, NotifyStopped, Events
  <2>5. CASE HandleNewFrame
    BY <2>5, HandleEffect DEF HandleNewFrame, Signal, RenderedFrame
  <2>6. CASE UpdateTexture
    BY <2>6 DEF UpdateTexture
  <2>7. CASE HandleInput \/ LeaveLoop("QUIT", "user") \/ LeaveLoop("STREAM_STOPPED", "eos")
    BY <2>7, HandleEffect DEF HandleInput, LeaveLoop
  <2>8. CASE Interrupt \/ InterruptSignal
    BY <2>8 DEF Interrupt, InterruptSignal, Signal
  <2>9. CASE UserInput
    BY <2>9, InputEffect DEF UserInput
  <2>10. CASE UNCHANGED vars
    BY <2>10 DEF vars
  <2> QED
    BY <2>1, <2>2, <2>3, <2>4, <2>5, <2>6, <2>7, <2>8, <2>9, <2>10
    DEF Next, StreamThread, MainThread, Terminated
<1> QED
  BY <1>1, <1>2, PTL DEF Spec

-----------------------------------------------------------------------------
(* Each part of IInv, preserved by every step.                             *)
LEMMA FramesStep == IInv /\ [Next]_vars => FramesInv'
<1> SUFFICES ASSUME IInv, [Next]_vars PROVE FramesInv'
  OBVIOUS
<1> USE DEF IInv, TypeOK, FramesInv, buf
<1>1. CASE Decode
  BY <1>1 DEF Decode, AVFrames
<1>2. CASE EndOfStream \/ OfferWaits \/ SpuriousWakeup
  BY <1>2 DEF EndOfStream, OfferWaits, SpuriousWakeup
<1>3. CASE Offer
  BY <1>3 DEF Offer, AfterOffer, MutexFree
<1>4. CASE PushNewFrame \/ NotifyStopped
  BY <1>4 DEF PushNewFrame, NotifyStopped
<1>5. CASE HandleNewFrame
  BY <1>5 DEF HandleNewFrame, HandleNext, Signal, RenderedFrame
<1>6. CASE UpdateTexture \/ HandleInput
  BY <1>6 DEF UpdateTexture, HandleInput, HandleNext
<1>7. CASE LeaveLoop("QUIT", "user") \/ LeaveLoop("STREAM_STOPPED", "eos")
  BY <1>7 DEF LeaveLoop, HandleNext
<1>8. CASE Interrupt \/ InterruptSignal
  BY <1>8 DEF Interrupt, InterruptSignal, Signal
<1>9. CASE UserInput \/ UNCHANGED vars
  BY <1>9 DEF UserInput, vars
<1> QED
  BY <1>1, <1>2, <1>3, <1>4, <1>5, <1>6, <1>7, <1>8, <1>9
  DEF Next, StreamThread, MainThread, Terminated

(* Every step keeps OneEventPerFrame.                                      *)
LEMMA EventsStep == IInv /\ [Next]_vars => OneEventPerFrame'
<1> SUFFICES ASSUME IInv, [Next]_vars PROVE OneEventPerFrame'
  OBVIOUS
<1> USE DEF IInv, OneEventPerFrame, Pending, buf
<1>0. TypeOK /\ VBAssumption /\ Len(events) \in Nat
  BY VBAssumption, LenProperties DEF TypeOK
<1>1. CASE Decode \/ EndOfStream \/ OfferWaits \/ SpuriousWakeup
  BY <1>1 DEF Decode, EndOfStream, OfferWaits, SpuriousWakeup
<1>2. CASE Offer
  <2>1. UNCHANGED <<events, lost>> /\ consumed' = FALSE /\ dec = "offer"
    BY <1>2 DEF Offer
  <2>2. dec' = IF consumed THEN "push" ELSE "decode"
    BY <1>2 DEF Offer, AfterOffer
  <2>3. CASE consumed
    BY <2>1, <2>2, <2>3
  <2>4. CASE ~consumed
    BY <2>1, <2>2, <2>4
  <2> QED
    BY <2>3, <2>4
<1>3. CASE PushNewFrame
  <2>1. dec = "push" /\ dec' = "decode" /\ consumed' = consumed
    BY <1>3 DEF PushNewFrame
  <2>2. \/ lost' = TRUE /\ events' = events
        \/ lost' = lost /\ Appended("NEW_FRAME")
    BY <1>3, <1>0, PushEffect DEF PushNewFrame, Events
  <2>3. ASSUME Appended("NEW_FRAME"), lost' = lost PROVE OneEventPerFrame'
    <3>1. Pending' /\ ~Pending /\ ~consumed
      BY <1>0, <2>1, <2>3 DEF Appended
    <3> QED
      BY <1>0, <2>1, <2>3, <3>1 DEF Appended
  <2> QED
    BY <2>1, <2>2, <2>3
<1>4. CASE NotifyStopped
  <2>1. dec = "notify" /\ dec' = "done" /\ consumed' = consumed
    BY <1>4 DEF NotifyStopped
  <2>2. \/ lost' = TRUE /\ events' = events
        \/ lost' = lost /\ Appended("STREAM_STOPPED")
    BY <1>4, <1>0, PushEffect DEF NotifyStopped, Events
  <2>3. ASSUME Appended("STREAM_STOPPED"), lost' = lost PROVE OneEventPerFrame'
    <3>1. Pending' <=> Pending
      BY <1>0, <2>3 DEF Appended
    <3> QED
      BY <1>0, <2>1, <2>3, <3>1 DEF Appended
  <2> QED
    BY <2>1, <2>2, <2>3
<1>5. CASE HandleNewFrame
  <2>1. HandleNext("NEW_FRAME") /\ consumed' = TRUE /\ lost' = lost
    BY <1>5 DEF HandleNewFrame
  <2>2. dec' # "push" \/ dec' = dec
    BY <1>5 DEF HandleNewFrame, Signal
  <2>3. /\ Len(events) \in Nat \ {0} /\ events[1] = "NEW_FRAME"
        /\ Len(events') = Len(events) - 1
        /\ \A i \in 1..Len(events') : events'[i] = events[i + 1]
    BY <1>0, <2>1, HandleEffect
  <2>4. ~Pending' /\ dec # "push"
    <3>1. Pending /\ dec # "push"
      BY <2>3
    <3>2. \A i \in 1..Len(events') : events[i + 1] # "NEW_FRAME"
      BY <2>3
    <3> QED
      BY <2>3, <3>1, <3>2
  <2> QED
    BY <2>1, <2>2, <2>4
<1>6. CASE UpdateTexture \/ Interrupt \/ InterruptSignal
  BY <1>6 DEF UpdateTexture, Interrupt, InterruptSignal, Signal
<1>7. CASE HandleInput \/ LeaveLoop("QUIT", "user") \/ LeaveLoop("STREAM_STOPPED", "eos")
  <2>1. PICK e \in {"INPUT", "QUIT", "STREAM_STOPPED"} : HandleNext(e)
    BY <1>7 DEF HandleInput, LeaveLoop
  <2>2. UNCHANGED <<dec, consumed, lost>>
    BY <1>7 DEF HandleInput, LeaveLoop
  <2>3. /\ Len(events) \in Nat \ {0} /\ events[1] # "NEW_FRAME"
        /\ Len(events') = Len(events) - 1
        /\ \A i \in 1..Len(events') : events'[i] = events[i + 1]
    BY <1>0, <2>1, HandleEffect
  <2>4. Pending' <=> Pending
    <3>1. ASSUME NEW i \in 1..Len(events), events[i] = "NEW_FRAME"
          PROVE  i - 1 \in 1..Len(events') /\ events'[i - 1] = "NEW_FRAME"
      BY <2>3, <3>1
    <3>2. ASSUME NEW i \in 1..Len(events'), events'[i] = "NEW_FRAME"
          PROVE  i + 1 \in 1..Len(events) /\ events[i + 1] = "NEW_FRAME"
      BY <2>3, <3>2
    <3> QED
      BY <3>1, <3>2
  <2>5. ASSUME NEW i \in 1..Len(events'), NEW j \in 1..Len(events'),
               events'[i] = "NEW_FRAME", events'[j] = "NEW_FRAME"
        PROVE  i = j
    <3>1. i + 1 \in 1..Len(events) /\ j + 1 \in 1..Len(events)
      BY <2>3
    <3> QED
      BY <2>3, <2>5, <3>1
  <2> QED
    BY <2>2, <2>4, <2>5
<1>8. CASE UserInput
  BY <1>8, <1>0, InputEffect DEF UserInput, UserEvents, Appended
<1>9. CASE UNCHANGED vars
  BY <1>9 DEF vars
<1> QED
  BY <1>1, <1>2, <1>3, <1>4, <1>5, <1>6, <1>7, <1>8, <1>9
  DEF Next, StreamThread, MainThread, Terminated


(* Every step keeps StoppedIsLast.                                         *)
LEMMA StoppedStep == IInv /\ [Next]_vars => StoppedIsLast'
<1> SUFFICES ASSUME IInv, [Next]_vars PROVE StoppedIsLast'
  OBVIOUS
<1> USE DEF IInv, StoppedIsLast, buf
<1>0. TypeOK /\ VBAssumption /\ Len(events) \in Nat
  BY VBAssumption, LenProperties DEF TypeOK
<1>1. CASE Decode \/ EndOfStream \/ OfferWaits \/ SpuriousWakeup
  BY <1>1 DEF Decode, EndOfStream, OfferWaits, SpuriousWakeup
<1>2. CASE Offer
  BY <1>2 DEF Offer
<1>3. CASE PushNewFrame
  <2>1. dec = "push" /\ UNCHANGED <<main, exit>>
    BY <1>3 DEF PushNewFrame
  <2>2. \/ events' = events
        \/ Appended("NEW_FRAME")
    BY <1>3, <1>0, PushEffect DEF PushNewFrame, Events
  <2> QED
    BY <1>0, <2>1, <2>2 DEF Appended
<1>4. CASE NotifyStopped
  <2>1. dec = "notify" /\ dec' = "done" /\ UNCHANGED <<main, exit>>
    BY <1>4 DEF NotifyStopped
  <2>2. \/ events' = events
        \/ Appended("STREAM_STOPPED")
    BY <1>4, <1>0, PushEffect DEF NotifyStopped, Events
  <2> QED
    BY <1>0, <2>1, <2>2 DEF Appended
<1>5. CASE HandleNewFrame \/ HandleInput \/ LeaveLoop("QUIT", "user")
  <2>1. PICK e \in {"NEW_FRAME", "INPUT", "QUIT"} : HandleNext(e)
    BY <1>5 DEF HandleNewFrame, HandleInput, LeaveLoop
  <2>2. /\ main = "loop" /\ exit' # "eos"
        /\ main' \in {"loop", "update"} <=> exit' = "none"
        /\ dec = "done" => dec' = "done"
    BY <1>5 DEF HandleNewFrame, HandleInput, LeaveLoop, HandleNext, Signal
  <2>3. /\ Len(events) \in Nat \ {0}
        /\ Len(events') = Len(events) - 1
        /\ \A i \in 1..Len(events') : events'[i] = events[i + 1]
    BY <1>0, <2>1, HandleEffect
  <2> QED
    BY <2>2, <2>3
<1>6. CASE LeaveLoop("STREAM_STOPPED", "eos")
  <2>1. /\ HandleNext("STREAM_STOPPED") /\ main' = "quit" /\ exit' = "eos"
        /\ UNCHANGED <<dec, consumed, lost>>
    BY <1>6 DEF LeaveLoop
  <2>2. /\ Len(events) \in Nat \ {0} /\ events[1] = "STREAM_STOPPED"
        /\ Len(events') = Len(events) - 1
        /\ \A i \in 1..Len(events') : events'[i] = events[i + 1]
    BY <1>0, <2>1, HandleEffect
  <2>3. dec = "done" /\ ~Pending
    BY <2>2 DEF Pending
  <2>4. ~lost => consumed
    BY <2>3 DEF OneEventPerFrame
  <2> QED
    BY <2>1, <2>2, <2>3, <2>4
<1>7. CASE UpdateTexture \/ Interrupt \/ InterruptSignal
  BY <1>7 DEF UpdateTexture, Interrupt, InterruptSignal, Signal
<1>8. CASE UserInput
  <2>1. PICK e \in UserEvents : Appended(e)
    BY <1>8, <1>0, InputEffect
  <2> QED
    BY <1>0, <1>8, <2>1 DEF UserInput, UserEvents, Appended
<1>9. CASE UNCHANGED vars
  BY <1>9 DEF vars
<1> QED
  BY <1>1, <1>2, <1>3, <1>4, <1>5, <1>6, <1>7, <1>8, <1>9
  DEF Next, StreamThread, MainThread, Terminated

(* The inductive invariant.                                                *)
LEMMA Inductive == Spec => []IInv
<1>1. Init /\ TypeOK => IInv
  <2> SUFFICES ASSUME Init, TypeOK PROVE IInv
    OBVIOUS
  <2>1. Len(events) = 0 /\ 1..Len(events) = {}
    BY EmptySeq DEF Init
  <2> QED
    BY <2>1 DEF Init, IInv, FramesInv, OneEventPerFrame, Pending, StoppedIsLast, AVFrames
<1>2. IInv /\ TypeOK' /\ [Next]_vars => IInv'
  BY FramesStep, EventsStep, StoppedStep DEF IInv
<1> QED
  BY <1>1, <1>2, TypeCorrect, PTL DEF Spec

(* One NEW_FRAME event is queued, or about to be, exactly while a frame    *)
(* waits to be rendered, unless the event queue was once full.             *)
THEOREM OneEventPerFrameHolds == Spec => []OneEventPerFrame
BY Inductive, PTL DEF IInv

(* Rendering never reads the frame the decoder writes, although the        *)
(* decoder writes without the lock.                                        *)
THEOREM FrameStableHolds == Spec => []FrameStable
<1>1. IInv => FrameStable
  BY DEF IInv, FramesInv, FrameStable
<1> QED
  BY <1>1, Inductive, PTL

(* The event loop ends at the end of the stream only after the last frame. *)
THEOREM EosAfterLastFrameHolds == Spec => []EosAfterLastFrame
<1>1. IInv => EosAfterLastFrame
  BY DEF IInv, FramesInv, StoppedIsLast, EosAfterLastFrame
<1> QED
  BY <1>1, Inductive, PTL

(* The assertion of video_buffer_consume_rendered_frame() never fails, even *)
(* after an event was lost.                                                *)
THEOREM ConsumeAssertionHolds == Spec => []ConsumeAssertion
<1>1. IInv => ConsumeAssertion
  <2> SUFFICES ASSUME IInv, events # <<>>, Head(events) = "NEW_FRAME" PROVE ~consumed
    BY DEF ConsumeAssertion
  <2>1. events \in Seq(Events) /\ Len(events) \in Nat \ {0}
    BY EmptySeq DEF IInv, TypeOK
  <2>2. events[1] = "NEW_FRAME"
    BY <2>1
  <2> QED
    BY <2>1, <2>2 DEF IInv, OneEventPerFrame, Pending
<1> QED
  BY <1>1, Inductive, PTL

(* The buffer, its locks, its events and its two threads implement the     *)
(* mailbox of LatestFrame.                                                 *)
THEOREM Refinement == Spec => ImplementsMailbox
<1>1. Init => Mailbox!Init
  BY DEF Init, Mailbox!Init, AVFrames
<1>2. IInv /\ [Next]_vars => [Mailbox!Next]_Mailbox!vars
  <2> SUFFICES ASSUME IInv, [Next]_vars PROVE [Mailbox!Next]_Mailbox!vars
    OBVIOUS
  <2> USE DEF IInv, TypeOK, FramesInv, buf, Mailbox!vars
  <2>1. CASE Decode
    BY <2>1 DEF Decode, AVFrames
  <2>2. CASE EndOfStream \/ OfferWaits \/ SpuriousWakeup \/ PushNewFrame \/ NotifyStopped
    BY <2>2 DEF EndOfStream, OfferWaits, SpuriousWakeup, PushNewFrame, NotifyStopped
  <2>3. CASE Offer
    <3>1. Mailbox!Publish
      BY <2>3 DEF Offer, MustWait, Mailbox!Publish
    <3> QED
      BY <3>1 DEF Mailbox!Next
  <2>4. CASE HandleNewFrame
    BY <2>4 DEF HandleNewFrame, RenderedFrame, Mailbox!Next, Mailbox!Take
  <2>5. CASE UpdateTexture \/ HandleInput \/ InterruptSignal \/ UserInput \/ UNCHANGED vars
    BY <2>5 DEF UpdateTexture, HandleInput, InterruptSignal, UserInput, vars
  <2>6. CASE LeaveLoop("QUIT", "user") \/ LeaveLoop("STREAM_STOPPED", "eos")
    BY <2>6 DEF LeaveLoop
  <2>7. CASE Interrupt
    BY <2>7, VBAssumption DEF Interrupt, Mailbox!Next, Mailbox!Close, VBAssumption
  <2> QED
    BY <2>1, <2>2, <2>3, <2>4, <2>5, <2>6, <2>7
    DEF Next, StreamThread, MainThread, Terminated
<1> QED
  BY <1>1, <1>2, Inductive, PTL DEF Spec, ImplementsMailbox, Mailbox!Spec
=============================================================================
