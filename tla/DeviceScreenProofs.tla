------------------------- MODULE DeviceScreenProofs -------------------------
(***************************************************************************)
(* Proofs about DeviceScreen, for any display and options, and any number  *)
(* of rotations and of mouse events; before them lemmas about Geometry:    *)
(* turning commutes with computing, and the video's pixels cover the       *)
(* content.                                                                *)
(***************************************************************************)
EXTENDS DeviceScreen, SequenceTheorems, TLAPS

(* Arithmetic. *)
LEMMA DivBounds ==
  ASSUME NEW a \in Nat, NEW b \in Nat, b > 0
  PROVE  /\ a \div b \in Nat
         /\ b * (a \div b) <= a /\ a < b * (a \div b) + b
OBVIOUS

(* Dividing a product by its factor is exact.                              *)
LEMMA DivOfProduct == ASSUME NEW a \in Nat, NEW b \in Nat, b > 0 PROVE (b * a) \div b = a
OBVIOUS

(* Masking gives an integer.                                               *)
LEMMA MaskedInt == ASSUME NEW x \in Int PROVE Masked(x) \in Int
BY DEF Masked

(* What is masked is masked again to itself, in spite of the + 4.          *)
LEMMA MaskedAgain == ASSUME NEW m \in Nat, m = Masked(m) PROVE Masked(m + 4) = m
BY DEF Masked
-----------------------------------------------------------------------------
(* Types. *)
LEMMA FlipType == ASSUME NEW r \in Rect PROVE FlipRect(r) \in Rect /\ FlipRect(FlipRect(r)) = r
BY DEF FlipRect, Rect, RectOf

(* The intersection of two rectangles is a rectangle.                      *)
LEMMA IntersectionType ==
  ASSUME NEW a \in Rect, NEW b \in Rect PROVE Intersection(a, b) \in Rect
BY DEF Intersection, Rect, RectOf, Larger, Smaller

(* The video has a size.                                                   *)
LEMMA VideoSizeType ==
  ASSUME NEW width \in Int, NEW height \in Int, NEW max \in Nat
  PROVE  VideoSize(width, height, max) \in Size
BY MaskedInt DEF VideoSize, MinorSide, Size

(* Turning a ScreenInfo gives one.                                         *)
LEMMA WithRotationType ==
  ASSUME NEW i \in ScreenInfo, NEW r \in Int
  PROVE  WithRotation(i, r) \in ScreenInfo
BY FlipType DEF WithRotation, ScreenInfo, RotateSize, Size, IsRotated

-----------------------------------------------------------------------------
(* The video of a turned screen is the turned video, also of a square one,  *)
(* since max_size is masked.                                                *)
LEMMA VideoSizeRotates ==
  ASSUME NEW width \in Int, NEW height \in Int, NEW max \in Nat, max = Masked(max)
  PROVE  VideoSize(height, width, max) = RotateSize(VideoSize(width, height, max))
<1> DEFINE w == Masked(width)  h == Masked(height)
<1>0. w \in Int /\ h \in Int
  BY MaskedInt
<1>1. CASE max = 0 \/ (w <= max /\ h <= max)
  BY <1>1 DEF VideoSize, RotateSize
<1>2. CASE ~(max = 0 \/ (w <= max /\ h <= max)) /\ w # h
  <2> HIDE DEF w, h
  <2>1. (h > w /\ ~(w > h)) \/ (w > h /\ ~(h > w))
    BY <1>0, <1>2
  <2> QED
    BY <1>2, <2>1 DEF VideoSize, RotateSize, w, h
<1>3. CASE max > 0 /\ w = h /\ w > max
  <2>1. (w * max) \div w = max
    BY <1>0, <1>3, DivOfProduct
  <2>2. MinorSide(w, w, max) = max
    BY <2>1, MaskedAgain DEF MinorSide
  <2> QED
    BY <1>3, <2>2, <1>0 DEF VideoSize, RotateSize
<1> QED
  BY <1>0, <1>1, <1>2, <1>3

(* Flipping commutes with intersecting.                                    *)
LEMMA IntersectionFlips ==
  ASSUME NEW a \in Rect, NEW b \in Rect
  PROVE  Intersection(FlipRect(a), FlipRect(b)) = FlipRect(Intersection(a, b))
BY DEF Intersection, FlipRect, Rect, RectOf, Larger, Smaller

(* The content is a rectangle.                                             *)
LEMMA ContentRectType ==
  ASSUME NEW c \in [display : Size, crop : Rect, max_size : Nat], NEW r \in Int
  PROVE  ContentRect(c, r) \in Rect
<1>1. \A s \in Size : RectOf(0, 0, s.w, s.h) \in Rect
  BY DEF Size, Rect, RectOf
<1>2. c.display \in Size /\ RotateSize(c.display) \in Size
  BY DEF Size, RotateSize
<1>3. CropFlipped(c.crop, r) \in Rect
  BY FlipType DEF CropFlipped
<1> QED
  BY <1>1, <1>2, <1>3, IntersectionType DEF ContentRect

(* Turned by a quarter, the content is flipped.                            *)
LEMMA ContentRectFlips ==
  ASSUME NEW c \in [display : Size, crop : Rect, max_size : Nat],
         NEW q \in Int, NEW r \in Int, IsRotated(q) # IsRotated(r)
  PROVE  ContentRect(c, r) = FlipRect(ContentRect(c, q))
<1> DEFINE F(s) == RectOf(0, 0, s.w, s.h)
           s(t) == IF IsRotated(t) THEN RotateSize(c.display) ELSE c.display
<1>1. IsRotated(q) \in BOOLEAN /\ IsRotated(r) \in BOOLEAN
  BY DEF IsRotated
<1>2. c.display \in Size /\ s(q) \in Size /\ s(r) = RotateSize(s(q))
  BY <1>1 DEF Size, RotateSize
<1>3. F(s(q)) \in Rect /\ F(s(r)) = FlipRect(F(s(q)))
  BY <1>2 DEF Size, Rect, RectOf, RotateSize, FlipRect
<1>4. /\ CropFlipped(c.crop, q) \in Rect
      /\ CropFlipped(c.crop, r) = FlipRect(CropFlipped(c.crop, q))
  BY <1>1, FlipType DEF CropFlipped
<1>5. ContentRect(c, q) = IF c.crop = NoCrop THEN F(s(q))
                          ELSE Intersection(F(s(q)), CropFlipped(c.crop, q))
  BY DEF ContentRect
<1>6. ContentRect(c, r) = IF c.crop = NoCrop THEN F(s(r))
                          ELSE Intersection(F(s(r)), CropFlipped(c.crop, r))
  BY DEF ContentRect
<1> QED
  BY <1>3, <1>4, <1>5, <1>6, IntersectionFlips

(* What is computed is a ScreenInfo.                                       *)
LEMMA InfoType ==
  ASSUME NEW c \in [display : Size, crop : Rect, max_size : Nat], NEW r \in Int
  PROVE  InfoOf(c, r) \in ScreenInfo
<1>1. ContentRect(c, r) \in Rect
  BY ContentRectType
<1>2. \A t \in Rect : Width(t) \in Int /\ Height(t) \in Int
  BY DEF Rect, Width, Height
<1> QED
  BY <1>1, <1>2, VideoSizeType DEF InfoOf, ScreenInfo, IsRotated

(* Turning what was computed gives what would be computed now. *)
LEMMA TurnedIsComputed ==
  ASSUME NEW c \in [display : Size, crop : Rect, max_size : Nat],
         c.max_size = Masked(c.max_size), NEW q \in Int, NEW r \in Int
  PROVE  WithRotation(InfoOf(c, q), r) = InfoOf(c, r)
<1>1. InfoOf(c, q).rotated = IsRotated(q)
  BY DEF InfoOf
<1>2. CASE IsRotated(q) = IsRotated(r)
  BY <1>1, <1>2 DEF WithRotation, InfoOf, ContentRect, CropFlipped
<1>3. CASE IsRotated(q) # IsRotated(r)
  <2> DEFINE t == ContentRect(c, q)
  <2>1. t \in Rect /\ ContentRect(c, r) = FlipRect(t)
    BY <1>3, ContentRectType, ContentRectFlips
  <2>2. /\ Width(t) \in Int /\ Height(t) \in Int
        /\ Width(FlipRect(t)) = Height(t) /\ Height(FlipRect(t)) = Width(t)
    BY <2>1 DEF Rect, RectOf, FlipRect, Width, Height
  <2>3. VideoSize(Height(t), Width(t), c.max_size) = RotateSize(VideoSize(Width(t), Height(t), c.max_size))
    BY <2>2, VideoSizeRotates
  <2> HIDE DEF t
  <2>4. InfoOf(c, r) = [rect |-> FlipRect(t),
                        size |-> VideoSize(Height(t), Width(t), c.max_size),
                        rotated |-> IsRotated(r)]
    BY <2>1, <2>2 DEF InfoOf
  <2>5. InfoOf(c, q) = [rect |-> t, size |-> VideoSize(Width(t), Height(t), c.max_size),
                        rotated |-> IsRotated(q)]
    BY DEF InfoOf, t
  <2> QED
    BY <1>3, <2>3, <2>4, <2>5 DEF WithRotation
<1> QED
  BY <1>2, <1>3

-----------------------------------------------------------------------------
(* The pixels 0 to video - 1 are spread over the content. *)
LEMMA ScaledCovers ==
  ASSUME NEW from \in Int, NEW span \in Nat, NEW pixels \in Nat, span > 0, pixels > 0
  PROVE  LET last == Scaled(from, pixels - 1, span, pixels) IN
         /\ Scaled(from, 0, span, pixels) = from
         /\ last \in Int /\ from <= last /\ last < from + span
         /\ (from + span - last) * pixels < span + pixels
<1> DEFINE a == (pixels - 1) * span  q == a \div pixels
<1>1. a \in Nat /\ a = pixels * span - span /\ 0 * span = 0
  OBVIOUS
<1>2. q \in Nat /\ pixels * q <= a /\ a < pixels * q + pixels
  BY <1>1, DivBounds
<1> HIDE DEF q
<1>3. q < span
  <2>1. SUFFICES ASSUME q >= span PROVE FALSE
    BY <1>2
  <2>2. pixels * q >= pixels * span
    BY <2>1, <1>2
  <2> QED
    BY <2>2, <1>1, <1>2
<1>4. (span - q) * pixels = span * pixels - q * pixels
  BY <1>2
<1>5. 0 \div pixels = 0
  BY DivBounds
<1> QED
  BY <1>1, <1>2, <1>3, <1>4, <1>5 DEF Scaled, q
-----------------------------------------------------------------------------

TouchEvents == {"down", "move", "up", "back"}

(* From the moment the first of its two sizes is read, the encoder is told *)
(* of rotations, and what it read is of now or flagged.                    *)
FlagInv ==
  /\ pc \in Running \cup {"content", "video"} => listening
  /\ pc = "video" /\ content # info.rect => changed
  /\ StaleIsFlagged

(* With the button released, the last event on its way is an UP, or none   *)
(* is and the pointer is gone.                                             *)
PointerInv == ~down => IF wire # <<>> THEN wire[Len(wire)] = "up" ELSE pointer => ignored

-----------------------------------------------------------------------------
(* What is computed from a configuration is well typed and not empty, and  *)
(* depends on whether the rotation is odd only.                            *)
LEMMA ComputedInfo ==
  ASSUME NEW c \in Configs, NEW r \in Rotations
  PROVE  LET i == InfoOf(c, r) IN
         /\ i \in ScreenInfo /\ i.rotated = IsRotated(r)
         /\ Width(i.rect) > 0 /\ Height(i.rect) > 0 /\ i.size.w > 0 /\ i.size.h > 0
<1>1. /\ c \in [display : Size, crop : Rect, max_size : Nat]
      /\ c.max_size = Masked(c.max_size) /\ r \in Int
  BY ConfigAssumption DEF ConfigAssumption, Config, Rotations
<1> DEFINE i == InfoOf(c, 0)
<1>2. i \in ScreenInfo /\ InfoOf(c, r) \in ScreenInfo
  BY <1>1, InfoType
<1>3. InfoOf(c, r) = WithRotation(i, r)
  BY <1>1, TurnedIsComputed
<1>4. Width(i.rect) > 0 /\ Height(i.rect) > 0 /\ i.size.w > 0 /\ i.size.h > 0
  BY ConfigAssumption DEF ConfigAssumption
<1> HIDE DEF i
<1>5. \/ InfoOf(c, r) = i
      \/ InfoOf(c, r).rect = FlipRect(i.rect) /\ InfoOf(c, r).size = RotateSize(i.size)
  BY <1>3 DEF WithRotation
<1>6. /\ Width(FlipRect(i.rect)) = Height(i.rect) /\ Height(FlipRect(i.rect)) = Width(i.rect)
      /\ RotateSize(i.size).w = i.size.h /\ RotateSize(i.size).h = i.size.w
  BY DEF FlipRect, RectOf, Width, Height, RotateSize
<1>7. InfoOf(c, r).rotated = IsRotated(r)
  BY DEF InfoOf
<1> QED
  BY <1>2, <1>4, <1>5, <1>6, <1>7

(* Two rotations by a half turn give the same sizes.                       *)
LEMMA SameInfo ==
  ASSUME NEW c, NEW q, NEW r, IsRotated(q) = IsRotated(r)
  PROVE  InfoOf(c, q) = InfoOf(c, r)
BY DEF InfoOf, ContentRect, CropFlipped

(* What sending and handling a touch event do to the wire.                 *)
LEMMA SendEffect ==
  ASSUME wire \in Seq(TouchEvents), NEW e \in TouchEvents, wire' = Append(wire, e)
  PROVE  wire' \in Seq(TouchEvents) /\ wire' # <<>> /\ wire'[Len(wire')] = e
BY AppendProperties

(* Delivering the first call keeps the last one, if any is left.           *)
LEMMA TailEffect ==
  ASSUME NEW S, NEW s \in Seq(S), s # <<>>
  PROVE  /\ Tail(s) \in Seq(S) /\ Head(s) \in S
         /\ IF Tail(s) # <<>> THEN Tail(s)[Len(Tail(s))] = s[Len(s)]
                              ELSE Head(s) = s[Len(s)]
<1>1. Len(s) \in Nat \ {0}
  BY EmptySeq, LenProperties
<1>2. /\ Tail(s) \in Seq(S) /\ Len(Tail(s)) = Len(s) - 1
      /\ \A i \in 1..Len(Tail(s)) : Tail(s)[i] = s[i + 1]
      /\ Head(s) = s[1] /\ Head(s) \in S
  BY <1>1, HeadTailProperties
<1>3. Tail(s) # <<>> <=> Len(Tail(s)) # 0
  BY <1>2, EmptySeq
<1> QED
  BY <1>1, <1>2, <1>3

-----------------------------------------------------------------------------
(* Type correctness: every variable of the device, of the encoder and of   *)
(* the page keeps its type, and no more events occur than the bounds say.  *)
THEOREM TypeCorrect == Spec => []TypeOK
<1>1. Init => TypeOK
  <2>1. <<>> \in Seq(Rotations) /\ <<>> \in Seq({"down", "move", "up", "back"})
    OBVIOUS
  <2>2. 0 \in 0..MaxRotations /\ 0 \in 0..MaxMouse
    BY DSAssumption DEF DSAssumption
  <2> QED
    <3>1. NoRect \in Rect /\ NoSize \in Size /\ NoInfo \in ScreenInfo
      BY DEF NoInfo, NoRect, NoSize, RectOf, ScreenInfo, Rect, Size
    <3> QED
      BY <2>1, <2>2, <3>1 DEF Init, TypeOK
<1>2. TypeOK /\ [Next]_vars => TypeOK'
  <2> SUFFICES ASSUME TypeOK, [Next]_vars PROVE TypeOK'
    OBVIOUS
  <2> USE DSAssumption DEF TypeOK, DSAssumption
  <2>1. CASE Main
    <3> USE DEF device, encoder, touch, Connected, Running
    <3>1. CASE ComputeScreenInfo
      BY <3>1, ComputedInfo DEF ComputeScreenInfo
    <3>2. CASE RegisterRotationWatcher
      BY <3>2 DEF RegisterRotationWatcher
    <3>3. CASE Open \/ SetRotationListener \/ ReadContent \/ ReadVideo
      <4>1. info.rect \in Rect /\ info.size \in Size
        BY DEF ScreenInfo
      <4> QED
        BY <3>3, <4>1 DEF Open, SetRotationListener, ReadContent, ReadVideo
    <3>4. CASE Test
      <4>1. listening' \in BOOLEAN
        BY <3>4 DEF Test, Leave
      <4>2. changed' = FALSE /\ pc' \in {"content", "dequeue", "ended"}
        BY <3>4 DEF Test, Leave
      <4> QED
        BY <3>4, <4>1, <4>2 DEF Test
    <3>5. CASE Check
      <4>1. listening' \in BOOLEAN
        BY <3>5 DEF Check, Leave
      <4>2. changed' = FALSE /\ pc' \in {"content", "send", "ended"}
        BY <3>5 DEF Check, Leave
      <4> QED
        BY <3>5, <4>1, <4>2 DEF Check
    <3>6. CASE Dequeue \/ Send
      BY <3>6 DEF Dequeue, Send
    <3> QED
      BY <2>1, <3>1, <3>2, <3>3, <3>4, <3>5, <3>6 DEF Main
  <2>2. CASE SendFails
    BY <2>2 DEF SendFails, device, encoder, touch
  <2>3. CASE OnRotationChanged
    <3>1. Head(calls) \in Rotations /\ Tail(calls) \in Seq(Rotations)
      BY <2>3, HeadTailProperties, EmptySeq DEF OnRotationChanged
    <3>2. WithRotation(info, Head(calls)) \in ScreenInfo
      BY <3>1, WithRotationType DEF Rotations
    <3> QED
      BY <2>3, <3>1, <3>2 DEF OnRotationChanged, device, encoder, touch
  <2>4. ASSUME NEW r \in Rotations, Rotate(r) PROVE TypeOK'
    BY <2>4, AppendProperties DEF Rotate, device, encoder, touch
  <2>5. CASE Mouse
    <3>0. \A e \in TouchEvents : Append(wire, e) \in Seq(TouchEvents)
      BY AppendProperties DEF TouchEvents
    <3>1. /\ wire' \in Seq(TouchEvents) /\ down' \in BOOLEAN
          /\ clicks < MaxMouse /\ clicks' = clicks + 1
          /\ UNCHANGED <<device, listening, changed, encoder, page, pointer, ignored>>
      BY <2>5, <3>0
         DEF Mouse, OnMouseDown, OnMouseMove, OnMouseUp, OnMouseOut, Uses, TouchEvents
    <3> QED
      BY <3>1 DEF device, encoder, TouchEvents
  <2>6. CASE NewHandleEvent
    <3>1. wire' \in Seq(TouchEvents)
      BY <2>6, TailEffect DEF NewHandleEvent, TouchEvents
    <3>2. pointer' \in BOOLEAN /\ ignored' \in BOOLEAN
      BY <2>6 DEF NewHandleEvent, PointerAfter
    <3> QED
      BY <2>6, <3>1, <3>2 DEF NewHandleEvent, device, encoder, TouchEvents
  <2>7. CASE UNCHANGED vars
    BY <2>7 DEF vars, device, encoder, touch
  <2> QED
    BY <2>1, <2>2, <2>3, <2>4, <2>5, <2>6, <2>7 DEF Next, Terminated
<1> QED
  BY <1>1, <1>2, PTL DEF Spec

-----------------------------------------------------------------------------
(* Every step keeps FlagInv.                                               *)
LEMMA FlagStep == ASSUME TypeOK, FlagInv, [Next]_vars PROVE FlagInv'
<1> USE DEF FlagInv, StaleIsFlagged, Running
<1>1. CASE Main
  BY <1>1 DEF Main, ComputeScreenInfo, RegisterRotationWatcher, Open,
       SetRotationListener, ReadContent, ReadVideo, Test, Dequeue, Check, Send,
       Leave, device, encoder, TypeOK
<1>2. CASE SendFails
  BY <1>2 DEF SendFails
<1>3. CASE OnRotationChanged
  BY <1>3 DEF OnRotationChanged, encoder
<1>4. ASSUME NEW r \in Rotations, Rotate(r) PROVE FlagInv'
  BY <1>4 DEF Rotate, encoder
<1>5. CASE Mouse \/ NewHandleEvent
  BY <1>5 DEF Mouse, OnMouseDown, OnMouseMove, OnMouseUp, OnMouseOut, Uses,
       NewHandleEvent, device, encoder
<1>6. CASE UNCHANGED vars
  BY <1>6 DEF vars, device, encoder
<1> QED
  BY <1>1, <1>2, <1>3, <1>4, <1>5, <1>6 DEF Next, Terminated

(* A configuration that is not the one of now has rotationChanged set: the *)
(* listener is there before the first size is read, and the information    *)
(* and the flag change together under the lock.                            *)
THEOREM StaleIsFlaggedHolds == Spec => []StaleIsFlagged
<1>1. Init => FlagInv
  BY DEF Init, FlagInv, StaleIsFlagged, Running
<1>2. FlagInv => StaleIsFlagged
  BY DEF FlagInv
<1> QED
  BY <1>1, <1>2, FlagStep, TypeCorrect, PTL DEF Spec

(* No frame is written but of the content and the size of now: the flag is *)
(* tested after the frame came out of the codec.                           *)
THEOREM FrameOfCurrentScreenHolds == Spec => FrameOfCurrentScreen
<1> DEFINE Fresh == pc # "send" /\ pc' = "send" => content = info.rect /\ video = info.size
<1>1. ASSUME StaleIsFlagged, [Next]_vars PROVE [Fresh]_vars
  <2>1. CASE Main
    BY <1>1, <2>1 DEF Main, ComputeScreenInfo, RegisterRotationWatcher, Open,
         SetRotationListener, ReadContent, ReadVideo, Test, Dequeue, Check, Send,
         Leave, StaleIsFlagged, Running
  <2>2. CASE UNCHANGED pc
    BY <2>2
  <2>3. [Next]_vars => Main \/ UNCHANGED pc \/ SendFails
    BY DEF Next, Terminated, OnRotationChanged, Rotate, Mouse, OnMouseDown, OnMouseMove,
         OnMouseUp, OnMouseOut, Uses, NewHandleEvent, encoder, vars
  <2> QED
    BY <1>1, <2>1, <2>2, <2>3 DEF SendFails
<1> QED
  BY <1>1, StaleIsFlaggedHolds, PTL DEF Spec, FrameOfCurrentScreen

-----------------------------------------------------------------------------
(* Every step keeps PointerInv.                                            *)
LEMMA PointerStep == ASSUME TypeOK, PointerInv, [Next]_vars PROVE PointerInv'
<1>0. wire \in Seq(TouchEvents)
  BY DEF TypeOK, TouchEvents
<1>1. CASE UNCHANGED touch
  BY <1>1 DEF PointerInv, touch
<1>2. CASE OnMouseUp \/ OnMouseOut
  BY <1>0, <1>2, SendEffect DEF OnMouseUp, OnMouseOut, PointerInv, TouchEvents
<1>3. CASE OnMouseDown \/ OnMouseMove
  BY <1>3 DEF OnMouseDown, OnMouseMove, Uses, PointerInv
<1>4. CASE NewHandleEvent
  <2>1. /\ wire # <<>> /\ down' = down
        /\ IF wire' # <<>> THEN wire'[Len(wire')] = wire[Len(wire)]
                           ELSE Head(wire) = wire[Len(wire)]
    BY <1>0, <1>4, TailEffect DEF NewHandleEvent
  <2>2. Head(wire) = "up" => (pointer' => ignored')
    BY <1>4 DEF NewHandleEvent, PointerAfter
  <2> QED
    BY <2>1, <2>2 DEF PointerInv
<1>5. [Next]_vars => UNCHANGED touch \/ Mouse \/ NewHandleEvent
  BY DEF Next, Main, ComputeScreenInfo, RegisterRotationWatcher, Open, SetRotationListener,
       ReadContent, ReadVideo, Test, Dequeue, Check, Send, SendFails,
       OnRotationChanged, Rotate, Terminated, vars
<1> QED
  BY <1>1, <1>2, <1>3, <1>4, <1>5 DEF Mouse

(* The page ends every press with an UP, and the device keeps a pointer    *)
(* only when it ignored that UP for its size.                              *)
THEOREM NoStuckPointerHolds == Spec => []NoStuckPointer
<1>1. Init => PointerInv
  BY DEF Init, PointerInv
<1>2. PointerInv => NoStuckPointer
  BY DEF PointerInv, NoStuckPointer
<1> QED
  BY <1>1, <1>2, PointerStep, TypeCorrect, PTL DEF Spec

-----------------------------------------------------------------------------
(* What the device knows of its screen was computed for some rotation, and  *)
(* for the one of now when no call is on its way.                           *)
Computed == \E r \in Rotations : info = InfoOf(config, r)
Informed == IF calls = <<>> THEN missed \/ info.rotated = IsRotated(rotation)
            ELSE calls[Len(calls)] = rotation

InfoInv == /\ pc # "compute" => Computed
           /\ watched <=> pc \notin {"compute", "register"}
           /\ IF watched THEN Informed ELSE calls = <<>>

(* Every step keeps InfoInv.                                               *)
LEMMA InfoStep == ASSUME TypeOK, InfoInv, [Next]_vars PROVE InfoInv'
<1>0. /\ config \in Configs /\ rotation \in Rotations /\ calls \in Seq(Rotations)
      /\ watched \in BOOLEAN
  BY DEF TypeOK
<1>1. CASE ComputeScreenInfo
  BY <1>0, <1>1 DEF ComputeScreenInfo, InfoInv, Computed
<1>2. CASE RegisterRotationWatcher
  BY <1>2 DEF RegisterRotationWatcher, InfoInv, Computed, Informed
<1>3. CASE OnRotationChanged
  <2> DEFINE r == Head(calls)
  <2>1. /\ r \in Rotations
        /\ IF calls' # <<>> THEN calls'[Len(calls')] = calls[Len(calls)] ELSE r = calls[Len(calls)]
    BY <1>0, <1>3, TailEffect DEF OnRotationChanged
  <2>2. /\ watched /\ calls[Len(calls)] = rotation /\ Computed
        /\ UNCHANGED <<config, rotation, watched, pc>> /\ info' = WithRotation(info, r)
    BY <1>3 DEF OnRotationChanged, InfoInv, Informed, encoder
  <2>3. PICK q \in Rotations : info = InfoOf(config, q)
    BY <2>2 DEF Computed
  <2>4. info' = InfoOf(config, r)
    BY <1>0, <2>1, <2>2, <2>3, TurnedIsComputed, ConfigAssumption
       DEF ConfigAssumption, Config, Rotations
  <2>5. info'.rotated = IsRotated(r)
    BY <2>4 DEF InfoOf
  <2> QED
    BY <2>1, <2>2, <2>4, <2>5 DEF InfoInv, Computed, Informed
<1>4. ASSUME NEW r \in Rotations, Rotate(r) PROVE InfoInv'
  <2>1. watched => calls' # <<>> /\ calls'[Len(calls')] = r
    BY <1>0, <1>4, AppendProperties, EmptySeq DEF Rotate
  <2> QED
    BY <1>4, <2>1 DEF Rotate, InfoInv, Computed, Informed, encoder
<1>5. CASE UNCHANGED device /\ (watched' => pc' \notin {"compute", "register"})
           /\ (~watched' => pc' = pc)
  BY <1>5 DEF InfoInv, Computed, Informed, device
<1>6. CASE Open \/ SetRotationListener \/ ReadContent \/ ReadVideo \/ Test \/ Dequeue
           \/ Check \/ Send \/ SendFails
  <2>1. UNCHANGED device /\ pc' \notin {"compute", "register"} /\ watched
    BY <1>6 DEF Open, SetRotationListener, ReadContent, ReadVideo, Test, Dequeue, Check, Send,
         SendFails, Leave, InfoInv
  <2> QED
    BY <1>5, <2>1 DEF device
<1>7. CASE UNCHANGED <<device, pc>>
  BY <1>7 DEF InfoInv, Computed, Informed, device
<1>8. [Next]_vars => \/ ComputeScreenInfo \/ RegisterRotationWatcher \/ OnRotationChanged
                     \/ \E r \in Rotations : Rotate(r)
                     \/ Open \/ SetRotationListener \/ ReadContent \/ ReadVideo \/ Test
                     \/ Dequeue \/ Check \/ Send \/ SendFails \/ UNCHANGED <<device, pc>>
  BY DEF Next, Main, Terminated, Mouse, OnMouseDown, OnMouseMove, OnMouseUp, OnMouseOut, Uses,
       NewHandleEvent, encoder, vars
<1> QED
  BY <1>1, <1>2, <1>3, <1>4, <1>6, <1>7, <1>8

(* A stretch of at least a pixel is covered from end to end.               *)
LEMMA ScaledLands ==
  ASSUME NEW from \in Int, NEW to \in Int, NEW n \in Nat, from < to, n > 0
  PROVE  Lands(from, to, Scaled(from, 0, to - from, n), Scaled(from, n - 1, to - from, n), n)
<1> DEFINE c == to - from
<1>1. c \in Nat /\ c > 0 /\ to = from + c
  OBVIOUS
<1> DEFINE last == Scaled(from, n - 1, c, n)
<1>2. /\ Scaled(from, 0, c, n) = from /\ last \in Int
      /\ from <= last /\ last < from + c /\ (from + c - last) * n < c + n
  BY <1>1, ScaledCovers
<1> HIDE DEF last
<1>3. Lands(from, to, from, last, n)
  BY <1>1, <1>2 DEF Lands
<1> QED
  BY <1>2, <1>3 DEF last

(* Whatever the display, the crop and the maximal size: a touch of the page  *)
(* that is not refused lands within the content of the screen as it is now,  *)
(* and the page's pixels cover it.                                           *)
THEOREM TouchesLandHolds == Spec => []TouchesLand
<1>1. Init => InfoInv
  BY DEF Init, InfoInv
<1>2. TypeOK /\ InfoInv => TouchesLand
  <2> SUFFICES ASSUME TypeOK, InfoInv, pc \in Connected, ~WrongSize, calls = <<>>, ~missed
               PROVE  TouchesLand
    BY DEF TouchesLand
  <2>1. config \in Configs /\ rotation \in Rotations
    BY DEF TypeOK
  <2>2. Computed /\ info.rotated = IsRotated(rotation) /\ page = info.size
    BY DEF InfoInv, Informed, Connected, Running, WrongSize
  <2>3. PICK q \in Rotations : info = InfoOf(config, q)
    BY <2>2 DEF Computed
  <2>4. info = Now
    BY <2>1, <2>2, <2>3, ComputedInfo, SameInfo DEF Now
  <2>5. /\ info \in ScreenInfo
        /\ Width(info.rect) > 0 /\ Height(info.rect) > 0
        /\ info.size.w > 0 /\ info.size.h > 0
    BY <2>1, <2>4, ComputedInfo DEF Now
  <2> DEFINE t == info.rect  v == info.size
  <2>6. /\ t.left \in Int /\ t.top \in Int /\ t.right \in Int /\ t.bottom \in Int
        /\ v.w \in Nat /\ v.h \in Nat /\ v.w > 0 /\ v.h > 0
    BY <2>5 DEF ScreenInfo, Rect, Size
  <2>7. /\ Width(t) = t.right - t.left /\ Height(t) = t.bottom - t.top
        /\ t.left < t.right /\ t.top < t.bottom
    BY <2>5, <2>6 DEF Width, Height
  <2> HIDE DEF t, v
  <2>8. Lands(t.left, t.right, Scaled(t.left, 0, Width(t), v.w), Scaled(t.left, v.w - 1, Width(t), v.w), v.w)
    BY <2>6, <2>7, ScaledLands
  <2>9. Lands(t.top, t.bottom, Scaled(t.top, 0, Height(t), v.h), Scaled(t.top, v.h - 1, Height(t), v.h), v.h)
    BY <2>6, <2>7, ScaledLands
  <2> QED
    BY <2>2, <2>4, <2>8, <2>9 DEF TouchesLand, PhysicalX, PhysicalY, t, v
<1> QED
  BY <1>1, <1>2, InfoStep, TypeCorrect, PTL DEF Spec
=============================================================================
