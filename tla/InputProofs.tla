---------------------------- MODULE InputProofs -----------------------------
(* Proofs about Input: nothing is typed twice, and nothing is left down, for *)
(* any number of keys and fingers; and about Window: main knows its size.    *)
EXTENDS Input, FiniteSetTheorems, SequenceLemmas, TLAPS

(* Between a press and its text event, reached counts the key events of the  *)
(* press; which handler is responsible depends on control and prefer_text,   *)
(* which do not change.                                                      *)
TypedInv == /\ control \in BOOLEAN /\ prefer_text \in BOOLEAN
            /\ IF text = NONE THEN control => reached = 1
               ELSE /\ text \in Printable
                    /\ reached = IF InputCodes(text) = {} THEN 0 ELSE 1

(* How many codes a key sends.                                               *)
LEMMA CodesSent == ASSUME NEW k
                   PROVE  Cardinality(InputCodes(k)) = IF InputCodes(k) = {} THEN 0 ELSE 1
<1>1. InputCodes(k) = {} \/ InputCodes(k) = {Keycode[k]}
  BY DEF InputCodes
<1> QED
  BY <1>1, FS_EmptySet, FS_Singleton

(* Every step keeps TypedInv.                                              *)
LEMMA TypedStep == ASSUME TypedInv, [Next]_vars PROVE TypedInv'
<1> USE DEF TypedInv
<1>1. ASSUME NEW k \in Keys, KeyDown(k) PROVE TypedInv'
  <2>1. UNCHANGED <<control, prefer_text>>
    BY <1>1 DEF KeyDown, optVars
  <2>2. CASE ~Types(k)
    BY <1>1, <2>1, <2>2 DEF KeyDown
  <2>3. CASE Types(k)
    <3>1. text' = k /\ reached' = Cardinality(DownCodes(k))
      BY <1>1, <2>3 DEF KeyDown
    <3>2. DownCodes(k) = InputCodes(k)
      BY <2>3 DEF Types, DownCodes, Codes
    <3>3. k \in Printable /\ k # NONE
      BY <2>3, InputAssumption DEF InputAssumption, Types, Printable, Letters
    <3>4. InputCodes(k)' = InputCodes(k)
      BY <2>1 DEF InputCodes, IsConverted
    <3>5. reached' = IF InputCodes(k) = {} THEN 0 ELSE 1
      BY <3>1, <3>2, CodesSent
    <3>6. InputCodes(text)' = InputCodes(k)
      BY <3>1, <3>4, <2>1 DEF InputCodes, IsConverted
    <3> QED
      BY <2>1, <3>1, <3>3, <3>5, <3>6
  <2> QED
    BY <2>2, <2>3
<1>2. CASE TextInput
  <2>1. /\ UNCHANGED <<control, prefer_text>> /\ text # NONE /\ text' = NONE
        /\ reached' = reached + IF TextInjected THEN 1 ELSE 0
    BY <1>2 DEF TextInput, optVars
  <2>2. control => (TextInjected <=> InputCodes(text) = {})
    BY <2>1 DEF TextInjected, InputCodes, IsConverted, Printable, Letters, Keycode
  <2> QED
    BY <2>1, <2>2
<1>3. CASE UNCHANGED <<control, prefer_text, text, reached>>
  BY <1>3 DEF InputCodes, IsConverted
<1>4. [Next]_vars => \/ \E k \in Keys : KeyDown(k)
                     \/ TextInput
                     \/ UNCHANGED <<control, prefer_text, text, reached>>
  BY DEF Next, KeyUp, ModChanges, MouseDown, MouseUp, MouseMoves, SimulatedMouse, Finger,
       WindowShortcut, NewFrame, UserOrWm, WindowEvent, Terminated, vars, optVars, keyVars
<1> QED
  BY <1>1, <1>2, <1>3, <1>4

(* Each character typed reaches the device once: convert_keycode() sends a   *)
(* key exactly when input_manager_process_text_input() will not send text.   *)
THEOREM TypedOnceHolds == Spec => []TypedOnce
<1>1. Init => TypedInv
  BY InputAssumption DEF Init, InputInit, InputAssumption, TypedInv
<1>2. TypedInv => TypedOnce
  BY DEF TypedInv, TypedOnce
<1> QED
  BY <1>1, <1>2, TypedStep, PTL DEF Spec

-----------------------------------------------------------------------------
(* A key under which no modifier changed has down on the device only what    *)
(* its release will send now.                                                *)
KeysInv == /\ held \subseteq Keys
           /\ \A c \in device_keys : \/ \E k \in held \ dirty : c \in Codes(k)
                                     \/ \E k \in dirty : c \in CodesOf(k)

(* What a key sends, whatever the modifiers, is among its codes.             *)
LEMMA CodesAreOfKey == \A k \in Keys : Codes(k) \subseteq CodesOf(k)
BY DEF Keys, Printable, Letters, Codes, CodesOf, ShortcutCodes, InputCodes, IsConverted,
     Keycode, Shortcut

(* Every step keeps KeysInv.                                               *)
LEMMA KeysStep == ASSUME KeysInv, [Next]_vars PROVE KeysInv'
<1> DEFINE same == UNCHANGED <<control, prefer_text, mods>>
<1>0. same => \A k : Codes(k)' = Codes(k)
  BY DEF Codes, ShortcutCodes, InputCodes, IsConverted
<1>c. \A k : CodesOf(k)' = CodesOf(k)
  BY DEF CodesOf
<1>1. ASSUME NEW k \in Keys, KeyDown(k) PROVE KeysInv'
  <2>1. /\ same /\ dirty' = dirty /\ held' = held \cup {k}
        /\ device_keys' = device_keys \cup DownCodes(k)
    BY <1>1 DEF KeyDown, optVars
  <2>2. DownCodes(k) \subseteq Codes(k)
    BY DEF DownCodes
  <2>3. DownCodes(k) \subseteq CodesOf(k)
    BY <2>2, CodesAreOfKey
  <2> QED
    BY <1>0, <1>c, <2>1, <2>2, <2>3 DEF KeysInv
<1>2. ASSUME NEW k \in Keys, KeyUp(k) PROVE KeysInv'
  <2>1. /\ same /\ dirty' = dirty /\ held' = held \ {k}
        /\ device_keys' = device_keys \ Codes(k)
    BY <1>2 DEF KeyUp, UpCodes, optVars
  <2> QED
    BY <1>0, <1>c, <2>1 DEF KeysInv
<1>3. ASSUME NEW m \in Mods, ModChanges(m) PROVE KeysInv'
  <2>1. dirty' = dirty \cup held /\ UNCHANGED <<held, device_keys>>
    BY <1>3 DEF ModChanges
  <2> QED
    BY <1>c, <2>1, CodesAreOfKey DEF KeysInv
<1>4. CASE UNCHANGED <<control, prefer_text, mods, held, dirty, device_keys>>
  BY <1>0, <1>c, <1>4 DEF KeysInv
<1>5. [Next]_vars => \/ \E k \in Keys : KeyDown(k) \/ KeyUp(k)
                     \/ \E m \in Mods : ModChanges(m)
                     \/ UNCHANGED <<control, prefer_text, mods, held, dirty, device_keys>>
  BY DEF Next, TextInput, MouseDown, MouseUp, MouseMoves, SimulatedMouse, Finger,
       WindowShortcut, NewFrame, UserOrWm, WindowEvent, Terminated, vars, optVars, keyVars
<1> QED
  BY <1>1, <1>2, <1>3, <1>4, <1>5

(* No key stays down on the device: the release sends the codes the press    *)
(* sent, unless a modifier changed in between.                               *)
THEOREM KeysReleasedHolds == Spec => []KeysReleased
<1>1. Init => KeysInv
  BY DEF Init, InputInit, KeysInv
<1>2. KeysInv => KeysReleased
  BY CodesAreOfKey DEF KeysInv, KeysReleased
<1> QED
  BY <1>1, <1>2, KeysStep, PTL DEF Spec

-----------------------------------------------------------------------------
(* Without control the mouse is never down on the device.                    *)
PointersInv == PointersHeld /\ (~control => "mouse" \notin pointers)

(* Every step keeps PointersInv.                                           *)
LEMMA PointersStep == ASSUME PointersInv, [Next]_vars PROVE PointersInv'
<1> USE DEF PointersInv, PointersHeld
<1>1. ASSUME NEW b \in Buttons, MouseDown(b) PROVE PointersInv'
  <2>1. /\ UNCHANGED <<control, fingers>> /\ buttons' = buttons \cup {b}
        /\ \E border \in BOOLEAN : Press("mouse", b, border)
    BY <1>1 DEF MouseDown, optVars
  <2>2. pointers' = pointers \/ (control /\ pointers' = pointers \cup {"mouse"})
    BY <2>1 DEF Press, Duplicate
  <2> QED
    BY <2>1, <2>2
<1>2. ASSUME NEW b \in Buttons, MouseUp(b) PROVE PointersInv'
  <2>1. /\ UNCHANGED <<control, fingers>>
        /\ pointers' = IF control THEN pointers \ {"mouse"} ELSE pointers
    BY <1>2 DEF MouseUp, Release, Duplicate, optVars
  <2> QED
    BY <2>1
<1>3. ASSUME NEW f \in Fingers, Finger(f) PROVE PointersInv'
  <2>1. /\ UNCHANGED <<control, buttons>> /\ f # "mouse"
        /\ \/ fingers' = fingers \cup {f} /\ pointers' = pointers \cup {f}
           \/ fingers' = fingers \ {f} /\ pointers' = pointers \ {f}
    BY <1>3 DEF Finger, Fingers, optVars
  <2> QED
    BY <2>1
<1>4. CASE SimulatedMouse
  BY <1>4 DEF SimulatedMouse, Press, Release, Duplicate, optVars
<1>5. CASE UNCHANGED <<control, buttons, fingers, pointers>>
  BY <1>5
<1>6. [Next]_vars => \/ \E b \in Buttons : MouseDown(b) \/ MouseUp(b)
                     \/ \E f \in Fingers : Finger(f)
                     \/ SimulatedMouse
                     \/ UNCHANGED <<control, buttons, fingers, pointers>>
  BY DEF Next, KeyDown, KeyUp, ModChanges, TextInput, MouseMoves, WindowShortcut, NewFrame,
       UserOrWm, WindowEvent, Terminated, vars, optVars, pointerVars
<1> QED
  BY <1>1, <1>2, <1>3, <1>4, <1>5, <1>6

(* No touch is left on the device: what is down there is a finger, or the    *)
(* mouse with some button held, since every release of a button is an UP.    *)
THEOREM PointersHeldHolds == Spec => []PointersHeld
<1>1. Init => PointersInv
  BY DEF Init, InputInit, PointersInv, PointersHeld
<1>2. PointersInv => PointersHeld
  BY DEF PointersInv
<1> QED
  BY <1>1, <1>2, PointersStep, PTL DEF Spec
-----------------------------------------------------------------------------
(* The window.  Its events on their way, by the mode it is in. *)
SC == "SIZE_CHANGED"
MX == "MAXIMIZED"
RS == "RESTORED"
Events == {SC, MX, RS}

(* The last event of events that tells a mode tells m; and none does.        *)
Tells(m, events) == \E j \in 1..Len(events) :
                      events[j] = m /\ \A i \in j + 1..Len(events) : events[i] = SC
TellsNone(events) == \A i \in 1..Len(events) : events[i] = SC

NormalMode == wm = "normal" /\ ~fullscreen /\ ~maximized

(* main knows the mode of the window manager, or will be told of it last.    *)
ModeInv == /\ wm = "maximized" => Tells(MX, wevents) \/ (maximized /\ TellsNone(wevents))
           /\ wm = "normal" => Tells(RS, wevents) \/ (~maximized /\ TellsNone(wevents))

(* main knows the size, or will be told, or does not care.                   *)
SizeInv == wevents # <<>> \/ fullscreen \/ maximized \/ windowed = win

(* The size main chose last is the window's in normal mode, and the one it   *)
(* will have in the others: windowed, or backup while the MAXIMIZED that     *)
(* reverts to it is on its way.  Only a SIZE_CHANGED that main has not seen  *)
(* leaves windowed behind.                                                   *)
Fits(fr, s) == Fills(fr, s) /\ s.w <= DISPLAY.w /\ s.h <= DISPLAY.h

Fitted == \/ /\ wevents \in NotMaximizing
             /\ NormalMode => Fits(frame_size, win)
             /\ (NormalMode /\ wevents = <<SC>>) \/ Fits(frame_size, windowed)
          \/ /\ wevents = <<SC, MX>> /\ ~fullscreen /\ ~maximized /\ wm = "maximized"
             /\ Fits(frame_size, windowed)
          \/ /\ wevents = <<MX>> /\ ~fullscreen /\ wm = "maximized"
             /\ Fits(frame_size, backup)

WindowTypes ==
  /\ frame_size \in FrameSizes
  /\ {windowed, backup, win, normal} \subseteq Size
  /\ fullscreen \in BOOLEAN /\ maximized \in BOOLEAN /\ fitted \in BOOLEAN
  /\ wm \in {"normal", "maximized"}
  /\ wevents \in Seq(Events)

WindowInv == WindowTypes /\ ModeInv /\ SizeInv /\ (fitted => Fitted)

(* Short sequences are what their elements are. *)
LEMMA SeqOfOne == ASSUME NEW T, NEW s \in Seq(T), Len(s) = 1 PROVE s = <<s[1]>>
BY SeqEqual

(* The same of two. *)
LEMMA SeqOfTwo == ASSUME NEW T, NEW s \in Seq(T), Len(s) = 2 PROVE s = <<s[1], s[2]>>
BY SeqEqual

(* Appending to none and to one. *)
LEMMA AppendShort ==
  ASSUME NEW a, NEW b
  PROVE  Append(<<>>, a) = <<a>> /\ Append(<<a>>, b) = <<a, b>>
<1> DEFINE s == Append(<<>>, a)  t == Append(<<a>>, b)
<1>1. <<>> \in Seq({a, b}) /\ <<a>> \in Seq({a, b})
  OBVIOUS
<1>2. /\ s \in Seq({a, b}) /\ Len(s) = 1 /\ s[1] = a
      /\ t \in Seq({a, b}) /\ Len(t) = 2 /\ t[1] = a /\ t[2] = b
  BY <1>1, AppendProperties
<1> QED
  BY <1>2, SeqOfOne, SeqOfTwo

(* Removing one of two. *)
LEMMA RemoveShort ==
  ASSUME NEW a, NEW b
  PROVE  /\ RemoveAt(<<a>>, 1) = <<>>
         /\ RemoveAt(<<a, b>>, 1) = <<b>>
         /\ RemoveAt(<<a, b>>, 2) = <<a>>
<1>1. {<<a>>, <<b>>, <<a, b>>} \subseteq Seq({a, b}) /\ Len(<<a, b>>) = 2
  OBVIOUS
<1>2. SubSeq(<<a, b>>, 1, 1) = <<a>> /\ SubSeq(<<a, b>>, 2, 2) = <<b>>
  <2> DEFINE s == SubSeq(<<a, b>>, 1, 1)  t == SubSeq(<<a, b>>, 2, 2)
  <2>1. s \in Seq({a, b}) /\ Len(s) = 1 /\ s[1] = a
    BY <1>1, SubSeqProperties
  <2>2. t \in Seq({a, b}) /\ Len(t) = 1 /\ t[1] = b
    BY <1>1, SubSeqProperties
  <2> HIDE DEF s, t
  <2>3. s = <<a>> /\ t = <<b>>
    BY <2>1, <2>2, SeqOfOne
  <2> QED
    BY <2>3 DEF s, t
<1>3. /\ SubSeq(<<a, b>>, 1, 0) = <<>> /\ SubSeq(<<a, b>>, 3, 2) = <<>>
      /\ SubSeq(<<a>>, 1, 0) = <<>> /\ SubSeq(<<a>>, 2, 1) = <<>>
  BY SubSeqEmpty
<1>4. <<>> \o <<>> = <<>> /\ <<a>> \o <<>> = <<a>> /\ <<>> \o <<b>> = <<b>>
  BY <1>1, ConcatEmptySeq
<1>5. Len(<<a>>) = 1 /\ 1 - 1 = 0 /\ 1 + 1 = 2 /\ 2 - 1 = 1 /\ 2 + 1 = 3
  OBVIOUS
<1>6. RemoveAt(<<a>>, 1) = SubSeq(<<a>>, 1, 0) \o SubSeq(<<a>>, 2, 1)
  BY <1>5 DEF RemoveAt
<1>7. RemoveAt(<<a, b>>, 1) = SubSeq(<<a, b>>, 1, 0) \o SubSeq(<<a, b>>, 2, 2)
  BY <1>1, <1>5 DEF RemoveAt
<1>8. RemoveAt(<<a, b>>, 2) = SubSeq(<<a, b>>, 1, 1) \o SubSeq(<<a, b>>, 3, 2)
  BY <1>1, <1>5 DEF RemoveAt
<1> QED
  BY <1>2, <1>3, <1>4, <1>6, <1>7, <1>8

(* Where the old SIZE_CHANGED is. *)
LEMMA IndexOfOld ==
  /\ SelectInSeq(<<SC>>, LAMBDA v : v = SC) = 1
  /\ SelectInSeq(<<SC, RS>>, LAMBDA v : v = SC) = 1
  /\ SelectInSeq(<<RS, SC>>, LAMBDA v : v = SC) = 2
<1> DEFINE I(q) == {i \in 1..Len(q) : q[i] = SC}
<1>1. I(<<SC>>) = {1} /\ I(<<SC, RS>>) = {1} /\ I(<<RS, SC>>) = {2}
  BY DEF SC, RS
<1>2. \A n \in Nat : Min({n}) = n
  BY DEF Min
<1> QED
  BY <1>1, <1>2 DEF SelectInSeq

(* SDL moves the SIZE_CHANGED to the end. *)
LEMMA SizeChangedOf ==
  /\ SizeChanged(<<>>) = <<SC>> /\ SizeChanged(<<SC>>) = <<SC>>
  /\ SizeChanged(<<RS>>) = <<RS, SC>>
  /\ SizeChanged(<<SC, RS>>) = <<RS, SC>> /\ SizeChanged(<<RS, SC>>) = <<RS, SC>>
<1>1. /\ RemoveFirst(<<>>, SC) = <<>> /\ RemoveFirst(<<RS>>, SC) = <<RS>>
  BY DEF RemoveFirst, SC, RS
<1>2. RemoveFirst(<<SC>>, SC) = <<>>
  BY IndexOfOld, RemoveShort DEF RemoveFirst
<1>3. RemoveFirst(<<SC, RS>>, SC) = <<RS>>
  <2>1. \E i \in 1..Len(<<SC, RS>>) : <<SC, RS>>[i] = SC
    OBVIOUS
  <2>2. RemoveFirst(<<SC, RS>>, SC) = RemoveAt(<<SC, RS>>, 1)
    BY <2>1, IndexOfOld DEF RemoveFirst
  <2> QED
    BY <2>2, RemoveShort
<1>4. RemoveFirst(<<RS, SC>>, SC) = <<RS>>
  <2>1. \E i \in 1..Len(<<RS, SC>>) : <<RS, SC>>[i] = SC
    OBVIOUS
  <2>2. RemoveFirst(<<RS, SC>>, SC) = RemoveAt(<<RS, SC>>, 2)
    BY <2>1, IndexOfOld DEF RemoveFirst
  <2> QED
    BY <2>2, RemoveShort
<1> QED
  BY <1>1, <1>2, <1>3, <1>4, AppendShort DEF SizeChanged, SC

-----------------------------------------------------------------------------
(* What get_optimal_size() gives fits, and the frame fills it: the side that *)
(* is scaled only gets shorter, by less than a pixel.                        *)
LEMMA ScaledDown ==
  ASSUME NEW p \in Nat, NEW q \in Nat, NEW x \in Nat, NEW y \in Nat, p > 0, q * x <= p * y
  PROVE  LET z == (q * x) \div p IN
         z \in Nat /\ z <= y /\ p * z <= q * x /\ q * x < p * z + p
<1> DEFINE z == (q * x) \div p  n == q * x
<1>1. n \in Nat
  OBVIOUS
<1>2. z \in Nat /\ p * z <= n /\ n < p * z + p
  BY <1>1
<1> HIDE DEF z
<1>3. z <= y
  <2> SUFFICES ASSUME z >= y + 1 PROVE FALSE
    BY <1>2
  <2>1. p * z >= p * (y + 1)
    BY <1>2
  <2>2. p * (y + 1) = p * y + p
    OBVIOUS
  <2> QED
    BY <1>1, <1>2, <2>1, <2>2
<1> QED
  BY <1>2, <1>3 DEF z

(* The frame's size, and all other constants, are sizes. *)
LEMMA OptimalFits ==
  ASSUME NEW s \in Size, NEW fr \in FrameSizes
  PROVE  OptimalSize(s, fr) \in Size /\ Fits(fr, OptimalSize(s, fr))
<1> DEFINE w == Lower(s.w, DISPLAY.w)  h == Lower(s.h, DISPLAY.h)
           slack == IF fr.w < fr.h THEN fr.h ELSE fr.w
<1>1. /\ fr.w \in Nat /\ fr.h \in Nat /\ fr.w > 0 /\ fr.h > 0
      /\ w \in Nat /\ h \in Nat /\ w <= DISPLAY.w /\ h <= DISPLAY.h
      /\ DISPLAY.w \in Nat /\ DISPLAY.h \in Nat
  BY WindowAssumption DEF Size, Lower
<1>2. slack \in Nat /\ slack > 0 /\ slack >= fr.w /\ slack >= fr.h
  BY <1>1
<1> HIDE DEF w, h, slack
<1>3. CASE KeepWidth(w, h, fr)
  <2> DEFINE z == (fr.h * w) \div fr.w
  <2>1. fr.h * w <= fr.w * h
    BY <1>1, <1>3 DEF KeepWidth
  <2>2. z \in Nat /\ z <= h /\ fr.w * z <= fr.h * w /\ fr.h * w < fr.w * z + fr.w
    BY <1>1, <2>1, ScaledDown
  <2>3. OptimalSize(s, fr) = [w |-> w, h |-> z]
    BY <1>1, <1>3 DEF OptimalSize, w, h
  <2> HIDE DEF z
  <2>4. fr.w * z \in Nat /\ fr.h * w \in Nat
    BY <1>1, <2>2
  <2>5. fr.w * z < fr.h * w + slack /\ fr.h * w < fr.w * z + slack
    BY <1>1, <1>2, <2>2, <2>4
  <2>6. Fills(fr, [w |-> w, h |-> z])
    BY <2>5 DEF Fills, slack
  <2> QED
    BY <1>1, <2>2, <2>3, <2>6 DEF Size, Fits
<1>4. CASE ~KeepWidth(w, h, fr)
  <2> DEFINE z == (fr.w * h) \div fr.h
  <2>1. fr.w * h <= fr.h * w
    BY <1>1, <1>4 DEF KeepWidth
  <2>2. z \in Nat /\ z <= w /\ fr.h * z <= fr.w * h /\ fr.w * h < fr.h * z + fr.h
    BY <1>1, <2>1, ScaledDown
  <2>3. OptimalSize(s, fr) = [w |-> z, h |-> h]
    BY <1>1, <1>4 DEF OptimalSize, w, h
  <2> HIDE DEF z
  <2>4. fr.h * z \in Nat /\ fr.w * h \in Nat
    BY <1>1, <2>2
  <2>5. fr.w * h < fr.h * z + slack /\ fr.h * z < fr.w * h + slack
    BY <1>1, <1>2, <2>2, <2>4
  <2>6. Fills(fr, [w |-> z, h |-> h])
    BY <2>5 DEF Fills, slack
  <2> QED
    BY <1>1, <2>2, <2>3, <2>6 DEF Size, Fits
<1> QED
  BY <1>3, <1>4

(* Dividing gives a natural number. *)
LEMMA DivNat ==
  ASSUME NEW a \in Nat, NEW b \in Nat, NEW c \in Nat, c > 0
  PROVE  (a * b) \div c \in Nat
<1>1. a * b \in Nat
  OBVIOUS
<1> QED
  BY <1>1

(* The constants are sizes. *)
LEMMA ConstantSizes ==
  /\ MaximizedSize \in Size /\ FullscreenSize \in Size /\ UserSizes \subseteq Size
  /\ \A fr \in FrameSizes : fr \in Size /\ fr.w \in Nat /\ fr.h \in Nat /\ fr.w > 0 /\ fr.h > 0
BY WindowAssumption DEF Size

(* A turned frame fits in the size chosen for it. *)
LEMMA TargetFits ==
  ASSUME WindowInv, NEW fr \in FrameSizes
  PROVE  TargetSize(fr) \in Size /\ Fits(fr, TargetSize(fr))
<1>1. WindowedSize.w \in Nat /\ WindowedSize.h \in Nat
  BY DEF WindowInv, WindowTypes, WindowedSize, Size
<1>2. /\ frame_size.w \in Nat /\ frame_size.h \in Nat /\ frame_size.w > 0 /\ frame_size.h > 0
      /\ fr.w \in Nat /\ fr.h \in Nat
  BY ConstantSizes DEF WindowInv, WindowTypes
<1>3. [w |-> (WindowedSize.w * fr.w) \div frame_size.w,
       h |-> (WindowedSize.h * fr.h) \div frame_size.h] \in Size
  BY <1>1, <1>2, DivNat DEF Size
<1> QED
  BY <1>3, OptimalFits DEF TargetSize

-----------------------------------------------------------------------------
(* What the events tell.  The names stay names. *)
LEMMA EventNames == SC # MX /\ SC # RS /\ RS # MX /\ {SC, MX, RS} = Events
BY DEF SC, MX, RS, Events

(* An event that tells a mode is the last to. *)
LEMMA AppendMode ==
  ASSUME NEW ev \in Seq(Events), NEW m \in {MX, RS}
  PROVE  /\ Append(ev, m) \in Seq(Events) /\ Append(ev, m) # <<>>
         /\ Tells(m, Append(ev, m))
<1>1. m \in Events
  BY EventNames
<1>2. /\ Append(ev, m) \in Seq(Events) /\ Append(ev, m) # <<>>
      /\ Len(Append(ev, m)) = Len(ev) + 1 /\ Append(ev, m)[Len(ev) + 1] = m
  BY <1>1, AppendProperties
<1>3. Len(ev) + 1 \in 1..Len(Append(ev, m))
  BY <1>2
<1> QED
  BY <1>2, <1>3 DEF Tells

(* SIZE_CHANGED tells none. *)
LEMMA AppendSize ==
  ASSUME NEW ev \in Seq(Events)
  PROVE  /\ Append(ev, SC) \in Seq(Events) /\ Append(ev, SC) # <<>>
         /\ \A m \in {MX, RS} : Tells(m, ev) => Tells(m, Append(ev, SC))
         /\ TellsNone(ev) => TellsNone(Append(ev, SC))
<1> DEFINE t == Append(ev, SC)
<1>1. /\ t \in Seq(Events) /\ t # <<>> /\ Len(t) = Len(ev) + 1
      /\ \A i \in 1..Len(ev) : t[i] = ev[i]
      /\ t[Len(ev) + 1] = SC
  BY AppendProperties, EventNames
<1>2. Len(ev) \in Nat
  OBVIOUS
<1> HIDE DEF t
<1>3. \A i \in 1..Len(t) : t[i] = SC \/ (i \in 1..Len(ev) /\ t[i] = ev[i])
  BY <1>1, <1>2
<1>4. ASSUME NEW m \in {MX, RS}, Tells(m, ev) PROVE Tells(m, t)
  <2>1. PICK j \in 1..Len(ev) : ev[j] = m /\ \A i \in j + 1..Len(ev) : ev[i] = SC
    BY <1>4 DEF Tells
  <2>2. j \in 1..Len(t) /\ t[j] = m
    BY <1>1, <1>2, <2>1
  <2>3. ASSUME NEW i \in j + 1..Len(t) PROVE t[i] = SC
    <3>1. i \in 1..Len(t) /\ (i \in 1..Len(ev) => i \in j + 1..Len(ev))
      BY <1>1, <1>2
    <3> QED
      BY <1>3, <2>1, <3>1
  <2> QED
    BY <2>2, <2>3 DEF Tells
<1>5. TellsNone(ev) => TellsNone(t)
  BY <1>3 DEF TellsNone
<1> QED
  BY <1>1, <1>4, <1>5 DEF t

(* Nor does it matter that the old one is removed. *)
LEMMA RemoveSize ==
  ASSUME NEW ev \in Seq(Events)
  PROVE  /\ RemoveFirst(ev, SC) \in Seq(Events)
         /\ \A m \in {MX, RS} : Tells(m, ev) => Tells(m, RemoveFirst(ev, SC))
         /\ TellsNone(ev) => TellsNone(RemoveFirst(ev, SC))
<1> DEFINE t == RemoveFirst(ev, SC)
<1>1. \/ t = ev
      \/ \E k \in 1..Len(ev) :
           /\ ev[k] = SC
           /\ t \in Seq(Events) /\ Len(t) = Len(ev) - 1
           /\ \A i \in 1..Len(ev) - 1 : t[i] = IF i < k THEN ev[i] ELSE ev[i + 1]
  BY RemoveFirstIs
<1> HIDE DEF t
<1>2. CASE t = ev
  BY <1>2 DEF t
<1>3. ASSUME NEW k \in 1..Len(ev), ev[k] = SC, t \in Seq(Events), Len(t) = Len(ev) - 1,
             \A i \in 1..Len(ev) - 1 : t[i] = IF i < k THEN ev[i] ELSE ev[i + 1]
      PROVE  /\ \A m \in {MX, RS} : Tells(m, ev) => Tells(m, t)
             /\ TellsNone(ev) => TellsNone(t)
  <2>1. ASSUME NEW m \in {MX, RS}, Tells(m, ev) PROVE Tells(m, t)
    <3>1. PICK j \in 1..Len(ev) : ev[j] = m /\ \A i \in j + 1..Len(ev) : ev[i] = SC
      BY <2>1 DEF Tells
    <3>2. j # k
      BY <1>3, <3>1, EventNames
    <3>3. CASE j < k
      <4>1. j \in 1..Len(t) /\ t[j] = m
        BY <1>3, <3>1, <3>3
      <4>2. ASSUME NEW i \in j + 1..Len(t) PROVE t[i] = SC
        <5>1. i \in 1..Len(ev) - 1 /\ i \in j + 1..Len(ev) /\ i + 1 \in j + 1..Len(ev)
          BY <1>3, <3>3
        <5> QED
          BY <1>3, <3>1, <5>1
      <4> QED
        BY <4>1, <4>2 DEF Tells
    <3>4. CASE j > k
      <4>1. j - 1 \in 1..Len(t) /\ j - 1 \in 1..Len(ev) - 1 /\ ~(j - 1 < k) /\ (j - 1) + 1 = j
        BY <1>3, <3>4
      <4>2. t[j - 1] = m
        BY <1>3, <3>1, <4>1
      <4>3. ASSUME NEW i \in (j - 1) + 1..Len(t) PROVE t[i] = SC
        <5>1. i \in 1..Len(ev) - 1 /\ ~(i < k) /\ i + 1 \in j + 1..Len(ev)
          BY <1>3, <3>4
        <5> QED
          BY <1>3, <3>1, <5>1
      <4> QED
        BY <4>1, <4>2, <4>3 DEF Tells
    <3> QED
      BY <3>2, <3>3, <3>4
  <2>2. ASSUME TellsNone(ev) PROVE TellsNone(t)
    <3>1. ASSUME NEW i \in 1..Len(t) PROVE t[i] = SC
      <4>1. i \in 1..Len(ev) - 1 /\ i \in 1..Len(ev) /\ i + 1 \in 1..Len(ev)
        BY <1>3
      <4> QED
        BY <1>3, <2>2, <4>1 DEF TellsNone
    <3> QED
      BY <3>1 DEF TellsNone
  <2> QED
    BY <2>1, <2>2
<1> QED
  BY <1>1, <1>2, <1>3 DEF t

(* So a new size tells nothing of the mode. *)
LEMMA SizeTells ==
  ASSUME NEW ev \in Seq(Events)
  PROVE  /\ SizeChanged(ev) \in Seq(Events) /\ SizeChanged(ev) # <<>>
         /\ \A m \in {MX, RS} : Tells(m, ev) => Tells(m, SizeChanged(ev))
         /\ TellsNone(ev) => TellsNone(SizeChanged(ev))
<1> DEFINE t == RemoveFirst(ev, SC)
<1>1. /\ t \in Seq(Events)
      /\ \A m \in {MX, RS} : Tells(m, ev) => Tells(m, t)
      /\ TellsNone(ev) => TellsNone(t)
  BY RemoveSize
<1>2. SizeChanged(ev) = Append(t, SC)
  BY DEF SizeChanged, SC
<1> HIDE DEF t
<1> QED
  BY <1>1, <1>2, AppendSize

(* A new mode is told whatever the order of its two events. *)
LEMMA ModeTold ==
  ASSUME NEW ev \in Seq(Events), NEW m \in {MX, RS}, NEW t,
         t \in {Append(SizeChanged(ev), m), SizeChanged(Append(ev, m))}
  PROVE  t \in Seq(Events) /\ t # <<>> /\ Tells(m, t)
<1>1. CASE t = Append(SizeChanged(ev), m)
  BY <1>1, SizeTells, AppendMode
<1>2. CASE t = SizeChanged(Append(ev, m))
  <2>1. Append(ev, m) \in Seq(Events) /\ Tells(m, Append(ev, m))
    BY AppendMode
  <2> QED
    BY <1>2, <2>1, SizeTells
<1> QED
  BY <1>1, <1>2

(* What is left to be told when the first event is handled. *)
LEMMA TailTells ==
  ASSUME NEW ev \in Seq(Events), ev # <<>>
  PROVE  /\ Tail(ev) \in Seq(Events)
         /\ \A m \in {MX, RS} : Tells(m, ev) => \/ Tells(m, Tail(ev))
                                                \/ Head(ev) = m /\ TellsNone(Tail(ev))
         /\ TellsNone(ev) => Head(ev) = SC /\ TellsNone(Tail(ev))
<1> DEFINE t == Tail(ev)
<1>1. /\ t \in Seq(Events) /\ Len(t) = Len(ev) - 1 /\ Len(ev) \in Nat /\ Len(ev) > 0
      /\ \A i \in 1..Len(t) : t[i] = ev[i + 1]
      /\ Head(ev) = ev[1]
  BY HeadTailProperties
<1> HIDE DEF t
<1>2. ASSUME NEW m \in {MX, RS}, Tells(m, ev)
      PROVE  Tells(m, t) \/ (Head(ev) = m /\ TellsNone(t))
  <2>1. PICK j \in 1..Len(ev) : ev[j] = m /\ \A i \in j + 1..Len(ev) : ev[i] = SC
    BY <1>2 DEF Tells
  <2>2. CASE j = 1
    <3>1. ASSUME NEW i \in 1..Len(t) PROVE t[i] = SC
      <4>1. i + 1 \in j + 1..Len(ev)
        BY <1>1, <2>2
      <4> QED
        BY <1>1, <2>1, <4>1
    <3> QED
      BY <1>1, <2>1, <2>2, <3>1 DEF TellsNone
  <2>3. CASE j > 1
    <3>1. j - 1 \in 1..Len(t) /\ (j - 1) + 1 = j
      BY <1>1, <2>3
    <3>2. t[j - 1] = m
      BY <1>1, <2>1, <3>1
    <3>3. ASSUME NEW i \in (j - 1) + 1..Len(t) PROVE t[i] = SC
      <4>1. i \in 1..Len(t) /\ i + 1 \in j + 1..Len(ev)
        BY <1>1, <2>3
      <4> QED
        BY <1>1, <2>1, <4>1
    <3> QED
      BY <3>1, <3>2, <3>3 DEF Tells
  <2> QED
    BY <2>2, <2>3
<1>3. ASSUME TellsNone(ev) PROVE Head(ev) = SC /\ TellsNone(t)
  <2>1. 1 \in 1..Len(ev) /\ \A i \in 1..Len(t) : i + 1 \in 1..Len(ev)
    BY <1>1
  <2> QED
    BY <1>1, <1>3, <2>1 DEF TellsNone
<1> QED
  BY <1>1, <1>2, <1>3 DEF t

(* Nothing tells nothing. *)
LEMMA NothingTold == TellsNone(<<>>) /\ \A m \in {MX, RS} : ~Tells(m, <<>>)
BY DEF Tells, TellsNone

(* Without MAXIMIZED, MAXIMIZED is not told. *)
LEMMA NotTold ==
  /\ \A ev \in NotMaximizing : ~Tells(MX, ev)
  /\ ~TellsNone(<<RS>>) /\ ~TellsNone(<<RS, SC>>) /\ ~TellsNone(<<SC, RS>>)
<1>1. \A ev : Tells(MX, ev) => \E j \in 1..Len(ev) : ev[j] = MX
  BY Zenon DEF Tells
<1>2. NotMaximizing = {<<>>, <<SC>>, <<RS>>, <<SC, RS>>, <<RS, SC>>}
  BY DEF NotMaximizing, SC, RS
<1>3. \A ev \in NotMaximizing : ~Tells(MX, ev)
  <2>1. /\ \A j \in 1..Len(<<SC>>) : <<SC>>[j] # MX
        /\ \A j \in 1..Len(<<RS>>) : <<RS>>[j] # MX
        /\ \A j \in 1..Len(<<SC, RS>>) : <<SC, RS>>[j] # MX
        /\ \A j \in 1..Len(<<RS, SC>>) : <<RS, SC>>[j] # MX
    BY EventNames
  <2>2. ~Tells(MX, <<SC>>) /\ ~Tells(MX, <<RS>>) /\ ~Tells(MX, <<SC, RS>>) /\ ~Tells(MX, <<RS, SC>>)
    BY <1>1, <2>1, Zenon
  <2>3. ~Tells(MX, <<>>)
    BY NothingTold
  <2> QED
    BY <1>2, <2>2, <2>3
<1>4. ~TellsNone(<<RS>>) /\ ~TellsNone(<<RS, SC>>) /\ ~TellsNone(<<SC, RS>>)
  <2>1. /\ 1 \in 1..Len(<<RS>>) /\ <<RS>>[1] = RS
        /\ 1 \in 1..Len(<<RS, SC>>) /\ <<RS, SC>>[1] = RS
        /\ 2 \in 1..Len(<<SC, RS>>) /\ <<SC, RS>>[2] = RS
    OBVIOUS
  <2> QED
    BY <2>1, EventNames, Zenon DEF TellsNone
<1> QED
  BY <1>3, <1>4

(* When all is handled, main knows the mode.  A mode is known, too, when no  *)
(* MAXIMIZED waits: a RESTORED that waits says normal.                       *)
LEMMA KnownMode ==
  ASSUME WindowTypes, ModeInv
  PROVE  /\ Calm => (maximized <=> wm = "maximized")
         /\ wevents \in NotMaximizing /\ ~maximized => wm = "normal"
         /\ wevents \in {<<RS>>, <<RS, SC>>} => wm = "normal"
<1>1. Calm => (maximized <=> wm = "maximized")
  BY NothingTold DEF Calm, WindowTypes, ModeInv
<1>2. wevents \in NotMaximizing /\ ~maximized => wm = "normal"
  BY NotTold DEF WindowTypes, ModeInv
<1>3. wevents \in {<<RS>>, <<RS, SC>>} => wm = "normal"
  <2>1. wevents \in {<<RS>>, <<RS, SC>>} => wevents \in NotMaximizing
    BY DEF NotMaximizing, SC, RS
  <2>2. wevents \in {<<RS>>, <<RS, SC>>} => ~TellsNone(wevents)
    BY NotTold
  <2> QED
    BY <2>1, <2>2, NotTold DEF WindowTypes, ModeInv
<1> QED
  BY <1>1, <1>2, <1>3

(* Sequences of events that differ. *)
LEMMA EventsDiffer ==
  /\ NotMaximizing = {<<>>, <<SC>>, <<RS>>, <<SC, RS>>, <<RS, SC>>}
  /\ <<MX>> \notin NotMaximizing /\ <<SC, MX>> \notin NotMaximizing
  /\ <<>> # <<SC>> /\ <<RS>> # <<SC>> /\ <<SC, RS>> # <<SC>> /\ <<RS, SC>> # <<SC>>
  /\ <<>> # <<MX>> /\ <<>> # <<SC, MX>>
BY DEF NotMaximizing, SC, MX, RS

(* The first event and the rest. *)
LEMMA EventsHead ==
  /\ Head(<<SC>>) = SC /\ Tail(<<SC>>) = <<>>
  /\ Head(<<MX>>) = MX /\ Tail(<<MX>>) = <<>>
  /\ Head(<<RS>>) = RS /\ Tail(<<RS>>) = <<>>
  /\ Head(<<SC, MX>>) = SC /\ Tail(<<SC, MX>>) = <<MX>>
  /\ Head(<<SC, RS>>) = SC /\ Tail(<<SC, RS>>) = <<RS>>
  /\ Head(<<RS, SC>>) = RS /\ Tail(<<RS, SC>>) = <<SC>>
OBVIOUS

(* What waits and is not of MAXIMIZED stays so. *)
LEMMA SizeNotMaximizing == \A ev \in NotMaximizing : SizeChanged(ev) \in NotMaximizing
BY SizeChangedOf, EventsDiffer

-----------------------------------------------------------------------------
(* At the start. *)
LEMMA WindowStart == WindowInit => WindowInv
<1> SUFFICES ASSUME WindowInit PROVE WindowInv
  OBVIOUS
<1>1. PICK rw \in Requests, rh \in Requests :
        windowed = InitialSize(frame_size, rw, rh) /\ fitted = (rw = 0 /\ rh = 0)
  BY DEF WindowInit
<1>2. /\ frame_size \in FrameSizes /\ frame_size \in Size
      /\ frame_size.w \in Nat /\ frame_size.h \in Nat /\ frame_size.w > 0 /\ frame_size.h > 0
      /\ rw \in Nat /\ rh \in Nat
  BY ConstantSizes, WindowAssumption DEF WindowInit
<1>3. windowed \in Size /\ (fitted => Fits(frame_size, windowed))
  <2>1. CASE rw = 0 /\ rh = 0
    BY <1>1, <1>2, <2>1, OptimalFits DEF InitialSize
  <2>2. CASE ~(rw = 0 /\ rh = 0)
    <3>1. /\ (rh * frame_size.w) \div frame_size.h \in Nat
          /\ (rw * frame_size.h) \div frame_size.w \in Nat
      BY <1>2, DivNat
    <3> QED
      BY <1>1, <1>2, <2>2, <3>1 DEF InitialSize, Size
  <2> QED
    BY <2>1, <2>2
<1>4. NoSize \in Size
  BY DEF NoSize, Size
<1>5. /\ win = windowed /\ normal = windowed /\ backup = NoSize
      /\ fullscreen = FALSE /\ maximized = FALSE /\ wm = "normal" /\ wevents = <<>>
  BY DEF WindowInit
<1>6. WindowTypes
  <2>1. fitted \in BOOLEAN
    BY <1>1
  <2>2. wevents \in Seq(Events)
    BY <1>5
  <2> QED
    BY <1>2, <1>3, <1>4, <1>5, <2>1, <2>2 DEF WindowTypes
<1>7. ModeInv /\ SizeInv
  BY <1>5, NothingTold DEF ModeInv, SizeInv
<1>8. fitted => Fitted
  BY <1>3, <1>5, EventsDiffer DEF Fitted
<1> QED
  BY <1>6, <1>7, <1>8 DEF WindowInv

(* Setting the size: ModeInv and what SizeInv needs, of a window that is     *)
(* normal, or held maximized with main yet to be told.                       *)
LEMMA SetSizeTells ==
  ASSUME NEW s \in Size, NEW ev \in Seq(Events), SetSize(s, ev), win \in Size, normal \in Size
  PROVE  /\ win' \in Size /\ normal' \in Size
         /\ wevents' \in Seq(Events) /\ (wevents' = ev \/ wevents' # <<>>)
         /\ \A m \in {MX, RS} : Tells(m, ev) => Tells(m, wevents')
         /\ TellsNone(ev) => TellsNone(wevents')
         /\ wm # "maximized" => win' = s /\ normal' = s /\ wevents' = SizeChanged(ev)
         /\ wevents' = SizeChanged(ev) \/ wm = "maximized"
<1>1. CASE win' = s /\ normal' = s /\ wevents' = SizeChanged(ev)
  BY <1>1, SizeTells
<1>2. CASE wm = "maximized" /\ wevents' = ev /\ UNCHANGED <<win, normal>>
  BY <1>2
<1> QED
  BY <1>1, <1>2 DEF SetSize

(* A new frame. *)
LEMMA FrameStep == ASSUME WindowInv, NEW fr \in FrameSizes, PrepareForFrame(fr) PROVE WindowInv'
<1> DEFINE t == TargetSize(fr)
<1>1. t \in Size /\ Fits(fr, t)
  BY TargetFits
<1> HIDE DEF t
<1>2. /\ frame_size' = fr /\ windowed' = t /\ fitted' = (wevents \in NotMaximizing)
      /\ UNCHANGED <<backup, fullscreen, maximized, wm>>
      /\ IF fullscreen \/ maximized THEN UNCHANGED <<win, normal, wevents>>
         ELSE SetSize(t, wevents)
  BY DEF PrepareForFrame, NotResized, t
<1>3. WindowTypes /\ ModeInv
  BY DEF WindowInv
<1>4. CASE fullscreen \/ maximized
  <2>1. WindowTypes'
    BY <1>1, <1>2, <1>3, <1>4 DEF WindowTypes
  <2>2. ModeInv' /\ SizeInv'
    BY <1>2, <1>3, <1>4 DEF ModeInv, SizeInv
  <2>3. fitted' => Fitted'
    BY <1>1, <1>2, <1>4 DEF Fitted, NormalMode
  <2> QED
    BY <2>1, <2>2, <2>3 DEF WindowInv
<1>5. CASE ~fullscreen /\ ~maximized
  <2>1. SetSize(t, wevents)
    BY <1>2, <1>5
  <2>2. /\ win' \in Size /\ normal' \in Size
        /\ wevents' \in Seq(Events) /\ (wevents' = wevents \/ wevents' # <<>>)
        /\ \A m \in {MX, RS} : Tells(m, wevents) => Tells(m, wevents')
        /\ TellsNone(wevents) => TellsNone(wevents')
        /\ wm # "maximized" => win' = t /\ normal' = t /\ wevents' = SizeChanged(wevents)
        /\ wevents' = SizeChanged(wevents) \/ wm = "maximized"
    BY <1>1, <1>3, <2>1, SetSizeTells DEF WindowTypes
  <2>3. WindowTypes'
    BY <1>1, <1>2, <1>3, <2>2 DEF WindowTypes
  <2>4. ModeInv'
    BY <1>2, <1>3, <2>2, EventNames DEF ModeInv
  <2>5. SizeInv'
    <3>1. CASE wm = "maximized"
      BY <1>3, <1>5, <2>2, <3>1, KnownMode DEF SizeInv, Calm
    <3>2. CASE wevents' = SizeChanged(wevents)
      BY <1>3, <3>2, SizeTells DEF SizeInv, WindowTypes
    <3> QED
      BY <2>2, <3>1, <3>2
  <2>6. ASSUME wevents \in NotMaximizing PROVE Fitted'
    <3>1. wm = "normal"
      BY <1>3, <1>5, <2>6, KnownMode
    <3>2. win' = t /\ wevents' \in NotMaximizing
      BY <2>2, <2>6, <3>1, SizeNotMaximizing
    <3> QED
      BY <1>1, <1>2, <3>2 DEF Fitted
  <2> QED
    BY <1>2, <2>3, <2>4, <2>5, <2>6 DEF WindowInv
<1> QED
  BY <1>4, <1>5

(* Ctrl+f. *)
LEMMA FullscreenStep == ASSUME WindowInv, SwitchFullscreen PROVE WindowInv'
<1>1. /\ fullscreen' = ~fullscreen /\ wevents' = SizeChanged(wevents)
      /\ UNCHANGED <<frame_size, windowed, backup, maximized, wm>>
      /\ fitted' = (fitted /\ (fullscreen \/ Calm))
  BY DEF SwitchFullscreen
<1>2. WindowTypes /\ ModeInv /\ (fitted => Fitted)
  BY DEF WindowInv
<1>3. /\ wevents' \in Seq(Events) /\ wevents' # <<>>
      /\ \A m \in {MX, RS} : Tells(m, wevents) => Tells(m, wevents')
      /\ TellsNone(wevents) => TellsNone(wevents')
  BY <1>1, <1>2, SizeTells DEF WindowTypes
<1>4. /\ win' \in {FullscreenSize, MaximizedSize, windowed, normal}
      /\ normal' \in {normal, windowed}
      /\ fullscreen /\ wm = "normal" /\ ~maximized => win' = windowed
  BY DEF SwitchFullscreen
<1>5. WindowTypes'
  BY <1>1, <1>2, <1>3, <1>4, ConstantSizes DEF WindowTypes, Calm
<1>6. ModeInv' /\ SizeInv'
  BY <1>1, <1>2, <1>3, EventNames DEF ModeInv, SizeInv
<1>7. ASSUME fitted, fullscreen \/ Calm PROVE Fitted'
  <2>1. wevents \in NotMaximizing /\ Fits(frame_size, windowed)
    <3>1. wevents \in NotMaximizing
      BY <1>2, <1>7, EventsDiffer DEF Fitted, Calm
    <3>2. ~(NormalMode /\ wevents = <<SC>>)
      BY <1>7, EventsDiffer DEF NormalMode, Calm
    <3> QED
      BY <1>2, <1>7, <3>1, <3>2, EventsDiffer DEF Fitted
  <2>2. wevents' \in NotMaximizing
    BY <1>1, <2>1, SizeNotMaximizing
  <2>3. NormalMode' => win' = windowed
    BY <1>1, <1>2, <1>4 DEF NormalMode, WindowTypes
  <2> QED
    BY <1>1, <2>1, <2>2, <2>3 DEF Fitted
<1> QED
  BY <1>1, <1>5, <1>6, <1>7 DEF WindowInv

(* Ctrl+x and Ctrl+g. *)
LEMMA ResizeStep ==
  ASSUME WindowInv, ResizeToFit \/ ResizeToPixelPerfect
  PROVE  WindowInv'
<1>1. WindowTypes /\ ModeInv
  BY DEF WindowInv
<1>2. ASSUME NEW s \in Size, NEW fits \in BOOLEAN, Resize(s, fits), fits => Fits(frame_size, s)
      PROVE  WindowInv'
  <2>1. /\ ~fullscreen /\ maximized' = FALSE
        /\ fitted' = (fits /\ ~maximized /\ wevents \in {<<>>, <<SC>>})
        /\ UNCHANGED <<frame_size, windowed, backup, fullscreen>>
    BY <1>2 DEF Resize, SC
  <2>2. CASE maximized /\ wm = "maximized"
    <3>1. /\ wm' = "normal" /\ win' = s /\ normal' = s
          /\ wevents' \in {Append(SizeChanged(wevents), RS), SizeChanged(Append(wevents, RS))}
      BY <1>2, <2>2 DEF Resize, RestoredAndSized, RS
    <3>2. wevents' \in Seq(Events) /\ wevents' # <<>> /\ Tells(RS, wevents')
      BY <1>1, <3>1, ModeTold DEF WindowTypes
    <3> QED
      BY <1>1, <1>2, <2>1, <2>2, <3>1, <3>2 DEF WindowInv, WindowTypes, ModeInv, SizeInv
  <2>3. CASE ~(maximized /\ wm = "maximized")
    <3>1. SetSize(s, wevents) /\ wm' = wm
      BY <1>2, <2>3 DEF Resize
    <3>2. /\ win' \in Size /\ normal' \in Size
          /\ wevents' \in Seq(Events) /\ (wevents' = wevents \/ wevents' # <<>>)
          /\ \A m \in {MX, RS} : Tells(m, wevents) => Tells(m, wevents')
          /\ TellsNone(wevents) => TellsNone(wevents')
          /\ wm # "maximized" => win' = s /\ normal' = s /\ wevents' = SizeChanged(wevents)
          /\ wevents' = SizeChanged(wevents) \/ wm = "maximized"
      BY <1>1, <1>2, <3>1, SetSizeTells DEF WindowTypes
    <3>3. WindowTypes'
      BY <1>1, <2>1, <3>1, <3>2 DEF WindowTypes
    <3>4. ModeInv'
      BY <1>1, <2>1, <2>3, <3>1, <3>2, EventNames DEF ModeInv
    <3>5. SizeInv'
      <4>1. CASE wm = "maximized"
        BY <1>1, <2>3, <3>2, <4>1, KnownMode DEF SizeInv, Calm
      <4>2. CASE wevents' = SizeChanged(wevents)
        BY <1>1, <4>2, SizeTells DEF SizeInv, WindowTypes
      <4> QED
        BY <3>2, <4>1, <4>2
    <3>6. ASSUME fits, ~maximized, wevents \in {<<>>, <<SC>>} PROVE Fitted'
      <4>1. wm = "normal"
        BY <1>1, <3>6, KnownMode, EventsDiffer
      <4>2. win' = s /\ wevents' = <<SC>>
        BY <3>2, <3>6, <4>1, SizeChangedOf
      <4>3. NormalMode'
        BY <2>1, <3>1, <4>1 DEF NormalMode
      <4> QED
        BY <1>2, <2>1, <3>6, <4>2, <4>3, EventsDiffer DEF Fitted
    <3> QED
      BY <2>1, <3>3, <3>4, <3>5, <3>6 DEF WindowInv
  <2> QED
    BY <2>2, <2>3
<1>3. CASE ResizeToFit
  <2>1. PICK s \in Size : Resize(OptimalSize(s, frame_size), TRUE)
    BY <1>1, <1>3 DEF ResizeToFit, WindowTypes
  <2>2. OptimalSize(s, frame_size) \in Size /\ Fits(frame_size, OptimalSize(s, frame_size))
    BY <1>1, OptimalFits DEF WindowTypes
  <2> QED
    BY <1>2, <2>1, <2>2
<1>4. CASE ResizeToPixelPerfect
  BY <1>1, <1>2, <1>4, ConstantSizes DEF ResizeToPixelPerfect, WindowTypes
<1> QED
  BY <1>3, <1>4

(* SIZE_CHANGED. *)
LEMMA SizeChangedStep == ASSUME WindowInv, HandleSizeChanged PROVE WindowInv'
<1>1. /\ wevents # <<>> /\ Head(wevents) = SC /\ wevents' = Tail(wevents)
      /\ IF ~fullscreen /\ ~maximized THEN backup' = windowed /\ windowed' = win
         ELSE UNCHANGED <<backup, windowed>>
      /\ UNCHANGED <<frame_size, fullscreen, maximized, win, wm, normal, fitted>>
  BY DEF HandleSizeChanged, SC
<1>2. WindowTypes /\ ModeInv /\ (fitted => Fitted)
  BY DEF WindowInv
<1>3. /\ wevents' \in Seq(Events)
      /\ \A m \in {MX, RS} : Tells(m, wevents) => Tells(m, wevents')
      /\ TellsNone(wevents) => TellsNone(wevents')
  BY <1>1, <1>2, TailTells, EventNames DEF WindowTypes
<1>4. WindowTypes'
  BY <1>1, <1>2, <1>3 DEF WindowTypes
<1>5. ModeInv' /\ SizeInv'
  BY <1>1, <1>2, <1>3, EventNames DEF ModeInv, SizeInv
<1>6. ASSUME fitted PROVE Fitted'
  <2>1. CASE wevents = <<SC, MX>>
    <3>1. ~fullscreen /\ ~maximized /\ wm = "maximized" /\ Fits(frame_size, windowed)
      BY <1>2, <1>6, <2>1, EventsDiffer, EventsHead, EventNames DEF Fitted
    <3> QED
      BY <1>1, <2>1, <3>1, EventsHead DEF Fitted
  <2>2. CASE wevents # <<SC, MX>>
    <3>1. /\ wevents \in NotMaximizing
          /\ NormalMode => Fits(frame_size, win)
          /\ (NormalMode /\ wevents = <<SC>>) \/ Fits(frame_size, windowed)
      BY <1>1, <1>2, <1>6, <2>2, EventsHead, EventNames DEF Fitted
    <3>2. wevents \in {<<SC>>, <<SC, RS>>}
      BY <1>1, <3>1, EventsDiffer, EventsHead, EventNames
    <3>3. wevents' \in NotMaximizing /\ (NormalMode' <=> NormalMode)
      BY <1>1, <3>2, EventsHead, EventsDiffer DEF NormalMode
    <3>4. ~fullscreen /\ ~maximized => NormalMode
      BY <1>2, <3>1, KnownMode DEF NormalMode
    <3>5. Fits(frame_size, windowed')
      BY <1>1, <3>1, <3>4 DEF NormalMode
    <3> QED
      BY <1>1, <3>1, <3>3, <3>5 DEF Fitted
  <2> QED
    BY <2>1, <2>2
<1> QED
  BY <1>1, <1>4, <1>5, <1>6 DEF WindowInv

(* MAXIMIZED. *)
LEMMA MaximizedStep == ASSUME WindowInv, HandleMaximized PROVE WindowInv'
<1>1. /\ wevents # <<>> /\ Head(wevents) = MX
      /\ UNCHANGED <<frame_size, backup, fullscreen, win, wm, normal, fitted>>
  BY DEF HandleMaximized, MX
<1>2. WindowTypes /\ ModeInv /\ (fitted => Fitted)
  BY DEF WindowInv
<1>3. CASE UNCHANGED <<windowed, maximized, wevents>>
  BY <1>1, <1>3 DEF WindowInv, WindowTypes, ModeInv, SizeInv, Fitted, NormalMode
<1>4. CASE windowed' = backup /\ maximized' = TRUE /\ wevents' = Tail(wevents)
  <2>1. /\ wevents' \in Seq(Events) /\ ~TellsNone(wevents)
        /\ Tells(RS, wevents) => Tells(RS, wevents')
        /\ Tells(MX, wevents) => Tells(MX, wevents') \/ TellsNone(wevents')
    BY <1>1, <1>2, <1>4, TailTells, EventNames DEF WindowTypes
  <2>2. WindowTypes'
    BY <1>1, <1>2, <1>4, <2>1 DEF WindowTypes
  <2>3. ModeInv' /\ SizeInv'
    BY <1>1, <1>2, <1>4, <2>1 DEF ModeInv, SizeInv
  <2>4. ASSUME fitted PROVE Fitted'
    <3>1. wevents = <<MX>>
      BY <1>1, <1>2, <2>4, EventsDiffer, EventsHead, EventNames DEF Fitted
    <3>2. Fits(frame_size, backup) /\ wevents' = <<>>
      BY <1>2, <1>4, <2>4, <3>1, EventsDiffer, EventsHead, EventNames DEF Fitted
    <3> QED
      BY <1>1, <1>4, <3>2, EventsDiffer DEF Fitted, NormalMode
  <2> QED
    BY <1>1, <2>2, <2>3, <2>4 DEF WindowInv
<1> QED
  BY <1>3, <1>4 DEF HandleMaximized, Reverted

(* RESTORED. *)
LEMMA RestoredStep == ASSUME WindowInv, HandleRestored PROVE WindowInv'
<1>1. /\ wevents # <<>> /\ Head(wevents) = RS /\ maximized' = FALSE
      /\ IF ~fullscreen THEN SetSize(windowed, Tail(wevents))
         ELSE wevents' = Tail(wevents) /\ UNCHANGED <<win, normal>>
      /\ UNCHANGED <<frame_size, windowed, backup, fullscreen, wm, fitted>>
  BY DEF HandleRestored, RS
<1>2. WindowTypes /\ ModeInv /\ (fitted => Fitted)
  BY DEF WindowInv
<1> DEFINE ev == Tail(wevents)
<1>3. /\ ev \in Seq(Events) /\ ~TellsNone(wevents)
      /\ Tells(RS, wevents) => Tells(RS, ev) \/ TellsNone(ev)
      /\ Tells(MX, wevents) => Tells(MX, ev)
  BY <1>1, <1>2, TailTells, EventNames DEF WindowTypes
<1> HIDE DEF ev
<1>4. /\ wevents' \in Seq(Events) /\ win' \in Size /\ normal' \in Size
      /\ wevents' = ev \/ wevents' # <<>>
      /\ \A m \in {MX, RS} : Tells(m, ev) => Tells(m, wevents')
      /\ TellsNone(ev) => TellsNone(wevents')
      /\ fullscreen => wevents' = ev
      /\ ~fullscreen /\ wm # "maximized" => win' = windowed /\ wevents' = SizeChanged(ev)
  <2>1. CASE fullscreen
    BY <1>1, <1>2, <1>3, <2>1 DEF WindowTypes, ev
  <2>2. CASE ~fullscreen
    <3>1. SetSize(windowed, ev) /\ windowed \in Size /\ win \in Size /\ normal \in Size
      BY <1>1, <1>2, <2>2 DEF WindowTypes, ev
    <3> QED
      BY <1>3, <2>2, <3>1, SetSizeTells
  <2> QED
    BY <2>1, <2>2
<1>5. WindowTypes'
  BY <1>1, <1>2, <1>4 DEF WindowTypes
<1>6. ModeInv'
  BY <1>1, <1>2, <1>3, <1>4 DEF ModeInv
<1>7. SizeInv'
  <2>1. CASE wm = "maximized"
    <3>1. Tells(MX, wevents')
      BY <1>2, <1>3, <1>4, <2>1 DEF ModeInv
    <3> QED
      BY <3>1, NothingTold DEF SizeInv
  <2>2. CASE wm # "maximized" /\ ~fullscreen
    BY <1>3, <1>4, <2>2, SizeTells DEF SizeInv
  <2>3. CASE fullscreen
    BY <1>1, <2>3 DEF SizeInv
  <2> QED
    BY <2>1, <2>2, <2>3
<1>8. ASSUME fitted PROVE Fitted'
  <2>1. wevents \in {<<RS>>, <<RS, SC>>} /\ Fits(frame_size, windowed)
    BY <1>1, <1>2, <1>8, EventsDiffer, EventsHead, EventNames DEF Fitted
  <2>2. wm = "normal" /\ ev \in {<<>>, <<SC>>}
    BY <1>2, <2>1, KnownMode, EventsHead DEF ev
  <2>3. wevents' \in NotMaximizing
    BY <1>4, <2>2, SizeChangedOf, EventsDiffer
  <2>4. NormalMode' => win' = windowed
    BY <1>1, <1>4, <2>2 DEF NormalMode
  <2> QED
    BY <1>1, <2>1, <2>3, <2>4 DEF Fitted
<1> QED
  BY <1>1, <1>5, <1>6, <1>7, <1>8 DEF WindowInv

(* The user and the window manager. *)
LEMMA UserStep ==
  ASSUME WindowInv, UserResizes \/ UserMaximizes \/ UserRestores
  PROVE  WindowInv'
<1>1. WindowTypes /\ ModeInv /\ (fitted => Fitted) /\ wevents \in Seq(Events)
  BY DEF WindowInv, WindowTypes
<1>2. Calm => (maximized <=> wm = "maximized")
  BY <1>1, KnownMode
<1>3. fitted /\ Calm => Fits(frame_size, windowed)
  BY <1>1, EventsDiffer DEF Fitted, Calm
<1>4. CASE UserResizes
  <2>1. /\ win' \in Size /\ normal' \in Size /\ wevents' = SizeChanged(wevents) /\ ~fitted'
        /\ UNCHANGED <<frame_size, windowed, backup, fullscreen, maximized, wm>>
        /\ fitted' \in BOOLEAN
    BY <1>4, ConstantSizes DEF UserResizes
  <2>2. /\ wevents' \in Seq(Events) /\ wevents' # <<>>
        /\ \A m \in {MX, RS} : Tells(m, wevents) => Tells(m, wevents')
        /\ TellsNone(wevents) => TellsNone(wevents')
    BY <1>1, <2>1, SizeTells
  <2> QED
    BY <1>1, <2>1, <2>2, EventNames DEF WindowInv, WindowTypes, ModeInv, SizeInv
<1>5. CASE UserMaximizes
  <2>1. /\ wm' = "maximized" /\ win' = MaximizedSize /\ ~fullscreen /\ wm = "normal"
        /\ wevents' \in {Append(SizeChanged(wevents), MX), SizeChanged(Append(wevents, MX))}
        /\ fitted' = (fitted /\ Calm /\ wevents' = <<SC, MX>>)
        /\ UNCHANGED <<frame_size, windowed, backup, fullscreen, maximized, normal>>
    BY <1>5 DEF UserMaximizes, SC, MX
  <2>2. wevents' \in Seq(Events) /\ wevents' # <<>> /\ Tells(MX, wevents')
    BY <1>1, <2>1, ModeTold
  <2>3. WindowTypes'
    BY <1>1, <2>1, <2>2, ConstantSizes DEF WindowTypes, Calm
  <2>4. ModeInv' /\ SizeInv'
    BY <2>1, <2>2 DEF ModeInv, SizeInv
  <2>5. fitted' => Fitted'
    BY <1>2, <1>3, <2>1 DEF Fitted
  <2> QED
    BY <2>3, <2>4, <2>5 DEF WindowInv
<1>6. CASE UserRestores
  <2>1. /\ wm' = "normal" /\ win' = normal /\ wm = "maximized"
        /\ wevents' \in {Append(SizeChanged(wevents), RS), SizeChanged(Append(wevents, RS))}
        /\ fitted' = (fitted /\ Calm)
        /\ UNCHANGED <<frame_size, windowed, backup, fullscreen, maximized, normal>>
    BY <1>6 DEF UserRestores, RestoredAndSized, RS
  <2>2. wevents' \in Seq(Events) /\ wevents' # <<>> /\ Tells(RS, wevents')
    BY <1>1, <2>1, ModeTold
  <2>3. WindowTypes'
    BY <1>1, <2>1, <2>2 DEF WindowTypes, Calm
  <2>4. ModeInv' /\ SizeInv'
    BY <2>1, <2>2 DEF ModeInv, SizeInv
  <2>5. ASSUME fitted, Calm PROVE Fitted'
    <3>1. wevents' \in {<<SC, RS>>, <<RS, SC>>}
      BY <2>1, <2>5, SizeChangedOf, AppendShort DEF Calm
    <3>2. maximized' /\ Fits(frame_size', windowed')
      BY <1>2, <1>3, <2>1, <2>5
    <3> QED
      BY <3>1, <3>2, EventsDiffer DEF Fitted, NormalMode
  <2> QED
    BY <2>1, <2>3, <2>4, <2>5 DEF WindowInv
<1> QED
  BY <1>4, <1>5, <1>6

(* What the other inputs do to the window: nothing, or a double click.       *)
LEMMA WindowSteps ==
  [Next]_vars => \/ \E fr \in FrameSizes : PrepareForFrame(fr)
                 \/ SwitchFullscreen \/ ResizeToFit \/ ResizeToPixelPerfect
                 \/ HandleSizeChanged \/ HandleMaximized \/ HandleRestored
                 \/ UserResizes \/ UserMaximizes \/ UserRestores
                 \/ UNCHANGED windowVars
<1>1. ASSUME NEW b \in Buttons, MouseDown(b)
      PROVE  UNCHANGED windowVars \/ ResizeToFit
  BY <1>1 DEF MouseDown, Press, Duplicate
<1>2. ASSUME NEW b \in Buttons, MouseUp(b) PROVE UNCHANGED windowVars
  BY <1>2 DEF MouseUp, Release
<1>3. CASE SimulatedMouse
  BY <1>3 DEF SimulatedMouse, Press, Release, Duplicate
<1>4. CASE WindowShortcut \/ NewFrame \/ UserOrWm \/ WindowEvent
  BY <1>4 DEF WindowShortcut, NewFrame, UserOrWm, WindowEvent, HandleWindowEvent
<1>5. CASE \/ \E k \in Keys : KeyDown(k) \/ KeyUp(k)
           \/ \E m \in Mods : ModChanges(m)
           \/ \E f \in Fingers : Finger(f)
           \/ TextInput \/ MouseMoves \/ Terminated \/ UNCHANGED vars
  BY <1>5 DEF KeyDown, KeyUp, ModChanges, Finger, TextInput, MouseMoves, Terminated, vars
<1> QED
  BY <1>1, <1>2, <1>3, <1>4, <1>5 DEF Next

(* The variables of Window have their types; main knows the mode and the     *)
(* size of the window or will be told.                                       *)
LEMMA WindowInvHolds == Spec => []WindowInv
<1>1. Init => WindowInv
  BY WindowStart DEF Init
<1>2. WindowInv /\ UNCHANGED windowVars => WindowInv'
  BY DEF WindowInv, WindowTypes, ModeInv, SizeInv, Fitted, windowVars, NormalMode
<1>3. WindowInv /\ [Next]_vars => WindowInv'
  BY <1>2, WindowSteps, FrameStep, FullscreenStep, ResizeStep, SizeChangedStep, MaximizedStep,
     RestoredStep, UserStep
<1> QED
  BY <1>1, <1>3, PTL DEF Spec

(* When no event waits, main knows the mode and the size of the window, for  *)
(* all sizes, any number of events and any order of them; and the video      *)
(* fills a window whose size the program chose, which fits in the display,   *)
(* if its modes were told one at a time and SIZE_CHANGED before MAXIMIZED.   *)
THEOREM WindowAgreesHolds == Spec => []WindowAgrees
<1>1. WindowInv => WindowAgrees
  <2> SUFFICES ASSUME WindowInv, Calm PROVE WindowAgrees
    BY DEF WindowAgrees
  <2>1. /\ maximized <=> wm = "maximized"
        /\ ~fullscreen /\ ~maximized => windowed = win
    BY KnownMode DEF WindowInv, SizeInv, Calm
  <2>2. ~fullscreen /\ ~maximized => NormalMode
    BY <2>1 DEF WindowInv, WindowTypes, NormalMode
  <2>3. fitted /\ NormalMode => Fits(frame_size, win)
    BY EventsDiffer DEF WindowInv, Fitted, Calm
  <2> QED
    BY <2>1, <2>2, <2>3 DEF WindowAgrees, Fits
<1> QED
  BY <1>1, WindowInvHolds, PTL
=============================================================================
