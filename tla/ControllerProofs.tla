-------------------------- MODULE ControllerProofs --------------------------
(***************************************************************************)
(* Proofs about Controller, for every capacity of the buffer and any       *)
(* number of messages.                                                     *)
(***************************************************************************)
EXTENDS Controller, SequenceTheorems, TLAPS

(* The slots between tail and head, without the arithmetic modulo Size.    *)
Used(i) == IF tail <= head THEN tail <= i /\ i < head ELSE tail <= i \/ i < head

(* They hold messages, and a thread that processes one has it.             *)
RingInv == /\ \A i \in 0..Capacity : Used(i) => data[i] \in Msgs
           /\ ctl = "process" => msg \in Msgs

-----------------------------------------------------------------------------
(* The next slot of the ring.                                              *)
LEMMA NextSlot ==
  ASSUME CtlAssumption, NEW i \in 0..Capacity
  PROVE  /\ (i + 1) % Size = IF i = Capacity THEN 0 ELSE i + 1
         /\ (i + 1) % Size \in 0..Capacity
<1>1. Capacity \in Nat \ {0}
  BY DEF CtlAssumption
<1>2. CASE i = Capacity
  <2>1. (Capacity + 1) % (Capacity + 1) = 0
    BY <1>1
  <2> QED
    BY <1>1, <1>2, <2>1 DEF Size
<1>3. CASE i # Capacity
  <2>1. i + 1 \in 0..Capacity
    BY <1>1, <1>3
  <2>2. (i + 1) % (Capacity + 1) = i + 1
    BY <1>1, <2>1
  <2> QED
    BY <1>1, <1>3, <2>1, <2>2 DEF Size
<1> QED
  BY <1>2, <1>3

(* A push into a buffer that is not full fills the slot at head.           *)
LEMMA PushEffect ==
  ASSUME CtlAssumption, TypeOK, RingInv, ~IsFull, NEW m \in Msgs, CbufPush(m)
  PROVE  /\ data' \in [0..Capacity -> Msgs \cup {NoMsg}]
         /\ head' \in 0..Capacity /\ tail' = tail
         /\ \A i \in 0..Capacity : Used(i)' => data'[i] \in Msgs
<1>1. head \in 0..Capacity /\ tail \in 0..Capacity /\ Capacity \in Nat
  BY DEF TypeOK, CtlAssumption
<1>2. /\ head' = IF head = Capacity THEN 0 ELSE head + 1
      /\ head' \in 0..Capacity /\ tail' = tail /\ head' # tail
  BY <1>1, NextSlot DEF CbufPush, IsFull
<1>3. \A i \in 0..Capacity : Used(i)' => Used(i) \/ i = head
  BY <1>1, <1>2 DEF Used
<1>4. data' = [data EXCEPT ![head] = m] /\ data \in [0..Capacity -> Msgs \cup {NoMsg}]
  BY DEF CbufPush, TypeOK
<1> QED
  BY <1>1, <1>2, <1>3, <1>4 DEF RingInv

(* A take from a buffer that is not empty frees the slot at tail.          *)
LEMMA TakeEffect ==
  ASSUME CtlAssumption, TypeOK, RingInv, ~IsEmpty, CbufTake
  PROVE  /\ msg' = data[tail] /\ data[tail] \in Msgs /\ data' = data
         /\ tail' \in 0..Capacity /\ head' = head
         /\ \A i \in 0..Capacity : Used(i)' => data'[i] \in Msgs
<1>1. head \in 0..Capacity /\ tail \in 0..Capacity /\ Capacity \in Nat
  BY DEF TypeOK, CtlAssumption
<1>2. /\ tail' = IF tail = Capacity THEN 0 ELSE tail + 1
      /\ tail' \in 0..Capacity /\ head' = head /\ data' = data /\ msg' = data[tail]
  BY <1>1, NextSlot DEF CbufTake
<1>3. Used(tail)
  BY <1>1 DEF Used, IsEmpty
<1>4. \A i \in 0..Capacity : Used(i)' => Used(i)
  BY <1>1, <1>2 DEF Used, IsEmpty
<1> QED
  BY <1>1, <1>2, <1>3, <1>4 DEF RingInv

(* Freeing a set of messages counts up those of the set.                   *)
LEMMA FreeType ==
  ASSUME freed \in [Msgs -> Nat], NEW ms, Free(ms)
  PROVE  freed' \in [Msgs -> Nat]
BY DEF Free

-----------------------------------------------------------------------------
(* The ring starts empty and well-typed.                                   *)
LEMMA TypeInit == CtlAssumption /\ Init => TypeOK /\ RingInv
<1> SUFFICES ASSUME CtlAssumption, Init PROVE TypeOK /\ RingInv
  OBVIOUS
<1>1. 0 \in 0..Capacity /\ 0 \in 0..MaxMsgs /\ NoMsg \in Msgs \cup {NoMsg}
  BY DEF CtlAssumption
<1>2. freed \in [Msgs -> Nat] /\ out \in Seq(Msgs)
  BY DEF Init
<1> QED
  BY <1>1, <1>2 DEF Init, TypeOK, RingInv, Used

(* Every step keeps the ring well-typed: what is taken is a message.       *)
LEMMA TypeStep ==
  ASSUME CtlAssumption, TypeOK, RingInv, [Next]_vars
  PROVE  TypeOK' /\ RingInv'
<1> USE DEF TypeOK
<1>1. CASE PushMsg
  <2>1. pushed + 1 \in Msgs /\ pushed' = pushed + 1 /\ pushed' \in 0..MaxMsgs
    BY <1>1 DEF PushMsg, Msgs, CtlAssumption
  <2>2. freed' \in [Msgs -> Nat]
    BY <1>1, FreeType DEF PushMsg
  <2>3. ctl' \in {ctl, "check"}
    BY <1>1 DEF PushMsg, PushSignals, Signal
  <2>4. CASE IsFull
    BY <1>1, <2>1, <2>2, <2>3, <2>4 DEF PushMsg, ring, RingInv, Used
  <2>5. CASE ~IsFull
    BY <1>1, <2>1, <2>2, <2>3, <2>5, PushEffect DEF PushMsg, RingInv
  <2> QED
    BY <2>4, <2>5
<1>2. CASE TakeMsg
  <2>1. ~IsEmpty /\ CbufTake
    BY <1>2 DEF TakeMsg, MustWait
  <2>2. out' \in Seq(Msgs)
    BY <1>2, <2>1, TakeEffect, AppendProperties DEF TakeMsg
  <2> QED
    BY <1>2, <2>1, <2>2, TakeEffect DEF TakeMsg, RingInv
<1>3. CASE ProcessMsg
  <2>1. freed' \in [Msgs -> Nat] /\ ctl' \in {"check", "done"} /\ msg' = NoMsg
    BY <1>3, FreeType DEF ProcessMsg
  <2> QED
    BY <1>3, <2>1 DEF ProcessMsg, ring, RingInv, Used
<1>4. CASE Destroy
  <2>1. freed' \in [Msgs -> Nat]
    BY <1>4, FreeType DEF Destroy
  <2>2. \A i \in 0..Capacity : ~Used(i)'
    BY <1>4 DEF Destroy, Used, CtlAssumption
  <2> QED
    BY <1>4, <2>1, <2>2 DEF Destroy, RingInv
<1>5. CASE Stop
  <2>1. ctl' \in {ctl, "check"}
    BY <1>5 DEF Stop, Signal
  <2> QED
    BY <1>5, <2>1 DEF Stop, ring, RingInv, Used
<1>6. CASE Wait \/ Leave \/ SpuriousWakeup \/ Start \/ ShutdownSocket \/ Join \/ SocketBreaks
  BY <1>6 DEF Wait, Leave, SpuriousWakeup, Start, ShutdownSocket, Join, SocketBreaks,
       ring, RingInv, Used
<1>7. CASE UNCHANGED vars
  BY <1>7 DEF vars, ring, RingInv, Used
<1> QED
  BY <1>1, <1>2, <1>3, <1>4, <1>5, <1>6, <1>7
     DEF Next, ControllerThread, Shutdown, Terminated

(* Type correctness: the indices stay in the buffer whatever wraps, and    *)
(* what is taken from it is a message, never an unused slot.               *)
THEOREM TypeCorrect == Spec => []TypeOK
<1> QED
  BY CtlAssumption, TypeInit, TypeStep, PTL DEF Spec

(* The controller thread never sleeps while a message waits or it should   *)
(* stop: when it sleeps the buffer is empty, and the push into an empty    *)
(* buffer is the one that signals.                                         *)
THEOREM NoLostWakeupHolds == Spec => []NoLostWakeup
<1>1. Init => NoLostWakeup
  BY DEF Init, NoLostWakeup
<1>2. TypeOK /\ NoLostWakeup /\ [Next]_vars => NoLostWakeup'
  <2> SUFFICES ASSUME TypeOK, NoLostWakeup, [Next]_vars PROVE NoLostWakeup'
    OBVIOUS
  <2> USE DEF NoLostWakeup, IsEmpty
  <2>1. CASE PushMsg
    <3>1. ctl' # "waiting"
      BY <2>1 DEF PushMsg, PushSignals, Signal
    <3> QED
      BY <3>1
  <2>2. CASE Stop
    <3>1. ctl' # "waiting"
      BY <2>2 DEF Stop, Signal
    <3> QED
      BY <3>1
  <2>3. CASE Wait
    BY <2>3 DEF Wait, MustWait, ring
  <2>4. CASE Leave \/ TakeMsg \/ ProcessMsg \/ SpuriousWakeup
    BY <2>4 DEF Leave, TakeMsg, ProcessMsg, SpuriousWakeup
  <2>5. CASE Destroy
    BY <2>5 DEF Destroy
  <2>6. CASE Start \/ ShutdownSocket \/ Join \/ SocketBreaks
    BY <2>6 DEF Start, ShutdownSocket, Join, SocketBreaks, ring
  <2>7. CASE UNCHANGED vars
    BY <2>7 DEF vars, ring
  <2> QED
    BY <2>1, <2>2, <2>3, <2>4, <2>5, <2>6, <2>7
       DEF Next, ControllerThread, Shutdown, Terminated
<1> QED
  BY <1>1, <1>2, TypeCorrect, PTL DEF Spec

(* Were send() to write whole messages only, the thread would end for no   *)
(* reason but the shutdown or a broken socket.                             *)
THEOREM WholeSendsEndForAReason ==
  ASSUME PARTIAL_SEND = FALSE
  PROVE  Spec => []ThreadEndsForAReason
<1>1. Init => ThreadEndsForAReason
  BY DEF Init, ThreadEndsForAReason
<1>2. TypeOK /\ ThreadEndsForAReason /\ [Next]_vars => ThreadEndsForAReason'
  <2> SUFFICES ASSUME TypeOK, ThreadEndsForAReason, [Next]_vars PROVE ThreadEndsForAReason'
    OBVIOUS
  <2> USE DEF ThreadEndsForAReason
  <2>1. CASE ProcessMsg
    BY <2>1, PARTIAL_SEND = FALSE DEF ProcessMsg, SendSucceeds
  <2>2. CASE PushMsg \/ Stop
    BY <2>2 DEF PushMsg, PushSignals, Stop, Signal
  <2>3. CASE ControllerThread /\ ~ProcessMsg
    BY <2>3 DEF ControllerThread, Wait, Leave, TakeMsg
  <2>4. CASE SpuriousWakeup \/ Start \/ Shutdown \/ SocketBreaks
    BY <2>4 DEF SpuriousWakeup, Start, Shutdown, ShutdownSocket, Join, Destroy, SocketBreaks
  <2>5. CASE UNCHANGED vars
    BY <2>5 DEF vars
  <2> QED
    BY <2>1, <2>2, <2>3, <2>4, <2>5 DEF Next, Terminated
<1> QED
  BY <1>1, <1>2, TypeCorrect, PTL DEF Spec

-----------------------------------------------------------------------------
(***************************************************************************)
(* The ring of Controller is a queue: what a push and a take do to its     *)
(* contents, the refinement of BoundedFifo, and who owns a message.        *)
(***************************************************************************)
(* The modulo of a sum of two indices.                                     *)
LEMMA ModOnce ==
  ASSUME NEW n \in Nat \ {0}, NEW x \in Nat, x < n + n
  PROVE  x % n = IF x < n THEN x ELSE x - n
<1>1. CASE x < n
  BY <1>1
<1>2. CASE x >= n
  <2> DEFINE q == x \div n
  <2>1. q \in Int /\ x = n * q + (x % n) /\ 0 <= x % n /\ x % n < n
    OBVIOUS
  <2> HIDE DEF q
  <2>2. CASE q <= 0
    <3>1. n * q <= 0
      BY <2>1, <2>2
    <3> QED
      BY <1>2, <2>1, <3>1
  <2>3. CASE q >= 2
    <3>1. n * q >= n * 2
      BY <2>1, <2>3
    <3> QED
      BY <1>2, <2>1, <3>1
  <2>4. CASE q = 1
    BY <2>1, <2>4, <1>2
  <2> QED
    BY <2>1, <2>2, <2>3, <2>4
<1> QED
  BY <1>1, <1>2

(* The number of items, the slot of the i-th one, and the items, without   *)
(* the modulo.                                                             *)
Held(h, t) == IF t <= h THEN h - t ELSE h + Size - t
Slot(t, i) == IF t + i <= Size THEN t + i - 1 ELSE t + i - 1 - Size
Segment(d, h, t) == [i \in 1..Held(h, t) |-> d[Slot(t, i)]]

(* The ring has one slot more than it holds.                               *)
LEMMA SizeType == Capacity \in Nat \ {0} /\ Size = Capacity + 1 /\ Size \in Nat \ {0}
BY CtlAssumption DEF CtlAssumption, Size

(* The number of items, without the modulo.                                *)
LEMMA HeldIs ==
  ASSUME NEW h \in 0..Capacity, NEW t \in 0..Capacity
  PROVE  (h + Size - t) % Size = Held(h, t) /\ Held(h, t) \in 0..Capacity
<1> DEFINE x == h + Size - t
<1>1. x \in Nat /\ x < Size + Size
  BY SizeType
<1> HIDE DEF x
<1>2. x % Size = IF x < Size THEN x ELSE x - Size
  BY SizeType, <1>1, ModOnce
<1> USE DEF x
<1>3. Held(h, t) = IF x < Size THEN x ELSE x - Size
  BY SizeType DEF Held
<1> QED
  BY SizeType, <1>2, <1>3 DEF Held

(* The slot of the i-th item, without the modulo.                          *)
LEMMA SlotIs ==
  ASSUME NEW t \in 0..Capacity, NEW i \in 1..Capacity
  PROVE  (t + i - 1) % Size = Slot(t, i) /\ Slot(t, i) \in 0..Capacity
<1> DEFINE x == t + i - 1
<1>1. x \in Nat /\ x < Size + Size
  BY SizeType
<1> HIDE DEF x
<1>2. x % Size = IF x < Size THEN x ELSE x - Size
  BY SizeType, <1>1, ModOnce
<1> USE DEF x
<1>3. Slot(t, i) = IF x < Size THEN x ELSE x - Size
  BY SizeType DEF Slot
<1> QED
  BY SizeType, <1>2, <1>3 DEF Slot

(* What Contents computes.                                                 *)
LEMMA SegmentIs ==
  ASSUME NEW d, NEW h \in 0..Capacity, NEW t \in 0..Capacity
  PROVE  [i \in 1..((h + Size - t) % Size) |-> d[(t + i - 1) % Size]] = Segment(d, h, t)
<1>1. \A i \in 1..Held(h, t) : (t + i - 1) % Size = Slot(t, i)
  BY HeldIs, SlotIs, SizeType
<1> QED
  BY <1>1, HeldIs DEF Segment

(* Every slot of a segment holds a message: Used of ControllerProofs.      *)
Filled(d, h, t) == \A i \in 1..Held(h, t) : d[Slot(t, i)] \in Msgs

(* RingInv says that the whole segment holds messages.                     *)
LEMMA RingFilled == ASSUME TypeOK, RingInv PROVE Filled(data, head, tail)
<1>1. head \in 0..Capacity /\ tail \in 0..Capacity
  BY DEF TypeOK
<1>2. ASSUME NEW i \in 1..Held(head, tail) PROVE data[Slot(tail, i)] \in Msgs
  <2>1. i \in 1..Capacity
    BY <1>1, HeldIs, SizeType
  <2>2. Slot(tail, i) \in 0..Capacity
    BY <1>1, <2>1, SlotIs
  <2>3. Used(Slot(tail, i))
    BY <1>1, <2>1, SizeType DEF Slot, Held, Used
  <2> QED
    BY <2>2, <2>3 DEF RingInv
<1> QED
  BY <1>2 DEF Filled

(* A filled segment is a sequence of messages.                             *)
LEMMA SegmentType ==
  ASSUME NEW d, NEW h \in 0..Capacity, NEW t \in 0..Capacity, Filled(d, h, t)
  PROVE  /\ Segment(d, h, t) \in Seq(Msgs) /\ Len(Segment(d, h, t)) = Held(h, t)
         /\ DOMAIN Segment(d, h, t) = 1..Held(h, t)
         /\ \A i \in 1..Held(h, t) : Segment(d, h, t)[i] = d[Slot(t, i)]
<1>1. Held(h, t) \in Nat
  BY HeldIs
<1> QED
  BY <1>1 DEF Segment, Filled

(* The slot after s, as the macros compute it.                             *)
After(s) == IF s = Capacity THEN 0 ELSE s + 1

(* A push into a ring that is not full appends.                            *)
LEMMA SegmentPush ==
  ASSUME NEW d \in [0..Capacity -> Msgs \cup {NoMsg}], NEW h \in 0..Capacity,
         NEW t \in 0..Capacity, Filled(d, h, t), NEW m \in Msgs, After(h) # t
  PROVE  /\ Segment([d EXCEPT ![h] = m], After(h), t) = Append(Segment(d, h, t), m)
         /\ Held(h, t) < Capacity
<1> DEFINE e == [d EXCEPT ![h] = m]
           n == Held(h, t)
<1>1. n \in Nat /\ n < Capacity /\ Held(After(h), t) = n + 1 /\ After(h) \in 0..Capacity
  BY SizeType DEF Held, After
<1>2. Slot(t, n + 1) = h
  BY SizeType DEF Held, Slot
<1>3. \A i \in 1..n : Slot(t, i) # h /\ Slot(t, i) \in 0..Capacity
  BY SizeType, <1>1 DEF Held, Slot
<1> HIDE DEF n
<1>4. /\ \A i \in 1..n : e[Slot(t, i)] = d[Slot(t, i)]
      /\ e[Slot(t, n + 1)] = m
  BY <1>2, <1>3
<1> HIDE DEF e
<1>5. Filled(e, After(h), t)
  BY <1>1, <1>4 DEF Filled, n
<1>6. /\ Segment(d, h, t) \in Seq(Msgs) /\ Len(Segment(d, h, t)) = n
      /\ \A i \in 1..n : Segment(d, h, t)[i] = d[Slot(t, i)]
  BY SegmentType DEF n
<1>7. /\ Segment(e, After(h), t) \in Seq(Msgs) /\ Len(Segment(e, After(h), t)) = n + 1
      /\ \A i \in 1..n + 1 : Segment(e, After(h), t)[i] = e[Slot(t, i)]
  <2> DEFINE k == Held(After(h), t)
  <2>1. /\ Segment(e, After(h), t) \in Seq(Msgs) /\ Len(Segment(e, After(h), t)) = k
        /\ \A i \in 1..k : Segment(e, After(h), t)[i] = e[Slot(t, i)]
    BY <1>1, <1>5, SegmentType
  <2>2. k = n + 1
    BY <1>1
  <2> HIDE DEF k
  <2> QED
    BY <2>1, <2>2
<1>8. /\ Append(Segment(d, h, t), m) \in Seq(Msgs)
      /\ Len(Append(Segment(d, h, t), m)) = n + 1
      /\ \A i \in 1..n + 1 : Append(Segment(d, h, t), m)[i]
                               = IF i <= n THEN Segment(d, h, t)[i] ELSE m
  BY <1>1, <1>6, AppendProperties
<1>9. Segment(e, After(h), t) = Append(Segment(d, h, t), m)
  BY <1>1, <1>4, <1>6, <1>7, <1>8, SeqEqual
<1> QED
  BY <1>1, <1>9 DEF e, n

(* A take from a ring that is not empty removes the first item.            *)
LEMMA SegmentTake ==
  ASSUME NEW d, NEW h \in 0..Capacity, NEW t \in 0..Capacity, Filled(d, h, t), h # t
  PROVE  /\ Segment(d, h, t) # <<>> /\ Head(Segment(d, h, t)) = d[t]
         /\ Segment(d, h, After(t)) = Tail(Segment(d, h, t))
<1> DEFINE n == Held(h, t)
<1>1. n \in Nat /\ n > 0 /\ Held(h, After(t)) = n - 1 /\ After(t) \in 0..Capacity
  BY SizeType DEF Held, After
<1>2. Slot(t, 1) = t /\ \A i \in 1..(n - 1) : Slot(After(t), i) = Slot(t, i + 1)
  BY SizeType DEF Held, Slot, After
<1> HIDE DEF n
<1>3. Filled(d, h, After(t))
  BY <1>1, <1>2 DEF Filled, n
<1>4. /\ Segment(d, h, t) \in Seq(Msgs) /\ Len(Segment(d, h, t)) = n
      /\ \A i \in 1..n : Segment(d, h, t)[i] = d[Slot(t, i)]
  BY SegmentType DEF n
<1>5. /\ Segment(d, h, After(t)) \in Seq(Msgs) /\ Len(Segment(d, h, After(t))) = n - 1
      /\ \A i \in 1..(n - 1) : Segment(d, h, After(t))[i] = d[Slot(After(t), i)]
  <2> DEFINE k == Held(h, After(t))
  <2>1. /\ Segment(d, h, After(t)) \in Seq(Msgs) /\ Len(Segment(d, h, After(t))) = k
        /\ \A i \in 1..k : Segment(d, h, After(t))[i] = d[Slot(After(t), i)]
    BY <1>1, <1>3, SegmentType
  <2>2. k = n - 1
    BY <1>1
  <2> HIDE DEF k
  <2> QED
    BY <2>1, <2>2
<1>6. Segment(d, h, t) # <<>>
  BY <1>1, <1>4
<1>7. /\ Tail(Segment(d, h, t)) \in Seq(Msgs) /\ Len(Tail(Segment(d, h, t))) = n - 1
      /\ \A i \in 1..(n - 1) : Tail(Segment(d, h, t))[i] = Segment(d, h, t)[i + 1]
  BY <1>1, <1>4, <1>6, HeadTailProperties
<1>8. Segment(d, h, After(t)) = Tail(Segment(d, h, t))
  BY <1>1, <1>2, <1>4, <1>5, <1>7, SeqEqual
<1>9. Head(Segment(d, h, t)) = d[t]
  BY <1>1, <1>2, <1>4, <1>6
<1> QED
  BY <1>6, <1>8, <1>9

-----------------------------------------------------------------------------
(* Now the ring of Controller.                                             *)
LEMMA ContentsIs ==
  ASSUME TypeOK, RingInv
  PROVE  /\ Contents = Segment(data, head, tail) /\ Filled(data, head, tail)
         /\ Contents \in Seq(Msgs) /\ DOMAIN Contents = 1..Len(Contents)
<1>1. head \in 0..Capacity /\ tail \in 0..Capacity
  BY DEF TypeOK
<1>2. Contents = Segment(data, head, tail)
  BY <1>1, SegmentIs DEF Contents, Count
<1> QED
  BY <1>1, <1>2, RingFilled, SegmentType, LenProperties

(* Contents of the next state is the segment of the next ring.             *)
LEMMA ContentsNext == ASSUME TypeOK' PROVE Contents' = Segment(data', head', tail')
<1>1. head' \in 0..Capacity /\ tail' \in 0..Capacity
  BY DEF TypeOK
<1> QED
  BY <1>1, SegmentIs DEF Contents, Count

(* A push appends to Contents.                                             *)
LEMMA PushContents ==
  ASSUME TypeOK, RingInv, TypeOK', ~IsFull, NEW m \in Msgs, CbufPush(m)
  PROVE  Contents' = Append(Contents, m) /\ Len(Contents) < Capacity
<1>1. /\ head \in 0..Capacity /\ tail \in 0..Capacity
      /\ data \in [0..Capacity -> Msgs \cup {NoMsg}]
  BY DEF TypeOK
<1>2. (head + 1) % Size = After(head)
  BY <1>1, NextSlot, CtlAssumption DEF After
<1>3. /\ data' = [data EXCEPT ![head] = m] /\ head' = After(head) /\ tail' = tail
      /\ After(head) # tail
  BY <1>2 DEF CbufPush, IsFull
<1>4. /\ Contents = Segment(data, head, tail) /\ Filled(data, head, tail)
      /\ Contents' = Segment(data', head', tail')
  BY ContentsIs, ContentsNext
<1>5. Len(Contents) = Held(head, tail)
  BY <1>1, <1>4, SegmentType
<1> QED
  BY <1>1, <1>3, <1>4, <1>5, SegmentPush

(* A take removes and returns the head of Contents.                        *)
LEMMA TakeContents ==
  ASSUME TypeOK, RingInv, TypeOK', ~IsEmpty, CbufTake
  PROVE  /\ Contents # <<>> /\ Contents' = Tail(Contents)
         /\ data[tail] = Head(Contents) /\ msg' = Head(Contents)
<1>1. head \in 0..Capacity /\ tail \in 0..Capacity
  BY DEF TypeOK
<1>2. (tail + 1) % Size = After(tail)
  BY <1>1, NextSlot, CtlAssumption DEF After
<1>3. /\ data' = data /\ head' = head /\ tail' = After(tail) /\ msg' = data[tail]
      /\ head # tail
  BY <1>2 DEF CbufTake, IsEmpty
<1>4. /\ Contents = Segment(data, head, tail) /\ Filled(data, head, tail)
      /\ Contents' = Segment(data', head', tail')
  BY ContentsIs, ContentsNext
<1> QED
  BY <1>1, <1>3, <1>4, SegmentTake

(* A destroyed ring is empty.                                              *)
LEMMA DestroyContents ==
  ASSUME TypeOK, TypeOK', Destroy PROVE Contents' = <<>>
<1>1. head' = tail' /\ head' \in 0..Capacity
  BY DEF Destroy, TypeOK
<1>2. \A h \in 0..Capacity : Held(h, h) = 0
  BY SizeType DEF Held
<1>3. Contents' = [i \in 1..0 |-> data'[Slot(tail', i)]]
  BY <1>1, <1>2, ContentsNext DEF Segment
<1> QED
  BY <1>3

(* The contents depend on the ring alone.                                  *)
LEMMA SameContents == ASSUME UNCHANGED ring PROVE Contents' = Contents
BY DEF ring, Contents, Count

(* The controller thread has ended before the buffer is destroyed.         *)
EndInv == main \in {"destroy", "end"} => ctl = "done"

IInv == TypeOK /\ RingInv /\ EndInv

LEMMA EndStep == ASSUME EndInv, [Next]_vars PROVE EndInv'
BY DEF EndInv, Next, ControllerThread, Shutdown, Terminated, vars, PushMsg, PushSignals, Signal,
       Start, Stop, ShutdownSocket, Join, Destroy, Wait, SpuriousWakeup, Leave, TakeMsg,
       ProcessMsg, SocketBreaks

(* The invariant the refinement rests on.                                  *)
LEMMA Inductive == Spec => []IInv
<1>1. Init => IInv
  BY TypeInit, CtlAssumption DEF IInv, Init, EndInv
<1>2. IInv /\ [Next]_vars => IInv'
  BY TypeStep, EndStep, CtlAssumption DEF IInv
<1> QED
  BY <1>1, <1>2, PTL DEF Spec

(* Each step is one of the queue's, or leaves the queue as it is.          *)
LEMMA QueueSteps ==
  [Next]_vars => \/ PushMsg /\ ~IsFull
                 \/ TakeMsg
                 \/ Destroy
                 \/ UNCHANGED <<ring, out>> /\ (main' = "end" <=> main = "end")
BY DEF Next, ControllerThread, Shutdown, Terminated, vars, PushMsg, Start, Stop,
       ShutdownSocket, Join, Wait, SpuriousWakeup, Leave, ProcessMsg, SocketBreaks

(* The ring, for every capacity, is a bounded queue.                       *)
THEOREM RefinesFifo == Spec => ImplementsFifo
<1>1. Init => Fifo!Init
  <2> SUFFICES ASSUME Init PROVE Fifo!Init
    OBVIOUS
  <2>1. TypeOK /\ RingInv /\ head = 0 /\ tail = 0 /\ out = <<>> /\ main # "end"
    BY TypeInit, CtlAssumption DEF Init
  <2>2. Held(head, tail) = 0
    BY <2>1, SizeType DEF Held
  <2>3. Contents = [i \in 1..0 |-> data[Slot(tail, i)]]
    BY <2>1, <2>2, ContentsIs DEF Segment
  <2> QED
    BY <2>1, <2>3 DEF Fifo!Init
<1>2. IInv /\ IInv' /\ [Next]_vars => [Fifo!Next]_Fifo!vars
  <2> SUFFICES ASSUME IInv, IInv', [Next]_vars PROVE [Fifo!Next]_Fifo!vars
    OBVIOUS
  <2>0. TypeOK /\ RingInv /\ EndInv /\ TypeOK'
    BY DEF IInv
  <2>1. CASE PushMsg /\ ~IsFull
    <3>1. CbufPush(pushed + 1) /\ pushed + 1 \in Msgs
      BY <2>0, <2>1, CtlAssumption DEF PushMsg, TypeOK, Msgs, CtlAssumption
    <3>2. Contents' = Append(Contents, pushed + 1) /\ Len(Contents) < Capacity
      BY <2>0, <2>1, <3>1, PushContents
    <3>3. main # "end" /\ main' # "end" /\ out' = out
      BY <2>1 DEF PushMsg
    <3>4. Fifo!Put(pushed + 1)
      BY <3>2, <3>3 DEF Fifo!Put
    <3> QED
      BY <3>1, <3>4 DEF Fifo!Next
  <2>2. CASE TakeMsg
    <3>1. CbufTake /\ ~IsEmpty /\ out' = Append(out, data[tail]) /\ main' = main
      BY <2>2 DEF TakeMsg, MustWait
    <3>2. Contents # <<>> /\ Contents' = Tail(Contents) /\ data[tail] = Head(Contents)
      BY <2>0, <3>1, TakeContents
    <3>3. main # "end"
      BY <2>0, <2>2 DEF TakeMsg, EndInv
    <3>4. Fifo!Take
      BY <3>1, <3>2, <3>3 DEF Fifo!Take
    <3> QED
      BY <3>4 DEF Fifo!Next
  <2>3. CASE Destroy
    <3>1. Contents' = <<>> /\ main # "end" /\ main' = "end" /\ out' = out
      BY <2>0, <2>3, DestroyContents DEF Destroy
    <3>2. Fifo!Destroy
      BY <3>1 DEF Fifo!Destroy
    <3> QED
      BY <3>2 DEF Fifo!Next
  <2>4. CASE UNCHANGED <<ring, out>> /\ (main' = "end" <=> main = "end")
    <3>1. Contents' = Contents
      BY <2>4, SameContents
    <3> QED
      BY <2>4, <3>1 DEF Fifo!vars
  <2> QED
    BY <2>1, <2>2, <2>3, <2>4, QueueSteps
<1> QED
  BY <1>1, <1>2, Inductive, PTL DEF Spec, ImplementsFifo, Fifo!Spec
-----------------------------------------------------------------------------
(* Sequences without repetition, and what is in them.                      *)
Elem(s, x) == \E i \in DOMAIN s : s[i] = x
Distinct(s) == \A i, j \in DOMAIN s : s[i] = s[j] => i = j

(* Appending a new item keeps items distinct and adds that one.            *)
LEMMA AppendElems ==
  ASSUME NEW s \in Seq(Msgs), Distinct(s), NEW m \in Msgs, ~Elem(s, m)
  PROVE  /\ Distinct(Append(s, m))
         /\ \A x : Elem(Append(s, m), x) <=> Elem(s, x) \/ x = m
<1>1. /\ DOMAIN s = 1..Len(s) /\ Len(s) \in Nat
      /\ DOMAIN Append(s, m) = 1..Len(s) + 1
      /\ \A i \in 1..Len(s) : Append(s, m)[i] = s[i]
      /\ Append(s, m)[Len(s) + 1] = m
  BY AppendProperties, LenProperties
<1>2. \A i \in 1..Len(s) + 1 : i \in 1..Len(s) \/ i = Len(s) + 1
  BY <1>1
<1>3. Distinct(Append(s, m))
  BY <1>1, <1>2 DEF Distinct, Elem
<1>4. ASSUME NEW x PROVE Elem(Append(s, m), x) <=> Elem(s, x) \/ x = m
  <2>1. 1..Len(s) \subseteq 1..Len(s) + 1 /\ Len(s) + 1 \in 1..Len(s) + 1
    BY <1>1
  <2> QED
    BY <1>1, <1>2, <2>1 DEF Elem
<1> QED
  BY <1>3, <1>4

(* The tail has the items but the first.                                   *)
LEMMA TailElems ==
  ASSUME NEW s \in Seq(Msgs), Distinct(s), s # <<>>
  PROVE  /\ Distinct(Tail(s)) /\ Elem(s, Head(s)) /\ Head(s) \in Msgs
         /\ \A x : Elem(Tail(s), x) <=> Elem(s, x) /\ x # Head(s)
<1> DEFINE n == Len(s)
<1>1. /\ DOMAIN s = 1..n /\ n \in Nat /\ n > 0 /\ Head(s) = s[1] /\ Head(s) \in Msgs
      /\ Tail(s) \in Seq(Msgs) /\ DOMAIN Tail(s) = 1..(n - 1)
      /\ \A i \in 1..(n - 1) : Tail(s)[i] = s[i + 1]
  BY HeadTailProperties, LenProperties, EmptySeq
<1> HIDE DEF n
<1>2. \A i \in 1..(n - 1) : i + 1 \in 1..n /\ i + 1 # 1
  BY <1>1
<1>3. \A i \in 1..n : i # 1 => i - 1 \in 1..(n - 1) /\ (i - 1) + 1 = i
  BY <1>1
<1>4. Distinct(Tail(s))
  BY <1>1, <1>2 DEF Distinct
<1>5. 1 \in 1..n
  BY <1>1
<1>6. ASSUME NEW x PROVE Elem(Tail(s), x) => Elem(s, x) /\ x # Head(s)
  BY <1>1, <1>2, <1>5 DEF Elem, Distinct
<1>7. ASSUME NEW x, Elem(s, x), x # Head(s) PROVE Elem(Tail(s), x)
  <2>1. PICK i \in 1..n : s[i] = x /\ i # 1
    BY <1>1, <1>7 DEF Elem
  <2>2. Tail(s)[i - 1] = x /\ i - 1 \in 1..(n - 1)
    BY <1>1, <1>3, <2>1
  <2> QED
    BY <1>1, <2>2 DEF Elem
<1> QED
  BY <1>1, <1>4, <1>5, <1>6, <1>7 DEF Elem

(* No message is in the ring twice; those not pushed yet are nowhere; only *)
(* a thread that processes a message has one; and at the end the ring is   *)
(* empty.                                                                  *)
OwnInv == /\ Distinct(Contents)
          /\ \A m \in Msgs : m > pushed => ~Elem(Contents, m) /\ msg # m /\ freed[m] = 0
          /\ msg # NoMsg <=> ctl = "process"
          /\ main = "end" => Contents = <<>>
          /\ \A m \in Msgs : m <= pushed =>
               IF Elem(Contents, m) \/ msg = m
               THEN freed[m] = 0 /\ ~(Elem(Contents, m) /\ msg = m)
               ELSE freed[m] = 1

(* Every step keeps OwnInv.                                                *)
LEMMA OwnStep == ASSUME IInv, IInv', OwnInv, [Next]_vars PROVE OwnInv'
<1>0. /\ TypeOK /\ RingInv /\ EndInv /\ TypeOK' /\ pushed \in Nat /\ freed \in [Msgs -> Nat]
      /\ Contents \in Seq(Msgs) /\ Msgs \subseteq Nat /\ NoMsg \notin Msgs
  <2>1. TypeOK /\ RingInv /\ EndInv /\ TypeOK'
    BY DEF IInv
  <2>2. Contents \in Seq(Msgs)
    BY <2>1, ContentsIs
  <2>3. Msgs \subseteq Nat /\ NoMsg \notin Msgs /\ pushed \in Nat /\ freed \in [Msgs -> Nat]
    BY <2>1, CtlAssumption DEF TypeOK, Msgs, NoMsg, CtlAssumption
  <2> QED
    BY <2>1, <2>2, <2>3
<1>1. CASE PushMsg
  <2>1. /\ pushed + 1 \in Msgs /\ pushed' = pushed + 1 /\ msg' = msg /\ main' = main
        /\ main # "end"
    BY <1>0, <1>1, CtlAssumption DEF PushMsg, TypeOK, Msgs, CtlAssumption
  <2>2. msg # NoMsg <=> ctl' = "process"
    BY <1>1 DEF PushMsg, PushSignals, Signal, OwnInv
  <2>3. ~Elem(Contents, pushed + 1) /\ msg # pushed + 1 /\ freed[pushed + 1] = 0
    BY <1>0, <2>1 DEF OwnInv
  <2>4. CASE IsFull
    <3>1. Contents' = Contents
      BY <1>1, <2>4, SameContents DEF PushMsg
    <3>2. freed' = [m \in Msgs |-> freed[m] + IF m \in {pushed + 1} THEN 1 ELSE 0]
      BY <1>1, <2>4 DEF PushMsg, FreedByPush, Free
    <3>3. /\ freed'[pushed + 1] = 1 /\ \A m \in Msgs : m # pushed + 1 => freed'[m] = freed[m]
      BY <1>0, <2>1, <2>3, <3>2
    <3> QED
      BY <1>0, <2>1, <2>2, <2>3, <3>1, <3>3 DEF OwnInv
  <2>5. CASE ~IsFull
    <3>1. Contents' = Append(Contents, pushed + 1)
      BY <1>0, <1>1, <2>1, <2>5, PushContents DEF PushMsg
    <3>2. /\ Distinct(Contents')
          /\ \A x : Elem(Contents', x) <=> Elem(Contents, x) \/ x = pushed + 1
      BY <1>0, <2>1, <2>3, <3>1, AppendElems DEF OwnInv
    <3>3. freed' = [m \in Msgs |-> freed[m] + IF m \in {} THEN 1 ELSE 0]
      BY <1>1, <2>5 DEF PushMsg, FreedByPush, Free
    <3>4. \A m \in Msgs : freed'[m] = freed[m]
      BY <1>0, <3>3
    <3> QED
      BY <1>0, <2>1, <2>2, <2>3, <3>2, <3>4 DEF OwnInv
  <2> QED
    BY <2>4, <2>5
<1>2. CASE TakeMsg
  <2>1. CbufTake /\ ~IsEmpty /\ ctl = "check" /\ ctl' = "process" /\ UNCHANGED <<main, pushed, freed>>
    BY <1>2 DEF TakeMsg, MustWait
  <2>2. Contents # <<>> /\ Contents' = Tail(Contents) /\ msg' = Head(Contents)
    BY <1>0, <2>1, TakeContents
  <2>3. /\ Distinct(Contents') /\ Elem(Contents, msg') /\ msg' \in Msgs
        /\ \A x : Elem(Contents', x) <=> Elem(Contents, x) /\ x # msg'
    BY <1>0, <2>2, TailElems DEF OwnInv
  <2>4. msg = NoMsg /\ main # "end"
    BY <2>1, <2>2 DEF OwnInv
  <2> QED
    BY <1>0, <2>1, <2>3, <2>4 DEF OwnInv
<1>3. CASE ProcessMsg
  <2>1. /\ Contents' = Contents /\ UNCHANGED <<main, pushed>>
        /\ msg \in Msgs /\ msg' = NoMsg /\ ctl' # "process"
    BY <1>0, <1>3, SameContents DEF ProcessMsg, RingInv
  <2>2. freed' = [m \in Msgs |-> freed[m] + IF m \in {msg} THEN 1 ELSE 0]
    BY <1>3 DEF ProcessMsg, Free
  <2>3. \A m \in Msgs : freed'[m] = IF m = msg THEN freed[m] + 1 ELSE freed[m]
    BY <1>0, <2>2
  <2> QED
    BY <1>0, <2>1, <2>3 DEF OwnInv
<1>4. CASE Destroy
  <2>1. /\ Contents' = <<>> /\ UNCHANGED <<pushed, msg, ctl>> /\ main' = "end" /\ main = "destroy"
    BY <1>0, <1>4, DestroyContents DEF Destroy
  <2>2. \A x : ~Elem(Contents', x)
    BY <2>1 DEF Elem
  <2>3. Distinct(Contents')
    BY <2>1 DEF Distinct
  <2>4. msg = NoMsg
    BY <1>0, <2>1 DEF OwnInv, EndInv
  <2>5. freed' = [m \in Msgs |-> freed[m] + IF m \in {Contents[i] : i \in DOMAIN Contents}
                                            THEN 1 ELSE 0]
    BY <1>4 DEF Destroy, Free
  <2>6. \A m \in Msgs : freed'[m] = IF Elem(Contents, m) THEN freed[m] + 1 ELSE freed[m]
    BY <1>0, <2>5 DEF Elem
  <2> QED
    BY <1>0, <2>1, <2>2, <2>3, <2>4, <2>6 DEF OwnInv
<1>5. CASE /\ UNCHANGED <<ring, msg, pushed, freed>> /\ (ctl' = "process" <=> ctl = "process")
           /\ (main' = "end" <=> main = "end")
  <2>1. Contents' = Contents
    BY <1>5, SameContents
  <2> QED
    BY <1>5, <2>1 DEF OwnInv
<1>6. \/ PushMsg \/ TakeMsg \/ ProcessMsg \/ Destroy
      \/ /\ UNCHANGED <<ring, msg, pushed, freed>> /\ (ctl' = "process" <=> ctl = "process")
         /\ (main' = "end" <=> main = "end")
  BY DEF Next, ControllerThread, Shutdown, Terminated, vars, Start, Stop, Signal,
         ShutdownSocket, Join, Wait, SpuriousWakeup, Leave, SocketBreaks
<1> QED
  BY <1>1, <1>2, <1>3, <1>4, <1>5, <1>6

(* Every message pushed is waiting, being sent or freed, never two of them, *)
(* and freed once; also those refused, and those left at the end.          *)
THEOREM OneOwnerHolds == Spec => []OneOwner
<1>1. Init => OwnInv
  <2> SUFFICES ASSUME Init PROVE OwnInv
    OBVIOUS
  <2>1. TypeOK /\ RingInv /\ head = 0 /\ tail = 0
    BY TypeInit, CtlAssumption DEF Init
  <2>2. Held(head, tail) = 0
    BY <2>1, SizeType DEF Held
  <2>3. Contents = <<>>
    BY <2>1, <2>2, ContentsIs DEF Segment
  <2> QED
    BY <2>3 DEF Init, OwnInv, Distinct, Elem, Msgs, NoMsg
<1>2. OwnInv /\ IInv => OneOwner
  <2> SUFFICES ASSUME OwnInv, IInv, NEW m \in 1..pushed
               PROVE  IF Elem(Contents, m) \/ msg = m
                      THEN freed[m] = 0 /\ ~(Elem(Contents, m) /\ msg = m) /\ main # "end"
                      ELSE freed[m] = 1
    BY DEF OneOwner, Elem
  <2>1. m \in Msgs /\ m <= pushed /\ m # NoMsg
    BY CtlAssumption DEF IInv, TypeOK, Msgs, NoMsg, CtlAssumption
  <2>2. main = "end" => ~Elem(Contents, m) /\ msg = NoMsg
    BY DEF OwnInv, IInv, EndInv, Elem
  <2> QED
    BY <2>1, <2>2 DEF OwnInv
<1> QED
  BY <1>1, <1>2, OwnStep, Inductive, PTL DEF Spec
=============================================================================
