---------------------------- MODULE StreamProofs ----------------------------
(***************************************************************************)
(* Proofs about the two streams from the device to the desktop client:     *)
(* Recording, for any number of packets, and then Receiver, for any texts. *)
(* They share what SequenceLemmas says of sequences and their parts.       *)
(***************************************************************************)
EXTENDS Recording, Receiver, SequenceLemmas

(* The packets are numbered, so those received first are 1 to n.             *)
Upto(n) == [i \in 1..n |-> i]

(* The stream thread pushes every packet it receives, in order, and gives    *)
(* the decoder what it did not keep.                                         *)
StreamInv ==
  /\ configs \in Seq(BOOLEAN) /\ pushed = Upto(Len(pushed)) /\ Len(pushed) \in 0..Count
  /\ str \in {"open", "recv"} => Len(pushed) = Count
  /\ str = "push" => Len(pushed) + 1 = Count
  /\ str \in {"open", "recv", "push", "stop"} => ~stopped

DecoderInv == /\ pending \in Seq(Nat) /\ decoded \in Seq(Seq(Nat))
              /\ DecoderGetsAll

(* The recorder takes the packets in that order; nothing is queued any more  *)
(* once it ended.                                                            *)
Taken == Len(pushed) - Len(queue)

QueueInv ==
  /\ rec \in {"none", "check", "waiting", "write", "fail", "done"}
  /\ failed \in BOOLEAN /\ stopped \in BOOLEAN /\ header \in BOOLEAN
  /\ queue \in Seq(Nat) /\ Len(queue) <= Len(pushed)
  /\ \A i \in 1..Len(queue) : queue[i] = Taken + i
  /\ rec = "none" => pushed = <<>> /\ str \notin {"recv", "push", "stop"}
  /\ str = "open" => rec = "none"
  /\ rec = "done" => queue = <<>> /\ (failed \/ stopped)

(* The frames of the first k packets are written, and the duration of the    *)
(* last one is right for what comes next.                                    *)
Recorded == [frame : Nat, duration : Int]

LastRight(k) ==
  file # <<>> =>
    LET a == file[Len(file)].frame
    IN /\ a \in 1..k /\ k < Len(pushed)
       /\ file[Len(file)].duration = IF configs[a + 1] THEN 0 ELSE Pts(a + 1) - Pts(a)
       /\ \A p \in a + 1..k : configs[p]

Wrote(k) ==
  /\ k <= Len(pushed) /\ FileFrames = Frames(Upto(k), configs)
  /\ rec \in {"none", "check", "waiting", "write"} => LastRight(k)
  /\ rec \in {"none", "check", "waiting"} =>
       writing = None /\ previous = Taken /\ k = IF Taken = 0 THEN 0 ELSE Taken - 1
  /\ rec = "write" => previous = Taken /\ writing = Taken - 1 /\ writing > 0 /\ k = writing - 1
  /\ rec = "done" /\ ~failed => Len(pushed) - k \in {0, 1}

FileInv == /\ file \in Seq(Recorded) /\ Durations
           /\ \E k \in Nat : Wrote(k)

RecInv == StreamInv /\ DecoderInv /\ QueueInv /\ FileInv
-----------------------------------------------------------------------------
(* Upto, and what it becomes with one packet more.                           *)
LEMMA UptoGrows ==
  ASSUME NEW n \in Nat
  PROVE  /\ Upto(n) \in Seq(Nat) /\ Len(Upto(n)) = n
         /\ \A i \in 1..n : Upto(n)[i] = i
         /\ Upto(n + 1) = Append(Upto(n), n + 1)
BY DEF Upto

(* The frames of the first n packets, by a function.                         *)
FramesFollow(f, n, cs) ==
  /\ f[0] = <<>>
  /\ \A i \in 1..n : f[i] = IF cs[i] THEN f[i - 1] ELSE Append(f[i - 1], i)

(* They depend on which of those packets are config packets only.            *)
LEMMA FramesAlike ==
  ASSUME NEW f, NEW g, NEW n \in Nat, NEW cs, NEW ds, SameUpTo(n, cs, ds),
         FramesFollow(f, n, cs), FramesFollow(g, n, ds)
  PROVE  f[n] = g[n]
<1>1. f[0] = g[0]
  BY DEF FramesFollow
<1>2. ASSUME NEW i \in 1..n, f[i - 1] = g[i - 1] PROVE f[i] = g[i]
  <2>1. /\ f[i] = IF cs[i] THEN f[i - 1] ELSE Append(f[i - 1], i)
        /\ g[i] = IF ds[i] THEN g[i - 1] ELSE Append(g[i - 1], i)
        /\ cs[i] = ds[i]
    BY Zenon DEF FramesFollow, SameUpTo
  <2> QED
    BY <1>2, <2>1, Zenon
<1>3. \A i \in 0..n : f[i] = g[i]
  BY <1>1, <1>2, Alike
<1> QED
  BY <1>3

(* There is such a function.                                                 *)
LEMMA FramesExists ==
  ASSUME NEW n \in Nat, NEW cs
  PROVE  \E f \in [0..n -> Seq(Nat)] : FramesFollow(f, n, cs)
<1> DEFINE step == [i \in Nat |-> [v \in Seq(Nat) |-> IF cs[i] THEN v ELSE Append(v, i)]]
<1>1. step \in [Nat -> [Seq(Nat) -> Seq(Nat)]]
  OBVIOUS
<1>2. \A i \in Nat : \A v \in Seq(Nat) : step[i][v] = IF cs[i] THEN v ELSE Append(v, i)
  OBVIOUS
<1> HIDE DEF step
<1>3. <<>> \in Seq(Nat)
  OBVIOUS
<1>4. PICK f \in [0..n -> Seq(Nat)] : Follows(f, n, <<>>, step)
  BY <1>1, <1>3, RecursionExists
<1>5. ASSUME NEW i \in 1..n PROVE f[i] = IF cs[i] THEN f[i - 1] ELSE Append(f[i - 1], i)
  <2>1. i - 1 \in 0..n /\ i \in Nat
    OBVIOUS
  <2>2. f[i - 1] \in Seq(Nat)
    BY <1>4, <2>1, Zenon
  <2>3. f[i] = step[i][f[i - 1]]
    BY <1>4, Zenon DEF Follows
  <2> QED
    BY <1>2, <2>1, <2>2, <2>3, Zenon
<1>6. f[0] = <<>>
  BY <1>4, Zenon DEF Follows
<1>7. FramesFollow(f, n, cs)
  BY <1>5, <1>6, Zenon DEF FramesFollow
<1> QED
  BY <1>4, <1>7, Zenon

(* What Frames chooses is that function.                                     *)
LEMMA FramesIs ==
  ASSUME NEW n \in Nat, NEW cs
  PROVE  \E f \in [0..n -> Seq(Nat)] : FramesFollow(f, n, cs) /\ Frames(Upto(n), cs) = f[n]
<1>1. PICK f \in [0..n -> Seq(Nat)] : FramesFollow(f, n, cs)
  BY FramesExists
<1> DEFINE s == Upto(n)
           B(F) == [i \in 0..Len(s) |-> IF i = 0 THEN <<>>
                                        ELSE IF cs[s[i]] THEN F[i - 1] ELSE Append(F[i - 1], s[i])]
           G == CHOOSE F : F = B(F)
<1>2. Frames(s, cs) = G[Len(s)]
  BY DEF Frames
<1>3. Len(s) = n /\ \A i \in 1..n : s[i] = i
  BY UptoGrows
<1> HIDE DEF s
<1>4. f = B(f)
  <2>1. ASSUME NEW i \in 0..n
        PROVE f[i] = IF i = 0 THEN <<>>
                     ELSE IF cs[s[i]] THEN f[i - 1] ELSE Append(f[i - 1], s[i])
    <3>1. CASE i = 0
      BY <1>1, <3>1 DEF FramesFollow
    <3>2. CASE i # 0
      <4>1. i \in 1..n
        BY <3>2
      <4> QED
        BY <1>1, <1>3, <3>2, <4>1, Zenon DEF FramesFollow
    <3> QED
      BY <3>1, <3>2
  <2>2. f = [i \in 0..n |-> f[i]]
    OBVIOUS
  <2> QED
    BY <1>3, <2>1, <2>2, Zenon
<1>5. G = B(G)
  <2>1. \E F : F = B(F)
    BY <1>4, Zenon
  <2> HIDE DEF B
  <2> QED
    BY <2>1, Zenon
<1> HIDE DEF G
<1>6. FramesFollow(G, n, cs)
  <2>1. \A i \in 0..n : G[i] = IF i = 0 THEN <<>>
                                ELSE IF cs[s[i]] THEN G[i - 1] ELSE Append(G[i - 1], s[i])
    BY <1>3, <1>5, Zenon
  <2>2. 0 \in 0..n /\ \A i \in 1..n : i \in 0..n /\ i # 0
    OBVIOUS
  <2> QED
    BY <1>3, <2>1, <2>2, Zenon DEF FramesFollow
<1>7. f[n] = G[n]
  BY <1>1, <1>6, FramesAlike DEF SameUpTo
<1> QED
  BY <1>1, <1>2, <1>3, <1>7 DEF s

(* One packet more is one frame more, or none.                               *)
LEMMA FramesGrow ==
  ASSUME NEW n \in Nat, NEW cs
  PROVE  /\ Frames(Upto(0), cs) = <<>> /\ Frames(Upto(n), cs) \in Seq(Nat)
         /\ Frames(Upto(n + 1), cs) = IF cs[n + 1] THEN Frames(Upto(n), cs)
                                      ELSE Append(Frames(Upto(n), cs), n + 1)
<1>1. n + 1 \in Nat /\ 0 \in Nat
  OBVIOUS
<1>2. PICK f \in [0..n -> Seq(Nat)] : FramesFollow(f, n, cs) /\ Frames(Upto(n), cs) = f[n]
  BY FramesIs
<1>3. PICK g \in [0..n + 1 -> Seq(Nat)] :
        FramesFollow(g, n + 1, cs) /\ Frames(Upto(n + 1), cs) = g[n + 1]
  BY <1>1, FramesIs
<1>4. PICK h \in [0..0 -> Seq(Nat)] : FramesFollow(h, 0, cs) /\ Frames(Upto(0), cs) = h[0]
  BY <1>1, FramesIs
<1>5. FramesFollow(g, n, cs)
  BY <1>3 DEF FramesFollow
<1>6. f[n] = g[n]
  BY <1>2, <1>5, FramesAlike DEF SameUpTo
<1>7. g[n + 1] = IF cs[n + 1] THEN g[n] ELSE Append(g[n], n + 1)
  <2>1. n + 1 \in 1..n + 1 /\ (n + 1) - 1 = n
    OBVIOUS
  <2> QED
    BY <1>3, <2>1 DEF FramesFollow
<1>8. h[0] = <<>>
  BY <1>4 DEF FramesFollow
<1>9. f[n] \in Seq(Nat)
  OBVIOUS
<1> QED
  BY <1>2, <1>3, <1>4, <1>6, <1>7, <1>8, <1>9

(* A packet that arrives later does not change which were frames.            *)
LEMMA FramesSame ==
  ASSUME NEW n \in Nat, NEW cs, NEW ds, SameUpTo(n, cs, ds)
  PROVE  Frames(Upto(n), cs) = Frames(Upto(n), ds)
<1>1. PICK f \in [0..n -> Seq(Nat)] : FramesFollow(f, n, cs) /\ Frames(Upto(n), cs) = f[n]
  BY FramesIs
<1>2. PICK g \in [0..n -> Seq(Nat)] : FramesFollow(g, n, ds) /\ Frames(Upto(n), ds) = g[n]
  BY FramesIs
<1> QED
  BY <1>1, <1>2, FramesAlike

(* The frames of the first packets are the first frames.                     *)
LEMMA FramesPrefix ==
  ASSUME NEW k \in Nat, NEW n \in Nat, k <= n, NEW cs
  PROVE  IsPrefix(Frames(Upto(k), cs), Frames(Upto(n), cs))
<1> DEFINE a == Frames(Upto(k), cs)
           S == {d \in Nat : IsPrefix(a, Frames(Upto(k + d), cs))}
<1>1. a \in Seq(Nat)
  BY FramesGrow
<1>2. 0 \in S
  <2>1. IsPrefix(a, a)
    <3> HIDE DEF a
    <3> QED
      BY <1>1 DEF IsPrefix
  <2> QED
    BY <2>1
<1>3. ASSUME NEW d \in Nat, d \in S PROVE d + 1 \in S
  <2> DEFINE b == Frames(Upto(k + d), cs)  c == Frames(Upto(k + d + 1), cs)
  <2>1. k + d \in Nat /\ k + (d + 1) = k + d + 1
    OBVIOUS
  <2>2. b \in Seq(Nat) /\ (c = b \/ c = Append(b, k + d + 1))
    BY <2>1, FramesGrow
  <2>3. IsPrefix(a, b)
    BY <1>3
  <2> HIDE DEF a, b, c
  <2>4. IsPrefix(a, c)
    <3>1. CASE c = b
      BY <2>3, <3>1
    <3>2. CASE c = Append(b, k + d + 1)
      <4>1. Len(a) \in Nat /\ Len(a) <= Len(b)
        BY <1>1, <2>3 DEF IsPrefix
      <4>2. Len(c) = Len(b) + 1 /\ Len(b) \in Nat
        BY <2>1, <2>2, <3>2
      <4>3. SubSeq(c, 1, Len(a)) = SubSeq(b, 1, Len(a))
        BY <2>1, <2>2, <3>2, <4>1
      <4> QED
        BY <2>3, <4>1, <4>2, <4>3 DEF IsPrefix
    <3> QED
      BY <2>2, <3>1, <3>2
  <2> QED
    BY <2>1, <2>4 DEF a, c
<1> HIDE DEF S
<1>4. n - k \in S
  BY <1>2, <1>3, NatInduct
<1>5. k + (n - k) = n
  OBVIOUS
<1> QED
  BY <1>4, <1>5 DEF S
-----------------------------------------------------------------------------
(* Every step keeps StreamInv.                                               *)
LEMMA StreamStep == ASSUME StreamInv, [Next]_vars PROVE StreamInv'
<1>1. ASSUME NEW config \in BOOLEAN, RecvPacket(config) PROVE StreamInv'
  <2>1. /\ configs' = Append(configs, config) /\ str = "recv" /\ str' \in {"push", "stop"}
        /\ UNCHANGED <<pushed, stopped>>
    BY <1>1 DEF RecvPacket, Goto
  <2>2. configs' \in Seq(BOOLEAN) /\ Count' = Count + 1 /\ Count \in Nat
    BY <2>1 DEF StreamInv, Count
  <2>3. Len(pushed) = Count /\ ~stopped
    BY <2>1 DEF StreamInv
  <2> QED
    BY <2>1, <2>2, <2>3 DEF StreamInv
<1>2. CASE PushPacket
  <2>1. /\ str = "push" /\ UNCHANGED <<configs, stopped>>
        /\ \/ str' = "stop" /\ pushed' = pushed
           \/ str' = "recv" /\ pushed' = Append(pushed, Count)
    BY <1>2 DEF PushPacket, Goto, srec
  <2>2. Count' = Count /\ Len(pushed) + 1 = Count /\ Len(pushed) \in Nat /\ ~stopped
    BY <2>1 DEF StreamInv, Count
  <2>3. CASE pushed' = pushed
    BY <2>1, <2>2, <2>3 DEF StreamInv
  <2>4. CASE str' = "recv" /\ pushed' = Append(pushed, Count)
    <3>1. pushed' = Upto(Len(pushed) + 1)
      BY <2>2, <2>4, UptoGrows DEF StreamInv
    <3>2. Len(pushed') = Len(pushed) + 1
      BY <2>2, <3>1, UptoGrows
    <3> QED
      BY <2>1, <2>2, <2>4, <3>1, <3>2 DEF StreamInv
  <2> QED
    BY <2>1, <2>3, <2>4
<1>3. CASE StopRecorder
  BY <1>3 DEF StopRecorder, Goto, StreamInv, srec, Count
<1>4. CASE UNCHANGED <<configs, pushed, stopped>>
           /\ (str' = str \/ str' \in {"join", "close", "notify", "done"}
               \/ (str = "recv" /\ str' = "stop")
               \/ (str = "open" /\ str' \in {"stop", "recv"}))
  <2>1. Count' = Count
    BY <1>4 DEF Count
  <2>2. \/ str' = str
        \/ str' \in {"join", "close", "notify", "done"}
        \/ str' \in {"stop", "recv"} /\ ~stopped /\ Len(pushed) = Count
    BY <1>4 DEF StreamInv
  <2> QED
    BY <1>4, <2>1, <2>2 DEF StreamInv
<1>5. \/ \E config \in BOOLEAN : RecvPacket(config)
      \/ PushPacket \/ StopRecorder
      \/ /\ UNCHANGED <<configs, pushed, stopped>>
         /\ \/ str' = str \/ str' \in {"join", "close", "notify", "done"}
            \/ str = "recv" /\ str' = "stop"
            \/ str = "open" /\ str' \in {"stop", "recv"}
  <2>1. CASE Open \/ EndOfStream \/ JoinRecorder \/ CloseRecorder \/ NotifyStopped
    BY <2>1 DEF Open, EndOfStream, JoinRecorder, CloseRecorder, NotifyStopped, Goto, srec
  <2>2. CASE RecorderThread \/ SpuriousWakeup \/ Terminated \/ Blocked \/ UNCHANGED vars
    BY <2>2 DEF RecorderThread, WaitPacket, TakePacket, WritePacket, WriteFailed, Finish, Lock,
         SpuriousWakeup, Terminated, Blocked, vars, srec
  <2> QED
    BY <2>1, <2>2 DEF Next, StreamThread
<1> QED
  BY <1>1, <1>2, <1>3, <1>4, <1>5

(* Every step keeps DecoderInv: what is kept goes with the next data packet. *)
LEMMA DecoderStep == ASSUME StreamInv, DecoderInv, [Next]_vars PROVE DecoderInv'
<1>1. ASSUME NEW config \in BOOLEAN, RecvPacket(config) PROVE DecoderInv'
  <2> DEFINE n == Count  flat == FlattenSeq(decoded)
  <2>1. n \in Nat /\ configs' = Append(configs, config) /\ Count' = n + 1
    BY <1>1 DEF RecvPacket, StreamInv, Count
  <2>2. pending \in Seq(Nat) /\ decoded \in Seq(Seq(Nat)) /\ flat \o pending = Upto(n)
    BY DEF DecoderInv, DecoderGetsAll, Upto
  <2>3. <<>> \in Seq(Nat) /\ flat \in Seq(Nat)
    BY <2>2, FlattenAppend
  <2>4. Upto(n + 1) = Append(Upto(n), n + 1)
    BY <2>1, UptoGrows
  <2>5. CASE config
    <3>1. pending' = Append(pending, n + 1) /\ decoded' = decoded
      BY <1>1, <2>5 DEF RecvPacket, Kept
    <3> HIDE DEF flat, n
    <3>2. flat \o Append(pending, n + 1) = Append(flat \o pending, n + 1)
      <4>1. n + 1 \in Nat
        BY <2>1
      <4> QED
        BY <2>2, <2>3, <4>1, ConcatAppend, SMTT(20)
    <3>3. FlattenSeq(decoded') \o pending' = Upto(Count')
      BY <2>1, <2>2, <2>4, <3>1, <3>2 DEF flat
    <3>4. pending' \in Seq(Nat)
      BY <2>1, <2>2, <3>1
    <3> QED
      BY <2>2, <3>1, <3>3, <3>4 DEF DecoderInv, DecoderGetsAll, Upto
  <2>6. CASE ~config
    <3>1. pending' = <<>> /\ decoded' = Append(decoded, Append(pending, n + 1))
      BY <1>1, <2>6 DEF RecvPacket, Kept
    <3>2. Append(pending, n + 1) \in Seq(Nat)
      BY <2>1, <2>2
    <3>3. FlattenSeq(decoded') = flat \o Append(pending, n + 1) /\ decoded' \in Seq(Seq(Nat))
      <4> DEFINE x == Append(pending, n + 1)
      <4>1. x \in Seq(Nat)
        BY <3>2
      <4> HIDE DEF x
      <4>2. FlattenSeq(Append(decoded, x)) = flat \o x
        BY <2>2, <4>1, FlattenAppend
      <4>3. Append(decoded, x) \in Seq(Seq(Nat))
        BY <2>2, <4>1
      <4> QED
        BY <3>1, <4>2, <4>3 DEF x
    <3> HIDE DEF flat, n
    <3>4. flat \o Append(pending, n + 1) = Append(flat \o pending, n + 1)
      <4>1. n + 1 \in Nat
        BY <2>1
      <4> QED
        BY <2>2, <2>3, <4>1, ConcatAppend, SMTT(20)
    <3>5. Upto(n + 1) \in Seq(Nat)
      BY <2>1, UptoGrows
    <3>6. FlattenSeq(decoded') \o pending' = Upto(Count')
      <4>1. FlattenSeq(decoded') = Upto(n + 1)
        BY <2>2, <2>4, <3>3, <3>4, Zenon
      <4>2. Upto(n + 1) \o <<>> = Upto(n + 1)
        BY <3>5, ConcatNone
      <4> QED
        BY <2>1, <3>1, <4>1, <4>2, Zenon
    <3> QED
      BY <2>3, <3>1, <3>3, <3>6 DEF DecoderInv, DecoderGetsAll, Upto
  <2> QED
    BY <2>5, <2>6
<1>2. CASE UNCHANGED srec
  BY <1>2 DEF srec, DecoderInv, DecoderGetsAll, Count
<1>3. UNCHANGED srec \/ \E config \in BOOLEAN : RecvPacket(config)
  BY DEF Next, Open, EndOfStream, StreamThread, PushPacket, StopRecorder, JoinRecorder,
       CloseRecorder, NotifyStopped, RecorderThread, WaitPacket, TakePacket, WritePacket,
       WriteFailed, Finish, Lock, SpuriousWakeup, Terminated, Blocked, vars
<1> QED
  BY <1>1, <1>2, <1>3

(* Nothing is received at first.                                             *)
LEMMA StreamInit == Init => StreamInv /\ DecoderInv
<1> SUFFICES ASSUME Init PROVE StreamInv /\ DecoderInv
  OBVIOUS
<1>1. Len(pushed) = 0 /\ Count = 0 /\ Upto(0) = <<>>
  BY DEF Init, Count, Upto
<1>2. FlattenSeq(decoded) \o pending = <<>>
  BY FlattenNone DEF Init
<1>3. pending \in Seq(Nat) /\ decoded \in Seq(Seq(Nat)) /\ configs \in Seq(BOOLEAN)
  BY DEF Init
<1> QED
  BY <1>1, <1>2, <1>3 DEF Init, StreamInv, DecoderInv, DecoderGetsAll, Upto

(* Whatever the decoder refuses and the recorder does, the decoder is given  *)
(* every packet received once and in order.                                  *)
THEOREM DecoderGetsAllHolds == Spec => []DecoderGetsAll
<1>1. DecoderInv => DecoderGetsAll
  BY DEF DecoderInv
<1> QED
  BY <1>1, StreamInit, StreamStep, DecoderStep, PTL DEF Spec
-----------------------------------------------------------------------------
(* Every step keeps QueueInv.                                                *)
LEMMA QueueStep == ASSUME StreamInv, QueueInv, [Next]_vars PROVE QueueInv'
<1> DEFINE Flags == /\ failed' \in BOOLEAN /\ stopped' \in BOOLEAN /\ header' \in BOOLEAN
                    /\ (failed => failed') /\ (stopped => stopped')
<1>1. CASE PushPacket
  <2>1. /\ str = "push" /\ rec # "none" /\ ~stopped /\ UNCHANGED <<failed, stopped, header>>
        /\ \/ UNCHANGED <<queue, pushed, rec>> /\ str' = "stop"
           \/ /\ ~failed /\ str' = "recv"
              /\ queue' = Append(queue, Count) /\ pushed' = Append(pushed, Count)
              /\ rec' = IF rec = "waiting" THEN "check" ELSE rec
    BY <1>1 DEF PushPacket, Goto, Refused, Signal, StreamInv, QueueInv, file_vars
  <2>2. CASE UNCHANGED <<queue, pushed, rec>> /\ str' = "stop"
    BY <2>1, <2>2 DEF QueueInv, Taken
  <2>3. CASE /\ ~failed /\ str' = "recv"
             /\ queue' = Append(queue, Count) /\ pushed' = Append(pushed, Count)
             /\ rec' = IF rec = "waiting" THEN "check" ELSE rec
    <3>1. rec \in {"check", "waiting", "write", "fail"}
      BY <2>1, <2>3 DEF QueueInv
    <3>2. /\ Count = Len(pushed) + 1 /\ Len(pushed) \in Nat /\ queue \in Seq(Nat)
          /\ pushed \in Seq(Nat)
      BY <2>1, UptoGrows DEF StreamInv, QueueInv
    <3>3. Len(pushed') = Len(pushed) + 1 /\ Len(queue') = Len(queue) + 1 /\ Taken' = Taken
      BY <2>3, <3>2 DEF Taken
    <3>4. ASSUME NEW i \in 1..Len(queue') PROVE queue'[i] = Taken' + i
      <4>1. CASE i = Len(queue) + 1
        <5>1. queue'[i] = Count
          BY <2>3, <3>2, <4>1
        <5> QED
          BY <3>2, <3>3, <4>1, <5>1 DEF Taken
      <4>2. CASE i # Len(queue) + 1
        <5>1. i \in 1..Len(queue) /\ queue'[i] = queue[i]
          BY <2>3, <3>2, <3>3, <4>2
        <5> QED
          BY <3>3, <5>1 DEF QueueInv
      <4> QED
        BY <4>1, <4>2
    <3>5. queue' \in Seq(Nat) /\ Len(queue') <= Len(pushed')
      BY <2>3, <3>2, <3>3 DEF QueueInv
    <3>6. rec' \in {"check", "waiting", "write", "fail"}
      BY <2>3, <3>1
    <3> QED
      BY <2>1, <2>3, <3>4, <3>5, <3>6 DEF QueueInv
  <2> QED
    BY <2>1, <2>2, <2>3
<1>2. CASE TakePacket
  <2>1. /\ rec = "check" /\ queue # <<>> /\ queue' = Tail(queue) /\ rec' \in {"check", "write"}
        /\ UNCHANGED <<str, pushed, failed, stopped, header>>
    BY <1>2 DEF TakePacket, Lock
  <2>2. /\ queue \in Seq(Nat) /\ Len(queue) \in Nat \ {0} /\ Len(queue') = Len(queue) - 1
        /\ queue' \in Seq(Nat)
        /\ \A i \in 1..Len(queue') : queue'[i] = queue[i + 1] /\ i + 1 \in 1..Len(queue)
    BY <2>1 DEF QueueInv
  <2>3. Len(pushed) \in Nat
    BY DEF StreamInv
  <2>4. Taken' = Taken + 1 /\ Taken \in Int
    BY <2>1, <2>2, <2>3 DEF Taken
  <2>5. ASSUME NEW i \in 1..Len(queue') PROVE queue'[i] = Taken' + i
    <3>1. queue'[i] = Taken + (i + 1)
      BY <2>2 DEF QueueInv
    <3> QED
      BY <2>4, <3>1
  <2>6. Len(queue') <= Len(pushed')
    BY <2>1, <2>2, <2>3 DEF QueueInv
  <2> QED
    BY <2>1, <2>2, <2>5, <2>6 DEF QueueInv
<1>3. CASE WriteFailed \/ Finish
  <2>1. /\ rec \in {"fail", "check"} /\ rec' = "done" /\ queue' = <<>>
        /\ UNCHANGED <<str, pushed, stopped>>
        /\ failed' \in BOOLEAN /\ (failed' \/ stopped')
    <3>1. CASE WriteFailed
      BY <3>1 DEF WriteFailed, Lock
    <3>2. CASE Finish
      BY <3>2 DEF Finish, Lock, MayFinish, QueueInv
    <3> QED
      BY <1>3, <3>1, <3>2
  <2>2. queue' \in Seq(Nat) /\ Len(queue') = 0 /\ Len(pushed') \in Nat
    BY <2>1 DEF StreamInv
  <2> QED
    <3>1. header' \in BOOLEAN /\ stopped' \in BOOLEAN
      <4>1. header' \in {header, TRUE}
        BY <1>3 DEF WriteFailed, Finish, Written, file_vars
      <4> QED
        BY <2>1, <4>1 DEF QueueInv
    <3>2. str' = "open" => rec' = "none"
      BY <2>1 DEF QueueInv
    <3> QED
      BY <2>1, <2>2, <3>1, <3>2 DEF QueueInv
<1>4. CASE /\ UNCHANGED <<queue, pushed>> /\ Flags
           /\ rec = "none" \/ str # "open"
           /\ \/ rec' \in {"check", "waiting", "write", "fail"} /\ rec # "done" /\ str' # "open"
              \/ rec' = rec /\ str' \notin {"open", "push", "recv", "stop"}
              \/ rec' = rec /\ rec # "none" /\ str' # "open"
              \/ UNCHANGED <<rec, str>>
  <2>1. Taken' = Taken
    BY <1>4 DEF Taken
  <2>2. /\ rec' \in {"none", "check", "waiting", "write", "fail", "done"}
        /\ failed \/ stopped => failed' \/ stopped'
        /\ rec' = "done" => rec = "done"
    BY <1>4 DEF QueueInv
  <2>3. /\ rec' = "none" => pushed = <<>> /\ str' \notin {"recv", "push", "stop"}
        /\ str' = "open" => rec' = "none"
    BY <1>4 DEF QueueInv
  <2> QED
    BY <1>4, <2>1, <2>2, <2>3 DEF QueueInv
<1>5. ASSUME ~PushPacket, ~TakePacket, ~WriteFailed, ~Finish
      PROVE  /\ UNCHANGED <<queue, pushed>> /\ Flags /\ (rec = "none" \/ str # "open")
             /\ \/ rec' \in {"check", "waiting", "write", "fail"} /\ rec # "done" /\ str' # "open"
                \/ rec' = rec /\ str' \notin {"open", "push", "recv", "stop"}
                \/ rec' = rec /\ rec # "none" /\ str' # "open"
                \/ UNCHANGED <<rec, str>>
  <2>0. rec = "none" \/ str # "open"
    BY DEF QueueInv
  <2>1. CASE Open
    BY <2>1 DEF Open, Goto, QueueInv, file_vars
  <2>2. CASE EndOfStream \/ \E config \in BOOLEAN : RecvPacket(config)
    <3>1. str = "recv" /\ str' \in {"push", "stop"} 
          /\ UNCHANGED <<queue, pushed, failed, stopped, rec, header>>
      BY <2>2 DEF EndOfStream, RecvPacket, Goto, file_vars
    <3>2. rec # "none"
      BY <3>1 DEF QueueInv
    <3> QED
      BY <3>1, <3>2 DEF QueueInv
  <2>3. CASE StopRecorder
    <3>1. /\ str = "stop" /\ str' = "join" /\ UNCHANGED <<queue, pushed, failed, header>>
          /\ stopped' = TRUE /\ rec' = IF rec = "waiting" THEN "check" ELSE rec
      BY <2>3 DEF StopRecorder, Goto, Signal, file_vars
    <3>2. CASE rec = "waiting"
      BY <3>1, <3>2 DEF QueueInv
    <3>3. CASE rec # "waiting"
      BY <3>1, <3>3 DEF QueueInv
    <3> QED
      BY <3>2, <3>3
  <2>4. CASE JoinRecorder \/ CloseRecorder \/ NotifyStopped
    <3>1. /\ str # "open" /\ str' \in {"close", "notify", "done"}
          /\ UNCHANGED <<queue, pushed, stopped, rec, header>>
      <4>1. CASE JoinRecorder
        BY <4>1 DEF JoinRecorder, Goto, file_vars
      <4>2. CASE CloseRecorder
        BY <4>2, Zenon DEF CloseRecorder, Goto, file_vars
      <4>3. CASE NotifyStopped
        BY <4>3 DEF NotifyStopped, Goto, file_vars
      <4> QED
        BY <2>4, <4>1, <4>2, <4>3
    <3>2. failed' \in BOOLEAN /\ (failed => failed')
      <4>1. CASE JoinRecorder \/ NotifyStopped
        BY <4>1 DEF JoinRecorder, NotifyStopped, QueueInv
      <4>2. CASE CloseRecorder
        <5>1. failed' = (failed \/ ~header) \/ failed' = TRUE
          BY <4>2, Zenon DEF CloseRecorder
        <5> QED
          BY <5>1 DEF QueueInv
      <4> QED
        BY <2>4, <4>1, <4>2
    <3> QED
      BY <3>1, <3>2 DEF QueueInv
  <2>5. CASE WaitPacket \/ SpuriousWakeup \/ WritePacket
    <3>1. /\ rec \in {"check", "waiting", "write"} /\ rec' \in {"waiting", "check", "fail"}
          /\ UNCHANGED <<str, queue, pushed, failed, stopped>> /\ header' \in {header, TRUE}
      BY <2>5 DEF WaitPacket, SpuriousWakeup, WritePacket, Lock, Written, file_vars
    <3>2. str # "open"
      BY <3>1 DEF QueueInv
    <3> QED
      BY <3>1, <3>2 DEF QueueInv
  <2>6. CASE Terminated \/ Blocked \/ UNCHANGED vars
    <3>1. UNCHANGED <<str, queue, pushed, failed, stopped, rec, header>>
      BY <2>6 DEF Terminated, Blocked, vars, file_vars
    <3> QED
      BY <2>0, <3>1 DEF QueueInv
  <2> QED
    BY <1>5, <2>1, <2>2, <2>3, <2>4, <2>5, <2>6 DEF Next, StreamThread, RecorderThread
<1> QED
  BY <1>1, <1>2, <1>3, <1>4, <1>5
-----------------------------------------------------------------------------
(* Times are integers.                                                       *)
LEMMA PtsType == ASSUME NEW p \in Nat, NEW q \in Nat PROVE Pts(p) - Pts(q) \in Int
BY DEF Pts

(* What is kept of the file when nothing is written and the recorder is      *)
(* where it was, or waits or wakes up.                                       *)
LEMMA WroteSame ==
  ASSUME StreamInv, NEW k \in Nat, Wrote(k), UNCHANGED <<file, previous, writing>>,
         Taken' = Taken, Len(pushed') \in Nat, Len(pushed) <= Len(pushed'),
         SameUpTo(Len(pushed), configs, configs'),
         \/ rec' = rec
         \/ rec \in {"none", "check", "waiting"} /\ rec' \in {"check", "waiting"},
         rec' = "done" => Len(pushed') = Len(pushed) /\ (failed => failed')
  PROVE  Wrote(k)'
<1>1. Len(pushed) \in Nat /\ k <= Len(pushed)
  BY DEF StreamInv, Wrote
<1>2. FileFrames' = Frames(Upto(k), configs')
  <2>1. SameUpTo(k, configs, configs')
    BY <1>1 DEF SameUpTo
  <2>2. FileFrames' = FileFrames
    BY DEF FileFrames
  <2> QED
    BY <2>1, <2>2, FramesSame DEF Wrote
<1>3. LastRight(k) => LastRight(k)'
  <2> SUFFICES ASSUME LastRight(k), file # <<>> PROVE LastRight(k)'
    BY DEF LastRight
  <2> DEFINE a == file[Len(file)].frame
  <2>1. /\ a \in 1..k /\ k < Len(pushed)
        /\ file[Len(file)].duration = IF configs[a + 1] THEN 0 ELSE Pts(a + 1) - Pts(a)
        /\ \A p \in a + 1..k : configs[p]
    BY DEF LastRight
  <2> HIDE DEF a
  <2>2. configs'[a + 1] = configs[a + 1] /\ \A p \in a + 1..k : configs'[p] = configs[p]
    BY <1>1, <2>1 DEF SameUpTo
  <2>3. k < Len(pushed') /\ \A p \in a + 1..k : configs'[p]
    BY <1>1, <2>1, <2>2
  <2> QED
    BY <2>1, <2>2, <2>3 DEF LastRight, a
<1>4. k <= Len(pushed')
  BY <1>1
<1>5. rec' \in {"none", "check", "waiting", "write"} => LastRight(k)'
  BY <1>3 DEF Wrote
<1>6. /\ rec' \in {"none", "check", "waiting"} =>
           writing' = None /\ previous' = Taken' /\ k = IF Taken' = 0 THEN 0 ELSE Taken' - 1
      /\ rec' = "write" => /\ previous' = Taken' /\ writing' = Taken' - 1 /\ writing' > 0
                           /\ k = writing' - 1
  BY DEF Wrote
<1>7. rec' = "done" /\ ~failed' => Len(pushed') - k \in {0, 1}
  BY DEF Wrote
<1> QED
  BY <1>2, <1>4, <1>5, <1>6, <1>7 DEF Wrote

(* Packet k + 1 is written after the first k.                                *)
LEMMA FileGrows ==
  ASSUME StreamInv, NEW k \in Nat, k < Len(pushed), UNCHANGED <<configs, pushed>>,
         file \in Seq(Recorded), Durations, FileFrames = Frames(Upto(k), configs), LastRight(k),
         NEW d \in Int, Written(k + 1, d)
  PROVE  /\ file' \in Seq(Recorded) /\ Durations' /\ FileFrames' = Frames(Upto(k + 1), configs')
         /\ /\ k + 1 < Len(pushed)
            /\ ~configs[k + 1] => d = IF configs[k + 2] THEN 0 ELSE Pts(k + 2) - Pts(k + 1)
            => LastRight(k + 1)'
<1>1. /\ Len(pushed) \in Nat /\ k + 1 \in Nat
      /\ Frames(Upto(k + 1), configs) = IF configs[k + 1] THEN Frames(Upto(k), configs)
                                        ELSE Append(Frames(Upto(k), configs), k + 1)
  <2>1. Len(pushed) \in Nat /\ k + 1 \in Nat
    BY DEF StreamInv
  <2>2. Frames(Upto(k + 1), configs) = IF configs[k + 1] THEN Frames(Upto(k), configs)
                                       ELSE Append(Frames(Upto(k), configs), k + 1)
    BY FramesGrow, Zenon
  <2> QED
    BY <2>1, <2>2
<1> DEFINE a == file[Len(file)].frame
<1>2. CASE configs[k + 1]
  <2>1. file' = file
    BY <1>2 DEF Written, IsConfig
  <2>2. Durations' /\ FileFrames' = FileFrames
    BY <2>1 DEF Durations, FileFrames
  <2>3. ASSUME k + 1 < Len(pushed) PROVE LastRight(k + 1)'
    <3>1. file # <<>> =>
            /\ a \in 1..k
            /\ file[Len(file)].duration = IF configs[a + 1] THEN 0 ELSE Pts(a + 1) - Pts(a)
            /\ \A p \in a + 1..k : configs[p]
      BY DEF LastRight
    <3> HIDE DEF a
    <3>2. file # <<>> => a \in 1..k + 1 /\ \A p \in a + 1..k + 1 : configs[p]
      <4>1. \A p \in a + 1..k + 1 : p = k + 1 \/ p \in a + 1..k
        OBVIOUS
      <4> QED
        BY <1>2, <3>1, <4>1
    <3> QED
      BY <2>1, <2>3, <3>1, <3>2 DEF LastRight, a
  <2> QED
    BY <1>1, <1>2, <2>1, <2>2, <2>3
<1>3. CASE ~configs[k + 1]
  <2> DEFINE r == [frame |-> k + 1, duration |-> d]
  <2>1. r \in Recorded /\ file' = Append(file, r)
    BY <1>3 DEF Written, IsConfig, Recorded
  <2> DEFINE n == Len(file)
  <2>2. /\ n \in Nat /\ file' \in Seq(Recorded) /\ Len(file') = n + 1 /\ file'[n + 1] = r
        /\ \A i \in 1..n : file'[i] = file[i]
    <3> HIDE DEF r
    <3> QED
      BY <2>1
  <2>3. r.frame = k + 1 /\ r.duration = d
    OBVIOUS
  <2> HIDE DEF r
  <2>4. FileFrames' = Append(FileFrames, k + 1)
    <3>1. /\ FileFrames = [i \in 1..n |-> file[i].frame]
          /\ FileFrames' = [i \in 1..n + 1 |-> file'[i].frame]
      BY <2>2 DEF FileFrames
    <3>2. \A i \in 1..n : file[i].frame \in Nat
      <4>1. \A i \in 1..n : file[i] \in Recorded
        BY <2>2
      <4> QED
        BY <4>1, Zenon DEF Recorded
    <3>3. FileFrames \in Seq(Nat) /\ Len(FileFrames) = n
      BY <2>2, <3>1, <3>2
    <3>4. Append(FileFrames, k + 1) = [i \in 1..n + 1 |-> IF i = n + 1 THEN k + 1 ELSE FileFrames[i]]
      BY <1>1, <3>3
    <3>5. \A i \in 1..n + 1 : file'[i].frame = IF i = n + 1 THEN k + 1 ELSE FileFrames[i]
      BY <2>2, <2>3, <3>1
    <3> QED
      BY <3>1, <3>4, <3>5
  <2>5. Durations'
    <3> SUFFICES ASSUME NEW i \in 1..n
                 PROVE file'[i].duration = IF file'[i + 1].frame = file'[i].frame + 1
                                           THEN Pts(file'[i + 1].frame) - Pts(file'[i].frame) ELSE 0
      BY <2>2 DEF Durations
    <3>1. CASE i = n
      <4>1. /\ a \in 1..k
            /\ file[n].duration = IF configs[a + 1] THEN 0 ELSE Pts(a + 1) - Pts(a)
            /\ \A p \in a + 1..k : configs[p]
        BY <2>2, <3>1 DEF LastRight
      <4>2. file'[i].frame = a /\ file'[i].duration = file[n].duration /\ file'[i + 1].frame = k + 1
        BY <2>2, <2>3, <3>1
      <4> HIDE DEF a, n
      <4>3. CASE a = k
        BY <1>3, <4>1, <4>2, <4>3
      <4>4. CASE a # k
        <5>1. a + 1 \in a + 1..k /\ k + 1 # a + 1
          BY <4>1, <4>4
        <5> QED
          BY <4>1, <4>2, <5>1
      <4> QED
        BY <4>3, <4>4
    <3>2. CASE i # n
      <4>1. i \in 1..n - 1 /\ i + 1 \in 1..n
        BY <2>2, <3>2
      <4>2. file'[i] = file[i] /\ file'[i + 1] = file[i + 1]
        BY <2>2, <4>1
      <4> QED
        BY <4>1, <4>2 DEF Durations
    <3> QED
      BY <3>1, <3>2
  <2>6. ASSUME k + 1 < Len(pushed), d = IF configs[k + 2] THEN 0 ELSE Pts(k + 2) - Pts(k + 1)
        PROVE LastRight(k + 1)'
    <3>1. file'[Len(file')].frame = k + 1 /\ file'[Len(file')].duration = d
      BY <2>2, <2>3
    <3>2. k + 1 \in 1..k + 1 /\ (k + 1) + 1 = k + 2 /\ (k + 1) + 1..k + 1 = {}
      OBVIOUS
    <3> QED
      BY <2>6, <3>1, <3>2 DEF LastRight
  <2> QED
    BY <1>1, <1>3, <2>2, <2>4, <2>5, <2>6
<1> QED
  BY <1>2, <1>3

(* Every step keeps FileInv.                                                 *)
LEMMA FileStep ==
  ASSUME StreamInv, QueueInv, FileInv, StreamInv', QueueInv', [Next]_vars
  PROVE  FileInv'
<1>1. PICK k \in Nat : Wrote(k)
  BY DEF FileInv
<1>2. /\ Len(pushed) \in Nat /\ Len(queue) \in 0..Len(pushed) /\ Len(pushed) <= Count /\ Count \in Nat
      /\ Taken \in 0..Len(pushed) /\ k <= Len(pushed) /\ FileFrames = Frames(Upto(k), configs)
      /\ file \in Seq(Recorded) /\ Durations
  <2>1. Len(queue) \in Nat /\ Len(queue) <= Len(pushed)
    BY DEF QueueInv
  <2>2. Len(pushed) \in Nat /\ Len(pushed) <= Count /\ Count \in Nat
    BY DEF StreamInv, Count
  <2> QED
    BY <1>1, <2>1, <2>2 DEF Taken, Wrote, FileInv
<1>3. ASSUME UNCHANGED file, Wrote(k)' PROVE FileInv'
  BY <1>2, <1>3 DEF FileInv, Durations
<1>4. CASE /\ UNCHANGED <<file, previous, writing, queue, pushed, configs>>
           /\ \/ rec' = rec
              \/ rec \in {"none", "check", "waiting"} /\ rec' \in {"check", "waiting"}
           /\ failed => failed'
  <2>1. Taken' = Taken /\ SameUpTo(Len(pushed), configs, configs')
    BY <1>4 DEF Taken, SameUpTo
  <2>2. Wrote(k)'
    BY <1>1, <1>2, <1>4, <2>1, WroteSame
  <2> QED
    BY <1>3, <1>4, <2>2
<1>5. ASSUME NEW config \in BOOLEAN, RecvPacket(config) PROVE FileInv'
  <2>1. /\ UNCHANGED <<file, previous, writing, queue, pushed, rec, failed>>
        /\ configs' = Append(configs, config)
    BY <1>5 DEF RecvPacket, file_vars
  <2>2. Taken' = Taken
    BY <2>1 DEF Taken
  <2>3. SameUpTo(Len(pushed), configs, configs')
    BY <1>2, <2>1 DEF SameUpTo, Count, StreamInv
  <2>4. Wrote(k)'
    BY <1>1, <1>2, <2>1, <2>2, <2>3, WroteSame
  <2> QED
    BY <1>3, <2>1, <2>4
<1>6. CASE PushPacket
  <2>1. /\ UNCHANGED <<file, previous, writing, configs, failed, stopped>> /\ str = "push"
        /\ \/ rec' = rec
           \/ rec = "waiting" /\ rec' = "check"
        /\ \/ UNCHANGED <<queue, pushed>>
           \/ queue' = Append(queue, Count) /\ pushed' = Append(pushed, Count) /\ ~failed
    BY <1>6 DEF PushPacket, Signal, Refused, file_vars, srec
  <2>2. rec # "done" \/ failed
    BY <2>1 DEF StreamInv, QueueInv
  <2>3. \/ Len(queue') = Len(queue) /\ Len(pushed') = Len(pushed)
        \/ Len(queue') = Len(queue) + 1 /\ Len(pushed') = Len(pushed) + 1 /\ ~failed
    <3>1. pushed \in Seq(Nat) /\ queue \in Seq(Nat)
      <4>1. queue \in Seq(Nat) /\ pushed = Upto(Len(pushed))
        BY DEF StreamInv, QueueInv
      <4>2. Upto(Len(pushed)) \in Seq(Nat)
        BY <1>2, UptoGrows
      <4> QED
        BY <4>1, <4>2
    <3>2. /\ Len(Append(queue, Count)) = Len(queue) + 1
          /\ Len(Append(pushed, Count)) = Len(pushed) + 1
      BY <1>2, <3>1
    <3> QED
      BY <2>1, <3>2, Zenon
  <2>4. Taken' = Taken /\ SameUpTo(Len(pushed), configs, configs')
    <3>1. Taken' = Taken
      BY <1>2, <2>3 DEF Taken
    <3> QED
      BY <2>1, <3>1 DEF SameUpTo
  <2>5. Wrote(k)'
    <3>1. rec' = "done" => Len(pushed') = Len(pushed) /\ (failed => failed')
      BY <2>1, <2>2, <2>3
    <3> QED
      BY <1>1, <1>2, <2>1, <2>3, <2>4, <3>1, WroteSame
  <2> QED
    BY <1>3, <2>1, <2>5
<1>7. CASE TakePacket
  <2>1. /\ UNCHANGED <<file, pushed, configs>> /\ rec = "check"
        /\ queue # <<>> /\ queue' = Tail(queue) /\ previous' = Head(queue) /\ writing' = previous
        /\ rec' = IF previous = None THEN "check" ELSE "write"
    BY <1>7 DEF TakePacket, Lock, srec
  <2>2. Len(queue) > 0 /\ Len(queue') = Len(queue) - 1 /\ previous' = queue[1]
    BY <2>1 DEF QueueInv
  <2>3. Taken' = Taken + 1 /\ previous' = Taken + 1
    BY <1>2, <2>1, <2>2 DEF Taken, QueueInv
  <2>4. previous = Taken /\ k = (IF Taken = 0 THEN 0 ELSE Taken - 1) /\ LastRight(k)
    BY <1>1, <2>1 DEF Wrote
  <2>5. LastRight(k)' /\ FileFrames' = FileFrames
    BY <2>1, <2>4 DEF LastRight, FileFrames
  <2>6. /\ rec' = "check" => writing' = None /\ k = IF Taken' = 0 THEN 0 ELSE Taken' - 1
        /\ rec' = "write" => writing' = Taken' - 1 /\ writing' > 0 /\ k = writing' - 1
        /\ rec' \in {"check", "write"}
    BY <1>2, <2>1, <2>3, <2>4 DEF None
  <2>7. Wrote(k)'
    BY <1>2, <2>1, <2>3, <2>5, <2>6 DEF Wrote
  <2> QED
    BY <1>3, <2>1, <2>7
<1>8. CASE WritePacket
  <2>1. /\ UNCHANGED <<queue, pushed, configs, previous, failed>> /\ rec = "write" /\ writing' = None
        /\ \/ rec' = "check" /\ Written(writing, Duration)
           \/ rec' = "fail" /\ file' = file
    BY <1>8 DEF WritePacket, srec
  <2>2. previous = k + 2 /\ writing = k + 1 /\ Taken = k + 2 /\ LastRight(k)
    BY <1>1, <1>2, <2>1 DEF Wrote
  <2>3. Taken' = Taken
    BY <2>1 DEF Taken
  <2>4. CASE rec' = "check" /\ Written(writing, Duration)
    <3> DEFINE d == Duration
    <3>1. /\ d \in Int
          /\ ~configs[k + 1] => d = IF configs[k + 2] THEN 0 ELSE Pts(k + 2) - Pts(k + 1)
      <4>1. d = IF configs[k + 2] \/ configs[k + 1] THEN 0 ELSE Pts(k + 2) - Pts(k + 1)
        BY <2>2 DEF Duration, IsConfig
      <4> QED
        BY <4>1, PtsType
    <3> HIDE DEF d
    <3>2. Written(k + 1, d)
      BY <2>2, <2>4 DEF d
    <3>3. /\ file' \in Seq(Recorded) /\ Durations' /\ FileFrames' = Frames(Upto(k + 1), configs')
          /\ LastRight(k + 1)'
      <4>1. k < Len(pushed) /\ k + 1 < Len(pushed)
        BY <1>2, <2>2
      <4> QED
        BY <1>2, <2>1, <2>2, <3>1, <3>2, <4>1, FileGrows
    <3>4. Wrote(k + 1)'
      BY <1>2, <2>1, <2>2, <2>3, <2>4, <3>3 DEF Wrote
    <3> QED
      BY <3>3, <3>4 DEF FileInv
  <2>5. CASE rec' = "fail" /\ file' = file
    <3>1. Wrote(k)'
      BY <1>2, <2>1, <2>5 DEF Wrote, FileFrames
    <3> QED
      BY <1>3, <2>5, <3>1
  <2> QED
    BY <2>1, <2>4, <2>5
<1>9. CASE WriteFailed
  <2>1. UNCHANGED <<file, pushed, configs>> /\ rec' = "done" /\ failed' = TRUE
    BY <1>9 DEF WriteFailed, Lock, srec, file_vars
  <2>2. Wrote(k)'
    BY <1>2, <2>1 DEF Wrote, FileFrames
  <2> QED
    BY <1>3, <2>1, <2>2
<1>10. CASE Finish
  <2>1. /\ UNCHANGED <<queue, pushed, configs>> /\ rec = "check" /\ rec' = "done" /\ queue = <<>>
        /\ \/ previous # None /\ Written(previous, LastDuration)
           \/ file' = file
    BY <1>10 DEF Finish, MayFinish, Lock, srec
  <2>2. Taken = Len(pushed) /\ previous = Taken /\ k = (IF Taken = 0 THEN 0 ELSE Taken - 1)
        /\ LastRight(k)
    BY <1>1, <1>2, <2>1 DEF Wrote, Taken
  <2>3. CASE previous # None /\ Written(previous, LastDuration)
    <3>1. previous = k + 1 /\ k + 1 = Len(pushed)
      BY <1>2, <2>2, <2>3 DEF None
    <3>2. /\ file' \in Seq(Recorded) /\ Durations' /\ FileFrames' = Frames(Upto(k + 1), configs')
      <4>1. Written(k + 1, LastDuration) /\ LastDuration \in Int /\ k < Len(pushed)
        BY <2>3, <3>1 DEF LastDuration
      <4> QED
        BY <1>2, <2>1, <2>2, <4>1, FileGrows
    <3>3. Wrote(k + 1)'
      BY <1>2, <2>1, <3>1, <3>2 DEF Wrote
    <3> QED
      BY <3>2, <3>3 DEF FileInv
  <2>4. CASE file' = file
    <3>1. Len(pushed') - k \in {0, 1}
      BY <1>2, <2>1, <2>2
    <3>2. Wrote(k)'
      BY <1>2, <2>1, <2>4, <3>1 DEF Wrote, FileFrames
    <3> QED
      BY <1>3, <2>4, <3>2
  <2> QED
    BY <2>1, <2>3, <2>4
<1>11. ASSUME ~PushPacket, ~TakePacket, ~WritePacket, ~WriteFailed, ~Finish,
              \A config \in BOOLEAN : ~RecvPacket(config)
       PROVE  /\ UNCHANGED <<file, previous, writing, queue, pushed, configs>>
              /\ \/ rec' = rec
                 \/ rec \in {"none", "check", "waiting"} /\ rec' \in {"check", "waiting"}
              /\ failed => failed'
  <2>1. CASE Open
    <3>1. rec = "none"
      BY <2>1 DEF Open, QueueInv
    <3> QED
      BY <2>1, <3>1 DEF Open, srec, file_vars
  <2>2. CASE EndOfStream \/ JoinRecorder \/ NotifyStopped
    BY <2>2 DEF EndOfStream, JoinRecorder, NotifyStopped, srec, file_vars
  <2>3. CASE StopRecorder \/ WaitPacket \/ SpuriousWakeup
    BY <2>3 DEF StopRecorder, Signal, WaitPacket, SpuriousWakeup, Lock, srec, file_vars
  <2>4. CASE CloseRecorder
    <3>1. UNCHANGED <<file, previous, writing, queue, pushed, configs, rec>>
      BY <2>4, Zenon DEF CloseRecorder, srec, file_vars
    <3>2. failed' = (failed \/ ~header) \/ failed' = TRUE
      BY <2>4, Zenon DEF CloseRecorder
    <3> QED
      BY <3>1, <3>2
  <2>5. CASE Terminated \/ Blocked \/ UNCHANGED vars
    BY <2>5 DEF Terminated, Blocked, vars, srec, file_vars
  <2> QED
    BY <1>11, <2>1, <2>2, <2>3, <2>4, <2>5 DEF Next, StreamThread, RecorderThread
<1> QED
  BY <1>4, <1>5, <1>6, <1>7, <1>8, <1>9, <1>10, <1>11

(* Nothing is recorded at first.                                             *)
LEMMA FileInit == ASSUME Init PROVE QueueInv /\ FileInv
<1>1. /\ pushed = <<>> /\ queue = <<>> /\ rec = "none" /\ str = "open" /\ file = <<>>
      /\ previous = None /\ writing = None /\ ~failed /\ ~stopped /\ ~header
      /\ {failed, stopped, header} \subseteq BOOLEAN
  BY DEF Init
<1>2. Taken = 0
  BY <1>1 DEF Taken
<1>3. QueueInv
  BY <1>1, <1>2 DEF QueueInv
<1>4. file \in Seq(Recorded) /\ Durations /\ FileFrames = <<>> /\ LastRight(0)
  BY <1>1 DEF Durations, FileFrames, LastRight
<1>5. Frames(Upto(0), configs) = <<>>
  BY FramesGrow
<1>6. Wrote(0)
  BY <1>1, <1>2, <1>4, <1>5 DEF Wrote, None
<1> QED
  BY <1>3, <1>4, <1>6 DEF FileInv

(* The invariant of the recorder.                                            *)
LEMMA RecordingInvariant == Spec => [](StreamInv /\ QueueInv /\ FileInv)
<1>1. Init => StreamInv /\ QueueInv /\ FileInv
  BY StreamInit, FileInit
<1>2. StreamInv /\ QueueInv /\ FileInv /\ [Next]_vars => (StreamInv /\ QueueInv /\ FileInv)'
  BY StreamStep, QueueStep, FileStep
<1> QED
  BY <1>1, <1>2, PTL DEF Spec

(* The file is at every moment a beginning of the recorded stream: frames    *)
(* in order and none missing, whatever fails (recorder.c).                   *)
THEOREM FileIsPrefixHolds == Spec => []FileIsPrefix
<1>1. StreamInv /\ QueueInv /\ FileInv => FileIsPrefix
  <2> SUFFICES ASSUME StreamInv, FileInv PROVE FileIsPrefix
    OBVIOUS
  <2>1. PICK k \in Nat : Wrote(k)
    BY DEF FileInv
  <2>2. /\ k <= Len(pushed) /\ FileFrames = Frames(Upto(k), configs)
        /\ pushed = Upto(Len(pushed)) /\ Len(pushed) \in Nat
    BY <2>1 DEF Wrote, StreamInv
  <2>3. IsPrefix(Frames(Upto(k), configs), Frames(Upto(Len(pushed)), configs))
    BY <2>2, FramesPrefix
  <2> QED
    BY <2>2, <2>3, Zenon DEF FileIsPrefix
<1> QED
  BY <1>1, RecordingInvariant, PTL

(* In the file a frame lasts until the next one, or for no time when a       *)
(* config packet came between (record_packet of recorder.c).                 *)
THEOREM DurationsHold == Spec => []Durations
<1>1. StreamInv /\ QueueInv /\ FileInv => Durations
  BY DEF FileInv
<1> QED
  BY <1>1, RecordingInvariant, PTL

(* A recording reported complete has every frame accepted, but possibly the  *)
(* last (recorder.c:280).                                                    *)
THEOREM CompleteWhenClosedHolds == Spec => []CompleteWhenClosed
<1>1. StreamInv /\ QueueInv /\ FileInv => CompleteWhenClosed
  <2> SUFFICES ASSUME StreamInv, FileInv, rec = "done", ~failed
               PROVE  Len(Frames(pushed, configs)) - Len(file) \in {0, 1}
    BY DEF CompleteWhenClosed
  <2>1. PICK k \in Nat : Wrote(k)
    BY DEF FileInv
  <2>2. /\ FileFrames = Frames(Upto(k), configs) /\ Len(pushed) - k \in {0, 1}
        /\ pushed = Upto(Len(pushed)) /\ Len(pushed) \in Nat
    BY <2>1 DEF Wrote, StreamInv
  <2> DEFINE a == Frames(Upto(k), configs)
  <2>3. Len(file) = Len(a)
    <3>1. file \in Seq(Recorded)
      BY DEF FileInv
    <3>2. Len(FileFrames) = Len(file)
      BY <3>1 DEF FileFrames
    <3> QED
      BY <2>2, <3>2
  <2>4. a \in Seq(Nat)
    BY FramesGrow
  <2>5. CASE Len(pushed) = k
    <3>1. Frames(pushed, configs) = a
      BY <2>2, <2>5, Zenon
    <3> HIDE DEF a
    <3> QED
      BY <2>3, <2>4, <3>1
  <2>6. CASE Len(pushed) = k + 1
    <3>1. Frames(pushed, configs) = Frames(Upto(k + 1), configs)
      BY <2>2, <2>6, Zenon
    <3>2. Frames(Upto(k + 1), configs) = IF configs[k + 1] THEN a ELSE Append(a, k + 1)
      BY FramesGrow
    <3> HIDE DEF a
    <3>3. Len(a) \in Nat /\ Len(Append(a, k + 1)) = Len(a) + 1
      BY <2>4
    <3>4. Frames(pushed, configs) \in {a, Append(a, k + 1)}
      BY <3>1, <3>2
    <3> QED
      BY <2>3, <3>3, <3>4
  <2> QED
    BY <2>2, <2>5, <2>6
<1> QED
  BY <1>1, RecordingInvariant, PTL

-----------------------------------------------------------------------------
(* The device messages: Receiver.                                            *)

(* What the parser answers at byte i of b.                                   *)
At(b, i) == IF i > Len(b) THEN 0 ELSE Deserialize(SubSeq(b, i, Len(b)))

Processed(b) == [consumed : -1..Len(b), texts : Seq(Seq(Byte))]

(* The processing of b from each of its bytes.                               *)
Processes(P, b) ==
  \A i \in 1..Len(b) + 1 :
    P[i] = LET r == At(b, i)
           IN IF r = -1 THEN [consumed |-> -1, texts |-> <<>>]
              ELSE IF r = 0 THEN [consumed |-> i - 1, texts |-> <<>>]
              ELSE [P[i + r] EXCEPT !.texts = <<SubSeq(b, i + 3, i + r - 1)>> \o @]

(* Two bytes are a natural number.                                           *)
LEMMA TwoBytes == ASSUME NEW x \in 0..255, NEW y \in 0..255 PROVE x * 256 + y \in Nat
OBVIOUS

(* A message found is not longer than what is there.                         *)
LEMMA AtBounds ==
  ASSUME NEW b \in Seq(Byte), NEW i \in 1..Len(b) + 1
  PROVE  At(b, i) = -1 \/ At(b, i) = 0 \/ At(b, i) \in 3..Len(b) + 1 - i
<1>1. CASE i > Len(b)
  BY <1>1 DEF At
<1>2. CASE ~(i > Len(b))
  <2> DEFINE s == SubSeq(b, i, Len(b))
  <2>1. s \in Seq(Byte) /\ Len(s) = Len(b) + 1 - i /\ Len(s) \in Nat
    BY <1>2
  <2>2. At(b, i) = Deserialize(s)
    BY <1>2 DEF At
  <2> HIDE DEF s
  <2>3. CASE Len(s) < 3
    BY <2>2, <2>3 DEF Deserialize
  <2>4. CASE Len(s) >= 3
    <3>1. s[2] \in Byte /\ s[3] \in Byte
      BY <2>1, <2>4
    <3>2. TextLength(s) \in Nat
      BY <3>1, TwoBytes, Zenon DEF TextLength, Byte
    <3>3. \/ Deserialize(s) = -1 \/ Deserialize(s) = 0
          \/ Deserialize(s) = 3 + TextLength(s) /\ ~(TextLength(s) > Len(s) - 3)
      BY <2>4 DEF Deserialize
    <3>4. CASE Deserialize(s) = 3 + TextLength(s) /\ ~(TextLength(s) > Len(s) - 3)
      <4>1. 3 + TextLength(s) \in 3..Len(s)
        BY <2>1, <3>2, <3>4
      <4> QED
        BY <2>1, <2>2, <3>4, <4>1
    <3> QED
      BY <2>2, <3>3, <3>4
  <2> QED
    BY <2>1, <2>3, <2>4
<1> QED
  BY <1>1, <1>2

(* What ProcessMsgs chooses processes b.                                     *)
LEMMA ProcessIs ==
  ASSUME NEW b \in Seq(Byte)
  PROVE  \E P \in [1..Len(b) + 1 -> Processed(b)] : Processes(P, b) /\ ProcessMsgs(b) = P[1]
<1> DEFINE m == Len(b) + 1
           V == Processed(b)
           A(i) == At(b, i)
           text(i) == SubSeq(b, i + 3, i + A(i) - 1)
           next == [i \in 1..m |-> IF A(i) = -1 \/ A(i) = 0 THEN 0 ELSE i + A(i)]
           last == [i \in 1..m |-> [consumed |-> IF A(i) = -1 THEN -1 ELSE i - 1, texts |-> <<>>]]
           step == [i \in 1..m |-> [v \in V |-> [v EXCEPT !.texts = <<text(i)>> \o @]]]
<1>1. m \in Nat /\ Len(b) \in Nat
  OBVIOUS
<1>2. \A i \in 1..m : A(i) = -1 \/ A(i) = 0 \/ A(i) \in 3..m - i
  BY AtBounds
<1> HIDE DEF A
<1>3. \A i \in 1..m : next[i] = 0 \/ next[i] \in i + 1..m
  BY <1>1, <1>2
<1>4. last \in [1..m -> V]
  <2>1. ASSUME NEW i \in 1..m
        PROVE  [consumed |-> IF A(i) = -1 THEN -1 ELSE i - 1, texts |-> <<>>] \in V
    <3>1. (IF A(i) = -1 THEN -1 ELSE i - 1) \in -1..Len(b) /\ <<>> \in Seq(Seq(Byte))
      BY <1>1
    <3> QED
      BY <3>1 DEF Processed
  <2> HIDE DEF V
  <2> QED
    BY <2>1
<1>5. step \in [1..m -> [V -> V]]
  <2>1. ASSUME NEW i \in 1..m PROVE text(i) \in Seq(Byte)
    <3>1. CASE A(i) = -1 \/ A(i) = 0
      <4>1. i + A(i) - 1 < i + 3 /\ i + A(i) - 1 \in Int /\ i + 3 \in Int
        BY <1>1, <3>1
      <4>2. text(i) = <<>>
        BY <4>1, SubSeqEmpty
      <4> HIDE DEF text
      <4>3. <<>> \in Seq(Byte)
        OBVIOUS
      <4> QED
        BY <4>2, <4>3
    <3>2. CASE A(i) \in 3..m - i
      <4>1. i + 3 \in Nat \ {0} /\ i + A(i) - 1 \in Nat /\ i + A(i) - 1 <= Len(b)
        BY <1>1, <3>2
      <4> QED
        BY <4>1
    <3> QED
      BY <1>2, <3>1, <3>2
  <2> HIDE DEF text
  <2>2. ASSUME NEW i \in 1..m, NEW v \in V PROVE [v EXCEPT !.texts = <<text(i)>> \o @] \in V
    <3>1. v.texts \in Seq(Seq(Byte)) /\ <<text(i)>> \in Seq(Seq(Byte))
      BY <2>1 DEF Processed
    <3>2. <<text(i)>> \o v.texts \in Seq(Seq(Byte))
      BY <3>1
    <3> HIDE DEF m
    <3> QED
      BY <3>2 DEF Processed
  <2> HIDE DEF V
  <2> QED
    BY <2>2
<1> HIDE DEF next, last, step, V
<1>6. PICK P \in [1..m -> V] : Returns(P, m, next, last, step)
  BY <1>1, <1>3, <1>4, <1>5, BackwardExists
<1> DEFINE B(F) == [i \in 1..Len(b) + 1 |->
                      LET r == IF i > Len(b) THEN 0 ELSE Deserialize(SubSeq(b, i, Len(b)))
                      IN IF r = -1 THEN [consumed |-> -1, texts |-> <<>>]
                         ELSE IF r = 0 THEN [consumed |-> i - 1, texts |-> <<>>]
                         ELSE [F[i + r] EXCEPT !.texts = <<SubSeq(b, i + 3, i + r - 1)>> \o @]]
           G == CHOOSE F : F = B(F)
<1>7. ProcessMsgs(b) = G[1]
  BY DEF ProcessMsgs
<1>8. ASSUME NEW i \in 1..m
      PROVE  P[i] = IF A(i) = -1 THEN [consumed |-> -1, texts |-> <<>>]
                    ELSE IF A(i) = 0 THEN [consumed |-> i - 1, texts |-> <<>>]
                    ELSE [P[i + A(i)] EXCEPT !.texts = <<text(i)>> \o @]
  <2>1. P[i] = IF next[i] = 0 THEN last[i] ELSE step[i][P[next[i]]]
    BY <1>6 DEF Returns
  <2>2. CASE A(i) = -1 \/ A(i) = 0
    <3>1. next[i] = 0
      BY <2>2 DEF next
    <3>2. last[i] = [consumed |-> IF A(i) = -1 THEN -1 ELSE i - 1, texts |-> <<>>]
      BY DEF last
    <3>3. CASE A(i) = -1
      BY <2>1, <3>1, <3>2, <3>3
    <3>4. CASE A(i) = 0
      BY <2>1, <3>1, <3>2, <3>4
    <3> QED
      BY <2>2, <3>3, <3>4
  <2>3. CASE A(i) \in 3..m - i
    <3>1. next[i] = i + A(i) /\ next[i] # 0 /\ i + A(i) \in 1..m /\ A(i) # -1 /\ A(i) # 0
      BY <1>1, <2>3 DEF next
    <3>2. P[i + A(i)] \in V
      BY <1>6, <3>1
    <3>3. step[i] = [v \in V |-> [v EXCEPT !.texts = <<text(i)>> \o @]]
      BY Zenon DEF step
    <3>4. step[i][P[i + A(i)]] = [P[i + A(i)] EXCEPT !.texts = <<text(i)>> \o @]
      BY <3>2, <3>3, Zenon
    <3> QED
      BY <2>1, <3>1, <3>4, Zenon
  <2> QED
    BY <1>2, <2>2, <2>3
<1>9. P = B(P)
  <2>1. P = [i \in 1..m |-> P[i]]
    BY <1>6
  <2> QED
    BY <1>8, <2>1, Zenon DEF A, At
<1>10. G = B(G)
  <2>1. \E F : F = B(F)
    BY <1>9, Zenon
  <2> HIDE DEF B
  <2> QED
    BY <2>1, Zenon
<1> HIDE DEF G
<1>11. ASSUME NEW i \in 1..m
       PROVE  G[i] = IF A(i) = -1 THEN [consumed |-> -1, texts |-> <<>>]
                     ELSE IF A(i) = 0 THEN [consumed |-> i - 1, texts |-> <<>>]
                     ELSE [G[i + A(i)] EXCEPT !.texts = <<text(i)>> \o @]
  BY <1>10, Zenon DEF A, At
<1>12. ASSUME NEW i \in 1..m, AlikeAfter(i, P, G, m) PROVE P[i] = G[i]
  <2>1. A(i) = -1 \/ A(i) = 0 \/ P[i + A(i)] = G[i + A(i)]
    <3>1. A(i) \in 3..m - i => i + A(i) \in i + 1..m
      BY <1>1
    <3> QED
      BY <1>2, <1>12, <3>1 DEF AlikeAfter
  <2> QED
    BY <1>8, <1>11, <2>1, Zenon
<1>13. \A i \in 1..m : P[i] = G[i]
  <2> HIDE DEF B
  <2> QED
    BY <1>1, <1>12, BackwardAlike
<1>14. Processes(P, b)
  BY <1>8 DEF Processes, A
<1>15. ProcessMsgs(b) = P[1]
  BY <1>1, <1>7, <1>13
<1> QED
  BY <1>6, <1>14, <1>15 DEF V

(* The messages of the texts ts.                                             *)
Wired(ts) == [i \in DOMAIN ts |-> Serialized(ts[i])]

(* A text, on the wire and back.                                             *)
LEMMA SerializedIs ==
  ASSUME RcvAssumption, NEW t \in Texts
  PROVE  /\ t \in Seq(Byte) /\ Len(t) \in Nat /\ Len(t) <= MaxText
         /\ Serialized(t) \in Seq(Byte) /\ Len(Serialized(t)) = 3 + Len(t)
         /\ Serialized(t)[1] = CLIPBOARD /\ TextLength(Serialized(t)) = Len(t)
         /\ \A k \in 1..Len(t) : Serialized(t)[3 + k] = t[k]
<1>1. t \in Seq(Byte \ {0}) /\ Len(t) <= MaxText /\ MaxText \in Nat /\ MaxText < 256 * 256
  BY DEF RcvAssumption
<1>2. t \in Seq(Byte) /\ Len(t) \in Nat
  BY <1>1
<1> DEFINE n == Len(t)  h == <<CLIPBOARD, n \div 256, n % 256>>
<1>3. n \in Nat /\ n < 256 * 256
  BY <1>1, <1>2
<1>4. n \div 256 \in Byte /\ n % 256 \in Byte /\ (n \div 256) * 256 + (n % 256) = n
  <2> HIDE DEF n
  <2> QED
    BY <1>3 DEF Byte
<1>5. h \in Seq(Byte) /\ Len(h) = 3 /\ h[1] = CLIPBOARD /\ h[2] = n \div 256 /\ h[3] = n % 256
  <2> HIDE DEF n
  <2>1. CLIPBOARD \in Byte
    BY DEF CLIPBOARD, Byte
  <2> QED
    BY <1>4, <2>1
<1> HIDE DEF h
<1>6. /\ h \o t \in Seq(Byte) /\ Len(h \o t) = 3 + Len(t)
      /\ \A k \in 1..3 : (h \o t)[k] = h[k]
      /\ \A k \in 1..Len(t) : (h \o t)[3 + k] = t[k]
  <2>1. /\ h \o t \in Seq(Byte) /\ Len(h \o t) = Len(h) + Len(t)
        /\ \A k \in 1..Len(h) : (h \o t)[k] = h[k]
        /\ \A k \in 1..Len(t) : (h \o t)[Len(h) + k] = t[k]
    <3> HIDE DEF n
    <3>1. h \in Seq(Byte) /\ t \in Seq(Byte)
      BY <1>2, <1>5
    <3> QED
      BY <3>1, ConcatAt
  <2> QED
    BY <1>5, <2>1
<1>7. Serialized(t) = h \o t
  BY DEF Serialized, h
<1>8. (h \o t)[1] = CLIPBOARD /\ TextLength(h \o t) = n
  <2>1. (h \o t)[1] = h[1] /\ (h \o t)[2] = h[2] /\ (h \o t)[3] = h[3]
    BY <1>6
  <2> QED
    BY <1>4, <1>5, <2>1 DEF TextLength
<1> HIDE DEF n
<1>9. n = Len(t)
  BY DEF n
<1> QED
  BY <1>1, <1>2, <1>6, <1>7, <1>8, <1>9

(* A message that begins at byte i is found there, with its text.            *)
LEMMA MessageAt ==
  ASSUME RcvAssumption, NEW b \in Seq(Byte), NEW i \in Nat \ {0}, NEW t \in Texts, i + 2 + Len(t) <= Len(b),
         \A k \in 1..Len(Serialized(t)) : b[i - 1 + k] = Serialized(t)[k]
  PROVE  At(b, i) = 3 + Len(t) /\ SubSeq(b, i + 3, i + (3 + Len(t)) - 1) = t
<1> DEFINE s == SubSeq(b, i, Len(b))  n == Len(t)  z == Serialized(t)
<1>1. /\ t \in Seq(Byte) /\ n \in Nat /\ Len(z) = 3 + n
      /\ z[1] = CLIPBOARD /\ z[2] * 256 + z[3] = n
      /\ \A k \in 1..n : z[3 + k] = t[k]
  BY SerializedIs DEF TextLength
<1> HIDE DEF n, z
<1>2. i + 2 + n <= Len(b) /\ Len(b) \in Nat /\ \A k \in 1..3 + n : b[i - 1 + k] = z[k]
  BY <1>1 DEF n, z
<1>3. b[i] = z[1] /\ b[i + 1] = z[2] /\ b[i + 2] = z[3]
  <2>1. 1 \in 1..3 + n /\ 2 \in 1..3 + n /\ 3 \in 1..3 + n
    BY <1>1
  <2>2. i - 1 + 1 = i /\ i - 1 + 2 = i + 1 /\ i - 1 + 3 = i + 2
    OBVIOUS
  <2> QED
    BY <1>2, <2>1, <2>2
<1>4. /\ Len(s) = Len(b) - i + 1 /\ Len(s) >= 3 + n /\ Len(s) \in Nat
      /\ s[1] = b[i] /\ s[2] = b[i + 1] /\ s[3] = b[i + 2]
  <2>1. i - 1 \in Nat /\ (i - 1) + 1 = i /\ i - 1 <= Len(b)
    BY <1>1, <1>2
  <2>2. Len(s) = Len(b) - (i - 1) /\ \A k \in 1..Len(b) - (i - 1) : s[k] = b[(i - 1) + k]
    BY <1>2, <2>1, PartAt
  <2>3. 1 \in 1..Len(b) - (i - 1) /\ 2 \in 1..Len(b) - (i - 1) /\ 3 \in 1..Len(b) - (i - 1)
    <3>1. i + 2 + n <= Len(b) /\ n \in Nat /\ Len(b) \in Nat
      BY <1>1, <1>2
    <3> DEFINE l == Len(b)
    <3>2. i + 2 + n <= l /\ l \in Nat
      BY <3>1
    <3> HIDE DEF l
    <3>3. 1 \in 1..l - (i - 1) /\ 2 \in 1..l - (i - 1) /\ 3 \in 1..l - (i - 1)
      BY <3>1, <3>2
    <3> QED
      BY <3>3 DEF l
  <2>4. s[1] = b[(i - 1) + 1] /\ s[2] = b[(i - 1) + 2] /\ s[3] = b[(i - 1) + 3]
    BY <2>2, <2>3
  <2>5. (i - 1) + 1 = i /\ (i - 1) + 2 = i + 1 /\ (i - 1) + 3 = i + 2
    OBVIOUS
  <2> QED
    BY <1>1, <1>2, <2>2, <2>4, <2>5, SMTT(20)
<1> HIDE DEF s
<1>5. At(b, i) = 3 + n
  <2>1. At(b, i) = Deserialize(s)
    BY <1>1, <1>2 DEF At, s
  <2>2. TextLength(s) = n
    BY <1>1, <1>3, <1>4 DEF TextLength
  <2> QED
    BY <1>1, <1>3, <1>4, <2>1, <2>2, SMTT(20) DEF Deserialize
<1>6. SubSeq(b, i + 3, i + (3 + n) - 1) = t
  <2> DEFINE u == SubSeq(b, (i + 2) + 1, i + 2 + n)
  <2>1. /\ u \in Seq(Byte) /\ Len(u) = n
        /\ \A k \in 1..n : u[k] = b[(i + 2) + k]
    <3> DEFINE x == i + 2  y == i + 2 + n
    <3>1. x \in Nat /\ y \in Nat /\ x <= y /\ y - x = n /\ y <= Len(b)
      BY <1>1, <1>2
    <3> HIDE DEF x, y
    <3>2. /\ SubSeq(b, x + 1, y) \in Seq(Byte) /\ Len(SubSeq(b, x + 1, y)) = n
          /\ \A k \in 1..n : SubSeq(b, x + 1, y)[k] = b[x + k]
      BY <3>1, PartAt
    <3> QED
      BY <3>2 DEF x, y
  <2>2. ASSUME NEW k \in 1..n PROVE u[k] = t[k]
    <3>1. 3 + k \in 1..3 + n /\ i - 1 + (3 + k) = (i + 2) + k
      BY <1>1
    <3>2. b[(i + 2) + k] = z[3 + k]
      BY <1>2, <3>1
    <3> QED
      BY <1>1, <2>1, <3>2
  <2>3. (i + 2) + 1 = i + 3 /\ i + (3 + n) - 1 = i + 2 + n
    BY <1>1
  <2> HIDE DEF u
  <2>4. u = t
    BY <1>1, <2>1, <2>2, SeqEqual DEF n
  <2> QED
    BY <2>3, <2>4 DEF u
<1> QED
  BY <1>5, <1>6 DEF n

(* A piece of whole messages is processed wholly.                            *)
LEMMA ProcessWhole ==
  ASSUME RcvAssumption, NEW b \in Seq(Byte), NEW ts \in Seq(Texts), NEW off, CutBy(off, b, Wired(ts))
  PROVE  ProcessMsgs(b) = [consumed |-> Len(b), texts |-> ts]
<1> DEFINE n == Len(ts)
<1>1. n \in Nat /\ Len(Wired(ts)) = n /\ \A j \in 1..n : ts[j] \in Texts
  BY DEF Wired
<1>2. Wired(ts) \in Seq(Seq(Byte)) /\ \A j \in 1..n : Wired(ts)[j] = Serialized(ts[j])
  <2>1. \A j \in 1..n : Serialized(ts[j]) \in Seq(Byte)
    BY <1>1, SerializedIs
  <2>2. \A j \in 1..n : Wired(ts)[j] = Serialized(ts[j])
    BY <1>1 DEF Wired
  <2>3. Wired(ts) = [j \in 1..n |-> Serialized(ts[j])]
    BY DEF Wired
  <2> HIDE DEF n
  <2>4. [j \in 1..n |-> Serialized(ts[j])] \in Seq(Seq(Byte))
    BY <1>1, <2>1
  <2> QED
    BY <2>2, <2>3, <2>4
<1>3. PICK P \in [1..Len(b) + 1 -> Processed(b)] : Processes(P, b) /\ ProcessMsgs(b) = P[1]
  BY ProcessIs
<1>4. /\ off[0] = 0 /\ Len(b) = off[n] /\ off \in [0..n -> Nat]
      /\ \A j \in 0..n : off[j] \in Nat /\ off[j] <= Len(b)
  <2>1. off[0] = 0 /\ Len(b) = off[n] /\ off \in [0..n -> Nat]
    BY <1>1 DEF CutBy
  <2>2. \A j \in 0..n : off[j] \in Nat /\ \A k \in j..n : off[j] <= off[k]
    BY <1>1, <1>2, CutPlaces
  <2>3. \A j \in 0..n : n \in j..n
    BY <1>1
  <2> QED
    BY <2>1, <2>2, <2>3
<1> HIDE DEF n
<1>5. ASSUME NEW j \in 1..n
      PROVE  /\ off[j - 1] + 1 \in 1..Len(b) + 1 /\ At(b, off[j - 1] + 1) = 3 + Len(ts[j])
             /\ SubSeq(b, off[j - 1] + 1 + 3, off[j - 1] + 1 + (3 + Len(ts[j])) - 1) = ts[j]
             /\ off[j - 1] + 1 + (3 + Len(ts[j])) = off[j] + 1 /\ Len(ts[j]) \in Nat
  <2> DEFINE o == off[j - 1]  t == ts[j]
  <2>1. t \in Texts /\ Len(Serialized(t)) = 3 + Len(t) /\ Len(t) \in Nat
    BY <1>1, SerializedIs
  <2>2. /\ off[j] = o + Len(Serialized(t))
        /\ \A k \in 1..Len(Serialized(t)) : b[o + k] = Serialized(t)[k]
    BY <1>1, <1>2, ZenonT(30) DEF CutBy
  <2>3. o \in Nat /\ off[j] \in Nat /\ off[j] <= Len(b) /\ o <= Len(b)
    <3>1. j - 1 \in 0..n /\ j \in 0..n
      BY <1>1
    <3> QED
      BY <1>4, <3>1
  <2> HIDE DEF o, t
  <2> DEFINE i == o + 1
  <2>4. i \in Nat \ {0} /\ i + 2 + Len(t) <= Len(b) /\ i - 1 = o /\ i \in 1..Len(b) + 1
        /\ i + (3 + Len(t)) = off[j] + 1
    BY <2>1, <2>2, <2>3
  <2> HIDE DEF i
  <2>5. \A k \in 1..Len(Serialized(t)) : b[i - 1 + k] = Serialized(t)[k]
    BY <2>2, <2>4
  <2>6. At(b, i) = 3 + Len(t) /\ SubSeq(b, i + 3, i + (3 + Len(t)) - 1) = t
    BY <2>1, <2>4, <2>5, MessageAt
  <2> QED
    BY <2>1, <2>4, <2>6 DEF i, o, t
<1> DEFINE Right(j) == P[off[j] + 1] = [consumed |-> Len(b), texts |-> SubSeq(ts, j + 1, n)]
           S == {d \in Nat : d <= n => Right(n - d)}
<1>6. 0 \in S
  <2>1. Len(b) + 1 \in 1..Len(b) + 1 /\ Len(b) \in Nat /\ n - 0 = n /\ Len(b) + 1 - 1 = Len(b)
    BY <1>1
  <2>2. At(b, Len(b) + 1) = 0
    BY <2>1 DEF At
  <2>3. P[Len(b) + 1] = [consumed |-> Len(b), texts |-> <<>>]
    <3> DEFINE m == Len(b) + 1
    <3>1. m \in 1..m /\ m - 1 = Len(b) /\ At(b, m) = 0 /\ 0 # -1
      BY <2>1, <2>2
    <3>2. Processes(P, b) => P[m] = [consumed |-> m - 1, texts |-> <<>>]
      <4> HIDE DEF m
      <4>1. m = Len(b) + 1
        BY DEF m
      <4> QED
        BY <3>1, <4>1, Zenon DEF Processes
    <3> QED
      BY <1>3, <3>1, <3>2
  <2>4. SubSeq(ts, n + 1, n) = <<>>
    BY <1>1, SubSeqEmpty
  <2>5. Right(n)
    BY <1>4, <2>3, <2>4, Zenon
  <2> HIDE DEF Right
  <2> QED
    BY <2>1, <2>5
<1>7. ASSUME NEW d \in Nat, d \in S PROVE d + 1 \in S
  <2> SUFFICES ASSUME d + 1 <= n PROVE Right(n - (d + 1))
    OBVIOUS
  <2> DEFINE j == n - d
  <2>1. j \in 1..n /\ n - (d + 1) = j - 1 /\ j \in 0..n
    BY <1>1
  <2>2. Right(j)
    BY <1>1, <1>7, <2>1
  <2> HIDE DEF j
  <2> DEFINE i == off[j - 1] + 1  r == 3 + Len(ts[j])
  <2>3. /\ i \in 1..Len(b) + 1 /\ At(b, i) = r /\ SubSeq(b, i + 3, i + r - 1) = ts[j]
        /\ i + r = off[j] + 1 /\ r # -1 /\ r # 0
    <3>1. Len(ts[j]) \in Nat
      BY <1>5, <2>1
    <3>2. r # -1 /\ r # 0
      BY <3>1
    <3> QED
      BY <1>5, <2>1, <3>2, Zenon
  <2> HIDE DEF i, r
  <2>4. P[i] = [P[i + r] EXCEPT !.texts = <<SubSeq(b, i + 3, i + r - 1)>> \o @]
    BY <1>3, <2>3 DEF Processes
  <2>5. P[i] = [consumed |-> Len(b), texts |-> <<ts[j]>> \o SubSeq(ts, j + 1, n)]
    <3> DEFINE rest == SubSeq(ts, j + 1, n)
    <3>1. P[i + r] = [consumed |-> Len(b), texts |-> rest]
      BY <2>2, <2>3
    <3> HIDE DEF rest
    <3>2. P[i] = [P[i + r] EXCEPT !.texts = <<ts[j]>> \o @]
      BY <2>3, <2>4
    <3>3. P[i] = [[consumed |-> Len(b), texts |-> rest] EXCEPT !.texts = <<ts[j]>> \o @]
      BY <3>1, <3>2, Zenon
    <3>4. [[consumed |-> Len(b), texts |-> rest] EXCEPT !.texts = <<ts[j]>> \o @]
            = [consumed |-> Len(b), texts |-> <<ts[j]>> \o rest]
      <4> DEFINE record == [consumed |-> Len(b), texts |-> rest]
      <4>1. record.texts = rest
        BY Zenon
      <4>2. \A z : [record EXCEPT !.texts = z] = [consumed |-> Len(b), texts |-> z]
        OBVIOUS
      <4>3. [record EXCEPT !.texts = <<ts[j]>> \o @] = [record EXCEPT !.texts = <<ts[j]>> \o rest]
        BY <4>1, Zenon
      <4> QED
        BY <4>2, <4>3, Zenon
    <3> QED
      BY <3>3, <3>4 DEF rest
  <2>6. <<ts[j]>> \o SubSeq(ts, j + 1, n) = SubSeq(ts, j, n)
    <3>1. j \in 1..Len(ts) /\ n \in j..Len(ts)
      BY <1>1, <2>1 DEF n
    <3> QED
      BY <3>1, SubSeqRecursiveFirst
  <2>7. (j - 1) + 1 = j
    BY <1>1, <2>1
  <2>8. Right(j - 1)
    BY <2>5, <2>6, <2>7 DEF i
  <2> QED
    BY <2>1, <2>8
<1> HIDE DEF S
<1>8. n \in S
  BY <1>1, <1>6, <1>7, NatInduct
<1>9. Right(0)
  <2>1. n - n = 0 /\ n <= n
    BY <1>1
  <2> QED
    BY <1>8, <2>1 DEF S
<1>10. P[1] = [consumed |-> Len(b), texts |-> SubSeq(ts, 1, n)]
  <2>1. off[0] + 1 = 1 /\ 0 + 1 = 1
    BY <1>4
  <2> QED
    BY <1>9, <2>1
<1>11. SubSeq(ts, 1, n) = ts
  BY SubSeqFull DEF n
<1> QED
  BY <1>3, <1>10, <1>11

(* What is processed is no more than what is there.                          *)
LEMMA ProcessType ==
  ASSUME NEW b \in Seq(Byte)
  PROVE  ProcessMsgs(b).consumed \in -1..Len(b) /\ Len(b) \in Nat
<1>1. PICK P \in [1..Len(b) + 1 -> Processed(b)] : ProcessMsgs(b) = P[1]
  BY ProcessIs
<1>2. 1 \in 1..Len(b) + 1 /\ Len(b) \in Nat
  OBVIOUS
<1>3. ProcessMsgs(b) \in Processed(b)
  BY <1>1, <1>2
<1> QED
  BY <1>2, <1>3 DEF Processed

(* The messages of texts, and of a part of them.                             *)
LEMMA WiredIs ==
  ASSUME RcvAssumption, NEW ts \in Seq(Texts)
  PROVE  /\ Wired(ts) \in Seq(Seq(Byte)) /\ Len(Wired(ts)) = Len(ts) /\ Len(ts) \in Nat
         /\ \A j \in 1..Len(ts) : Wired(ts)[j] = Serialized(ts[j]) /\ Len(Serialized(ts[j])) >= 3
         /\ Stream(ts) = FlattenSeq(Wired(ts))
<1> DEFINE n == Len(ts)
<1>1. n \in Nat /\ Len(Wired(ts)) = n /\ \A j \in 1..n : ts[j] \in Texts
  BY DEF Wired
<1>2. \A j \in 1..n : Serialized(ts[j]) \in Seq(Byte) /\ Len(Serialized(ts[j])) >= 3
  <2>1. ASSUME NEW j \in 1..n PROVE Serialized(ts[j]) \in Seq(Byte) /\ Len(Serialized(ts[j])) >= 3
    <3>1. /\ Serialized(ts[j]) \in Seq(Byte) /\ Len(Serialized(ts[j])) = 3 + Len(ts[j])
          /\ Len(ts[j]) \in Nat
      BY <1>1, SerializedIs
    <3> QED
      BY <3>1
  <2> QED
    BY <2>1
<1>3. \A j \in 1..n : Wired(ts)[j] = Serialized(ts[j])
  BY <1>1 DEF Wired
<1>4. Wired(ts) = [j \in 1..n |-> Serialized(ts[j])]
  BY DEF Wired
<1>5. Stream(ts) = FlattenSeq(Wired(ts))
  BY DEF Stream, Wired
<1> HIDE DEF n
<1>6. [j \in 1..n |-> Serialized(ts[j])] \in Seq(Seq(Byte))
  BY <1>1, <1>2
<1>7. n = Len(ts)
  BY DEF n
<1> QED
  BY <1>1, <1>2, <1>3, <1>4, <1>5, <1>6, <1>7

(* ... a part of them.                                                       *)
LEMMA WiredPart ==
  ASSUME RcvAssumption, NEW ts \in Seq(Texts), NEW n \in 0..Len(ts), NEW m \in n..Len(ts)
  PROVE  /\ SubSeq(ts, n + 1, m) \in Seq(Texts) /\ Len(SubSeq(ts, n + 1, m)) = m - n
         /\ Wired(SubSeq(ts, n + 1, m)) = SubSeq(Wired(ts), n + 1, m)
<1> DEFINE part == SubSeq(ts, n + 1, m)  w == SubSeq(Wired(ts), n + 1, m)
<1>1. n \in Nat /\ m \in Nat /\ n <= m /\ m <= Len(ts) /\ m - n \in Nat
  OBVIOUS
<1>2. part \in Seq(Texts) /\ Len(part) = m - n /\ \A i \in 1..m - n : part[i] = ts[n + i]
  BY <1>1, PartAt
<1>3. /\ w \in Seq(Seq(Byte)) /\ Len(w) = m - n
      /\ \A i \in 1..m - n : w[i] = Wired(ts)[n + i]
  <2>1. Wired(ts) \in Seq(Seq(Byte)) /\ m <= Len(Wired(ts))
    BY <1>1, WiredIs
  <2> QED
    BY <1>1, <2>1, PartAt
<1> HIDE DEF part, w
<1>4. /\ Wired(part) \in Seq(Seq(Byte)) /\ Len(Wired(part)) = m - n
      /\ \A i \in 1..m - n : Wired(part)[i] = Serialized(part[i])
  BY <1>2, WiredIs
<1>5. ASSUME NEW i \in 1..m - n PROVE Wired(part)[i] = w[i]
  <2>1. n + i \in 1..Len(ts)
    BY <1>1
  <2>2. Wired(ts)[n + i] = Serialized(ts[n + i])
    BY <2>1, WiredIs
  <2> QED
    BY <1>2, <1>3, <1>4, <2>2
<1>6. Wired(part) = w
  BY <1>3, <1>4, <1>5, SeqEqual
<1> QED
  BY <1>2, <1>6 DEF part, w

(* Where the messages of the texts begin in the stream.                      *)
Begins(off, ts) == CutBy(off, Stream(ts), Wired(ts))

(* There are such places.                                                    *)
LEMMA BeginsExists ==
  ASSUME RcvAssumption, NEW ts \in Seq(Texts)
  PROVE  Stream(ts) \in Seq(Byte) /\ \E off : Begins(off, ts)
<1>1. Wired(ts) \in Seq(Seq(Byte)) /\ Stream(ts) = FlattenSeq(Wired(ts))
  BY WiredIs
<1>2. \E off : FlattenSeq(Wired(ts)) \in Seq(Byte) /\ CutBy(off, FlattenSeq(Wired(ts)), Wired(ts))
  BY <1>1, FlattenCuts
<1> QED
  BY <1>1, <1>2 DEF Begins

(* They are in order, no two at a place; what follows a message is as long   *)
(* as the stream of the texts that follow; and the bytes between two places  *)
(* are processed wholly.                                                     *)
LEMMA BeginsAre ==
  ASSUME RcvAssumption, NEW ts \in Seq(Texts), NEW off, Begins(off, ts)
  PROVE  /\ off[0] = 0 /\ off[Len(ts)] = Len(Stream(ts))
         /\ \A i \in 0..Len(ts) : off[i] \in Nat /\ off[i] <= Len(Stream(ts))
         /\ \A i \in 0..Len(ts) : \A j \in i..Len(ts) : off[i] <= off[j]
         /\ \A i \in 0..Len(ts) : \A j \in i + 1..Len(ts) : off[i] < off[j]
<1> DEFINE N == Len(ts)
<1>1. N \in Nat /\ Len(Wired(ts)) = N /\ Wired(ts) \in Seq(Seq(Byte))
  BY WiredIs
<1>2. off[0] = 0 /\ off[N] = Len(Stream(ts))
  BY <1>1 DEF Begins, CutBy
<1>3. \A i \in 0..N : off[i] \in Nat /\ \A j \in i..N : off[i] <= off[j]
  BY <1>1, CutPlaces DEF Begins
<1>4. \A i \in 0..N : off[i] <= Len(Stream(ts))
  <2>1. \A i \in 0..N : N \in i..N
    BY <1>1
  <2> QED
    BY <1>2, <1>3, <2>1
<1>5. ASSUME NEW i \in 0..N, NEW j \in i + 1..N PROVE off[i] < off[j]
  <2>1. j \in 1..N /\ j - 1 \in i..N /\ j - 1 \in 0..N
    BY <1>1
  <2>2. off[j] = off[j - 1] + Len(Wired(ts)[j])
    BY <1>1, <2>1 DEF Begins, CutBy
  <2>3. Len(Wired(ts)[j]) >= 3 /\ Len(Wired(ts)[j]) \in Nat
    <3>1. Wired(ts)[j] = Serialized(ts[j]) /\ Len(Serialized(ts[j])) >= 3
      BY <2>1, WiredIs
    <3>2. Wired(ts)[j] \in Seq(Byte)
      BY <1>1, <2>1
    <3> QED
      BY <3>1, <3>2
  <2>4. off[i] \in Nat /\ off[j - 1] \in Nat /\ off[i] <= off[j - 1]
    BY <1>3, <2>1
  <2> QED
    BY <2>2, <2>3, <2>4
<1> QED
  BY <1>2, <1>3, <1>4, <1>5

(* The stream of the last texts is as long as what is behind the others.     *)
LEMMA StreamTail ==
  ASSUME RcvAssumption, NEW ts \in Seq(Texts), NEW off, Begins(off, ts), NEW n \in 0..Len(ts)
  PROVE  Len(Stream(SubSeq(ts, n + 1, Len(ts)))) = off[Len(ts)] - off[n]
<1> DEFINE N == Len(ts)
<1>1. N \in Nat /\ Len(Wired(ts)) = N /\ Wired(ts) \in Seq(Seq(Byte)) /\ N \in n..N
  BY WiredIs
<1>2. /\ SubSeq(ts, n + 1, N) \in Seq(Texts)
      /\ Wired(SubSeq(ts, n + 1, N)) = SubSeq(Wired(ts), n + 1, N)
  BY <1>1, WiredPart
<1>3. Stream(SubSeq(ts, n + 1, N)) = FlattenSeq(SubSeq(Wired(ts), n + 1, N))
  BY <1>2, WiredIs
<1>4. CutBy(off, Stream(ts), Wired(ts))
  BY DEF Begins
<1>5. Len(FlattenSeq(SubSeq(Wired(ts), n + 1, Len(Wired(ts))))) = off[Len(Wired(ts))] - off[n]
  BY <1>1, <1>4, FlattenTail
<1> QED
  BY <1>1, <1>3, <1>5

(* Processing a part of the stream made of whole messages takes all of it.   *)
LEMMA ProcessPart ==
  ASSUME RcvAssumption, NEW ts \in Seq(Texts), NEW off, Begins(off, ts),
         NEW n \in 0..Len(ts), NEW m \in n..Len(ts)
  PROVE  ProcessMsgs(SubSeq(Stream(ts), off[n] + 1, off[m]))
           = [consumed |-> off[m] - off[n], texts |-> SubSeq(ts, n + 1, m)]
<1> DEFINE b == SubSeq(Stream(ts), off[n] + 1, off[m])
           part == SubSeq(ts, n + 1, m)
           places == [i \in 0..m - n |-> off[n + i] - off[n]]
<1>1. Len(Wired(ts)) = Len(ts) /\ Wired(ts) \in Seq(Seq(Byte))
  BY WiredIs
<1>2. Stream(ts) \in Seq(Byte)
  BY BeginsExists
<1>3. part \in Seq(Texts) /\ Wired(part) = SubSeq(Wired(ts), n + 1, m)
  BY WiredPart
<1>4. /\ off[n] \in Nat /\ off[m] \in Nat /\ off[n] <= off[m] /\ off[m] <= Len(Stream(ts))
      /\ CutBy(places, b, SubSeq(Wired(ts), n + 1, m))
  <2>1. n \in 0..Len(Wired(ts)) /\ m \in n..Len(Wired(ts))
    BY <1>1
  <2>2. CutBy(off, Stream(ts), Wired(ts))
    BY DEF Begins
  <2> HIDE DEF places, b
  <2> QED
    BY <1>1, <1>2, <2>1, <2>2, CutPart DEF places, b
<1>5. b \in Seq(Byte) /\ Len(b) = off[m] - off[n]
  BY <1>2, <1>4, PartAt, SMTT(20)
<1> HIDE DEF b, part, places
<1>6. ProcessMsgs(b) = [consumed |-> Len(b), texts |-> part]
  BY <1>3, <1>4, <1>5, ProcessWhole
<1> QED
  BY <1>5, <1>6 DEF b, part

-----------------------------------------------------------------------------
(* Uncut, the bytes not yet received begin at a message, nothing is kept in  *)
(* the buffer, and the clipboard took the texts of the messages before.      *)
AtMessage(off, n) ==
  /\ Begins(off, texts)
  /\ wire = SubSeq(Stream(texts), off[n] + 1, Len(Stream(texts)))
  /\ clipboard = SubSeq(texts, 1, n)

ReceiverInvariant ==
  /\ RcvTypeOK
  /\ texts \in Seq(Texts)
  /\ ~fragmented => head = 0 /\ \E off : \E n \in 0..Len(texts) : AtMessage(off, n)

(* At the start.                                                             *)
LEMMA RcvStart == ASSUME RcvAssumption, RcvInit PROVE ReceiverInvariant
<1>1. PICK k \in 0..MaxMsgs : texts \in [1..k -> Texts]
  BY DEF RcvInit
<1>2. k \in Nat
  BY DEF RcvAssumption
<1>3. texts \in Seq(Texts)
  BY <1>1, <1>2
<1>4. Stream(texts) \in Seq(Byte)
  BY <1>3, BeginsExists
<1>5. PICK off : Begins(off, texts)
  BY <1>3, BeginsExists
<1>6. RcvTypeOK
  <2>1. MAX_SIZE \in Nat /\ MAX_SIZE >= 3
    BY DEF RcvAssumption, MAX_SIZE
  <2>2. [j \in 1..MAX_SIZE |-> Garbage] \in [1..MAX_SIZE -> Byte] /\ 0 \in 0..MAX_SIZE - 1
    BY <2>1 DEF Garbage, Byte
  <2> QED
    BY <1>4, <2>2 DEF RcvInit, RcvTypeOK
<1>7. AtMessage(off, 0)
  <2>1. off[0] = 0
    BY <1>3, <1>5, BeginsAre
  <2>2. off[0] + 1 = 1
    BY <2>1
  <2>3. SubSeq(Stream(texts), off[0] + 1, Len(Stream(texts))) = Stream(texts)
    BY <1>4, <2>2, SubSeqFull
  <2>4. SubSeq(texts, 1, 0) = <<>>
    BY SubSeqEmpty
  <2> QED
    BY <1>5, <2>3, <2>4 DEF AtMessage, RcvInit
<1>8. 0 \in 0..Len(texts) /\ head = 0
  BY <1>3 DEF RcvInit
<1> QED
  BY <1>3, <1>6, <1>7, <1>8 DEF ReceiverInvariant

(* One turn of the receiver: what it reads and what it makes of it.          *)
Turn(r) ==
  LET b == Received(r)
      p == ProcessMsgs(SubSeq(b, 1, r))
  IN /\ r <= Len(wire) /\ (fragmented \/ Whole(r))
     /\ wire' = SubSeq(wire, r + 1, Len(wire))
     /\ clipboard' = clipboard \o p.texts
     /\ buf' = IF p.consumed > 0 THEN Shifted(b, p.consumed, r) ELSE b
     /\ head' = HeadAfter(p.consumed, r)
     /\ rcv' = IF p.consumed = -1 THEN "done" ELSE "recv"

(* What is processed are the next bytes of the stream.                       *)
LEMMA ReceivedIs ==
  ASSUME RcvAssumption, RcvTypeOK, NEW r \in 1..MAX_SIZE - head, r <= Len(wire)
  PROVE  /\ r \in Nat \ {0} /\ MAX_SIZE \in Nat /\ head \in Nat /\ r <= MAX_SIZE - head
         /\ wire \in Seq(Byte) /\ Len(wire) \in Nat
         /\ Received(r) \in [1..MAX_SIZE -> Byte]
         /\ SubSeq(Received(r), 1, r) = SubSeq(wire, 1, r)
         /\ SubSeq(wire, 1, r) \in Seq(Byte) /\ Len(SubSeq(wire, 1, r)) = r
<1>1. /\ MAX_SIZE \in Nat /\ head \in Nat /\ wire \in Seq(Byte) /\ Len(wire) \in Nat
      /\ buf \in [1..MAX_SIZE -> Byte]
  BY DEF RcvAssumption, MAX_SIZE, RcvTypeOK
<1>2. r \in Nat \ {0} /\ r <= MAX_SIZE - head /\ r <= MAX_SIZE
  BY <1>1
<1> DEFINE b == Received(r)  x == SubSeq(b, 1, r)  y == SubSeq(wire, 1, r)
<1>3. b = [k \in 1..MAX_SIZE |-> IF k <= r THEN wire[k] ELSE buf[k]]
  BY DEF Received
<1>4. \A k \in 1..MAX_SIZE : k <= r => wire[k] \in Byte
  <2>1. \A k \in 1..MAX_SIZE : k <= r => k \in 1..Len(wire)
    BY <1>1, <1>2
  <2> QED
    BY <1>1, <2>1
<1>5. b \in [1..MAX_SIZE -> Byte]
  BY <1>1, <1>3, <1>4
<1>6. \A k \in 1..r : b[k] = wire[k]
  BY <1>1, <1>2, <1>3
<1> HIDE DEF b
<1>7. y \in Seq(Byte) /\ Len(y) = r /\ \A k \in 1..r : y[k] = wire[k]
  <2>1. 0 \in Nat /\ 0 <= r /\ 0 + 1 = 1 /\ r - 0 = r /\ \A k \in 1..r : 0 + k = k
    BY <1>2
  <2>2. /\ SubSeq(wire, 0 + 1, r) \in Seq(Byte) /\ Len(SubSeq(wire, 0 + 1, r)) = r - 0
        /\ \A k \in 1..r - 0 : SubSeq(wire, 0 + 1, r)[k] = wire[0 + k]
    BY <1>1, <1>2, PartAt
  <2> QED
    BY <2>1, <2>2
<1>8. x \in Seq(Byte) /\ Len(x) = r /\ \A k \in 1..r : x[k] = b[k]
  <2>1. b \in Seq(Byte) /\ Len(b) = MAX_SIZE
    BY <1>1, <1>5
  <2>2. 0 \in Nat /\ 0 <= r /\ 0 + 1 = 1 /\ r - 0 = r /\ \A k \in 1..r : 0 + k = k
    BY <1>2
  <2>3. /\ SubSeq(b, 0 + 1, r) \in Seq(Byte) /\ Len(SubSeq(b, 0 + 1, r)) = r - 0
        /\ \A k \in 1..r - 0 : SubSeq(b, 0 + 1, r)[k] = b[0 + k]
    BY <1>2, <2>1, PartAt
  <2> QED
    BY <2>2, <2>3
<1> HIDE DEF x, y
<1>9. x = y
  <2>1. \A k \in 1..Len(x) : x[k] = y[k]
    BY <1>6, <1>7, <1>8
  <2> QED
    BY <1>7, <1>8, <2>1, SeqEqual
<1> QED
  BY <1>1, <1>2, <1>5, <1>7, <1>9 DEF b, x, y

(* The types after a turn.                                                   *)
LEMMA TurnTypes ==
  ASSUME RcvAssumption, RcvTypeOK, NEW r \in 1..MAX_SIZE - head, Turn(r), UNCHANGED fragmented
  PROVE  RcvTypeOK'
<1> DEFINE b == Received(r)  c == ProcessMsgs(SubSeq(b, 1, r)).consumed
<1>1. /\ r <= Len(wire) /\ wire' = SubSeq(wire, r + 1, Len(wire))
      /\ buf' = IF c > 0 THEN Shifted(b, c, r) ELSE b
      /\ head' = HeadAfter(c, r) /\ rcv' = IF c = -1 THEN "done" ELSE "recv"
  BY Zenon DEF Turn
<1>2. /\ r \in Nat \ {0} /\ MAX_SIZE \in Nat /\ head \in Nat /\ r <= MAX_SIZE - head
      /\ wire \in Seq(Byte) /\ Len(wire) \in Nat
      /\ b \in [1..MAX_SIZE -> Byte]
  BY <1>1, ReceivedIs
<1>3. c \in -1..r
  <2>1. /\ SubSeq(b, 1, r) = SubSeq(wire, 1, r)
        /\ SubSeq(wire, 1, r) \in Seq(Byte) /\ Len(SubSeq(wire, 1, r)) = r
    BY <1>1, ReceivedIs
  <2>2. ProcessMsgs(SubSeq(wire, 1, r)).consumed \in -1..r
    BY <2>1, ProcessType
  <2> QED
    BY <2>1, <2>2
<1> HIDE DEF b, c
<1>4. wire' \in Seq(Byte)
  <2>1. Len(wire) <= Len(wire)
    BY <1>2
  <2> QED
    BY <1>1, <1>2, <2>1, PartAt
<1>5. head' \in 0..MAX_SIZE - 1
  <2>1. head \in 0..MAX_SIZE - 1
    BY DEF RcvTypeOK
  <2> QED
    BY <1>1, <1>2, <1>3, <2>1 DEF HeadAfter
<1>6. buf' \in [1..MAX_SIZE -> Byte]
  <2>1. CASE c > 0
    <3>1. Shifted(b, c, r) = [k \in 1..MAX_SIZE |-> IF k <= r - c THEN b[k + c] ELSE b[k]]
      BY DEF Shifted
    <3>2. \A k \in 1..MAX_SIZE : k <= r - c => k + c \in 1..MAX_SIZE
      BY <1>2, <1>3, <2>1
    <3>3. \A k \in 1..MAX_SIZE : (IF k <= r - c THEN b[k + c] ELSE b[k]) \in Byte
      BY <1>2, <3>2
    <3>4. [k \in 1..MAX_SIZE |-> IF k <= r - c THEN b[k + c] ELSE b[k]] \in [1..MAX_SIZE -> Byte]
      BY <3>3
    <3> QED
      BY <1>1, <2>1, <3>1, <3>4, Zenon
  <2>2. CASE ~(c > 0)
    BY <1>1, <1>2, <2>2
  <2> QED
    BY <2>1, <2>2
<1>7. rcv' \in {"recv", "done"}
  BY <1>1
<1>8. fragmented' \in BOOLEAN
  BY Zenon DEF RcvTypeOK
<1> QED
  BY <1>4, <1>5, <1>6, <1>7, <1>8, Zenon DEF RcvTypeOK

(* Whole messages are read up to the beginning of another one.               *)
LEMMA WholeEnds ==
  ASSUME RcvAssumption, texts \in Seq(Texts), NEW off, NEW n \in 0..Len(texts), AtMessage(off, n),
         NEW r \in Nat \ {0}, r <= Len(wire), Whole(r)
  PROVE  \E m \in n..Len(texts) : off[m] = off[n] + r
<1> DEFINE N == Len(texts)
<1>1. PICK m \in 1..N : Len(wire) - r = Len(Stream(SubSeq(texts, m + 1, N)))
  BY DEF Whole
<1>2. N \in Nat /\ m \in 0..N /\ N \in 0..N /\ n \in Nat
  OBVIOUS
<1>3. Begins(off, texts)
  BY DEF AtMessage
<1>4. Len(Stream(SubSeq(texts, m + 1, N))) = off[N] - off[m]
  BY <1>2, <1>3, StreamTail
<1>5. /\ off[N] = Len(Stream(texts)) /\ off[n] <= off[N]
      /\ \A i \in 0..N : off[i] \in Nat /\ \A j \in i..N : off[i] <= off[j]
  BY <1>3, BeginsAre
<1>6. Len(wire) = off[N] - off[n]
  <2> DEFINE s == Stream(texts)
  <2>1. s \in Seq(Byte) /\ off[n] \in Nat /\ off[N] \in Nat
    BY <1>2, <1>5, BeginsExists
  <2>2. wire = SubSeq(s, off[n] + 1, off[N]) /\ off[N] = Len(s)
    BY <1>5 DEF AtMessage
  <2> HIDE DEF s
  <2>3. Len(SubSeq(s, off[n] + 1, off[N])) = off[N] - off[n]
    <3>1. off[N] <= Len(s) /\ off[n] <= off[N]
      BY <1>5, <2>1, <2>2
    <3> DEFINE a == off[n]  c == off[N]
    <3>2. s \in Seq(Byte) /\ a \in Nat /\ c \in Nat /\ a <= c /\ c <= Len(s)
      BY <2>1, <3>1
    <3> HIDE DEF a, c, N
    <3>3. Len(SubSeq(s, a + 1, c)) = c - a
      BY <3>2, PartAt
    <3> QED
      BY <3>3, Zenon DEF a, c
  <2> QED
    BY <2>2, <2>3
<1>7. off[n] \in Nat /\ off[m] \in Nat /\ off[N] \in Nat
  BY <1>2, <1>5
<1>8. off[m] = off[n] + r
  <2> DEFINE x == off[n]  y == off[m]  z == off[N]
  <2>1. z - x - r = z - y /\ x \in Nat /\ y \in Nat /\ z \in Nat
    BY <1>1, <1>4, <1>6, <1>7
  <2> HIDE DEF x, y, z
  <2>2. y = x + r
    BY <2>1
  <2> QED
    BY <2>2 DEF x, y
<1>9. m \in n..N
  <2>1. CASE m < n
    <3>1. n \in m..N
      BY <1>2, <2>1
    <3>2. off[m] <= off[n]
      BY <1>2, <1>5, <3>1
    <3> QED
      BY <1>7, <1>8, <3>2
  <2> QED
    BY <1>2, <2>1
<1> QED
  BY <1>8, <1>9

(* ... and all of them are processed.                                        *)
LEMMA TurnWhole ==
  ASSUME RcvAssumption, ReceiverInvariant, ~fragmented,
         NEW r \in 1..MAX_SIZE - head, Turn(r), UNCHANGED <<fragmented, texts>>
  PROVE  head' = 0 /\ \E off : \E n \in 0..Len(texts) : AtMessage(off, n)'
<1> DEFINE N == Len(texts)  s == Stream(texts)
<1>1a. PICK off : \E n \in 0..N : AtMessage(off, n)
  BY DEF ReceiverInvariant
<1>1. PICK n \in 0..N : AtMessage(off, n)
  BY <1>1a
<1>2. RcvTypeOK /\ texts \in Seq(Texts) /\ head = 0 /\ N \in Nat /\ n \in Nat /\ s \in Seq(Byte)
  BY BeginsExists DEF ReceiverInvariant
<1> DEFINE p == ProcessMsgs(SubSeq(Received(r), 1, r))
<1>3. /\ r <= Len(wire) /\ Whole(r) /\ wire' = SubSeq(wire, r + 1, Len(wire))
      /\ clipboard' = clipboard \o p.texts /\ head' = HeadAfter(p.consumed, r)
  BY Zenon DEF Turn
<1>4. /\ r \in Nat \ {0} /\ SubSeq(Received(r), 1, r) = SubSeq(wire, 1, r)
  BY <1>2, <1>3, ReceivedIs
<1>5. PICK m \in n..N : off[m] = off[n] + r
  BY <1>1, <1>2, <1>3, <1>4, WholeEnds
<1>6. Begins(off, texts) /\ wire = SubSeq(s, off[n] + 1, Len(s)) /\ clipboard = SubSeq(texts, 1, n)
  BY <1>1 DEF AtMessage
<1>7. /\ off[n] \in Nat /\ off[m] \in Nat /\ off[m] <= Len(s) /\ m \in 0..N /\ m \in Nat
  <2>1. m \in 0..N /\ m \in Nat
    BY <1>2
  <2>2. \A i \in 0..N : off[i] \in Nat /\ off[i] <= Len(s)
    BY <1>2, <1>6, BeginsAre
  <2> QED
    BY <2>1, <2>2
<1> HIDE DEF N, s
<1> DEFINE x == off[n]  y == off[m]  l == Len(s)
<1>8. x \in Nat /\ y \in Nat /\ l \in Nat /\ y = x + r /\ y <= l /\ x <= l /\ x <= y
  BY <1>2, <1>4, <1>5, <1>7
<1>9. SubSeq(wire, 1, r) = SubSeq(s, x + 1, y) /\ wire' = SubSeq(s, y + 1, l)
  <2>1. wire = SubSeq(s, x + 1, l)
    BY <1>6
  <2> HIDE DEF x, y
  <2>2. Len(wire) = l - x
    BY <1>2, <1>8, <2>1, PartAt
  <2>3. SubSeq(SubSeq(s, x + 1, l), 0 + 1, r) = SubSeq(s, (x + 0) + 1, x + r)
    <3>1. 0 \in Nat /\ r \in Nat /\ 0 <= r /\ r <= l - x /\ l <= Len(s)
      BY <1>4, <1>8
    <3> HIDE DEF l
    <3> QED
      BY <1>2, <1>8, <3>1, PartOfPart
  <2>4. SubSeq(SubSeq(s, x + 1, l), r + 1, l - x) = SubSeq(s, (x + r) + 1, x + (l - x))
    <3>1. r \in Nat /\ l - x \in Nat /\ r <= l - x /\ l - x <= l - x /\ l <= Len(s)
      BY <1>4, <1>8
    <3> HIDE DEF l
    <3> QED
      BY <1>2, <1>8, <3>1, PartOfPart
  <2>5. 0 + 1 = 1 /\ x + 0 = x /\ x + r = y /\ x + (l - x) = l
    BY <1>8
  <2> HIDE DEF l
  <2> QED
    BY <1>3, <2>1, <2>2, <2>3, <2>4, <2>5
<1>10. p = [consumed |-> y - x, texts |-> SubSeq(texts, n + 1, m)]
  <2>1. m \in n..Len(texts) /\ n \in 0..Len(texts)
    BY DEF N
  <2>2. ProcessMsgs(SubSeq(Stream(texts), off[n] + 1, off[m]))
           = [consumed |-> off[m] - off[n], texts |-> SubSeq(texts, n + 1, m)]
    BY <1>2, <1>6, <2>1, ProcessPart
  <2> QED
    BY <1>4, <1>9, <2>2 DEF s
<1> HIDE DEF p, x, y, l
<1>11. head' = 0
  <2>1. p.consumed = r
    BY <1>8, <1>10
  <2> QED
    BY <1>3, <1>4, <2>1 DEF HeadAfter
<1>12. clipboard' = SubSeq(texts, 1, m)
  <2>1. 0 \in Nat /\ 0 <= n /\ n <= m /\ m <= Len(texts) /\ 0 + 1 = 1
    BY <1>2, <1>7 DEF N
  <2>2. SubSeq(texts, 0 + 1, n) \o SubSeq(texts, n + 1, m) = SubSeq(texts, 0 + 1, m)
    BY <1>2, <1>7, <2>1, PartsJoin, SMTT(20)
  <2>3. p.texts = SubSeq(texts, n + 1, m)
    BY <1>10
  <2> QED
    BY <1>3, <1>6, <2>1, <2>2, <2>3
<1>13. AtMessage(off, m)'
  <2>1. texts' = texts
    OBVIOUS
  <2> QED
    BY <1>6, <1>9, <1>12, <2>1 DEF AtMessage, y, l, s
<1> QED
  BY <1>7, <1>11, <1>13 DEF N

(* Every step keeps the invariant.                                           *)
LEMMA RcvStep == ASSUME RcvAssumption, ReceiverInvariant, [RcvNext]_rcvVars PROVE ReceiverInvariant'
<1>1. ASSUME Receive PROVE ReceiverInvariant'
  <2>1. PICK r \in 1..MAX_SIZE - head : Turn(r)
    BY <1>1, Zenon DEF Receive, Turn
  <2>2. UNCHANGED <<fragmented, texts>>
    BY <1>1, Zenon DEF Receive
  <2>3. RcvTypeOK'
    BY <2>1, <2>2, TurnTypes DEF ReceiverInvariant
  <2>4. CASE ~fragmented
    <3>1. head' = 0 /\ \E off : \E n \in 0..Len(texts) : AtMessage(off, n)'
      BY <2>1, <2>2, <2>4, TurnWhole
    <3> QED
      BY <2>2, <2>3, <3>1 DEF ReceiverInvariant
  <2>5. CASE fragmented
    BY <2>2, <2>3, <2>5 DEF ReceiverInvariant
  <2> QED
    BY <2>4, <2>5
<1>2. ASSUME RcvClosed PROVE ReceiverInvariant'
  BY <1>2 DEF RcvClosed, ReceiverInvariant, RcvTypeOK, AtMessage
<1>3. ASSUME UNCHANGED rcvVars PROVE ReceiverInvariant'
  BY <1>3 DEF rcvVars, ReceiverInvariant, RcvTypeOK, AtMessage
<1> QED
  BY <1>1, <1>2, <1>3 DEF RcvNext, RcvTerminated

(* What it says of the messages received.                                    *)
LEMMA RcvConclusion == ASSUME RcvAssumption, ReceiverInvariant PROVE WholeMessagesProcessed
<1> SUFFICES ASSUME ~fragmented
             PROVE  ReceivedIsProcessed /\ clipboard = SubSeq(texts, 1, Len(clipboard))
  BY DEF WholeMessagesProcessed
<1> DEFINE N == Len(texts)
<1>1a. PICK off : \E n \in 0..N : AtMessage(off, n)
  BY DEF ReceiverInvariant
<1>1. PICK n \in 0..N : AtMessage(off, n)
  BY <1>1a
<1>2. texts \in Seq(Texts) /\ N \in Nat /\ n \in Nat /\ n <= N
  BY DEF ReceiverInvariant
<1>3. Begins(off, texts) /\ clipboard = SubSeq(texts, 1, n)
  BY <1>1 DEF AtMessage
<1>4. Len(clipboard) = n
  <2>1. Len(SubSeq(texts, 0 + 1, n)) = n - 0
    <3>1. 0 \in Nat /\ 0 <= n
      BY <1>2
    <3> QED
      BY <1>2, <3>1, PartAt
  <2>2. 0 + 1 = 1 /\ n - 0 = n
    BY <1>2
  <2> QED
    BY <1>3, <2>1, <2>2
<1>5. /\ off[N] = Len(Stream(texts))
      /\ \A i \in 0..N : off[i] \in Nat /\ off[i] <= Len(Stream(texts))
      /\ \A i \in 0..N : \A j \in i + 1..N : off[i] < off[j]
  BY <1>2, <1>3, BeginsAre
<1>6. Len(wire) = off[N] - off[n]
  <2> DEFINE s == Stream(texts)  x == off[n]  y == off[N]
  <2>1. N \in 0..N
    BY <1>2
  <2>2. s \in Seq(Byte) /\ x \in Nat /\ y \in Nat /\ x <= y /\ y <= Len(s) /\ y = Len(s)
    BY <1>2, <1>5, <2>1, BeginsExists
  <2>3. wire = SubSeq(s, x + 1, Len(s))
    BY <1>1 DEF AtMessage
  <2> HIDE DEF s, x, y
  <2>4. Len(SubSeq(s, x + 1, y)) = y - x
    BY <2>2, PartAt
  <2>5. Len(wire) = y - x
    BY <2>2, <2>3, <2>4
  <2> QED
    BY <2>5 DEF x, y
<1>7. ASSUME NEW k \in 1..N, Len(wire) <= Len(Stream(SubSeq(texts, k + 1, N))) PROVE n >= k
  <2>1. k \in 0..N
    BY <1>2
  <2>2. Len(Stream(SubSeq(texts, k + 1, N))) = off[N] - off[k]
    BY <1>2, <1>3, <2>1, StreamTail
  <2>3. off[n] \in Nat /\ off[k] \in Nat /\ off[N] \in Nat
    <3>1. N \in 0..N
      BY <1>2
    <3> QED
      BY <1>5, <2>1, <3>1
  <2>4. off[k] <= off[n]
    <3> DEFINE x == off[n]  y == off[N]  z == off[k]
    <3>1. y - x <= y - z /\ x \in Nat /\ y \in Nat /\ z \in Nat
      BY <1>6, <1>7, <2>2, <2>3
    <3> HIDE DEF x, y, z
    <3>2. z <= x
      BY <3>1
    <3> QED
      BY <3>2 DEF x, z
  <2>5. CASE n < k
    <3>1. k \in n + 1..N
      BY <1>2, <2>5
    <3>2. off[n] < off[k]
      BY <1>5, <3>1
    <3> QED
      BY <2>3, <2>4, <3>2
  <2> QED
    BY <1>2, <2>5
<1> QED
  BY <1>3, <1>4, <1>7 DEF ReceivedIsProcessed

(* The receive buffer and its head keep their types: there is always room    *)
(* for a byte more (receiver.c:67), whatever the device sends and however    *)
(* TCP cuts it.                                                              *)
THEOREM RcvTypeOKHolds == ASSUME RcvAssumption PROVE RcvSpec => []RcvTypeOK
<1>1. RcvInit => ReceiverInvariant
  BY RcvStart
<1>2. ReceiverInvariant /\ [RcvNext]_rcvVars => ReceiverInvariant'
  BY RcvStep
<1>3. ReceiverInvariant => RcvTypeOK
  BY DEF ReceiverInvariant
<1> QED
  BY <1>1, <1>2, <1>3, PTL DEF RcvSpec

(* Messages that are not cut, alone or several at a time, are all processed, *)
(* in order (process_msgs() and run_receiver() of receiver.c), for all texts *)
(* that fit in a message.                                                    *)
THEOREM WholeMessagesProcessedHolds ==
  ASSUME RcvAssumption PROVE RcvSpec => []WholeMessagesProcessed
<1>1. RcvInit => ReceiverInvariant
  BY RcvStart
<1>2. ReceiverInvariant /\ [RcvNext]_rcvVars => ReceiverInvariant'
  BY RcvStep
<1>3. ReceiverInvariant => WholeMessagesProcessed
  BY RcvConclusion
<1> QED
  BY <1>1, <1>2, <1>3, PTL DEF RcvSpec
=============================================================================
