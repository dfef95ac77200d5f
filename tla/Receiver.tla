------------------------------ MODULE Receiver ------------------------------
(***************************************************************************)
(* The messages of the device to the desktop client: receiver.c and        *)
(* device_msg.c.  A message is its type, the length of its text on two     *)
(* bytes, and the text.  TCP delivers the bytes in order but cuts them     *)
(* where it likes, or (fragmented = FALSE) keeps every message in a piece. *)
(***************************************************************************)
EXTENDS Integers, Sequences, SequencesExt

CONSTANTS MaxText,     \* longest text (4093 in device_msg.h)
          Texts,       \* the texts a device may send; C strings, so no byte is zero
          MaxMsgs      \* bound: messages sent in a behaviour

Byte == 0..255

ASSUME RcvAssumption ==
  /\ MaxText \in Nat /\ MaxText < 256 * 256 /\ MaxMsgs \in Nat
  /\ \A t \in Texts : t \in Seq(Byte \ {0}) /\ Len(t) <= MaxText

CLIPBOARD == 0         \* DEVICE_MSG_TYPE_CLIPBOARD
MAX_SIZE == 3 + MaxText \* DEVICE_MSG_SERIALIZED_MAX_SIZE
Garbage == 7           \* what an unwritten byte of the buffer holds

VARIABLES
  fragmented, \* a message may arrive in several pieces
  texts,      \* the texts the device sends, all of them
  wire,       \* the bytes sent and not received
  buf,        \* the receive buffer
  head,       \* "number of bytes kept at the beginning of buf"
  rcv,        \* where the receiver thread is
  clipboard   \* history: the texts given to SDL_SetClipboardText()

rcvVars == <<fragmented, texts, wire, buf, head, rcv, clipboard>>

Serialized(text) == <<CLIPBOARD, Len(text) \div 256, Len(text) % 256>> \o text
Stream(ts) == FlattenSeq([i \in DOMAIN ts |-> Serialized(ts[i])])

RcvInit == /\ fragmented \in BOOLEAN
           /\ \E n \in 0..MaxMsgs : texts \in [1..n -> Texts]
           /\ wire = Stream(texts)
           /\ buf = [k \in 1..MAX_SIZE |-> Garbage]
           /\ head = 0
           /\ rcv = "recv"
           /\ clipboard = <<>>

(* device_msg_deserialize() of the bytes b: the number of bytes consumed,  *)
(* 0 when no message is available, -1 on error.                            *)
TextLength(b) == b[2] * 256 + b[3]
Deserialize(b) == IF Len(b) < 3 THEN 0
                  ELSE IF b[1] # CLIPBOARD THEN -1
                  ELSE IF TextLength(b) > Len(b) - 3 THEN 0
                  ELSE 3 + TextLength(b)

(* process_msgs(): every message of b, from the first byte on.             *)
ProcessMsgs_First(b) ==
  LET r == Deserialize(b)
  IN [consumed |-> r, texts |-> IF r > 0 THEN <<SubSeq(b, 4, r)>> ELSE <<>>]
ProcessMsgs(b) ==
  LET P[i \in 1..Len(b) + 1] ==      \* from byte i
        LET r == IF i > Len(b) THEN 0 ELSE Deserialize(SubSeq(b, i, Len(b)))
        IN IF r = -1 THEN [consumed |-> -1, texts |-> <<>>]
           ELSE IF r = 0 THEN [consumed |-> i - 1, texts |-> <<>>]
           ELSE [P[i + r] EXCEPT !.texts = <<SubSeq(b, i + 3, i + r - 1)>> \o @]
  IN P[1]

(* net_recv() of r bytes, written at the beginning of the buffer.          *)
Received(r) == [k \in 1..MAX_SIZE |-> IF k <= r THEN wire[k] ELSE buf[k]]

(* memmove(buf, &buf[n], r - n)                                            *)
Shifted(b, n, r) == [k \in 1..MAX_SIZE |-> IF k <= r - n THEN b[k + n] ELSE b[k]]

(* The bytes kept: head changes only when a message was consumed.          *)
HeadAfter_Always(n, r) == r - n
HeadAfter(n, r) == IF n > 0 THEN r - n ELSE head

Whole(r) == \E n \in 1..Len(texts) :
              Len(wire) - r = Len(Stream(SubSeq(texts, n + 1, Len(texts))))

(* One turn of run_receiver(): the bytes already kept are not added to     *)
(* those that arrive, neither where they are written nor in what is        *)
(* processed.                                                              *)
Receive == /\ rcv = "recv" /\ wire # <<>>
           /\ \E r \in 1..MAX_SIZE - head :
                LET b == Received(r)
                    p == ProcessMsgs(SubSeq(b, 1, r))
                IN /\ r <= Len(wire) /\ (fragmented \/ Whole(r))
                   /\ wire' = SubSeq(wire, r + 1, Len(wire))
                   /\ clipboard' = clipboard \o p.texts
                   /\ buf' = IF p.consumed > 0 THEN Shifted(b, p.consumed, r) ELSE b
                   /\ head' = HeadAfter(p.consumed, r)
                   /\ rcv' = IF p.consumed = -1 THEN "done" ELSE "recv"
           /\ UNCHANGED <<fragmented, texts>>

(* The socket is shut down.                                                *)
RcvClosed == /\ rcv = "recv"
             /\ rcv' = "done"
             /\ UNCHANGED <<fragmented, texts, wire, buf, head, clipboard>>

RcvTerminated == rcv = "done" /\ UNCHANGED rcvVars

RcvNext == Receive \/ RcvClosed \/ RcvTerminated
RcvSpec == RcvInit /\ [][RcvNext]_rcvVars
-----------------------------------------------------------------------------
(* Types.  There is always room for one byte more (receiver.c:67), so that *)
(* a result of zero means the end of the stream.                           *)
RcvTypeOK == /\ fragmented \in BOOLEAN
             /\ wire \in Seq(Byte) /\ head \in 0..MAX_SIZE - 1
             /\ buf \in [1..MAX_SIZE -> Byte]
             /\ rcv \in {"recv", "done"}

(* No message all of whose bytes were received is left unprocessed, and an *)
(* error ends the thread only for an unknown type: "the number of bytes    *)
(* consumed (0 for no msg available...)" (device_msg.h:26).                *)
ReceivedIsProcessed ==
  rcv = "recv" =>
    \A n \in 1..Len(texts) :
      Len(wire) <= Len(Stream(SubSeq(texts, n + 1, Len(texts)))) => Len(clipboard) >= n

(* When no message is cut, alone or several at a time, none is lost, and   *)
(* the clipboard takes their texts in order.                               *)
WholeMessagesProcessed ==
  ~fragmented => /\ ReceivedIsProcessed
                 /\ clipboard = SubSeq(texts, 1, Len(clipboard))
=============================================================================
