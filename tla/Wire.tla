-------------------------------- MODULE Wire --------------------------------
(***************************************************************************)
(* The framing between the phone and the relay.  Upwards, MessageDecoder   *)
(* finds frames of type, length and payload in a byte stream and skips     *)
(* what is none; downwards, ControlMessageReader finds frames of length    *)
(* and payload (one protobuf message of a page each) for the controller    *)
(* thread of the phone.  TCP cuts either stream where it likes.            *)
(***************************************************************************)
EXTENDS Integers, Sequences, SequencesExt, FiniteSetsExt

CONSTANTS Payloads,   \* payloads of the frames of the phone
          Noises,     \* what may precede such a frame
          MaxUp, MaxDown, \* bounds: frames sent in either direction
          Lengths,    \* lengths of the messages of the pages
          BufSize     \* RAW_BUFFER_SIZE of the reader

DATA_BEGIN == <<102, 136>>    \* 0x6688
CONTROLMSG_TYPE == 6
VIDEOSTREAM_TYPE == 8
Types == {CONTROLMSG_TYPE, VIDEOSTREAM_TYPE}
BASE_LENGTH == 7

Byte == 0..255
HasBegin(b) == \E i \in 1..Len(b) - 1 : SubSeq(b, i, i + 1) = DATA_BEGIN

ASSUME WireAssumption ==
  /\ MaxUp \in Nat /\ MaxDown \in Nat /\ BufSize \in Nat \ {0}
  /\ \A p \in Payloads : p \in Seq(Byte) /\ Len(p) < 256 * 256 * 256
  /\ \A n \in Noises : n \in Seq(Byte) /\ ~HasBegin(n)
  /\ \A n \in Lengths : n \in 0..BufSize - 6

VARIABLES
  upSent,     \* the frames the phone sends, each after some noise
  upWire,     \* bytes sent and not received
  upBuf,      \* the cumulated bytes of the decoder
  forwarded,  \* history: the frames given to the handlers of the relay
  downSent,   \* lengths of the messages of the pages
  received,   \* bytes the reader received, of all those messages
  taken,      \* messages handled by the controller thread
  reader,     \* that thread: "run", or "dead" after an exception
  cut         \* history: a read ended inside a frame header

up == <<upSent, upWire, upBuf, forwarded>>
down == <<downSent, received, taken, reader, cut>>
wireVars == <<up, down>>
-----------------------------------------------------------------------------
(* The phone: writeFrameMeta() and DesktopConnection.send().               *)
IntBytes(n) == <<0, n \div (256 * 256), (n \div 256) % 256, n % 256>>     \* < 16 MB
Frame(f) == DATA_BEGIN \o <<f.type>> \o IntBytes(Len(f.payload)) \o f.payload
UpStream(fs) == FlattenSeq([i \in DOMAIN fs |-> fs[i].noise \o Frame(fs[i])])

UpFrames == [noise : Noises, type : Types, payload : Payloads]

(* The relay puts two bytes and a length of four before a message.         *)
HEADER == 6
DownEnd(n) ==
  LET E[k \in 0..n] == IF k = 0 THEN 0 ELSE E[k - 1] + HEADER + downSent[k] IN E[n]

(* The two directions share nothing: a behaviour has traffic in one.       *)
WireInit == /\ \E n \in 0..MaxUp : upSent \in [1..n -> UpFrames]
            /\ upWire = UpStream(upSent) /\ upBuf = <<>> /\ forwarded = <<>>
            /\ \E n \in 0..MaxDown : downSent \in [1..n -> Lengths]
            /\ upSent = <<>> \/ downSent = <<>>
            /\ received = 0 /\ taken = 0 /\ reader = "run" /\ cut = FALSE
-----------------------------------------------------------------------------
(* MessageDecoder.decode(): from byte i on, skip to the next beginning of  *)
(* a frame, or to where there are not enough bytes to tell.                *)
Readable(b, i) == Len(b) - i + 1
Skip_ByTwo(b, i) == Min({j \in i..Len(b) + 1 : \/ Readable(b, j) < BASE_LENGTH
                                               \/ /\ (j - i) % 2 = 0
                                                  /\ SubSeq(b, j, j + 1) = DATA_BEGIN})
Skip(b, i) == Min({j \in i..Len(b) + 1 : \/ Readable(b, j) < BASE_LENGTH
                                         \/ SubSeq(b, j, j + 1) = DATA_BEGIN})

Length(b, i) == b[i + 4] * (256 * 256) + b[i + 5] * 256 + b[i + 6]
Complete(b, i) == /\ Readable(b, i) >= BASE_LENGTH
                  /\ b[i + 2] \in Types
                  /\ Readable(b, i) - BASE_LENGTH >= Length(b, i)

(* The position after an incomplete frame: back at its beginning.          *)
Reset_Not(b, i) == IF Readable(b, i) >= BASE_LENGTH THEN i + BASE_LENGTH ELSE i
Reset(b, i) == i

(* ... called by ByteToMessageDecoder as long as it makes progress.        *)
DecodeAll(b) ==
  LET D[i \in 1..Len(b) + 1] ==
        LET j == Skip(b, i)
            next == j + BASE_LENGTH + Length(b, j)
        IN IF ~Complete(b, j) THEN [from |-> Reset(b, j), out |-> <<>>]
           ELSE [D[next] EXCEPT !.out = <<[type |-> b[j + 2],
                                           payload |-> SubSeq(b, j + BASE_LENGTH, next - 1)]>> \o @]
  IN D[1]

Decode == /\ upWire # <<>>
          /\ \E r \in 1..Len(upWire) :
               LET b == upBuf \o SubSeq(upWire, 1, r)
                   d == DecodeAll(b)
               IN /\ upWire' = SubSeq(upWire, r + 1, Len(upWire))
                  /\ upBuf' = SubSeq(b, d.from, Len(b))
                  /\ forwarded' = forwarded \o d.out
          /\ UNCHANGED <<upSent, down>>
-----------------------------------------------------------------------------
(* ControlMessageReader: its buffer always starts at a frame.              *)
Remaining == received - DownEnd(taken)

(* newNext(): the getters throw when the buffer has too few bytes, an      *)
(* incomplete message puts the position back.                              *)
Underflow_NoCheck == Remaining \in 0..HEADER - 1
Underflow == Remaining \in 1..HEADER - 1
HasMessage == Remaining >= HEADER /\ Remaining - HEADER >= downSent[taken + 1]

NewNext == /\ reader = "run" /\ HasMessage
           /\ taken' = taken + 1
           /\ UNCHANGED <<up, downSent, received, reader, cut>>

NewNextThrows == /\ reader = "run" /\ Underflow
                 /\ reader' = "dead"
                 /\ UNCHANGED <<up, downSent, received, taken, cut>>

(* readFrom(): as many bytes as there are and fit after compact().         *)
IsFull == Remaining = BufSize
InHeader(n) == \E k \in 0..Len(downSent) - 1 : n - DownEnd(k) \in 1..HEADER - 1

Room_NoCompact == BufSize - received
Room == BufSize - Remaining

ReadFrom == /\ reader = "run" /\ ~Underflow /\ ~HasMessage
            /\ IF IsFull THEN reader' = "dead" /\ UNCHANGED <<received, cut>>
               ELSE /\ \E r \in 1..Room :
                         /\ received + r <= DownEnd(Len(downSent))
                         /\ received' = received + r
                         /\ cut' = (cut \/ InHeader(received + r))
                    /\ UNCHANGED reader
            /\ UNCHANGED <<up, downSent, taken>>

(* The socket is closed: readFrom() throws.                                *)
Closed == /\ reader = "run" /\ ~Underflow /\ ~HasMessage /\ ~IsFull
          /\ reader' = "closed"
          /\ UNCHANGED <<up, downSent, received, taken, cut>>

WireTerminated == upWire = <<>> /\ reader \in {"dead", "closed"} /\ UNCHANGED wireVars

ReaderThread == NewNext \/ NewNextThrows \/ ReadFrom
WireNext == Decode \/ ReaderThread \/ Closed \/ WireTerminated

WireSpec == WireInit /\ [][WireNext]_wireVars

(* The controller thread runs and what was sent arrives, until the socket  *)
(* is closed.                                                              *)
FairWireSpec == WireSpec /\ WF_wireVars(ReaderThread)
-----------------------------------------------------------------------------
(* Types.  What the reader has never exceeds its buffer.                    *)
WireTypeOK == /\ upWire \in Seq(Byte) /\ upBuf \in Seq(Byte)
              /\ forwarded \in Seq([type : Types, payload : Seq(Byte)])
              /\ received \in 0..DownEnd(Len(downSent)) /\ taken \in 0..Len(downSent)
              /\ Remaining \in 0..BufSize
              /\ reader \in {"run", "dead", "closed"} /\ cut \in BOOLEAN

Data(fs) == [i \in DOMAIN fs |-> [type |-> fs[i].type, payload |-> fs[i].payload]]

(* Frames are forwarded whole, in order, none twice and none made of the   *)
(* payload of another, wherever the stream is cut.                         *)
ForwardsPrefix == IsPrefix(forwarded, Data(upSent))

(* A frame is forwarded as soon as it is complete, whatever precedes it:   *)
(* what is not a frame is skipped byte by byte, and never with a byte of   *)
(* the frame behind it.                                                    *)
ForwardsAtOnce ==
  \A n \in 1..Len(upSent) :
    Len(upWire) <= Len(UpStream(SubSeq(upSent, n + 1, Len(upSent))))
      => Len(forwarded) >= n

(* Only a frame cut within its first six bytes kills the controller        *)
(* thread: one cut later is completed by the next read, and the buffer     *)
(* never fills up with an incomplete message.                              *)
DiesOnlyOfCutHeader == reader = "dead" => cut

(* ... and otherwise all messages are handled (or the socket is closed).   *)
AllHandled == <>(taken = Len(downSent) \/ cut \/ reader = "closed")
=============================================================================
