------------------------------ MODULE Recording ------------------------------
(***************************************************************************)
(* The video packets of the desktop client: the stream thread of stream.c, *)
(* which receives them, feeds the decoder and queues them, and the         *)
(* recorder thread of recorder.c, which writes the queue to a file, one    *)
(* packet late because it needs the time of the next one.                  *)
(*                                                                         *)
(* Packets are numbered in the order of arrival.  A step under             *)
(* recorder->mutex is one action; the mutex is state of its own only when  *)
(* a function returns without releasing it.                                *)
(***************************************************************************)
EXTENDS Integers, Sequences, SequencesExt

CONSTANT MaxPackets   \* bound: packets received in a behaviour

ASSUME RecAssumption == MaxPackets \in Nat

VARIABLES
  str,        \* where the stream thread is
  configs,    \* which of the packets received are config packets (no PTS)
  pending,    \* stream->pending: config packets kept for the next data packet
  decoded,    \* history: what each decoder_push() was given
  queue,      \* recorder->queue
  pushed,     \* history: the packets put in the queue
  locked,     \* the stream thread left the mutex locked
  stopped,    \* recorder->stopped
  failed,     \* recorder->failed
  rec,        \* where the recorder thread is
  previous,   \* recorder->previous
  writing,    \* the packet being written
  header,     \* recorder->header_written
  file        \* the frames written, with their durations

srec == <<configs, pending, decoded>>
file_vars == <<previous, writing, header, file>>
vars == <<str, srec, queue, pushed, locked, stopped, failed, rec, file_vars>>

None == 0
LastDuration == 100000
Pts(p) == p * p                     \* increasing, no two gaps alike
IsConfig(p) == configs[p]
Count == Len(configs)               \* packets received

(* The packets of s that are no config packets, by cs. *)
Frames(s, cs) ==
  LET F[i \in 0..Len(s)] == IF i = 0 THEN <<>>
                            ELSE IF cs[s[i]] THEN F[i - 1] ELSE Append(F[i - 1], s[i])
  IN F[Len(s)]

Init == /\ str = "open" /\ configs = <<>> /\ pending = <<>> /\ decoded = <<>>
        /\ queue = <<>> /\ pushed = <<>> /\ locked = FALSE
        /\ stopped = FALSE /\ failed = FALSE
        /\ rec = "none" /\ previous = None /\ writing = None
        /\ header = FALSE /\ file = <<>>
-----------------------------------------------------------------------------
(* The stream thread: run_stream().                                        *)
Goto(there) == str' = there

(* Codec, decoder, recorder, recorder thread and parser, each of which may *)
(* fail; a recorder whose thread was not started is only closed.           *)
Open == /\ str = "open"
        /\ \/ Goto("notify") /\ UNCHANGED rec
           \/ Goto("close") /\ UNCHANGED rec
           \/ Goto("stop") /\ rec' = "check"
           \/ Goto("recv") /\ rec' = "check"
        /\ UNCHANGED <<srec, queue, pushed, locked, stopped, failed, file_vars>>

(* A config packet is kept; a data packet takes what was kept with it.     *)
Kept_NoReset(p, config) == IF config THEN Append(pending, p) ELSE pending
Kept(p, config) == IF config THEN Append(pending, p) ELSE <<>>

(* A packet is received, and a data packet goes to the decoder first,      *)
(* which may refuse it.                                                    *)
RecvPacket(config) ==
  /\ str = "recv" /\ Count < MaxPackets
  /\ configs' = Append(configs, config)
  /\ pending' = Kept(Count + 1, config)
  /\ IF config
     THEN Goto("push") /\ UNCHANGED decoded
     ELSE /\ decoded' = Append(decoded, Append(pending, Count + 1))
          /\ Goto("push") \/ Goto("stop")
  /\ UNCHANGED <<queue, pushed, locked, stopped, failed, rec, file_vars>>

EndOfStream == /\ str = "recv" /\ Goto("stop")
               /\ UNCHANGED <<srec, queue, pushed, locked, stopped, failed, rec, file_vars>>

Signal_Lost == UNCHANGED rec
Signal == rec' = IF rec = "waiting" THEN "check" ELSE rec

(* recorder_push(): both refusals, of a recorder that failed and for lack   *)
(* of memory, return without unlocking the mutex.                          *)
Refused == failed

PushPacket ==
  /\ str = "push"
  /\ \/ /\ locked' = TRUE
        /\ Goto("stop")
        /\ UNCHANGED <<queue, pushed, rec>>
     \/ /\ ~Refused
        /\ queue' = Append(queue, Count) /\ pushed' = Append(pushed, Count)
        /\ Signal
        /\ Goto("recv")
        /\ UNCHANGED locked
  /\ UNCHANGED <<srec, stopped, failed, file_vars>>

(* recorder_stop(): SDL mutexes are recursive, so it passes even if locked. *)
StopRecorder == /\ str = "stop"
                /\ stopped' = TRUE
                /\ Signal
                /\ Goto("join")
                /\ UNCHANGED <<srec, queue, pushed, locked, failed, file_vars>>

JoinRecorder == /\ str = "join" /\ rec = "done" /\ Goto("close")
                /\ UNCHANGED <<srec, queue, pushed, locked, stopped, failed, rec, file_vars>>

(* recorder_close(): writing the trailer may fail too.                     *)
CloseRecorder == /\ str = "close"
                 /\ failed' \in {failed \/ ~header, TRUE}
                 /\ Goto("notify")
                 /\ UNCHANGED <<srec, queue, pushed, locked, stopped, rec, file_vars>>

NotifyStopped == /\ str = "notify" /\ Goto("done")
                 /\ UNCHANGED <<srec, queue, pushed, locked, stopped, failed, rec, file_vars>>
-----------------------------------------------------------------------------
(* The recorder thread: run_recorder().                                    *)
Lock == ~locked /\ UNCHANGED <<str, srec, pushed, locked, stopped>>

WaitPacket == /\ rec = "check" /\ ~stopped /\ queue = <<>> /\ Lock
              /\ rec' = "waiting"
              /\ UNCHANGED <<queue, failed, file_vars>>

SpuriousWakeup == /\ rec = "waiting" /\ Lock
                  /\ rec' = "check"
                  /\ UNCHANGED <<queue, failed, file_vars>>

(* The packet taken becomes previous; the one it replaces is written.      *)
TakePacket == /\ rec = "check" /\ queue # <<>> /\ Lock
              /\ queue' = Tail(queue)
              /\ previous' = Head(queue) /\ writing' = previous
              /\ rec' = IF previous = None THEN "check" ELSE "write"
              /\ UNCHANGED <<failed, header, file>>

(* recorder_write() may fail, and must when data precedes the header.      *)
Written_ConfigsToo(p, duration) ==
  /\ header \/ IsConfig(p)
  /\ header' = TRUE
  /\ file' = IF ~header THEN file ELSE Append(file, [frame |-> p, duration |-> duration])
Written(p, duration) ==
  /\ header \/ IsConfig(p)
  /\ header' = TRUE
  /\ file' = IF IsConfig(p) THEN file ELSE Append(file, [frame |-> p, duration |-> duration])

(* Between two data packets the duration is the difference of their times. *)
Duration_ToStart == Pts(previous)
Duration == IF IsConfig(previous) \/ IsConfig(writing) THEN 0
            ELSE Pts(previous) - Pts(writing)

WritePacket == /\ rec = "write"
               /\ \/ Written(writing, Duration) /\ rec' = "check"
                  \/ rec' = "fail" /\ UNCHANGED <<header, file>>
               /\ writing' = None
               /\ UNCHANGED <<str, srec, queue, pushed, locked, stopped, failed, previous>>

WriteFailed == /\ rec = "fail" /\ Lock
               /\ failed' = TRUE /\ queue' = <<>>
               /\ rec' = "done"
               /\ UNCHANGED file_vars

(* "If stopped is set, continue to process the remaining events": only an  *)
(* empty queue ends the thread.                                            *)
MayFinish_AtOnce == stopped
MayFinish == stopped /\ queue = <<>>

(* ... and then the last packet, whose failure is tolerated.               *)
Finish == /\ rec = "check" /\ MayFinish /\ Lock
          /\ rec' = "done"
          /\ \/ previous # None /\ Written(previous, LastDuration)
             \/ UNCHANGED <<header, file>>
          /\ previous' = None
          /\ UNCHANGED <<queue, failed, writing>>

Terminated == str = "done" /\ UNCHANGED vars

(* Each thread waits for the other, for ever.                              *)
Deadlocked == locked /\ str = "join" /\ rec # "done"
Blocked == Deadlocked /\ UNCHANGED vars

StreamThread == PushPacket \/ StopRecorder \/ JoinRecorder \/ CloseRecorder \/ NotifyStopped
RecorderThread == WaitPacket \/ TakePacket \/ WritePacket \/ WriteFailed \/ Finish

Next == \/ Open \/ EndOfStream \/ \E config \in BOOLEAN : RecvPacket(config)
        \/ StreamThread \/ RecorderThread \/ SpuriousWakeup \/ Terminated \/ Blocked

Spec == Init /\ [][Next]_vars

(* Both threads are scheduled; the device may send nothing for ever.       *)
FairSpec == Spec /\ WF_vars(StreamThread) /\ WF_vars(RecorderThread)
-----------------------------------------------------------------------------
TypeOK ==
  /\ str \in {"open", "recv", "push", "stop", "join", "close", "notify", "done"}
  /\ rec \in {"none", "check", "waiting", "write", "fail", "done"}
  /\ configs \in Seq(BOOLEAN) /\ pending \in Seq(1..Count)
  /\ queue \in Seq(1..Count) /\ pushed \in Seq(1..Count)
  /\ previous \in 0..Count /\ writing \in 0..Count
  /\ {locked, stopped, failed, header} \subseteq BOOLEAN
  /\ file \in Seq([frame : 1..Count, duration : Nat])

FileFrames == [i \in DOMAIN file |-> file[i].frame]

(* The decoder is given every byte received, in order, exactly once: the   *)
(* config packets only together with the data packet that follows.         *)
DecoderGetsAll == FlattenSeq(decoded) \o pending = [i \in 1..Count |-> i]

(* The file is at every moment a beginning of the recorded stream: frames  *)
(* in order and none missing, whatever fails.                              *)
FileIsPrefix == IsPrefix(FileFrames, Frames(pushed, configs))

(* A frame lasts until the next one, unless a config packet came between.  *)
Durations ==
  \A i \in 1..Len(file) - 1 :
    LET a == file[i].frame  b == file[i + 1].frame
    IN file[i].duration = IF b = a + 1 THEN Pts(b) - Pts(a) ELSE 0

(* A recording that is reported complete has every frame that was accepted *)
(* but possibly the last, whose failure "is not very serious" (:280).      *)
CompleteWhenClosed ==
  str \in {"notify", "done"} /\ rec = "done" /\ ~failed
    => Len(Frames(pushed, configs)) - Len(file) \in {0, 1}

(* The stream thread, which waits for the recorder, ends, unless it holds  *)
(* the recorder's mutex after a failed allocation (recorder.c:370).        *)
StreamEnds == str = "stop" ~> str = "done" \/ Deadlocked
=============================================================================
