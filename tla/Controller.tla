----------------------------- MODULE Controller -----------------------------
(***************************************************************************)
(* The control messages of the desktop client: the circular buffer of      *)
(* util/cbuf.h, the controller thread of controller.c that empties it into *)
(* the control socket, and the main thread that fills it and, at the end,  *)
(* stops the thread, shuts the socket down, joins and destroys.            *)
(*                                                                         *)
(* Messages are numbered in the order they are pushed.  Each owns memory   *)
(* (the text of a clipboard message) that somebody must free, once.        *)
(***************************************************************************)
EXTENDS Naturals, Sequences

CONSTANTS Capacity,  \* the items the buffer holds (64 in controller.h)
          MaxMsgs,   \* bound: messages pushed in a behaviour
          PARTIAL_SEND  \* send() may write a part of what it is given

ASSUME CtlAssumption == /\ Capacity \in Nat \ {0} /\ MaxMsgs \in Nat
                        /\ PARTIAL_SEND \in BOOLEAN

Msgs == 1..MaxMsgs
NoMsg == 0

VARIABLES
  data, head, tail,  \* controller->queue
  stopped,           \* controller->stopped
  ctl,               \* where the controller thread is
  msg,               \* its local message
  main,              \* where the main thread is
  socket,            \* the control socket is usable
  pushed,            \* number of messages pushed so far
  freed,             \* history: how often each message was destroyed
  out                \* history: the messages taken, in order

ring == <<data, head, tail>>
vars == <<ring, stopped, ctl, msg, main, socket, pushed, freed, out>>
-----------------------------------------------------------------------------
(* The circular buffer: one slot more than its capacity, so that full and  *)
(* empty differ.                                                           *)
Size == Capacity + 1
IsEmpty == head = tail
IsFull_OffByOne == head + 1 = tail
IsFull == (head + 1) % Size = tail

CbufPush(m) == /\ data' = [data EXCEPT ![head] = m]
               /\ head' = (head + 1) % Size
               /\ UNCHANGED tail

CbufTake == msg' = data[tail] /\ tail' = (tail + 1) % Size /\ UNCHANGED <<data, head>>

Count == (head + Size - tail) % Size
Contents == [i \in 1..Count |-> data[(tail + i - 1) % Size]]

Init == /\ data = [i \in 0..Capacity |-> NoMsg] /\ head = 0 /\ tail = 0
        /\ stopped = FALSE
        /\ ctl = "check" /\ msg = NoMsg
        /\ main = "start"
        /\ socket = TRUE
        /\ pushed = 0 /\ freed = [m \in Msgs |-> 0] /\ out = <<>>
-----------------------------------------------------------------------------
(* cond_signal(): it wakes the controller thread if that waits.            *)
Signal_Lost == UNCHANGED ctl
Signal == ctl' = IF ctl = "waiting" THEN "check" ELSE ctl

Free(ms) == freed' = [m \in Msgs |-> freed[m] + IF m \in ms THEN 1 ELSE 0]

(* controller_push_msg(): only a push into an empty queue signals.         *)
PushSignals_Inverted == IF IsEmpty THEN UNCHANGED ctl ELSE Signal
PushSignals == IF IsEmpty THEN Signal ELSE UNCHANGED ctl

(* The caller frees a message that was refused.                            *)
FreedByPush_Never == {}
FreedByPush == IF IsFull THEN {pushed + 1} ELSE {}

PushMsg == /\ main = "loop" /\ pushed < MaxMsgs
           /\ IF IsFull THEN UNCHANGED ring ELSE CbufPush(pushed + 1)
           /\ Free(FreedByPush)
           /\ PushSignals
           /\ pushed' = pushed + 1
           /\ UNCHANGED <<stopped, msg, main, socket, out>>

(* controller_start(): the receiver thread may fail to start.              *)
Start == /\ main = "start"
         /\ main' \in {"loop", "abort"}
         /\ UNCHANGED <<ring, stopped, ctl, msg, socket, pushed, freed, out>>

(* controller_stop(), and then the shutdown of the sockets if the event    *)
(* loop was reached.                                                       *)
Stop == /\ main \in {"loop", "abort"}
        /\ stopped' = TRUE
        /\ Signal
        /\ main' = IF main = "loop" THEN "shutdown" ELSE "join"
        /\ UNCHANGED <<ring, msg, socket, pushed, freed, out>>

ShutdownSocket == /\ main = "shutdown"
                  /\ socket' = FALSE /\ main' = "join"
                  /\ UNCHANGED <<ring, stopped, ctl, msg, pushed, freed, out>>

Join == /\ main = "join" /\ ctl = "done"
        /\ main' = "destroy"
        /\ UNCHANGED <<ring, stopped, ctl, msg, socket, pushed, freed, out>>

(* controller_destroy() frees what was never sent.                         *)
Destroy == /\ main = "destroy"
           /\ Free({Contents[i] : i \in DOMAIN Contents})
           /\ tail' = head
           /\ main' = "end"
           /\ UNCHANGED <<data, head, stopped, ctl, msg, socket, pushed, out>>
-----------------------------------------------------------------------------
(* run_controller(): "stop immediately, do not process further msgs".      *)
MustWait == ~stopped /\ IsEmpty

Wait == /\ ctl = "check" /\ MustWait
        /\ ctl' = "waiting"
        /\ UNCHANGED <<ring, stopped, msg, main, socket, pushed, freed, out>>

SpuriousWakeup == /\ ctl = "waiting"
                  /\ ctl' = "check"
                  /\ UNCHANGED <<ring, stopped, msg, main, socket, pushed, freed, out>>

Leave == /\ ctl = "check" /\ ~MustWait /\ stopped
         /\ ctl' = "done"
         /\ UNCHANGED <<ring, stopped, msg, main, socket, pushed, freed, out>>

TakeMsg == /\ ctl = "check" /\ ~MustWait /\ ~stopped
           /\ CbufTake
           /\ out' = Append(out, data[tail])
           /\ ctl' = "process"
           /\ UNCHANGED <<stopped, main, socket, pushed, freed>>

(* net_send_all() writes every byte but returns the size of the last       *)
(* write, and process_msg() takes anything but the length for a failure.   *)
SendSucceeds == IF ~socket THEN {FALSE} ELSE IF PARTIAL_SEND THEN BOOLEAN ELSE {TRUE}

(* The message is sent without the lock and freed; a failure ends the      *)
(* thread, and the messages that are still pushed only fill the buffer.    *)
ProcessMsg == /\ ctl = "process"
              /\ \E ok \in SendSucceeds : ctl' = IF ok THEN "check" ELSE "done"
              /\ Free({msg}) /\ msg' = NoMsg
              /\ UNCHANGED <<ring, stopped, main, socket, pushed, out>>

(* The device goes away.                                                   *)
SocketBreaks == /\ socket /\ socket' = FALSE
                /\ UNCHANGED <<ring, stopped, ctl, msg, main, pushed, freed, out>>

Terminated == main = "end" /\ UNCHANGED vars

ControllerThread == Wait \/ Leave \/ TakeMsg \/ ProcessMsg
Shutdown == ShutdownSocket \/ Join \/ Destroy

Next == \/ ControllerThread \/ SpuriousWakeup
        \/ Start \/ PushMsg \/ Stop \/ Shutdown
        \/ SocketBreaks \/ Terminated

Spec == Init /\ [][Next]_vars

(* The threads are scheduled and the device reads what it is sent; the     *)
(* user may never quit and may press no key.                               *)
FairSpec == Spec /\ WF_vars(ControllerThread) /\ WF_vars(Shutdown)
-----------------------------------------------------------------------------
TypeOK ==
  /\ data \in [0..Capacity -> Msgs \cup {NoMsg}]
  /\ head \in 0..Capacity /\ tail \in 0..Capacity
  /\ stopped \in BOOLEAN /\ socket \in BOOLEAN
  /\ ctl \in {"check", "waiting", "process", "done"}
  /\ msg \in Msgs \cup {NoMsg}
  /\ main \in {"start", "loop", "abort", "shutdown", "join", "destroy", "end"}
  /\ pushed \in 0..MaxMsgs
  /\ freed \in [Msgs -> Nat]
  /\ out \in Seq(Msgs)

(* The circular buffer is a bounded queue: whatever wraps, messages leave  *)
(* it in the order they came, none twice, none lost before the end.        *)
Fifo == INSTANCE BoundedFifo WITH queue <- Contents, Items <- Msgs, open <- main # "end"
ImplementsFifo == Fifo!Spec

(* Every message pushed is in exactly one place: waiting, being sent, or   *)
(* freed; none is freed twice, and at the end all are freed.               *)
OneOwner ==
  \A m \in 1..pushed :
    LET waits == \E i \in DOMAIN Contents : Contents[i] = m
    IN IF waits \/ msg = m
       THEN freed[m] = 0 /\ ~(waits /\ msg = m) /\ main # "end"
       ELSE freed[m] = 1

(* No wakeup is lost although only a push into an empty queue signals: the *)
(* thread never sleeps while a message waits or it should stop.            *)
NoLostWakeup == ctl = "waiting" => IsEmpty /\ ~stopped

(* A message in the queue is taken, unless the thread has ended: for why it *)
(* may end, see ThreadEndsForAReason.                                      *)
EveryMsgTaken ==
  \A m \in Msgs :
    (\E i \in DOMAIN Contents : Contents[i] = m)
      ~> ((\E i \in DOMAIN out : out[i] = m) \/ ctl = "done")

(* The shutdown, in which the main thread waits for the controller thread, *)
(* always completes (scrcpy.c:447 "the stream and controller are           *)
(* interrupted, we can join them").                                        *)
ShutdownEnds == stopped ~> main = "end"

(* "the _all versions wait/retry until len bytes have been written"        *)
(* (net.h:37): a message that is written does not end the thread.  It does *)
(* when send() takes it in two parts (net.c:111), and only then.           *)
ThreadEndsForAReason == ctl = "done" => stopped \/ ~socket
=============================================================================
