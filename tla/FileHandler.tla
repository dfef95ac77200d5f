---------------------------- MODULE FileHandler ----------------------------
(***************************************************************************)
(* file_handler.c: the thread that installs or pushes the files dropped on *)
(* the window, one adb process after another.  Main calls request, stop,   *)
(* join and destroy; Session says when.                                    *)
(*                                                                         *)
(* A process has the name of the file it handles.  The queue is the ring   *)
(* of the controller (util/cbuf.h), here a bounded sequence.  The mutex is *)
(* held over a step only by file_handler_stop() while it waits.            *)
(***************************************************************************)
EXTENDS Naturals, Sequences

CONSTANTS Files,     \* the files that may be dropped, each once
          QueueCap,  \* requests the ring can hold
          NONE       \* PROCESS_NONE, no file

ASSUME FHAssumption == QueueCap \in Nat \ {0} /\ NONE \notin Files

VARIABLES
  fthread,   \* where the thread is
  queue,     \* file_handler->queue
  stopped,   \* file_handler->stopped
  current,   \* file_handler->current_process
  stopping,  \* main holds the mutex and waits for current
  req,       \* the thread's request
  adb,       \* the process of each file
  killed,    \* the processes that were sent SIGTERM
  dropped,   \* the files given to file_handler_request()
  refused,   \* those it did not take
  freed      \* how often each file was freed

fileVars == <<fthread, queue, stopped, current, stopping, req, adb, killed,
              dropped, refused, freed>>

FileInit == /\ fthread = "none" /\ queue = <<>>
            /\ stopped = FALSE /\ current = NONE /\ stopping = FALSE
            /\ req = NONE
            /\ adb = [f \in Files |-> "none"] /\ killed = {}
            /\ dropped = {} /\ refused = {}
            /\ freed = [f \in Files |-> 0]

FileMutexFree == ~stopping

WakeFileThread == IF fthread = "wait" THEN "loop" ELSE fthread

(* The thread is created with the first request; a failure there, as a full *)
(* ring, refuses the file, which stays with the caller.                     *)
FileRequest(f) ==
  /\ f \notin dropped
  /\ dropped' = dropped \cup {f}
  /\ \/ /\ fthread = "none"
        /\ refused' = refused \cup {f}
        /\ UNCHANGED <<fthread, queue>>
     \/ /\ Len(queue) < QueueCap
        /\ queue' = Append(queue, f)
        /\ fthread' = IF fthread = "none" THEN "loop"
                      ELSE IF queue = <<>> THEN WakeFileThread
                      ELSE fthread
        /\ UNCHANGED refused
     \/ /\ Len(queue) = QueueCap
        /\ refused' = refused \cup {f}
        /\ UNCHANGED <<fthread, queue>>
  /\ UNCHANGED <<stopped, current, stopping, req, adb, killed, freed>>
-----------------------------------------------------------------------------
(* The thread, from its lock to the unlock: stop, sleep, or start a process, *)
(* which may fail.                                                           *)
FileStops == /\ fthread = "loop" /\ FileMutexFree
             /\ current' = NONE
             /\ stopped
             /\ fthread' = "done"
             /\ UNCHANGED <<queue, stopped, stopping, req, adb, killed,
                            dropped, refused, freed>>

FileSleeps == /\ fthread = "loop" /\ FileMutexFree
              /\ current' = NONE
              /\ ~stopped /\ queue = <<>>
              /\ fthread' = "wait"
              /\ UNCHANGED <<queue, stopped, stopping, req, adb, killed,
                             dropped, refused, freed>>

MayTake_AlsoStopped == queue # <<>>
MayTake == ~stopped /\ queue # <<>>

FileTakes == /\ fthread = "loop" /\ FileMutexFree
             /\ MayTake
             /\ req' = Head(queue) /\ queue' = Tail(queue)
             /\ \/ /\ adb' = [adb EXCEPT ![Head(queue)] = "running"]
                   /\ current' = Head(queue)
                \/ UNCHANGED adb /\ current' = NONE
             /\ fthread' = "adb"
             /\ UNCHANGED <<stopped, stopping, killed, dropped, refused, freed>>

FileWakes == /\ fthread = "wait"
             /\ fthread' = "loop"
             /\ UNCHANGED <<queue, stopped, current, stopping, req, adb, killed,
                            dropped, refused, freed>>

(* process_check_success(): waits for the process, unless there is none or   *)
(* main has already waited for it; then the file is freed.  current keeps    *)
(* the process that is gone until the thread has the mutex again.            *)
FileReaps == /\ fthread = "adb"
             /\ adb[req] # "running"
             /\ adb' = IF adb[req] = "exited" THEN [adb EXCEPT ![req] = "reaped"] ELSE adb
             /\ freed' = [freed EXCEPT ![req] = @ + 1]
             /\ req' = NONE
             /\ fthread' = "loop"
             /\ UNCHANGED <<queue, stopped, current, stopping, killed, dropped, refused>>

(* External: adb ends, by itself or by the signal. *)
AdbExits(f) == /\ adb[f] = "running"
               /\ adb' = [adb EXCEPT ![f] = "exited"]
               /\ UNCHANGED <<fthread, queue, stopped, current, stopping, req,
                              killed, dropped, refused, freed>>
-----------------------------------------------------------------------------
(* file_handler_stop(): the flag, the signal, and, mutex held, the end of    *)
(* the process.                                                              *)
FileStop == /\ FileMutexFree
            /\ stopped' = TRUE
            /\ fthread' = WakeFileThread
            /\ IF current = NONE THEN UNCHANGED <<killed, stopping>>
               ELSE killed' = killed \cup {current} /\ stopping' = TRUE
            /\ UNCHANGED <<queue, current, req, adb, dropped, refused, freed>>

FileStopWaited == /\ stopping
                  /\ adb[current] # "running"
                  /\ adb' = [adb EXCEPT ![current] = "reaped"]
                  /\ current' = NONE
                  /\ stopping' = FALSE
                  /\ UNCHANGED <<fthread, queue, stopped, req, killed, dropped,
                                 refused, freed>>

FileJoinable == fthread \in {"none", "done"}

(* file_handler_destroy(): what is still queued is freed. *)
FreeQueue == freed' = [f \in Files |->
                         freed[f] + IF \E i \in 1..Len(queue) : queue[i] = f THEN 1 ELSE 0]

FileDestroy == /\ FreeQueue
               /\ queue' = <<>>
               /\ UNCHANGED <<fthread, stopped, current, stopping, req, adb,
                              killed, dropped, refused>>

FileThread == FileStops \/ FileSleeps \/ FileTakes \/ FileReaps

=============================================================================
