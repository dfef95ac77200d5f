---------------------------- MODULE FpsCounter -----------------------------
(***************************************************************************)
(* fps_counter.c: the thread that prints the frame rate.  started is an    *)
(* atomic that main sets outside the mutex; interrupted is set under it.   *)
(* The thread holds the mutex from its test of the flags until it waits    *)
(* ("tosleep", "totimed"), so that a signal in between finds no waiter.    *)
(* Ticks are left out: the timed wait may end at any moment.               *)
(***************************************************************************)
EXTENDS Naturals

CONSTANT MaxToggles   \* bound: Ctrl+i pressed in a behaviour

ASSUME FpsAssumption == MaxToggles \in Nat

VARIABLES
  pthread,      \* where the thread is
  starting,     \* main is in fps_counter_start(), behind its critical section
  started,      \* counter->started
  interrupted,  \* counter->interrupted
  toggles       \* Ctrl+i so far

fpsVars == <<pthread, starting, started, interrupted, toggles>>

FpsInit == /\ pthread = "none" /\ starting = FALSE
           /\ started = FALSE /\ interrupted = FALSE /\ toggles = 0

FpsMutexFree == pthread \notin {"tosleep", "totimed"}

WakeFpsThread == IF pthread \in {"sleep", "timed"} THEN "test" ELSE pthread

(* fps_counter_start(): next_timestamp and the counts, under the mutex... *)
FpsStart == /\ toggles < MaxToggles /\ ~started /\ ~starting
            /\ FpsMutexFree
            /\ toggles' = toggles + 1
            /\ starting' = TRUE
            /\ UNCHANGED <<pthread, started, interrupted>>

(* ... then the flag, a signal, and the thread if there is none. *)
FpsStarted == /\ starting
              /\ starting' = FALSE
              /\ started' = TRUE
              /\ \/ pthread' = IF pthread = "none" THEN "test" ELSE WakeFpsThread
                 \/ pthread = "none" /\ UNCHANGED pthread
              /\ UNCHANGED <<interrupted, toggles>>

FpsStop == /\ toggles < MaxToggles /\ started /\ ~starting
           /\ toggles' = toggles + 1
           /\ started' = FALSE
           /\ pthread' = WakeFpsThread
           /\ UNCHANGED <<starting, interrupted>>

(* fps_counter_interrupt(): nothing without a thread; else the flag under the *)
(* mutex, and a signal after it.                                              *)
InterruptNow_Unlocked == TRUE
InterruptNow == pthread = "none" \/ FpsMutexFree
FpsInterrupt == /\ InterruptNow
                /\ interrupted' = (pthread # "none")
                /\ UNCHANGED <<pthread, starting, started, toggles>>

FpsInterruptSignal == /\ pthread' = IF interrupted THEN WakeFpsThread ELSE pthread
                      /\ UNCHANGED <<starting, started, interrupted, toggles>>
-----------------------------------------------------------------------------
FpsTest == /\ pthread = "test"
           /\ pthread' = IF interrupted THEN "done"
                         ELSE IF started THEN "totimed" ELSE "tosleep"
           /\ UNCHANGED <<starting, started, interrupted, toggles>>

FpsWaits == /\ pthread \in {"tosleep", "totimed"}
            /\ pthread' = IF pthread = "tosleep" THEN "sleep" ELSE "timed"
            /\ UNCHANGED <<starting, started, interrupted, toggles>>

FpsTimeout == /\ pthread = "timed"
              /\ pthread' = "test"
              /\ UNCHANGED <<starting, started, interrupted, toggles>>

FpsSpurious == /\ pthread = "sleep"
               /\ pthread' = "test"
               /\ UNCHANGED <<starting, started, interrupted, toggles>>

FpsJoinable == pthread \in {"none", "done"}

FpsThread == FpsTest \/ FpsWaits \/ FpsTimeout
=============================================================================
