--------------------------- MODULE SessionProofs ----------------------------
(* Proofs about Session: the order of the ladder, for any number of files,   *)
(* attempts and uses of the frame counter.                                   *)
EXTENDS Session, TLAPS

(* Where main is before a process or a thread was started, behind the joins  *)
(* of the threads, of the file handler, and of the frame counter.            *)
Early == {"start", "push", "tunnel", "listen", "execute"}
AfterDisplay == {"touches_off", "destroy", "returned"}
AfterFiles == AfterDisplay \cup {"display"}
AfterJoin == AfterFiles \cup {"files"}

NoneRunning == \A t \in Threads : thread[t] # "running"

OrderInv ==
  /\ comp \in [Components -> {"none", "alive", "destroyed"}]
  /\ thread \in [Threads -> {"none", "running", "done"}]
  /\ pc \notin Early \cup {"returned"} => process # "none"
  /\ starting => pc = "loop"
  /\ pc \in Early \cup AfterJoin => NoneRunning
  /\ \A c \in Components : comp[c] = "destroyed" => pc \in AfterJoin
  /\ comp["fh"] = "destroyed" => pc \in AfterFiles /\ FileJoinable
  /\ \A c \in {"vb", "fps"} : comp[c] = "destroyed" => pc \in AfterDisplay /\ FpsJoinable

(* Calling the file handler or the counter back to work is left to main's    *)
(* event loop: what is joinable stays so everywhere else.                    *)
LEMMA FilesStayJoined == FileJoinable /\ (FileThread \/ FileWakes \/ FileStop) => FileJoinable'
BY DEF FileJoinable, FileThread, FileStops, FileSleeps, FileTakes, FileReaps, FileWakes,
       FileStop, WakeFileThread

LEMMA FpsStaysJoined == FpsJoinable /\ (FpsThread \/ FpsSpurious \/ FpsInterruptSignal)
                          => FpsJoinable'
BY DEF FpsJoinable, FpsThread, FpsTest, FpsWaits, FpsTimeout, FpsSpurious,
       FpsInterruptSignal, WakeFpsThread

(* Steps from before the joins to before the joins, or that only leave early. *)
LEMMA MovesOn ==
  ASSUME OrderInv,
         UNCHANGED <<comp, thread, fileVars, fpsVars>>,
         pc' \notin Early \cup {"returned"} => process' # "none",
         pc' = pc \/ ~starting,
         pc' \in Early \cup AfterJoin => NoneRunning,
         \/ pc' = pc
         \/ pc \notin AfterJoin
         \/ pc \in AfterDisplay /\ pc' \in AfterDisplay
  PROVE  OrderInv'
BY DEF OrderInv, NoneRunning, AfterJoin, AfterFiles, AfterDisplay, FileJoinable, FpsJoinable,
       fileVars, fpsVars

(* Nothing is destroyed, and no thread started, before its turn.             *)
LEMMA StartStep == ASSUME OrderInv, Start PROVE OrderInv'
<1>0. ~starting /\ pc \notin AfterJoin
  BY DEF OrderInv, Start, Goto, Skip, Initialize, AfterJoin, AfterFiles, AfterDisplay,
       DupSerial, PushServer, EnableTunnel, Listen, ExecuteServer, EnableTouches, SdlInit,
       AcceptVideo, ConnectVideo, ReadByte, ConnectControl, ReadInfo, InitDisplay,
       InitRecorder, StartStream, InitController, StartController, InitScreen, BeforeLoop
<1>1. CASE DupSerial \/ PushServer \/ EnableTunnel \/ Listen \/ ExecuteServer
  <2>1. /\ UNCHANGED <<comp, thread, fileVars, fpsVars>>
        /\ pc \in Early
        /\ pc' \notin Early \cup {"returned"} => process' # "none"
    BY <1>1 DEF DupSerial, PushServer, EnableTunnel, Listen, ExecuteServer, Goto, Early, runVars
  <2>2. NoneRunning
    BY <2>1 DEF OrderInv
  <2> QED
    BY <1>0, <2>1, <2>2, MovesOn
<1>2. CASE \/ EnableTouches \/ SdlInit \/ AcceptVideo \/ ConnectVideo \/ ReadByte
           \/ ConnectControl \/ ReadInfo \/ InitScreen \/ BeforeLoop
  <2>1. /\ UNCHANGED <<comp, thread, fileVars, fpsVars, process>>
        /\ pc \notin Early \cup {"returned"} /\ pc' \notin Early \cup AfterJoin
    BY <1>2 DEF EnableTouches, SdlInit, AcceptVideo, ConnectVideo, ConnectFails, ReadByte,
         ConnectControl, ReadInfo, InitScreen, BeforeLoop, Skip, Goto, Early, AfterJoin,
         AfterFiles, AfterDisplay, runVars, serverVars
  <2> QED
    BY <1>0, <2>1, MovesOn DEF OrderInv, AfterJoin, AfterFiles, AfterDisplay
<1>3. CASE InitDisplay \/ InitRecorder \/ InitController
  <2>1. /\ UNCHANGED <<thread, fileVars, fpsVars, process>>
        /\ pc \notin Early \cup {"returned"} /\ pc' \notin Early \cup AfterJoin
        /\ comp' = comp \/ \E c \in Components : comp' = [comp EXCEPT ![c] = "alive"]
    BY <1>3 DEF InitDisplay, InitRecorder, InitController, Initialize, Skip, Goto, Early,
         AfterJoin, AfterFiles, AfterDisplay, Components, runVars, serverVars
  <2>2. \A c \in Components : comp[c] # "destroyed" /\ comp'[c] # "destroyed"
    BY <1>0, <2>1 DEF OrderInv
  <2>3. comp' \in [Components -> {"none", "alive", "destroyed"}]
    BY <2>1 DEF OrderInv
  <2>4. starting' = starting
    BY <2>1 DEF fpsVars
  <2> QED
    BY <1>0, <2>1, <2>2, <2>3, <2>4 DEF OrderInv, Components, AfterJoin, AfterFiles, AfterDisplay
<1>4. CASE StartStream \/ StartController
  <2>1. /\ UNCHANGED <<comp, fileVars, fpsVars, process>>
        /\ pc \notin Early \cup {"returned"} /\ pc' \notin Early \cup AfterJoin
        /\ \/ thread' = thread
           \/ thread' = [thread EXCEPT !["stream"] = "running"]
           \/ thread' = [thread EXCEPT !["controller"] = "running", !["receiver"] = "running"]
    BY <1>4 DEF StartStream, StartController, AfterStream, Goto, Early, AfterJoin, AfterFiles,
         AfterDisplay, serverVars
  <2>2. \A c \in Components : comp[c] # "destroyed"
    BY <1>0 DEF OrderInv
  <2>3. thread' \in [Threads -> {"none", "running", "done"}]
    BY <2>1 DEF OrderInv, Threads
  <2>4. starting' = starting
    BY <2>1 DEF fpsVars
  <2> QED
    BY <1>0, <2>1, <2>2, <2>3, <2>4 DEF OrderInv, Components, AfterJoin, AfterFiles, AfterDisplay
<1> QED
  BY <1>1, <1>2, <1>3, <1>4 DEF Start

(* Each rung of the ladder destroys what nobody uses any more.               *)
LEMMA LadderStep == ASSUME OrderInv, Ladder PROVE OrderInv'
<1> DEFINE Laddered == {"end", "stop_files", "stop_wait", "interrupt", "signal", "close", "kill",
                        "wait_server", "join"} \cup AfterJoin
<1>0. /\ ~starting /\ starting' = starting /\ thread' = thread
      /\ pc \in Laddered \ {"returned"} /\ pc' \in Laddered /\ process # "none" /\ process' # "none"
  BY DEF OrderInv, Ladder, Goto, Skip, Early, AfterJoin, AfterFiles, AfterDisplay, runVars,
       serverVars, fpsVars, StopThreads, StopFiles, NoFiles, StopFilesWaited, InterruptFps, NoFps,
       CloseSockets, KillServer, WaitServer, JoinThreads, DestroyFiles, DestroyDisplay,
       DisableTouches, DestroyServer, FpsInterrupt, FpsInterruptSignal
<1>1. CASE \/ StopThreads \/ StopFiles \/ NoFiles \/ StopFilesWaited \/ InterruptFps \/ NoFps
           \/ CloseSockets \/ KillServer \/ WaitServer
  <2>1. /\ UNCHANGED <<comp, thread>>
        /\ pc \notin Early \cup AfterJoin /\ pc' \notin Early \cup AfterJoin
    BY <1>1 DEF Goto, Skip, Early, AfterJoin, AfterFiles, AfterDisplay, runVars, StopThreads,
         StopFiles, NoFiles, StopFilesWaited, InterruptFps, NoFps, CloseSockets, KillServer,
         WaitServer
  <2> QED
    BY <1>0, <2>1 DEF OrderInv, Components, AfterJoin, AfterFiles, AfterDisplay
<1>2. CASE JoinThreads
  <2>1. /\ UNCHANGED <<thread, fileVars, fpsVars>> /\ pc = "join" /\ pc' = "files"
        /\ NoneRunning /\ Destroy({"controller", "rec"})
    BY <1>2 DEF JoinThreads, Joined, Goto, NoneRunning
  <2>2. /\ comp' \in [Components -> {"none", "alive", "destroyed"}]
        /\ comp'["fh"] = comp["fh"] /\ comp'["vb"] = comp["vb"] /\ comp'["fps"] = comp["fps"]
    BY <2>1 DEF Destroy, OrderInv, Components
  <2>3. NoneRunning'
    BY <2>1 DEF NoneRunning
  <2> QED
    BY <1>0, <2>1, <2>2, <2>3 DEF OrderInv, Components, Early, AfterJoin, AfterFiles, AfterDisplay
<1>3. CASE DestroyFiles
  <2>1. /\ pc = "files" /\ pc' = "display" /\ UNCHANGED <<fpsVars, fthread>>
        /\ NoneRunning /\ Destroy({"fh"})
        /\ comp["fh"] = "alive" => FileJoinable
    BY <1>3 DEF DestroyFiles, Goto, FileDestroy, fileVars, OrderInv, AfterJoin
  <2>2. /\ comp' \in [Components -> {"none", "alive", "destroyed"}]
        /\ comp'["vb"] = comp["vb"] /\ comp'["fps"] = comp["fps"]
        /\ comp'["fh"] = "destroyed" => comp["fh"] \in {"alive", "destroyed"}
    BY <2>1 DEF Destroy, OrderInv, Components
  <2>3. NoneRunning' /\ (FileJoinable <=> FileJoinable')
    BY <1>0, <2>1 DEF NoneRunning, FileJoinable
  <2> QED
    BY <1>0, <2>1, <2>2, <2>3 DEF OrderInv, Components, Early, AfterJoin, AfterFiles, AfterDisplay
<1>4. CASE DestroyDisplay
  <2>1. /\ pc = "display" /\ pc' = "touches_off" /\ UNCHANGED <<fpsVars, fileVars>>
        /\ NoneRunning /\ Destroy({"vb", "fps"}) /\ FpsJoinable
    BY <1>4 DEF DestroyDisplay, Goto, OrderInv, AfterJoin, AfterFiles
  <2>2. /\ comp' \in [Components -> {"none", "alive", "destroyed"}]
        /\ comp'["fh"] = comp["fh"]
    BY <2>1 DEF Destroy, OrderInv, Components
  <2>3. NoneRunning' /\ FpsJoinable' /\ (FileJoinable <=> FileJoinable')
    BY <1>0, <2>1 DEF NoneRunning, FileJoinable, FpsJoinable, fileVars, fpsVars
  <2> QED
    BY <1>0, <2>1, <2>2, <2>3 DEF OrderInv, Components, Early, AfterJoin, AfterFiles, AfterDisplay
<1>5. CASE DisableTouches \/ DestroyServer
  <2>1. /\ UNCHANGED <<comp, thread, fileVars, fpsVars>>
        /\ pc \in AfterDisplay \ {"returned"} /\ pc' \in AfterDisplay
    BY <1>5 DEF DisableTouches, DestroyServer, Goto, AfterDisplay, runVars
  <2>2. NoneRunning
    BY <2>1 DEF OrderInv, AfterJoin, AfterFiles
  <2> QED
    BY <1>0, <2>1, <2>2, MovesOn
<1> QED
  BY <1>1, <1>2, <1>3, <1>4, <1>5 DEF Ladder

(* The threads, the user and the processes meanwhile.                        *)
LEMMA OtherStep ==
  ASSUME OrderInv,
         \/ SwitchedFpsCounter \/ User \/ FileThreadSteps \/ FileExternal \/ FpsThreadSteps
         \/ ServerExits \/ (\E b \in BOOLEAN : SettingsExit(b))
         \/ (\E t \in Threads : ThreadEnds(t)) \/ UNCHANGED vars
  PROVE  OrderInv'
<1>1. CASE SwitchedFpsCounter \/ User
  <2>1. /\ UNCHANGED <<comp, thread, process>> /\ pc = "loop" /\ pc' \in {"loop", "end"}
        /\ starting' => pc' = "loop"
    BY <1>1 DEF SwitchedFpsCounter, FpsStarted, User, DropFile, SwitchFpsCounter, LeaveLoop, InLoop,
         Skip, Goto, FpsStart, FpsStop, OrderInv, runVars, serverVars, fpsVars
  <2> QED
    BY <2>1 DEF OrderInv, Components, Early, AfterJoin, AfterFiles, AfterDisplay
<1>2. CASE FileThreadSteps \/ FileExternal
  <2>1. /\ UNCHANGED <<comp, thread, process, pc, fpsVars>>
        /\ FileThread \/ FileWakes \/ fthread' = fthread
    BY <1>2 DEF FileThreadSteps, FileExternal, AdbExits, runVars, serverVars
  <2>2. FileJoinable => FileJoinable'
    BY <2>1, FilesStayJoined DEF FileJoinable
  <2> QED
    BY <2>1, <2>2 DEF OrderInv, NoneRunning, FpsJoinable, fpsVars
<1>3. CASE FpsThreadSteps
  <2>1. /\ UNCHANGED <<comp, thread, process, pc, fileVars>>
        /\ FpsThread \/ FpsSpurious
    BY <1>3 DEF FpsThreadSteps, runVars, serverVars
  <2>2. (FpsJoinable => FpsJoinable') /\ starting' = starting
    BY <2>1, FpsStaysJoined DEF FpsThread, FpsTest, FpsWaits, FpsTimeout, FpsSpurious
  <2> QED
    BY <2>1, <2>2 DEF OrderInv, NoneRunning, FileJoinable, fileVars
<1>4. CASE ServerExits \/ (\E b \in BOOLEAN : SettingsExit(b)) \/ UNCHANGED vars
  <2>1. /\ UNCHANGED <<comp, thread, pc, fileVars, fpsVars>>
        /\ process # "none" => process' # "none"
    BY <1>4 DEF ServerExits, SettingsExit, vars, runVars, serverVars
  <2> QED
    BY <2>1 DEF OrderInv, NoneRunning, FileJoinable, FpsJoinable, fileVars, fpsVars
<1>5. ASSUME NEW t \in Threads, ThreadEnds(t) PROVE OrderInv'
  <2>1. /\ UNCHANGED <<comp, process, pc, fileVars, fpsVars>>
        /\ thread' = [thread EXCEPT ![t] = "done"]
    BY <1>5 DEF ThreadEnds, serverVars
  <2>2. /\ thread' \in [Threads -> {"none", "running", "done"}]
        /\ NoneRunning => NoneRunning'
    BY <2>1 DEF OrderInv, NoneRunning
  <2> QED
    BY <2>1, <2>2 DEF OrderInv, FileJoinable, FpsJoinable, fileVars, fpsVars
<1> QED
  BY <1>1, <1>2, <1>3, <1>4, <1>5

(* Whatever step of the session failed, main destroys in this order. *)
LEMMA OrderHolds == Spec => []OrderInv
<1>1. Init => OrderInv
  BY DEF Init, FileInit, FpsInit, OrderInv, NoneRunning, Early, Components
<1>2. OrderInv /\ [Next]_vars => OrderInv'
  BY StartStep, LadderStep, OtherStep DEF Next, MainThread, Returned
<1> QED
  BY <1>1, <1>2, PTL DEF Spec

(* No thread is left that uses a struct when it is destroyed, whatever step  *)
(* of the session failed, and server_stop() has a process to kill.           *)
THEOREM NoUseAfterDestroyHolds == Spec => []NoUseAfterDestroy
<1>1. OrderInv => NoUseAfterDestroy
  <2> SUFFICES ASSUME OrderInv PROVE NoUseAfterDestroy
    OBVIOUS
  <2>1. pc = "kill" => process # "none"
    BY DEF OrderInv, Early
  <2>2. ASSUME NEW c \in Components, comp[c] = "destroyed" PROVE NoneRunning
    BY <2>2 DEF OrderInv, NoneRunning
  <2>3. ASSUME NEW c \in Components, comp[c] = "destroyed" PROVE ~Uses(c)
    BY <2>2, <2>3 DEF OrderInv, Uses, NoneRunning, Threads, Components
  <2> QED
    BY <2>1, <2>3 DEF NoUseAfterDestroy
<1> QED
  BY <1>1, OrderHolds, PTL

-----------------------------------------------------------------------------
AdbType == adb \in [Files -> {"none", "running", "exited", "reaped"}]

(* The steps that concern a process of the file handler.                     *)
LEMMA AdbSteps == [Next]_vars => \/ FileTakes \/ FileReaps \/ \E f \in Files : AdbExits(f)
                                 \/ FileStopWaited \/ adb' = adb
<1>1. Start \/ SwitchedFpsCounter \/ User \/ UNCHANGED vars => adb' = adb
  BY DEF Start, SwitchedFpsCounter, User, DropFile, SwitchFpsCounter, LeaveLoop, FileRequest,
       Skip, Initialize, DupSerial, PushServer, EnableTunnel, Listen, ExecuteServer,
       EnableTouches, SdlInit, AcceptVideo, ConnectVideo, ReadByte, ConnectControl, ReadInfo,
       InitDisplay, InitRecorder, StartStream, InitController, StartController, InitScreen,
       BeforeLoop, fileVars, vars
<1>2. Ladder => FileStopWaited \/ adb' = adb
  BY DEF Ladder, Skip, StopThreads, StopFiles, FileStop, NoFiles, StopFilesWaited, InterruptFps,
       NoFps, CloseSockets, KillServer, WaitServer, JoinThreads, DestroyFiles, FileDestroy,
       DestroyDisplay, DisableTouches, DestroyServer, fileVars
<1>3. FileThreadSteps => FileTakes \/ FileReaps \/ adb' = adb
  BY DEF FileThreadSteps, FileThread, FileStops, FileSleeps
<1>4. FileExternal => adb' = adb \/ \E f \in Files : AdbExits(f)
  BY DEF FileExternal, FileWakes
<1>5. FpsThreadSteps \/ ServerExits \/ (\E b \in BOOLEAN : SettingsExit(b)) => adb' = adb
  BY DEF FpsThreadSteps, ServerExits, SettingsExit, fileVars
<1>6. (\E t \in Threads : ThreadEnds(t)) \/ Returned => adb' = adb
  BY DEF ThreadEnds, Returned, fileVars, vars
<1> QED
  BY <1>1, <1>2, <1>3, <1>4, <1>5, <1>6 DEF Next, MainThread

(* A process is always in one of these states.                               *)
LEMMA AdbTyped == Spec => []AdbType
<1>1. Init => AdbType
  BY DEF Init, FileInit, AdbType
<1>2. AdbType /\ [Next]_vars => AdbType'
  BY AdbSteps DEF AdbType, FileTakes, FileReaps, AdbExits, FileStopWaited
<1> QED
  BY <1>1, <1>2, PTL DEF Spec

(* Once the file handler is told to stop, no adb process is started, though  *)
(* its thread may be anywhere: the flag is tested again before each request. *)
THEOREM NothingStartedAfterStopHolds == Spec => NothingStartedAfterStop
<1> DEFINE Quiet == stopped => \A f \in Files : adb'[f] = "running" => adb[f] = "running"
<1>1. AdbType /\ [Next]_vars => Quiet
  <2> SUFFICES ASSUME AdbType, [Next]_vars PROVE Quiet
    OBVIOUS
  <2>1. CASE FileTakes
    BY <2>1 DEF FileTakes, MayTake
  <2>2. CASE FileReaps
    BY <2>2 DEF FileReaps, AdbType
  <2>3. ASSUME NEW f \in Files, AdbExits(f) PROVE Quiet
    BY <2>3 DEF AdbExits, AdbType
  <2>4. CASE FileStopWaited
    BY <2>4 DEF FileStopWaited, AdbType
  <2>5. CASE adb' = adb
    BY <2>5
  <2> QED
    BY <2>1, <2>2, <2>3, <2>4, <2>5, AdbSteps
<1> QED
  BY <1>1, AdbTyped, PTL DEF Spec, NothingStartedAfterStop
-----------------------------------------------------------------------------
(* What is open, started or allocated where main is: one invariant for each  *)
(* thing to release.  None of them depends on another one, except that what  *)
(* was never initialized has nothing to release.                             *)
AfterReap == AfterJoin \cup {"join"}
AfterClose == AfterReap \cup {"kill", "wait_server"}

SockInv ==
  /\ sock \in [Sockets -> {"invalid", "open", "shut"}]
  /\ pc \in AfterClose \cup (Early \ {"execute"}) => \A s \in Sockets : sock[s] # "open"
  /\ pc = "execute" => sock["video"] # "open" /\ sock["control"] # "open"

(* server_stop() removes the tunnel only if it is enabled.                   *)
ServerInv ==
  /\ enabled \in BOOLEAN
  /\ pc \in {"start", "push", "tunnel"} \cup AfterReap => tunnel = "none"
  /\ pc \in Early => ~enabled /\ process = "none"
  /\ pc \notin Early /\ ~enabled => tunnel = "none"
  /\ pc \in AfterReap => process \in {"none", "reaped"}

SerialInv ==
  /\ pc = "start" => serial = "null"
  /\ pc = "returned" => serial # "owned"

(* The command that turns the touches off is started after the one that      *)
(* turns them on has ended.                                                  *)
TouchesInv ==
  /\ settings \subseteq BOOLEAN
  /\ pc \in Early \/ ~opt.show_touches => settings = {} /\ touches = "off"
  /\ pc \in {"destroy", "returned"} =>
       TRUE \notin settings /\ (touches = "on" => FALSE \in settings)
  /\ pc # "destroy" => FALSE \notin settings

(* Files are dropped only where the file handler is alive.                   *)
LoopAhead == {"rec", "stream", "controller", "cstart", "screen", "touches_wait", "loop"}

AliveInv ==
  /\ opt \in Options
  /\ pc \in Early => \A c \in Components : comp[c] = "none"
  /\ pc \in AfterJoin => comp["controller"] # "alive" /\ comp["rec"] # "alive"
  /\ pc \in AfterFiles => comp["fh"] # "alive"
  /\ pc \in AfterDisplay => comp["vb"] # "alive" /\ comp["fps"] # "alive"
  /\ opt.files /\ pc \in LoopAhead => comp["fh"] = "alive"

Accepted == dropped \ refused
Queued(f) == \E i \in 1..Len(queue) : queue[i] = f

(* An accepted file is queued, or with the thread, or freed; and only the    *)
(* thread's file has a process.                                              *)
FilesInv ==
  /\ queue \in Seq(Files) /\ refused \subseteq dropped /\ dropped \subseteq Files
  /\ \A i, j \in 1..Len(queue) : queue[i] = queue[j] => i = j
  /\ fthread = "adb" <=> req # NONE
  /\ req \in Files \cup {NONE}
  /\ freed \in [Files -> {0, 1}]
  /\ \A f \in Files : /\ Queued(f) => f \in Accepted /\ req # f
                      /\ req = f => f \in Accepted
                      /\ freed[f] = IF f \in Accepted /\ ~Queued(f) /\ req # f THEN 1 ELSE 0
                      /\ adb[f] \in {"running", "exited"} => req = f
  /\ comp["fh"] = "none" => fthread = "none" /\ dropped = {}
  /\ comp["fh"] = "destroyed" => queue = <<>>

(* Closing leaves none of them open.                                       *)
LEMMA ClosedAll ==
  ASSUME NEW S \in SUBSET Sockets, Close(S), sock \in [Sockets -> {"invalid", "open", "shut"}]
  PROVE  /\ sock' \in [Sockets -> {"invalid", "open", "shut"}]
         /\ \A s \in S : sock'[s] # "open"
         /\ \A s \in Sockets \ S : sock'[s] = sock[s]
BY DEF Close

(* Every step keeps SockInv. *)
LEMMA SockStep == ASSUME SockInv, [Next]_vars PROVE SockInv'
<1> USE DEF SockInv, AfterClose, AfterReap, AfterJoin, AfterFiles, AfterDisplay, Early, Sockets
<1>1. CASE Start
  <2>1. CASE ExecuteServer
    BY <2>1, ClosedAll DEF ExecuteServer, ExecuteFailed, Goto
  <2>2. CASE ConnectControl
    BY <2>2 DEF ConnectControl, Goto
  <2>3. CASE DupSerial \/ PushServer \/ EnableTunnel \/ Listen \/ AcceptVideo \/ ConnectVideo
    BY <2>3 DEF Goto, Open, DupSerial, PushServer, EnableTunnel, Listen, AcceptVideo,
         ConnectVideo, ConnectFails
  <2>4. CASE ReadByte
    BY <2>4 DEF ReadByte, Open, ConnectFails
  <2>5. CASE \/ EnableTouches \/ SdlInit \/ ReadInfo \/ InitDisplay \/ InitRecorder \/ StartStream
             \/ InitController \/ StartController \/ InitScreen \/ BeforeLoop
    BY <2>5 DEF Goto, Skip, Initialize, EnableTouches, SdlInit, ReadInfo, InitDisplay,
         InitRecorder, StartStream, AfterStream, InitController, StartController, InitScreen,
         BeforeLoop, serverVars
  <2> QED
    BY <1>1, <2>1, <2>2, <2>3, <2>4, <2>5 DEF Start
<1>2. CASE Ladder
  <2>1. CASE CloseSockets
    <3>1. /\ sock' \in [Sockets -> {"invalid", "open", "shut"}]
          /\ \A s \in Sockets : sock'[s] # "open"
      BY <2>1, ClosedAll DEF CloseSockets
    <3> QED
      BY <2>1, <3>1 DEF CloseSockets, Goto
  <2>2. CASE Ladder /\ ~CloseSockets
    BY <2>2 DEF Ladder, Goto, Skip, StopThreads, StopFiles, NoFiles, StopFilesWaited,
         InterruptFps, NoFps, KillServer, WaitServer, JoinThreads, DestroyFiles,
         DestroyDisplay, DisableTouches, DestroyServer, serverVars
  <2> QED
    BY <1>2, <2>1, <2>2
<1>3. CASE User
  BY <1>3 DEF User, DropFile, SwitchFpsCounter, LeaveLoop, Skip, Goto, serverVars
<1>4. CASE UNCHANGED <<pc, sock>>
  BY <1>4
<1>5. [Next]_vars => Start \/ Ladder \/ User \/ UNCHANGED <<pc, sock>>
  BY DEF Next, MainThread, SwitchedFpsCounter, FileThreadSteps, FileExternal, FpsThreadSteps,
       ServerExits, SettingsExit, ThreadEnds, Returned, serverVars, vars
<1> QED
  BY <1>1, <1>2, <1>3, <1>4, <1>5

(* Every step keeps SerialInv. *)
LEMMA SerialStep == ASSUME SerialInv, [Next]_vars PROVE SerialInv'
<1> USE DEF SerialInv, Early
<1>1. CASE Start
  BY <1>1 DEF Start, Goto, Skip, Initialize, Free, DupSerial, PushServer, EnableTunnel, Listen,
       ExecuteServer, ExecuteFailed, EnableTouches, SdlInit, AcceptVideo, ConnectVideo,
       ConnectFails, ReadByte, ConnectControl, ReadInfo, InitDisplay, InitRecorder, StartStream,
       AfterStream, InitController, StartController, InitScreen, BeforeLoop, serverVars
<1>2. CASE Ladder
  BY <1>2 DEF Ladder, Goto, Skip, Free, StopThreads, StopFiles, NoFiles, StopFilesWaited,
       InterruptFps, NoFps, CloseSockets, KillServer, WaitServer, JoinThreads, DestroyFiles,
       DestroyDisplay, DisableTouches, DestroyServer, serverVars
<1>3. CASE User
  BY <1>3 DEF User, DropFile, SwitchFpsCounter, LeaveLoop, Skip, Goto, serverVars
<1>4. CASE UNCHANGED <<pc, serial>>
  BY <1>4
<1>5. [Next]_vars => Start \/ Ladder \/ User \/ UNCHANGED <<pc, serial>>
  BY DEF Next, MainThread, SwitchedFpsCounter, FileThreadSteps, FileExternal, FpsThreadSteps,
       ServerExits, SettingsExit, ThreadEnds, Returned, serverVars, vars
<1> QED
  BY <1>1, <1>2, <1>3, <1>4, <1>5

(* Every step keeps ServerInv. *)
LEMMA ServerStep == ASSUME ServerInv, [Next]_vars PROVE ServerInv'
<1> USE DEF ServerInv, AfterReap, AfterJoin, AfterFiles, AfterDisplay, Early
<1>1. CASE DupSerial \/ PushServer
  BY <1>1 DEF Goto, DupSerial, PushServer
<1>2. CASE EnableTunnel
  BY <1>2 DEF Goto, EnableTunnel
<1>3. CASE Listen
  BY <1>3 DEF Goto, DisableTunnel, Listen
<1>4. CASE ExecuteServer
  BY <1>4 DEF Goto, DisableTunnel, ExecuteServer, ExecuteFailed
<1>5. CASE ConnectControl
  BY <1>5 DEF Goto, DisableTunnel, ConnectControl
<1>6. CASE Start /\ ~(\/ DupSerial \/ PushServer \/ EnableTunnel \/ Listen
                     \/ ExecuteServer \/ ConnectControl)
  <2>1. /\ pc \notin Early \cup AfterReap /\ pc' \notin Early \cup AfterReap
        /\ UNCHANGED <<tunnel, enabled, process>>
    BY <1>6 DEF Start, Goto, Skip, Initialize, EnableTouches, SdlInit, AcceptVideo, ConnectVideo,
         ConnectFails, ReadByte, ReadInfo, InitDisplay, InitRecorder, StartStream, AfterStream,
         InitController, StartController, InitScreen, BeforeLoop, serverVars
  <2> QED
    BY <2>1
<1>7. CASE Ladder
  BY <1>7 DEF Ladder, Goto, Skip, DisableTunnel, StopThreads, StopFiles, NoFiles, StopFilesWaited,
       InterruptFps, NoFps, CloseSockets, KillServer, WaitServer, JoinThreads, DestroyFiles,
       DestroyDisplay, DisableTouches, DestroyServer, serverVars
<1>8. CASE User
  BY <1>8 DEF User, DropFile, SwitchFpsCounter, LeaveLoop, Skip, Goto, serverVars
<1>9. CASE ServerExits
  BY <1>9 DEF ServerExits
<1>10. CASE UNCHANGED <<pc, tunnel, enabled, process>>
  BY <1>10
<1>11. [Next]_vars => \/ Start \/ Ladder \/ User \/ ServerExits
                      \/ UNCHANGED <<pc, tunnel, enabled, process>>
  BY DEF Next, MainThread, SwitchedFpsCounter, FileThreadSteps, FileExternal, FpsThreadSteps,
       SettingsExit, ThreadEnds, Returned, serverVars, vars
<1> QED
  BY <1>1, <1>2, <1>3, <1>4, <1>5, <1>6, <1>7, <1>8, <1>9, <1>10, <1>11

(* Every step keeps TouchesInv. *)
LEMMA TouchesStep == ASSUME TouchesInv, [Next]_vars PROVE TouchesInv'
<1> USE DEF TouchesInv, Early
<1>1. CASE EnableTouches
  BY <1>1 DEF EnableTouches, Goto, SetShowTouches, showVars
<1>0. CASE Start /\ ~EnableTouches
  <2>1. UNCHANGED <<opt, settings, touches>>
    BY <1>0 DEF Start, Skip, Initialize, DupSerial, PushServer, EnableTunnel, Listen,
         ExecuteServer, SdlInit, AcceptVideo, ConnectVideo, ReadByte, ConnectControl, ReadInfo,
         InitDisplay, InitRecorder, StartStream, InitController, StartController, InitScreen,
         BeforeLoop, showVars
  <2>2. /\ pc # "destroy" /\ pc' # "destroy"
        /\ pc' \in Early \cup {"returned"} => pc \in Early
    BY <1>0 DEF Start, Goto, Skip, Initialize, DupSerial, PushServer, EnableTunnel, Listen,
         ExecuteServer, SdlInit, AcceptVideo, ConnectVideo, ConnectFails, ReadByte,
         ConnectControl, ReadInfo, InitDisplay, InitRecorder, StartStream, AfterStream,
         InitController, StartController, InitScreen, BeforeLoop
  <2> QED
    BY <2>1, <2>2
<1>2. CASE DisableTouches
  <2>1. pc = "touches_off" /\ pc' = "destroy" /\ opt' = opt
    BY <1>2 DEF DisableTouches, Goto
  <2>2. CASE opt.show_touches
    <3>1. /\ settings' = settings \/ settings' = settings \cup {FALSE}
          /\ TRUE \notin settings
          /\ touches' = IF FALSE \in settings' THEN touches ELSE "left"
      BY <1>2, <2>2 DEF DisableTouches, SetShowTouches, WaitShowTouches, WaitBeforeDisable
    <3>2. settings' \subseteq BOOLEAN /\ TRUE \notin settings'
      BY <3>1
    <3> QED
      BY <2>1, <2>2, <3>1, <3>2
  <2>3. CASE ~opt.show_touches
    <3>1. UNCHANGED <<settings, touches>>
      BY <1>2, <2>3 DEF DisableTouches, showVars
    <3> QED
      BY <2>1, <2>3, <3>1
  <2> QED
    BY <2>2, <2>3
<1>3. CASE DestroyServer
  BY <1>3 DEF DestroyServer, Goto, WaitShowTouches, showVars
<1>4. CASE Ladder /\ ~DisableTouches /\ ~DestroyServer
  <2>1. /\ UNCHANGED <<opt, settings, touches>>
        /\ {pc, pc'} \cap (Early \cup {"destroy", "returned"}) = {}
    BY <1>4 DEF Ladder, Goto, Skip, StopThreads, StopFiles, NoFiles, StopFilesWaited, InterruptFps,
         NoFps, CloseSockets, KillServer, WaitServer, JoinThreads, DestroyFiles, DestroyDisplay,
         showVars
  <2> QED
    BY <2>1
<1>5. ASSUME NEW b \in BOOLEAN, SettingsExit(b) PROVE TouchesInv'
  BY <1>5 DEF SettingsExit
<1>6. CASE User
  BY <1>6 DEF User, DropFile, SwitchFpsCounter, LeaveLoop, Skip, Goto, showVars
<1>7. CASE UNCHANGED <<opt, pc, settings, touches>>
  BY <1>7
<1>8. [Next]_vars => \/ Start \/ Ladder \/ User \/ UNCHANGED <<opt, pc, settings, touches>>
                     \/ \E b \in BOOLEAN : SettingsExit(b)
  BY DEF Next, MainThread, SwitchedFpsCounter, FileThreadSteps, FileExternal, FpsThreadSteps,
       ServerExits, ThreadEnds, Returned, showVars, vars
<1> QED
  BY <1>1, <1>2, <1>3, <1>4, <1>5, <1>6, <1>7, <1>8, <1>0

(* Every step keeps AliveInv. *)
LEMMA AliveStep == ASSUME AliveInv, OrderInv, [Next]_vars PROVE AliveInv'
<1> USE DEF AliveInv, LoopAhead, AfterJoin, AfterFiles, AfterDisplay, Early
<1>0. comp \in [Components -> {"none", "alive", "destroyed"}]
  BY DEF OrderInv
<1>1. CASE InitDisplay
  BY <1>0, <1>1 DEF InitDisplay, Initialize, Skip, Goto, runVars, Options, Components
<1>2. CASE InitRecorder \/ InitController
  BY <1>0, <1>2 DEF InitRecorder, InitController, Initialize, Skip, Goto, runVars, Options,
       Components
<1>3. CASE Start /\ ~InitDisplay /\ ~InitRecorder /\ ~InitController
  <2>1. UNCHANGED <<opt, comp>>
    BY <1>3 DEF Start, Skip, DupSerial, PushServer, EnableTunnel, Listen, ExecuteServer,
       EnableTouches, SdlInit, AcceptVideo, ConnectVideo, ReadByte, ConnectControl, ReadInfo,
       StartStream, StartController, InitScreen, BeforeLoop, runVars
  <2>2. /\ pc' \in Early => pc \in Early
        /\ pc' \in AfterJoin => pc \in Early
        /\ pc' \in LoopAhead => pc \in LoopAhead
    BY <1>3 DEF Start, Goto, Skip, DupSerial, PushServer, EnableTunnel, Listen, ExecuteServer,
       EnableTouches, SdlInit, AcceptVideo, ConnectVideo, ConnectFails, ReadByte, ConnectControl,
       ReadInfo, StartStream, AfterStream, StartController, InitScreen, BeforeLoop
  <2> QED
    BY <2>1, <2>2 DEF Components
<1>4. CASE JoinThreads
  BY <1>0, <1>4 DEF JoinThreads, Goto, Destroy, Components
<1>5. CASE DestroyFiles
  BY <1>0, <1>5 DEF DestroyFiles, Goto, Destroy, Components
<1>6. CASE DestroyDisplay
  BY <1>0, <1>6 DEF DestroyDisplay, Goto, Destroy, Components
<1>7. CASE Ladder /\ ~JoinThreads /\ ~DestroyFiles /\ ~DestroyDisplay
  <2>1. UNCHANGED <<opt, comp>>
    BY <1>7 DEF Ladder, Skip, StopThreads, StopFiles, NoFiles, StopFilesWaited, InterruptFps,
         NoFps, CloseSockets, KillServer, WaitServer, DisableTouches, DestroyServer, runVars
  <2>2. pc' \notin Early \cup LoopAhead /\ (pc' \in AfterJoin => pc \in AfterDisplay)
    BY <1>7 DEF Ladder, Goto, Skip, StopThreads, StopFiles, NoFiles, StopFilesWaited, InterruptFps,
         NoFps, CloseSockets, KillServer, WaitServer, DisableTouches, DestroyServer
  <2> QED
    BY <2>1, <2>2
<1>8. CASE User
  BY <1>8 DEF User, DropFile, SwitchFpsCounter, LeaveLoop, InLoop, Skip, Goto, runVars
<1>9. CASE UNCHANGED <<opt, pc, comp>>
  BY <1>9
<1>10. [Next]_vars => Start \/ Ladder \/ User \/ UNCHANGED <<opt, pc, comp>>
  BY DEF Next, MainThread, SwitchedFpsCounter, FileThreadSteps, FileExternal, FpsThreadSteps,
       ServerExits, SettingsExit, ThreadEnds, Returned, runVars, vars
<1> QED
  BY <1>1, <1>2, <1>3, <1>4, <1>5, <1>6, <1>7, <1>8, <1>9, <1>10

(* What a step does to the file handler: one of its operations, or nothing.  *)
LEMMA FilesSteps ==
  ASSUME AliveInv, OrderInv, [Next]_vars
  PROVE  \/ comp["fh"] = "alive" /\ UNCHANGED comp /\ \E f \in Files : FileRequest(f)
         \/ /\ UNCHANGED comp
            /\ \/ FileThread \/ FileWakes \/ FileStop \/ FileStopWaited
               \/ \E f \in Files : AdbExits(f)
         \/ DestroyFiles
         \/ UNCHANGED fileVars /\ comp'["fh"] \in {comp["fh"], "alive"}
<1>0. comp \in [Components -> {"none", "alive", "destroyed"}]
  BY DEF OrderInv
<1>1. CASE InitDisplay \/ InitRecorder \/ InitController
  <2>1. /\ UNCHANGED fileVars
        /\ comp' = comp \/ \E c \in Components : comp' = [comp EXCEPT ![c] = "alive"]
    BY <1>1 DEF InitDisplay, InitRecorder, InitController, Initialize, Skip, Components, runVars
  <2> QED
    BY <1>0, <2>1 DEF Components
<1>2. CASE Start /\ ~(InitDisplay \/ InitRecorder \/ InitController)
  <2>1. UNCHANGED <<fileVars, comp>>
    BY <1>2 DEF Start, Skip, DupSerial, PushServer, EnableTunnel, Listen, ExecuteServer,
         EnableTouches, SdlInit, AcceptVideo, ConnectVideo, ReadByte, ConnectControl, ReadInfo,
         StartStream, StartController, InitScreen, BeforeLoop, runVars
  <2> QED
    BY <2>1
<1>3. CASE StopFiles \/ StopFilesWaited
  BY <1>3 DEF StopFiles, StopFilesWaited, runVars
<1>4. CASE JoinThreads \/ DestroyDisplay
  BY <1>0, <1>4 DEF JoinThreads, DestroyDisplay, Destroy, Components
<1>5. CASE Ladder /\ ~(\/ StopFiles \/ StopFilesWaited \/ JoinThreads \/ DestroyDisplay
                      \/ DestroyFiles)
  <2>1. UNCHANGED <<fileVars, comp>>
    BY <1>5 DEF Ladder, Skip, StopThreads, NoFiles, InterruptFps, NoFps, CloseSockets, KillServer,
         WaitServer, DisableTouches, DestroyServer, runVars
  <2> QED
    BY <2>1
<1>6. CASE DropFile
  <2>1. comp["fh"] = "alive"
    BY <1>6 DEF DropFile, InLoop, AliveInv, LoopAhead
  <2> QED
    BY <1>6, <2>1 DEF DropFile, runVars
<1>7. CASE FileThreadSteps \/ FileExternal
  BY <1>7 DEF FileThreadSteps, FileExternal, runVars
<1>8. CASE \/ SwitchedFpsCounter \/ SwitchFpsCounter \/ LeaveLoop \/ FpsThreadSteps
           \/ ServerExits \/ Returned
  BY <1>8 DEF SwitchedFpsCounter, SwitchFpsCounter, LeaveLoop, Skip, FpsThreadSteps, ServerExits,
       Returned, runVars, vars
<1>9. CASE \/ \E b \in BOOLEAN : SettingsExit(b)
           \/ \E t \in Threads : ThreadEnds(t)
           \/ UNCHANGED vars
  BY <1>9 DEF SettingsExit, ThreadEnds, runVars, vars
<1> QED
  BY <1>1, <1>2, <1>3, <1>4, <1>5, <1>6, <1>7, <1>8, <1>9 DEF Next, MainThread, User, Ladder

(* Every step keeps FilesInv. *)
LEMMA FilesStep ==
  ASSUME FilesInv, AliveInv, OrderInv, AdbType, [Next]_vars
  PROVE  FilesInv'
<1> USE FHAssumption DEF FilesInv, Accepted, Queued
<1>1. ASSUME comp["fh"] = "alive", UNCHANGED comp, NEW f \in Files, FileRequest(f)
      PROVE  FilesInv'
  <2>1. CASE /\ refused' = refused \cup {f} /\ dropped' = dropped \cup {f}
             /\ UNCHANGED <<fthread, queue, req, adb, freed>>
    <3>1. f \notin dropped
      BY <1>1 DEF FileRequest
    <3>2. Accepted' = Accepted /\ refused' \subseteq dropped' /\ dropped' \subseteq Files
      BY <2>1, <3>1
    <3>3. \A g \in Files : Queued(g)' <=> Queued(g)
      BY <2>1
    <3>4. \A g \in Files : g \in Accepted' <=> g \in Accepted
      BY <3>2
    <3> HIDE DEF Accepted, Queued
    <3> QED
      BY <1>1, <2>1, <3>2, <3>3, <3>4
  <2>2. CASE /\ queue' = Append(queue, f) /\ dropped' = dropped \cup {f}
             /\ fthread' = "adb" <=> fthread = "adb"
             /\ UNCHANGED <<refused, req, adb, freed>>
    <3>1. f \notin dropped /\ ~Queued(f)
      BY <1>1 DEF FileRequest
    <3>2. /\ queue' \in Seq(Files)
          /\ Len(queue') = Len(queue) + 1
          /\ \A i \in 1..Len(queue') : queue'[i] = IF i = Len(queue) + 1 THEN f ELSE queue[i]
      BY <2>2
    <3>3. \A i, j \in 1..Len(queue') : queue'[i] = queue'[j] => i = j
      BY <3>1, <3>2
    <3>4. \A g \in Files : Queued(g)' <=> Queued(g) \/ g = f
      BY <3>2
    <3> QED
      BY <1>1, <2>2, <3>1, <3>2, <3>3, <3>4
  <2> QED
    BY <1>1, <2>1, <2>2 DEF FileRequest, WakeFileThread
<1>2. CASE FileTakes /\ UNCHANGED comp
  <2> DEFINE h == Head(queue)
  <2>1. /\ Len(queue) \in Nat \ {0} /\ h = queue[1] /\ h \in Files
        /\ queue' \in Seq(Files)
        /\ Len(queue') = Len(queue) - 1
        /\ \A i \in 1..Len(queue') : queue'[i] = queue[i + 1]
    BY <1>2 DEF FileTakes, MayTake
  <2>2. ASSUME NEW i \in 1..Len(queue'), NEW j \in 1..Len(queue'), queue'[i] = queue'[j]
        PROVE  i = j
    <3>1. i + 1 \in 1..Len(queue) /\ j + 1 \in 1..Len(queue) /\ queue[i + 1] = queue[j + 1]
      BY <2>1, <2>2
    <3>2. i + 1 = j + 1
      BY <3>1
    <3> QED
      BY <2>1, <3>2
  <2>3. \A g \in Files : Queued(g)' <=> Queued(g) /\ g # h
    <3>1. ASSUME NEW i \in 1..Len(queue')
          PROVE  i + 1 \in 1..Len(queue) /\ queue[i + 1] # h /\ queue'[i] = queue[i + 1]
      <4>1. i + 1 \in 1..Len(queue) /\ i + 1 # 1 /\ 1 \in 1..Len(queue)
        BY <2>1
      <4> QED
        BY <2>1, <4>1
    <3>2. ASSUME NEW i \in 2..Len(queue)
          PROVE  i - 1 \in 1..Len(queue') /\ queue'[i - 1] = queue[i]
      <4>1. i - 1 \in 1..Len(queue') /\ (i - 1) + 1 = i
        BY <2>1
      <4> QED
        BY <2>1, <4>1
    <3>3. \A i \in 1..Len(queue) : i = 1 \/ i \in 2..Len(queue)
      BY <2>1
    <3>4. ASSUME NEW g \in Files, Queued(g)' PROVE Queued(g) /\ g # h
      BY <3>1, <3>4
    <3>5. ASSUME NEW g \in Files, Queued(g), g # h PROVE Queued(g)'
      <4>1. PICK i \in 1..Len(queue) : queue[i] = g
        BY <3>5
      <4>2. i # 1
        BY <2>1, <3>5, <4>1
      <4> QED
        BY <3>2, <3>3, <4>1, <4>2
    <3> QED
      BY <3>4, <3>5
  <2>4. Queued(h) /\ req = NONE
    BY <1>2, <2>1 DEF FileTakes
  <2>5. /\ req' = h /\ fthread' = "adb" /\ UNCHANGED <<dropped, refused, freed, comp>>
        /\ \A g \in Files \ {h} : adb'[g] = adb[g]
    BY <1>2, <2>1 DEF FileTakes, AdbType
  <2> QED
    BY <1>2, <2>1, <2>2, <2>3, <2>4, <2>5 DEF FileTakes
<1>3. CASE FileReaps /\ UNCHANGED comp
  <2>1. req \in Files /\ freed[req] = 0
    BY <1>3 DEF FileReaps
  <2>2. /\ req' = NONE /\ fthread' = "loop" /\ UNCHANGED <<queue, dropped, refused, comp>>
        /\ freed' = [freed EXCEPT ![req] = 1]
        /\ adb'[req] \notin {"running", "exited"}
        /\ \A g \in Files \ {req} : adb'[g] = adb[g]
    BY <1>3, <2>1 DEF FileReaps, AdbType
  <2> QED
    BY <1>3, <2>1, <2>2 DEF FileReaps
<1>4. CASE (FileStops \/ FileSleeps \/ FileWakes \/ FileStop) /\ UNCHANGED comp
  BY <1>4 DEF FileStops, FileSleeps, FileWakes, FileStop, WakeFileThread
<1>5. CASE FileStopWaited /\ UNCHANGED comp
  BY <1>5 DEF FileStopWaited, AdbType
<1>6. ASSUME NEW f \in Files, AdbExits(f), UNCHANGED comp PROVE FilesInv'
  BY <1>6 DEF AdbExits, AdbType
<1>7. CASE DestroyFiles
  <2>0. comp \in [Components -> {"none", "alive", "destroyed"}]
    BY DEF OrderInv
  <2>1. CASE comp["fh"] = "alive"
    <3>1. /\ queue' = <<>> /\ UNCHANGED <<fthread, req, adb, dropped, refused>>
          /\ freed' = [f \in Files |-> freed[f] + IF Queued(f) THEN 1 ELSE 0]
          /\ comp'["fh"] = "destroyed"
      BY <1>7, <2>0, <2>1 DEF DestroyFiles, FileDestroy, FreeQueue, Destroy, Components
    <3>2. \A g \in Files : ~Queued(g)'
      BY <3>1
    <3> QED
      BY <3>1, <3>2
  <2>2. CASE comp["fh"] # "alive"
    BY <1>7, <2>0, <2>2 DEF DestroyFiles, Destroy, Components, fileVars
  <2> QED
    BY <2>1, <2>2
<1>8. CASE UNCHANGED fileVars /\ comp'["fh"] \in {comp["fh"], "alive"}
  BY <1>8 DEF fileVars
<1> QED
  BY <1>1, <1>2, <1>3, <1>4, <1>5, <1>6, <1>7, <1>8, FilesSteps DEF FileThread

(* On every path through server_start() and scrcpy(), whatever failed or was *)
(* cut short, all that was opened, started, allocated or accepted has been   *)
(* released by the return, for any number of files and attempts.             *)
THEOREM ReleasedAllHolds == Spec => []ReleasedAll
<1> DEFINE Released == /\ SockInv /\ ServerInv /\ SerialInv /\ TouchesInv
                       /\ AliveInv /\ FilesInv
<1>1. Init => Released
  <2> SUFFICES ASSUME Init PROVE Released
    OBVIOUS
  <2>1. SockInv /\ ServerInv /\ SerialInv
    BY DEF Init, SockInv, ServerInv, SerialInv, Early, AfterClose, AfterReap, AfterJoin,
         AfterFiles, AfterDisplay
  <2>2. TouchesInv /\ AliveInv
    BY DEF Init, TouchesInv, AliveInv, LoopAhead, Early, AfterJoin, AfterFiles, AfterDisplay,
         Components
  <2>3. FilesInv
    BY FHAssumption DEF Init, FileInit, FilesInv, Accepted, Queued, Components
  <2> QED
    BY <2>1, <2>2, <2>3
<1>2. Released /\ OrderInv /\ AdbType /\ [Next]_vars => Released'
  BY SockStep, ServerStep, SerialStep, TouchesStep, AliveStep, FilesStep
<1>3. Released /\ OrderInv /\ AdbType => ReleasedAll
  <2> SUFFICES ASSUME Released, OrderInv, AdbType, pc = "returned" PROVE ReleasedAll!2
    BY DEF ReleasedAll
  <2>0. pc \in AfterDisplay /\ pc \in AfterFiles /\ pc \in AfterJoin
        /\ pc \in AfterReap /\ pc \in AfterClose
    BY DEF AfterDisplay, AfterFiles, AfterJoin, AfterReap, AfterClose
  <2>1. \A s \in Sockets : sock[s] # "open"
    BY <2>0 DEF SockInv
  <2>2. tunnel = "none" /\ process \in {"none", "reaped"} /\ serial # "owned"
    BY <2>0 DEF ServerInv, SerialInv
  <2>3. settings = {} /\ touches # "on"
    BY DEF TouchesInv
  <2>4. \A c \in Components : comp[c] # "alive"
    BY <2>0 DEF AliveInv, Components
  <2>5. \A t \in Threads : thread[t] # "running"
    BY <2>0 DEF OrderInv, NoneRunning
  <2>6. comp["fh"] \in {"none", "destroyed"}
    BY <2>4 DEF OrderInv, Components
  <2>7. /\ req = NONE
        /\ comp["fh"] = "destroyed" => queue = <<>>
        /\ comp["fh"] = "none" => dropped = {}
    BY <2>6, FHAssumption DEF FilesInv, OrderInv, FileJoinable
  <2>8. \A f \in Files : adb[f] \in {"none", "reaped"}
    BY <2>7, FHAssumption DEF FilesInv, AdbType
  <2>9. \A f \in dropped \ refused : freed[f] = 1
    <3> SUFFICES ASSUME NEW f \in dropped \ refused PROVE freed[f] = 1
      OBVIOUS
    <3>1. f \in Files /\ f \in Accepted /\ req # f
      BY <2>7, FHAssumption DEF FilesInv, Accepted
    <3>2. ~Queued(f)
      BY <2>6, <2>7 DEF Queued
    <3> QED
      BY <3>1, <3>2 DEF FilesInv
  <2> QED
    BY <2>1, <2>2, <2>3, <2>4, <2>5, <2>8, <2>9
<1> QED
  BY <1>1, <1>2, <1>3, OrderHolds, AdbTyped, PTL DEF Spec
=============================================================================
