------------------------------ MODULE Session ------------------------------
(***************************************************************************)
(* A session of the desktop client, from server_start() to the return of   *)
(* scrcpy(): main takes one step after another, each of which may fail and *)
(* jump to the ladder behind "end:", and the threads it started run all    *)
(* the while.  The file handler and the frame counter are the modules of   *)
(* these names; the stream, controller and receiver threads have their own *)
(* (VideoBuffer, Recording, Controller, Receiver) and are here what main   *)
(* sees of them: running until they fail or are told to stop.              *)
(***************************************************************************)
EXTENDS FileHandler, FpsCounter

CONSTANT MaxAttempts   \* the 100 attempts of connect_to_server()

ASSUME SessionAssumption == MaxAttempts \in Nat \ {0}

VARIABLES
  opt,       \* struct scrcpy_options, as far as the order of steps depends on it
  pc,        \* where the main thread is
  serial,    \* server.serial: null before strdup(), owned or freed
  sock,      \* the three sockets of struct server: open, INVALID_SOCKET, or
             \* shut down but not closed since close() failed
  tunnel,    \* the adb tunnel: none, reverse, forward
  forward,   \* server.tunnel_forward
  enabled,   \* server.tunnel_enabled
  attempts,  \* connection attempts so far
  process,   \* server.process: none (PROCESS_NONE), running, exited, reaped
  settings,  \* the running "settings put show_touches" commands
  touches,   \* show_touches of the phone: off, on, or left as it is since
             \* the command that turns it off failed
  comp,      \* struct fps_counter, video_buffer, file_handler, ...
  thread,    \* the threads of the stream and of the controller
  told       \* the threads that were told to stop

serverVars == <<serial, sock, tunnel, forward, enabled, attempts, process>>
showVars == <<settings, touches>>
runVars == <<comp, thread, told>>
vars == <<opt, pc, serverVars, showVars, runVars, fileVars, fpsVars>>

Sockets == {"server", "video", "control"}
Components == {"fps", "vb", "fh", "rec", "controller"}
Threads == {"stream", "controller", "receiver"}

(* cli.c refuses a session without display and without recording.  files is  *)
(* no option: it says whether the user drops files or presses Ctrl+i, which  *)
(* share nothing but the main thread, nor do files and touches.              *)
Options == {o \in [display : BOOLEAN, control : BOOLEAN, record : BOOLEAN,
                   show_touches : BOOLEAN, files : BOOLEAN] :
              (o.display \/ o.record) /\ (o.files => o.display /\ o.control /\ ~o.show_touches)}

Init == /\ opt \in Options /\ pc = "start"
        /\ serial = "null" /\ sock = [s \in Sockets |-> "invalid"]
        /\ tunnel = "none" /\ forward = FALSE /\ enabled = FALSE
        /\ attempts = 0 /\ process = "none" /\ settings = {} /\ touches = "off"
        /\ comp = [c \in Components |-> "none"]
        /\ thread = [t \in Threads |-> "none"] /\ told = {}
        /\ FileInit /\ FpsInit

Goto(from, to) == pc = from /\ pc' = to
Free == serial' = "freed"
(* close_socket() of those that are not INVALID_SOCKET, where close() fails  *)
(* for some.                                                                 *)
Close(S) == \E failed \in SUBSET {s \in S : sock[s] # "invalid"} :
              sock' = [s \in Sockets |-> IF s \notin S THEN sock[s]
                                        ELSE IF s \in failed THEN "shut" ELSE "invalid"]
Open(s) == sock' = [sock EXCEPT ![s] = "open"]
-----------------------------------------------------------------------------
(* server_start().  A failure undoes what was done and returns at once. *)

DupSerial == /\ pc = "start"
             /\ \/ serial' = "owned" /\ pc' = "push"
                \/ pc' = "returned" /\ UNCHANGED serial
             /\ UNCHANGED <<opt, sock, tunnel, forward, enabled, attempts, process,
                            showVars, runVars, fileVars, fpsVars>>

PushServer == /\ \/ Goto("push", "tunnel") /\ UNCHANGED serial
                 \/ Goto("push", "returned") /\ Free
              /\ UNCHANGED <<opt, sock, tunnel, forward, enabled, attempts, process,
                             showVars, runVars, fileVars, fpsVars>>

EnableTunnel == /\ \/ /\ Goto("tunnel", "listen")
                      /\ tunnel' = "reverse" /\ UNCHANGED <<forward, serial>>
                   \/ /\ Goto("tunnel", "execute")
                      /\ tunnel' = "forward" /\ forward' = TRUE /\ UNCHANGED serial
                   \/ /\ Goto("tunnel", "returned")
                      /\ forward' = TRUE /\ Free /\ UNCHANGED tunnel
                /\ UNCHANGED <<opt, sock, enabled, attempts, process,
                               showVars, runVars, fileVars, fpsVars>>

(* disable_tunnel(): what adb makes of it is its own affair. *)
DisableTunnel == tunnel' = "none"

Listen == /\ \/ Goto("listen", "execute") /\ Open("server") /\ UNCHANGED <<serial, tunnel>>
             \/ Goto("listen", "returned") /\ DisableTunnel /\ Free /\ UNCHANGED sock
          /\ UNCHANGED <<opt, forward, enabled, attempts, process,
                         showVars, runVars, fileVars, fpsVars>>

ExecuteFailed == Close({"server"}) /\ DisableTunnel /\ Free

ExecuteServer == /\ \/ /\ Goto("execute", "touches")
                       /\ process' = "running" /\ enabled' = TRUE
                       /\ UNCHANGED <<serial, sock, tunnel>>
                    \/ /\ Goto("execute", "returned")
                       /\ ExecuteFailed
                       /\ UNCHANGED <<process, enabled>>
                 /\ UNCHANGED <<opt, forward, attempts, showVars, runVars, fileVars, fpsVars>>

(* External: app_process ends, when it is killed or by itself. *)
ServerExits == /\ process = "running"
               /\ process' = "exited"
               /\ UNCHANGED <<opt, pc, serial, sock, tunnel, forward, enabled, attempts,
                              showVars, runVars, fileVars, fpsVars>>
-----------------------------------------------------------------------------
(* scrcpy(), up to the event loop. *)

(* set_show_touches_enabled(): adb is started, or cannot be. *)
SetShowTouches(b) == settings' \in {settings, settings \cup {b}}
WaitShowTouches(b) == b \notin settings

EnableTouches == /\ Goto("touches", "sdl")
                 /\ IF opt.show_touches THEN SetShowTouches(TRUE) ELSE UNCHANGED settings
                 /\ UNCHANGED <<opt, touches, serverVars, runVars, fileVars, fpsVars>>

SettingsExit(b) == /\ b \in settings
                   /\ settings' = settings \ {b}
                   /\ touches' \in IF b THEN {"on", touches} ELSE {"off", "left"}
                   /\ UNCHANGED <<opt, pc, serverVars, runVars, fileVars, fpsVars>>

SdlInit == /\ Goto("sdl", "video") \/ Goto("sdl", "end")
           /\ UNCHANGED <<opt, serverVars, showVars, runVars, fileVars, fpsVars>>

(* server_connect_to().  accept() has no timeout: without a device it blocks. *)
AcceptVideo == /\ ~forward
               /\ \/ Goto("video", "control") /\ process = "running" /\ Open("video")
                  \/ Goto("video", "end") /\ UNCHANGED sock
               /\ UNCHANGED <<opt, serial, tunnel, forward, enabled, attempts, process,
                              showVars, runVars, fileVars, fpsVars>>

(* The tunnel is there before the device listens: a connection counts when   *)
(* one byte came through it.                                                 *)
ConnectFails == /\ attempts' = attempts + 1
                /\ pc' = IF attempts' < MaxAttempts THEN "video" ELSE "end"

ConnectVideo == /\ forward /\ pc = "video"
                /\ \/ ConnectFails
                   \/ process = "running" /\ pc' = "byte" /\ UNCHANGED attempts
                /\ UNCHANGED <<opt, serial, sock, tunnel, forward, enabled, process,
                               showVars, runVars, fileVars, fpsVars>>

ReadByte == /\ pc = "byte"
            /\ \/ pc' = "control" /\ Open("video") /\ UNCHANGED attempts
               \/ process = "exited" /\ ConnectFails /\ UNCHANGED sock
            /\ UNCHANGED <<opt, serial, tunnel, forward, enabled, process,
                           showVars, runVars, fileVars, fpsVars>>

ConnectControl ==
  /\ \/ /\ Goto("control", "info")
        /\ forward \/ process = "running"
        /\ \E server \in IF forward THEN {"invalid"} ELSE {"invalid", "shut"} :
             sock' = [sock EXCEPT !["control"] = "open", !["server"] = server]
        /\ DisableTunnel /\ enabled' = FALSE
     \/ Goto("control", "end") /\ UNCHANGED <<sock, tunnel, enabled>>
  /\ UNCHANGED <<opt, serial, forward, attempts, process, showVars, runVars, fileVars, fpsVars>>

(* device_read_info() waits for 68 bytes, or for the end of the connection:   *)
(* a device that sends fewer, or no byte before, leaves main waiting.         *)
ReadInfo == /\ \/ Goto("info", "fps")
               \/ Goto("info", "end") /\ process = "exited"
            /\ UNCHANGED <<opt, serverVars, showVars, runVars, fileVars, fpsVars>>

Initialize(c, from, to) ==
  /\ \/ Goto(from, to) /\ comp' = [comp EXCEPT ![c] = "alive"]
     \/ Goto(from, "end") /\ UNCHANGED comp
  /\ UNCHANGED <<opt, serverVars, showVars, thread, told, fileVars, fpsVars>>

Skip(from, to) ==
  Goto(from, to) /\ UNCHANGED <<opt, serverVars, showVars, runVars, fileVars, fpsVars>>

InitDisplay == \/ opt.display /\ Initialize("fps", "fps", "vb")
               \/ ~opt.display /\ Skip("fps", "rec")
               \/ Initialize("vb", "vb", IF opt.control THEN "fh" ELSE "rec")
               \/ Initialize("fh", "fh", "rec")

InitRecorder == IF opt.record THEN Initialize("rec", "rec", "stream") ELSE Skip("rec", "stream")

AfterStream == IF ~opt.display THEN "touches_wait"
               ELSE IF opt.control THEN "controller" ELSE "screen"

StartStream == /\ \/ /\ Goto("stream", AfterStream)
                     /\ thread' = [thread EXCEPT !["stream"] = "running"]
                  \/ Goto("stream", "end") /\ UNCHANGED thread
               /\ UNCHANGED <<opt, serverVars, showVars, comp, told, fileVars, fpsVars>>

InitController == Initialize("controller", "controller", "cstart")

(* When the receiver cannot be started, controller_start() stops and joins   *)
(* its own thread before it fails.                                           *)
StartController ==
  /\ \/ /\ Goto("cstart", "screen")
        /\ thread' = [thread EXCEPT !["controller"] = "running", !["receiver"] = "running"]
     \/ Goto("cstart", "end") /\ UNCHANGED thread
  /\ UNCHANGED <<opt, serverVars, showVars, comp, told, fileVars, fpsVars>>

InitScreen == Skip("screen", "touches_wait") \/ Skip("screen", "end")

TouchesEnabled == opt.show_touches => WaitShowTouches(TRUE)
BeforeLoop == TouchesEnabled /\ Skip("touches_wait", "loop")
-----------------------------------------------------------------------------
(* The event loop: files are dropped on the window, Ctrl+i is pressed, until *)
(* the user or the end of the stream stops it.                               *)
InLoop == pc = "loop" /\ ~starting

DropFile == /\ InLoop /\ opt.files
            /\ \E f \in Files : FileRequest(f)
            /\ UNCHANGED <<opt, pc, serverVars, showVars, runVars, fpsVars>>

SwitchFpsCounter == /\ InLoop /\ opt.display /\ ~opt.files
                    /\ FpsStart \/ FpsStop
                    /\ UNCHANGED <<opt, pc, serverVars, showVars, runVars, fileVars>>

SwitchedFpsCounter == /\ FpsStarted
                      /\ UNCHANGED <<opt, pc, serverVars, showVars, runVars, fileVars>>

LeaveLoop == InLoop /\ Skip("loop", "end")

(* A thread ends: an error, or the end of the stream. *)
ThreadEnds(t) == /\ thread[t] = "running"
                 /\ thread' = [thread EXCEPT ![t] = "done"]
                 /\ UNCHANGED <<opt, pc, serverVars, showVars, comp, told, fileVars, fpsVars>>

(* What makes it end: the stream may wait for the renderer as well as for    *)
(* the socket, the controller for a message as well as for send(); the       *)
(* receiver only reads.                                                      *)
MustEnd(t) == CASE t = "stream" -> t \in told /\ sock["video"] # "open"
                [] t = "controller" -> t \in told /\ sock["control"] # "open"
                [] t = "receiver" -> sock["control"] # "open"

FileThreadSteps == /\ FileThread
                   /\ UNCHANGED <<opt, pc, serverVars, showVars, runVars, fpsVars>>
FileExternal == /\ FileWakes \/ \E f \in Files : AdbExits(f)
                /\ UNCHANGED <<opt, pc, serverVars, showVars, runVars, fpsVars>>
KilledAdbExits == /\ \E f \in killed : AdbExits(f)
                  /\ UNCHANGED <<opt, pc, serverVars, showVars, runVars, fpsVars>>
FpsThreadSteps == /\ FpsThread \/ FpsSpurious
                  /\ UNCHANGED <<opt, pc, serverVars, showVars, runVars, fileVars>>
FpsThreadRuns == /\ FpsThread
                 /\ UNCHANGED <<opt, pc, serverVars, showVars, runVars, fileVars>>
-----------------------------------------------------------------------------
(* The ladder. *)

StopThreads == /\ Goto("end", "stop_files")
               /\ told' = {t \in {"stream", "controller"} : thread[t] # "none"}
               /\ UNCHANGED <<opt, serverVars, showVars, comp, thread, fileVars, fpsVars>>

StopFiles == /\ pc = "stop_files" /\ comp["fh"] = "alive"
             /\ FileStop
             /\ pc' = IF stopping' THEN "stop_wait" ELSE "interrupt"
             /\ UNCHANGED <<opt, serverVars, showVars, runVars, fpsVars>>

NoFiles == comp["fh"] # "alive" /\ Skip("stop_files", "interrupt")

StopFilesWaited == /\ Goto("stop_wait", "interrupt")
                   /\ FileStopWaited
                   /\ UNCHANGED <<opt, serverVars, showVars, runVars, fpsVars>>

InterruptFps == /\ comp["fps"] = "alive"
                /\ \/ Goto("interrupt", "signal") /\ FpsInterrupt
                   \/ Goto("signal", "close") /\ FpsInterruptSignal
                /\ UNCHANGED <<opt, serverVars, showVars, runVars, fileVars>>

NoFps == comp["fps"] # "alive" /\ Skip("interrupt", "close")

(* server_stop(): the sockets are shut down and closed... *)
CloseSockets == /\ Goto("close", "kill")
                /\ Close(Sockets)
                /\ UNCHANGED <<opt, serial, tunnel, forward, enabled, attempts, process,
                               showVars, runVars, fileVars, fpsVars>>

(* ... and the server is killed, waited for, and the tunnel removed.  A kill *)
(* that fails is only logged: main then waits for a server without sockets.  *)
KillServer == Skip("kill", "wait_server")

WaitServer == /\ Goto("wait_server", "join")
              /\ process = "exited"
              /\ process' = "reaped"
              /\ IF enabled THEN DisableTunnel ELSE UNCHANGED tunnel
              /\ UNCHANGED <<opt, serial, sock, forward, enabled, attempts,
                             showVars, runVars, fileVars, fpsVars>>

Joined_NotReceiver == \A t \in {"stream", "controller"} : thread[t] # "running"
Joined == \A t \in Threads : thread[t] # "running"

Destroy(S) == comp' = [c \in Components |->
                         IF c \in S /\ comp[c] = "alive" THEN "destroyed" ELSE comp[c]]

JoinThreads == /\ Goto("join", "files")
               /\ Joined
               /\ Destroy({"controller", "rec"})
               /\ UNCHANGED <<opt, serverVars, showVars, thread, told, fileVars, fpsVars>>

DestroyFiles == /\ Goto("files", "display")
                /\ IF comp["fh"] = "alive" THEN FileJoinable /\ FileDestroy
                   ELSE UNCHANGED fileVars
                /\ Destroy({"fh"})
                /\ UNCHANGED <<opt, serverVars, showVars, thread, told, fpsVars>>

DestroyDisplay == /\ Goto("display", "touches_off")
                  /\ FpsJoinable
                  /\ Destroy({"vb", "fps"})
                  /\ UNCHANGED <<opt, serverVars, showVars, thread, told, fileVars, fpsVars>>

WaitBeforeDisable_Not == TRUE
WaitBeforeDisable == WaitShowTouches(TRUE)

DisableTouches == /\ Goto("touches_off", "destroy")
                  /\ IF opt.show_touches
                     THEN /\ WaitBeforeDisable /\ SetShowTouches(FALSE)
                          /\ touches' = IF FALSE \in settings' THEN touches ELSE "left"
                     ELSE UNCHANGED showVars
                  /\ UNCHANGED <<opt, serverVars, runVars, fileVars, fpsVars>>

DestroyServer == /\ Goto("destroy", "returned")
                 /\ WaitShowTouches(FALSE)
                 /\ Free
                 /\ UNCHANGED <<opt, sock, tunnel, forward, enabled, attempts, process,
                                showVars, runVars, fileVars, fpsVars>>
-----------------------------------------------------------------------------
Start == \/ DupSerial \/ PushServer \/ EnableTunnel \/ Listen \/ ExecuteServer
         \/ EnableTouches \/ SdlInit \/ AcceptVideo \/ ConnectVideo \/ ReadByte
         \/ ConnectControl \/ ReadInfo \/ InitDisplay \/ InitRecorder \/ StartStream
         \/ InitController \/ StartController \/ InitScreen \/ BeforeLoop

Ladder == \/ StopThreads \/ StopFiles \/ NoFiles \/ StopFilesWaited \/ InterruptFps \/ NoFps
          \/ CloseSockets \/ KillServer \/ WaitServer \/ JoinThreads \/ DestroyFiles
          \/ DestroyDisplay \/ DisableTouches \/ DestroyServer

MainThread == Start \/ SwitchedFpsCounter \/ Ladder

User == DropFile \/ SwitchFpsCounter \/ LeaveLoop

Returned == pc = "returned" /\ UNCHANGED vars

Next == \/ MainThread \/ User \/ FileThreadSteps \/ FileExternal \/ FpsThreadSteps
        \/ ServerExits \/ (\E b \in BOOLEAN : SettingsExit(b))
        \/ (\E t \in Threads : ThreadEnds(t)) \/ Returned

Spec == Init /\ [][Next]_vars

(* Threads are scheduled, and main gets the mutex of the counter, which its  *)
(* thread leaves for up to a second at a time; a process that is killed ends,*)
(* and so does adb when it only changes a setting.  An installation, the     *)
(* user and the device's connections may take for ever.                      *)
FairSpec == /\ Spec /\ WF_vars(MainThread)
            /\ WF_vars(FileThreadSteps) /\ WF_vars(KilledAdbExits)
            /\ WF_vars(FpsThreadRuns) /\ SF_vars(InterruptFps)
            /\ WF_vars(pc = "wait_server" /\ ServerExits)
            /\ \A b \in BOOLEAN : WF_vars(SettingsExit(b))
            /\ \A t \in Threads : WF_vars(MustEnd(t) /\ ThreadEnds(t))
-----------------------------------------------------------------------------
(* On every path through scrcpy() and server_start(), whatever failed, what  *)
(* was opened, started, allocated or accepted has been released by the       *)
(* return: sockets, tunnel, processes, threads, structs, files.  (A socket   *)
(* is shut down and closed, or close() has failed.)  And no command is late: *)
(* the phone does not show touches any more, unless it could not be told     *)
(* (scrcpy.c:477).                                                           *)
ReleasedAll ==
  pc = "returned" =>
    /\ \A s \in Sockets : sock[s] # "open"
    /\ tunnel = "none" /\ process \in {"none", "reaped"} /\ settings = {}
    /\ serial # "owned" /\ touches # "on"
    /\ \A c \in Components : comp[c] # "alive"
    /\ \A t \in Threads : thread[t] # "running"
    /\ \A f \in Files : adb[f] \in {"none", "reaped"}
    /\ \A f \in dropped \ refused : freed[f] = 1

(* No thread is left that uses a struct when it is destroyed (scrcpy.c:456-  *)
(* 474), and server_stop() has a process to kill (the assertion of           *)
(* server.c:331).                                                            *)
Uses(c) == CASE c \in {"vb", "rec"} -> thread["stream"] = "running"
             [] c = "fps" -> thread["stream"] = "running" \/ ~FpsJoinable
             [] c = "controller" -> \E t \in {"controller", "receiver"} : thread[t] = "running"
             [] c = "fh" -> ~FileJoinable
NoUseAfterDestroy == /\ \A c \in Components : comp[c] = "destroyed" => ~Uses(c)
                     /\ pc = "kill" => process # "none"

(* "stop immediately, do not process further events" (file_handler.c:117).   *)
NothingStartedAfterStop ==
  [][stopped => \A f \in Files : adb'[f] = "running" => adb[f] = "running"]_vars

(* Wherever the session fails or is left, scrcpy() returns.                  *)
EndIsReached == pc = "end" ~> pc = "returned"
=============================================================================
