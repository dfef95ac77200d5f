------------------------------ MODULE Window -------------------------------
(***************************************************************************)
(* The window of the desktop client, screen.c: its size in the normal, the *)
(* maximized and the fullscreen mode, while the device turns.  SDL and the *)
(* window manager are external: they change the window at once and tell it *)
(* afterwards, by events that main handles one at a time, with frames,     *)
(* shortcuts and further changes between any two of them.                  *)
(***************************************************************************)
EXTENDS Naturals, Sequences, SequencesExt

CONSTANTS FrameSizes,   \* the sizes of the video
          UserSizes,    \* what the user resizes the window to
          Requests,     \* --window-width or --window-height, 0: not given
          DISPLAY,      \* the preferred display bounds
          MaximizedSize, FullscreenSize,
          MaxEvents     \* bound: the user waits when so many events wait for main

Size == [w : Nat, h : Nat]

ASSUME WindowAssumption ==
  /\ FrameSizes \cup UserSizes \cup {DISPLAY, MaximizedSize, FullscreenSize} \subseteq Size
  /\ \A s \in FrameSizes : s.w > 0 /\ s.h > 0
  /\ Requests \subseteq Nat /\ MaxEvents \in Nat

VARIABLES
  frame_size,  \* screen->frame_size
  windowed,    \* screen->windowed_window_size
  backup,      \* screen->windowed_window_size_backup
  fullscreen,  \* screen->fullscreen
  maximized,   \* screen->maximized
  win,         \* SDL: the size of the window
  wm,          \* the window manager: the window is normal or maximized
  normal,      \* ... and the size it has when it is normal
  wevents,     \* the window events main has not handled
  aborted,     \* an assertion has failed and ended the program
  fitted       \* history: the program chose the window's size last, and main
               \* had been told of one change of mode before the next

windowVars == <<frame_size, windowed, backup, fullscreen, maximized,
                win, wm, normal, wevents, aborted, fitted>>

Lower(a, b) == IF a < b THEN a ELSE b

(* get_optimal_size() *)
KeepWidth(w, h, fr) == fr.w * h > fr.h * w

OptimalSize(current, fr) ==
  LET w == Lower(current.w, DISPLAY.w)
      h == Lower(current.h, DISPLAY.h)
  IN IF fr.w = 0 \/ fr.h = 0 THEN current
     ELSE IF KeepWidth(w, h, fr) THEN [w |-> w, h |-> (fr.h * w) \div fr.w]
     ELSE [w |-> (fr.w * h) \div fr.h, h |-> h]

(* get_initial_optimal_size() *)
InitialSize(fr, rw, rh) ==
  IF rw = 0 /\ rh = 0 THEN OptimalSize(fr, fr)
  ELSE [w |-> IF rw = 0 THEN (rh * fr.w) \div fr.h ELSE rw,
        h |-> IF rh = 0 THEN (rw * fr.h) \div fr.w ELSE rh]

NoSize == [w |-> 0, h |-> 0]

WindowInit == /\ frame_size \in FrameSizes
              /\ \E rw, rh \in Requests :
                   /\ windowed = InitialSize(frame_size, rw, rh)
                   /\ fitted = (rw = 0 /\ rh = 0)
              /\ win = windowed /\ normal = windowed
              /\ backup = NoSize
              /\ fullscreen = FALSE /\ maximized = FALSE
              /\ wm = "normal" /\ wevents = <<>>
              /\ aborted = FALSE
-----------------------------------------------------------------------------
(* External: SDL_SetWindowSize(), which the window manager may refuse for a  *)
(* window it holds maximized.  SDL keeps one SIZE_CHANGED.                   *)
SizeChanged(events) == Append(RemoveFirst(events, "SIZE_CHANGED"), "SIZE_CHANGED")

SetSize(s, events) ==
  \/ win' = s /\ normal' = s /\ wevents' = SizeChanged(events)
  \/ wm = "maximized" /\ wevents' = events /\ UNCHANGED <<win, normal>>

NotResized == UNCHANGED <<win, normal, wevents>>

WindowedSize == IF fullscreen \/ maximized THEN windowed ELSE win

(* prepare_for_frame(), when the size of the video has changed; without the  *)
(* renderer's consent nothing changes, and the next frame tries again.       *)
TargetSize(fr) ==
  OptimalSize([w |-> (WindowedSize.w * fr.w) \div frame_size.w,
               h |-> (WindowedSize.h * fr.h) \div frame_size.h], fr)

(* What may wait for main when no MAXIMIZED does.                            *)
NotMaximizing == {<<>>, <<"SIZE_CHANGED">>, <<"RESTORED">>,
                  <<"SIZE_CHANGED", "RESTORED">>, <<"RESTORED", "SIZE_CHANGED">>}

PrepareForFrame(fr) ==
  /\ fr # frame_size
  /\ windowed' = TargetSize(fr)
  /\ IF fullscreen \/ maximized THEN NotResized ELSE SetSize(TargetSize(fr), wevents)
  /\ frame_size' = fr
  /\ fitted' = (wevents \in NotMaximizing)
  /\ UNCHANGED <<backup, fullscreen, maximized, wm, aborted>>

Calm == wevents = <<>>

(* screen_switch_fullscreen(), when SDL consents.  The size is applied after *)
(* the flag is cleared.                                                      *)
SwitchFullscreen ==
  /\ fullscreen' = ~fullscreen
  /\ wevents' = SizeChanged(wevents)
  /\ \/ ~fullscreen /\ win' = FullscreenSize /\ UNCHANGED normal
     \/ fullscreen /\ wm = "maximized" /\ win' = MaximizedSize /\ UNCHANGED normal
     \/ fullscreen /\ wm = "normal" /\ maximized /\ win' = normal /\ UNCHANGED normal
     \/ fullscreen /\ ~maximized /\ win' = windowed /\ normal' = windowed
  /\ fitted' = (fitted /\ (fullscreen \/ Calm))
  /\ UNCHANGED <<frame_size, windowed, backup, maximized, wm, aborted>>

(* SDL_RestoreWindow() of a window that SDL knows to be maximized may take   *)
(* effect at once or after the program has read the size, and its events may *)
(* come in either order with the new size's.  A restored window takes the    *)
(* size that is set.                                                         *)
RestoredAndSized(events) ==
  {Append(SizeChanged(events), "RESTORED"), SizeChanged(Append(events, "RESTORED"))}

Resize(s, fits) ==
  /\ ~fullscreen
  /\ maximized' = FALSE
  /\ IF maximized /\ wm = "maximized"
     THEN /\ wm' = "normal" /\ win' = s /\ normal' = s
          /\ wevents' \in RestoredAndSized(wevents)
     ELSE SetSize(s, wevents) /\ UNCHANGED wm
  /\ fitted' = (fits /\ ~maximized /\ wevents \in {<<>>, <<"SIZE_CHANGED">>})
  /\ UNCHANGED <<frame_size, windowed, backup, fullscreen, aborted>>

ResizeToFit == \E s \in IF maximized THEN {win, normal} ELSE {win} :
                 Resize(OptimalSize(s, frame_size), TRUE)

ResizeToPixelPerfect == Resize(frame_size, FALSE)

(* screen_handle_window_event() *)
HandleSizeChanged == /\ wevents # <<>> /\ Head(wevents) = "SIZE_CHANGED"
                     /\ wevents' = Tail(wevents)
                     /\ IF ~fullscreen /\ ~maximized
                        THEN backup' = windowed /\ windowed' = win
                        ELSE UNCHANGED <<backup, windowed>>
                     /\ UNCHANGED <<frame_size, fullscreen, maximized, win, wm, normal,
                                    aborted, fitted>>

(* The assertions of MAXIMIZED: without a SIZE_CHANGED before it there is no *)
(* size to go back to.                                                       *)
Reverted_Not == windowed
Reverted == backup
HandleMaximized == /\ wevents # <<>> /\ Head(wevents) = "MAXIMIZED"
                   /\ IF backup.w = 0 \/ backup.h = 0
                      THEN aborted' = TRUE /\ UNCHANGED <<windowed, maximized, wevents>>
                      ELSE /\ windowed' = Reverted
                           /\ maximized' = TRUE
                           /\ wevents' = Tail(wevents)
                           /\ UNCHANGED aborted
                   /\ UNCHANGED <<frame_size, backup, fullscreen, win, wm, normal, fitted>>

HandleRestored == /\ wevents # <<>> /\ Head(wevents) = "RESTORED"
                  /\ maximized' = FALSE
                  /\ IF ~fullscreen THEN SetSize(windowed, Tail(wevents))
                     ELSE wevents' = Tail(wevents) /\ UNCHANGED <<win, normal>>
                  /\ UNCHANGED <<frame_size, windowed, backup, fullscreen, wm, aborted, fitted>>

HandleWindowEvent == HandleSizeChanged \/ HandleMaximized \/ HandleRestored
-----------------------------------------------------------------------------
(* External: the user and the window manager, at any time.  SDL tells a new  *)
(* mode and the new size by two events, in either order.                     *)
UserResizes == /\ Len(wevents) < MaxEvents /\ ~fullscreen /\ wm = "normal"
               /\ \E s \in UserSizes : win' = s /\ normal' = s
               /\ wevents' = SizeChanged(wevents)
               /\ fitted' = FALSE
               /\ UNCHANGED <<frame_size, windowed, backup, fullscreen, maximized, wm, aborted>>

UserMaximizes == /\ Len(wevents) < MaxEvents /\ ~fullscreen /\ wm = "normal"
                 /\ wm' = "maximized" /\ win' = MaximizedSize
                 /\ wevents' \in {Append(SizeChanged(wevents), "MAXIMIZED"),
                                  SizeChanged(Append(wevents, "MAXIMIZED"))}
                 /\ fitted' = (fitted /\ Calm /\ wevents' = <<"SIZE_CHANGED", "MAXIMIZED">>)
                 /\ UNCHANGED <<frame_size, windowed, backup, fullscreen, maximized, normal,
                                aborted>>

UserRestores == /\ Len(wevents) < MaxEvents /\ ~fullscreen /\ wm = "maximized"
                /\ wm' = "normal" /\ win' = normal
                /\ wevents' \in RestoredAndSized(wevents)
                /\ fitted' = (fitted /\ Calm)
                /\ UNCHANGED <<frame_size, windowed, backup, fullscreen, maximized, normal,
                               aborted>>
-----------------------------------------------------------------------------
WindowTypeOK ==
  /\ frame_size \in FrameSizes
  /\ {windowed, backup, win, normal} \subseteq Size
  /\ {fullscreen, maximized, aborted, fitted} \subseteq BOOLEAN
  /\ wm \in {"normal", "maximized"}
  /\ wevents \in Seq({"SIZE_CHANGED", "MAXIMIZED", "RESTORED"})

(* A video of size fr fills a window of size s but for less than a pixel.    *)
Fills(fr, s) == LET a == fr.w * s.h  b == fr.h * s.w
                    slack == IF fr.w < fr.h THEN fr.h ELSE fr.w
                IN a < b + slack /\ b < a + slack

(* When main has handled the events, it knows the mode and the size of the   *)
(* window again, whatever came between them and in whatever order they came  *)
(* (screen.c:379-410).  And the video fills a window whose size the program  *)
(* chose, which fits in the display (screen.c:77-81): also when it has been  *)
(* maximized and restored, made fullscreen and back, and turned meanwhile,   *)
(* provided these came one at a time, and SIZE_CHANGED before MAXIMIZED.     *)
WindowAgrees ==
  Calm => /\ maximized <=> wm = "maximized"
          /\ ~fullscreen /\ ~maximized =>
               /\ windowed = win
               /\ fitted => Fills(frame_size, win) /\ win.w <= DISPLAY.w /\ win.h <= DISPLAY.h
=============================================================================
