------------------------------- MODULE Input -------------------------------
(***************************************************************************)
(* input_manager.c and event_converter.c: what main makes of the keyboard, *)
(* the mouse, the touch screen and the shortcuts, with the window they act *)
(* on.  Messages are represented by their effect on the device: the keys   *)
(* and the pointers that are down there.  A behaviour is about one of the  *)
(* three, which share nothing (user).  Meta acts as Alt does, Cmd as Ctrl. *)
(***************************************************************************)
EXTENDS Window, FiniteSets

CONSTANTS Controls,  \* which values of --no-control to look at, negated
          MaxHeld,   \* bound: keys, or fingers, held at a time
          NONE

ASSUME InputAssumption == /\ Controls \subseteq BOOLEAN /\ MaxHeld \in Nat
                          /\ NONE \notin {"q", "h", "1", "Down", "down", "up"}

VARIABLES
  user,         \* what the user uses: keys, pointers or window
  control,      \* ~ --no-control
  prefer_text,  \* --prefer-text
  mods,         \* the modifiers held
  held,         \* the keys held
  dirty,        \* history: keys held while a modifier changed
  device_keys,  \* the keycodes down on the device
  text,         \* the key whose SDL_TEXTINPUT is still to be handled
  reached,      \* how often the last character typed has reached the device
  buttons,      \* the mouse buttons held
  fingers,      \* the fingers on the touch screen of the desktop
  simulated,    \* the mouse event SDL makes of a finger's
  pointers,     \* the pointers down on the device
  sent          \* history: some message was pushed to the controller

keyVars == <<mods, held, dirty, device_keys, text, reached>>
pointerVars == <<buttons, fingers, simulated, pointers>>
optVars == <<user, control, prefer_text>>
vars == <<optVars, keyVars, pointerVars, sent, windowVars>>

(* A letter without and one with a shortcut, a character that is no letter,  *)
(* a key of the first table of convert_keycode(), with a shortcut.           *)
Letters == {"q", "h"}
Printable == Letters \cup {"1"}
Keys == Printable \cup {"Down"}
Keycode == [k \in Letters \cup {"Down"} |->
              CASE k = "q" -> "Q" [] k = "h" -> "H" [] k = "Down" -> "DPAD_DOWN"]
Shortcut == [k \in {"h", "Down"} |-> IF k = "h" THEN "HOME" ELSE "VOLUME_DOWN"]
Mods == {"ctrl", "alt", "shift"}
Buttons == {"left", "right", "middle"}
Fingers == {"finger1", "finger2"}

InputInit == /\ user \in {"keys", "pointers", "window"}
             /\ control \in Controls /\ prefer_text \in BOOLEAN
             /\ prefer_text => user = "keys"
             /\ mods = {} /\ held = {} /\ dirty = {} /\ device_keys = {}
             /\ text = NONE /\ reached = 1
             /\ buttons = {} /\ fingers = {} /\ simulated = NONE /\ pointers = {}
             /\ sent = FALSE

Init == WindowInit /\ InputInit
-----------------------------------------------------------------------------
(* input_manager_process_key(): the codes a key event sends.                 *)
ShortcutCodes(k) == IF control /\ "shift" \notin mods /\ k \in DOMAIN Shortcut
                    THEN {Shortcut[k]} ELSE {}

IsConverted_Always(k) == k \in DOMAIN Keycode
IsConverted(k) == k \in DOMAIN Keycode /\ (k \in Letters => ~prefer_text)

InputCodes(k) == IF control /\ IsConverted(k) THEN {Keycode[k]} ELSE {}

Codes(k) == IF "alt" \in mods THEN {}
            ELSE IF "ctrl" \in mods THEN ShortcutCodes(k)
            ELSE InputCodes(k)

(* SDL adds a text event for a character, unless a modifier made it a command. *)
Types(k) == k \in Printable /\ mods \subseteq {"shift"}

(* Repeated presses are sent, but for shortcuts other than the volume's.     *)
DownCodes(k) == IF "ctrl" \in mods /\ k \in held /\ k # "Down" THEN {} ELSE Codes(k)

KeyDown(k) ==
  /\ user = "keys" /\ text = NONE
  /\ k \in held \/ Cardinality(held) < MaxHeld
  /\ held' = held \cup {k}
  /\ device_keys' = device_keys \cup DownCodes(k)
  /\ IF Types(k) THEN text' = k /\ reached' = Cardinality(DownCodes(k))
     ELSE UNCHANGED <<text, reached>>
  /\ sent' = (sent \/ DownCodes(k) # {})
  /\ UNCHANGED <<optVars, mods, dirty, pointerVars, windowVars>>

UpCodes_PressOnly(k) == IF "ctrl" \in mods THEN {} ELSE Codes(k)
UpCodes(k) == Codes(k)

KeyUp(k) == /\ text = NONE
            /\ k \in held
            /\ held' = held \ {k}
            /\ device_keys' = device_keys \ UpCodes(k)
            /\ sent' = (sent \/ UpCodes(k) # {})
            /\ UNCHANGED <<optVars, mods, dirty, text, reached, pointerVars, windowVars>>

(* The modifiers' own events send nothing: the manager captures or ignores them. *)
ModChanges(m) == /\ user = "keys" /\ text = NONE
                 /\ mods' = IF m \in mods THEN mods \ {m} ELSE mods \cup {m}
                 /\ dirty' = dirty \cup held
                 /\ UNCHANGED <<optVars, held, device_keys, text, reached, pointerVars,
                                sent, windowVars>>

(* input_manager_process_text_input(): letters were sent as keys. *)
TextInjected == control /\ (text \in Letters => prefer_text)

TextInput == /\ text # NONE
             /\ reached' = reached + IF TextInjected THEN 1 ELSE 0
             /\ sent' = (sent \/ TextInjected)
             /\ text' = NONE
             /\ UNCHANGED <<optVars, mods, held, dirty, device_keys, pointerVars, windowVars>>
-----------------------------------------------------------------------------
(* input_manager_process_mouse_button(): on a press the right button means   *)
(* BACK, the middle one HOME, and a double click on the border fits the      *)
(* window; what is left is a touch.  Every release is one.                   *)
Duplicate_Never(which) == FALSE
Duplicate(which) == which = "touch"

Press(which, b, border) ==
  IF Duplicate(which) THEN UNCHANGED <<pointers, sent, windowVars>>
  ELSE IF control /\ b # "left" THEN sent' = TRUE /\ UNCHANGED <<pointers, windowVars>>
  ELSE IF b = "left" /\ border
       THEN /\ UNCHANGED <<pointers, sent>>
            /\ IF fullscreen THEN UNCHANGED windowVars ELSE ResizeToFit
  ELSE /\ UNCHANGED windowVars
       /\ IF control THEN pointers' = pointers \cup {"mouse"} /\ sent' = TRUE
          ELSE UNCHANGED <<pointers, sent>>

Release(which) ==
  /\ UNCHANGED windowVars
  /\ IF control /\ ~Duplicate(which) THEN pointers' = pointers \ {"mouse"} /\ sent' = TRUE
     ELSE UNCHANGED <<pointers, sent>>

MouseDown(b) == /\ user = "pointers" /\ simulated = NONE
                /\ b \notin buttons
                /\ buttons' = buttons \cup {b}
                /\ \E border \in BOOLEAN : Press("mouse", b, border)
                /\ UNCHANGED <<optVars, keyVars, fingers, simulated>>

MouseUp(b) == /\ simulated = NONE
              /\ b \in buttons
              /\ buttons' = buttons \ {b}
              /\ Release("mouse")
              /\ UNCHANGED <<optVars, keyVars, fingers, simulated>>

(* Motion with a button held, and the wheel: a MOVE or a SCROLL. *)
MouseMoves == /\ user = "pointers" /\ control
              /\ sent' = TRUE
              /\ UNCHANGED <<optVars, keyVars, pointerVars, windowVars>>

(* input_manager_process_touch(), which handle_event() calls without a look  *)
(* at control; SDL doubles each event with one of the mouse.                 *)
Finger(f) == /\ user = "pointers" /\ simulated = NONE
             /\ \/ /\ f \notin fingers /\ Cardinality(fingers) < MaxHeld
                   /\ fingers' = fingers \cup {f}
                   /\ pointers' = pointers \cup {f}
                   /\ simulated' = "down"
                \/ /\ f \in fingers
                   /\ fingers' = fingers \ {f}
                   /\ pointers' = pointers \ {f}
                   /\ simulated' = "up"
             /\ sent' = TRUE
             /\ UNCHANGED <<optVars, keyVars, buttons, windowVars>>

SimulatedMouse == /\ simulated # NONE
                  /\ simulated' = NONE
                  /\ IF simulated = "down" THEN Press("touch", "left", FALSE)
                     ELSE Release("touch")
                  /\ UNCHANGED <<optVars, keyVars, buttons, fingers>>
-----------------------------------------------------------------------------
(* Ctrl+f, Ctrl+x, Ctrl+g, with or without control. *)
WindowShortcut == /\ user = "window" /\ ~aborted
                  /\ SwitchFullscreen \/ ResizeToFit \/ ResizeToPixelPerfect
                  /\ UNCHANGED <<optVars, keyVars, pointerVars, sent>>

NewFrame == /\ user = "window" /\ ~aborted
            /\ \E fr \in FrameSizes : PrepareForFrame(fr)
            /\ UNCHANGED <<optVars, keyVars, pointerVars, sent>>

UserOrWm == /\ user = "window" /\ ~aborted
            /\ UserResizes \/ UserMaximizes \/ UserRestores
            /\ UNCHANGED <<optVars, keyVars, pointerVars, sent>>

WindowEvent == /\ ~aborted
               /\ HandleWindowEvent
               /\ UNCHANGED <<optVars, keyVars, pointerVars, sent>>

Terminated == aborted /\ UNCHANGED vars

Next == \/ \E k \in Keys : KeyDown(k) \/ KeyUp(k)
        \/ \E m \in Mods : ModChanges(m)
        \/ TextInput
        \/ \E b \in Buttons : MouseDown(b) \/ MouseUp(b)
        \/ MouseMoves \/ SimulatedMouse
        \/ \E f \in Fingers : Finger(f)
        \/ WindowShortcut \/ NewFrame \/ UserOrWm \/ WindowEvent
        \/ Terminated

Spec == Init /\ [][Next]_vars
-----------------------------------------------------------------------------
(* Each character typed reaches the device once, as a key or as text, though *)
(* two handlers decide about it (input_manager.c:227, event_converter.c:97). *)
TypedOnce == control /\ text = NONE => reached = 1

(* A key is down on the device only while it is held, unless a modifier      *)
(* changed under it: what was sent on the press is undone by the release.    *)
CodesOf(k) == {c \in {"Q", "H", "DPAD_DOWN", "HOME", "VOLUME_DOWN"} :
                 \/ k \in DOMAIN Keycode /\ c = Keycode[k]
                 \/ k \in DOMAIN Shortcut /\ c = Shortcut[k]}
KeysReleased == device_keys \subseteq UNION {CodesOf(k) : k \in held \cup dirty}

(* Each pointer down on the device is a finger on the desktop's screen or    *)
(* the mouse with a button held: no touch is left behind, and a finger is    *)
(* not taken for the mouse as well (input_manager.c:445, 520).               *)
PointersHeld == pointers \subseteq fingers \cup (IF buttons = {} THEN {} ELSE {"mouse"})

(* "Disable device control (mirror the device in read-only)" (cli.c:55).     *)
ReadOnly == ~control => ~sent
=============================================================================
