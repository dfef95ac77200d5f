\* Keyboard, pointers and window, with and without control.
CONSTANTS
  FrameSizes <- MCFrameSizes
  UserSizes <- MCUserSizes
  Requests = {0, 4}
  DISPLAY <- MCDisplay
  MaximizedSize <- MCMaximized
  FullscreenSize <- MCFullscreen
  MaxEvents = 3
  Controls = {TRUE, FALSE}
  MaxHeld = 2
  NONE = NONE
SPECIFICATION Spec
INVARIANTS
  WindowAgrees
  TypedOnce
  KeysReleased
  PointersHeld
