\* --no-control.
CONSTANTS
  FrameSizes <- MCFrameSizes
  UserSizes <- MCUserSizes
  Requests = {0, 7}
  DISPLAY <- MCDisplay
  MaximizedSize <- MCMaximized
  FullscreenSize <- MCFullscreen
  MaxEvents = 3
  Controls = {FALSE}
  MaxHeld = 2
  NONE = NONE
SPECIFICATION Spec
INVARIANT ReadOnly
