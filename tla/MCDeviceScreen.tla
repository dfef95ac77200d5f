--------------------------- MODULE MCDeviceScreen ---------------------------
(* DeviceScreen for TLC: a display whose video is scaled, and one whose     *)
(* crop makes a square video, which looks the same when it turns.           *)
EXTENDS DeviceScreen

D(width, height, cut, max) ==
  [display |-> [w |-> width, h |-> height], crop |-> cut, max_size |-> max]

MCConfigs == {D(60, 120, NoCrop, 48), D(72, 40, RectOf(20, 2, 54, 38), 64)}
=============================================================================
