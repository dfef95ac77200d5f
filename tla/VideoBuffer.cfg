\* Both modes: an expired frame is replaced, or the stream thread waits.
CONSTANTS
  MaxFrames = 5
  MaxInputs = 4
  EventCap = 4
SPECIFICATION FairSpec
INVARIANTS
  OneEventPerFrame
  FrameStable
  EosAfterLastFrame
PROPERTIES
  ImplementsMailbox
  EveryFrameOvertaken
  StreamThreadEnds
