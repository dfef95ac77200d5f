\* send() may take a message in parts.
CONSTANTS
  Capacity = 3
  MaxMsgs = 8
  PARTIAL_SEND = TRUE
SPECIFICATION FairSpec
INVARIANTS
  OneOwner
  NoLostWakeup
PROPERTIES
  ImplementsFifo
  EveryMsgTaken
  ShutdownEnds
