CONSTANTS
  Pages = 1
  Sockets = 3
SPECIFICATION FairSpec
INVARIANTS
  ChannelsRight
  NothingMisdelivered
  LinkedWhenQuiet
  OneDeviceServer
PROPERTY ConnectionIsTried
