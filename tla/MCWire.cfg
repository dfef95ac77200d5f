CONSTANTS
  Payloads <- SomePayloads
  Noises <- SomeNoises
  MaxUp = 2
  MaxDown = 3
  Lengths = {0, 2, 4}
  BufSize = 10
SPECIFICATION FairWireSpec
INVARIANTS
  ForwardsPrefix
  ForwardsAtOnce
  DiesOnlyOfCutHeader
PROPERTY AllHandled
