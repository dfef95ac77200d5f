CONSTANTS
  Pages = 2
  Sockets = 3
SPECIFICATION Spec
INVARIANT SmallerPortIsControl
