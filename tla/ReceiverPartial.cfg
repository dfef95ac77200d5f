CONSTANTS
  MaxText = 3
  Texts <- SomeTexts
  MaxMsgs = 3
SPECIFICATION RcvSpec
INVARIANT ReceivedIsProcessed
