SPECIFICATION Spec
CONSTANTS
  MaxValueDepth = 2
  MaxInt64 = 3
  Micro = 2
  Second = 2
  Day = 2
  ByteBits = 2
  Underscored = {9}
  Keywords = {8}
  MaxModuleDepth = 1
  Setups <- MCSetups
INVARIANTS
  EncodedFaithfully
  AcceptedExactly
  DecodedFaithfully
  DecodedNodeByNode
  ReceivesWhatWasSent
  ImportedResolves
PROPERTY DecoderSpec
CHECK_DEADLOCK FALSE
