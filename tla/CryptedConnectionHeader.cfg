SPECIFICATION Spec
CONSTANTS
  HeaderLength = 2
  BodyLengths = {0, 1}
  MaxPackets = 3
  MaxReplies = 2
INVARIANT HeaderDecryptedOnce
CHECK_DEADLOCK FALSE
