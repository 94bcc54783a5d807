SPECIFICATION SocialSpec
CONSTANTS
  Own = {x}
  NoOne = NoOne
  Contact = {f}
  Enemy = {}
  MaxUnderWay = 2
PROPERTY RemovedIsNeither
CHECK_DEADLOCK FALSE
