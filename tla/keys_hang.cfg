CONSTANTS
  MaxKeys = 1
SPECIFICATION KeySpec
PROPERTIES
  ReceiveReturns
