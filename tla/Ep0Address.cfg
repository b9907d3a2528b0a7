SPECIFICATION Ep0Spec
CONSTANTS
  Mps = 2
  BufLen = 5
  OutLens = {1, 4, 5, 6}
  InLens = {3, 6}
  AnswerLens = {0, 4, 5, 6}
  Addresses = {1}
  Abandons = {"out", "in", "none", "address"}
  DropsRepeats = TRUE
  MaxTransfers = 3
  MaxLost = 3
  MaxResets = 1
CHECK_DEADLOCK FALSE
PROPERTY AddressAfterStatus
