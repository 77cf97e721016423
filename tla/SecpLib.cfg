SPECIFICATION Spec
CONSTANTS
  P = 211
  CURVE_B = 7
  Gx = 3
  Gy = 33
  Beta = 196
  N = 199
  Bits = 8
  Lambda = 92
  MinusB1 = 13
  MinusB2 = 197
  G1 = 21
  G2 = 134
  Shift = 11
  WINDOW_A = 3
  WINDOW_G = 4
  Teeth = 2
  NumsX = 10
  Starts <- MCStarts
  Logs <- MCLogs
  Factors <- MCFactors
  MaxSteps = 2
  Seckeys = {0, 57, 210}
  Tweaks = {0, 1, 142, 205}
  Msgs = {178, 230}
  NonceSeqs <- MCNonceSeqs
  Compacts <- MCCompacts
  PubkeyBytes <- MCPubkeyBytes
  Scales = {100}
  Blinds = {77}
  MaxCalls = 3
  ScalarBytes = 2
  Order = 65000
  SizeT = 3
  Middle <- MCMiddle
  Encodings <- MCEncodings
  ExportedKeys = {1, 64999}
  EditBytes = {0, 1, 127, 129, 255}
  MaxEdits = 2
  Block = 8
  Digest = 4
  WordBits = 6
  WordBytes = 1
  transform <- MCTransform
  s0 <- MCs0
  out32 <- MCout32
  HmacKeys <- MCHmacKeys
  Writes = {0, 1, 5, 6, 8, 17}
  NonceArgs <- MCNonceArgs
  Draws = {3, 4, 9}
  MaxWritten = 18
  MaxDrawn = 2
  Messages <- MCMessages
  Digests <- MCDigests
INVARIANTS
  PointsExact
  ContextsExact
  KeysHold
  
  VerifyIsEcdsa
  
  DerExact
  HashesExact
  DigestExact
PROPERTIES
  FailureErases
CHECK_DEADLOCK FALSE
