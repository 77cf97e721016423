CONSTANTS
  Width = 3
  Order = 16771981
  Lambda = 14478721
  MinusB1 = 3335
  MinusB2 = 16770745
  G1 = 79129
  G2 = 213507
  Shift = 30
  Operands <- MCOperands
  Loads <- MCLoads
  MaxOps = 3
  W_5 = 10
  S_5 = 2
  C_5 = 5
  MulMag_5 = 2
  Digit_5 = 2
  Store_5 = 12
  Factors_5 = {199, 401, 449, 461, 17041}
  Seeds_5 <- MCSeeds5
  W_10 = 9
  S_10 = 2
  C0_10 = 11
  C1_10 = 1
  Digit_10 = 1
  Store_10 = 11
  Factors_10 = {3, 13, 607, 773}
  Seeds_10 <- MCSeeds10
  MaxMag = 32
  MaxFieldOps = 3
SPECIFICATION Spec
INVARIANTS
  ScalarsExact
  
  ChainsReach
CHECK_DEADLOCK FALSE
