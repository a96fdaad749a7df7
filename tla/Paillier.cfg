SPECIFICATION Spec
CONSTANTS
  Bits = 6
  Sizes <- TheSizes
  Coefficients <- SomeCoefficients
  Blinding <- SomeBlinding
  Rho <- SomeRho
  Simulated <- SomeSimulated
  HashSize = 29
  MaxVotes = 3
  MaxServers = 6
  MaxShares = 16
CHECK_DEADLOCK FALSE
INVARIANTS
  TypeOK
  SumDecrypts
  HonestProofsAccepted
  NoneDropped
  CoefficientsExact
  SharesExact
