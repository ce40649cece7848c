CONSTANTS
  a = a
  b = b
  c = c
  d = d
  Account = {a, b, c, d}
  Location = {"storage", "transient"}
  Data = {0, 1}
  WordMod = 4
  MaxDepth = 2
  MaxNonce = 3
  MaxStatements = 4
  Offers <- MCOffers
  ViewOffers = {0, 1}
  Genesis <- MCGenesis
  Messages <- MCMessages
SPECIFICATION MCSpec
INVARIANT StaticCallMovesNoEther
CHECK_DEADLOCK FALSE
