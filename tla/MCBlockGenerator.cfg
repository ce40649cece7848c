CONSTANTS
  ControlLength = 4
  CopyLength = 6
  Codes <- MCCodes
  Options <- MCOptions
  Supported <- MCSupported
  Size = 4
  ValidDests = {1}
  StackLimit = 6
  MaxPiece = 4
  Summarised <- MCSummarised
  Envs <- MCEnvs
SPECIFICATION GeneratorSpec
INVARIANTS SummarySound HypothesesExact NothingLost FullCopiesWhole
PROPERTY TheoremsChain
CHECK_DEADLOCK FALSE
