CONSTANTS
  Names <- MCNames
  Parameters <- MCParameters
  Locals = {"a", "b"}
  Programs <- MCPrograms
  Depth = 3
  Linear <- MCLinear
  Sources <- MCSources
  Statements <- MCStatements
  MaxLength = 2
  Functions <- MCFunctions
  Worlds <- MCWorlds
SPECIFICATION TranslatorSpec
CHECK_DEADLOCK FALSE
INVARIANTS LeastFixedPoint WritebackFaithful CallsDefined DispatchFaithful DraftFaithful
PROPERTY TranslationEnds
