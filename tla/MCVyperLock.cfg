CONSTANTS
  Functions <- MCFunctions
  Decorators <- MCDecorators
  Fallback = {"default"}
  Pragma = TRUE
  Cancun = FALSE
  MaxDepth = 5
SPECIFICATION Spec
INVARIANTS TypeOK WritersRunAlone NoneAbove LockMeansHeld
