CONSTANTS
  Codes <- MCCodes
  Selectors <- MCSelectors
  Limit = 14
SPECIFICATION Spec
CHECK_DEADLOCK FALSE
INVARIANT LemmasHold
