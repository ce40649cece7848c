CONSTANTS
  WordSize = 2
  Byte = {0, 1}
  Zero = 0
  MaxLen = 5
SPECIFICATION Spec
INVARIANT TypeOK
PROPERTY CanonicalPreserved
PROPERTY ImplementsByteString
