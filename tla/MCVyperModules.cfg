CONSTANT
  Programs <- MCPrograms
SPECIFICATION Spec
CHECK_DEADLOCK FALSE
INVARIANTS NamesResolve TableIsSurface ReadsDeclared StorageKept
