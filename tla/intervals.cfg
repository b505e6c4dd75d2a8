CONSTANT
  Top = 8
SPECIFICATION IsetSpec
INVARIANTS
  Canonical
  SmallestIsMissing
PROPERTIES
  ImplementsNumberSet
