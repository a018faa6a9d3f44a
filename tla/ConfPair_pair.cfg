CONSTANT MaxLen = 6
SPECIFICATION Spec
INVARIANT TypeOK
INVARIANT PairAsDocumented
