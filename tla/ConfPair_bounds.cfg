\* Every line of up to five characters.
CONSTANT MaxLen = 5
SPECIFICATION Spec
INVARIANT ScansInBounds
