SPECIFICATION Spec
CONSTANT MaxLine = 6
INVARIANTS ArgumentsFit ArgumentsFaithful IInv
PROPERTIES LineEnds
