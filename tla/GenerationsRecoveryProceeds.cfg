SPECIFICATION Spec
CONSTANT MaxGenerations = 2
INVARIANT RecoveryProceeds
