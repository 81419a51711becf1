SPECIFICATION ReconcilerSpec
CONSTANT
    Commands = {c1, c2}
INVARIANT
    IndeterminateBlocks
