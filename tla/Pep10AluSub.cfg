CONSTANT Bits = 5
SPECIFICATION AluSpec
INVARIANT SubOverflow
