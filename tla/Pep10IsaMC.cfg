CONSTANT Bits = 5
SPECIFICATION AluSpec
INVARIANTS
    DecodingExact
    AddIsSum
    SubIsDifference
    UnariesExact
