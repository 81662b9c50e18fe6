SPECIFICATION Spec
CONSTANTS
    d1 = d1
    d2 = d2
    d3 = d3
    Hashes <- MCHashes
    Limits = {0, 2}
    Buckets = {1, 2}
    Bits = {1, 2, 3, 4}
    Index <- MCIndex
    Bloom <- MCBloom
INVARIANT TypeOK
INVARIANT ChainsWellFormed
INVARIANT NoFalseNegative
INVARIANT CountExact
PROPERTY ImplementsSet
