\* Every mnemonic at the edges of its operands.
SPECIFICATION Spec
CONSTANTS
    Instrs <- MCInstrs
    RegFiles <- MCRegFiles
    Origins = {65540}
    Offsets <- MCOffsets
INVARIANTS MeansWhatItSays NeverHalts
