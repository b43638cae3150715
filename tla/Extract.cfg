SPECIFICATION SpecX
CONSTANTS
    x = x
    y = y
    not = not
    xor = xor
    andnot = andnot
    Leaves = {x, y}
    Values = {0, 1}
    UnOps = {not}
    BinOps = {xor, andnot}
    Commutative = {xor}
    UnTable <- MCUnTable
    BinTable <- MCBinTable
    Imports <- MCImports
    MaxENodes = 5
    MaxChanges = 3
    MaxCost = 4
INVARIANTS
    SoundMerges
    RebuiltClosed
    SelectionRight
PROPERTIES
    LoopsEnd
CHECK_DEADLOCK FALSE
