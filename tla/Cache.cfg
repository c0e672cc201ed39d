SPECIFICATION Spec
CONSTANTS
    Labels = {0, 1, 2}
    Macs = {1, 2}
    Fields = 5
    Zero <- Nothing
    States <- NothingOrLit
    Tables <- SomeTables
    Handlers = {h1, h2}
    MaxChanges = 1
INVARIANTS
    TypeOK
    ReadBack
    CutIsPrefix
    NumbersAreOwn
SYMMETRY Symmetry
