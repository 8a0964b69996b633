SPECIFICATION MCSpec
SYMMETRY MarkingSymmetry
CONSTANTS
    NoCell = NoCell
    Cells = {c1, c2}
    Fields = {f1}
    Visitors = {v1, v2}
    BlockCells = {1, 2, 3}
    LastVersion = 5
    RetireAt = 2
INVARIANTS NoLiveCellIsFreed RememberedSetIsComplete AssertsHold BlockIsSound
PROPERTIES FullCollectionIsComplete
