CONSTANTS
    Modes <- SmallModes
    Piece <- SmallPieces
    StartWord <- SmallStart
    EndWord <- SmallEnd
    Spaces <- SmallSpaces
    Call <- SmallCall
    Budget = 4
SPECIFICATION Spec
INVARIANTS
    Delivered
    ReasoningSeparated
    CallsReported
    MarkersHidden
CHECK_DEADLOCK FALSE
