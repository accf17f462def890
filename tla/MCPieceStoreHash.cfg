SPECIFICATION Spec
CONSTANTS
    NumPieces = 2
    PieceLength = 4
    SubpieceSize = 2
    WordSize = 16
    Units = {0, 1}
    Zero = 0
    Contents <- MCContents
    CanAnswer = TRUE
    Forgeries <- MCForgeries
    Missing = Missing
    Hole = Hole
INVARIANTS
    CorrectPieceVerifies
