SPECIFICATION ASpec
CONSTANTS
    Nodes = {1, 2, 3}
    Labels = {"p", "q"}
    Bodies <- SmallBodies
INVARIANTS
    TemplateAgrees
    OrderIsSound
    LevelsAreLongestPaths
    PiecesSurviveSplits
    CutIsNoticed
    BatchesSurvive
CHECK_DEADLOCK FALSE
