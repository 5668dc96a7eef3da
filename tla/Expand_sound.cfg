SPECIFICATION Spec
CONSTANTS
    MaxHp = 16
    Env <- MCEnv
    Rect <- MCRect
INVARIANTS
    TypeOK
    ImageExact
    ChildrenApart
PROPERTIES
    MergeKeepsPoints
