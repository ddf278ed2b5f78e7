SPECIFICATION Spec
CONSTANTS
    Width = 2
    Height = 2
    History = 4
    Chars = {"a"}
INVARIANTS
    TypeOK
    InHistory
PROPERTY ImplementsTerminal
