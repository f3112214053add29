SPECIFICATION Spec
CONSTANTS
    Word = 128
    Counts = {0, 4, 5, 79, 99, 100, 127}
    Codes <- SomeCodes
    Typed <- SomeNumbers
    Caps <- SomeCaps
INVARIANT VerdictIsExact
PROPERTY WholeOrNothing
