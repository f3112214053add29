SPECIFICATION Spec
CONSTANTS
    Word = 128
    Counts = {1}
    Codes <- SomeCodes
    Typed <- SomeNumbers
    Caps = {0}
INVARIANT FrameCountAsTyped
