\* The keys: both shifts, Alt, and the right Ctrl, which is sent after 0xE0;
\* the events are the acknowledge of the reset and prefixes that were read
\* twice.
SPECIFICATION MCSpec
CONSTANTS
    MaxX = 2
    MaxY = 2
    ByteSize = 4
    Window = 8
    Chars = {"a", "b"}
    MainCalls <- MCCalls
    IsrStrings <- MCStrings
    MaxOps = 5
    MaxIrqs = 2
    StackSize = 3
    Keys = {42, 54, 56, 29}
    Extended = {29}
    MaxBytes = 1
INVARIANTS
    CursorOnScreen
    CursorShown
    ScreenShowsText
    NoStuckModifier
PROPERTY ImplementsEventStack
CHECK_DEADLOCK FALSE
