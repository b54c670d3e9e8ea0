SPECIFICATION MCSpec
CONSTANTS
    Lines <- MCLines
    Exceptions <- MCExceptions
    Handlers = {"timer_handler", "syscall_handler"}
    Registrations <- MCRegistrations
    NoHandler = NoHandler
    MaxDepth = 3
    Width = 10
    Hz = 3
    SleepArgs = {1, 4, 9}
INVARIANTS
    NoNestedIrq
    InServiceOnlyInHandler
    ReturnAddressOnTop
    ClocksAgree
PROPERTIES
    RequestsAreTaken
    NeverShort
    SleepEnds
