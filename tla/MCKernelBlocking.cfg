SPECIFICATION KernelFairSpec
CONSTANTS
    Lines = {1}
    Exceptions = {}
    Handlers <- MCHandlers
    Registrations <- MCRegistrations
    NoHandler = NoHandler
    MaxDepth = 2
    Width = 3
    Hz = 2
    SleepArgs = {1}
    StackSize = 2
    Keys = {30}
    Extended = {}
    MaxBytes = 1
    Disks = {"program"}
    EthDevices = {0}
    Syscalls = {3}
PROPERTY BlockingReadReturns
