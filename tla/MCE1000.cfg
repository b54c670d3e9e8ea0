SPECIFICATION E1000Spec
CONSTANTS
    E1000_NUM_RX_DESC = 3
    E1000_NUM_TX_DESC = 3
    Timeout = 1
    MaxFrames = 4
    MaxWrites = 4
    MaxLinkChanges = 1
INVARIANTS
    ReceivedInOrder
    NoDescriptorLost
    SentInOrder
PROPERTIES
    ReceivedIsHandled
    WrittenIsSent
CHECK_DEADLOCK FALSE
