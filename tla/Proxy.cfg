SPECIFICATION FairSpec
CONSTANTS
    NumInterfaces = 2
    NumMessages = 3
    Uses <- AllUses
    NoMsg = NoMsg
INVARIANTS Accounted InOrder CommandsAreRegistered
PROPERTIES MessagesAreSettled StopsReturn
CHECK_DEADLOCK FALSE
