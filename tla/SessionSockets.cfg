SPECIFICATION SocketsSpec
CONSTANTS
    Users = {"a"}
    Sockets = {"a1", "a2"}
    Owner <- MCOwner
    MaxEvents = 2
    MaxFaults = 1
    NoSocket = NoSocket
CHECK_DEADLOCK FALSE
INVARIANTS
    RegistryRight
PROPERTIES
    InOrder
    NothingAfterRevocation
    RevokedIsRemoved
