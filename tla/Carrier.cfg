CONSTANTS
    RoomIds = {r1}
    NoRoom = NoRoom
    MaxRooms = 1
    MaxClients = 2
    QueueCap = 1
    MaxConns = 3
    MaxFrames = 3
    MaxFaults = 1
    MaxData = 2
SPECIFICATION CarrierSpec
INVARIANTS
    CarrierTypeOK
    CountersUnique
    BothHoldTheKey
PROPERTIES
    ImplementsChannel
CHECK_DEADLOCK FALSE
