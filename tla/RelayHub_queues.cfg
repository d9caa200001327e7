CONSTANTS
    RoomIds = {r1, r2}
    NoRoom = NoRoom
    MaxRooms = 2
    MaxClients = 1
    QueueCap = 1
    MaxConns = 3
    MaxFrames = 2
SPECIFICATION Spec
INVARIANTS
    Isolated
    InOrder
PROPERTIES
    ReleasedIsClosed
CHECK_DEADLOCK FALSE
