CONSTANTS
    RoomIds = {r1}
    NoRoom = NoRoom
    MaxRooms = 1
    MaxClients = 2
    QueueCap = 1
    MaxConns = 3
    MaxFrames = 1
    MaxFaults = 1
    MaxData = 0
SPECIFICATION CarrierSpec
PROPERTY ResumesServing
CHECK_DEADLOCK FALSE
