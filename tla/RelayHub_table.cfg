CONSTANTS
    RoomIds = {r1, r2}
    NoRoom = NoRoom
    MaxRooms = 1
    MaxClients = 2
    QueueCap = 1
    MaxConns = 4
    MaxFrames = 1
SPECIFICATION Spec
SYMMETRY RoomSymmetry
INVARIANTS
    TypeOK
    TableTight
    EntriesLive
PROPERTIES
    UsedAloneOnlyByDrop
    EvictedOnlyFor
    NeverRoutedAgain
CHECK_DEADLOCK FALSE
