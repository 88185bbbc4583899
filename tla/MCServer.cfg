SPECIFICATION Spec
CONSTANTS
    User = {u1, u2, u3}
    NoOwner = NoOwner
    PlayerLimit = 2
    SpectatorLimit = 1
    SizeT = 8
    FreedMemoryIntact = FALSE
    RoomObject = {k1, k2}
    NoRoom = NoRoom
SYMMETRY Symmetry
INVARIANTS
    RoomsAreSound
    MemberIsMapped
    ListedRoomIsOccupied
    GoneForGood
