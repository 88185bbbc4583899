SPECIFICATION CommandsSpec
CONSTANTS
    User = {u1, u2, u3}
    NoOwner = NoOwner
    PlayerLimit = 2
    SpectatorLimit = 0
    SizeT = 8
    FreedMemoryIntact = FALSE
    RoomObject = {"R1"}
    NoRoom = NoRoom
    Lines <- MCLines
    Alphanumeric <- MCAlphanumeric
    NicknameWords <- MCNicknameWords
    Lowercase <- MCLowercase
    Generated <- MCGenerated
    NoName = NoName
    NoPacket = NoPacket
SYMMETRY Symmetry
INVARIANTS
    MembersHaveNicknames
    SharedNamesAreGenerated
PROPERTIES
    StrangersHaveNoSay
    LinesAreServerSteps
