SPECIFICATION Spec
CONSTANTS
    User = {u1, u2, u3, u4}
    NoOwner = NoOwner
    PlayerLimit = 3
    SpectatorLimit = 1
    SizeT = 8
    FreedMemoryIntact = FALSE
SYMMETRY UserSymmetry
INVARIANTS
    RoundIsFair
    DisqualifiedOnlyInGame
PROPERTIES
    RoomRefinement
