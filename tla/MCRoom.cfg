SPECIFICATION Spec
CONSTANTS
    User = {u1, u2, u3, u4}
    NoOwner = NoOwner
    PlayerLimit = 2
    SpectatorLimit = 2
    SizeT = 16
    FreedMemoryIntact = FALSE
    GameStartedAtBirth = {FALSE}
    Limits = {0, 1, 2}
SYMMETRY UserSymmetry
INVARIANTS
    TypeOK
    CachesMatchMembers
    OwnerIsMember
    PlayersWithinLimit
PROPERTIES
    WaitlistIsFair
    NoPromotionDuringGame
    OwnerSuccession
