SPECIFICATION Spec
CONSTANTS
    p1 = p1
    p2 = p2
    p3 = p3
    here = here
    away = away
    Players = {p1, p2, p3}
    NameOf <- MCNameOf
    Places = {here, away}
    Spawn = here
    MaxPlayers = 2
    OutCapacity = 3
    MaxMoves = 2
    MaxRev = 0
CHECK_DEADLOCK FALSE
INVARIANTS
    InterestMutual NoGhosts
