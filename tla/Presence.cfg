SPECIFICATION FairSpec
CONSTANTS
    p1 = p1
    p2 = p2
    p3 = p3
    here = here
    away = away
    Players = {p1, p2, p3}
    NameOf <- MCNameOf
    Places = {here, away}
    Spawn = here
    MaxPlayers = 2
    OutCapacity = 2
    MaxMoves = 0
    MaxRev = 2
CHECK_DEADLOCK FALSE
INVARIANTS
    SeatsAndNames JoinerMissesNothing RosterAgrees HeardOnce
PROPERTIES
    RostersConverge
