SPECIFICATION DocSpec
CONSTANTS
    stone = stone
    ore = ore
    glass = glass
    None = None
    NCells = 3
    Specs = {stone, ore, glass}
    Generated <- MCGenerated
    Builds <- MCBuilds
    MaxSpecPool = 2
    MaxCommits = 3
CHECK_DEADLOCK FALSE
INVARIANTS
    UneditedStays NamedWithinPool RestartServes
