SPECIFICATION FairSpec
CONSTANTS
    Place = {origin, p1}
    Origin = origin
    None = None
    Torn = Torn
    Foreign = Foreign
    MaxMoves = 0
    MaxFaults = 2
PROPERTY LeftoverPartIsRebuilt
