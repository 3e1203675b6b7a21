SPECIFICATION BrutalSpec
CONSTANTS
    Slots = 3
    MinSamples = 3
    InitialWindow = 10
    Bps = 4
    Mtus = {2, 20}
    Rtts = {1, 3}
    LostBytes = {0, 3}
    Horizon = 5
    MaxPerSecond = 2
INVARIANTS RateIsRecent
