SPECIFICATION FairSpec
CONSTANTS
    i1 = i1
    l1 = l1
    n1 = n1
    n2 = n2
    None = None
    Ids = {i1}
    Links = {l1}
    Names = {n1, n2}
    HostOf <- MCHostOf
    Failures = {"Timeout"}
    MaxQueue = 2
INVARIANTS
    EntriesMatchStore
    SelectedIsSaved
    ConnectionIsTunnels
PROPERTIES
    StartsSavedProfile
    DroppedDrains
    ViewConverges
