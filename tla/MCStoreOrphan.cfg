SPECIFICATION Spec
CONSTANTS
    i1 = i1
    i2 = i2
    i3 = i3
    l1 = l1
    l2 = l2
    n1 = n1
    n2 = n2
    None = None
    Ids = {i1, i2, i3}
    Links = {l1, l2}
    Names = {n1, n2}
    HostOf <- MCHostOf
INVARIANT
    OrphanOverwrittenOnRetry
