CONSTANTS
    p1 = p1
    p2 = p2
    s1 = s1
    s2 = s2
    n1 = n1
    n2 = n2
    ip1 = ip1
    ip2 = ip2
    svcIP = svcIP
    za = za
    zb = zb
    Pods = {p1, p2}
    Services = {s1, s2}
    Nodes = {n1, n2}
    PodIPs = {ip1, ip2}
    ClusterIPs = {svcIP}
    Zones = {za, zb}
    Unknown = Unknown
    Absent = Absent
    NoIP = NoIP
    NoFlow = NoFlow
    Quirks <- AllQuirks
    MaxChanges = 3
    MaxBusyChanges = 2
SPECIFICATION MCSpec
INVARIANTS
    CacheTypeOK
    EntriesWereTrue
    CleanConverges
    CrossingWasPossible
    NameAndZoneAgree
CHECK_DEADLOCK FALSE
