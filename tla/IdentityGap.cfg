CONSTANTS
    p1 = p1
    p2 = p2
    ip1 = ip1
    ip2 = ip2
    Pods = {p1, p2}
    Services = {s1}
    Nodes = {n1}
    PodIPs = {ip1, ip2}
    ClusterIPs = {svcIP}
    Zones = {za}
    Unknown = Unknown
    Absent = Absent
    NoIP = NoIP
    Quirks <- OnlyGap
    MaxChanges = 3
SYMMETRY Symmetry
SPECIFICATION ClusterSpec
INVARIANTS
    ConfirmedIdentity
CHECK_DEADLOCK FALSE
