------------------------------ MODULE Resolver ------------------------------
(***************************************************************************)
(* How ReadEvents of reader.go puts names and zones to the two addresses   *)
(* of an event, while the handlers of Identity change the cache: every     *)
(* lookup takes the cache's lock for itself alone, so between any two of   *)
(* the up to eight lookups of one event the cache may be another.          *)
(***************************************************************************)
EXTENDS Identity

CONSTANT NoFlow

\* resolveName tells its answers apart: "pod:...", "svc:..." or the address; and
\* a lookup tells a missing entry from any that is there.
ASSUME NamesAssumption ==
    /\ Absent \notin Entry
    /\ Pods \cap Services = {}
    /\ (Pods \cup Services) \cap (PodIPs \cup ClusterIPs \cup {Absent}) = {}

VARIABLES
    stage, \* the next lookup: <<what, end>>, "idle" or "resolved"
    flow,  \* the event's addresses
    name,  \* srcName and dstName: a pod, a service, or the address itself
    host,  \* resolveZone's info.Node
    zone,  \* srcZone and dstZone, Unknown for ""
    seen   \* ghost: what the pod map has said of each address since the event was read

readerVars == <<stage, flow, name, host, zone, seen>>
vars == <<clusterVars, readerVars>>

Addresses == PodIPs \cup ClusterIPs
Both == {"src", "dst"}

-----------------------------------------------------------------------------
(* resolveName twice, then resolveZone twice. *)
After(what, end) ==
    CASE what \in {"podName", "serviceName"} /\ end = "src" -> <<"podName", "dst">>
      [] what \in {"podName", "serviceName"} /\ end = "dst" -> <<"podNode", "src">>
      [] what \in {"podNode", "nodeZone"} /\ end = "src"    -> <<"podNode", "dst">>
      [] OTHER                                              -> <<"resolved">>

ZoneOf(label) == IF label = Absent THEN Unknown ELSE label

ReadEvent(src, dst) ==
    /\ stage = <<"idle">>
    /\ PodWatch!HasSynced /\ SvcWatch!HasSynced /\ NodeWatch!HasSynced
    /\ flow' = [src |-> src, dst |-> dst]
    /\ stage' = <<"podName", "src">>
    /\ seen' = [src |-> {Lookup(ipMap, src)}, dst |-> {Lookup(ipMap, dst)}]
    /\ UNCHANGED <<clusterVars, name, host, zone>>

LookupPodName(end) ==
    /\ stage = <<"podName", end>>
    /\ IF flow[end] \in DOMAIN ipMap
       THEN /\ name' = [name EXCEPT ![end] = ipMap[flow[end]].pod]
            /\ stage' = After("podName", end)
       ELSE /\ name' = name
            /\ stage' = <<"serviceName", end>>
    /\ UNCHANGED <<clusterVars, flow, host, zone, seen>>

LookupServiceName(end) ==
    /\ stage = <<"serviceName", end>>
    /\ name' = [name EXCEPT ![end] = IF flow[end] \in DOMAIN svcMap
                                     THEN svcMap[flow[end]] ELSE flow[end]]
    /\ stage' = After("serviceName", end)
    /\ UNCHANGED <<clusterVars, flow, host, zone, seen>>

\* Mutant: both zones looked up at the destination's address.
LookupPodNodeOfDst(end) ==
    /\ stage = <<"podNode", end>>
    /\ IF flow["dst"] \in DOMAIN ipMap
       THEN /\ host' = ipMap[flow["dst"]].node
            /\ stage' = <<"nodeZone", end>>
       ELSE /\ stage' = After("podNode", end)
            /\ UNCHANGED host
    /\ UNCHANGED <<clusterVars, flow, name, zone, seen>>

LookupPodNode(end) ==
    /\ stage = <<"podNode", end>>
    /\ IF flow[end] \in DOMAIN ipMap
       THEN /\ host' = ipMap[flow[end]].node
            /\ stage' = <<"nodeZone", end>>
       ELSE /\ stage' = After("podNode", end)
            /\ UNCHANGED host
    /\ UNCHANGED <<clusterVars, flow, name, zone, seen>>

\* Mutant: the two zones are handed on in the wrong order.
LookupNodeZoneSwapped(end) ==
    /\ stage = <<"nodeZone", end>>
    /\ LET other == IF end = "src" THEN "dst" ELSE "src"
       IN  zone' = [zone EXCEPT ![other] = ZoneOf(Lookup(nodeMap, host))]
    /\ host' = Absent
    /\ stage' = After("nodeZone", end)
    /\ UNCHANGED <<clusterVars, flow, name, seen>>

LookupNodeZone(end) ==
    /\ stage = <<"nodeZone", end>>
    /\ zone' = [zone EXCEPT ![end] = ZoneOf(Lookup(nodeMap, host))]
    /\ host' = Absent
    /\ stage' = After("nodeZone", end)
    /\ UNCHANGED <<clusterVars, flow, name, seen>>

\* RecordTCP or RecordBytes takes the result; the next event starts afresh.
RecordFlow ==
    /\ stage = <<"resolved">>
    /\ stage' = <<"idle">>
    /\ flow' = NoFlow /\ name' = [end \in Both |-> Absent]
    /\ zone' = [end \in Both |-> Unknown] /\ seen' = [end \in Both |-> {}]
    /\ UNCHANGED <<clusterVars, host>>

ResolverInit ==
    /\ ClusterInit
    /\ stage = <<"idle">> /\ flow = NoFlow /\ host = Absent
    /\ name = [end \in Both |-> Absent]
    /\ zone = [end \in Both |-> Unknown] /\ seen = [end \in Both |-> {}]

\* A step of the cluster or of a handler, at any moment of an event.
Cluster ==
    /\ ClusterNext
    /\ seen' = [end \in Both |->
                  IF stage = <<"idle">> THEN {} ELSE seen[end] \cup {Lookup(ipMap', flow[end])}]
    /\ UNCHANGED <<stage, flow, name, host, zone>>

ResolverNext ==
    \/ Cluster
    \/ \E src \in PodIPs, dst \in Addresses : src # dst /\ ReadEvent(src, dst)
    \/ \E end \in Both :
         \/ LookupPodName(end)
         \/ LookupServiceName(end)
         \/ LookupPodNode(end)
         \/ LookupNodeZone(end)
    \/ RecordFlow

ResolverSpec == ResolverInit /\ [][ResolverNext]_vars

-----------------------------------------------------------------------------
\* An event whose two zones are known and differ was between addresses of which
\* each has once had a holder on a node of the very zone it got: a torn series of
\* lookups may mix moments, never invent a crossing of addresses that were
\* always in one zone (reader.go:75-88,125-128).  These are the zones that one
\* event hands to stats.go:70-75; what a flow makes of those of several events
\* is in the table of Stats.
CrossingWasPossible ==
    stage = <<"resolved">> /\ zone["src"] # zone["dst"] /\ Unknown \notin {zone["src"], zone["dst"]} =>
      \A end \in Both :
        /\ zone[end] \in Zones
        /\ \E h \in everHeld : h[1] = flow[end] /\ <<h[3], zone[end]>> \in everZoned

\* A pod's name is that of an entry which the cache had for the address while
\* the event was resolved; a service's is of one that has had the address.  A
\* zone is of such an entry too, and of the very pod that is named, unless a
\* handler changed the address's entry meanwhile, as between the lookup for the
\* name (reader.go:66) and the one for the zone (reader.go:76): then the two may
\* be of two owners, and in no other way.
NameAndZoneAgree ==
    stage = <<"resolved">> =>
      \A end \in Both :
        LET entries == seen[end] \ {Absent}
        IN  /\ name[end] \in Pods => \E e \in entries : e.pod = name[end]
            /\ name[end] \in Services => <<flow[end], name[end]>> \in everServed
            /\ zone[end] # Unknown =>
                 \E e \in entries :
                   /\ <<e.node, zone[end]>> \in everZoned
                   /\ e.pod = name[end] \/ seen[end] # {e}
=============================================================================
