------------------------------ MODULE Identity ------------------------------
(***************************************************************************)
(* Who an IP address is: the cache of pkg/adapters/k8s/cache.go, kept by   *)
(* the handlers of informer.go from three independent informers (pods,     *)
(* services, nodes), in a cluster whose pods come, get an address, finish, *)
(* change address, share one, and go.                                      *)
(***************************************************************************)
EXTENDS Integers, Sequences, FiniteSets

CONSTANTS
    Pods, Services, Nodes, \* object names
    PodIPs, ClusterIPs,    \* addresses of pods and of services
    Zones,                 \* zone labels
    Unknown,               \* no zone: a node without the label
    Absent, NoIP,
    Quirks,                \* which of "finish", "move", "share", "retype" and "gap"
                           \* may happen
    MaxChanges             \* bound: changes and disconnections of one behaviour

\* The pod network and the service network are apart, and no address is "".
ASSUME IPsAssumption == PodIPs \cap ClusterIPs = {} /\ NoIP \notin PodIPs \cup ClusterIPs
ASSUME FiniteAssumption ==
    IsFiniteSet(Pods) /\ IsFiniteSet(Services) /\ IsFiniteSet(Nodes)
ASSUME ChangesAssumption == MaxChanges \in Nat

VARIABLES
    pods, podsKnown, podsWatched, podsQueue,
    svcs, svcsKnown, svcsWatched, svcsQueue,
    nodes, nodesKnown, nodesWatched, nodesQueue,
    ipMap, svcMap, nodeMap, \* Cache: PodIP, ClusterIP and node name lookups
    changes,                \* how many changes the cluster has made
    everHeld,               \* ghost: <<ip, pod, node>> that were true at some time
    everServed,             \* ghost: <<ip, service>> that were true at some time
    everZoned,              \* ghost: <<node, zone>> that were true at some time
    tainted                 \* ghost: addresses and nodes a quirk has touched

podVars   == <<pods, podsKnown, podsWatched, podsQueue>>
svcVars   == <<svcs, svcsKnown, svcsWatched, svcsQueue>>
nodeVars  == <<nodes, nodesKnown, nodesWatched, nodesQueue>>
cacheVars == <<ipMap, svcMap, nodeMap>>
ghostVars == <<everHeld, everServed, everZoned, tainted>>
clusterVars == <<podVars, svcVars, nodeVars, cacheVars, changes, ghostVars>>

PodWatch  == INSTANCE Watch WITH Keys <- Pods, api <- pods, known <- podsKnown,
                 watching <- podsWatched, queue <- podsQueue
SvcWatch  == INSTANCE Watch WITH Keys <- Services, api <- svcs, known <- svcsKnown,
                 watching <- svcsWatched, queue <- svcsQueue
NodeWatch == INSTANCE Watch WITH Keys <- Nodes, api <- nodes, known <- nodesKnown,
                 watching <- nodesWatched, queue <- nodesQueue

-----------------------------------------------------------------------------
(* Cache: maps with Set and Delete, each under the lock. *)
Empty == [x \in {} |-> Absent]
Set(m, k, v) == [x \in DOMAIN m \cup {k} |-> IF x = k THEN v ELSE m[x]]
Delete(m, k) == [x \in DOMAIN m \ {k} |-> m[x]]
Lookup(m, k) == IF k \in DOMAIN m THEN m[k] ELSE Absent

-----------------------------------------------------------------------------
(* The cluster. *)
Change == changes < MaxChanges /\ changes' = changes + 1
PodObjects     == [ip : PodIPs \cup {NoIP}, node : Nodes, live : {TRUE}] \cup {Absent}
ServiceObjects == [ip : ClusterIPs \cup {NoIP}] \cup {Absent}
ZoneLabels     == Zones \cup {Unknown, Absent}

Live(p)  == pods[p] # Absent /\ pods[p].live
HasIP(p) == pods[p] # Absent /\ pods[p].ip # NoIP
Held(ip) == {p \in Pods : Live(p) /\ pods[p].ip = ip}

UnchangedButPods == UNCHANGED <<svcVars, nodeVars, cacheVars, everServed, everZoned>>

CreatePod(p, n) ==
    /\ Change
    /\ pods[p] = Absent
    /\ PodWatch!Change(p, [ip |-> NoIP, node |-> n, live |-> TRUE])
    /\ UnchangedButPods /\ UNCHANGED <<everHeld, tainted>>

\* The pod gets an address that no live pod has; with host networking, one
\* that others have too.
AssignIP(p, ip) ==
    /\ Change
    /\ pods[p] # Absent /\ pods[p].ip = NoIP
    /\ Held(ip) # {} => "share" \in Quirks
    /\ PodWatch!Change(p, [pods[p] EXCEPT !.ip = ip])
    /\ everHeld' = everHeld \cup {<<ip, p, pods[p].node>>}
    /\ tainted' = IF Held(ip) = {} THEN tainted ELSE tainted \cup {ip}
    /\ UnchangedButPods

\* The pod completes: it keeps its address in its status, others may get it.
FinishPod(p) ==
    /\ "finish" \in Quirks /\ Change
    /\ pods[p] # Absent /\ pods[p].live /\ pods[p].ip # NoIP
    /\ PodWatch!Change(p, [pods[p] EXCEPT !.live = FALSE])
    /\ tainted' = tainted \cup {pods[p].ip}
    /\ UnchangedButPods /\ UNCHANGED everHeld

\* The pod's sandbox is recreated: same pod, another address.
MovePod(p, ip) ==
    /\ "move" \in Quirks /\ Change
    /\ pods[p] # Absent /\ pods[p].live /\ pods[p].ip \notin {NoIP, ip}
    /\ Held(ip) = {}
    /\ PodWatch!Change(p, [pods[p] EXCEPT !.ip = ip])
    /\ everHeld' = everHeld \cup {<<ip, p, pods[p].node>>}
    /\ tainted' = tainted \cup {pods[p].ip}
    /\ UnchangedButPods

RemovePod(p) ==
    /\ Change
    /\ pods[p] # Absent
    /\ PodWatch!Change(p, Absent)
    /\ tainted' = IF podsWatched # "down" THEN tainted ELSE tainted \cup {pods[p].ip}
    /\ UnchangedButPods /\ UNCHANGED everHeld

\* The pod's status is written again.
TouchPod(p) == /\ Change /\ PodWatch!Touch(p)
               /\ UnchangedButPods /\ UNCHANGED <<everHeld, tainted>>

\* A service appears (headless or external if it has no address) or goes; one
\* without an address is given one, or one that has an address gives it up: an
\* ExternalName service becomes a ClusterIP one, or the other way round.
Serves(s) == svcs[s] # Absent /\ svcs[s].ip # NoIP

ChangeService(s, obj) ==
    /\ Change
    /\ obj # Absent /\ obj.ip # NoIP =>
         /\ ~Serves(s)
         /\ \A t \in Services : Serves(t) => svcs[t].ip # obj.ip
    /\ obj # Absent /\ Serves(s) => "retype" \in Quirks
    /\ SvcWatch!Change(s, obj)
    /\ everServed' = IF obj = Absent \/ obj.ip = NoIP
                     THEN everServed ELSE everServed \cup {<<obj.ip, s>>}
    /\ tainted' = IF Serves(s) /\ (obj # Absent \/ svcsWatched = "down")
                  THEN tainted \cup {svcs[s].ip} ELSE tainted
    /\ UNCHANGED <<podVars, nodeVars, cacheVars, everHeld, everZoned>>

\* A label or port of it is changed.
TouchService(s) == /\ Change /\ SvcWatch!Touch(s)
                   /\ UNCHANGED <<podVars, nodeVars, cacheVars, ghostVars>>

\* A node appears, is relabelled, or goes.
ChangeNode(n, zone) ==
    /\ Change
    /\ NodeWatch!Change(n, zone)
    /\ everZoned' = IF zone = Absent THEN everZoned ELSE everZoned \cup {<<n, zone>>}
    /\ tainted' = IF nodesWatched # "down" \/ zone # Absent
                  THEN tainted ELSE tainted \cup {n}
    /\ UNCHANGED <<podVars, svcVars, cacheVars, everHeld, everServed>>

\* Its kubelet writes its status again.
TouchNode(n) == /\ Change /\ NodeWatch!Touch(n)
                /\ UNCHANGED <<podVars, svcVars, cacheVars, ghostVars>>

\* A watch breaks, and is replaced by a relist.
LosePods  == /\ "gap" \in Quirks /\ Change /\ PodWatch!Disconnect
             /\ UNCHANGED <<svcVars, nodeVars, cacheVars, ghostVars>>
LoseSvcs  == /\ "gap" \in Quirks /\ Change /\ SvcWatch!Disconnect
             /\ UNCHANGED <<podVars, nodeVars, cacheVars, ghostVars>>
LoseNodes == /\ "gap" \in Quirks /\ Change /\ NodeWatch!Disconnect
             /\ UNCHANGED <<podVars, svcVars, cacheVars, ghostVars>>
ListPods  == /\ PodWatch!Relist
             /\ UNCHANGED <<svcVars, nodeVars, cacheVars, changes, ghostVars>>
ListSvcs  == /\ SvcWatch!Relist
             /\ UNCHANGED <<podVars, nodeVars, cacheVars, changes, ghostVars>>
ListNodes == /\ NodeWatch!Relist
             /\ UNCHANGED <<podVars, svcVars, cacheVars, changes, ghostVars>>

-----------------------------------------------------------------------------
(* The handlers of informer.go. *)

\* Mutants: a missing check for "", a handler that reads the informer's store
\* instead of its argument, a DeleteFunc that was forgotten.
HandlePodUnassigned ==
    /\ PodWatch!Deliver
    /\ LET note == Head(podsQueue)
           ip   == note.obj.ip
       IN  ipMap' = CASE note.type = "tombstone" -> ipMap
                      [] note.type = "delete" -> Delete(ipMap, ip)
                      [] OTHER -> Set(ipMap, ip, [pod |-> note.key,
                                                  node |-> note.obj.node])
    /\ UNCHANGED <<svcVars, nodeVars, svcMap, nodeMap, changes, ghostVars>>

HandlePodFromStore ==
    /\ PodWatch!Deliver
    /\ LET note  == Head(podsQueue)
           ip    == note.obj.ip
           store == podsKnown[note.key]
       IN  ipMap' = CASE note.type = "tombstone" \/ ip = NoIP -> ipMap
                      [] note.type = "delete" -> Delete(ipMap, ip)
                      [] OTHER -> IF store = Absent THEN ipMap
                                  ELSE Set(ipMap, store.ip, [pod |-> note.key,
                                                             node |-> store.node])
    /\ UNCHANGED <<svcVars, nodeVars, svcMap, nodeMap, changes, ghostVars>>

HandleServiceAddOnly ==
    /\ SvcWatch!Deliver
    /\ LET note == Head(svcsQueue)
           ip   == note.obj.ip
       IN  svcMap' = CASE note.type # "add" \/ ip = NoIP -> svcMap
                       [] OTHER -> Set(svcMap, ip, note.key)
    /\ UNCHANGED <<podVars, nodeVars, ipMap, nodeMap, changes, ghostVars>>

\* AddFunc and UpdateFunc set the address the pod has now, if any; DeleteFunc
\* deletes the address it last had; a tombstone is not a *corev1.Pod.
HandlePod ==
    /\ PodWatch!Deliver
    /\ LET note == Head(podsQueue)
           ip   == note.obj.ip
       IN  ipMap' = CASE note.type = "tombstone" \/ ip = NoIP -> ipMap
                      [] note.type = "delete" -> Delete(ipMap, ip)
                      [] OTHER -> Set(ipMap, ip, [pod |-> note.key,
                                                  node |-> note.obj.node])
    /\ UNCHANGED <<svcVars, nodeVars, svcMap, nodeMap, changes, ghostVars>>

HandleService ==
    /\ SvcWatch!Deliver
    /\ LET note == Head(svcsQueue)
           ip   == note.obj.ip
       IN  svcMap' = CASE note.type = "tombstone" \/ ip = NoIP -> svcMap
                       [] note.type = "delete" -> Delete(svcMap, ip)
                       [] OTHER -> Set(svcMap, ip, note.key)
    /\ UNCHANGED <<podVars, nodeVars, ipMap, nodeMap, changes, ghostVars>>

HandleNode ==
    /\ NodeWatch!Deliver
    /\ LET note == Head(nodesQueue)
       IN  nodeMap' = CASE note.type = "tombstone" -> nodeMap
                        [] note.type = "delete" -> Delete(nodeMap, note.key)
                        [] OTHER -> Set(nodeMap, note.key, note.obj)
    /\ UNCHANGED <<podVars, svcVars, ipMap, svcMap, changes, ghostVars>>

-----------------------------------------------------------------------------
ClusterInit ==
    /\ pods \in [Pods -> PodObjects]       /\ PodWatch!Init
    /\ \A p, q \in Pods : Live(p) /\ Live(q) /\ p # q =>
                          pods[p].ip # pods[q].ip \/ pods[p].ip = NoIP
    /\ svcs \in [Services -> ServiceObjects] /\ SvcWatch!Init
    /\ \A s, t \in Services : svcs[s] # Absent /\ svcs[t] # Absent /\ s # t =>
                              svcs[s].ip # svcs[t].ip \/ svcs[s].ip = NoIP
    /\ nodes \in [Nodes -> ZoneLabels]     /\ NodeWatch!Init
    /\ ipMap = Empty /\ svcMap = Empty /\ nodeMap = Empty
    /\ changes = 0
    /\ tainted = {}
    /\ everHeld = {<<pods[p].ip, p, pods[p].node>> : p \in {q \in Pods : HasIP(q)}}
    /\ everServed = {<<svcs[s].ip, s>> : s \in {t \in Services : Serves(t)}}
    /\ everZoned = {<<n, nodes[n]>> : n \in {m \in Nodes : nodes[m] # Absent}}

ClusterNext ==
    \/ \E p \in Pods :
         \/ \E n \in Nodes : CreatePod(p, n)
         \/ \E ip \in PodIPs : AssignIP(p, ip) \/ MovePod(p, ip)
         \/ FinishPod(p)
         \/ TouchPod(p)
         \/ RemovePod(p)
    \/ \E s \in Services : TouchService(s) \/ \E obj \in ServiceObjects : ChangeService(s, obj)
    \/ \E n \in Nodes : TouchNode(n) \/ \E zone \in ZoneLabels : ChangeNode(n, zone)
    \/ LosePods \/ LoseSvcs \/ LoseNodes
    \/ ListPods \/ ListSvcs \/ ListNodes
    \/ HandlePod \/ HandleService \/ HandleNode

ClusterSpec == ClusterInit /\ [][ClusterNext]_clusterVars

-----------------------------------------------------------------------------
(* Properties. *)

Entry == [pod : Pods, node : Nodes]

\* Every cache value has its type, and so has every notification.
CacheTypeOK ==
    /\ DOMAIN ipMap \subseteq PodIPs /\ \A ip \in DOMAIN ipMap : ipMap[ip] \in Entry
    /\ DOMAIN svcMap \subseteq ClusterIPs
    /\ \A ip \in DOMAIN svcMap : svcMap[ip] \in Services
    /\ DOMAIN nodeMap \subseteq Nodes
    /\ \A n \in DOMAIN nodeMap : nodeMap[n] \in ZoneLabels \ {Absent}
    /\ podsKnown \in [Pods -> PodObjects \cup [ip : PodIPs, node : Nodes, live : {FALSE}]]
    /\ svcsKnown \in [Services -> ServiceObjects]
    /\ nodesKnown \in [Nodes -> ZoneLabels]
    /\ changes \in 0 .. MaxChanges

\* README "Never guess identity": an entry of the pod, the service or the node
\* map may be late, or left behind, but it is never an invention: whatever the
\* order in which the three informers list, lose their watch and deliver, what
\* it says was true of that address or node at one time (informer.go:45-137).
EntriesWereTrue ==
    /\ \A ip \in DOMAIN ipMap : <<ip, ipMap[ip].pod, ipMap[ip].node>> \in everHeld
    /\ \A ip \in DOMAIN svcMap : <<ip, svcMap[ip]>> \in everServed
    /\ \A n \in DOMAIN nodeMap : <<n, nodeMap[n]>> \in everZoned

Quiet ==
    /\ podsWatched = "up" /\ svcsWatched = "up" /\ nodesWatched = "up"
    /\ podsQueue = <<>> /\ svcsQueue = <<>> /\ nodesQueue = <<>>

\* Once the handlers have seen everything, the cache answers for an address or
\* a node what the API server would, a deleted object and an address that has
\* passed from pod to pod or from service to service included
\* (informer.go:44-141).  It need not for what one of the Quirks has touched,
\* where the code does not converge: the address of a pod that completed, left
\* it or shared it (informer.go:57-66,74), of a service that gave it up, which
\* UpdateFunc passes over (informer.go:93), or of what was deleted in a gap
\* (informer.go:69).
CleanConverges ==
    Quiet =>
      /\ \A ip \in PodIPs \ tainted :
           LET owners == {p \in Pods : HasIP(p) /\ pods[p].ip = ip}
           IN  IF owners = {} THEN ip \notin DOMAIN ipMap
               ELSE \E p \in owners : Lookup(ipMap, ip) = [pod |-> p, node |-> pods[p].node]
      /\ \A ip \in ClusterIPs \ tainted :
           LET owners == {s \in Services : svcs[s] # Absent /\ svcs[s].ip = ip}
           IN  IF owners = {} THEN ip \notin DOMAIN svcMap
               ELSE Lookup(svcMap, ip) \in owners
      /\ \A n \in Nodes \ tainted : Lookup(nodeMap, n) = nodes[n]

\* README "Never guess identity: a flow is only attributed to a Pod, Service,
\* or Zone when the Kubernetes API confirms it".  Violated with "gap" alone: a
\* tombstone is no *corev1.Pod, so DeleteFunc returns (informer.go:69-72).
ConfirmedIdentity ==
    Quiet => \A ip \in DOMAIN ipMap :
               LET p == ipMap[ip].pod IN HasIP(p) /\ pods[p].ip = ip
=============================================================================
