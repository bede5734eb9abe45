--------------------------- MODULE IdentityProofs ---------------------------
(***************************************************************************)
(* Theorems of Identity and of Resolver, which reads its cache: whatever   *)
(* the order in which three informers list, watch, lose their watch and    *)
(* deliver, every entry of the cache was true once, and so is everything   *)
(* that ReadEvents puts to an address with lookups that others interleave; *)
(* and when all is handled, the cache is what the API server would answer. *)
(***************************************************************************)
EXTENDS Resolver, FiniteSetTheorems, TLAPS

-----------------------------------------------------------------------------
(* One watch, whatever it watches.  Its steps are those of Watch, with the  *)
(* variables of an instance as parameters: api, known, watching, queue and  *)
(* what they become.                                                        *)

NoteTypes == {"add", "update", "delete", "tombstone"}
NoteOf(k, old, new) == PodWatch!Note(k, old, new)

\* facts: pairs of a key and a state that its object has had.
Told(facts, k, obj) == obj = Absent \/ <<k, obj>> \in facts
Values(facts) == {Absent} \cup {f[2] : f \in facts}
Notes(facts) == {[type |-> t, key |-> f[1], obj |-> f[2]] : t \in NoteTypes, f \in facts}

\* The informer has heard, and tells, nothing but facts.
WatchOK(Keys, facts, api, known, watching, queue) ==
    /\ api \in [Keys -> Values(facts)] /\ known \in [Keys -> Values(facts)]
    /\ \A k \in Keys : Told(facts, k, api[k]) /\ Told(facts, k, known[k])
    /\ watching \in {"never", "up", "down"}
    /\ watching = "up" => known = api
    /\ queue \in Seq(Notes(facts))

LEMMA NotesAgree ==
    \A k, old, new : /\ SvcWatch!Note(k, old, new) = NoteOf(k, old, new)
                     /\ NodeWatch!Note(k, old, new) = NoteOf(k, old, new)
BY DEF SvcWatch!Note, NodeWatch!Note, PodWatch!Note, NoteOf

LEMMA NoteOfFact ==
    ASSUME NEW facts, NEW k, NEW obj, <<k, obj>> \in facts, NEW t \in NoteTypes
    PROVE  [type |-> t, key |-> k, obj |-> obj] \in Notes(facts)
<1>1. <<k, obj>>[1] = k /\ <<k, obj>>[2] = obj
  OBVIOUS
<1> QED  BY <1>1 DEF Notes

\* A notification tells a fact: the new state, or the last of what is gone.
LEMMA NoteIsTold ==
    ASSUME NEW facts, NEW k, NEW old, NEW new, Told(facts, k, old), Told(facts, k, new),
           old # new
    PROVE  NoteOf(k, old, new) \in Notes(facts)
<1>1. CASE new = Absent
  <2>1. NoteOf(k, old, new) = [type |-> "delete", key |-> k, obj |-> old]
    BY <1>1 DEF NoteOf, PodWatch!Note
  <2>2. <<k, old>> \in facts
    BY <1>1 DEF Told
  <2> QED  BY <2>1, <2>2 DEF Notes, NoteTypes
<1>2. CASE new # Absent
  <2>1. \E t \in NoteTypes : NoteOf(k, old, new) = [type |-> t, key |-> k, obj |-> new]
    BY <1>2 DEF NoteOf, PodWatch!Note, NoteTypes
  <2>2. <<k, new>> \in facts
    BY <1>2 DEF Told
  <2> QED  BY <2>1, <2>2 DEF Notes
<1> QED  BY <1>1, <1>2

\* A rewritten object: the state is told again, unchanged.
LEMMA TouchIsTold ==
    ASSUME NEW facts, NEW k, NEW obj, Told(facts, k, obj), obj # Absent
    PROVE  NoteOf(k, obj, obj) \in Notes(facts)
<1>1. NoteOf(k, obj, obj) = [type |-> "update", key |-> k, obj |-> obj]
  BY DEF NoteOf, PodWatch!Note
<1>2. <<k, obj>> \in facts
  BY DEF Told
<1> QED  BY <1>1, <1>2 DEF Notes, NoteTypes

LEMMA MoreFacts ==
    ASSUME NEW facts, NEW more, facts \subseteq more
    PROVE  /\ Values(facts) \subseteq Values(more) /\ Notes(facts) \subseteq Notes(more)
           /\ \A k, obj : Told(facts, k, obj) => Told(more, k, obj)
BY DEF Values, Notes, Told

LEMMA SeqOfMore ==
    ASSUME NEW S, NEW T, S \subseteq T, NEW s \in Seq(S)
    PROVE  s \in Seq(T)
OBVIOUS

LEMMA WatchKeepsMore ==
    ASSUME NEW Keys, NEW facts, NEW more, facts \subseteq more,
           NEW api, NEW known, NEW watching, NEW queue,
           WatchOK(Keys, facts, api, known, watching, queue)
    PROVE  WatchOK(Keys, more, api, known, watching, queue)
<1>1. queue \in Seq(Notes(more))
  <2>1. Notes(facts) \subseteq Notes(more)
    BY MoreFacts
  <2> QED  BY <2>1, SeqOfMore DEF WatchOK
<1> QED  BY <1>1, MoreFacts DEF WatchOK

LEMMA ChangeKeeps ==
    ASSUME NEW Keys, NEW facts, NEW api, NEW known, NEW watching, NEW queue,
           WatchOK(Keys, facts, api, known, watching, queue),
           NEW k \in Keys, NEW new, Told(facts, k, new), api[k] # new,
           NEW known2, NEW queue2,
           IF watching = "up"
           THEN /\ known2 = [known EXCEPT ![k] = new]
                /\ queue2 = Append(queue, NoteOf(k, known[k], new))
           ELSE known2 = known /\ queue2 = queue
    PROVE  WatchOK(Keys, facts, [api EXCEPT ![k] = new], known2, watching, queue2)
<1>1. new \in Values(facts)
  <2>1. CASE new = Absent
    BY <2>1 DEF Values
  <2>2. CASE <<k, new>> \in facts
    <3>1. <<k, new>>[2] \in {f[2] : f \in facts}
      BY <2>2
    <3> QED  BY <3>1 DEF Values
  <2> QED  BY <2>1, <2>2 DEF Told
<1>2. CASE watching = "up"
  <2>1. NoteOf(k, known[k], new) \in Notes(facts)
    BY <1>2, NoteIsTold DEF WatchOK
  <2>2. queue2 \in Seq(Notes(facts))
    BY <1>2, <2>1 DEF WatchOK
  <2> QED  BY <1>1, <1>2, <2>2 DEF WatchOK
<1>3. CASE watching # "up"
  BY <1>1, <1>3 DEF WatchOK
<1> QED  BY <1>2, <1>3

LEMMA TouchKeeps ==
    ASSUME NEW Keys, NEW facts, NEW api, NEW known, NEW queue,
           WatchOK(Keys, facts, api, known, "up", queue),
           NEW k \in Keys, api[k] # Absent
    PROVE  WatchOK(Keys, facts, api, known, "up", Append(queue, NoteOf(k, known[k], api[k])))
<1>1. known[k] = api[k] /\ Told(facts, k, api[k])
  BY DEF WatchOK
<1>2. NoteOf(k, known[k], api[k]) \in Notes(facts)
  BY <1>1, TouchIsTold
<1> QED  BY <1>2 DEF WatchOK

\* The notifications of a relist.
Listed(ks, api, known) ==
    [i \in DOMAIN ks |->
       IF api[ks[i]] = Absent
       THEN [type |-> "tombstone", key |-> ks[i], obj |-> known[ks[i]]]
       ELSE NoteOf(ks[i], known[ks[i]], api[ks[i]])]

LEMMA RelistKeeps ==
    ASSUME NEW Keys, NEW facts, NEW api, NEW known, NEW watching, NEW queue,
           WatchOK(Keys, facts, api, known, watching, queue),
           NEW n \in Nat, NEW ks \in [1 .. n -> {k \in Keys : known[k] # api[k]}]
    PROVE  /\ Listed(ks, api, known) \in [1 .. n -> Notes(facts)]
           /\ Listed(ks, api, known) \in Seq(Notes(facts))
           /\ WatchOK(Keys, facts, api, api, "up", queue \o Listed(ks, api, known))
<1>1. ASSUME NEW i \in 1 .. n
      PROVE  Listed(ks, api, known)[i] \in Notes(facts)
  <2>1. ks[i] \in Keys /\ known[ks[i]] # api[ks[i]]
    OBVIOUS
  <2>2. Told(facts, ks[i], known[ks[i]]) /\ Told(facts, ks[i], api[ks[i]])
    BY <2>1 DEF WatchOK
  <2>3. CASE api[ks[i]] = Absent
    <3>1. <<ks[i], known[ks[i]]>> \in facts
      BY <2>1, <2>2, <2>3 DEF Told
    <3>2. Listed(ks, api, known)[i] = [type |-> "tombstone", key |-> ks[i], obj |-> known[ks[i]]]
      BY <2>3 DEF Listed
    <3> QED  BY <3>1, <3>2, NoteOfFact DEF NoteTypes
  <2>4. CASE api[ks[i]] # Absent
    <3>1. Listed(ks, api, known)[i] = NoteOf(ks[i], known[ks[i]], api[ks[i]])
      BY <2>4 DEF Listed
    <3>2. NoteOf(ks[i], known[ks[i]], api[ks[i]]) \in Notes(facts)
      BY <2>1, <2>2, NoteIsTold
    <3> QED  BY <3>1, <3>2
  <2> QED  BY <2>3, <2>4
<1>2. Listed(ks, api, known) \in [1 .. n -> Notes(facts)]
  BY <1>1 DEF Listed
<1>3. Listed(ks, api, known) \in Seq(Notes(facts))
  BY <1>2
<1> QED  BY <1>2, <1>3 DEF WatchOK

-----------------------------------------------------------------------------
(* The three watches and the cache. *)

\* A pod that has completed had an address.
PodStates == [ip : PodIPs \cup {NoIP}, node : Nodes, live : {TRUE}]
               \cup [ip : PodIPs, node : Nodes, live : {FALSE}]
ServiceStates == [ip : ClusterIPs \cup {NoIP}]

PodFacts == {f \in Pods \X PodStates :
               f[2].ip # NoIP => <<f[2].ip, f[1], f[2].node>> \in everHeld}
ServiceFacts == {f \in Services \X ServiceStates :
                   f[2].ip # NoIP => <<f[2].ip, f[1]>> \in everServed}

GhostOK ==
    /\ everHeld \subseteq PodIPs \X Pods \X Nodes
    /\ everServed \subseteq ClusterIPs \X Services
    /\ everZoned \subseteq Nodes \X (ZoneLabels \ {Absent})

CacheOK ==
    /\ DOMAIN ipMap \subseteq PodIPs /\ \A ip \in DOMAIN ipMap : ipMap[ip] \in Entry
    /\ DOMAIN svcMap \subseteq ClusterIPs
    /\ \A ip \in DOMAIN svcMap : svcMap[ip] \in Services
    /\ DOMAIN nodeMap \subseteq Nodes
    /\ \A n \in DOMAIN nodeMap : nodeMap[n] \in ZoneLabels \ {Absent}

PodsOK  == WatchOK(Pods, PodFacts, pods, podsKnown, podsWatched, podsQueue)
SvcsOK  == WatchOK(Services, ServiceFacts, svcs, svcsKnown, svcsWatched, svcsQueue)
NodesOK == WatchOK(Nodes, everZoned, nodes, nodesKnown, nodesWatched, nodesQueue)

ClusterInv ==
    /\ GhostOK /\ CacheOK /\ EntriesWereTrue
    /\ PodsOK /\ SvcsOK /\ NodesOK
    /\ changes \in 0 .. MaxChanges

\* Facts are never taken back.
LEMMA FactsGrow ==
    ASSUME everHeld \subseteq everHeld'
    PROVE  PodFacts \subseteq PodFacts'
BY DEF PodFacts

LEMMA ServiceFactsGrow ==
    ASSUME everServed \subseteq everServed'
    PROVE  ServiceFacts \subseteq ServiceFacts'
BY DEF ServiceFacts

LEMMA PodIs ==
    ASSUME ClusterInv, NEW p \in Pods
    PROVE  /\ pods[p] # Absent => <<p, pods[p]>> \in PodFacts /\ pods[p] \in PodStates
           /\ podsKnown[p] # Absent => podsKnown[p] \in PodStates
BY DEF ClusterInv, PodsOK, WatchOK, Told, PodFacts

LEMMA ServiceIs ==
    ASSUME ClusterInv, NEW s \in Services
    PROVE  /\ svcs[s] # Absent => <<s, svcs[s]>> \in ServiceFacts /\ svcs[s] \in ServiceStates
           /\ svcsKnown[s] # Absent => svcsKnown[s] \in ServiceStates
BY DEF ClusterInv, SvcsOK, WatchOK, Told, ServiceFacts

LEMMA NodeIs ==
    ASSUME ClusterInv, NEW n \in Nodes
    PROVE  nodes[n] \in ZoneLabels /\ nodesKnown[n] \in ZoneLabels
<1>1. Absent \in ZoneLabels
  BY DEF ZoneLabels
<1> QED  BY <1>1 DEF ClusterInv, NodesOK, WatchOK, Told, GhostOK

\* A change to one pod, with whatever it adds to what has been true.
LEMMA PodChangeKeeps ==
    ASSUME ClusterInv, NEW p \in Pods, NEW new, Change,
           PodWatch!Change(p, new), UnchangedButPods,
           everHeld \subseteq everHeld', everHeld' \subseteq PodIPs \X Pods \X Nodes,
           new = Absent \/ <<p, new>> \in PodFacts'
    PROVE  ClusterInv'
<1>1. /\ svcVars' = svcVars /\ nodeVars' = nodeVars /\ cacheVars' = cacheVars
      /\ everServed' = everServed /\ everZoned' = everZoned /\ changes' \in 0 .. MaxChanges
  BY ChangesAssumption DEF UnchangedButPods, Change, ClusterInv
<1>2. GhostOK' /\ CacheOK' /\ EntriesWereTrue'
  BY <1>1 DEF ClusterInv, GhostOK, CacheOK, EntriesWereTrue, cacheVars
<1>3. SvcsOK' /\ NodesOK'
  BY <1>1 DEF ClusterInv, SvcsOK, NodesOK, ServiceFacts, svcVars, nodeVars
<1>4. WatchOK(Pods, PodFacts', pods, podsKnown, podsWatched, podsQueue)
  BY FactsGrow, WatchKeepsMore DEF ClusterInv, PodsOK
<1>5. /\ pods[p] # new /\ pods' = [pods EXCEPT ![p] = new] /\ podsWatched' = podsWatched
      /\ IF podsWatched = "up"
         THEN /\ podsKnown' = [podsKnown EXCEPT ![p] = new]
              /\ podsQueue' = Append(podsQueue, NoteOf(p, podsKnown[p], new))
         ELSE podsKnown' = podsKnown /\ podsQueue' = podsQueue
  BY DEF PodWatch!Change, NoteOf
<1>6. PodsOK'
  <2>1. Told(PodFacts', p, new)
    BY DEF Told
  <2>2. WatchOK(Pods, PodFacts', [pods EXCEPT ![p] = new], podsKnown', podsWatched, podsQueue')
    BY <1>4, <1>5, <2>1, ChangeKeeps
  <2> QED  BY <1>5, <2>2 DEF PodsOK
<1> QED  BY <1>1, <1>2, <1>3, <1>6 DEF ClusterInv

LEMMA PodsKeepInv ==
    ASSUME ClusterInv, NEW p \in Pods,
           \/ \E n \in Nodes : CreatePod(p, n)
           \/ \E ip \in PodIPs : AssignIP(p, ip) \/ MovePod(p, ip)
           \/ FinishPod(p) \/ RemovePod(p)
    PROVE  ClusterInv'
<1>1. everHeld \subseteq PodIPs \X Pods \X Nodes
  BY DEF ClusterInv, GhostOK
<1>2. ASSUME NEW n \in Nodes, CreatePod(p, n)
      PROVE  ClusterInv'
  <2> DEFINE new == [ip |-> NoIP, node |-> n, live |-> TRUE]
  <2>1. everHeld' = everHeld /\ Change /\ PodWatch!Change(p, new) /\ UnchangedButPods
    BY <1>2 DEF CreatePod
  <2>2. new \in PodStates /\ new.ip = NoIP
    BY DEF PodStates
  <2>3. <<p, new>> \in PodFacts'
    BY <2>2 DEF PodFacts
  <2> HIDE DEF new
  <2> QED  BY <1>1, <2>1, <2>3, PodChangeKeeps
<1>3. ASSUME NEW ip \in PodIPs, AssignIP(p, ip) \/ MovePod(p, ip)
      PROVE  ClusterInv'
  <2> DEFINE new == [pods[p] EXCEPT !.ip = ip]
  <2>1. /\ Change /\ PodWatch!Change(p, new) /\ UnchangedButPods /\ pods[p] # Absent
        /\ everHeld' = everHeld \cup {<<ip, p, pods[p].node>>}
    BY <1>3 DEF AssignIP, MovePod
  <2>2. pods[p] \in PodStates
    BY <2>1, PodIs
  <2>3. pods[p].node \in Nodes /\ new \in PodStates /\ new.ip = ip /\ new.node = pods[p].node
    BY <2>2 DEF PodStates
  <2> HIDE DEF new
  <2>4. everHeld \subseteq everHeld' /\ everHeld' \subseteq PodIPs \X Pods \X Nodes
    BY <1>1, <2>1, <2>3
  <2>5. <<p, new>> \in PodFacts'
    BY <2>1, <2>3 DEF PodFacts
  <2> QED  BY <2>1, <2>4, <2>5, PodChangeKeeps
<1>4. CASE FinishPod(p)
  <2> DEFINE new == [pods[p] EXCEPT !.live = FALSE]
  <2>1. /\ Change /\ PodWatch!Change(p, new) /\ UnchangedButPods /\ pods[p] # Absent
        /\ everHeld' = everHeld /\ pods[p].ip # NoIP
    BY <1>4 DEF FinishPod
  <2>2. <<p, pods[p]>> \in PodFacts /\ pods[p] \in PodStates
    BY <2>1, PodIs
  <2>3. new \in PodStates /\ new.ip = pods[p].ip /\ new.node = pods[p].node
    BY <2>1, <2>2 DEF PodStates
  <2>4. <<p, new>> \in PodFacts'
    <3>1. <<pods[p].ip, p, pods[p].node>> \in everHeld
      BY <2>1, <2>2 DEF PodFacts
    <3> HIDE DEF new
    <3> QED  BY <2>1, <2>3, <3>1 DEF PodFacts
  <2> HIDE DEF new
  <2> QED  BY <1>1, <2>1, <2>4, PodChangeKeeps
<1>5. CASE RemovePod(p)
  <2>1. Change /\ PodWatch!Change(p, Absent) /\ UnchangedButPods /\ everHeld' = everHeld
    BY <1>5 DEF RemovePod
  <2> QED  BY <1>1, <2>1, PodChangeKeeps
<1> QED  BY <1>2, <1>3, <1>4, <1>5

\* A status written again.
LEMMA TouchPodKeepsInv ==
    ASSUME ClusterInv, NEW p \in Pods, TouchPod(p)
    PROVE  ClusterInv'
<1>1. /\ svcVars' = svcVars /\ nodeVars' = nodeVars /\ cacheVars' = cacheVars
      /\ everServed' = everServed /\ everZoned' = everZoned /\ everHeld' = everHeld
      /\ changes' \in 0 .. MaxChanges
  BY ChangesAssumption DEF TouchPod, UnchangedButPods, Change, ClusterInv
<1>2. GhostOK' /\ CacheOK' /\ EntriesWereTrue'
  BY <1>1 DEF ClusterInv, GhostOK, CacheOK, EntriesWereTrue, cacheVars
<1>3. SvcsOK' /\ NodesOK'
  BY <1>1 DEF ClusterInv, SvcsOK, NodesOK, ServiceFacts, svcVars, nodeVars
<1>4. /\ podsWatched = "up" /\ pods[p] # Absent
      /\ pods' = pods /\ podsKnown' = podsKnown /\ podsWatched' = podsWatched
      /\ podsQueue' = Append(podsQueue, NoteOf(p, podsKnown[p], pods[p]))
  BY DEF TouchPod, PodWatch!Touch, NoteOf
<1>5. WatchOK(Pods, PodFacts, pods, podsKnown, "up", podsQueue)
  BY <1>4 DEF ClusterInv, PodsOK
<1>6. WatchOK(Pods, PodFacts, pods, podsKnown, "up", podsQueue')
  BY <1>4, <1>5, TouchKeeps
<1>7. PodFacts' = PodFacts
  BY <1>1 DEF PodFacts
<1>8. PodsOK'
  BY <1>4, <1>6, <1>7 DEF PodsOK
<1> QED  BY <1>1, <1>2, <1>3, <1>8 DEF ClusterInv

LEMMA TouchServiceKeepsInv ==
    ASSUME ClusterInv, NEW s \in Services, TouchService(s)
    PROVE  ClusterInv'
<1>1. /\ podVars' = podVars /\ nodeVars' = nodeVars /\ cacheVars' = cacheVars
      /\ ghostVars' = ghostVars /\ changes' \in 0 .. MaxChanges
  BY ChangesAssumption DEF TouchService, Change, ClusterInv
<1>2. GhostOK' /\ CacheOK' /\ EntriesWereTrue'
  BY <1>1 DEF ClusterInv, GhostOK, CacheOK, EntriesWereTrue, cacheVars, ghostVars
<1>3. PodsOK' /\ NodesOK'
  BY <1>1 DEF ClusterInv, PodsOK, NodesOK, PodFacts, podVars, nodeVars, ghostVars
<1>4. /\ svcsWatched = "up" /\ svcs[s] # Absent
      /\ svcs' = svcs /\ svcsKnown' = svcsKnown /\ svcsWatched' = svcsWatched
      /\ svcsQueue' = Append(svcsQueue, NoteOf(s, svcsKnown[s], svcs[s]))
  BY NotesAgree DEF TouchService, SvcWatch!Touch
<1>5. WatchOK(Services, ServiceFacts, svcs, svcsKnown, "up", svcsQueue)
  BY <1>4 DEF ClusterInv, SvcsOK
<1>6. WatchOK(Services, ServiceFacts, svcs, svcsKnown, "up", svcsQueue')
  BY <1>4, <1>5, TouchKeeps
<1>7. SvcsOK'
  BY <1>1, <1>4, <1>6 DEF SvcsOK, ServiceFacts, ghostVars
<1> QED  BY <1>1, <1>2, <1>3, <1>7 DEF ClusterInv

LEMMA TouchNodeKeepsInv ==
    ASSUME ClusterInv, NEW n \in Nodes, TouchNode(n)
    PROVE  ClusterInv'
<1>1. /\ podVars' = podVars /\ svcVars' = svcVars /\ cacheVars' = cacheVars
      /\ ghostVars' = ghostVars /\ changes' \in 0 .. MaxChanges
  BY ChangesAssumption DEF TouchNode, Change, ClusterInv
<1>2. GhostOK' /\ CacheOK' /\ EntriesWereTrue'
  BY <1>1 DEF ClusterInv, GhostOK, CacheOK, EntriesWereTrue, cacheVars, ghostVars
<1>3. PodsOK' /\ SvcsOK'
  BY <1>1 DEF ClusterInv, PodsOK, SvcsOK, PodFacts, ServiceFacts, podVars, svcVars, ghostVars
<1>4. /\ nodesWatched = "up" /\ nodes[n] # Absent
      /\ nodes' = nodes /\ nodesKnown' = nodesKnown /\ nodesWatched' = nodesWatched
      /\ nodesQueue' = Append(nodesQueue, NoteOf(n, nodesKnown[n], nodes[n]))
  BY NotesAgree DEF TouchNode, NodeWatch!Touch
<1>5. WatchOK(Nodes, everZoned, nodes, nodesKnown, "up", nodesQueue)
  BY <1>4 DEF ClusterInv, NodesOK
<1>6. WatchOK(Nodes, everZoned, nodes, nodesKnown, "up", nodesQueue')
  BY <1>4, <1>5, TouchKeeps
<1>7. NodesOK'
  BY <1>1, <1>4, <1>6 DEF NodesOK, ghostVars
<1> QED  BY <1>1, <1>2, <1>3, <1>7 DEF ClusterInv

LEMMA ServicesKeepInv ==
    ASSUME ClusterInv, NEW s \in Services, NEW obj \in ServiceObjects, ChangeService(s, obj)
    PROVE  ClusterInv'
<1>1. /\ podVars' = podVars /\ nodeVars' = nodeVars /\ cacheVars' = cacheVars
      /\ everZoned' = everZoned /\ everHeld' = everHeld /\ changes' \in 0 .. MaxChanges
      /\ everServed' = IF obj = Absent \/ obj.ip = NoIP
                       THEN everServed ELSE everServed \cup {<<obj.ip, s>>}
  BY ChangesAssumption DEF ChangeService, Change, ClusterInv
<1>2. obj = Absent \/ obj \in ServiceStates
  BY DEF ServiceObjects, ServiceStates
<1>3. everServed \subseteq everServed' /\ everServed' \subseteq ClusterIPs \X Services
  BY <1>1, <1>2 DEF ClusterInv, GhostOK, ServiceStates
<1>4. GhostOK' /\ CacheOK'
  BY <1>1, <1>3 DEF ClusterInv, GhostOK, CacheOK, cacheVars
<1>5. EntriesWereTrue'
  BY <1>1, <1>3 DEF ClusterInv, EntriesWereTrue, cacheVars
<1>6. PodsOK' /\ NodesOK'
  BY <1>1 DEF ClusterInv, PodsOK, NodesOK, PodFacts, podVars, nodeVars
<1>7. /\ svcs[s] # obj /\ svcs' = [svcs EXCEPT ![s] = obj] /\ svcsWatched' = svcsWatched
      /\ IF svcsWatched = "up"
         THEN /\ svcsKnown' = [svcsKnown EXCEPT ![s] = obj]
              /\ svcsQueue' = Append(svcsQueue, NoteOf(s, svcsKnown[s], obj))
         ELSE svcsKnown' = svcsKnown /\ svcsQueue' = svcsQueue
  BY NotesAgree DEF ChangeService, SvcWatch!Change
<1>8. WatchOK(Services, ServiceFacts', svcs, svcsKnown, svcsWatched, svcsQueue)
  BY <1>3, ServiceFactsGrow, WatchKeepsMore DEF ClusterInv, SvcsOK
<1>9. Told(ServiceFacts', s, obj)
  <2>1. CASE obj = Absent
    BY <2>1 DEF Told
  <2>2. CASE obj # Absent
    <3>1. obj \in ServiceStates /\ (obj.ip # NoIP => <<obj.ip, s>> \in everServed')
      BY <1>1, <1>2, <2>2
    <3>2. <<s, obj>> \in ServiceFacts'
      BY <3>1 DEF ServiceFacts
    <3> QED  BY <3>2 DEF Told
  <2> QED  BY <2>1, <2>2
<1>10. WatchOK(Services, ServiceFacts', [svcs EXCEPT ![s] = obj], svcsKnown', svcsWatched, svcsQueue')
  BY <1>7, <1>8, <1>9, ChangeKeeps
<1>11. SvcsOK'
  BY <1>7, <1>10 DEF SvcsOK
<1> QED  BY <1>1, <1>4, <1>5, <1>6, <1>11 DEF ClusterInv

LEMMA NodesKeepInv ==
    ASSUME ClusterInv, NEW n \in Nodes, NEW label \in ZoneLabels, ChangeNode(n, label)
    PROVE  ClusterInv'
<1>1. /\ podVars' = podVars /\ svcVars' = svcVars /\ cacheVars' = cacheVars
      /\ everHeld' = everHeld /\ everServed' = everServed /\ changes' \in 0 .. MaxChanges
      /\ everZoned' = IF label = Absent THEN everZoned ELSE everZoned \cup {<<n, label>>}
  BY ChangesAssumption DEF ChangeNode, Change, ClusterInv
<1>2. everZoned \subseteq everZoned' /\ everZoned' \subseteq Nodes \X (ZoneLabels \ {Absent})
  BY <1>1 DEF ClusterInv, GhostOK
<1>3. GhostOK' /\ CacheOK'
  BY <1>1, <1>2 DEF ClusterInv, GhostOK, CacheOK, cacheVars
<1>4. EntriesWereTrue'
  BY <1>1, <1>2 DEF ClusterInv, EntriesWereTrue, cacheVars
<1>5. PodsOK' /\ SvcsOK'
  BY <1>1 DEF ClusterInv, PodsOK, SvcsOK, PodFacts, ServiceFacts, podVars, svcVars
<1>6. /\ nodes[n] # label /\ nodes' = [nodes EXCEPT ![n] = label] /\ nodesWatched' = nodesWatched
      /\ IF nodesWatched = "up"
         THEN /\ nodesKnown' = [nodesKnown EXCEPT ![n] = label]
              /\ nodesQueue' = Append(nodesQueue, NoteOf(n, nodesKnown[n], label))
         ELSE nodesKnown' = nodesKnown /\ nodesQueue' = nodesQueue
  BY NotesAgree DEF ChangeNode, NodeWatch!Change
<1>7. WatchOK(Nodes, everZoned', nodes, nodesKnown, nodesWatched, nodesQueue)
  BY <1>2, WatchKeepsMore DEF ClusterInv, NodesOK
<1>8. Told(everZoned', n, label)
  BY <1>1 DEF Told
<1>9. WatchOK(Nodes, everZoned', [nodes EXCEPT ![n] = label], nodesKnown', nodesWatched, nodesQueue')
  BY <1>6, <1>7, <1>8, ChangeKeeps
<1>10. NodesOK'
  BY <1>6, <1>9 DEF NodesOK
<1> QED  BY <1>1, <1>3, <1>4, <1>5, <1>10 DEF ClusterInv

LEMMA LosingKeepsInv ==
    ASSUME ClusterInv, LosePods \/ LoseSvcs \/ LoseNodes
    PROVE  ClusterInv'
<1>1. /\ cacheVars' = cacheVars /\ ghostVars' = ghostVars /\ changes' \in 0 .. MaxChanges
      /\ pods' = pods /\ podsKnown' = podsKnown /\ podsQueue' = podsQueue
      /\ svcs' = svcs /\ svcsKnown' = svcsKnown /\ svcsQueue' = svcsQueue
      /\ nodes' = nodes /\ nodesKnown' = nodesKnown /\ nodesQueue' = nodesQueue
      /\ podsWatched' \in {podsWatched, "down"} /\ svcsWatched' \in {svcsWatched, "down"}
      /\ nodesWatched' \in {nodesWatched, "down"}
  BY ChangesAssumption DEF LosePods, LoseSvcs, LoseNodes, Change, ClusterInv, podVars, svcVars, nodeVars,
       PodWatch!Disconnect, SvcWatch!Disconnect, NodeWatch!Disconnect
<1>2. GhostOK' /\ CacheOK' /\ EntriesWereTrue'
  BY <1>1 DEF ClusterInv, GhostOK, CacheOK, EntriesWereTrue, cacheVars, ghostVars
<1>3. PodFacts' = PodFacts /\ ServiceFacts' = ServiceFacts /\ everZoned' = everZoned
  BY <1>1 DEF PodFacts, ServiceFacts, ghostVars
<1>4. PodsOK'
  BY <1>1, <1>3 DEF ClusterInv, PodsOK, WatchOK
<1>5. SvcsOK'
  BY <1>1, <1>3 DEF ClusterInv, SvcsOK, WatchOK
<1>6. NodesOK'
  BY <1>1, <1>3 DEF ClusterInv, NodesOK, WatchOK
<1> QED  BY <1>1, <1>2, <1>4, <1>5, <1>6 DEF ClusterInv

\* An order of a set: each of its elements, once.
Ordered(ks, n, S) ==
    /\ ks \in [1 .. n -> S]
    /\ \A i, j \in 1 .. n : i # j => ks[i] # ks[j]
    /\ \A k \in S : \E i \in 1 .. n : ks[i] = k

LEMMA OrderIs ==
    ASSUME NEW S, IsFiniteSet(S),
           NEW ks \in [1 .. Cardinality(S) -> S],
           \A i, j \in 1 .. Cardinality(S) : i # j => ks[i] # ks[j]
    PROVE  \E n \in Nat : Ordered(ks, n, S)
<1> DEFINE n == Cardinality(S)
<1>1. n \in Nat
  BY FS_CardinalityType
<1>2. IsFiniteSet(1 .. n) /\ Cardinality(1 .. n) = n
  BY <1>1, FS_Interval
<1>3. ASSUME NEW k \in S, \A i \in 1 .. n : ks[i] # k
      PROVE  FALSE
  <2>1. IsFiniteSet(S \ {k}) /\ Cardinality(S \ {k}) = n - 1
    BY FS_RemoveElement
  <2>2. ks \in [1 .. n -> S \ {k}]
    BY <1>3
  <2> HIDE DEF n
  <2>3. Cardinality(S \ {k}) < Cardinality(1 .. n)
    BY <1>1, <1>2, <2>1
  <2>4. \E i, j \in 1 .. n : i # j /\ ks[i] = ks[j]
    BY <1>2, <2>1, <2>2, <2>3, FS_PigeonHole
  <2> QED  BY <2>4 DEF n
<1> QED  BY <1>1, <1>3 DEF Ordered

\* What a relist enumerates is an order of the keys that differ.
LEMMA RelistOrder ==
    ASSUME NEW Keys, IsFiniteSet(Keys), NEW S, S \subseteq Keys
    PROVE  /\ \A ks \in PodWatch!SetToSeqs(S) : \E n \in Nat : Ordered(ks, n, S)
           /\ \A ks \in SvcWatch!SetToSeqs(S) : \E n \in Nat : Ordered(ks, n, S)
           /\ \A ks \in NodeWatch!SetToSeqs(S) : \E n \in Nat : Ordered(ks, n, S)
<1>1. IsFiniteSet(S)
  BY FS_Subset
<1>2. PodWatch!Cardinality(S) = Cardinality(S)
  BY DEF PodWatch!Cardinality, Cardinality
<1>3. SvcWatch!Cardinality(S) = Cardinality(S)
  BY DEF SvcWatch!Cardinality, Cardinality
<1>4. NodeWatch!Cardinality(S) = Cardinality(S)
  BY DEF NodeWatch!Cardinality, Cardinality
<1>5. \A ks \in PodWatch!SetToSeqs(S) : \E n \in Nat : Ordered(ks, n, S)
  BY <1>1, <1>2, OrderIs DEF PodWatch!SetToSeqs
<1>6. \A ks \in SvcWatch!SetToSeqs(S) : \E n \in Nat : Ordered(ks, n, S)
  BY <1>1, <1>3, OrderIs DEF SvcWatch!SetToSeqs
<1>7. \A ks \in NodeWatch!SetToSeqs(S) : \E n \in Nat : Ordered(ks, n, S)
  BY <1>1, <1>4, OrderIs DEF NodeWatch!SetToSeqs
<1> QED  BY <1>5, <1>6, <1>7

\* A relist of an instance, in the terms of one watch.
Relisted(Keys, api, known, queue, queue2) ==
    \E ks, n : /\ n \in Nat /\ Ordered(ks, n, {k \in Keys : known[k] # api[k]})
               /\ queue2 = queue \o Listed(ks, api, known)

LEMMA ListPodsIs ==
    ASSUME ListPods
    PROVE  /\ podsWatched # "up" /\ podsWatched' = "up" /\ pods' = pods /\ podsKnown' = pods
           /\ Relisted(Pods, pods, podsKnown, podsQueue, podsQueue')
<1>1. PICK ks \in PodWatch!SetToSeqs({k \in Pods : podsKnown[k] # pods[k]}) :
             podsQueue' = podsQueue \o Listed(ks, pods, podsKnown)
  BY DEF ListPods, PodWatch!Relist, Listed, NoteOf
<1>2. \E n \in Nat : Ordered(ks, n, {k \in Pods : podsKnown[k] # pods[k]})
  BY <1>1, RelistOrder, FiniteAssumption
<1> QED  BY <1>1, <1>2 DEF ListPods, PodWatch!Relist, Relisted

LEMMA ListSvcsIs ==
    ASSUME ListSvcs
    PROVE  /\ svcsWatched # "up" /\ svcsWatched' = "up" /\ svcs' = svcs /\ svcsKnown' = svcs
           /\ Relisted(Services, svcs, svcsKnown, svcsQueue, svcsQueue')
<1>1. PICK ks \in SvcWatch!SetToSeqs({k \in Services : svcsKnown[k] # svcs[k]}) :
             svcsQueue' = svcsQueue \o Listed(ks, svcs, svcsKnown)
  BY NotesAgree DEF ListSvcs, SvcWatch!Relist, Listed
<1>2. \E n \in Nat : Ordered(ks, n, {k \in Services : svcsKnown[k] # svcs[k]})
  BY <1>1, RelistOrder, FiniteAssumption
<1> QED  BY <1>1, <1>2 DEF ListSvcs, SvcWatch!Relist, Relisted

LEMMA ListNodesIs ==
    ASSUME ListNodes
    PROVE  /\ nodesWatched # "up" /\ nodesWatched' = "up" /\ nodes' = nodes /\ nodesKnown' = nodes
           /\ Relisted(Nodes, nodes, nodesKnown, nodesQueue, nodesQueue')
<1>1. PICK ks \in NodeWatch!SetToSeqs({k \in Nodes : nodesKnown[k] # nodes[k]}) :
             nodesQueue' = nodesQueue \o Listed(ks, nodes, nodesKnown)
  BY NotesAgree DEF ListNodes, NodeWatch!Relist, Listed
<1>2. \E n \in Nat : Ordered(ks, n, {k \in Nodes : nodesKnown[k] # nodes[k]})
  BY <1>1, RelistOrder, FiniteAssumption
<1> QED  BY <1>1, <1>2 DEF ListNodes, NodeWatch!Relist, Relisted

LEMMA ListingKeepsInv ==
    ASSUME ClusterInv, ListPods \/ ListSvcs \/ ListNodes
    PROVE  ClusterInv'
<1>1. /\ cacheVars' = cacheVars /\ ghostVars' = ghostVars /\ changes' = changes
  BY DEF ListPods, ListSvcs, ListNodes
<1>2. GhostOK' /\ CacheOK' /\ EntriesWereTrue' /\ (changes \in 0 .. MaxChanges)'
  BY <1>1 DEF ClusterInv, GhostOK, CacheOK, EntriesWereTrue, cacheVars, ghostVars
<1>3. PodFacts' = PodFacts /\ everZoned' = everZoned /\ ServiceFacts' = ServiceFacts
  BY <1>1 DEF PodFacts, ServiceFacts, ghostVars
<1>4. CASE ListPods
  <2>1. SvcsOK' /\ NodesOK'
    BY <1>3, <1>4 DEF ListPods, ClusterInv, SvcsOK, NodesOK, svcVars, nodeVars
  <2>2. WatchOK(Pods, PodFacts, pods, podsKnown, podsWatched, podsQueue)
    BY DEF ClusterInv, PodsOK
  <2>3. PodsOK'
    <3>1. PICK ks, n : /\ n \in Nat /\ Ordered(ks, n, {k \in Pods : podsKnown[k] # pods[k]})
                       /\ podsQueue' = podsQueue \o Listed(ks, pods, podsKnown)
      BY <1>4, ListPodsIs DEF Relisted
    <3>2. ks \in [1 .. n -> {k \in Pods : podsKnown[k] # pods[k]}]
      BY <3>1 DEF Ordered
    <3>3. WatchOK(Pods, PodFacts, pods, pods, "up", podsQueue')
      BY <2>2, <3>1, <3>2, RelistKeeps
    <3> QED  BY <1>3, <1>4, <3>3, ListPodsIs DEF PodsOK
  <2> QED  BY <1>2, <2>1, <2>3 DEF ClusterInv
<1>5. CASE ListSvcs
  <2>1. PodsOK' /\ NodesOK'
    BY <1>3, <1>5 DEF ListSvcs, ClusterInv, PodsOK, NodesOK, podVars, nodeVars
  <2>2. WatchOK(Services, ServiceFacts, svcs, svcsKnown, svcsWatched, svcsQueue)
    BY DEF ClusterInv, SvcsOK
  <2>3. SvcsOK'
    <3>1. PICK ks, n : /\ n \in Nat /\ Ordered(ks, n, {k \in Services : svcsKnown[k] # svcs[k]})
                       /\ svcsQueue' = svcsQueue \o Listed(ks, svcs, svcsKnown)
      BY <1>5, ListSvcsIs DEF Relisted
    <3>2. ks \in [1 .. n -> {k \in Services : svcsKnown[k] # svcs[k]}]
      BY <3>1 DEF Ordered
    <3>3. WatchOK(Services, ServiceFacts, svcs, svcs, "up", svcsQueue')
      BY <2>2, <3>1, <3>2, RelistKeeps
    <3> QED  BY <1>3, <1>5, <3>3, ListSvcsIs DEF SvcsOK
  <2> QED  BY <1>2, <2>1, <2>3 DEF ClusterInv
<1>6. CASE ListNodes
  <2>1. PodsOK' /\ SvcsOK'
    BY <1>3, <1>6 DEF ListNodes, ClusterInv, PodsOK, SvcsOK, podVars, svcVars
  <2>2. WatchOK(Nodes, everZoned, nodes, nodesKnown, nodesWatched, nodesQueue)
    BY DEF ClusterInv, NodesOK
  <2>3. NodesOK'
    <3>1. PICK ks, n : /\ n \in Nat /\ Ordered(ks, n, {k \in Nodes : nodesKnown[k] # nodes[k]})
                       /\ nodesQueue' = nodesQueue \o Listed(ks, nodes, nodesKnown)
      BY <1>6, ListNodesIs DEF Relisted
    <3>2. ks \in [1 .. n -> {k \in Nodes : nodesKnown[k] # nodes[k]}]
      BY <3>1 DEF Ordered
    <3>3. WatchOK(Nodes, everZoned, nodes, nodes, "up", nodesQueue')
      BY <2>2, <3>1, <3>2, RelistKeeps
    <3> QED  BY <1>3, <1>6, <3>3, ListNodesIs DEF NodesOK
  <2> QED  BY <1>2, <2>1, <2>3 DEF ClusterInv
<1> QED  BY <1>4, <1>5, <1>6

-----------------------------------------------------------------------------
(* The handlers. *)

\* The first notification tells a fact, and the rest are what they were.
LEMMA HeadIsTold ==
    ASSUME NEW facts, \A f \in facts : f = <<f[1], f[2]>>,
           NEW queue \in Seq(Notes(facts)), queue # <<>>
    PROVE  /\ Head(queue) \in Notes(facts) /\ Tail(queue) \in Seq(Notes(facts))
           /\ <<Head(queue).key, Head(queue).obj>> \in facts
           /\ Head(queue).type \in NoteTypes
<1>1. Head(queue) \in Notes(facts) /\ Tail(queue) \in Seq(Notes(facts))
  OBVIOUS
<1>2. PICK t \in NoteTypes, f \in facts : Head(queue) = [type |-> t, key |-> f[1], obj |-> f[2]]
  BY <1>1 DEF Notes
<1> QED  BY <1>1, <1>2

LEMMA HandlePodKeepsInv ==
    ASSUME ClusterInv, HandlePod
    PROVE  ClusterInv'
<1> DEFINE note == Head(podsQueue)
           ip   == note.obj.ip
           entry == [pod |-> note.key, node |-> note.obj.node]
<1>1. /\ svcVars' = svcVars /\ nodeVars' = nodeVars /\ svcMap' = svcMap /\ nodeMap' = nodeMap
      /\ changes' = changes /\ ghostVars' = ghostVars
      /\ podsQueue # <<>> /\ podsQueue' = Tail(podsQueue)
      /\ pods' = pods /\ podsKnown' = podsKnown /\ podsWatched' = podsWatched
      /\ \/ ipMap' = ipMap
         \/ ipMap' = Delete(ipMap, ip)
         \/ ip # NoIP /\ ipMap' = Set(ipMap, ip, entry)
  BY DEF HandlePod, PodWatch!Deliver
<1>2. podsQueue \in Seq(Notes(PodFacts))
  BY DEF ClusterInv, PodsOK, WatchOK
<1>3. <<note.key, note.obj>> \in PodFacts /\ podsQueue' \in Seq(Notes(PodFacts))
  <2>1. \A f \in PodFacts : f = <<f[1], f[2]>>
    BY DEF PodFacts
  <2> QED  BY <1>1, <1>2, <2>1, HeadIsTold
<1>4. /\ note.key \in Pods /\ note.obj.node \in Nodes /\ ip \in PodIPs \cup {NoIP}
      /\ ip # NoIP => <<ip, note.key, note.obj.node>> \in everHeld
  BY <1>3 DEF PodFacts, PodStates
<1>5. PodFacts' = PodFacts /\ ServiceFacts' = ServiceFacts /\ UNCHANGED <<everHeld, everServed, everZoned>>
  BY <1>1 DEF PodFacts, ServiceFacts, ghostVars
<1>6. PodsOK' /\ SvcsOK' /\ NodesOK'
  BY <1>1, <1>3, <1>5
     DEF ClusterInv, PodsOK, SvcsOK, NodesOK, WatchOK, svcVars, nodeVars
<1>7. entry \in Entry /\ entry.pod = note.key /\ entry.node = note.obj.node
  BY <1>4 DEF Entry
<1> HIDE DEF note, ip, entry
<1>8. /\ DOMAIN ipMap \subseteq PodIPs /\ \A x \in DOMAIN ipMap : ipMap[x] \in Entry
      /\ \A x \in DOMAIN ipMap : <<x, ipMap[x].pod, ipMap[x].node>> \in everHeld
  BY DEF ClusterInv, CacheOK, EntriesWereTrue
<1>9. /\ DOMAIN ipMap' \subseteq PodIPs
      /\ \A x \in DOMAIN ipMap' : ipMap'[x] \in Entry
      /\ \A x \in DOMAIN ipMap' : <<x, ipMap'[x].pod, ipMap'[x].node>> \in everHeld
  <2>1. CASE ipMap' = ipMap
    BY <1>8, <2>1
  <2>2. CASE ipMap' = Delete(ipMap, ip)
    BY <1>8, <2>2 DEF Delete
  <2>3. CASE ip # NoIP /\ ipMap' = Set(ipMap, ip, entry)
    <3>1. ip \in PodIPs /\ <<ip, entry.pod, entry.node>> \in everHeld
      BY <1>4, <1>7, <2>3
    <3> QED  BY <1>7, <1>8, <2>3, <3>1 DEF Set
  <2> QED  BY <1>1, <2>1, <2>2, <2>3
<1>10. GhostOK' /\ CacheOK' /\ EntriesWereTrue'
  BY <1>1, <1>5, <1>9 DEF ClusterInv, GhostOK, CacheOK, EntriesWereTrue
<1> QED  BY <1>1, <1>6, <1>10 DEF ClusterInv

LEMMA HandleServiceKeepsInv ==
    ASSUME ClusterInv, HandleService
    PROVE  ClusterInv'
<1> DEFINE note == Head(svcsQueue)
           ip   == note.obj.ip
<1>1. /\ podVars' = podVars /\ nodeVars' = nodeVars /\ ipMap' = ipMap /\ nodeMap' = nodeMap
      /\ changes' = changes /\ ghostVars' = ghostVars
      /\ svcsQueue # <<>> /\ svcsQueue' = Tail(svcsQueue)
      /\ svcs' = svcs /\ svcsKnown' = svcsKnown /\ svcsWatched' = svcsWatched
      /\ \/ svcMap' = svcMap
         \/ svcMap' = Delete(svcMap, ip)
         \/ ip # NoIP /\ svcMap' = Set(svcMap, ip, note.key)
  BY DEF HandleService, SvcWatch!Deliver
<1>2. svcsQueue \in Seq(Notes(ServiceFacts))
  BY DEF ClusterInv, SvcsOK, WatchOK
<1>3. <<note.key, note.obj>> \in ServiceFacts /\ svcsQueue' \in Seq(Notes(ServiceFacts))
  <2>1. \A f \in ServiceFacts : f = <<f[1], f[2]>>
    BY DEF ServiceFacts
  <2> QED  BY <1>1, <1>2, <2>1, HeadIsTold
<1>4. /\ note.key \in Services /\ ip \in ClusterIPs \cup {NoIP}
      /\ ip # NoIP => <<ip, note.key>> \in everServed
  BY <1>3 DEF ServiceFacts, ServiceStates
<1>5. PodFacts' = PodFacts /\ ServiceFacts' = ServiceFacts /\ UNCHANGED <<everHeld, everServed, everZoned>>
  BY <1>1 DEF PodFacts, ServiceFacts, ghostVars
<1>6. PodsOK' /\ SvcsOK' /\ NodesOK'
  BY <1>1, <1>3, <1>5
     DEF ClusterInv, PodsOK, SvcsOK, NodesOK, WatchOK, podVars, nodeVars
<1> HIDE DEF note, ip
<1>7. /\ DOMAIN svcMap \subseteq ClusterIPs /\ \A x \in DOMAIN svcMap : svcMap[x] \in Services
      /\ \A x \in DOMAIN svcMap : <<x, svcMap[x]>> \in everServed
  BY DEF ClusterInv, CacheOK, EntriesWereTrue
<1>8. /\ DOMAIN svcMap' \subseteq ClusterIPs /\ \A x \in DOMAIN svcMap' : svcMap'[x] \in Services
      /\ \A x \in DOMAIN svcMap' : <<x, svcMap'[x]>> \in everServed
  <2>1. CASE svcMap' = svcMap
    BY <1>7, <2>1
  <2>2. CASE svcMap' = Delete(svcMap, ip)
    BY <1>7, <2>2 DEF Delete
  <2>3. CASE ip # NoIP /\ svcMap' = Set(svcMap, ip, note.key)
    BY <1>4, <1>7, <2>3 DEF Set
  <2> QED  BY <1>1, <2>1, <2>2, <2>3
<1>9. GhostOK' /\ CacheOK' /\ EntriesWereTrue'
  BY <1>1, <1>5, <1>8 DEF ClusterInv, GhostOK, CacheOK, EntriesWereTrue
<1> QED  BY <1>1, <1>6, <1>9 DEF ClusterInv

LEMMA HandleNodeKeepsInv ==
    ASSUME ClusterInv, HandleNode
    PROVE  ClusterInv'
<1> DEFINE note == Head(nodesQueue)
<1>1. /\ podVars' = podVars /\ svcVars' = svcVars /\ ipMap' = ipMap /\ svcMap' = svcMap
      /\ changes' = changes /\ ghostVars' = ghostVars
      /\ nodesQueue # <<>> /\ nodesQueue' = Tail(nodesQueue)
      /\ nodes' = nodes /\ nodesKnown' = nodesKnown /\ nodesWatched' = nodesWatched
      /\ \/ nodeMap' = nodeMap
         \/ nodeMap' = Delete(nodeMap, note.key)
         \/ nodeMap' = Set(nodeMap, note.key, note.obj)
  BY DEF HandleNode, NodeWatch!Deliver
<1>2. nodesQueue \in Seq(Notes(everZoned))
  BY DEF ClusterInv, NodesOK, WatchOK
<1>3. <<note.key, note.obj>> \in everZoned /\ nodesQueue' \in Seq(Notes(everZoned))
  <2>1. \A f \in everZoned : f = <<f[1], f[2]>>
    BY DEF ClusterInv, GhostOK
  <2> QED  BY <1>1, <1>2, <2>1, HeadIsTold
<1>4. note.key \in Nodes /\ note.obj \in ZoneLabels \ {Absent}
  BY <1>3 DEF ClusterInv, GhostOK
<1>5. PodFacts' = PodFacts /\ ServiceFacts' = ServiceFacts /\ UNCHANGED <<everHeld, everServed, everZoned>>
  BY <1>1 DEF PodFacts, ServiceFacts, ghostVars
<1>6. PodsOK' /\ SvcsOK' /\ NodesOK'
  BY <1>1, <1>3, <1>5
     DEF ClusterInv, PodsOK, SvcsOK, NodesOK, WatchOK, podVars, svcVars
<1> HIDE DEF note
<1>7. /\ DOMAIN nodeMap \subseteq Nodes /\ \A x \in DOMAIN nodeMap : nodeMap[x] \in ZoneLabels \ {Absent}
      /\ \A x \in DOMAIN nodeMap : <<x, nodeMap[x]>> \in everZoned
  BY DEF ClusterInv, CacheOK, EntriesWereTrue
<1>8. /\ DOMAIN nodeMap' \subseteq Nodes
      /\ \A x \in DOMAIN nodeMap' : nodeMap'[x] \in ZoneLabels \ {Absent}
      /\ \A x \in DOMAIN nodeMap' : <<x, nodeMap'[x]>> \in everZoned
  <2>1. CASE nodeMap' = nodeMap
    BY <1>7, <2>1
  <2>2. CASE nodeMap' = Delete(nodeMap, note.key)
    BY <1>7, <2>2 DEF Delete
  <2>3. CASE nodeMap' = Set(nodeMap, note.key, note.obj)
    BY <1>3, <1>4, <1>7, <2>3 DEF Set
  <2> QED  BY <1>1, <2>1, <2>2, <2>3
<1>9. GhostOK' /\ CacheOK' /\ EntriesWereTrue'
  BY <1>1, <1>5, <1>8 DEF ClusterInv, GhostOK, CacheOK, EntriesWereTrue
<1> QED  BY <1>1, <1>6, <1>9 DEF ClusterInv

-----------------------------------------------------------------------------
\* The informers have listed nothing yet.
LEMMA WatchStarts ==
    ASSUME NEW Keys, NEW facts, NEW api \in [Keys -> Values(facts)],
           \A k \in Keys : Told(facts, k, api[k])
    PROVE  WatchOK(Keys, facts, api, [k \in Keys |-> Absent], "never", <<>>)
BY DEF WatchOK, Told, Values

LEMMA ClusterInitInv == ClusterInit => ClusterInv
<1> SUFFICES ASSUME ClusterInit
             PROVE  ClusterInv
  OBVIOUS
<1>1. /\ pods \in [Pods -> PodObjects] /\ svcs \in [Services -> ServiceObjects]
      /\ nodes \in [Nodes -> ZoneLabels]
      /\ ipMap = Empty /\ svcMap = Empty /\ nodeMap = Empty /\ changes = 0
      /\ everHeld = {<<pods[p].ip, p, pods[p].node>> : p \in {q \in Pods : HasIP(q)}}
      /\ everServed = {<<svcs[s].ip, s>> : s \in {t \in Services : Serves(t)}}
      /\ everZoned = {<<n, nodes[n]>> : n \in {m \in Nodes : nodes[m] # Absent}}
  BY DEF ClusterInit
<1>2. ASSUME NEW p \in Pods, pods[p] # Absent
      PROVE  /\ pods[p] \in PodStates
             /\ pods[p].ip # NoIP => /\ <<pods[p].ip, p, pods[p].node>> \in everHeld
                                     /\ <<pods[p].ip, p, pods[p].node>> \in PodIPs \X Pods \X Nodes
  BY <1>1, <1>2 DEF PodObjects, PodStates, HasIP
<1>3. ASSUME NEW s \in Services, svcs[s] # Absent
      PROVE  /\ svcs[s] \in ServiceStates
             /\ svcs[s].ip # NoIP => /\ <<svcs[s].ip, s>> \in everServed
                                     /\ <<svcs[s].ip, s>> \in ClusterIPs \X Services
  BY <1>1, <1>3 DEF ServiceObjects, ServiceStates, Serves
<1>4. GhostOK
  <2>1. everHeld \subseteq PodIPs \X Pods \X Nodes
    BY <1>1, <1>2 DEF HasIP
  <2>2. everServed \subseteq ClusterIPs \X Services
    BY <1>1, <1>3 DEF Serves
  <2>3. everZoned \subseteq Nodes \X (ZoneLabels \ {Absent})
    BY <1>1
  <2> QED  BY <2>1, <2>2, <2>3 DEF GhostOK
<1>5. DOMAIN ipMap = {} /\ DOMAIN svcMap = {} /\ DOMAIN nodeMap = {}
  BY <1>1 DEF Empty
<1>6. CacheOK /\ EntriesWereTrue
  BY <1>5 DEF CacheOK, EntriesWereTrue
<1>7. \A facts, k, obj : Told(facts, k, obj) => obj \in Values(facts)
  BY DEF Told, Values
<1>8. PodsOK
  <2>1. \A p \in Pods : Told(PodFacts, p, pods[p])
    BY <1>2 DEF Told, PodFacts
  <2>2. pods \in [Pods -> Values(PodFacts)]
    BY <1>1, <1>7, <2>1
  <2> QED  BY <2>1, <2>2, WatchStarts DEF ClusterInit, PodWatch!Init, PodsOK
<1>9. SvcsOK
  <2>1. \A s \in Services : Told(ServiceFacts, s, svcs[s])
    BY <1>3 DEF Told, ServiceFacts
  <2>2. svcs \in [Services -> Values(ServiceFacts)]
    BY <1>1, <1>7, <2>1
  <2> QED  BY <2>1, <2>2, WatchStarts DEF ClusterInit, SvcWatch!Init, SvcsOK
<1>10. NodesOK
  <2>1. \A n \in Nodes : Told(everZoned, n, nodes[n])
    BY <1>1 DEF Told
  <2>2. nodes \in [Nodes -> Values(everZoned)]
    BY <1>1, <1>7, <2>1
  <2> QED  BY <2>1, <2>2, WatchStarts DEF ClusterInit, NodeWatch!Init, NodesOK
<1>11. changes \in 0 .. MaxChanges
  BY <1>1, ChangesAssumption
<1> QED  BY <1>4, <1>6, <1>8, <1>9, <1>10, <1>11 DEF ClusterInv

LEMMA ClusterStutters ==
    ASSUME ClusterInv, UNCHANGED clusterVars
    PROVE  ClusterInv'
<1>1. /\ podVars' = podVars /\ svcVars' = svcVars /\ nodeVars' = nodeVars
      /\ cacheVars' = cacheVars /\ changes' = changes /\ ghostVars' = ghostVars
  BY DEF clusterVars
<1> QED  BY <1>1 DEF podVars, svcVars, nodeVars, cacheVars, ghostVars, ClusterInv, GhostOK, CacheOK,
            EntriesWereTrue, PodsOK, SvcsOK, NodesOK, PodFacts, ServiceFacts

LEMMA ClusterNextInv == ClusterInv /\ [ClusterNext]_clusterVars => ClusterInv'
<1> SUFFICES ASSUME ClusterInv, ClusterNext
             PROVE  ClusterInv'
  BY ClusterStutters
<1>1. ASSUME NEW p \in Pods,
             \/ \E n \in Nodes : CreatePod(p, n)
             \/ \E ip \in PodIPs : AssignIP(p, ip) \/ MovePod(p, ip)
             \/ FinishPod(p) \/ TouchPod(p) \/ RemovePod(p)
      PROVE  ClusterInv'
  BY <1>1, PodsKeepInv, TouchPodKeepsInv
<1> QED  BY <1>1, TouchServiceKeepsInv, TouchNodeKeepsInv, ServicesKeepInv, NodesKeepInv, LosingKeepsInv, ListingKeepsInv,
            HandlePodKeepsInv, HandleServiceKeepsInv, HandleNodeKeepsInv DEF ClusterNext

LEMMA ClusterInvariant == ClusterSpec => []ClusterInv
<1>1. ClusterInit => ClusterInv
  BY ClusterInitInv
<1>2. ClusterInv /\ [ClusterNext]_clusterVars => ClusterInv'
  BY ClusterNextInv
<1> QED  BY <1>1, <1>2, PTL DEF ClusterSpec

\* Every value in the cache, and in the informers' copies, has its type
\* (cache.go:8-30).
THEOREM CacheTypeCorrect == ClusterSpec => []CacheTypeOK
<1>1. ClusterInv => CacheTypeOK
  <2> SUFFICES ASSUME ClusterInv
               PROVE  CacheTypeOK
    OBVIOUS
  <2>1. podsKnown \in [Pods -> PodObjects \cup [ip : PodIPs, node : Nodes, live : {FALSE}]]
    <3>1. DOMAIN podsKnown = Pods /\ podsKnown = [p \in Pods |-> podsKnown[p]]
      BY DEF ClusterInv, PodsOK, WatchOK
    <3>2. \A p \in Pods : podsKnown[p] \in PodObjects \cup [ip : PodIPs, node : Nodes, live : {FALSE}]
      BY PodIs DEF PodStates, PodObjects
    <3> QED  BY <3>1, <3>2
  <2>2. svcsKnown \in [Services -> ServiceObjects]
    <3>1. svcsKnown = [s \in Services |-> svcsKnown[s]]
      BY DEF ClusterInv, SvcsOK, WatchOK
    <3>2. \A s \in Services : svcsKnown[s] \in ServiceObjects
      BY ServiceIs DEF ServiceStates, ServiceObjects
    <3> QED  BY <3>1, <3>2
  <2>3. nodesKnown \in [Nodes -> ZoneLabels]
    <3>1. nodesKnown = [n \in Nodes |-> nodesKnown[n]]
      BY DEF ClusterInv, NodesOK, WatchOK
    <3> QED  BY <3>1, NodeIs
  <2> QED  BY <2>1, <2>2, <2>3 DEF ClusterInv, CacheOK, CacheTypeOK
<1> QED  BY <1>1, ClusterInvariant, PTL

\* No entry of the three maps is an invention: the pod once had the address on
\* that node, the service once had that ClusterIP, the node once had that label,
\* whatever order three independent informers deliver in, and however often they
\* lose their watch (informer.go:45-137, README "Never guess identity").
THEOREM EntriesWereTrueCorrect == ClusterSpec => []EntriesWereTrue
<1>1. ClusterInv => EntriesWereTrue
  BY DEF ClusterInv
<1> QED  BY <1>1, ClusterInvariant, PTL

-----------------------------------------------------------------------------
(* ReadEvents, while the handlers change the cache under its lookups. *)

Stages == {<<"idle">>, <<"resolved">>}
            \cup ({"podName", "serviceName", "podNode", "nodeZone"} \X Both)

\* What the pod map has said of the address at this end: all of it was true.
Entries(end) == seen[end] \ {Absent}
SeenIsTrue(end) ==
    /\ Lookup(ipMap, flow[end]) \in seen[end]
    /\ \A e \in Entries(end) : e \in Entry /\ <<flow[end], e.pod, e.node>> \in everHeld

\* A pod's name is from there, a service's has had the address.
NameWasTrue(end) ==
    /\ name[end] \in Pods => \E e \in Entries(end) : e.pod = name[end]
    /\ name[end] \in Services => <<flow[end], name[end]>> \in everServed

\* Once past the lookup for a pod's name, there is one, or there was no entry.
ToBeNamed(end) ==
    stage \in {<<"podName", end>>} \cup
             (IF end = "dst" THEN {<<"podName", "src">>, <<"serviceName", "src">>} ELSE {})
MissIsSeen(end) ==
    /\ ToBeNamed(end) \/ name[end] \in Pods \/ Absent \in seen[end]
    /\ stage = <<"serviceName", end>> => Absent \in seen[end]

HostWasTrue ==
    \A end \in Both : stage = <<"nodeZone", end>> =>
      \E e \in Entries(end) : e.node = host

ZoneWasTrue(end) ==
    zone[end] # Unknown =>
      /\ zone[end] \in Zones
      /\ \E e \in Entries(end) : <<e.node, zone[end]>> \in everZoned

ResolverInv ==
    /\ stage \in Stages
    /\ name \in [Both -> Pods \cup Services \cup PodIPs \cup ClusterIPs \cup {Absent}]
    /\ zone \in [Both -> Zones \cup {Unknown}]
    /\ IF stage = <<"idle">>
       THEN \A end \in Both : name[end] = Absent /\ zone[end] = Unknown
       ELSE /\ flow \in [src : PodIPs, dst : Addresses]
            /\ HostWasTrue
            /\ \A end \in Both : /\ SeenIsTrue(end) /\ MissIsSeen(end)
                                 /\ NameWasTrue(end) /\ ZoneWasTrue(end)

\* An entry of the pod map was true of its address.
LEMMA EntryIsTrue ==
    ASSUME ClusterInv, NEW ip
    PROVE  \/ ip \notin DOMAIN ipMap /\ Lookup(ipMap, ip) = Absent
           \/ /\ ip \in DOMAIN ipMap /\ Lookup(ipMap, ip) = ipMap[ip] /\ ipMap[ip] # Absent
              /\ ipMap[ip] \in Entry /\ <<ip, ipMap[ip].pod, ipMap[ip].node>> \in everHeld
<1>1. ip \in DOMAIN ipMap => /\ ipMap[ip] \in Entry
                             /\ <<ip, ipMap[ip].pod, ipMap[ip].node>> \in everHeld
  BY DEF ClusterInv, CacheOK, EntriesWereTrue
<1> QED  BY <1>1, NamesAssumption DEF Lookup

\* The cluster goes on: what was true once stays so, and what was seen, seen.
LEMMA ClusterKeepsResolved ==
    ASSUME ResolverInv, ClusterInv', everHeld \subseteq everHeld', everZoned \subseteq everZoned',
           everServed \subseteq everServed', UNCHANGED <<stage, flow, name, host, zone>>,
           stage # <<"idle">> => \A end \in Both :
             seen'[end] = seen[end] \cup {Lookup(ipMap', flow[end])}
    PROVE  ResolverInv'
<1>1. CASE stage = <<"idle">>
  BY <1>1 DEF ResolverInv
<1>2. CASE stage # <<"idle">>
  <2>1. \A end \in Both : /\ seen'[end] = seen[end] \cup {Lookup(ipMap', flow[end])}
                          /\ Entries(end) \subseteq Entries(end)'
    BY <1>2 DEF Entries
  <2>2. ASSUME NEW end \in Both
        PROVE  SeenIsTrue(end)'
    <3> DEFINE e0 == Lookup(ipMap', flow[end])
    <3>1. e0 = Absent \/ (e0 \in Entry /\ <<flow[end], e0.pod, e0.node>> \in everHeld')
      <4>1. flow[end] \in DOMAIN ipMap' => /\ ipMap'[flow[end]] \in Entry
                 /\ <<flow[end], ipMap'[flow[end]].pod, ipMap'[flow[end]].node>> \in everHeld'
        BY DEF ClusterInv, CacheOK, EntriesWereTrue
      <4> QED  BY <4>1 DEF Lookup
    <3> HIDE DEF e0
    <3>2. seen'[end] = seen[end] \cup {e0}
      BY <2>1 DEF e0
    <3>3. \A e \in Entries(end) : e \in Entry /\ <<flow[end], e.pod, e.node>> \in everHeld
      BY <1>2 DEF ResolverInv, SeenIsTrue
    <3>4. \A e \in Entries(end)' : e \in Entry /\ <<flow[end], e.pod, e.node>> \in everHeld'
      BY <3>1, <3>2, <3>3 DEF Entries
    <3>5. e0 \in seen'[end]
      BY <3>2
    <3> QED  BY <3>4, <3>5 DEF SeenIsTrue, e0
  <2>3. \A end \in Both : NameWasTrue(end)'
    BY <1>2, <2>1 DEF ResolverInv, NameWasTrue
  <2>4. \A end \in Both : ZoneWasTrue(end)'
    BY <1>2, <2>1 DEF ResolverInv, ZoneWasTrue
  <2>5. \A end \in Both : MissIsSeen(end)'
    BY <1>2, <2>1 DEF ResolverInv, MissIsSeen, ToBeNamed
  <2>6. HostWasTrue'
    BY <1>2, <2>1 DEF ResolverInv, HostWasTrue
  <2> QED  BY <1>2, <2>2, <2>3, <2>4, <2>5, <2>6 DEF ResolverInv
<1> QED  BY <1>1, <1>2

\* What has been true is never taken back.
LEMMA GhostsGrow ==
    ASSUME ClusterNext
    PROVE  /\ everHeld \subseteq everHeld' /\ everServed \subseteq everServed'
           /\ everZoned \subseteq everZoned'
<1>1. CASE \E p \in Pods : \/ \E n \in Nodes : CreatePod(p, n)
                           \/ \E ip \in PodIPs : AssignIP(p, ip) \/ MovePod(p, ip)
                           \/ FinishPod(p) \/ TouchPod(p) \/ RemovePod(p)
  BY <1>1 DEF CreatePod, AssignIP, MovePod, FinishPod, TouchPod, RemovePod, UnchangedButPods
<1>2. CASE \/ \E s \in Services : TouchService(s) \/ \E obj \in ServiceObjects : ChangeService(s, obj)
           \/ \E n \in Nodes : TouchNode(n) \/ \E label \in ZoneLabels : ChangeNode(n, label)
  BY <1>2 DEF TouchService, ChangeService, TouchNode, ChangeNode, ghostVars
<1>3. CASE LosePods \/ LoseSvcs \/ LoseNodes \/ ListPods \/ ListSvcs \/ ListNodes
             \/ HandlePod \/ HandleService \/ HandleNode
  BY <1>3 DEF LosePods, LoseSvcs, LoseNodes, ListPods, ListSvcs, ListNodes,
              HandlePod, HandleService, HandleNode, ghostVars
<1> QED  BY <1>1, <1>2, <1>3 DEF ClusterNext

\* Pods, services and addresses have different names.
LEMMA NamesDiffer ==
    ASSUME NEW p \in Pods, NEW s \in Services, NEW a \in Addresses
    PROVE  p \notin Services /\ a \notin Pods /\ a \notin Services
BY NamesAssumption DEF Addresses

LEMMA StagesAre ==
    \A what, end, what2, end2 :
      /\ <<what, end>> # <<"idle">> /\ <<what, end>> # <<"resolved">>
      /\ <<what, end>> = <<what2, end2>> <=> what = what2 /\ end = end2
OBVIOUS

\* The stage after a lookup is one where neither a service nor a host is awaited.
LEMMA AfterIs ==
    ASSUME NEW what \in {"podName", "serviceName", "podNode", "nodeZone"}, NEW end \in Both
    PROVE  /\ After(what, end) \in Stages \ {<<"idle">>}
           /\ \A e \in Both : After(what, end) # <<"nodeZone", e>>
                             /\ After(what, end) # <<"serviceName", e>>
<1>1. After(what, end) \in {<<"podName", "dst">>, <<"podNode", "src">>, <<"podNode", "dst">>, <<"resolved">>}
  BY DEF After, Both
<1>2. <<"podName", "dst">> \in Stages /\ <<"podNode", "src">> \in Stages
      /\ <<"podNode", "dst">> \in Stages /\ <<"resolved">> \in Stages
  BY DEF Stages, Both
<1> QED  BY <1>1, <1>2

\* A lookup: the cluster stays, and the flow.
LEMMA LookupKeepsRest ==
    ASSUME ResolverInv, clusterVars' = clusterVars, flow' = flow, seen' = seen, stage # <<"idle">>,
           stage' \in Stages \ {<<"idle">>},
           name' \in [Both -> Pods \cup Services \cup PodIPs \cup ClusterIPs \cup {Absent}],
           zone' \in [Both -> Zones \cup {Unknown}],
           \A end \in Both : (name'[end] = name[end]) \/ NameWasTrue(end)',
           \A end \in Both : (zone'[end] = zone[end]) \/ ZoneWasTrue(end)',
           \A end \in Both : MissIsSeen(end)',
           HostWasTrue'
    PROVE  ResolverInv'
<1>1. UNCHANGED <<everHeld, everServed, everZoned, ipMap>>
  BY DEF clusterVars, ghostVars, cacheVars
<1>2. \A end \in Both : SeenIsTrue(end) /\ NameWasTrue(end) /\ ZoneWasTrue(end)
  BY DEF ResolverInv
<1>3. \A end \in Both : NameWasTrue(end)'
  BY <1>1, <1>2 DEF NameWasTrue, Entries
<1>4. \A end \in Both : ZoneWasTrue(end)'
  BY <1>1, <1>2 DEF ZoneWasTrue, Entries
<1>5. \A end \in Both : SeenIsTrue(end)'
  BY <1>1, <1>2 DEF SeenIsTrue, Entries
<1> QED  BY <1>3, <1>4, <1>5 DEF ResolverInv

LEMMA ReadEventKeeps ==
    ASSUME ClusterInv, ResolverInv, NEW src \in PodIPs, NEW dst \in Addresses, ReadEvent(src, dst)
    PROVE  ResolverInv'
<1>1. /\ stage = <<"idle">> /\ stage' = <<"podName", "src">> /\ name' = name /\ zone' = zone
      /\ flow' = [src |-> src, dst |-> dst] /\ ipMap' = ipMap /\ everHeld' = everHeld
      /\ seen' = [src |-> {Lookup(ipMap, src)}, dst |-> {Lookup(ipMap, dst)}]
  BY DEF ReadEvent, clusterVars, cacheVars, ghostVars
<1>2. \A end \in Both : name[end] = Absent /\ zone[end] = Unknown
  BY <1>1 DEF ResolverInv
<1>3. \A end \in Both : NameWasTrue(end)' /\ ZoneWasTrue(end)'
  BY <1>1, <1>2, NamesAssumption DEF NameWasTrue, ZoneWasTrue
<1>4. stage' \in Stages /\ stage' # <<"idle">> /\ HostWasTrue'
  BY <1>1 DEF Stages, Both, HostWasTrue
<1>5. flow' \in [src : PodIPs, dst : Addresses]
  BY <1>1
<1>6. \A end \in Both : seen'[end] = {Lookup(ipMap, flow'[end])}
  BY <1>1 DEF Both
<1>7. \A end \in Both : SeenIsTrue(end)'
  <2> SUFFICES ASSUME NEW end \in Both
               PROVE  SeenIsTrue(end)'
    OBVIOUS
  <2> DEFINE ip == flow'[end]
  <2>1. \/ Lookup(ipMap, ip) = Absent
        \/ Lookup(ipMap, ip) \in Entry /\ <<ip, Lookup(ipMap, ip).pod, Lookup(ipMap, ip).node>> \in everHeld
    BY EntryIsTrue
  <2>2. seen'[end] = {Lookup(ipMap, ip)}
    BY <1>6
  <2> HIDE DEF ip
  <2>3. \A e \in Entries(end)' : e \in Entry /\ <<ip, e.pod, e.node>> \in everHeld
    BY <2>1, <2>2 DEF Entries
  <2> QED  BY <1>1, <2>2, <2>3 DEF SeenIsTrue, ip
<1>8. \A end \in Both : MissIsSeen(end)'
  BY <1>1 DEF MissIsSeen, ToBeNamed, Both
<1> QED  BY <1>1, <1>3, <1>4, <1>5, <1>7, <1>8 DEF ResolverInv

LEMMA LookupPodNameKeeps ==
    ASSUME ClusterInv, ResolverInv, NEW end \in Both, LookupPodName(end)
    PROVE  ResolverInv'
<1>1. /\ stage = <<"podName", end>> /\ clusterVars' = clusterVars /\ flow' = flow
      /\ zone' = zone /\ seen' = seen
  BY DEF LookupPodName
<1>2. stage # <<"idle">>
  BY <1>1
<1>3. name \in [Both -> Pods \cup Services \cup PodIPs \cup ClusterIPs \cup {Absent}]
      /\ zone \in [Both -> Zones \cup {Unknown}] /\ Lookup(ipMap, flow[end]) \in seen[end]
      /\ \A e \in Both : MissIsSeen(e)
  BY <1>2 DEF ResolverInv, SeenIsTrue
<1>4. CASE flow[end] \in DOMAIN ipMap
  <2> DEFINE entry == ipMap[flow[end]]
  <2>1. name' = [name EXCEPT ![end] = entry.pod] /\ stage' = After("podName", end)
    BY <1>4 DEF LookupPodName
  <2>2. entry \in Entry /\ entry # Absent /\ entry \in seen[end]
    BY <1>3, <1>4, EntryIsTrue
  <2> HIDE DEF entry
  <2>3. entry \in Entries(end)' /\ entry.pod \in Pods
    BY <1>1, <2>2 DEF Entries, Entry
  <2>4. name'[end] = entry.pod /\ name'[end] \notin Services
    BY <1>3, <2>1, <2>3, NamesAssumption
  <2>5. NameWasTrue(end)'
    BY <2>3, <2>4 DEF NameWasTrue
  <2>6. \A e \in Both : name'[e] = name[e] \/ NameWasTrue(e)'
    BY <1>3, <2>1, <2>5
  <2>7. stage' \in Stages \ {<<"idle">>} /\ HostWasTrue'
    BY <2>1, AfterIs DEF HostWasTrue
  <2>8. name' \in [Both -> Pods \cup Services \cup PodIPs \cup ClusterIPs \cup {Absent}]
    BY <1>3, <2>1, <2>3
  <2>9. ASSUME NEW e \in Both
        PROVE  MissIsSeen(e)'
    <3>0. stage' # <<"serviceName", e>>
      BY <2>1, AfterIs
    <3>1. CASE e = end
      BY <2>3, <2>4, <3>0, <3>1 DEF MissIsSeen
    <3>2. CASE e # end
      <4>1. name'[e] = name[e] /\ (ToBeNamed(e) => ToBeNamed(e)')
        BY <1>1, <1>3, <2>1, <3>2 DEF ToBeNamed, After, Both
      <4> QED  BY <1>1, <1>3, <3>0, <4>1 DEF MissIsSeen
    <3> QED  BY <3>1, <3>2
  <2> QED  BY <1>1, <1>2, <1>3, <2>6, <2>7, <2>8, <2>9, LookupKeepsRest
<1>5. CASE flow[end] \notin DOMAIN ipMap
  <2>1. name' = name /\ stage' = <<"serviceName", end>>
    BY <1>5 DEF LookupPodName
  <2>2. stage' \in Stages \ {<<"idle">>} /\ HostWasTrue'
    BY <2>1 DEF Stages, HostWasTrue
  <2>3. Absent \in seen[end]
    BY <1>3, <1>5 DEF Lookup
  <2>4. ASSUME NEW e \in Both
        PROVE  MissIsSeen(e)'
    <3>1. CASE e = end
      BY <1>1, <2>3, <3>1 DEF MissIsSeen
    <3>2. CASE e # end
      <4>1. (ToBeNamed(e) => ToBeNamed(e)') /\ stage' # <<"serviceName", e>>
        BY <1>1, <2>1, <3>2 DEF ToBeNamed, Both
      <4> QED  BY <1>1, <1>3, <2>1, <4>1 DEF MissIsSeen
    <3> QED  BY <3>1, <3>2
  <2> QED  BY <1>1, <1>2, <1>3, <2>1, <2>2, <2>4, LookupKeepsRest
<1> QED  BY <1>4, <1>5

LEMMA LookupServiceNameKeeps ==
    ASSUME ClusterInv, ResolverInv, NEW end \in Both, LookupServiceName(end)
    PROVE  ResolverInv'
<1> DEFINE found == IF flow[end] \in DOMAIN svcMap THEN svcMap[flow[end]] ELSE flow[end]
<1>1. /\ stage = <<"serviceName", end>> /\ clusterVars' = clusterVars /\ flow' = flow /\ zone' = zone
      /\ name' = [name EXCEPT ![end] = found] /\ stage' = After("serviceName", end)
      /\ seen' = seen /\ everServed' = everServed
  BY DEF LookupServiceName, clusterVars, ghostVars
<1>2. stage # <<"idle">> /\ stage' \in Stages \ {<<"idle">>} /\ HostWasTrue'
  BY <1>1, AfterIs DEF HostWasTrue
<1>3. name \in [Both -> Pods \cup Services \cup PodIPs \cup ClusterIPs \cup {Absent}]
      /\ zone \in [Both -> Zones \cup {Unknown}] /\ flow[end] \in Addresses
      /\ \A e \in Both : MissIsSeen(e) /\ NameWasTrue(e)
  BY <1>2 DEF ResolverInv, Both, Addresses
<1>4. (found \in Services /\ <<flow[end], found>> \in everServed) \/ found = flow[end]
  BY DEF ClusterInv, CacheOK, EntriesWereTrue
<1>5. found \in Services \cup Addresses /\ found \notin Pods
      /\ (found \in Services => <<flow[end], found>> \in everServed)
  <2>1. CASE found \in Services /\ <<flow[end], found>> \in everServed
    BY <2>1, NamesAssumption
  <2>2. CASE found = flow[end]
    BY <1>3, <2>2, NamesAssumption DEF Addresses
  <2> QED  BY <1>4, <2>1, <2>2
<1> HIDE DEF found
<1>6. name'[end] = found
  BY <1>1, <1>3
<1>7. NameWasTrue(end)'
  BY <1>1, <1>5, <1>6 DEF NameWasTrue
<1>8. \A e \in Both : name'[e] = name[e] \/ NameWasTrue(e)'
  BY <1>1, <1>3, <1>7
<1>9. name' \in [Both -> Pods \cup Services \cup PodIPs \cup ClusterIPs \cup {Absent}]
  BY <1>1, <1>3, <1>5 DEF Addresses
<1>10. ASSUME NEW e \in Both
       PROVE  MissIsSeen(e)'
  <2>0. stage' # <<"serviceName", e>>
    BY <1>1, AfterIs
  <2>1. CASE e # end
    <3>1. name'[e] = name[e] /\ (ToBeNamed(e) => ToBeNamed(e)')
      BY <1>1, <1>3, <2>1 DEF ToBeNamed, After, Both
    <3> QED  BY <1>1, <1>3, <2>0, <3>1 DEF MissIsSeen
  <2>2. CASE e = end
    <3>1. Absent \in seen[end]
      BY <1>1, <1>3 DEF MissIsSeen
    <3> QED  BY <1>1, <2>0, <2>2, <3>1 DEF MissIsSeen
  <2> QED  BY <2>1, <2>2
<1> QED  BY <1>1, <1>2, <1>3, <1>8, <1>9, <1>10, LookupKeepsRest

\* Past the names: the lookups for zones take nothing of them back.
LEMMA NamesStay ==
    ASSUME ResolverInv, NEW end \in Both, name' = name, seen' = seen,
           \A e \in Both : stage' # <<"serviceName", e>>,
           stage \in {<<"podNode", end>>, <<"nodeZone", end>>}
    PROVE  \A e \in Both : MissIsSeen(e)'
<1>1. stage # <<"idle">> /\ \A e \in Both : ~ToBeNamed(e)
  BY DEF ToBeNamed
<1>2. \A e \in Both : name[e] \in Pods \/ Absent \in seen[e]
  BY <1>1 DEF ResolverInv, MissIsSeen
<1> QED  BY <1>2 DEF MissIsSeen

LEMMA LookupPodNodeKeeps ==
    ASSUME ClusterInv, ResolverInv, NEW end \in Both, LookupPodNode(end)
    PROVE  ResolverInv'
<1>1. /\ stage = <<"podNode", end>> /\ clusterVars' = clusterVars /\ flow' = flow
      /\ zone' = zone /\ name' = name /\ seen' = seen
  BY DEF LookupPodNode
<1>2. stage # <<"idle">> /\ \A e \in Both : MissIsSeen(e)'
  <2>1. \A e \in Both : stage' # <<"serviceName", e>>
    BY AfterIs DEF LookupPodNode
  <2> QED  BY <1>1, <2>1, NamesStay
<1>3. name \in [Both -> Pods \cup Services \cup PodIPs \cup ClusterIPs \cup {Absent}]
      /\ zone \in [Both -> Zones \cup {Unknown}] /\ Lookup(ipMap, flow[end]) \in seen[end]
  BY <1>2 DEF ResolverInv, SeenIsTrue
<1>4. CASE flow[end] \in DOMAIN ipMap
  <2> DEFINE entry == ipMap[flow[end]]
  <2>1. host' = entry.node /\ stage' = <<"nodeZone", end>>
    BY <1>4 DEF LookupPodNode
  <2>2. entry # Absent /\ entry \in seen[end]
    BY <1>3, <1>4, EntryIsTrue
  <2> HIDE DEF entry
  <2>3. entry \in Entries(end)'
    BY <1>1, <2>2 DEF Entries
  <2>4. \A e \in Both : stage' = <<"nodeZone", e>> => e = end
    BY <2>1
  <2>5. HostWasTrue'
    BY <2>1, <2>3, <2>4 DEF HostWasTrue
  <2>6. stage' \in Stages \ {<<"idle">>}
    BY <2>1 DEF Stages
  <2> QED  BY <1>1, <1>2, <1>3, <2>5, <2>6, LookupKeepsRest
<1>5. CASE flow[end] \notin DOMAIN ipMap
  <2>1. stage' = After("podNode", end)
    BY <1>5 DEF LookupPodNode
  <2>2. stage' \in Stages \ {<<"idle">>} /\ HostWasTrue'
    BY <2>1, AfterIs DEF HostWasTrue
  <2> QED  BY <1>1, <1>2, <1>3, <2>2, LookupKeepsRest
<1> QED  BY <1>4, <1>5

LEMMA LookupNodeZoneKeeps ==
    ASSUME ClusterInv, ResolverInv, NEW end \in Both, LookupNodeZone(end)
    PROVE  ResolverInv'
<1> DEFINE label == Lookup(nodeMap, host)
<1>1. /\ stage = <<"nodeZone", end>> /\ clusterVars' = clusterVars /\ flow' = flow /\ name' = name
      /\ zone' = [zone EXCEPT ![end] = ZoneOf(label)] /\ stage' = After("nodeZone", end)
      /\ seen' = seen /\ everZoned' = everZoned
  BY DEF LookupNodeZone, clusterVars, ghostVars
<1>2. stage # <<"idle">> /\ stage' \in Stages \ {<<"idle">>} /\ HostWasTrue'
      /\ \A e \in Both : MissIsSeen(e)'
  <2>1. /\ stage' \in Stages \ {<<"idle">>} /\ HostWasTrue'
        /\ \A e \in Both : stage' # <<"serviceName", e>>
    BY <1>1, AfterIs DEF HostWasTrue
  <2> QED  BY <1>1, <2>1, NamesStay
<1>3. name \in [Both -> Pods \cup Services \cup PodIPs \cup ClusterIPs \cup {Absent}]
      /\ zone \in [Both -> Zones \cup {Unknown}]
  BY DEF ResolverInv
<1>4. PICK entry \in Entries(end) : entry.node = host
  BY <1>1, <1>2 DEF ResolverInv, HostWasTrue
<1>5. label = Absent \/ (label \in Zones \cup {Unknown} /\ <<host, label>> \in everZoned)
  BY DEF ClusterInv, CacheOK, EntriesWereTrue, Lookup, ZoneLabels
<1> HIDE DEF label
<1>6. ZoneOf(label) = Unknown
      \/ (ZoneOf(label) \in Zones /\ <<host, ZoneOf(label)>> \in everZoned)
  BY <1>5 DEF ZoneOf
<1>7. zone'[end] = ZoneOf(label) /\ zone' \in [Both -> Zones \cup {Unknown}]
  BY <1>1, <1>3, <1>6
<1>8. ZoneWasTrue(end)'
  BY <1>1, <1>4, <1>6, <1>7 DEF ZoneWasTrue, Entries
<1>9. \A e \in Both : zone'[e] = zone[e] \/ ZoneWasTrue(e)'
  BY <1>1, <1>3, <1>8
<1> QED  BY <1>1, <1>2, <1>3, <1>7, <1>9, LookupKeepsRest

LEMMA RecordFlowKeeps ==
    ASSUME ResolverInv, RecordFlow
    PROVE  ResolverInv'
<1>1. /\ stage' = <<"idle">> /\ name' = [end \in Both |-> Absent]
      /\ zone' = [end \in Both |-> Unknown]
  BY DEF RecordFlow, Both
<1> QED  BY <1>1 DEF ResolverInv, Stages

-----------------------------------------------------------------------------
LEMMA ResolverInitInv == ResolverInit => ClusterInv /\ ResolverInv
<1> SUFFICES ASSUME ResolverInit
             PROVE  ClusterInv /\ ResolverInv
  OBVIOUS
<1>1. ClusterInv
  BY ClusterInitInv DEF ResolverInit
<1>2. /\ stage = <<"idle">> /\ name = [end \in Both |-> Absent]
      /\ zone = [end \in Both |-> Unknown]
  BY DEF ResolverInit, Both
<1> QED  BY <1>1, <1>2 DEF ResolverInv, Stages

LEMMA ResolverNextInv ==
    ClusterInv /\ ResolverInv /\ [ResolverNext]_vars => ClusterInv' /\ ResolverInv'
<1> SUFFICES ASSUME ClusterInv, ResolverInv, [ResolverNext]_vars
             PROVE  ClusterInv' /\ ResolverInv'
  OBVIOUS
<1>1. CASE Cluster
  <2>1. /\ ClusterNext /\ UNCHANGED <<stage, flow, name, host, zone>>
        /\ stage # <<"idle">> => \A end \in Both :
             seen'[end] = seen[end] \cup {Lookup(ipMap', flow[end])}
    BY <1>1 DEF Cluster
  <2>2. ClusterInv'
    BY <2>1, ClusterNextInv
  <2> QED  BY <2>1, <2>2, GhostsGrow, ClusterKeepsResolved
<1>2. CASE vars' = vars
  <2>1. UNCHANGED clusterVars /\ UNCHANGED readerVars
    BY <1>2 DEF vars
  <2>2. UNCHANGED <<everHeld, everServed, everZoned, ipMap>>
    BY <2>1 DEF clusterVars, ghostVars, cacheVars
  <2>3. stage # <<"idle">> => \A end \in Both : Lookup(ipMap, flow[end]) \in seen[end]
    BY DEF ResolverInv, SeenIsTrue
  <2>4. UNCHANGED <<stage, flow, name, host, zone>>
        /\ (stage # <<"idle">> => \A end \in Both :
               seen'[end] = seen[end] \cup {Lookup(ipMap', flow[end])})
    BY <2>1, <2>2, <2>3 DEF readerVars
  <2> QED  BY <2>1, <2>2, <2>4, ClusterStutters, ClusterKeepsResolved
<1>3. ASSUME NEW src \in PodIPs, NEW dst \in Addresses, ReadEvent(src, dst)
      PROVE  ClusterInv' /\ ResolverInv'
  <2>1. UNCHANGED clusterVars
    BY <1>3 DEF ReadEvent
  <2> QED  BY <1>3, <2>1, ReadEventKeeps, ClusterStutters
<1>4. ASSUME NEW end \in Both,
             LookupPodName(end) \/ LookupServiceName(end) \/ LookupPodNode(end) \/ LookupNodeZone(end)
      PROVE  ClusterInv' /\ ResolverInv'
  <2>1. UNCHANGED clusterVars
    BY <1>4 DEF LookupPodName, LookupServiceName, LookupPodNode, LookupNodeZone
  <2> QED  BY <1>4, <2>1, LookupPodNameKeeps, LookupServiceNameKeeps, LookupPodNodeKeeps,
              LookupNodeZoneKeeps, ClusterStutters
<1>5. CASE RecordFlow
  <2>1. UNCHANGED clusterVars
    BY <1>5 DEF RecordFlow
  <2> QED  BY <1>5, <2>1, RecordFlowKeeps, ClusterStutters
<1> QED  BY <1>1, <1>2, <1>3, <1>4, <1>5 DEF ResolverNext, Both

LEMMA ResolverInvariant == ResolverSpec => [](ClusterInv /\ ResolverInv)
<1>1. ResolverInit => ClusterInv /\ ResolverInv
  BY ResolverInitInv
<1>2. ClusterInv /\ ResolverInv /\ [ResolverNext]_vars => (ClusterInv /\ ResolverInv)'
  BY ResolverNextInv
<1> QED  BY <1>1, <1>2, PTL DEF ResolverSpec

\* A crossing of zones is never put together from nothing: at each end some pod
\* once had the address on a node that once had the very label the end got,
\* although the eight lookups of one event may see as many different caches
\* (reader.go:75-88,125-128).
THEOREM CrossingWasPossibleCorrect == ResolverSpec => []CrossingWasPossible
<1>1. ClusterInv /\ ResolverInv => CrossingWasPossible
  <2> SUFFICES ASSUME ResolverInv, stage = <<"resolved">>, NEW end \in Both, zone[end] # Unknown
               PROVE  /\ zone[end] \in Zones
                      /\ \E h \in everHeld : h[1] = flow[end] /\ <<h[3], zone[end]>> \in everZoned
    BY DEF CrossingWasPossible, Both
  <2>1. stage # <<"idle">>
    OBVIOUS
  <2>2. SeenIsTrue(end) /\ ZoneWasTrue(end)
    BY <2>1 DEF ResolverInv
  <2>3. PICK e \in Entries(end) : <<e.node, zone[end]>> \in everZoned
    BY <2>2 DEF ZoneWasTrue
  <2> DEFINE h == <<flow[end], e.pod, e.node>>
  <2>4. h \in everHeld /\ h[1] = flow[end] /\ h[3] = e.node
    BY <2>2 DEF SeenIsTrue
  <2> HIDE DEF h
  <2> QED  BY <2>2, <2>3, <2>4 DEF ZoneWasTrue
<1> QED  BY <1>1, ResolverInvariant, PTL

\* What an event gets for an address is from what the cache said of it while the
\* event was resolved: its pod and its zone are of one entry, unless a handler
\* changed the entry between the lookups, and a service named has had the address
\* (reader.go:65-88).
THEOREM NameAndZoneAgreeCorrect == ResolverSpec => []NameAndZoneAgree
<1>1. ClusterInv /\ ResolverInv => NameAndZoneAgree
  <2> SUFFICES ASSUME ResolverInv, stage = <<"resolved">>, NEW end \in Both
               PROVE  /\ name[end] \in Pods => \E e \in Entries(end) : e.pod = name[end]
                      /\ name[end] \in Services => <<flow[end], name[end]>> \in everServed
                      /\ zone[end] # Unknown =>
                           \E e \in Entries(end) : /\ <<e.node, zone[end]>> \in everZoned
                                                   /\ e.pod = name[end] \/ seen[end] # {e}
    BY DEF NameAndZoneAgree, Entries
  <2>1. stage # <<"idle">> /\ ~ToBeNamed(end)
    BY DEF ToBeNamed
  <2>2. NameWasTrue(end) /\ ZoneWasTrue(end) /\ (name[end] \in Pods \/ Absent \in seen[end])
    BY <2>1 DEF ResolverInv, MissIsSeen
  <2>3. ASSUME zone[end] # Unknown
        PROVE  \E e \in Entries(end) : /\ <<e.node, zone[end]>> \in everZoned
                                       /\ e.pod = name[end] \/ seen[end] # {e}
    <3>1. PICK e \in Entries(end) : <<e.node, zone[end]>> \in everZoned
      BY <2>2, <2>3 DEF ZoneWasTrue
    <3>2. seen[end] = {e} => e.pod = name[end]
      BY <2>2 DEF NameWasTrue, Entries
    <3> QED  BY <3>1, <3>2
  <2> QED  BY <2>2, <2>3 DEF NameWasTrue
<1> QED  BY <1>1, ResolverInvariant, PTL

-----------------------------------------------------------------------------
(* Convergence.  Again one watch first, whatever it watches: At[f] are the  *)
(* cache keys that a fact f is about, and As[f] is the value it puts there. *)

\* A tombstone does nothing, a deletion empties, the others set
\* (informer.go:44-141).
Effect(At, As, note) ==
    LET f == <<note.key, note.obj>>
    IN  CASE note.type = "tombstone" -> [on |-> {}, to |-> {}]
          [] note.type = "delete"    -> [on |-> At[f], to |-> {}]
          [] OTHER                   -> [on |-> At[f], to |-> {As[f]}]

\* What is cached for x, as a set of at most one value.
Cached(m, x) == IF x \in DOMAIN m THEN {m[x]} ELSE {}

\* When all of the queue has been handled, v is cached for x, which has now.
Settles(At, As, queue, x, now, v) ==
    \/ /\ \A i \in 1 .. Len(queue) : x \notin Effect(At, As, queue[i]).on
       /\ now = v
    \/ \E i \in 1 .. Len(queue) :
         /\ x \in Effect(At, As, queue[i]).on /\ Effect(At, As, queue[i]).to = v
         /\ \A j \in (i + 1) .. Len(queue) : x \notin Effect(At, As, queue[j]).on

\* In view (the API server's, or the informer's copy), x is of the object k.
Owns(At, view, k, x) == view[k] # Absent /\ x \in At[<<k, view[k]>>]
Expected(Keys, At, As, view, x) ==
    {As[<<k, view[k]>>] : k \in {l \in Keys : Owns(At, view, l, x)}}

\* No two objects have x; whoever the informer thinks has it does have it; and the
\* cache is going where the informer's copy is.
Agreed(Keys, At, As, api, known, queue, x, now) ==
    /\ \A k, l \in Keys : Owns(At, api, k, x) /\ Owns(At, api, l, x) => k = l
    /\ \A k \in Keys : Owns(At, known, k, x) => Owns(At, api, k, x)
    /\ Settles(At, As, queue, x, now, Expected(Keys, At, As, known, x))

LEMMA SettlesAppend ==
    ASSUME NEW At, NEW As, NEW S, NEW queue \in Seq(S), NEW note \in S,
           NEW x, NEW now, NEW v, Settles(At, As, queue, x, now, v)
    PROVE  /\ x \in Effect(At, As, note).on =>
                Settles(At, As, Append(queue, note), x, now, Effect(At, As, note).to)
           /\ x \notin Effect(At, As, note).on => Settles(At, As, Append(queue, note), x, now, v)
<1> DEFINE n == Len(queue)
           longer == Append(queue, note)
<1>1. /\ n \in Nat /\ Len(longer) = n + 1 /\ longer[n + 1] = note
      /\ \A i \in 1 .. n : longer[i] = queue[i]
  OBVIOUS
<1> HIDE DEF longer
<1>2. CASE x \in Effect(At, As, note).on
  <2>1. n + 1 \in 1 .. Len(longer) /\ \A j \in (n + 1) + 1 .. Len(longer) : FALSE
    BY <1>1
  <2>2. Settles(At, As, longer, x, now, Effect(At, As, note).to)
    BY <1>1, <1>2, <2>1 DEF Settles
  <2> QED  BY <1>2, <2>2 DEF longer
<1>3. CASE x \notin Effect(At, As, note).on
  <2>1. CASE /\ \A i \in 1 .. n : x \notin Effect(At, As, queue[i]).on
             /\ now = v
    <3>1. \A i \in 1 .. Len(longer) : i \in 1 .. n \/ i = n + 1
      BY <1>1
    <3>2. \A i \in 1 .. Len(longer) : x \notin Effect(At, As, longer[i]).on
      BY <1>1, <1>3, <2>1, <3>1
    <3>3. Settles(At, As, longer, x, now, v)
      BY <2>1, <3>2 DEF Settles
    <3> QED  BY <1>3, <3>3 DEF longer
  <2>2. ASSUME NEW i \in 1 .. n,
               x \in Effect(At, As, queue[i]).on, Effect(At, As, queue[i]).to = v,
               \A j \in (i + 1) .. n : x \notin Effect(At, As, queue[j]).on
        PROVE  Settles(At, As, longer, x, now, v)
    <3>1. \A j \in (i + 1) .. Len(longer) : (j \in (i + 1) .. n /\ j \in 1 .. n) \/ j = n + 1
      BY <1>1
    <3>2. \A j \in (i + 1) .. Len(longer) : x \notin Effect(At, As, longer[j]).on
      BY <1>1, <1>3, <2>2, <3>1
    <3>3. i \in 1 .. Len(longer) /\ longer[i] = queue[i]
      BY <1>1
    <3> QED  BY <2>2, <3>2, <3>3 DEF Settles
  <2> QED  BY <1>3, <2>1, <2>2 DEF Settles, longer
<1> QED  BY <1>2, <1>3

\* The handler does what the first notification says.
LEMMA SettlesTail ==
    ASSUME NEW At, NEW As, NEW S, NEW queue \in Seq(S), queue # <<>>,
           NEW x, NEW now, NEW v, Settles(At, As, queue, x, now, v)
    PROVE  Settles(At, As, Tail(queue), x,
                   IF x \in Effect(At, As, Head(queue)).on
                   THEN Effect(At, As, Head(queue)).to ELSE now, v)
<1> DEFINE n == Len(queue)
           rest == Tail(queue)
           after == IF x \in Effect(At, As, queue[1]).on THEN Effect(At, As, queue[1]).to ELSE now
<1>1. /\ n \in Nat \ {0} /\ Len(rest) = n - 1 /\ Head(queue) = queue[1]
      /\ \A i \in 1 .. Len(rest) : rest[i] = queue[i + 1] /\ i + 1 \in 1 .. n
  OBVIOUS
<1> HIDE DEF rest
<1>2. Settles(At, As, rest, x, after, v)
  <2>1. CASE /\ \A i \in 1 .. n : x \notin Effect(At, As, queue[i]).on
             /\ now = v
    <3>1. after = v
      BY <1>1, <2>1
    <3>2. \A i \in 1 .. Len(rest) : x \notin Effect(At, As, rest[i]).on
      BY <1>1, <2>1
    <3> QED  BY <3>1, <3>2 DEF Settles
  <2>2. ASSUME NEW i \in 1 .. n,
               x \in Effect(At, As, queue[i]).on, Effect(At, As, queue[i]).to = v,
               \A j \in (i + 1) .. n : x \notin Effect(At, As, queue[j]).on
        PROVE  Settles(At, As, rest, x, after, v)
    <3>1. CASE i = 1
      <4>1. \A j \in 1 .. Len(rest) : j + 1 \in (i + 1) .. n
        BY <1>1, <3>1
      <4>2. \A j \in 1 .. Len(rest) : x \notin Effect(At, As, rest[j]).on
        BY <1>1, <2>2, <4>1
      <4>3. after = v
        BY <2>2, <3>1
      <4> QED  BY <4>2, <4>3 DEF Settles
    <3>2. CASE i # 1
      <4>1. PICK h \in 1 .. Len(rest) : h + 1 = i
        <5>1. i - 1 \in 1 .. Len(rest) /\ (i - 1) + 1 = i
          BY <1>1, <3>2
        <5> QED  BY <5>1
      <4>2. \A j \in (h + 1) .. Len(rest) : j \in 1 .. Len(rest) /\ j + 1 \in (i + 1) .. n
        BY <1>1, <4>1
      <4>3. \A j \in (h + 1) .. Len(rest) : x \notin Effect(At, As, rest[j]).on
        BY <1>1, <2>2, <4>2
      <4>4. rest[h] = queue[i]
        BY <1>1, <4>1
      <4> QED  BY <2>2, <4>3, <4>4 DEF Settles
    <3> QED  BY <3>1, <3>2
  <2> QED  BY <2>1, <2>2 DEF Settles
<1> QED  BY <1>1, <1>2 DEF rest

\* A relist adds notifications: none about x, or one.
LEMMA SettlesMore ==
    ASSUME NEW At, NEW As, NEW S, NEW queue \in Seq(S), NEW more \in Seq(S),
           NEW x, NEW now, NEW v, Settles(At, As, queue, x, now, v)
    PROVE  /\ (\A i \in 1 .. Len(more) : x \notin Effect(At, As, more[i]).on)
                => Settles(At, As, queue \o more, x, now, v)
           /\ \A i \in 1 .. Len(more) :
                /\ x \in Effect(At, As, more[i]).on
                /\ \A j \in 1 .. Len(more) : j # i => x \notin Effect(At, As, more[j]).on
                => Settles(At, As, queue \o more, x, now, Effect(At, As, more[i]).to)
<1> DEFINE n == Len(queue)
           both == queue \o more
<1>1. /\ n \in Nat /\ Len(more) \in Nat /\ Len(both) = n + Len(more)
      /\ \A i \in 1 .. n : both[i] = queue[i] /\ i \in 1 .. Len(both)
      /\ \A i \in 1 .. Len(more) : both[n + i] = more[i] /\ n + i \in 1 .. Len(both)
  OBVIOUS
<1>2. \A i \in 1 .. Len(both) : i \in 1 .. n \/ \E h \in 1 .. Len(more) : i = n + h
  <2> SUFFICES ASSUME NEW i \in 1 .. Len(both), i \notin 1 .. n
               PROVE  \E h \in 1 .. Len(more) : i = n + h
    OBVIOUS
  <2>1. i - n \in 1 .. Len(more) /\ i = n + (i - n)
    BY <1>1
  <2> QED  BY <2>1
<1> HIDE DEF both
<1>3. ASSUME \A i \in 1 .. Len(more) : x \notin Effect(At, As, more[i]).on
      PROVE  Settles(At, As, both, x, now, v)
  <2>1. CASE /\ \A i \in 1 .. n : x \notin Effect(At, As, queue[i]).on
             /\ now = v
    <3>1. \A i \in 1 .. Len(both) : x \notin Effect(At, As, both[i]).on
      BY <1>1, <1>2, <1>3, <2>1
    <3> QED  BY <2>1, <3>1 DEF Settles
  <2>2. ASSUME NEW i \in 1 .. n,
               x \in Effect(At, As, queue[i]).on, Effect(At, As, queue[i]).to = v,
               \A j \in (i + 1) .. n : x \notin Effect(At, As, queue[j]).on
        PROVE  Settles(At, As, both, x, now, v)
    <3>1. ASSUME NEW j \in (i + 1) .. Len(both)
          PROVE  x \notin Effect(At, As, both[j]).on
      <4>1. j \in 1 .. Len(both) /\ (j \in 1 .. n => j \in (i + 1) .. n)
        BY <1>1
      <4>2. CASE j \in 1 .. n
        BY <1>1, <2>2, <4>1, <4>2
      <4>3. CASE \E h \in 1 .. Len(more) : j = n + h
        BY <1>1, <1>3, <4>3
      <4> QED  BY <1>2, <4>1, <4>2, <4>3
    <3> QED  BY <1>1, <2>2, <3>1 DEF Settles
  <2> QED  BY <2>1, <2>2 DEF Settles
<1>4. ASSUME NEW i \in 1 .. Len(more), x \in Effect(At, As, more[i]).on,
             \A j \in 1 .. Len(more) : j # i => x \notin Effect(At, As, more[j]).on
      PROVE  Settles(At, As, both, x, now, Effect(At, As, more[i]).to)
  <2>1. both[n + i] = more[i] /\ n + i \in 1 .. Len(both)
    BY <1>1
  <2>2. ASSUME NEW j \in ((n + i) + 1) .. Len(both)
        PROVE  x \notin Effect(At, As, both[j]).on
    <3>1. PICK h \in 1 .. Len(more) : j = n + h
      BY <1>1, <1>2
    <3>2. h # i
      BY <1>1, <3>1
    <3> QED  BY <1>1, <1>4, <3>1, <3>2
  <2> QED  BY <1>4, <2>1, <2>2 DEF Settles
<1> QED  BY <1>3, <1>4 DEF both

LEMMA StoringIs ==
    ASSUME NEW k, NEW old, NEW new, new # Absent
    PROVE  \/ NoteOf(k, old, new) = [type |-> "add", key |-> k, obj |-> new]
           \/ NoteOf(k, old, new) = [type |-> "update", key |-> k, obj |-> new]
BY DEF NoteOf, PodWatch!Note

LEMMA StoringPuts ==
    ASSUME NEW At, NEW As, NEW k, NEW old, NEW new, new # Absent, NEW x
    PROVE  x \in Effect(At, As, NoteOf(k, old, new)).on <=> x \in At[<<k, new>>]
BY StoringIs DEF Effect

LEMMA StoringSets ==
    ASSUME NEW At, NEW As, NEW k, NEW old, NEW new, new # Absent
    PROVE  Effect(At, As, NoteOf(k, old, new)).to = {As[<<k, new>>]}
BY StoringIs DEF Effect

LEMMA RemovingEmpties ==
    ASSUME NEW At, NEW As, NEW k, NEW old, old # Absent, NEW x
    PROVE  /\ x \in Effect(At, As, NoteOf(k, old, Absent)).on <=> x \in At[<<k, old>>]
           /\ Effect(At, As, NoteOf(k, old, Absent)).to = {}
<1>1. NoteOf(k, old, Absent) = [type |-> "delete", key |-> k, obj |-> old]
  BY DEF NoteOf, PodWatch!Note
<1> QED  BY <1>1 DEF Effect

\* Where x has one object, what is expected of it is that object's.
LEMMA ExpectedIs ==
    ASSUME NEW Keys, NEW At, NEW As, NEW view, NEW x,
           \A k, l \in Keys : Owns(At, view, k, x) /\ Owns(At, view, l, x) => k = l
    PROVE  /\ \A k \in Keys : Owns(At, view, k, x) =>
                Expected(Keys, At, As, view, x) = {As[<<k, view[k]>>]}
           /\ (\A k \in Keys : ~ Owns(At, view, k, x)) =>
                Expected(Keys, At, As, view, x) = {}
BY DEF Expected

\* An object is stored or removed.  What has x keeps it until it is removed, while
\* the watch can tell; and nothing gets x that another object has.
LEMMA AgreedChange ==
    ASSUME NEW Keys, NEW facts, NEW At, NEW As,
           NEW api, NEW known, NEW watching, NEW queue,
           WatchOK(Keys, facts, api, known, watching, queue),
           watching = "never" => \A l \in Keys : known[l] = Absent,
           NEW x, NEW now, Agreed(Keys, At, As, api, known, queue, x, now),
           NEW k \in Keys, NEW new, Told(facts, k, new), api[k] # new,
           Owns(At, api, k, x) => \/ new # Absent /\ x \in At[<<k, new>>]
                                  \/ new = Absent /\ watching # "down",
           new # Absent /\ x \in At[<<k, new>>] =>
             \A l \in Keys : Owns(At, api, l, x) => l = k,
           NEW known2, NEW queue2,
           IF watching = "up"
           THEN /\ known2 = [known EXCEPT ![k] = new]
                /\ queue2 = Append(queue, NoteOf(k, known[k], new))
           ELSE known2 = known /\ queue2 = queue
    PROVE  Agreed(Keys, At, As, [api EXCEPT ![k] = new], known2, queue2, x, now)
<1> DEFINE api2 == [api EXCEPT ![k] = new]
<1>1. /\ api2[k] = new /\ \A l \in Keys : l # k => api2[l] = api[l]
      /\ queue \in Seq(Notes(facts)) /\ watching \in {"never", "up", "down"}
  BY DEF WatchOK
<1> HIDE DEF api2
<1>2. /\ Owns(At, api2, k, x) <=> new # Absent /\ x \in At[<<k, new>>]
      /\ \A l \in Keys : l # k => (Owns(At, api2, l, x) <=> Owns(At, api, l, x))
  BY <1>1 DEF Owns
<1>3. \A l, m \in Keys : Owns(At, api2, l, x) /\ Owns(At, api2, m, x) => l = m
  BY <1>2 DEF Agreed
<1>4. CASE watching # "up"
  <2>1. \A l \in Keys : Owns(At, known, l, x) => Owns(At, api2, l, x)
    <3>1. CASE watching = "never"
      BY <3>1 DEF Owns
    <3>2. CASE watching = "down"
      BY <1>2, <3>2 DEF Agreed
    <3> QED  BY <1>1, <1>4, <3>1, <3>2
  <2> QED  BY <1>3, <1>4, <2>1 DEF Agreed, api2
<1>5. CASE watching = "up"
  <2> DEFINE note == NoteOf(k, known[k], new)
  <2>1. known = api /\ known2 = api2 /\ queue2 = Append(queue, note)
    BY <1>5 DEF WatchOK, api2
  <2>2. note \in Notes(facts)
    BY <2>1, NoteIsTold DEF WatchOK
  <2> HIDE DEF note
  <2>3. Settles(At, As, queue, x, now, Expected(Keys, At, As, api, x))
    BY <2>1 DEF Agreed
  <2>4. /\ x \in Effect(At, As, note).on =>
             Settles(At, As, queue2, x, now, Effect(At, As, note).to)
        /\ x \notin Effect(At, As, note).on =>
             Settles(At, As, queue2, x, now, Expected(Keys, At, As, api, x))
    BY <1>1, <2>1, <2>2, <2>3, SettlesAppend
  <2>5. /\ new = Absent => /\ (x \in Effect(At, As, note).on <=> x \in At[<<k, api[k]>>])
                           /\ Effect(At, As, note).to = {}
        /\ new # Absent => /\ (x \in Effect(At, As, note).on <=> x \in At[<<k, new>>])
                           /\ Effect(At, As, note).to = {As[<<k, new>>]}
    <3>1. CASE new = Absent
      BY <2>1, <3>1, RemovingEmpties DEF note
    <3>2. CASE new # Absent
      <4>1. x \in Effect(At, As, note).on <=> x \in At[<<k, new>>]
        BY <3>2, StoringPuts DEF note
      <4>2. Effect(At, As, note).to = {As[<<k, new>>]}
        BY <3>2, StoringSets DEF note
      <4> QED  BY <3>2, <4>1, <4>2
    <3> QED  BY <3>1, <3>2
  <2>6. Settles(At, As, queue2, x, now, Expected(Keys, At, As, api2, x))
    <3>1. CASE x \in Effect(At, As, note).on /\ new = Absent
      <4>1. Owns(At, api, k, x)
        BY <2>5, <3>1 DEF Owns
      <4>2. \A l \in Keys : ~ Owns(At, api2, l, x)
        BY <1>2, <3>1, <4>1 DEF Agreed
      <4>3. Expected(Keys, At, As, api2, x) = {}
        BY <4>2 DEF Expected
      <4> QED  BY <2>4, <2>5, <3>1, <4>3
    <3>2. CASE x \in Effect(At, As, note).on /\ new # Absent
      <4>1. Owns(At, api2, k, x)
        BY <1>2, <2>5, <3>2
      <4>2. Expected(Keys, At, As, api2, x) = {As[<<k, api2[k]>>]}
        BY <1>3, <4>1, ExpectedIs
      <4> QED  BY <1>1, <2>4, <2>5, <3>2, <4>2
    <3>3. CASE x \notin Effect(At, As, note).on
      <4>1. ~ Owns(At, api2, k, x)
        BY <1>2, <2>5, <3>3
      <4>2. ~ Owns(At, api, k, x)
        BY <2>5, <3>3 DEF Owns
      <4>3. {l \in Keys : Owns(At, api2, l, x)} = {l \in Keys : Owns(At, api, l, x)}
        BY <1>2, <4>1, <4>2
      <4>4. \A l \in Keys : Owns(At, api, l, x) => api2[l] = api[l]
        BY <1>1, <4>2
      <4>5. Expected(Keys, At, As, api2, x) = Expected(Keys, At, As, api, x)
        BY <4>3, <4>4 DEF Expected
      <4> QED  BY <2>4, <3>3, <4>5
    <3> QED  BY <3>1, <3>2, <3>3
  <2> QED  BY <1>3, <2>1, <2>6 DEF Agreed, api2
<1> QED  BY <1>4, <1>5

\* An object is written again.
LEMMA AgreedTouch ==
    ASSUME NEW Keys, NEW facts, NEW At, NEW As, NEW api, NEW known, NEW queue,
           WatchOK(Keys, facts, api, known, "up", queue),
           NEW x, NEW now, Agreed(Keys, At, As, api, known, queue, x, now),
           NEW k \in Keys, api[k] # Absent
    PROVE  Agreed(Keys, At, As, api, known, Append(queue, NoteOf(k, known[k], api[k])), x, now)
<1> DEFINE note == NoteOf(k, known[k], api[k])
<1>1. known = api /\ Told(facts, k, api[k]) /\ queue \in Seq(Notes(facts))
  BY DEF WatchOK
<1>2. note \in Notes(facts)
  BY <1>1, TouchIsTold
<1>3. /\ (x \in Effect(At, As, note).on <=> x \in At[<<k, api[k]>>])
      /\ Effect(At, As, note).to = {As[<<k, api[k]>>]}
  BY StoringPuts, StoringSets
<1> HIDE DEF note
<1>4. x \in Effect(At, As, note).on => Expected(Keys, At, As, api, x) = Effect(At, As, note).to
  <2>1. x \in Effect(At, As, note).on => Owns(At, api, k, x)
    BY <1>3 DEF Owns
  <2> QED  BY <1>3, <2>1, ExpectedIs DEF Agreed
<1>5. Settles(At, As, queue, x, now, Expected(Keys, At, As, api, x))
  BY <1>1 DEF Agreed
<1>6. Settles(At, As, Append(queue, note), x, now, Expected(Keys, At, As, api, x))
  BY <1>1, <1>2, <1>4, <1>5, SettlesAppend
<1> QED  BY <1>1, <1>6 DEF Agreed, note

\* A relist tells the differences: of x, nothing, or what its one object is now.
LEMMA AgreedRelist ==
    ASSUME NEW Keys, NEW facts, NEW At, NEW As,
           NEW api, NEW known, NEW watching, NEW queue,
           WatchOK(Keys, facts, api, known, watching, queue),
           NEW x, NEW now, Agreed(Keys, At, As, api, known, queue, x, now),
           NEW queue2, Relisted(Keys, api, known, queue, queue2)
    PROVE  Agreed(Keys, At, As, api, api, queue2, x, now)
<1> DEFINE S == {k \in Keys : known[k] # api[k]}
<1>1. PICK ks, n : /\ n \in Nat /\ Ordered(ks, n, S) /\ queue2 = queue \o Listed(ks, api, known)
  BY DEF Relisted
<1> DEFINE more == Listed(ks, api, known)
<1>2. ks \in [1 .. n -> S]
  BY <1>1 DEF Ordered
<1>3. queue \in Seq(Notes(facts))
  BY DEF WatchOK
<1>4. more \in [1 .. n -> Notes(facts)] /\ more \in Seq(Notes(facts))
  BY <1>1, <1>2, RelistKeeps
<1>5. Len(more) = n
  BY <1>1, <1>4
<1>6. ASSUME NEW i \in 1 .. n
      PROVE  /\ api[ks[i]] = Absent => x \notin Effect(At, As, more[i]).on
             /\ api[ks[i]] # Absent =>
                  /\ (x \in Effect(At, As, more[i]).on <=> x \in At[<<ks[i], api[ks[i]]>>])
                  /\ Effect(At, As, more[i]).to = {As[<<ks[i], api[ks[i]]>>]}
  <2>1. CASE api[ks[i]] = Absent
    <3>1. more[i] = [type |-> "tombstone", key |-> ks[i], obj |-> known[ks[i]]]
      BY <1>2, <2>1 DEF Listed
    <3> QED  BY <2>1, <3>1 DEF Effect
  <2>2. CASE api[ks[i]] # Absent
    <3>1. more[i] = NoteOf(ks[i], known[ks[i]], api[ks[i]])
      BY <1>2, <2>2 DEF Listed
    <3>2. x \in Effect(At, As, more[i]).on <=> x \in At[<<ks[i], api[ks[i]]>>]
      BY <2>2, <3>1, StoringPuts
    <3>3. Effect(At, As, more[i]).to = {As[<<ks[i], api[ks[i]]>>]}
      BY <2>2, <3>1, StoringSets
    <3> QED  BY <2>2, <3>2, <3>3
  <2> QED  BY <2>1, <2>2
<1> HIDE DEF more
<1>7. \A i \in 1 .. n : ks[i] \in Keys
                        /\ (x \in Effect(At, As, more[i]).on <=> Owns(At, api, ks[i], x))
  BY <1>2, <1>6 DEF Owns
<1>8. \A k, l \in Keys : Owns(At, api, k, x) /\ Owns(At, api, l, x) => k = l
  BY DEF Agreed
<1>9. Settles(At, As, queue, x, now, Expected(Keys, At, As, known, x))
  BY DEF Agreed
<1>10. Settles(At, As, queue \o more, x, now, Expected(Keys, At, As, api, x))
  <2>1. ASSUME NEW i \in 1 .. n, Owns(At, api, ks[i], x)
        PROVE  Settles(At, As, queue \o more, x, now, Expected(Keys, At, As, api, x))
    <3>1. x \in Effect(At, As, more[i]).on
      BY <1>7, <2>1
    <3>2. ASSUME NEW j \in 1 .. n, j # i
          PROVE  x \notin Effect(At, As, more[j]).on
      <4>1. ks[j] # ks[i]
        BY <1>1, <3>2 DEF Ordered
      <4> QED  BY <1>7, <1>8, <2>1, <4>1
    <3>3. Settles(At, As, queue \o more, x, now, Effect(At, As, more[i]).to)
      BY <1>3, <1>4, <1>5, <1>9, <3>1, <3>2, SettlesMore
    <3>4. Effect(At, As, more[i]).to = Expected(Keys, At, As, api, x)
      <4>1. Effect(At, As, more[i]).to = {As[<<ks[i], api[ks[i]]>>]}
        BY <1>6, <2>1 DEF Owns
      <4> QED  BY <1>7, <1>8, <2>1, <4>1, ExpectedIs
    <3> QED  BY <3>3, <3>4
  <2>2. ASSUME \A i \in 1 .. n : ~ Owns(At, api, ks[i], x)
        PROVE  Settles(At, As, queue \o more, x, now, Expected(Keys, At, As, api, x))
    <3>1. Settles(At, As, queue \o more, x, now, Expected(Keys, At, As, known, x))
      BY <1>3, <1>4, <1>5, <1>7, <1>9, <2>2, SettlesMore
    <3>2. ASSUME NEW k \in Keys, Owns(At, api, k, x)
          PROVE  known[k] = api[k]
      BY <1>1, <2>2, <3>2 DEF Ordered
    <3>3. \A k \in Keys : Owns(At, api, k, x) <=> Owns(At, known, k, x)
      BY <3>2 DEF Agreed, Owns
    <3>4. Expected(Keys, At, As, known, x) = Expected(Keys, At, As, api, x)
      BY <3>2, <3>3 DEF Expected
    <3> QED  BY <3>1, <3>4
  <2> QED  BY <2>1, <2>2
<1> QED  BY <1>1, <1>8, <1>10 DEF Agreed, more

\* The handler takes a notification.
LEMMA AgreedDeliver ==
    ASSUME NEW Keys, NEW facts, NEW At, NEW As,
           NEW api, NEW known, NEW watching, NEW queue,
           WatchOK(Keys, facts, api, known, watching, queue), queue # <<>>,
           NEW x, NEW now, Agreed(Keys, At, As, api, known, queue, x, now)
    PROVE  Agreed(Keys, At, As, api, known, Tail(queue), x,
                  IF x \in Effect(At, As, Head(queue)).on
                  THEN Effect(At, As, Head(queue)).to ELSE now)
BY SettlesTail DEF WatchOK, Agreed

\* When every notification has been handled, the cache has what the API server has.
LEMMA AgreedQuiet ==
    ASSUME NEW Keys, NEW facts, NEW At, NEW As, NEW api, NEW known, NEW x, NEW now,
           WatchOK(Keys, facts, api, known, "up", <<>>),
           Agreed(Keys, At, As, api, known, <<>>, x, now)
    PROVE  now = Expected(Keys, At, As, api, x)
BY DEF WatchOK, Agreed, Settles

-----------------------------------------------------------------------------
(* The three caches: what a fact puts where.  A pod or a service that has   *)
(* no address is under no key.                                              *)

PodAt == [f \in Pods \X PodStates |-> IF f[2].ip = NoIP THEN {} ELSE {f[2].ip}]
PodAs == [f \in Pods \X PodStates |-> [pod |-> f[1], node |-> f[2].node]]
ServiceAt == [f \in Services \X ServiceStates |-> IF f[2].ip = NoIP THEN {} ELSE {f[2].ip}]
ServiceAs == [f \in Services \X ServiceStates |-> f[1]]
NodeAt == [f \in Nodes \X (ZoneLabels \ {Absent}) |-> {f[1]}]
NodeAs == [f \in Nodes \X (ZoneLabels \ {Absent}) |-> f[2]]

PodsAgree ==
    \A x \in PodIPs \ tainted :
      Agreed(Pods, PodAt, PodAs, pods, podsKnown, podsQueue, x, Cached(ipMap, x))
ServicesAgree ==
    \A x \in ClusterIPs \ tainted :
      Agreed(Services, ServiceAt, ServiceAs, svcs, svcsKnown, svcsQueue, x, Cached(svcMap, x))
NodesAgree ==
    \A x \in Nodes \ tainted :
      Agreed(Nodes, NodeAt, NodeAs, nodes, nodesKnown, nodesQueue, x, Cached(nodeMap, x))

\* Before its first list an informer knows nothing; and a pod that has completed
\* has left its address to others.
NothingYet ==
    /\ podsWatched = "never" => \A p \in Pods : podsKnown[p] = Absent
    /\ svcsWatched = "never" => \A s \in Services : svcsKnown[s] = Absent
    /\ nodesWatched = "never" => \A n \in Nodes : nodesKnown[n] = Absent
CompletedAreTainted ==
    \A p \in Pods : pods[p] # Absent /\ ~ pods[p].live => pods[p].ip \in tainted

Converging == PodsAgree /\ ServicesAgree /\ NodesAgree /\ NothingYet /\ CompletedAreTainted

LEMMA PlacesAreConstant ==
    /\ PodAt' = PodAt /\ PodAs' = PodAs /\ ServiceAt' = ServiceAt /\ ServiceAs' = ServiceAs
    /\ NodeAt' = NodeAt /\ NodeAs' = NodeAs
BY DEF PodAt, PodAs, ServiceAt, ServiceAs, NodeAt, NodeAs

\* Each watch, with no more said of a fact than what it is about.
LEMMA WatchesAre ==
    ASSUME ClusterInv
    PROVE  /\ WatchOK(Pods, Pods \X PodStates, pods, podsKnown, podsWatched, podsQueue)
           /\ WatchOK(Services, Services \X ServiceStates,
                      svcs, svcsKnown, svcsWatched, svcsQueue)
           /\ WatchOK(Nodes, Nodes \X (ZoneLabels \ {Absent}),
                      nodes, nodesKnown, nodesWatched, nodesQueue)
<1>1. PodFacts \subseteq Pods \X PodStates /\ ServiceFacts \subseteq Services \X ServiceStates
  BY DEF PodFacts, ServiceFacts
<1>2. everZoned \subseteq Nodes \X (ZoneLabels \ {Absent})
  BY DEF ClusterInv, GhostOK
<1>3. WatchOK(Pods, Pods \X PodStates, pods, podsKnown, podsWatched, podsQueue)
  BY <1>1, WatchKeepsMore DEF ClusterInv, PodsOK
<1>4. WatchOK(Nodes, Nodes \X (ZoneLabels \ {Absent}), nodes, nodesKnown, nodesWatched, nodesQueue)
  BY <1>2, WatchKeepsMore DEF ClusterInv, NodesOK
<1>5. WatchOK(Services, Services \X ServiceStates, svcs, svcsKnown, svcsWatched, svcsQueue)
  BY <1>1, WatchKeepsMore DEF ClusterInv, SvcsOK
<1> QED  BY <1>3, <1>4, <1>5

LEMMA PodPlaces ==
    ASSUME NEW p \in Pods, NEW obj \in PodStates, NEW x \in PodIPs
    PROVE  x \in PodAt[<<p, obj>>] <=> obj.ip = x
<1>1. <<p, obj>> \in Pods \X PodStates /\ <<p, obj>>[2] = obj
  OBVIOUS
<1>2. PodAt[<<p, obj>>] = IF obj.ip = NoIP THEN {} ELSE {obj.ip}
  BY <1>1 DEF PodAt
<1> QED  BY <1>2, IPsAssumption

LEMMA PodEntries ==
    ASSUME NEW p \in Pods, NEW obj \in PodStates
    PROVE  PodAs[<<p, obj>>] = [pod |-> p, node |-> obj.node]
<1>1. <<p, obj>> \in Pods \X PodStates /\ <<p, obj>>[1] = p /\ <<p, obj>>[2] = obj
  OBVIOUS
<1> QED  BY <1>1 DEF PodAs

LEMMA ServicePlaces ==
    ASSUME NEW s \in Services, NEW obj \in ServiceStates
    PROVE  /\ \A x \in ClusterIPs : x \in ServiceAt[<<s, obj>>] <=> obj.ip = x
           /\ ServiceAs[<<s, obj>>] = s
<1>1. <<s, obj>> \in Services \X ServiceStates /\ <<s, obj>>[1] = s /\ <<s, obj>>[2] = obj
  OBVIOUS
<1>2. ServiceAt[<<s, obj>>] = IF obj.ip = NoIP THEN {} ELSE {obj.ip}
  BY <1>1 DEF ServiceAt
<1>3. ServiceAs[<<s, obj>>] = s
  BY <1>1 DEF ServiceAs
<1> QED  BY <1>2, <1>3, IPsAssumption

LEMMA NodePlaces ==
    ASSUME NEW n \in Nodes, NEW label \in ZoneLabels \ {Absent}
    PROVE  /\ \A x : x \in NodeAt[<<n, label>>] <=> x = n
           /\ NodeAs[<<n, label>>] = label
<1>1. /\ <<n, label>> \in Nodes \X (ZoneLabels \ {Absent})
      /\ <<n, label>>[1] = n /\ <<n, label>>[2] = label
  OBVIOUS
<1>2. NodeAt[<<n, label>>] = {n}
  BY <1>1 DEF NodeAt
<1>3. NodeAs[<<n, label>>] = label
  BY <1>1 DEF NodeAs
<1> QED  BY <1>2, <1>3

\* Who has an address, or is a node.
LEMMA PodOwns ==
    ASSUME ClusterInv, NEW p \in Pods, NEW x \in PodIPs
    PROVE  Owns(PodAt, pods, p, x) <=> pods[p] # Absent /\ pods[p].ip = x
<1>1. CASE pods[p] # Absent
  <2>1. pods[p] \in PodStates
    BY <1>1, PodIs
  <2>2. x \in PodAt[<<p, pods[p]>>] <=> pods[p].ip = x
    BY <2>1, PodPlaces
  <2> QED  BY <1>1, <2>2 DEF Owns
<1> QED  BY <1>1 DEF Owns

LEMMA ServiceOwns ==
    ASSUME ClusterInv, NEW s \in Services, NEW x \in ClusterIPs
    PROVE  Owns(ServiceAt, svcs, s, x) <=> svcs[s] # Absent /\ svcs[s].ip = x
<1>1. CASE svcs[s] # Absent
  <2>1. svcs[s] \in ServiceStates
    BY <1>1, ServiceIs
  <2> QED  BY <1>1, <2>1, ServicePlaces DEF Owns
<1> QED  BY <1>1 DEF Owns

LEMMA NodeOwns ==
    ASSUME ClusterInv, NEW n \in Nodes, NEW x
    PROVE  Owns(NodeAt, nodes, n, x) <=> nodes[n] # Absent /\ x = n
<1>1. CASE nodes[n] # Absent
  <2>1. nodes[n] \in ZoneLabels \ {Absent}
    BY <1>1, NodeIs
  <2> QED  BY <1>1, <2>1, NodePlaces DEF Owns
<1> QED  BY <1>1 DEF Owns

-----------------------------------------------------------------------------
(* A watch and its cache that a step leaves alone still agree. *)

LEMMA OthersAgree ==
    ASSUME tainted \subseteq tainted'
    PROVE  /\ PodsAgree /\ podVars' = podVars /\ ipMap' = ipMap => PodsAgree'
           /\ ServicesAgree /\ svcVars' = svcVars /\ svcMap' = svcMap => ServicesAgree'
           /\ NodesAgree /\ nodeVars' = nodeVars /\ nodeMap' = nodeMap => NodesAgree'
           /\ CompletedAreTainted /\ pods' = pods => CompletedAreTainted'
<1>1. PodsAgree /\ podVars' = podVars /\ ipMap' = ipMap => PodsAgree'
  BY PlacesAreConstant DEF PodsAgree, podVars
<1>2. ServicesAgree /\ svcVars' = svcVars /\ svcMap' = svcMap => ServicesAgree'
  BY PlacesAreConstant DEF ServicesAgree, svcVars
<1>3. NodesAgree /\ nodeVars' = nodeVars /\ nodeMap' = nodeMap => NodesAgree'
  BY PlacesAreConstant DEF NodesAgree, nodeVars
<1>4. CompletedAreTainted /\ pods' = pods => CompletedAreTainted'
  BY DEF CompletedAreTainted
<1> QED  BY <1>1, <1>2, <1>3, <1>4

\* A change to one pod, where no untainted address goes to a second pod or is lost
\* while the watch is down.
LEMMA PodChangeAgrees ==
    ASSUME ClusterInv, PodsAgree, NothingYet, NEW p \in Pods, NEW new,
           new = Absent \/ new \in PodStates,
           PodWatch!Change(p, new), ipMap' = ipMap, tainted \subseteq tainted',
           \A x \in PodIPs \ tainted' :
             /\ pods[p] # Absent /\ pods[p].ip = x =>
                  \/ new # Absent /\ new.ip = x
                  \/ new = Absent /\ podsWatched # "down"
             /\ new # Absent /\ new.ip = x =>
                  \A q \in Pods : pods[q] # Absent /\ pods[q].ip = x => q = p
    PROVE  PodsAgree' /\ (podsWatched' = "never" => \A q \in Pods : podsKnown'[q] = Absent)
<1>1. /\ pods[p] # new /\ pods' = [pods EXCEPT ![p] = new] /\ podsWatched' = podsWatched
      /\ IF podsWatched = "up"
         THEN /\ podsKnown' = [podsKnown EXCEPT ![p] = new]
              /\ podsQueue' = Append(podsQueue, NoteOf(p, podsKnown[p], new))
         ELSE podsKnown' = podsKnown /\ podsQueue' = podsQueue
  BY DEF PodWatch!Change, NoteOf
<1>2. WatchOK(Pods, Pods \X PodStates, pods, podsKnown, podsWatched, podsQueue)
  BY WatchesAre
<1>3. Told(Pods \X PodStates, p, new)
  BY DEF Told
<1>4. ASSUME NEW x \in PodIPs, x \notin tainted'
      PROVE  Agreed(Pods, PodAt, PodAs, pods', podsKnown', podsQueue', x, Cached(ipMap, x))
  <2>1. Agreed(Pods, PodAt, PodAs, pods, podsKnown, podsQueue, x, Cached(ipMap, x))
    BY <1>4 DEF PodsAgree
  <2>2. new # Absent => (x \in PodAt[<<p, new>>] <=> new.ip = x)
    <3>1. CASE new \in PodStates
      BY <3>1, PodPlaces
    <3> QED  BY <3>1
  <2>3. Owns(PodAt, pods, p, x) => \/ new # Absent /\ x \in PodAt[<<p, new>>]
                                   \/ new = Absent /\ podsWatched # "down"
    BY <1>4, <2>2, PodOwns
  <2>4. new # Absent /\ x \in PodAt[<<p, new>>] =>
          \A q \in Pods : Owns(PodAt, pods, q, x) => q = p
    BY <1>4, <2>2, PodOwns
  <2>5. podsWatched = "never" => \A q \in Pods : podsKnown[q] = Absent
    BY DEF NothingYet
  <2> QED  BY <1>1, <1>2, <1>3, <2>1, <2>3, <2>4, <2>5, AgreedChange
<1>5. PodsAgree'
  BY <1>4, PlacesAreConstant DEF PodsAgree
<1> QED  BY <1>1, <1>5 DEF NothingYet

\* What is the same in every change to a pod.
PodStep(p, new) ==
    /\ PodWatch!Change(p, new) /\ (new = Absent \/ new \in PodStates)
    /\ UnchangedButPods /\ tainted \subseteq tainted'

\* An untainted address is not lost by one pod to another.
LEMMA PodsConverge ==
    ASSUME ClusterInv, Converging, NEW p \in Pods, NEW new, PodStep(p, new),
           \A x \in PodIPs \ tainted' :
             /\ pods[p] # Absent /\ pods[p].ip = x =>
                  \/ new # Absent /\ new.ip = x
                  \/ new = Absent /\ podsWatched # "down"
             /\ new # Absent /\ new.ip = x =>
                  \A q \in Pods : pods[q] # Absent /\ pods[q].ip = x => q = p,
           new # Absent /\ ~ new.live => new.ip \in tainted'
    PROVE  Converging'
<1>1. /\ svcVars' = svcVars /\ nodeVars' = nodeVars /\ tainted \subseteq tainted'
      /\ ipMap' = ipMap /\ svcMap' = svcMap /\ nodeMap' = nodeMap
  BY DEF PodStep, UnchangedButPods, cacheVars
<1>2. PodsAgree' /\ (podsWatched' = "never" => \A q \in Pods : podsKnown'[q] = Absent)
  BY <1>1, PodChangeAgrees DEF PodStep, Converging
<1>3. ServicesAgree' /\ NodesAgree'
  BY <1>1, OthersAgree DEF Converging
<1>4. NothingYet'
  BY <1>1, <1>2 DEF Converging, NothingYet, svcVars, nodeVars
<1>5. CompletedAreTainted'
  <2>1. pods' = [pods EXCEPT ![p] = new] /\ p \in DOMAIN pods
    BY DEF PodStep, PodWatch!Change, ClusterInv, PodsOK, WatchOK
  <2> QED  BY <1>1, <2>1 DEF Converging, CompletedAreTainted
<1> QED  BY <1>2, <1>3, <1>4, <1>5 DEF Converging

\* An untainted address that no live pod has is no pod's.
LEMMA UnheldIsFree ==
    ASSUME CompletedAreTainted, NEW ip, Held(ip) = {}, ip \notin tainted, NEW q \in Pods
    PROVE  ~ (pods[q] # Absent /\ pods[q].ip = ip)
BY DEF CompletedAreTainted, Held, Live

LEMMA CreatePodConverges ==
    ASSUME ClusterInv, Converging, NEW p \in Pods, NEW n \in Nodes, CreatePod(p, n)
    PROVE  Converging'
<1> DEFINE new == [ip |-> NoIP, node |-> n, live |-> TRUE]
<1>1. /\ PodWatch!Change(p, new) /\ UnchangedButPods /\ tainted' = tainted
      /\ pods[p] = Absent
  BY DEF CreatePod
<1>2. new \in PodStates /\ new.ip = NoIP /\ new.live = TRUE
  BY DEF PodStates
<1> HIDE DEF new
<1>3. PodStep(p, new)
  BY <1>1, <1>2 DEF PodStep
<1>4. \A x \in PodIPs : new.ip # x
  BY <1>2, IPsAssumption
<1> QED  BY <1>1, <1>2, <1>3, <1>4, PodsConverge

LEMMA AssignIPConverges ==
    ASSUME ClusterInv, Converging, NEW p \in Pods, NEW ip \in PodIPs, AssignIP(p, ip)
    PROVE  Converging'
<1> DEFINE new == [pods[p] EXCEPT !.ip = ip]
<1>1. /\ PodWatch!Change(p, new) /\ UnchangedButPods /\ pods[p] # Absent /\ pods[p].ip = NoIP
      /\ tainted' = IF Held(ip) = {} THEN tainted ELSE tainted \cup {ip}
  BY DEF AssignIP
<1>2. pods[p] \in PodStates
  BY <1>1, PodIs
<1>3. new \in PodStates /\ new.ip = ip /\ new.live = TRUE
  BY <1>1, <1>2, IPsAssumption DEF PodStates
<1> HIDE DEF new
<1>4. PodStep(p, new)
  BY <1>1, <1>3 DEF PodStep
<1>5. ASSUME NEW x \in PodIPs, x \notin tainted'
      PROVE  /\ pods[p].ip # x
             /\ new.ip = x => \A q \in Pods : ~ (pods[q] # Absent /\ pods[q].ip = x)
  <2>1. pods[p].ip # x
    BY <1>1, IPsAssumption
  <2>2. new.ip = x => Held(x) = {} /\ x \notin tainted
    BY <1>1, <1>3, <1>5
  <2> QED  BY <2>1, <2>2, UnheldIsFree DEF Converging
<1> QED  BY <1>3, <1>4, <1>5, PodsConverge

LEMMA FinishPodConverges ==
    ASSUME ClusterInv, Converging, NEW p \in Pods, FinishPod(p)
    PROVE  Converging'
<1> DEFINE new == [pods[p] EXCEPT !.live = FALSE]
<1>1. /\ PodWatch!Change(p, new) /\ UnchangedButPods /\ pods[p] # Absent /\ pods[p].ip # NoIP
      /\ tainted' = tainted \cup {pods[p].ip}
  BY DEF FinishPod
<1>2. pods[p] \in PodStates
  BY <1>1, PodIs
<1>3. new \in PodStates /\ new.ip = pods[p].ip
  BY <1>1, <1>2 DEF PodStates
<1> HIDE DEF new
<1>4. PodStep(p, new)
  BY <1>1, <1>3 DEF PodStep
<1>5. new.ip \in tainted' /\ pods[p].ip \in tainted'
  BY <1>1, <1>3
<1> QED  BY <1>4, <1>5, PodsConverge

LEMMA MovePodConverges ==
    ASSUME ClusterInv, Converging, NEW p \in Pods, NEW ip \in PodIPs, MovePod(p, ip)
    PROVE  Converging'
<1> DEFINE new == [pods[p] EXCEPT !.ip = ip]
<1>1. /\ PodWatch!Change(p, new) /\ UnchangedButPods /\ pods[p] # Absent /\ pods[p].live
      /\ Held(ip) = {} /\ tainted' = tainted \cup {pods[p].ip}
  BY DEF MovePod
<1>2. pods[p] \in PodStates
  BY <1>1, PodIs
<1>3. new \in PodStates /\ new.ip = ip /\ new.live = TRUE
  BY <1>1, <1>2 DEF PodStates
<1> HIDE DEF new
<1>4. PodStep(p, new)
  BY <1>1, <1>3 DEF PodStep
<1>5. ASSUME NEW x \in PodIPs, x \notin tainted'
      PROVE  /\ pods[p].ip # x
             /\ new.ip = x => \A q \in Pods : ~ (pods[q] # Absent /\ pods[q].ip = x)
  <2>1. pods[p].ip # x
    BY <1>1, <1>5
  <2>2. new.ip = x => Held(x) = {} /\ x \notin tainted
    BY <1>1, <1>3, <1>5
  <2> QED  BY <2>1, <2>2, UnheldIsFree DEF Converging
<1> QED  BY <1>3, <1>4, <1>5, PodsConverge

LEMMA RemovePodConverges ==
    ASSUME ClusterInv, Converging, NEW p \in Pods, RemovePod(p)
    PROVE  Converging'
<1>1. /\ PodWatch!Change(p, Absent) /\ UnchangedButPods
      /\ tainted' = IF podsWatched # "down" THEN tainted ELSE tainted \cup {pods[p].ip}
  BY DEF RemovePod
<1>2. PodStep(p, Absent)
  BY <1>1 DEF PodStep
<1>3. \A x \in PodIPs \ tainted' : pods[p].ip = x => podsWatched # "down"
  BY <1>1
<1> QED  BY <1>2, <1>3, PodsConverge

LEMMA TouchPodConverges ==
    ASSUME ClusterInv, Converging, NEW p \in Pods, TouchPod(p)
    PROVE  Converging'
<1>1. /\ svcVars' = svcVars /\ nodeVars' = nodeVars /\ tainted' = tainted
      /\ ipMap' = ipMap /\ svcMap' = svcMap /\ nodeMap' = nodeMap
      /\ podsWatched = "up" /\ pods[p] # Absent
      /\ pods' = pods /\ podsKnown' = podsKnown /\ podsWatched' = podsWatched
      /\ podsQueue' = Append(podsQueue, NoteOf(p, podsKnown[p], pods[p]))
  BY DEF TouchPod, UnchangedButPods, cacheVars, PodWatch!Touch, NoteOf
<1>2. WatchOK(Pods, Pods \X PodStates, pods, podsKnown, "up", podsQueue)
  BY <1>1, WatchesAre
<1>3. ASSUME NEW x \in PodIPs, x \notin tainted
      PROVE  Agreed(Pods, PodAt, PodAs, pods, podsKnown, podsQueue', x, Cached(ipMap, x))
  <2>1. Agreed(Pods, PodAt, PodAs, pods, podsKnown, podsQueue, x, Cached(ipMap, x))
    BY <1>3 DEF Converging, PodsAgree
  <2> QED  BY <1>1, <1>2, <2>1, AgreedTouch
<1>4. PodsAgree'
  BY <1>1, <1>3, PlacesAreConstant DEF PodsAgree
<1>5. ServicesAgree' /\ NodesAgree' /\ CompletedAreTainted'
  BY <1>1, OthersAgree DEF Converging
<1>6. NothingYet'
  BY <1>1 DEF Converging, NothingYet, svcVars, nodeVars
<1> QED  BY <1>4, <1>5, <1>6 DEF Converging

LEMMA TouchServiceConverges ==
    ASSUME ClusterInv, Converging, NEW s \in Services, TouchService(s)
    PROVE  Converging'
<1>1. /\ podVars' = podVars /\ pods' = pods /\ nodeVars' = nodeVars /\ tainted' = tainted
      /\ ipMap' = ipMap /\ svcMap' = svcMap /\ nodeMap' = nodeMap
      /\ svcsWatched = "up" /\ svcs[s] # Absent
      /\ svcs' = svcs /\ svcsKnown' = svcsKnown /\ svcsWatched' = svcsWatched
      /\ svcsQueue' = Append(svcsQueue, NoteOf(s, svcsKnown[s], svcs[s]))
  BY NotesAgree DEF TouchService, podVars, cacheVars, ghostVars, SvcWatch!Touch
<1>2. WatchOK(Services, Services \X ServiceStates, svcs, svcsKnown, "up", svcsQueue)
  BY <1>1, WatchesAre
<1>3. ASSUME NEW x \in ClusterIPs, x \notin tainted
      PROVE  Agreed(Services, ServiceAt, ServiceAs, svcs, svcsKnown, svcsQueue', x, Cached(svcMap, x))
  <2>1. Agreed(Services, ServiceAt, ServiceAs, svcs, svcsKnown, svcsQueue, x, Cached(svcMap, x))
    BY <1>3 DEF Converging, ServicesAgree
  <2> QED  BY <1>1, <1>2, <2>1, AgreedTouch
<1>4. ServicesAgree'
  BY <1>1, <1>3, PlacesAreConstant DEF ServicesAgree
<1>5. PodsAgree' /\ NodesAgree' /\ CompletedAreTainted'
  BY <1>1, OthersAgree DEF Converging
<1>6. NothingYet'
  BY <1>1 DEF Converging, NothingYet, podVars, nodeVars
<1> QED  BY <1>4, <1>5, <1>6 DEF Converging

LEMMA TouchNodeConverges ==
    ASSUME ClusterInv, Converging, NEW n \in Nodes, TouchNode(n)
    PROVE  Converging'
<1>1. /\ podVars' = podVars /\ pods' = pods /\ svcVars' = svcVars /\ tainted' = tainted
      /\ ipMap' = ipMap /\ svcMap' = svcMap /\ nodeMap' = nodeMap
      /\ nodesWatched = "up" /\ nodes[n] # Absent
      /\ nodes' = nodes /\ nodesKnown' = nodesKnown /\ nodesWatched' = nodesWatched
      /\ nodesQueue' = Append(nodesQueue, NoteOf(n, nodesKnown[n], nodes[n]))
  BY NotesAgree DEF TouchNode, podVars, cacheVars, ghostVars, NodeWatch!Touch
<1>2. WatchOK(Nodes, Nodes \X (ZoneLabels \ {Absent}), nodes, nodesKnown, "up", nodesQueue)
  BY <1>1, WatchesAre
<1>3. ASSUME NEW x \in Nodes, x \notin tainted
      PROVE  Agreed(Nodes, NodeAt, NodeAs, nodes, nodesKnown, nodesQueue', x, Cached(nodeMap, x))
  <2>1. Agreed(Nodes, NodeAt, NodeAs, nodes, nodesKnown, nodesQueue, x, Cached(nodeMap, x))
    BY <1>3 DEF Converging, NodesAgree
  <2> QED  BY <1>1, <1>2, <2>1, AgreedTouch
<1>4. NodesAgree'
  BY <1>1, <1>3, PlacesAreConstant DEF NodesAgree
<1>5. PodsAgree' /\ ServicesAgree' /\ CompletedAreTainted'
  BY <1>1, OthersAgree DEF Converging
<1>6. NothingYet'
  BY <1>1 DEF Converging, NothingYet, podVars, svcVars
<1> QED  BY <1>4, <1>5, <1>6 DEF Converging

\* No two services have an address at once; the one that a service gave up alive,
\* or was deleted with in a gap, is tainted.
LEMMA ServicesConverge ==
    ASSUME ClusterInv, Converging, NEW s \in Services, NEW obj \in ServiceObjects,
           ChangeService(s, obj)
    PROVE  Converging'
<1>1. /\ podVars' = podVars /\ nodeVars' = nodeVars
      /\ ipMap' = ipMap /\ svcMap' = svcMap /\ nodeMap' = nodeMap
      /\ obj # Absent /\ obj.ip # NoIP =>
           \A t \in Services : Serves(t) => svcs[t].ip # obj.ip
      /\ tainted' = IF Serves(s) /\ (obj # Absent \/ svcsWatched = "down")
                    THEN tainted \cup {svcs[s].ip} ELSE tainted
  BY DEF ChangeService, cacheVars
<1>2. /\ svcs[s] # obj /\ svcs' = [svcs EXCEPT ![s] = obj] /\ svcsWatched' = svcsWatched
      /\ IF svcsWatched = "up"
         THEN /\ svcsKnown' = [svcsKnown EXCEPT ![s] = obj]
              /\ svcsQueue' = Append(svcsQueue, NoteOf(s, svcsKnown[s], obj))
         ELSE svcsKnown' = svcsKnown /\ svcsQueue' = svcsQueue
  BY NotesAgree DEF ChangeService, SvcWatch!Change
<1>3. WatchOK(Services, Services \X ServiceStates, svcs, svcsKnown, svcsWatched, svcsQueue)
  BY WatchesAre
<1>4. obj # Absent => obj \in ServiceStates
  BY DEF ServiceObjects, ServiceStates
<1>5. Told(Services \X ServiceStates, s, obj)
  BY <1>4 DEF Told
<1>6. tainted \subseteq tainted'
  BY <1>1
<1>7. svcsWatched = "never" => \A t \in Services : svcsKnown[t] = Absent
  BY DEF Converging, NothingYet
<1>8. ASSUME NEW x \in ClusterIPs, x \notin tainted'
      PROVE  Agreed(Services, ServiceAt, ServiceAs, svcs', svcsKnown', svcsQueue', x, Cached(svcMap, x))
  <2>1. Agreed(Services, ServiceAt, ServiceAs, svcs, svcsKnown, svcsQueue, x, Cached(svcMap, x))
    BY <1>6, <1>8 DEF Converging, ServicesAgree
  <2>2. Owns(ServiceAt, svcs, s, x) => obj = Absent /\ svcsWatched # "down"
    BY <1>1, <1>8, ServiceOwns, IPsAssumption DEF Serves
  <2>3. obj # Absent /\ x \in ServiceAt[<<s, obj>>] =>
          \A t \in Services : Owns(ServiceAt, svcs, t, x) => t = s
    <3> SUFFICES ASSUME obj # Absent, x \in ServiceAt[<<s, obj>>], NEW t \in Services
                 PROVE  ~ Owns(ServiceAt, svcs, t, x)
      OBVIOUS
    <3>1. obj.ip = x /\ x # NoIP
      BY <1>4, ServicePlaces, IPsAssumption
    <3> QED  BY <1>1, <3>1, ServiceOwns DEF Serves
  <2> QED  BY <1>2, <1>3, <1>5, <1>7, <2>1, <2>2, <2>3, AgreedChange
<1>9. ServicesAgree'
  BY <1>1, <1>8, PlacesAreConstant DEF ServicesAgree
<1>10. pods' = pods
  BY <1>1 DEF podVars
<1>11. PodsAgree' /\ NodesAgree' /\ CompletedAreTainted'
  BY <1>1, <1>6, <1>10, OthersAgree DEF Converging
<1>12. NothingYet'
  BY <1>1, <1>2, <1>7 DEF Converging, NothingYet, podVars, nodeVars
<1> QED  BY <1>9, <1>11, <1>12 DEF Converging

\* A node that goes while the watch is down is tainted.
LEMMA NodesConverge ==
    ASSUME ClusterInv, Converging, NEW n \in Nodes, NEW label \in ZoneLabels,
           ChangeNode(n, label)
    PROVE  Converging'
<1>1. /\ podVars' = podVars /\ svcVars' = svcVars
      /\ ipMap' = ipMap /\ svcMap' = svcMap /\ nodeMap' = nodeMap
      /\ tainted' = IF nodesWatched # "down" \/ label # Absent
                    THEN tainted ELSE tainted \cup {n}
  BY DEF ChangeNode, cacheVars
<1>2. /\ nodes[n] # label /\ nodes' = [nodes EXCEPT ![n] = label] /\ nodesWatched' = nodesWatched
      /\ IF nodesWatched = "up"
         THEN /\ nodesKnown' = [nodesKnown EXCEPT ![n] = label]
              /\ nodesQueue' = Append(nodesQueue, NoteOf(n, nodesKnown[n], label))
         ELSE nodesKnown' = nodesKnown /\ nodesQueue' = nodesQueue
  BY NotesAgree DEF ChangeNode, NodeWatch!Change
<1> DEFINE facts == Nodes \X (ZoneLabels \ {Absent})
<1>3. WatchOK(Nodes, facts, nodes, nodesKnown, nodesWatched, nodesQueue)
  BY WatchesAre
<1>4. Told(facts, n, label)
  BY DEF Told
<1> HIDE DEF facts
<1>5. tainted \subseteq tainted'
  BY <1>1
<1>6. nodesWatched = "never" => \A m \in Nodes : nodesKnown[m] = Absent
  BY DEF Converging, NothingYet
<1>7. ASSUME NEW x \in Nodes, x \notin tainted'
      PROVE  Agreed(Nodes, NodeAt, NodeAs, nodes', nodesKnown', nodesQueue', x, Cached(nodeMap, x))
  <2>1. Agreed(Nodes, NodeAt, NodeAs, nodes, nodesKnown, nodesQueue, x, Cached(nodeMap, x))
    BY <1>5, <1>7 DEF Converging, NodesAgree
  <2>2. label # Absent => (x \in NodeAt[<<n, label>>] <=> x = n)
    BY NodePlaces
  <2>3. Owns(NodeAt, nodes, n, x) => \/ label # Absent /\ x \in NodeAt[<<n, label>>]
                                     \/ label = Absent /\ nodesWatched # "down"
    BY <1>1, <1>7, <2>2, NodeOwns
  <2>4. label # Absent /\ x \in NodeAt[<<n, label>>] =>
          \A m \in Nodes : Owns(NodeAt, nodes, m, x) => m = n
    BY <2>2, NodeOwns
  <2> QED  BY <1>2, <1>3, <1>4, <1>6, <2>1, <2>3, <2>4, AgreedChange
<1>8. NodesAgree'
  BY <1>1, <1>7, PlacesAreConstant DEF NodesAgree
<1>9. pods' = pods
  BY <1>1 DEF podVars
<1>10. PodsAgree' /\ ServicesAgree' /\ CompletedAreTainted'
  BY <1>1, <1>5, <1>9, OthersAgree DEF Converging
<1>11. NothingYet'
  BY <1>1, <1>2, <1>6 DEF Converging, NothingYet, podVars, svcVars
<1> QED  BY <1>8, <1>10, <1>11 DEF Converging

\* A watch that breaks takes nothing with it.
LEMMA LosingConverges ==
    ASSUME ClusterInv, Converging, LosePods \/ LoseSvcs \/ LoseNodes
    PROVE  Converging'
<1>1. /\ ipMap' = ipMap /\ svcMap' = svcMap /\ nodeMap' = nodeMap /\ tainted' = tainted
      /\ pods' = pods /\ podsKnown' = podsKnown /\ podsQueue' = podsQueue
      /\ svcs' = svcs /\ svcsKnown' = svcsKnown /\ svcsQueue' = svcsQueue
      /\ nodes' = nodes /\ nodesKnown' = nodesKnown /\ nodesQueue' = nodesQueue
      /\ podsWatched' \in {podsWatched, "down"} /\ svcsWatched' \in {svcsWatched, "down"}
      /\ nodesWatched' \in {nodesWatched, "down"}
  BY DEF LosePods, LoseSvcs, LoseNodes, podVars, svcVars, nodeVars, cacheVars, ghostVars,
         PodWatch!Disconnect, SvcWatch!Disconnect, NodeWatch!Disconnect
<1>2. PodsAgree' /\ ServicesAgree' /\ NodesAgree'
  BY <1>1, PlacesAreConstant DEF Converging, PodsAgree, ServicesAgree, NodesAgree
<1>3. NothingYet' /\ CompletedAreTainted'
  BY <1>1 DEF Converging, NothingYet, CompletedAreTainted
<1> QED  BY <1>2, <1>3 DEF Converging

LEMMA ListPodsConverges ==
    ASSUME ClusterInv, Converging, ListPods
    PROVE  Converging'
<1>1. /\ podsWatched' = "up" /\ pods' = pods /\ podsKnown' = pods
      /\ Relisted(Pods, pods, podsKnown, podsQueue, podsQueue')
  BY ListPodsIs
<1>2. /\ svcVars' = svcVars /\ nodeVars' = nodeVars /\ tainted' = tainted
      /\ ipMap' = ipMap /\ svcMap' = svcMap /\ nodeMap' = nodeMap
  BY DEF ListPods, cacheVars, ghostVars
<1>3. WatchOK(Pods, Pods \X PodStates, pods, podsKnown, podsWatched, podsQueue)
  BY WatchesAre
<1>4. ASSUME NEW x \in PodIPs, x \notin tainted
      PROVE  Agreed(Pods, PodAt, PodAs, pods, pods, podsQueue', x, Cached(ipMap, x))
  <2>1. Agreed(Pods, PodAt, PodAs, pods, podsKnown, podsQueue, x, Cached(ipMap, x))
    BY <1>4 DEF Converging, PodsAgree
  <2> QED  BY <1>1, <1>3, <2>1, AgreedRelist
<1>5. PodsAgree'
  BY <1>1, <1>2, <1>4, PlacesAreConstant DEF PodsAgree
<1>6. ServicesAgree' /\ NodesAgree' /\ CompletedAreTainted'
  BY <1>1, <1>2, OthersAgree DEF Converging
<1>7. NothingYet'
  BY <1>1, <1>2 DEF Converging, NothingYet, svcVars, nodeVars
<1> QED  BY <1>5, <1>6, <1>7 DEF Converging

LEMMA ListSvcsConverges ==
    ASSUME ClusterInv, Converging, ListSvcs
    PROVE  Converging'
<1>1. /\ svcsWatched' = "up" /\ svcs' = svcs /\ svcsKnown' = svcs
      /\ Relisted(Services, svcs, svcsKnown, svcsQueue, svcsQueue')
  BY ListSvcsIs
<1>2. /\ podVars' = podVars /\ nodeVars' = nodeVars /\ tainted' = tainted /\ pods' = pods
      /\ ipMap' = ipMap /\ svcMap' = svcMap /\ nodeMap' = nodeMap
  BY DEF ListSvcs, cacheVars, ghostVars, podVars
<1>3. WatchOK(Services, Services \X ServiceStates, svcs, svcsKnown, svcsWatched, svcsQueue)
  BY WatchesAre
<1>4. ASSUME NEW x \in ClusterIPs, x \notin tainted
      PROVE  Agreed(Services, ServiceAt, ServiceAs, svcs, svcs, svcsQueue', x, Cached(svcMap, x))
  <2>1. Agreed(Services, ServiceAt, ServiceAs, svcs, svcsKnown, svcsQueue, x, Cached(svcMap, x))
    BY <1>4 DEF Converging, ServicesAgree
  <2> QED  BY <1>1, <1>3, <2>1, AgreedRelist
<1>5. ServicesAgree'
  BY <1>1, <1>2, <1>4, PlacesAreConstant DEF ServicesAgree
<1>6. PodsAgree' /\ NodesAgree' /\ CompletedAreTainted'
  BY <1>2, OthersAgree DEF Converging
<1>7. NothingYet'
  BY <1>1, <1>2 DEF Converging, NothingYet, podVars, nodeVars
<1> QED  BY <1>5, <1>6, <1>7 DEF Converging

LEMMA ListNodesConverges ==
    ASSUME ClusterInv, Converging, ListNodes
    PROVE  Converging'
<1>1. /\ nodesWatched' = "up" /\ nodes' = nodes /\ nodesKnown' = nodes
      /\ Relisted(Nodes, nodes, nodesKnown, nodesQueue, nodesQueue')
  BY ListNodesIs
<1>2. /\ podVars' = podVars /\ svcVars' = svcVars /\ tainted' = tainted /\ pods' = pods
      /\ ipMap' = ipMap /\ svcMap' = svcMap /\ nodeMap' = nodeMap
  BY DEF ListNodes, cacheVars, ghostVars, podVars
<1> DEFINE facts == Nodes \X (ZoneLabels \ {Absent})
<1>3. WatchOK(Nodes, facts, nodes, nodesKnown, nodesWatched, nodesQueue)
  BY WatchesAre
<1> HIDE DEF facts
<1>4. ASSUME NEW x \in Nodes, x \notin tainted
      PROVE  Agreed(Nodes, NodeAt, NodeAs, nodes, nodes, nodesQueue', x, Cached(nodeMap, x))
  <2>1. Agreed(Nodes, NodeAt, NodeAs, nodes, nodesKnown, nodesQueue, x, Cached(nodeMap, x))
    BY <1>4 DEF Converging, NodesAgree
  <2> QED  BY <1>1, <1>3, <2>1, AgreedRelist
<1>5. NodesAgree'
  BY <1>1, <1>2, <1>4, PlacesAreConstant DEF NodesAgree
<1>6. PodsAgree' /\ ServicesAgree' /\ CompletedAreTainted'
  BY <1>2, OthersAgree DEF Converging
<1>7. NothingYet'
  BY <1>1, <1>2 DEF Converging, NothingYet, podVars, svcVars
<1> QED  BY <1>5, <1>6, <1>7 DEF Converging

-----------------------------------------------------------------------------
(* The handlers do to the cache what the notification says. *)

LEMMA CachedAfterSet ==
    ASSUME NEW m, NEW k, NEW v, NEW x
    PROVE  Cached(Set(m, k, v), x) = IF x = k THEN {v} ELSE Cached(m, x)
BY DEF Cached, Set

LEMMA CachedAfterDelete ==
    ASSUME NEW m, NEW k, NEW x
    PROVE  Cached(Delete(m, k), x) = IF x = k THEN {} ELSE Cached(m, x)
BY DEF Cached, Delete

LEMMA EffectIs ==
    ASSUME NEW At, NEW As, NEW note
    PROVE  /\ note.type = "tombstone" => \A x : x \notin Effect(At, As, note).on
           /\ note.type = "delete" =>
                /\ \A x : x \in Effect(At, As, note).on <=> x \in At[<<note.key, note.obj>>]
                /\ Effect(At, As, note).to = {}
           /\ note.type \notin {"tombstone", "delete"} =>
                /\ \A x : x \in Effect(At, As, note).on <=> x \in At[<<note.key, note.obj>>]
                /\ Effect(At, As, note).to = {As[<<note.key, note.obj>>]}
BY DEF Effect

LEMMA HandlePodConverges ==
    ASSUME ClusterInv, Converging, HandlePod
    PROVE  Converging'
<1> DEFINE note == Head(podsQueue)
           ip   == note.obj.ip
           f    == <<note.key, note.obj>>
           entry == [pod |-> note.key, node |-> note.obj.node]
           after(x) == IF x \in Effect(PodAt, PodAs, note).on
                       THEN Effect(PodAt, PodAs, note).to ELSE Cached(ipMap, x)
<1>1. /\ svcVars' = svcVars /\ nodeVars' = nodeVars /\ svcMap' = svcMap /\ nodeMap' = nodeMap
      /\ tainted' = tainted /\ podsQueue # <<>> /\ podsQueue' = Tail(podsQueue)
      /\ pods' = pods /\ podsKnown' = podsKnown /\ podsWatched' = podsWatched
      /\ ipMap' = CASE note.type = "tombstone" \/ ip = NoIP -> ipMap
                    [] note.type = "delete" -> Delete(ipMap, ip)
                    [] OTHER -> Set(ipMap, ip, entry)
  BY DEF HandlePod, PodWatch!Deliver, ghostVars
<1>2. note.key \in Pods /\ note.obj \in PodStates
  <2>1. podsQueue \in Seq(Notes(PodFacts))
    BY DEF ClusterInv, PodsOK, WatchOK
  <2>2. \A g \in PodFacts : g = <<g[1], g[2]>>
    BY DEF PodFacts
  <2>3. f \in PodFacts
    BY <1>1, <2>1, <2>2, HeadIsTold
  <2> QED  BY <2>3 DEF PodFacts
<1> HIDE DEF note, ip, entry
<1>3. /\ note.type = "tombstone" => ipMap' = ipMap
      /\ note.type = "delete" =>
           ipMap' = Delete(ipMap, ip) \/ (ip = NoIP /\ ipMap' = ipMap)
      /\ note.type \notin {"tombstone", "delete"} =>
           (ip # NoIP /\ ipMap' = Set(ipMap, ip, entry)) \/ (ip = NoIP /\ ipMap' = ipMap)
  BY <1>1
<1>4. ip = note.obj.ip /\ entry = PodAs[f]
  BY <1>2, PodEntries DEF ip, entry
<1>5. \A x \in PodIPs : x \in PodAt[f] <=> ip = x
  BY <1>2, <1>4, PodPlaces
<1> HIDE DEF f
<1>6. ASSUME NEW x \in PodIPs
      PROVE  Cached(ipMap', x) = after(x)
  <2>1. x # NoIP
    BY IPsAssumption
  <2>2. CASE note.type = "tombstone"
    BY <1>3, <2>2, EffectIs
  <2>3. CASE note.type = "delete"
    <3>1. /\ x \in Effect(PodAt, PodAs, note).on <=> ip = x
          /\ Effect(PodAt, PodAs, note).to = {}
      BY <1>5, <2>3, EffectIs DEF f
    <3>2. Cached(ipMap', x) = IF x = ip THEN {} ELSE Cached(ipMap, x)
      BY <1>3, <2>1, <2>3, CachedAfterDelete
    <3> QED  BY <3>1, <3>2
  <2>4. CASE note.type \notin {"tombstone", "delete"}
    <3>1. /\ x \in Effect(PodAt, PodAs, note).on <=> ip = x
          /\ Effect(PodAt, PodAs, note).to = {entry}
      BY <1>4, <1>5, <2>4, EffectIs DEF f
    <3>2. Cached(ipMap', x) = IF x = ip THEN {entry} ELSE Cached(ipMap, x)
      BY <1>3, <2>1, <2>4, CachedAfterSet
    <3> QED  BY <3>1, <3>2
  <2> QED  BY <2>2, <2>3, <2>4
<1>7. WatchOK(Pods, Pods \X PodStates, pods, podsKnown, podsWatched, podsQueue)
  BY WatchesAre
<1>8. ASSUME NEW x \in PodIPs, x \notin tainted
      PROVE  Agreed(Pods, PodAt, PodAs, pods, podsKnown, podsQueue', x, Cached(ipMap', x))
  <2>1. Agreed(Pods, PodAt, PodAs, pods, podsKnown, podsQueue, x, Cached(ipMap, x))
    BY <1>8 DEF Converging, PodsAgree
  <2>2. Agreed(Pods, PodAt, PodAs, pods, podsKnown, Tail(podsQueue), x, after(x))
    BY <1>1, <1>7, <2>1, AgreedDeliver DEF note
  <2> QED  BY <1>1, <1>6, <2>2
<1>9. PodsAgree'
  BY <1>1, <1>8, PlacesAreConstant DEF PodsAgree
<1>10. ServicesAgree' /\ NodesAgree' /\ CompletedAreTainted'
  BY <1>1, OthersAgree DEF Converging
<1>11. NothingYet'
  BY <1>1 DEF Converging, NothingYet, svcVars, nodeVars
<1> QED  BY <1>9, <1>10, <1>11 DEF Converging

LEMMA HandleServiceConverges ==
    ASSUME ClusterInv, Converging, HandleService
    PROVE  Converging'
<1> DEFINE note == Head(svcsQueue)
           ip   == note.obj.ip
           f    == <<note.key, note.obj>>
           after(x) == IF x \in Effect(ServiceAt, ServiceAs, note).on
                       THEN Effect(ServiceAt, ServiceAs, note).to ELSE Cached(svcMap, x)
<1>1. /\ podVars' = podVars /\ nodeVars' = nodeVars /\ ipMap' = ipMap /\ nodeMap' = nodeMap
      /\ tainted' = tainted /\ svcsQueue # <<>> /\ svcsQueue' = Tail(svcsQueue)
      /\ svcs' = svcs /\ svcsKnown' = svcsKnown /\ svcsWatched' = svcsWatched
      /\ svcMap' = CASE note.type = "tombstone" \/ ip = NoIP -> svcMap
                    [] note.type = "delete" -> Delete(svcMap, ip)
                    [] OTHER -> Set(svcMap, ip, note.key)
  BY DEF HandleService, SvcWatch!Deliver, ghostVars
<1>2. note.key \in Services /\ note.obj \in ServiceStates
  <2>1. svcsQueue \in Seq(Notes(ServiceFacts))
    BY DEF ClusterInv, SvcsOK, WatchOK
  <2>2. \A g \in ServiceFacts : g = <<g[1], g[2]>>
    BY DEF ServiceFacts
  <2>3. f \in ServiceFacts
    BY <1>1, <2>1, <2>2, HeadIsTold
  <2> QED  BY <2>3 DEF ServiceFacts
<1> HIDE DEF note, ip
<1>3. /\ note.type = "tombstone" => svcMap' = svcMap
      /\ note.type = "delete" =>
           svcMap' = Delete(svcMap, ip) \/ (ip = NoIP /\ svcMap' = svcMap)
      /\ note.type \notin {"tombstone", "delete"} =>
           (ip # NoIP /\ svcMap' = Set(svcMap, ip, note.key)) \/ (ip = NoIP /\ svcMap' = svcMap)
  BY <1>1
<1>4. ip = note.obj.ip /\ note.key = ServiceAs[f]
  BY <1>2, ServicePlaces DEF ip
<1>5. \A x \in ClusterIPs : x \in ServiceAt[f] <=> ip = x
  BY <1>2, <1>4, ServicePlaces
<1> HIDE DEF f
<1>6. ASSUME NEW x \in ClusterIPs
      PROVE  Cached(svcMap', x) = after(x)
  <2>1. x # NoIP
    BY IPsAssumption
  <2>2. CASE note.type = "tombstone"
    BY <1>3, <2>2, EffectIs
  <2>3. CASE note.type = "delete"
    <3>1. /\ x \in Effect(ServiceAt, ServiceAs, note).on <=> ip = x
          /\ Effect(ServiceAt, ServiceAs, note).to = {}
      BY <1>5, <2>3, EffectIs DEF f
    <3>2. Cached(svcMap', x) = IF x = ip THEN {} ELSE Cached(svcMap, x)
      BY <1>3, <2>1, <2>3, CachedAfterDelete
    <3> QED  BY <3>1, <3>2
  <2>4. CASE note.type \notin {"tombstone", "delete"}
    <3>1. x \in Effect(ServiceAt, ServiceAs, note).on <=> ip = x
      BY <1>5, <2>4, EffectIs DEF f
    <3>2. Effect(ServiceAt, ServiceAs, note).to = {note.key}
      <4>1. Effect(ServiceAt, ServiceAs, note).to = {ServiceAs[f]}
        BY <2>4, EffectIs DEF f
      <4> QED  BY <1>4, <4>1
    <3>3. Cached(svcMap', x) = IF x = ip THEN {note.key} ELSE Cached(svcMap, x)
      BY <1>3, <2>1, <2>4, CachedAfterSet
    <3> QED  BY <3>1, <3>2, <3>3
  <2> QED  BY <2>2, <2>3, <2>4
<1>7. WatchOK(Services, Services \X ServiceStates, svcs, svcsKnown, svcsWatched, svcsQueue)
  BY WatchesAre
<1>8. ASSUME NEW x \in ClusterIPs, x \notin tainted
      PROVE  Agreed(Services, ServiceAt, ServiceAs, svcs, svcsKnown, svcsQueue', x, Cached(svcMap', x))
  <2>1. Agreed(Services, ServiceAt, ServiceAs, svcs, svcsKnown, svcsQueue, x, Cached(svcMap, x))
    BY <1>8 DEF Converging, ServicesAgree
  <2>2. Agreed(Services, ServiceAt, ServiceAs, svcs, svcsKnown, Tail(svcsQueue), x, after(x))
    BY <1>1, <1>7, <2>1, AgreedDeliver DEF note
  <2> QED  BY <1>1, <1>6, <2>2
<1>9. ServicesAgree'
  BY <1>1, <1>8, PlacesAreConstant DEF ServicesAgree
<1>10. pods' = pods
  BY <1>1 DEF podVars
<1>11. PodsAgree' /\ NodesAgree' /\ CompletedAreTainted'
  BY <1>1, <1>10, OthersAgree DEF Converging
<1>12. NothingYet'
  BY <1>1 DEF Converging, NothingYet, podVars, nodeVars
<1> QED  BY <1>9, <1>11, <1>12 DEF Converging

LEMMA HandleNodeConverges ==
    ASSUME ClusterInv, Converging, HandleNode
    PROVE  Converging'
<1> DEFINE note == Head(nodesQueue)
           f    == <<note.key, note.obj>>
           facts == Nodes \X (ZoneLabels \ {Absent})
           after(x) == IF x \in Effect(NodeAt, NodeAs, note).on
                       THEN Effect(NodeAt, NodeAs, note).to ELSE Cached(nodeMap, x)
<1>1. /\ podVars' = podVars /\ svcVars' = svcVars /\ ipMap' = ipMap /\ svcMap' = svcMap
      /\ tainted' = tainted /\ nodesQueue # <<>> /\ nodesQueue' = Tail(nodesQueue)
      /\ nodes' = nodes /\ nodesKnown' = nodesKnown /\ nodesWatched' = nodesWatched
      /\ note.type = "tombstone" => nodeMap' = nodeMap
      /\ note.type = "delete" => nodeMap' = Delete(nodeMap, note.key)
      /\ note.type \notin {"tombstone", "delete"} =>
           nodeMap' = Set(nodeMap, note.key, note.obj)
  BY DEF HandleNode, NodeWatch!Deliver, ghostVars
<1>2. note.key \in Nodes /\ note.obj \in ZoneLabels \ {Absent}
  <2>1. nodesQueue \in Seq(Notes(everZoned))
    BY DEF ClusterInv, NodesOK, WatchOK
  <2>2. \A g \in everZoned : g = <<g[1], g[2]>>
    BY DEF ClusterInv, GhostOK
  <2>3. f \in everZoned
    BY <1>1, <2>1, <2>2, HeadIsTold
  <2> QED  BY <2>3 DEF ClusterInv, GhostOK
<1> HIDE DEF note, facts
<1>3. note.obj = NodeAs[f]
  BY <1>2, NodePlaces
<1>4. \A x : x \in NodeAt[f] <=> x = note.key
  BY <1>2, NodePlaces
<1> HIDE DEF f
<1>5. ASSUME NEW x
      PROVE  Cached(nodeMap', x) = after(x)
  <2>1. CASE note.type = "tombstone"
    BY <1>1, <2>1, EffectIs
  <2>2. CASE note.type = "delete"
    <3>1. /\ x \in Effect(NodeAt, NodeAs, note).on <=> x = note.key
          /\ Effect(NodeAt, NodeAs, note).to = {}
      BY <1>4, <2>2, EffectIs DEF f
    <3>2. Cached(nodeMap', x) = IF x = note.key THEN {} ELSE Cached(nodeMap, x)
      BY <1>1, <2>2, CachedAfterDelete
    <3> QED  BY <3>1, <3>2
  <2>3. CASE note.type \notin {"tombstone", "delete"}
    <3>1. /\ x \in Effect(NodeAt, NodeAs, note).on <=> x = note.key
          /\ Effect(NodeAt, NodeAs, note).to = {note.obj}
      BY <1>3, <1>4, <2>3, EffectIs DEF f
    <3>2. Cached(nodeMap', x) = IF x = note.key THEN {note.obj} ELSE Cached(nodeMap, x)
      BY <1>1, <2>3, CachedAfterSet
    <3> QED  BY <3>1, <3>2
  <2> QED  BY <2>1, <2>2, <2>3
<1>6. WatchOK(Nodes, facts, nodes, nodesKnown, nodesWatched, nodesQueue)
  BY WatchesAre DEF facts
<1>7. ASSUME NEW x \in Nodes, x \notin tainted
      PROVE  Agreed(Nodes, NodeAt, NodeAs, nodes, nodesKnown, nodesQueue', x, Cached(nodeMap', x))
  <2>1. Agreed(Nodes, NodeAt, NodeAs, nodes, nodesKnown, nodesQueue, x, Cached(nodeMap, x))
    BY <1>7 DEF Converging, NodesAgree
  <2>2. Agreed(Nodes, NodeAt, NodeAs, nodes, nodesKnown, Tail(nodesQueue), x, after(x))
    BY <1>1, <1>6, <2>1, AgreedDeliver DEF note
  <2> QED  BY <1>1, <1>5, <2>2
<1>8. NodesAgree'
  BY <1>1, <1>7, PlacesAreConstant DEF NodesAgree
<1>9. pods' = pods
  BY <1>1 DEF podVars
<1>10. PodsAgree' /\ ServicesAgree' /\ CompletedAreTainted'
  BY <1>1, <1>9, OthersAgree DEF Converging
<1>11. NothingYet'
  BY <1>1 DEF Converging, NothingYet, podVars, svcVars
<1> QED  BY <1>8, <1>10, <1>11 DEF Converging

-----------------------------------------------------------------------------
LEMMA AgreedStarts ==
    ASSUME NEW Keys, NEW At, NEW As, NEW api, NEW known, NEW x,
           \A k, l \in Keys : Owns(At, api, k, x) /\ Owns(At, api, l, x) => k = l,
           \A k \in Keys : known[k] = Absent
    PROVE  Agreed(Keys, At, As, api, known, <<>>, x, {})
<1>1. \A k \in Keys : ~ Owns(At, known, k, x)
  BY DEF Owns
<1>2. Expected(Keys, At, As, known, x) = {}
  BY <1>1 DEF Expected
<1>3. Settles(At, As, <<>>, x, {}, {})
  BY DEF Settles
<1> QED  BY <1>1, <1>2, <1>3 DEF Agreed

LEMMA InitConverges == ClusterInit => Converging
<1> SUFFICES ASSUME ClusterInit
             PROVE  Converging
  OBVIOUS
<1>1. /\ podsQueue = <<>> /\ svcsQueue = <<>> /\ nodesQueue = <<>>
      /\ \A p \in Pods : podsKnown[p] = Absent
      /\ \A s \in Services : svcsKnown[s] = Absent
      /\ \A n \in Nodes : nodesKnown[n] = Absent
      /\ pods \in [Pods -> PodObjects]
  BY DEF ClusterInit, PodWatch!Init, SvcWatch!Init, NodeWatch!Init
<1>2. \A x : Cached(ipMap, x) = {} /\ Cached(svcMap, x) = {} /\ Cached(nodeMap, x) = {}
  BY DEF ClusterInit, Empty, Cached
<1>3. ClusterInv
  BY ClusterInitInv
<1>4. \A p \in Pods : pods[p] # Absent => pods[p].live
  BY <1>1 DEF PodObjects
<1>5. PodsAgree
  <2> SUFFICES ASSUME NEW x \in PodIPs
               PROVE  Agreed(Pods, PodAt, PodAs, pods, podsKnown, <<>>, x, {})
    BY <1>1, <1>2 DEF PodsAgree
  <2>1. \A p, q \in Pods : (/\ pods[p] # Absent /\ pods[p].ip = x
                            /\ pods[q] # Absent /\ pods[q].ip = x) => p = q
    BY <1>4, IPsAssumption DEF ClusterInit, Live
  <2>2. \A p, q \in Pods : Owns(PodAt, pods, p, x) /\ Owns(PodAt, pods, q, x) => p = q
    BY <1>3, <2>1, PodOwns
  <2> QED  BY <1>1, <2>2, AgreedStarts
<1>6. ServicesAgree
  <2> SUFFICES ASSUME NEW x \in ClusterIPs
               PROVE  Agreed(Services, ServiceAt, ServiceAs, svcs, svcsKnown, <<>>, x, {})
    BY <1>1, <1>2 DEF ServicesAgree
  <2>1. \A s, t \in Services : (/\ svcs[s] # Absent /\ svcs[s].ip = x
                                /\ svcs[t] # Absent /\ svcs[t].ip = x) => s = t
    BY IPsAssumption DEF ClusterInit
  <2>2. \A s, t \in Services : Owns(ServiceAt, svcs, s, x) /\ Owns(ServiceAt, svcs, t, x) => s = t
    BY <1>3, <2>1, ServiceOwns
  <2> QED  BY <1>1, <2>2, AgreedStarts
<1>7. NodesAgree
  <2> SUFFICES ASSUME NEW x \in Nodes
               PROVE  Agreed(Nodes, NodeAt, NodeAs, nodes, nodesKnown, <<>>, x, {})
    BY <1>1, <1>2 DEF NodesAgree
  <2>1. \A m, n \in Nodes : Owns(NodeAt, nodes, m, x) /\ Owns(NodeAt, nodes, n, x) => m = n
    BY <1>3, NodeOwns
  <2> QED  BY <1>1, <2>1, AgreedStarts
<1>8. NothingYet /\ CompletedAreTainted
  BY <1>1, <1>4 DEF NothingYet, CompletedAreTainted
<1> QED  BY <1>5, <1>6, <1>7, <1>8 DEF Converging

LEMMA NextConverges ==
    ClusterInv /\ Converging /\ [ClusterNext]_clusterVars => Converging'
<1> SUFFICES ASSUME ClusterInv, Converging, [ClusterNext]_clusterVars
             PROVE  Converging'
  OBVIOUS
<1>1. CASE UNCHANGED clusterVars
  <2>1. /\ podVars' = podVars /\ svcVars' = svcVars /\ nodeVars' = nodeVars
        /\ cacheVars' = cacheVars /\ ghostVars' = ghostVars
    BY <1>1 DEF clusterVars
  <2>2. tainted' = tainted /\ pods' = pods
        /\ ipMap' = ipMap /\ svcMap' = svcMap /\ nodeMap' = nodeMap
    BY <2>1 DEF podVars, cacheVars, ghostVars
  <2>3. PodsAgree' /\ ServicesAgree' /\ NodesAgree' /\ CompletedAreTainted'
    BY <2>1, <2>2, OthersAgree DEF Converging
  <2>4. NothingYet'
    BY <2>1 DEF Converging, NothingYet, podVars, svcVars, nodeVars
  <2> QED  BY <2>3, <2>4 DEF Converging
<1>2. ASSUME NEW p \in Pods,
             \/ \E n \in Nodes : CreatePod(p, n)
             \/ \E ip \in PodIPs : AssignIP(p, ip) \/ MovePod(p, ip)
             \/ FinishPod(p) \/ TouchPod(p) \/ RemovePod(p)
      PROVE  Converging'
  BY <1>2, CreatePodConverges, AssignIPConverges, MovePodConverges, FinishPodConverges,
     TouchPodConverges, RemovePodConverges
<1>3. CASE ClusterNext
  BY <1>2, <1>3, TouchServiceConverges, TouchNodeConverges, ServicesConverge, NodesConverge, LosingConverges,
     ListPodsConverges, ListSvcsConverges, ListNodesConverges,
     HandlePodConverges, HandleServiceConverges, HandleNodeConverges DEF ClusterNext
<1> QED  BY <1>1, <1>3

\* Once the handlers have seen everything, the cache answers what the API server
\* would, for every address and node but those that a quirk has touched: however
\* many changes were missed and relisted, and in whatever order three informers
\* delivered theirs (informer.go:44-141).  Nothing is said of the address of a pod
\* that completed, left it or shared it, of a service that gave it up while it
\* lived, nor of what was deleted in a gap: the code does not converge there.
THEOREM CleanConvergesCorrect == ClusterSpec => []CleanConverges
<1>1. ClusterInv /\ Converging => CleanConverges
  <2> SUFFICES ASSUME ClusterInv, Converging, Quiet
               PROVE  CleanConverges
    BY DEF CleanConverges
  <2>1. /\ WatchOK(Pods, Pods \X PodStates, pods, podsKnown, "up", <<>>)
        /\ WatchOK(Services, Services \X ServiceStates, svcs, svcsKnown, "up", <<>>)
        /\ WatchOK(Nodes, Nodes \X (ZoneLabels \ {Absent}), nodes, nodesKnown, "up", <<>>)
    BY WatchesAre DEF Quiet
  <2>2. ASSUME NEW ip \in PodIPs \ tainted
        PROVE  LET owners == {p \in Pods : HasIP(p) /\ pods[p].ip = ip}
               IN  IF owners = {} THEN ip \notin DOMAIN ipMap
                   ELSE \E p \in owners : Lookup(ipMap, ip) = [pod |-> p, node |-> pods[p].node]
    <3>1. Agreed(Pods, PodAt, PodAs, pods, podsKnown, <<>>, ip, Cached(ipMap, ip))
      BY DEF Converging, PodsAgree, Quiet
    <3>2. Cached(ipMap, ip) = Expected(Pods, PodAt, PodAs, pods, ip)
      BY <2>1, <3>1, AgreedQuiet
    <3>3. \A p \in Pods : Owns(PodAt, pods, p, ip) <=> HasIP(p) /\ pods[p].ip = ip
      BY PodOwns, IPsAssumption DEF HasIP
    <3>4. ASSUME NEW p \in Pods, HasIP(p), pods[p].ip = ip
          PROVE  Lookup(ipMap, ip) = [pod |-> p, node |-> pods[p].node]
      <4>1. Cached(ipMap, ip) = {PodAs[<<p, pods[p]>>]}
        BY <3>1, <3>2, <3>3, <3>4, ExpectedIs DEF Agreed
      <4>2. PodAs[<<p, pods[p]>>] = [pod |-> p, node |-> pods[p].node]
        BY <3>4, PodIs, PodEntries DEF HasIP
      <4> QED  BY <4>1, <4>2 DEF Cached, Lookup
    <3>5. ASSUME \A p \in Pods : ~ (HasIP(p) /\ pods[p].ip = ip)
          PROVE  ip \notin DOMAIN ipMap
      <4>1. Cached(ipMap, ip) = {}
        BY <3>1, <3>2, <3>3, <3>5, ExpectedIs DEF Agreed
      <4> QED  BY <4>1 DEF Cached
    <3> QED  BY <3>4, <3>5
  <2>3. ASSUME NEW ip \in ClusterIPs \ tainted
        PROVE  LET owners == {s \in Services : svcs[s] # Absent /\ svcs[s].ip = ip}
               IN  IF owners = {} THEN ip \notin DOMAIN svcMap
                   ELSE Lookup(svcMap, ip) \in owners
    <3>1. Agreed(Services, ServiceAt, ServiceAs, svcs, svcsKnown, <<>>, ip, Cached(svcMap, ip))
      BY DEF Converging, ServicesAgree, Quiet
    <3>2. Cached(svcMap, ip) = Expected(Services, ServiceAt, ServiceAs, svcs, ip)
      BY <2>1, <3>1, AgreedQuiet
    <3>3. \A s \in Services : Owns(ServiceAt, svcs, s, ip) <=> svcs[s] # Absent /\ svcs[s].ip = ip
      BY ServiceOwns
    <3>4. ASSUME NEW s \in Services, svcs[s] # Absent, svcs[s].ip = ip
          PROVE  Lookup(svcMap, ip) = s
      <4>1. Cached(svcMap, ip) = {ServiceAs[<<s, svcs[s]>>]}
        BY <3>1, <3>2, <3>3, <3>4, ExpectedIs DEF Agreed
      <4>2. ServiceAs[<<s, svcs[s]>>] = s
        BY <3>4, ServiceIs, ServicePlaces
      <4> QED  BY <4>1, <4>2 DEF Cached, Lookup
    <3>5. ASSUME \A s \in Services : ~ (svcs[s] # Absent /\ svcs[s].ip = ip)
          PROVE  ip \notin DOMAIN svcMap
      <4>1. Cached(svcMap, ip) = {}
        BY <3>1, <3>2, <3>3, <3>5, ExpectedIs DEF Agreed
      <4> QED  BY <4>1 DEF Cached
    <3> QED  BY <3>4, <3>5
  <2>4. ASSUME NEW n \in Nodes \ tainted
        PROVE  Lookup(nodeMap, n) = nodes[n]
    <3>1. Agreed(Nodes, NodeAt, NodeAs, nodes, nodesKnown, <<>>, n, Cached(nodeMap, n))
      BY DEF Converging, NodesAgree, Quiet
    <3> DEFINE facts == Nodes \X (ZoneLabels \ {Absent})
    <3>2. WatchOK(Nodes, facts, nodes, nodesKnown, "up", <<>>)
      BY <2>1
    <3> HIDE DEF facts
    <3>3. Cached(nodeMap, n) = Expected(Nodes, NodeAt, NodeAs, nodes, n)
      BY <3>1, <3>2, AgreedQuiet
    <3>4. \A m \in Nodes : Owns(NodeAt, nodes, m, n) <=> nodes[m] # Absent /\ n = m
      BY NodeOwns
    <3>5. CASE nodes[n] = Absent
      <4>1. Cached(nodeMap, n) = {}
        BY <3>1, <3>3, <3>4, <3>5, ExpectedIs DEF Agreed
      <4> QED  BY <3>5, <4>1 DEF Cached, Lookup
    <3>6. CASE nodes[n] # Absent
      <4>1. Cached(nodeMap, n) = {NodeAs[<<n, nodes[n]>>]}
        BY <3>1, <3>3, <3>4, <3>6, ExpectedIs DEF Agreed
      <4>2. NodeAs[<<n, nodes[n]>>] = nodes[n]
        BY <3>6, NodeIs, NodePlaces
      <4> QED  BY <4>1, <4>2 DEF Cached, Lookup
    <3> QED  BY <3>5, <3>6
  <2> QED  BY <2>2, <2>3, <2>4 DEF CleanConverges
<1>2. ClusterSpec => [](ClusterInv /\ Converging)
  <2>1. ClusterInit => ClusterInv /\ Converging
    BY ClusterInitInv, InitConverges
  <2>2. ClusterInv /\ Converging /\ [ClusterNext]_clusterVars => (ClusterInv /\ Converging)'
    BY ClusterNextInv, NextConverges
  <2> QED  BY <2>1, <2>2, PTL DEF ClusterSpec
<1> QED  BY <1>1, <1>2, PTL
=============================================================================
