---------------------------- MODULE StatsProofs ----------------------------
(***************************************************************************)
(* Proofs about StatsLog, for every set of flows, zones and sizes and any  *)
(* number of events: the flow table, kept event by event, is the aggregate *)
(* of the log of its interval, and so is what the reporter carries.        *)
(***************************************************************************)
EXTENDS StatsLog, Induction, FiniteSetTheorems

-----------------------------------------------------------------------------
(* One more event, on the side of the reference. *)

LEMMA AppendedEvent ==
    ASSUME NEW evs \in Seq(Events), NEW e \in Events
    PROVE  /\ Append(evs, e) \in Seq(Events)
           /\ DOMAIN evs = 1..Len(evs)
           /\ DOMAIN Append(evs, e) = 1..(Len(evs) + 1)
           /\ Len(evs) \in Nat
           /\ \A i \in 1..Len(evs) : Append(evs, e)[i] = evs[i]
           /\ Append(evs, e)[Len(evs) + 1] = e
BY AppendProperties, LenProperties

LEMMA EventIs ==
    ASSUME NEW e \in Events
    PROVE  /\ e.flow \in Flows /\ e.bytes \in Nat /\ e.ends \in Ends
           /\ e.ends[1] \in ZoneOrUnknown /\ e.ends[2] \in ZoneOrUnknown
           /\ e.type \in {"connect", "send"}
           /\ (e.type = "connect" => e.bytes = 0)
           /\ (e.type = "send" => e.bytes \in Sizes)
<1>1. \/ e \in [type : {"connect"}, flow : Flows, bytes : {0}, ends : Ends]
      \/ e \in [type : {"send"}, flow : Flows, bytes : Sizes, ends : Ends]
  BY DEF Events
<1>2. e.flow \in Flows /\ e.ends \in Ends
  BY <1>1
<1>3. \/ e.type = "connect" /\ e.bytes = 0
      \/ e.type = "send" /\ e.bytes \in Sizes
  BY <1>1
<1>4. e.ends[1] \in ZoneOrUnknown /\ e.ends[2] \in ZoneOrUnknown
  BY <1>2, EndsAssumption DEF ZoneOrUnknown
<1>5. e.bytes \in Nat
  <2>1. CASE e.bytes = 0
    BY <2>1
  <2>2. CASE e.bytes \in Sizes
    BY <2>2, SizesAssumption, Zenon
  <2> QED
    BY <1>3, <2>1, <2>2
<1>6. /\ e.type \in {"connect", "send"}
      /\ (e.type = "connect" => e.bytes = 0)
      /\ (e.type = "send" => e.bytes \in Sizes)
  BY <1>3
<1> QED
  BY <1>2, <1>4, <1>5, <1>6

LEMMA OfOneMore ==
    ASSUME NEW evs \in Seq(Events), NEW e \in Events, NEW f
    PROVE  Of(f, Append(evs, e)) =
             Of(f, evs) \cup (IF e.flow = f THEN {Len(evs) + 1} ELSE {})
BY AppendedEvent DEF Of

LEMMA OfIsFinite ==
    ASSUME NEW evs \in Seq(Events), NEW f
    PROVE  /\ IsFiniteSet(Of(f, evs)) /\ Of(f, evs) \subseteq 1..Len(evs)
           /\ \A i \in Of(f, evs) : evs[i] \in Events /\ evs[i].flow = f
<1>1. Len(evs) \in Nat /\ DOMAIN evs = 1..Len(evs) /\ \A i \in DOMAIN evs : evs[i] \in Events
  BY LenProperties, ElementOfSeq
<1>2. Of(f, evs) \subseteq 1..Len(evs)
  BY <1>1 DEF Of
<1>3. IsFiniteSet(1..Len(evs))
  BY <1>1, FS_Interval
<1> QED
  BY <1>1, <1>2, <1>3, FS_Subset DEF Of

LEMMA ConnectsOneMore ==
    ASSUME NEW evs \in Seq(Events), NEW e \in Events, NEW f
    PROVE  /\ Connects(f, evs) \in Nat
           /\ Connects(f, Append(evs, e)) =
                Connects(f, evs) + (IF e.flow = f /\ e.type = "connect" THEN 1 ELSE 0)
<1> DEFINE new == Append(evs, e)
           n == Len(evs) + 1
           C(s) == {i \in Of(f, s) : s[i].type = "connect"}
<1>1. C(new) = C(evs) \cup (IF e.flow = f /\ e.type = "connect" THEN {n} ELSE {})
  BY OfOneMore, OfIsFinite, AppendedEvent
<1>2. IsFiniteSet(C(evs)) /\ n \notin C(evs)
  BY OfIsFinite, AppendedEvent, FS_Subset
<1>3. Cardinality(C(evs)) \in Nat
  BY <1>2, FS_CardinalityType
<1>4. Cardinality(C(evs) \cup {n}) = Cardinality(C(evs)) + 1
  BY <1>2, FS_AddElement
<1>5. Connects(f, evs) = Cardinality(C(evs)) /\ Connects(f, new) = Cardinality(C(new))
  BY DEF Connects
<1> HIDE DEF C, new, n
<1>6. CASE e.flow = f /\ e.type = "connect"
  <2>1. C(new) = C(evs) \cup {n}
    BY <1>1, <1>6, Zenon
  <2>2. Connects(f, new) = Cardinality(C(evs) \cup {n})
    BY <1>5, <2>1, Zenon
  <2> QED
    BY <1>3, <1>4, <1>5, <1>6, <2>2 DEF new
<1>7. CASE ~(e.flow = f /\ e.type = "connect")
  <2>1. C(new) = C(evs)
    BY <1>1, <1>7
  <2>2. Connects(f, new) = Cardinality(C(evs))
    BY <1>5, <2>1, Zenon
  <2> QED
    BY <1>3, <1>5, <1>7, <2>2 DEF new
<1> QED
  BY <1>6, <1>7

LEMMA BytesOneMore ==
    ASSUME NEW evs \in Seq(Events), NEW e \in Events, NEW f
    PROVE  /\ BytesOf(f, evs) \in Nat
           /\ BytesOf(f, Append(evs, e)) =
                BytesOf(f, evs) + (IF e.flow = f THEN e.bytes ELSE 0)
<1> DEFINE new == Append(evs, e)
           n == Len(evs) + 1
           g == [i \in DOMAIN evs |-> evs[i].bytes]
           h == [i \in DOMAIN new |-> new[i].bytes]
           S == Of(f, evs)
           N == Of(f, new)
<1>1. /\ IsFiniteSet(S) /\ n \notin S /\ e.bytes \in Nat
      /\ \A i \in S : g[i] \in Nat /\ h[i] = g[i]
      /\ h[n] = e.bytes
  BY OfIsFinite, AppendedEvent, EventIs
<1>2. BytesOf(f, evs) = SumFunctionOnSet(g, S) /\ BytesOf(f, new) = SumFunctionOnSet(h, N)
  BY DEF BytesOf
<1>3. N = S \cup (IF e.flow = f THEN {n} ELSE {})
  BY OfOneMore
<1> HIDE DEF new, n, g, h, S, N
<1>4. SumFunctionOnSet(g, S) \in Nat /\ SumFunctionOnSet(h, S) = SumFunctionOnSet(g, S)
  BY <1>1, SumNat, SumSame
<1>5. CASE e.flow # f
  BY <1>2, <1>3, <1>4, <1>5 DEF new
<1>6. CASE e.flow = f
  <2>1. N = S \cup {n} /\ N \ {n} = S /\ n \in N
    BY <1>1, <1>3, <1>6
  <2>2. IsFiniteSet(N) /\ \A i \in N : h[i] \in Nat
    BY <1>1, <2>1, FS_AddElement
  <2>3. SumFunctionOnSet(h, N) = h[n] + SumFunctionOnSet(h, N \ {n})
    BY <2>1, <2>2, SumRemove
  <2>4. SumFunctionOnSet(h, N \ {n}) = SumFunctionOnSet(h, S)
    BY <2>1, Zenon
  <2> QED
    BY <1>1, <1>2, <1>4, <1>6, <2>3, <2>4 DEF new
<1> QED
  BY <1>5, <1>6

\* A set of positions that is not empty has a last one.
LEMMA LastOfSome ==
    ASSUME NEW n \in Nat, NEW K \in SUBSET (1..n), K # {}
    PROVE  Max(K) \in K
<1> DEFINE T == {m \in Nat : \A y \in K : m >= y}
<1>1. n \in T
  OBVIOUS
<1>2. PICK m \in T : \A j \in T : m <= j
  BY <1>1, LeastNat
<1>3. ASSUME m \notin K PROVE FALSE
  <2>1. PICK y \in K : TRUE
    OBVIOUS
  <2>2. m - 1 \in T
    BY <1>2, <1>3, <2>1
  <2> QED
    BY <1>2, <2>2
<1>4. \E x \in K : \A y \in K : x >= y
  BY <1>2, <1>3
<1> QED
  BY <1>4 DEF Max

LEMMA LastKnownOneMore ==
    ASSUME NEW evs \in Seq(Events), NEW e \in Events, NEW f, NEW k \in {1, 2}
    PROVE  LastKnown(f, Append(evs, e), k) =
             IF e.flow = f /\ e.ends[k] # Unknown
             THEN e.ends[k] ELSE LastKnown(f, evs, k)
<1> DEFINE new == Append(evs, e)
           n == Len(evs) + 1
           K(s) == {i \in Of(f, s) : s[i].ends[k] # Unknown}
<1>1. K(new) = K(evs) \cup (IF e.flow = f /\ e.ends[k] # Unknown THEN {n} ELSE {})
  BY OfOneMore, OfIsFinite, AppendedEvent
<1>2. K(evs) \subseteq 1..Len(evs) /\ Len(evs) \in Nat
  BY OfIsFinite, AppendedEvent
<1>3. /\ LastKnown(f, evs, k) = IF K(evs) = {} THEN Unknown ELSE evs[Max(K(evs))].ends[k]
      /\ LastKnown(f, new, k) = IF K(new) = {} THEN Unknown ELSE new[Max(K(new))].ends[k]
  BY DEF LastKnown
<1>4. new[n] = e /\ \A i \in 1..Len(evs) : new[i] = evs[i]
  BY AppendedEvent
<1> HIDE DEF K, new
<1>5. CASE e.flow = f /\ e.ends[k] # Unknown
  <2>1. K(new) = K(evs) \cup {n}
    BY <1>1, <1>5
  <2>2. n \in K(new) /\ \A y \in K(new) : n >= y /\ y \in Nat
    BY <1>2, <2>1
  <2>4. ASSUME NEW x \in K(new), \A y \in K(new) : x >= y
        PROVE  x = n
    BY <1>2, <2>2, <2>4
  <2>3. Max(K(new)) = n
    BY <2>2, <2>4 DEF Max
  <2> QED
    BY <1>3, <1>4, <1>5, <2>2, <2>3 DEF new
<1>6. CASE ~(e.flow = f /\ e.ends[k] # Unknown)
  <2>1. K(new) = K(evs)
    BY <1>1, <1>6
  <2>2. CASE K(evs) = {}
    BY <1>3, <1>6, <2>1, <2>2 DEF new
  <2>3. CASE K(evs) # {}
    <3>1. Max(K(evs)) \in K(evs)
      BY <1>2, <2>3, LastOfSome
    <3> QED
      BY <1>2, <1>3, <1>4, <1>6, <2>1, <2>3, <3>1 DEF new
  <2> QED
    BY <2>2, <2>3
<1> QED
  BY <1>5, <1>6

-----------------------------------------------------------------------------
(* One more event, on the side of the table. *)

NewEntry == [count |-> 0, bytes |-> 0, srcZone |-> Unknown, dstZone |-> Unknown]

\* What a table says of a flow.
EntryIn(t, f) == IF f \in DOMAIN t THEN t[f] ELSE NewEntry

\* An entry after one more event of its flow.
After(c, e) ==
    [count   |-> c.count + (IF e.type = "connect" THEN 1 ELSE 0),
     bytes   |-> c.bytes + e.bytes,
     srcZone |-> IF e.ends[1] # Unknown THEN e.ends[1] ELSE c.srcZone,
     dstZone |-> IF e.ends[2] # Unknown THEN e.ends[2] ELSE c.dstZone]

LEMMA EntryType ==
    ASSUME NEW t, IsTable(t), NEW f
    PROVE  EntryIn(t, f) \in ConnStat
BY DEF IsTable, EntryIn, NewEntry, ConnStat, ZoneOrUnknown

LEMMA ZonesSet ==
    ASSUME NEW c \in ConnStat, NEW src \in ZoneOrUnknown, NEW dst \in ZoneOrUnknown
    PROVE  [c EXCEPT !.srcZone = src, !.dstZone = dst]
             = [count |-> c.count, bytes |-> c.bytes, srcZone |-> src, dstZone |-> dst]
<1> DEFINE t == [c EXCEPT !.srcZone = src, !.dstZone = dst]
<1>1. /\ t \in ConnStat /\ t.count = c.count /\ t.bytes = c.bytes
      /\ t.srcZone = src /\ t.dstZone = dst
  BY DEF ConnStat
<1> HIDE DEF t
<1>2. t = [count |-> t.count, bytes |-> t.bytes, srcZone |-> t.srcZone,
           dstZone |-> t.dstZone]
  BY <1>1 DEF ConnStat
<1>3. t = [count |-> c.count, bytes |-> c.bytes, srcZone |-> src, dstZone |-> dst]
  BY <1>1, <1>2
<1> QED
  BY <1>3 DEF t

\* getOrCreate: the entry that was there, or a new one, with the zones that
\* resolved this time.
LEMMA GetOrCreateIs ==
    ASSUME IsTable(conns), NEW f \in Flows, NEW ends \in Ends
    PROVE  LET c == EntryIn(conns, f)
           IN  GetOrCreate(f, ends) =
                 [count   |-> c.count,
                  bytes   |-> c.bytes,
                  srcZone |-> IF ends[1] # Unknown THEN ends[1] ELSE c.srcZone,
                  dstZone |-> IF ends[2] # Unknown THEN ends[2] ELSE c.dstZone]
<1> DEFINE b == IF f \in DOMAIN conns
                THEN conns[f]
                ELSE [count |-> 0, bytes |-> 0, srcZone |-> ends[1], dstZone |-> ends[2]]
           c == EntryIn(conns, f)
           src == IF ends[1] # Unknown THEN ends[1] ELSE b.srcZone
           dst == IF ends[2] # Unknown THEN ends[2] ELSE b.dstZone
<1>1. GetOrCreate(f, ends) = [b EXCEPT !.srcZone = src, !.dstZone = dst]
  BY DEF GetOrCreate
<1>2. b \in ConnStat /\ src \in ZoneOrUnknown /\ dst \in ZoneOrUnknown
  <2>1. ends[1] \in ZoneOrUnknown /\ ends[2] \in ZoneOrUnknown
    BY EndsAssumption DEF ZoneOrUnknown
  <2>2. b \in ConnStat
    BY <2>1 DEF IsTable, ConnStat
  <2> QED
    BY <2>1, <2>2 DEF ConnStat
<1>3. b.count = c.count /\ b.bytes = c.bytes
  BY DEF EntryIn, NewEntry
<1>4. /\ src = IF ends[1] # Unknown THEN ends[1] ELSE c.srcZone
      /\ dst = IF ends[2] # Unknown THEN ends[2] ELSE c.dstZone
  BY DEF EntryIn, NewEntry
<1> HIDE DEF b, src, dst
<1>5. [b EXCEPT !.srcZone = src, !.dstZone = dst]
        = [count |-> b.count, bytes |-> b.bytes, srcZone |-> src, dstZone |-> dst]
  BY <1>2, ZonesSet
<1> QED
  BY <1>1, <1>3, <1>4, <1>5

LEMMA AfterType ==
    ASSUME NEW c \in ConnStat, NEW e \in Events
    PROVE  After(c, e) \in ConnStat
<1>1. After(c, e).count \in Nat /\ After(c, e).bytes \in Nat
  BY EventIs DEF After, ConnStat
<1>2. After(c, e).srcZone \in ZoneOrUnknown /\ After(c, e).dstZone \in ZoneOrUnknown
  BY EventIs DEF After, ConnStat
<1> QED
  BY <1>1, <1>2 DEF After, ConnStat

\* Either kind of event: its flow's entry is After, the others stay.
LEMMA ObservedTable ==
    ASSUME IsTable(conns), NEW e \in Events, Observe(e)
    PROVE  conns' = WithEntry(e.flow, After(EntryIn(conns, e.flow), e))
<1> DEFINE c == EntryIn(conns, e.flow)
           src == IF e.ends[1] # Unknown THEN e.ends[1] ELSE c.srcZone
           dst == IF e.ends[2] # Unknown THEN e.ends[2] ELSE c.dstZone
           got == [count |-> c.count, bytes |-> c.bytes, srcZone |-> src,
                   dstZone |-> dst]
<1>1. c.count \in Nat /\ c.bytes \in Nat
  BY EntryType DEF ConnStat
<1>2. GetOrCreate(e.flow, e.ends) = got
  BY EventIs, GetOrCreateIs
<1>3. CASE e.type = "connect"
  <2>1. conns' = WithEntry(e.flow, [got EXCEPT !.count = @ + 1])
    BY <1>2, <1>3 DEF Observe, RecordTCP
  <2>2. e.bytes = 0
    BY <1>3, EventIs
  <2> HIDE DEF c, src, dst
  <2>3. [got EXCEPT !.count = @ + 1]
          = [count |-> c.count + 1, bytes |-> c.bytes, srcZone |-> src, dstZone |-> dst]
    OBVIOUS
  <2>4. After(c, e)
          = [count |-> c.count + 1, bytes |-> c.bytes, srcZone |-> src, dstZone |-> dst]
    BY <1>1, <1>3, <2>2 DEF After, src, dst
  <2> QED
    BY <2>1, <2>3, <2>4 DEF c
<1>4. CASE e.type = "send"
  <2>1. conns' = WithEntry(e.flow, [got EXCEPT !.bytes = @ + e.bytes])
    BY <1>2, <1>4 DEF Observe, RecordBytes
  <2> HIDE DEF c, src, dst
  <2>2. [got EXCEPT !.bytes = @ + e.bytes]
          = [count |-> c.count, bytes |-> c.bytes + e.bytes, srcZone |-> src,
             dstZone |-> dst]
    OBVIOUS
  <2>3. After(c, e)
          = [count |-> c.count, bytes |-> c.bytes + e.bytes, srcZone |-> src,
             dstZone |-> dst]
    BY <1>1, <1>4 DEF After, src, dst
  <2> QED
    BY <2>1, <2>2, <2>3 DEF c
<1> QED
  BY <1>3, <1>4, EventIs

LEMMA WithEntryType ==
    ASSUME IsTable(conns), NEW f \in Flows, NEW c \in ConnStat
    PROVE  IsTable(WithEntry(f, c))
<1> DEFINE t == WithEntry(f, c)
<1>1. /\ DOMAIN t = DOMAIN conns \cup {f}
      /\ \A g \in DOMAIN t : t[g] = IF g = f THEN c ELSE conns[g]
      /\ t = [g \in DOMAIN t |-> t[g]]
  BY DEF WithEntry
<1> HIDE DEF t
<1>2. \A g \in DOMAIN t : t[g] \in ConnStat
  BY <1>1 DEF IsTable
<1>3. IsTable(t)
  BY <1>1, <1>2 DEF IsTable
<1> QED
  BY <1>3 DEF t

-----------------------------------------------------------------------------
(* The two sides agree. *)

FlowsOf(evs) == {evs[i].flow : i \in DOMAIN evs}

EntryOf(f, evs) ==
    [count   |-> Connects(f, evs),
     bytes   |-> BytesOf(f, evs),
     srcZone |-> LastKnown(f, evs, 1),
     dstZone |-> LastKnown(f, evs, 2)]

LEMMA AggregateIs ==
    ASSUME NEW evs
    PROVE  Aggregate(evs) = [f \in FlowsOf(evs) |-> EntryOf(f, evs)]
BY DEF Aggregate, FlowsOf, EntryOf

\* A flow that is in no event has the entry of a new one.
LEMMA NoEvents ==
    ASSUME NEW evs, NEW f, f \notin FlowsOf(evs)
    PROVE  EntryOf(f, evs) = NewEntry
<1>1. Of(f, evs) = {}
  BY DEF Of, FlowsOf
<1>2. Connects(f, evs) = 0
  <2>1. {i \in Of(f, evs) : evs[i].type = "connect"} = {}
    BY <1>1
  <2>2. Connects(f, evs) = Cardinality({})
    BY <2>1, Zenon DEF Connects
  <2> QED
    BY <2>2, FS_EmptySet
<1>3. BytesOf(f, evs) = 0
  BY <1>1, SumEmpty, Zenon DEF BytesOf
<1>4. ASSUME NEW k \in {1, 2}
      PROVE  LastKnown(f, evs, k) = Unknown
  <2>1. {i \in Of(f, evs) : evs[i].ends[k] # Unknown} = {}
    BY <1>1
  <2> QED
    BY <2>1 DEF LastKnown
<1> QED
  BY <1>2, <1>3, <1>4 DEF EntryOf, NewEntry

LEMMA EntryOfAggregate ==
    ASSUME NEW evs, NEW f
    PROVE  EntryIn(Aggregate(evs), f) = EntryOf(f, evs)
BY AggregateIs, NoEvents DEF EntryIn

LEMMA EntryOneMore ==
    ASSUME NEW evs \in Seq(Events), NEW e \in Events, NEW f
    PROVE  EntryOf(f, Append(evs, e)) =
             IF e.flow = f THEN After(EntryOf(f, evs), e) ELSE EntryOf(f, evs)
<1> DEFINE new == Append(evs, e)
<1>1. /\ Connects(f, evs) \in Nat
      /\ Connects(f, new) =
           Connects(f, evs) + (IF e.flow = f /\ e.type = "connect" THEN 1 ELSE 0)
  BY ConnectsOneMore
<1>2. /\ BytesOf(f, evs) \in Nat
      /\ BytesOf(f, new) = BytesOf(f, evs) + (IF e.flow = f THEN e.bytes ELSE 0)
  BY BytesOneMore
<1>3. \A k \in {1, 2} :
        LastKnown(f, new, k) = IF e.flow = f /\ e.ends[k] # Unknown
                               THEN e.ends[k] ELSE LastKnown(f, evs, k)
  BY LastKnownOneMore
<1> HIDE DEF new
<1>4. CASE e.flow = f
  BY <1>1, <1>2, <1>3, <1>4 DEF EntryOf, After, new
<1>5. CASE e.flow # f
  BY <1>1, <1>2, <1>3, <1>5 DEF EntryOf, new
<1> QED
  BY <1>4, <1>5

\* The heart of it: a table that is the aggregate of a log still is after
\* one more event.
LEMMA AggregateOneMore ==
    ASSUME NEW evs \in Seq(Events), NEW e \in Events, conns = Aggregate(evs)
    PROVE  WithEntry(e.flow, After(EntryIn(conns, e.flow), e))
             = Aggregate(Append(evs, e))
<1> DEFINE new == Append(evs, e)
           c == After(EntryIn(conns, e.flow), e)
<1>1. FlowsOf(new) = FlowsOf(evs) \cup {e.flow}
  BY AppendedEvent DEF FlowsOf
<1>2. DOMAIN conns = FlowsOf(evs) /\ \A f \in DOMAIN conns : conns[f] = EntryOf(f, evs)
  BY AggregateIs
<1>3. EntryOf(e.flow, new) = c
  BY EntryOneMore, EntryOfAggregate
<1>4. \A f \in FlowsOf(evs) : f # e.flow => EntryOf(f, new) = conns[f]
  BY <1>2, EntryOneMore
<1> HIDE DEF new, c
<1>5. WithEntry(e.flow, c) = [f \in FlowsOf(new) |-> EntryOf(f, new)]
  BY <1>1, <1>2, <1>3, <1>4 DEF WithEntry
<1> QED
  BY <1>5, AggregateIs DEF new, c

LEMMA AggregateOfNone == NoConns = Aggregate(<<>>) /\ IsTable(NoConns)
<1>1. FlowsOf(<<>>) = {}
  BY DEF FlowsOf
<1>2. Aggregate(<<>>) = [f \in {} |-> EntryOf(f, <<>>)]
  BY <1>1, AggregateIs
<1>3. NoConns = Aggregate(<<>>)
  BY <1>2 DEF NoConns
<1> QED
  BY <1>3 DEF NoConns, IsTable

-----------------------------------------------------------------------------
(* The invariant. *)

\* No more execs than events; and a snapshot that goes to the history next has
\* been published.
CountsFit == seen \in 0..MaxEvents /\ execCnt \in 0..seen
PublishedFirst == rep = "record" => lastJSON = snap

Inv == TypeOK /\ CountsFit /\ TableMatchesLog /\ PublishedFirst

LEMMA InvInit == Init => Inv
<1> SUFFICES ASSUME Init PROVE Inv
  OBVIOUS
<1> USE DEF Init, StatsInit
<1>1. TypeOK
  BY AggregateOfNone, MaxEventsAssumption, EmptySeq DEF TypeOK
<1>2. CountsFit
  BY MaxEventsAssumption DEF CountsFit
<1>3. TableMatchesLog
  BY AggregateOfNone DEF TableMatchesLog
<1>4. PublishedFirst
  BY DEF PublishedFirst
<1> QED
  BY <1>1, <1>2, <1>3, <1>4 DEF Inv

LEMMA ObserveStep == ASSUME Inv, NEW e \in Events, Observe(e) PROVE Inv'
<1> DEFINE c == After(EntryIn(conns, e.flow), e)
<1>1. conns' = WithEntry(e.flow, c)
  BY ObservedTable DEF Inv, TypeOK
<1>2. c \in ConnStat
  BY EntryType, AfterType DEF Inv, TypeOK
<1>3. IsTable(WithEntry(e.flow, c))
  BY <1>2, EventIs, WithEntryType DEF Inv, TypeOK
<1>4. WithEntry(e.flow, c) = Aggregate(Append(log, e))
  BY AggregateOneMore DEF Inv, TypeOK, TableMatchesLog
<1>5. UNCHANGED <<execCnt, lastJSON, snap, rep, snapLog>>
      /\ log' = Append(log, e) /\ seen' = seen + 1 /\ seen < MaxEvents
  BY DEF Observe, RecordTCP, RecordBytes
<1> HIDE DEF c
<1>6. TypeOK'
  <2>1. IsTable(conns')
    BY <1>1, <1>3
  <2>2. log' \in Seq(Events)
    BY <1>5, AppendedEvent DEF Inv, TypeOK
  <2> QED
    BY <1>5, <2>1, <2>2 DEF Inv, TypeOK
<1>7. CountsFit'
  BY <1>5, MaxEventsAssumption DEF Inv, CountsFit
<1>8. TableMatchesLog'
  BY <1>1, <1>4, <1>5 DEF Inv, TableMatchesLog
<1>9. PublishedFirst'
  BY <1>5 DEF Inv, PublishedFirst
<1> QED
  BY <1>6, <1>7, <1>8, <1>9 DEF Inv

LEMMA ObserveExecStep == ASSUME Inv, ObserveExec PROVE Inv'
<1> USE DEF ObserveExec, RecordExec
<1>1. TypeOK' /\ CountsFit'
  BY MaxEventsAssumption DEF Inv, TypeOK, CountsFit
<1>2. TableMatchesLog' /\ PublishedFirst'
  BY DEF Inv, TableMatchesLog, PublishedFirst
<1> QED
  BY <1>1, <1>2 DEF Inv

\* What the reporter takes is not the mark of its empty hands.
LEMMA SnapshotIsOne ==
    ASSUME Inv, NEW now \in Nat
    PROVE  TakeSnapshot(now) # NoSnapshot
<1>1. execCnt \in Nat
  BY MaxEventsAssumption DEF Inv, TypeOK
<1>2. conns \in UNION {[D -> ConnStat] : D \in SUBSET Flows}
  BY DEF Inv, TypeOK, IsTable
<1> QED
  BY <1>1, <1>2, NoSnapshotAssumption DEF TakeSnapshot

LEMMA IntervalStep == ASSUME Inv, Interval PROVE Inv'
<1>1. /\ snap' = TakeSnapshot(1) /\ conns' = NoConns /\ execCnt' = 0 /\ rep' = "publish"
      /\ snapLog' = log /\ log' = <<>> /\ UNCHANGED <<lastJSON, seen>>
  BY DEF Interval, Tick
<1>2. snap' # NoSnapshot /\ snap'.flows = conns
  BY <1>1, SnapshotIsOne DEF TakeSnapshot
<1>3. TypeOK'
  BY <1>1, <1>2, AggregateOfNone, EmptySeq, MaxEventsAssumption DEF Inv, TypeOK
<1>4. CountsFit'
  BY <1>1 DEF Inv, CountsFit
<1>5. TableMatchesLog'
  BY <1>1, <1>2, AggregateOfNone DEF Inv, TableMatchesLog
<1>6. PublishedFirst'
  BY <1>1 DEF PublishedFirst
<1> QED
  BY <1>3, <1>4, <1>5, <1>6 DEF Inv

LEMMA ReportStep == ASSUME Inv, Report PROVE Inv'
<1> USE DEF Report, Publish
<1>1. TypeOK' /\ CountsFit'
  BY DEF Inv, TypeOK, CountsFit
<1>2. TableMatchesLog' /\ PublishedFirst'
  BY DEF Inv, TableMatchesLog, PublishedFirst
<1> QED
  BY <1>1, <1>2 DEF Inv

LEMMA HandOverStep == ASSUME Inv, HandOver PROVE Inv'
<1> USE DEF HandOver, Recorded
<1>1. TypeOK' /\ CountsFit'
  BY EmptySeq DEF Inv, TypeOK, CountsFit
<1>2. TableMatchesLog' /\ PublishedFirst'
  BY DEF Inv, TableMatchesLog, PublishedFirst
<1> QED
  BY <1>1, <1>2 DEF Inv

LEMMA ReturnStep == ASSUME Inv, Return PROVE Inv'
<1> USE DEF Return, StopReporter
<1>1. TypeOK' /\ CountsFit'
  BY DEF Inv, TypeOK, CountsFit
<1>2. TableMatchesLog' /\ PublishedFirst'
  BY DEF Inv, TableMatchesLog, PublishedFirst
<1> QED
  BY <1>1, <1>2 DEF Inv

LEMMA SameStep ==
    ASSUME Inv, UNCHANGED <<statsVars, log, snapLog, seen>>
    PROVE  Inv'
BY DEF Inv, TypeOK, CountsFit, TableMatchesLog, PublishedFirst, statsVars

LEMMA InvStep == Inv /\ [Next]_vars => Inv'
<1> SUFFICES ASSUME Inv, [Next]_vars PROVE Inv'
  OBVIOUS
<1>1. ASSUME NEW e \in Events, Observe(e) PROVE Inv'
  BY <1>1, ObserveStep
<1>2. CASE ObserveExec
  BY <1>2, ObserveExecStep
<1>3. CASE Interval
  BY <1>3, IntervalStep
<1>4. CASE Report
  BY <1>4, ReportStep
<1>5. CASE HandOver
  BY <1>5, HandOverStep
<1>6. CASE CloseStopCh
  BY <1>6, SameStep DEF CloseStopCh
<1>7. CASE Return
  BY <1>7, ReturnStep
<1>8. CASE UNCHANGED vars
  BY <1>8, SameStep DEF vars
<1> QED
  BY <1>1, <1>2, <1>3, <1>4, <1>5, <1>6, <1>7, <1>8 DEF Next

THEOREM InvCorrect == Spec => []Inv
BY InvInit, InvStep, PTL DEF Spec

-----------------------------------------------------------------------------
\* The table keeps its type, and the reporter holds a snapshot exactly while
\* it is between two of its critical sections (stats.go:192-208).
THEOREM TypeCorrect == Spec => []TypeOK
<1>1. Inv => TypeOK
  BY DEF Inv
<1> QED
  BY <1>1, InvCorrect, PTL

\* Whatever the interleaving of reader and reporter, the table holds exactly
\* the events since the last reset, the snapshot exactly those before it, each
\* once, with the latest zones that resolved (getOrCreate, snapshotAndReset).
THEOREM TableMatchesLogCorrect == Spec => []TableMatchesLog
<1>1. Inv => TableMatchesLog
  BY DEF Inv
<1> QED
  BY <1>1, InvCorrect, PTL

\* The dashboard's snapshot changes only to the one that the history gets next
\* (stats.go:197-205).
THEOREM PublishedIsHandedOverCorrect == Spec => PublishedIsHandedOver
<1> DEFINE P == /\ lastJSON' # lastJSON => lastJSON' = snap
                /\ (rep = "record" /\ rep' = "waiting") => lastJSON = snap
<1>1. ASSUME Inv, Next PROVE lastJSON' # lastJSON => lastJSON' = snap
  <2>1. ASSUME NEW e \in Events, Observe(e) PROVE lastJSON' = lastJSON
    BY <2>1 DEF Observe, RecordTCP, RecordBytes
  <2>2. CASE Report
    BY <2>2 DEF Report, Publish
  <2>3. ASSUME ObserveExec \/ Interval \/ HandOver \/ CloseStopCh \/ Return
        PROVE  lastJSON' = lastJSON
    BY <2>3 DEF ObserveExec, RecordExec, Interval, Tick, HandOver, Recorded,
                CloseStopCh, Return, StopReporter, statsVars
  <2> QED
    BY <1>1, <2>1, <2>2, <2>3 DEF Next
<1>2. Inv /\ [Next]_vars => [P]_vars
  BY <1>1 DEF Inv, PublishedFirst
<1> QED
  BY <1>2, InvCorrect, PTL DEF Spec, PublishedIsHandedOver
=============================================================================
