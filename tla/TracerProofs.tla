---------------------------- MODULE TracerProofs ----------------------------
(***************************************************************************)
(* Proofs about Tracer, for any number of threads and sockets, whatever    *)
(* the sizes of the maps and of the ring buffer, and about Addresses, for  *)
(* every address and port.                                                 *)
(***************************************************************************)
EXTENDS Tracer, Induction

(* What reader.go makes of an event's fields. *)

\* The address in a flow's name is the one whose octets the kernel has in the
\* socket, in their order (reader.go:122-123).
THEOREM AddressIsRead ==
    ASSUME NEW a \in Octet, NEW b \in Octet, NEW c \in Octet, NEW d \in Octet
    PROVE  IPv4(Uint32(<<a, b, c, d>>)) = <<a, b, c, d>>
<1> DEFINE w == a + 256 * b + 65536 * c + 16777216 * d
<1>1. Uint32(<<a, b, c, d>>) = w
  BY DEF Uint32
<1>2. a \in 0..255 /\ b \in 0..255 /\ c \in 0..255 /\ d \in 0..255
  BY DEF Octet
<1>3. w % 256 = a
  BY <1>2
<1>4. (w \div 256) % 256 = b
  <2>1. w \div 256 = b + 256 * c + 65536 * d
    BY <1>2
  <2>2. (b + 256 * c + 65536 * d) % 256 = b
    BY <1>2
  <2> QED
    BY <2>1, <2>2
<1>5. (w \div 65536) % 256 = c
  <2>1. w \div 65536 = c + 256 * d
    BY <1>2
  <2>2. (c + 256 * d) % 256 = c
    BY <1>2
  <2> QED
    BY <2>1, <2>2
<1>6. (w \div 16777216) % 256 = d
  <2>1. w \div 16777216 = d
    BY <1>2
  <2>2. d % 256 = d
    BY <1>2
  <2> QED
    BY <2>1, <2>2
<1> QED
  BY <1>1, <1>3, <1>4, <1>5, <1>6 DEF IPv4

\* Swapping puts the octets of a number in the other order.
LEMMA SwapSwaps ==
    ASSUME NEW hi \in Octet, NEW lo \in Octet
    PROVE  SwapUint16(hi + 256 * lo) = 256 * hi + lo
<1>1. hi \in 0..255 /\ lo \in 0..255
  BY DEF Octet
<1>2. (hi + 256 * lo) \div 256 = lo
  BY <1>1
<1>3. (hi + 256 * lo) * 256 = 65536 * lo + 256 * hi
  BY <1>1
<1>4. (65536 * lo + 256 * hi) % 65536 = 256 * hi
  BY <1>1
<1> QED
  BY <1>1, <1>2, <1>3, <1>4 DEF SwapUint16

\* The port in a flow's name is the socket's: reading the two octets as a
\* little-endian number and swapping it undo each other (reader.go:33-35,130).
THEOREM PortIsRead ==
    ASSUME NEW port \in Port
    PROVE  SwapUint16(Uint16(InMemory(port))) = port
<1>1. port \in Int /\ 0 <= port /\ port < 65536
  BY DEF Port
<1>2. port % 256 \in Octet
  BY <1>1 DEF Octet
<1>3. 256 * (port \div 256) + (port % 256) = port /\ port \div 256 \in Int
  BY <1>1
<1>4. port \div 256 \in Octet
  <2> DEFINE q == port \div 256
             r == port % 256
  <2>1. q \in Int /\ r \in 0..255 /\ 256 * q + r = port
    BY <1>2, <1>3 DEF Octet
  <2> HIDE DEF q, r
  <2>2. 0 <= q
    BY <1>1, <2>1
  <2>3. q <= 255
    BY <1>1, <2>1
  <2>4. q \in Octet
    BY <2>1, <2>2, <2>3 DEF Octet
  <2> QED
    BY <2>4 DEF q
<1>5. Uint16(InMemory(port)) = (port \div 256) + 256 * (port % 256)
  BY DEF Uint16, InMemory
<1> QED
  BY <1>4, <1>2, <1>3, <1>5, SwapSwaps

\* A destination is internal when it is in 10.0.0.0/8, 172.16.0.0/12,
\* 192.168.0.0/16 or 127.0.0.0/8, and in no other case (reader.go:37-42,52-63).
THEOREM InternalIsPrivate ==
    ASSUME NEW a \in Octet, NEW b \in Octet, NEW c \in Octet, NEW d \in Octet
    PROVE  Classify(<<a, b, c, d>>) = "internal"
             <=> \/ a \in {10, 127}
                 \/ a = 172 /\ b \in 16..31
                 \/ a = 192 /\ b = 168
<1> DEFINE ip == <<a, b, c, d>>
<1>0. a \in 0..255 /\ b \in 0..255 /\ c \in 0..255 /\ d \in 0..255
  BY DEF Octet
<1>1. Contains(Block(<<10, 0, 0, 0>>, <<1, 256, 256, 256>>), ip) <=> a = 10
  BY <1>0 DEF Contains, Block
<1>2. Contains(Block(<<172, 16, 0, 0>>, <<1, 16, 256, 256>>), ip)
        <=> a = 172 /\ b \in 16..31
  BY <1>0 DEF Contains, Block
<1>3. Contains(Block(<<192, 168, 0, 0>>, <<1, 1, 256, 256>>), ip)
        <=> a = 192 /\ b = 168
  BY <1>0 DEF Contains, Block
<1>4. Contains(Block(<<127, 0, 0, 0>>, <<1, 256, 256, 256>>), ip) <=> a = 127
  BY <1>0 DEF Contains, Block
<1> QED
  BY <1>1, <1>2, <1>3, <1>4 DEF Classify, privateBlocks

LEMMA FlowOfPeer ==
    ASSUME NEW s \in Sockets
    PROVE  Flow(Ends(s)) = Peer[s]
<1> DEFINE p == Peer[s]
           src == p.src
           dst == p.dst
<1>1. /\ p = [src |-> src, dst |-> dst, port |-> p.port, class |-> p.class]
      /\ src \in [1..4 -> Octet] /\ dst \in [1..4 -> Octet] /\ p.port \in Port
      /\ p.class \in {"internal", "external"} /\ s # NoSocket
      /\ p.class = "internal" <=> Private(dst)
  BY PeerAssumption
<1>2. ASSUME NEW m \in [1..4 -> Octet]
      PROVE  /\ IPv4(Uint32(m)) = m
             /\ Classify(m) = "internal" <=> Private(m)
  <2>1. m[1] \in Octet /\ m[2] \in Octet /\ m[3] \in Octet /\ m[4] \in Octet
    OBVIOUS
  <2>2. m = <<m[1], m[2], m[3], m[4]>>
    OBVIOUS
  <2>3. IPv4(Uint32(<<m[1], m[2], m[3], m[4]>>)) = <<m[1], m[2], m[3], m[4]>>
    BY <2>1, AddressIsRead
  <2>4. Classify(<<m[1], m[2], m[3], m[4]>>) = "internal"
          <=> \/ m[1] \in {10, 127}
              \/ m[1] = 172 /\ m[2] \in 16..31
              \/ m[1] = 192 /\ m[2] = 168
    BY <2>1, InternalIsPrivate
  <2> QED
    BY <2>2, <2>3, <2>4 DEF Private
<1> HIDE DEF p
<1>3. IPv4(Uint32(src)) = src /\ IPv4(Uint32(dst)) = dst
  BY <1>1, <1>2
<1>4. SwapUint16(Uint16(InMemory(p.port))) = p.port
  BY <1>1, PortIsRead
<1>5. Classify(dst) = p.class
  <2>1. Classify(dst) = "internal" <=> p.class = "internal"
    BY <1>1, <1>2
  <2>2. Classify(dst) \in {"internal", "external"}
    BY DEF Classify
  <2> QED
    BY <1>1, <2>1, <2>2
<1>6. Ends(s) = [src_ip |-> src, dst_ip |-> dst, dst_port |-> InMemory(p.port)]
  BY <1>1 DEF Ends, p
<1> HIDE DEF src, dst
<1>7. Flow(Ends(s)) = [src |-> src, dst |-> dst, port |-> p.port, class |-> p.class]
  BY <1>3, <1>4, <1>5, <1>6 DEF Flow
<1> QED
  BY <1>1, <1>7 DEF src, dst, p

-----------------------------------------------------------------------------
(* What waits in the ring. *)

Sock == Sockets \cup {NoSocket}

Events == {e \in [type : Types, sock : Sock, bytes : Nat] :
             e.type = "exec" <=> e.sock = NoSocket}

Slots == [ev : Events, by : Threads, busy : BOOLEAN]

\* What an event adds to the tally of a type on some sockets.
Weight(e, type, socks) == IF e.type = type /\ e.sock \in socks THEN Worth(e) ELSE 0

Weights(r, type, socks) == [i \in 1..Len(r) |-> Weight(r[i].ev, type, socks)]
WaitsIn(r, type, socks) ==
    SumFunctionOnSet(Weights(r, type, socks), 1..Len(r))

LEMMA WeightType ==
    ASSUME NEW e \in Events, NEW type, NEW socks
    PROVE  Worth(e) \in Nat /\ Weight(e, type, socks) \in Nat
BY DEF Events, Worth, Weight

LEMMA WeightsType ==
    ASSUME NEW r \in Seq(Slots), NEW type, NEW socks
    PROVE  /\ Len(r) \in Nat /\ DOMAIN r = 1..Len(r) /\ IsFiniteSet(1..Len(r))
           /\ \A i \in 1..Len(r) : /\ r[i] \in Slots /\ r[i].ev \in Events
                                   /\ Weights(r, type, socks)[i] \in Nat
                                   /\ Weights(r, type, socks)[i]
                                        = Weight(r[i].ev, type, socks)
<1>1. Len(r) \in Nat /\ DOMAIN r = 1..Len(r)
  BY LenProperties
<1>2. IsFiniteSet(1..Len(r))
  BY <1>1, FS_Interval
<1>3. \A i \in 1..Len(r) : r[i] \in Slots
  BY ElementOfSeq
<1>4. \A i \in 1..Len(r) : r[i].ev \in Events
  BY <1>3 DEF Slots
<1> QED
  BY <1>1, <1>2, <1>3, <1>4, WeightType DEF Weights

LEMMA WaitsInIs ==
    ASSUME NEW r \in Seq(Slots), NEW type, NEW socks
    PROVE  SumFunction([i \in {j \in DOMAIN r : r[j].ev.type = type /\ r[j].ev.sock \in socks}
                          |-> Worth(r[i].ev)])
             = WaitsIn(r, type, socks)
<1> DEFINE S == 1..Len(r)
           E == {j \in DOMAIN r : r[j].ev.type = type /\ r[j].ev.sock \in socks}
           g == [i \in E |-> Worth(r[i].ev)]
           w == Weights(r, type, socks)
<1>1. /\ DOMAIN r = S /\ IsFiniteSet(S)
      /\ \A i \in S : w[i] \in Nat /\ w[i] = Weight(r[i].ev, type, socks)
  BY WeightsType
<1>2. E \in SUBSET S /\ DOMAIN g = E
  BY <1>1
<1>3. IsFiniteSet(E)
  BY <1>1, <1>2, FS_Subset
<1>4. \A i \in E : g[i] = w[i]
  BY <1>1, <1>2 DEF Weight
<1>5. \A i \in S \ E : w[i] = 0
  BY <1>1 DEF Weight
<1> HIDE DEF S, E, g, w
<1>6. SumFunction(g) = SumFunctionOnSet(w, E)
  BY <1>2, <1>3, <1>4, SumFunctionIs
<1>7. SumFunctionOnSet(w, S) = SumFunctionOnSet(w, E)
  BY <1>1, <1>2, <1>5, SumSubset
<1> QED
  BY <1>6, <1>7 DEF WaitsIn, S, E, g, w

LEMMA WaitsNat ==
    ASSUME NEW r \in Seq(Slots), NEW type, NEW socks
    PROVE  WaitsIn(r, type, socks) \in Nat
<1> DEFINE S == 1..Len(r)
           w == Weights(r, type, socks)
<1>1. IsFiniteSet(S) /\ \A i \in S : w[i] \in Nat
  BY WeightsType
<1> HIDE DEF S, w
<1>2. SumFunctionOnSet(w, S) \in Nat
  BY <1>1, SumNat
<1> QED
  BY <1>2 DEF WaitsIn, S, w

\* A record more weighs what its event does.
LEMMA WaitsAppend ==
    ASSUME NEW r \in Seq(Slots), NEW slot \in Slots, NEW type, NEW socks
    PROVE  WaitsIn(Append(r, slot), type, socks)
             = WaitsIn(r, type, socks) + Weight(slot.ev, type, socks)
<1> DEFINE n == Len(r)
           q == Append(r, slot)
           w == Weights(r, type, socks)
           v == Weights(q, type, socks)
           S == 1..n + 1
<1>1. /\ q \in Seq(Slots) /\ Len(q) = n + 1 /\ n \in Nat
      /\ \A i \in 1..n : q[i] = r[i]
      /\ q[n + 1] = slot
  BY AppendProperties, LenProperties
<1>2. /\ \A i \in 1..n : w[i] = Weight(r[i].ev, type, socks)
      /\ IsFiniteSet(1..n)
  BY WeightsType
<1> HIDE DEF q
<1>3. /\ \A i \in S : v[i] \in Nat /\ v[i] = Weight(q[i].ev, type, socks)
      /\ IsFiniteSet(S)
  BY <1>1, WeightsType
<1>4. n + 1 \in S /\ S \ {n + 1} = 1..n
  BY <1>1
<1>5. \A i \in 1..n : v[i] = w[i]
  BY <1>1, <1>2, <1>3
<1>6. v[n + 1] = Weight(slot.ev, type, socks)
  BY <1>1, <1>3, <1>4
<1> HIDE DEF S, v, w, n
<1>7. SumFunctionOnSet(v, S) = v[n + 1] + SumFunctionOnSet(v, S \ {n + 1})
  BY <1>3, <1>4, SumRemove
<1>8. SumFunctionOnSet(v, 1..n) = SumFunctionOnSet(w, 1..n)
  BY <1>2, <1>5, SumSame
<1>9. SumFunctionOnSet(w, 1..n) \in Nat
  BY WaitsNat DEF WaitsIn, w, n
<1>10. Weight(slot.ev, type, socks) \in Nat
  BY WeightType DEF Slots
<1>11. WaitsIn(q, type, socks) = SumFunctionOnSet(v, S)
  BY <1>1 DEF WaitsIn, v, S
<1>12. WaitsIn(r, type, socks) = SumFunctionOnSet(w, 1..n)
  BY DEF WaitsIn, w, n
<1>13. SumFunctionOnSet(v, S) = Weight(slot.ev, type, socks) + SumFunctionOnSet(w, 1..n)
  BY <1>4, <1>6, <1>7, <1>8
<1>14. WaitsIn(q, type, socks)
         = SumFunctionOnSet(w, 1..n) + Weight(slot.ev, type, socks)
  BY <1>9, <1>10, <1>11, <1>13
<1> QED
  BY <1>12, <1>14 DEF q

\* The oldest record taken, the ones after it wait.
LEMMA WaitsTail ==
    ASSUME NEW r \in Seq(Slots), r # <<>>, NEW type, NEW socks
    PROVE  /\ Tail(r) \in Seq(Slots) /\ Head(r) \in Slots /\ Len(Tail(r)) = Len(r) - 1
           /\ WaitsIn(r, type, socks)
                = Weight(Head(r).ev, type, socks) + WaitsIn(Tail(r), type, socks)
<1> DEFINE q == Tail(r)
           m == Len(q)
           w == Weights(r, type, socks)
           v == Weights(q, type, socks)
           S == 1..Len(r)
<1>1. /\ q \in Seq(Slots) /\ Head(r) \in Slots /\ Head(r) = r[1]
      /\ Len(r) \in Nat \ {0} /\ m = Len(r) - 1
      /\ \A i \in 1..m : q[i] = r[i + 1]
  BY HeadTailProperties, EmptySeq
<1>2. /\ \A i \in S : w[i] \in Nat /\ w[i] = Weight(r[i].ev, type, socks)
      /\ IsFiniteSet(S)
  BY WeightsType
<1> HIDE DEF q
<1>3. \A i \in 1..m : v[i] \in Nat /\ v[i] = Weight(q[i].ev, type, socks)
  BY <1>1, WeightsType
<1>4. m \in Nat /\ 1 \in S /\ S \ {1} = 2..m + 1 /\ Len(r) = m + 1
  BY <1>1
<1>5. \A i \in 1..m : v[i] \in Nat /\ w[i + 1] = v[i]
  <2>1. \A i \in 1..m : i + 1 \in S
    BY <1>1
  <2> QED
    BY <1>1, <1>2, <1>3, <2>1
<1>6. w[1] = Weight(Head(r).ev, type, socks)
  BY <1>1, <1>2, <1>4
<1> HIDE DEF S, v, w, m
<1>7. SumFunctionOnSet(w, S) = w[1] + SumFunctionOnSet(w, S \ {1})
  BY <1>2, <1>4, SumRemove
<1>8. SumFunctionOnSet(w, 2..m + 1) = SumFunctionOnSet(v, 1..m)
  BY <1>4, <1>5, SumShift
<1>9. WaitsIn(r, type, socks) = SumFunctionOnSet(w, S)
  BY DEF WaitsIn, w, S
<1>10. WaitsIn(q, type, socks) = SumFunctionOnSet(v, 1..m)
  BY DEF WaitsIn, v, m
<1> QED
  BY <1>1, <1>4, <1>6, <1>7, <1>8, <1>9, <1>10 DEF q, m

\* The same events weigh the same.
LEMMA WaitsSame ==
    ASSUME NEW r \in Seq(Slots), NEW q \in Seq(Slots), Len(q) = Len(r),
           \A i \in 1..Len(r) : q[i].ev = r[i].ev, NEW type, NEW socks
    PROVE  WaitsIn(q, type, socks) = WaitsIn(r, type, socks)
<1> DEFINE S == 1..Len(r)
           w == Weights(r, type, socks)
           v == Weights(q, type, socks)
<1>1. IsFiniteSet(S) /\ \A i \in S : w[i] = Weight(r[i].ev, type, socks)
  BY WeightsType
<1>2. \A i \in S : v[i] = Weight(q[i].ev, type, socks)
  BY WeightsType
<1>3. \A i \in S : v[i] = w[i]
  BY <1>1, <1>2
<1> HIDE DEF S, v, w
<1>4. SumFunctionOnSet(v, S) = SumFunctionOnSet(w, S)
  BY <1>1, <1>3, SumSame
<1> QED
  BY <1>4 DEF WaitsIn, S, v, w

-----------------------------------------------------------------------------
(* What was told of, and what was lost, in total. *)

Counts == [Index -> Nat]

LEMMA IndexOf ==
    ASSUME NEW type \in Types, NEW s \in Sock
    PROVE  <<type, s>> \in Index
BY DEF Index, Sock

LEMMA AddIs ==
    ASSUME NEW f \in Counts, NEW e \in Events
    PROVE  /\ Add(f, e) \in Counts
           /\ \A type \in Types, s \in Sock :
                Add(f, e)[<<type, s>>] = f[<<type, s>>] + Weight(e, type, {s})
<1> DEFINE x == <<e.type, e.sock>>
           w == Worth(e)
<1>1. x \in Index /\ e.type \in Types /\ e.sock \in Sock
  BY IndexOf DEF Events
<1>2. w \in Nat
  BY WeightType
<1>3. Add(f, e) = [f EXCEPT ![x] = @ + w]
  BY DEF Add
<1> HIDE DEF w
<1>4. /\ Add(f, e) \in Counts
      /\ \A y \in Index : Add(f, e)[y] = IF y = x THEN f[y] + w ELSE f[y]
  <2> HIDE DEF x
  <2> QED
    BY <1>1, <1>2, <1>3 DEF Counts
<1>5. ASSUME NEW type \in Types, NEW s \in Sock
      PROVE  Add(f, e)[<<type, s>>] = f[<<type, s>>] + Weight(e, type, {s})
  <2>1. <<type, s>> \in Index
    BY IndexOf
  <2>2. f[<<type, s>>] \in Nat
    BY <2>1 DEF Counts
  <2>3. <<type, s>> = x <=> e.type = type /\ e.sock \in {s}
    OBVIOUS
  <2> QED
    BY <1>4, <2>1, <2>2, <2>3 DEF Weight, w
<1> QED
  BY <1>4, <1>5

LEMMA TotalIs ==
    ASSUME NEW f, NEW type, NEW socks
    PROVE  Total(f, type, socks)
             = SumFunctionOnSet([s \in socks |-> f[<<type, s>>]], socks)
BY DEF Total, SumFunction

LEMMA TotalNat ==
    ASSUME NEW f \in Counts, NEW type \in Types, NEW socks \in SUBSET Sock,
           IsFiniteSet(socks)
    PROVE  Total(f, type, socks) \in Nat
<1> DEFINE g == [s \in socks |-> f[<<type, s>>]]
<1>1. \A s \in socks : g[s] \in Nat
  BY IndexOf DEF Counts
<1> HIDE DEF g
<1>2. SumFunctionOnSet(g, socks) \in Nat
  BY <1>1, SumNat
<1> QED
  BY <1>2, TotalIs DEF g

LEMMA TotalAdd ==
    ASSUME NEW f \in Counts, NEW e \in Events, NEW type \in Types,
           NEW socks \in SUBSET Sock, IsFiniteSet(socks)
    PROVE  Total(Add(f, e), type, socks) = Total(f, type, socks) + Weight(e, type, socks)
<1> DEFINE g == [s \in socks |-> f[<<type, s>>]]
           h == [s \in socks |-> Add(f, e)[<<type, s>>]]
           a == e.sock
<1>1. \A s \in socks : /\ g[s] \in Nat /\ h[s] \in Nat
                       /\ h[s] = g[s] + Weight(e, type, {s})
  <2>1. \A s \in socks : f[<<type, s>>] \in Nat /\ Add(f, e)[<<type, s>>] \in Nat
    BY IndexOf, AddIs DEF Counts
  <2> QED
    BY <2>1, AddIs
<1>2. Total(f, type, socks) = SumFunctionOnSet(g, socks)
  BY TotalIs
<1>3. Total(Add(f, e), type, socks) = SumFunctionOnSet(h, socks)
  BY TotalIs
<1>4. SumFunctionOnSet(g, socks) \in Nat /\ SumFunctionOnSet(h, socks) \in Nat
  <2> HIDE DEF g, h
  <2> QED
    BY <1>1, SumNat
<1>5. CASE a \in socks /\ e.type = type
  <2> DEFINE w == Worth(e)
  <2>1. w \in Nat /\ Weight(e, type, socks) = w
    BY <1>5, WeightType DEF Weight
  <2>2. h[a] = g[a] + w /\ \A s \in socks : s # a => h[s] = g[s]
    BY <1>1, <1>5, <2>1 DEF Weight
  <2>3. g[a] \in Nat
    BY <1>1, <1>5
  <2> HIDE DEF g, h, a, w
  <2>4. SumFunctionOnSet(h, socks) + g[a] = SumFunctionOnSet(g, socks) + h[a]
    <3>1. \A s \in socks : g[s] \in Nat /\ h[s] \in Nat
      BY <1>1
    <3>2. \A s \in socks : s # a => h[s] = g[s]
      BY <2>2
    <3>3. a \in socks
      BY <1>5
    <3> QED
      BY <3>1, <3>2, <3>3, SumChange
  <2> QED
    BY <1>2, <1>3, <1>4, <2>1, <2>2, <2>3, <2>4
<1>6. CASE ~(a \in socks /\ e.type = type)
  <2>1. Weight(e, type, socks) = 0
    BY <1>6 DEF Weight
  <2>2. \A s \in socks : h[s] = g[s]
    BY <1>1, <1>6 DEF Weight
  <2> HIDE DEF g, h
  <2>3. SumFunctionOnSet(h, socks) = SumFunctionOnSet(g, socks)
    BY <2>2, SumSame
  <2> QED
    BY <1>2, <1>3, <1>4, <2>1, <2>3
<1> QED
  BY <1>5, <1>6

-----------------------------------------------------------------------------
(* Types, and what a map entry means. *)

CallSet == {c \in [type : Paired \cup {"send", "idle"}, sock : Sock, asked : Nat] :
              /\ c.type # "idle" => c.sock \in Sockets
              /\ c.type # "send" => c.asked = 0
              /\ c.type = "send" => c.asked \in Sizes}

IsMap(m) ==
    /\ DOMAIN m \in SUBSET Threads
    /\ \A k \in DOMAIN m : m[k] \in Sockets
    /\ Cardinality(DOMAIN m) <= MapEntries

CallsOK == inCall \in [Threads -> CallSet]
MapsOK  == DOMAIN maps = Paired /\ \A type \in Paired : IsMap(maps[type])
RingOK  == ring \in Seq(Slots) /\ Len(ring) <= RingSlots
CountsOK == /\ made \in Counts /\ lost \in Counts
            /\ sent \in [Sockets -> Nat]
            /\ calls \in Nat /\ missed \in Nat

\* An entry of a thread in a probed call is that call's, even when an earlier
\* return was missed: the entry probe overwrites what was left behind.
OwnEntry ==
    \A t \in Threads, type \in Paired :
      (inCall[t].type = type /\ t \in DOMAIN maps[type])
         => maps[type][t] = inCall[t].sock

TypeInv == CallsOK /\ MapsOK /\ RingOK /\ CountsOK /\ OwnEntry

LEMMA TypesAre ==
    /\ Idle \in CallSet
    /\ \A type \in Paired, s \in Sockets : InCall(type, s, 0) \in CallSet
    /\ \A s \in Sockets, n \in Sizes : InCall("send", s, n) \in CallSet
    /\ \A s \in Sockets, n \in Sizes : Event("send", s, n) \in Events
    /\ \A type \in Paired, s \in Sockets, n \in Nat : Event(type, s, n) \in Events
    /\ Event("exec", NoSocket, 0) \in Events
BY PeerAssumption, BoundsAssumption
DEF Idle, InCall, CallSet, Event, Events, Types, Paired, Sock

LEMMA UpdateType ==
    ASSUME NEW m, IsMap(m), NEW t \in Threads, NEW s \in Sockets
    PROVE  /\ IsMap(Update(m, t, s))
           /\ t \in DOMAIN Update(m, t, s) => Update(m, t, s)[t] = s
           /\ \A k \in Threads \ {t} :
                /\ k \in DOMAIN Update(m, t, s) <=> k \in DOMAIN m
                /\ k \in DOMAIN m => Update(m, t, s)[k] = m[k]
<1> DEFINE D == DOMAIN m
           q == With(m, t, s)
<1>1. D \in SUBSET Threads /\ IsFiniteSet(D) /\ Cardinality(D) <= MapEntries
      /\ \A k \in D : m[k] \in Sockets
  BY FiniteAssumption, FS_Subset DEF IsMap
<1>2. DOMAIN q = D \cup {t} /\ \A k \in D \cup {t} : q[k] = IF k = t THEN s ELSE m[k]
  BY DEF With
<1> HIDE DEF q
<1>3. CASE t \in D \/ Cardinality(D) < MapEntries
  <2>1. Update(m, t, s) = q
    BY <1>3 DEF Update, q
  <2>2. Cardinality(D \cup {t}) <= MapEntries
    <3>1. /\ Cardinality(D) \in Nat
          /\ Cardinality(D \cup {t}) = IF t \in D THEN Cardinality(D) ELSE Cardinality(D) + 1
      BY <1>1, FS_AddElement, FS_CardinalityType
    <3> QED
      BY <1>1, <1>3, <3>1, BoundsAssumption
  <2>3. IsMap(q)
    BY <1>1, <1>2, <2>2 DEF IsMap
  <2> QED
    BY <1>2, <2>1, <2>3
<1>4. CASE ~(t \in D \/ Cardinality(D) < MapEntries)
  BY <1>4 DEF Update
<1> QED
  BY <1>3, <1>4

LEMMA WithoutType ==
    ASSUME NEW m, IsMap(m), NEW t \in Threads
    PROVE  /\ IsMap(Without(m, t))
           /\ t \notin DOMAIN Without(m, t)
           /\ \A k \in Threads \ {t} :
                /\ k \in DOMAIN Without(m, t) <=> k \in DOMAIN m
                /\ k \in DOMAIN m => Without(m, t)[k] = m[k]
<1> DEFINE D == DOMAIN m
           q == Without(m, t)
<1>1. D \in SUBSET Threads /\ IsFiniteSet(D) /\ Cardinality(D) <= MapEntries
      /\ \A k \in D : m[k] \in Sockets
  BY FiniteAssumption, FS_Subset DEF IsMap
<1>2. DOMAIN q = D \ {t} /\ \A k \in D \ {t} : q[k] = m[k]
  BY DEF Without
<1> HIDE DEF q
<1>3. Cardinality(D \ {t}) <= MapEntries
  <2>1. /\ IsFiniteSet(D \ {t}) /\ Cardinality(D \ {t}) <= Cardinality(D)
        /\ Cardinality(D \ {t}) \in Nat /\ Cardinality(D) \in Nat
    BY <1>1, FS_Subset, FS_CardinalityType
  <2> QED
    BY <1>1, <2>1, BoundsAssumption
<1>4. IsMap(q)
  BY <1>1, <1>2, <1>3 DEF IsMap
<1> QED
  BY <1>2, <1>4 DEF q

-----------------------------------------------------------------------------
(* What a step does to the calls and their map entries. *)

CallInv == CallsOK /\ MapsOK /\ OwnEntry /\ EntriesHaveCalls

LEMMA CallType ==
    ASSUME CallsOK, NEW t \in Threads
    PROVE  /\ inCall[t] \in CallSet
           /\ inCall[t].type \in Paired => inCall[t].sock \in Sockets
BY DEF CallsOK, CallSet, Paired

\* Beginning or ending a call that is not probed on its return.
LEMMA PlainCallStep ==
    ASSUME CallInv, NEW t \in Threads, NEW c \in CallSet, c.type \notin Paired,
           inCall[t].type \notin Paired,
           inCall' = [inCall EXCEPT ![t] = c], UNCHANGED <<maps, missed>>
    PROVE  CallInv'
<1>1. CallsOK' /\ \A k \in Threads : inCall'[k] = IF k = t THEN c ELSE inCall[k]
  BY DEF CallInv, CallsOK
<1>2. MapsOK'
  BY DEF CallInv, MapsOK
<1>3. OwnEntry'
  BY <1>1 DEF CallInv, OwnEntry
<1>4. EntriesHaveCalls'
  <2>1. ASSUME missed = 0, NEW type \in Paired, NEW k \in Threads, k \in DOMAIN maps[type]
        PROVE  inCall'[k] = InCall(type, maps[type][k], 0)
    <3>1. inCall[k] = InCall(type, maps[type][k], 0)
      BY <2>1 DEF CallInv, EntriesHaveCalls
    <3>2. inCall[k].type = type
      BY <3>1 DEF InCall
    <3> QED
      BY <1>1, <3>1, <3>2
  <2> QED
    BY <2>1 DEF EntriesHaveCalls
<1> QED
  BY <1>1, <1>2, <1>3, <1>4 DEF CallInv

\* The entry probe of a connect or a recv.
LEMMA EnterStep ==
    ASSUME CallInv, NEW t \in Threads, NEW type \in Paired, NEW s \in Sockets,
           inCall[t] = Idle,
           inCall' = [inCall EXCEPT ![t] = InCall(type, s, 0)],
           maps' = [maps EXCEPT ![type] = Update(@, Key(t), s)],
           UNCHANGED missed
    PROVE  CallInv'
<1> DEFINE m == maps[type]
           u == Update(m, t, s)
<1>0. CallsOK /\ MapsOK /\ OwnEntry /\ EntriesHaveCalls
  BY DEF CallInv
<1>1. CallsOK' /\ \A k \in Threads : inCall'[k] = IF k = t THEN InCall(type, s, 0)
                                                  ELSE inCall[k]
  BY <1>0, TypesAre DEF CallsOK
<1>2. /\ IsMap(u) /\ (t \in DOMAIN u => u[t] = s)
      /\ \A k \in Threads \ {t} : /\ k \in DOMAIN u <=> k \in DOMAIN m
                                  /\ k \in DOMAIN m => u[k] = m[k]
  BY <1>0, UpdateType DEF MapsOK
<1> HIDE DEF u
<1>3. /\ DOMAIN maps' = Paired /\ maps'[type] = u
      /\ \A x \in Paired : x # type => maps'[x] = maps[x]
  BY <1>0 DEF MapsOK, Key, u
<1>4. MapsOK'
  BY <1>0, <1>2, <1>3 DEF MapsOK
<1>5. InCall(type, s, 0).type = type /\ InCall(type, s, 0).sock = s
  BY DEF InCall
<1>6. OwnEntry'
  <2>1. ASSUME NEW k \in Threads, NEW x \in Paired, inCall'[k].type = x,
               k \in DOMAIN maps'[x]
        PROVE  maps'[x][k] = inCall'[k].sock
    <3>1. CASE k = t
      BY <1>1, <1>2, <1>3, <1>5, <2>1, <3>1
    <3>2. CASE k # t /\ x = type
      BY <1>0, <1>1, <1>2, <1>3, <2>1, <3>2 DEF OwnEntry
    <3>3. CASE k # t /\ x # type
      BY <1>0, <1>1, <1>3, <2>1, <3>3 DEF OwnEntry
    <3> QED
      BY <3>1, <3>2, <3>3
  <2> QED
    BY <2>1 DEF OwnEntry
<1>7. EntriesHaveCalls'
  <2>1. ASSUME missed = 0, NEW x \in Paired, NEW k \in Threads, k \in DOMAIN maps'[x]
        PROVE  inCall'[k] = InCall(x, maps'[x][k], 0)
    <3>1. CASE k # t
      <4>1. k \in DOMAIN maps[x] /\ maps'[x][k] = maps[x][k]
        BY <1>2, <1>3, <2>1, <3>1
      <4> QED
        BY <1>0, <1>1, <2>1, <3>1, <4>1 DEF EntriesHaveCalls
    <3>2. CASE k = t
      <4>1. \A y \in Paired : t \notin DOMAIN maps[y]
        <5>1. ASSUME NEW y \in Paired, t \in DOMAIN maps[y] PROVE FALSE
          <6>1. inCall[t] = InCall(y, maps[y][t], 0)
            BY <1>0, <2>1, <5>1 DEF EntriesHaveCalls
          <6> QED
            BY <6>1 DEF InCall, Idle, Paired
        <5> QED
          BY <5>1
      <4>2. x = type
        BY <1>3, <2>1, <3>2, <4>1
      <4> QED
        BY <1>1, <1>2, <1>3, <2>1, <3>2, <4>2
    <3> QED
      BY <3>1, <3>2
  <2> QED
    BY <2>1 DEF EntriesHaveCalls
<1> QED
  BY <1>1, <1>4, <1>6, <1>7 DEF CallInv

\* A return, with its probe or with the probe missed.
LEMMA LeaveStep ==
    ASSUME CallInv, missed \in Nat, NEW t \in Threads, inCall[t].type \in Paired,
           inCall' = [inCall EXCEPT ![t] = Idle],
           LET type == inCall[t].type
           IN  \/ missed' = missed + 1 /\ maps' = maps
               \/ missed' = missed /\ maps' = maps /\ t \notin DOMAIN maps[type]
               \/ missed' = missed /\ maps' = [maps EXCEPT ![type] = Without(@, Key(t))]
    PROVE  CallInv'
<1> DEFINE type == inCall[t].type
           m == maps[type]
           w == Without(m, t)
<1>0. CallsOK /\ MapsOK /\ OwnEntry /\ EntriesHaveCalls
  BY DEF CallInv
<1>1. CallsOK' /\ \A k \in Threads : inCall'[k] = IF k = t THEN Idle ELSE inCall[k]
  BY <1>0, TypesAre DEF CallsOK
<1>2. IsMap(w) /\ t \notin DOMAIN w
      /\ \A k \in Threads \ {t} : /\ k \in DOMAIN w <=> k \in DOMAIN m
                                  /\ k \in DOMAIN m => w[k] = m[k]
  BY <1>0, WithoutType DEF MapsOK
<1> HIDE DEF w
<1>3. /\ DOMAIN maps' = Paired
      /\ \A x \in Paired : \/ maps'[x] = maps[x]
                           \/ x = type /\ maps'[x] = w
  BY <1>0 DEF MapsOK, Key, w
<1>4. MapsOK'
  BY <1>0, <1>2, <1>3 DEF MapsOK
<1>5. \A x \in Paired, k \in Threads \ {t} :
        k \in DOMAIN maps'[x] => k \in DOMAIN maps[x] /\ maps'[x][k] = maps[x][k]
  BY <1>2, <1>3
<1>6. Idle.type \notin Paired
  BY DEF Idle, InCall, Paired
<1>7. OwnEntry'
  <2>1. ASSUME NEW k \in Threads, NEW x \in Paired, inCall'[k].type = x,
               k \in DOMAIN maps'[x]
        PROVE  maps'[x][k] = inCall'[k].sock
    <3>1. k # t
      BY <1>1, <1>6, <2>1
    <3> QED
      BY <1>0, <1>1, <1>5, <2>1, <3>1 DEF OwnEntry
  <2> QED
    BY <2>1 DEF OwnEntry
<1>8. EntriesHaveCalls'
  <2>1. ASSUME missed' = 0, NEW x \in Paired, NEW k \in Threads, k \in DOMAIN maps'[x]
        PROVE  inCall'[k] = InCall(x, maps'[x][k], 0)
    <3>1. missed' = missed /\ missed = 0 /\ t \notin DOMAIN maps'[type]
      BY <1>0, <1>2, <2>1 DEF MapsOK, Key, w
    <3>2. k # t
      <4>1. ASSUME k = t PROVE FALSE
        <5>1. x # type /\ t \in DOMAIN maps[x]
          BY <1>3, <2>1, <3>1, <4>1
        <5>2. inCall[t] = InCall(x, maps[x][t], 0)
          BY <1>0, <3>1, <5>1 DEF EntriesHaveCalls
        <5> QED
          BY <5>1, <5>2 DEF InCall
      <4> QED
        BY <4>1
    <3> QED
      BY <1>0, <1>1, <1>5, <2>1, <3>1, <3>2 DEF EntriesHaveCalls
  <2> QED
    BY <2>1 DEF EntriesHaveCalls
<1> QED
  BY <1>1, <1>4, <1>7, <1>8 DEF CallInv

-----------------------------------------------------------------------------
(* The balance of each flow. *)

FlowOf(s) == Flow(Ends(s))
Near(s) == IF s = NoSocket THEN {NoSocket} ELSE On(Peer[s])

Told == {"connect", "send", "exec"}
Fit(type, s) == type = "exec" <=> s = NoSocket

TallyOK ==
    /\ \A k \in DOMAIN tally : tally[k] \in Nat
    /\ \A k \in DOMAIN tally :
         \E type \in Told, s \in Sock : Fit(type, s) /\ k = <<type, FlowOf(s)>>

Balanced ==
    \A type \in Told, s \in Sock :
      Fit(type, s) =>
        Recorded(type, FlowOf(s)) + WaitsIn(ring, type, Near(s)) + Total(lost, type, Near(s))
          = Total(made, type, Near(s))

LEMMA NearType ==
    ASSUME NEW s \in Sock
    PROVE  Near(s) \in SUBSET Sock /\ IsFiniteSet(Near(s))
<1>1. On(Peer[s]) \in SUBSET Sockets
  BY DEF On
<1>2. IsFiniteSet(On(Peer[s])) /\ IsFiniteSet({NoSocket})
  BY <1>1, FiniteAssumption, FS_Subset, FS_Singleton
<1> QED
  BY <1>1, <1>2 DEF Near, Sock

LEMMA RecordedNat ==
    ASSUME TallyOK, NEW type, NEW flow
    PROVE  Recorded(type, flow) \in Nat
BY DEF TallyOK, Recorded

LEMMA TermsNat ==
    ASSUME RingOK, CountsOK, TallyOK, NEW type \in Told, NEW s \in Sock
    PROVE  /\ type \in Types
           /\ Recorded(type, FlowOf(s)) \in Nat
           /\ WaitsIn(ring, type, Near(s)) \in Nat
           /\ Total(lost, type, Near(s)) \in Nat
           /\ Total(made, type, Near(s)) \in Nat
<1>1. type \in Types
  BY DEF Told, Types, Paired
<1>2. Near(s) \in SUBSET Sock /\ IsFiniteSet(Near(s))
  BY NearType
<1>3. WaitsIn(ring, type, Near(s)) \in Nat
  BY WaitsNat DEF RingOK
<1>4. Total(lost, type, Near(s)) \in Nat /\ Total(made, type, Near(s)) \in Nat
  BY <1>1, <1>2, TotalNat DEF CountsOK
<1> QED
  BY <1>1, <1>3, <1>4, RecordedNat

\* The event is in the ring, or counted as lost.
Kept(ev) ==
    \/ \E t \in Threads : /\ ring' = Append(ring, [ev |-> ev, by |-> t, busy |-> TRUE])
                          /\ lost' = lost
    \/ ring' = ring /\ lost' = Add(lost, ev)

LEMMA ReserveIs ==
    ASSUME RingOK, NEW t \in Threads, NEW ev \in Events, Reserve(t, ev)
    PROVE  Kept(ev) /\ RingOK'
<1> DEFINE slot == [ev |-> ev, by |-> t, busy |-> TRUE]
<1>1. slot \in Slots
  BY DEF Slots
<1>2. CASE Len(ring) < RingSlots
  <2>1. ring' = Append(ring, slot) /\ lost' = lost
    BY <1>2 DEF Reserve
  <2>2. Kept(ev)
    BY <2>1 DEF Kept
  <2> HIDE DEF slot
  <2>3. ring' \in Seq(Slots) /\ Len(ring') = Len(ring) + 1 /\ Len(ring) \in Nat
    BY <1>1, <2>1, AppendProperties, LenProperties DEF RingOK
  <2> QED
    BY <1>2, <2>2, <2>3, BoundsAssumption DEF RingOK
<1>3. CASE ~(Len(ring) < RingSlots)
  <2>1. ring' = ring /\ lost' = Add(lost, ev)
    BY <1>3 DEF Reserve
  <2> QED
    BY <2>1 DEF Kept, RingOK
<1> QED
  BY <1>2, <1>3

LEMMA KeptCounts ==
    ASSUME CountsOK, NEW ev \in Events, Kept(ev)
    PROVE  lost' \in Counts
BY AddIs DEF Kept, CountsOK

\* One event more happened, and is kept.
LEMMA BalancedMade ==
    ASSUME RingOK, CountsOK, TallyOK, Balanced, NEW ev \in Events,
           made' = Add(made, ev), Kept(ev), tally' = tally
    PROVE  Balanced'
<1> SUFFICES ASSUME NEW type \in Told, NEW s \in Sock, Fit(type, s)
             PROVE  Recorded(type, FlowOf(s))' + WaitsIn(ring', type, Near(s))
                      + Total(lost', type, Near(s)) = Total(made', type, Near(s))
  BY DEF Balanced
<1> DEFINE w == Weight(ev, type, Near(s))
<1>1. Recorded(type, FlowOf(s))' = Recorded(type, FlowOf(s))
  BY DEF Recorded
<1>2. /\ type \in Types
      /\ Near(s) \in SUBSET Sock /\ IsFiniteSet(Near(s))
      /\ lost \in Counts /\ made \in Counts /\ ring \in Seq(Slots)
  BY NearType, TermsNat DEF CountsOK, RingOK
<1>3. Total(made', type, Near(s)) = Total(made, type, Near(s)) + w
  BY <1>2, TotalAdd
<1>4. \/ /\ WaitsIn(ring', type, Near(s)) = WaitsIn(ring, type, Near(s)) + w
         /\ lost' = lost
      \/ /\ ring' = ring
         /\ Total(lost', type, Near(s)) = Total(lost, type, Near(s)) + w
  <2>1. ASSUME NEW t \in Threads,
               ring' = Append(ring, [ev |-> ev, by |-> t, busy |-> TRUE])
        PROVE  WaitsIn(ring', type, Near(s)) = WaitsIn(ring, type, Near(s)) + w
    <3> DEFINE slot == [ev |-> ev, by |-> t, busy |-> TRUE]
    <3>1. slot \in Slots /\ slot.ev = ev
      BY DEF Slots
    <3> HIDE DEF slot
    <3>2. WaitsIn(Append(ring, slot), type, Near(s)) = WaitsIn(ring, type, Near(s)) + w
      BY <1>2, <3>1, WaitsAppend
    <3> QED
      BY <2>1, <3>2 DEF slot
  <2>2. Total(Add(lost, ev), type, Near(s)) = Total(lost, type, Near(s)) + w
    BY <1>2, TotalAdd
  <2> QED
    BY <2>1, <2>2 DEF Kept
<1>5. w \in Nat
  BY WeightType
<1>6. Recorded(type, FlowOf(s)) + WaitsIn(ring, type, Near(s)) + Total(lost, type, Near(s))
        = Total(made, type, Near(s))
  BY DEF Balanced
<1> HIDE DEF w
<1> QED
  BY <1>1, <1>3, <1>4, <1>5, <1>6, TermsNat

\* The events in the ring, and the counts, stay as they are.
LEMMA BalancedQuiet ==
    ASSUME RingOK, CountsOK, TallyOK, Balanced, ring' \in Seq(Slots),
           Len(ring') = Len(ring), \A i \in 1..Len(ring) : ring'[i].ev = ring[i].ev,
           UNCHANGED <<made, lost, tally>>
    PROVE  Balanced'
<1> SUFFICES ASSUME NEW type \in Told, NEW s \in Sock, Fit(type, s)
             PROVE  Recorded(type, FlowOf(s))' + WaitsIn(ring', type, Near(s))
                      + Total(lost', type, Near(s)) = Total(made', type, Near(s))
  BY DEF Balanced
<1>1. Recorded(type, FlowOf(s))' = Recorded(type, FlowOf(s))
  BY DEF Recorded
<1>2. ring \in Seq(Slots)
  BY DEF RingOK
<1>3. WaitsIn(ring', type, Near(s)) = WaitsIn(ring, type, Near(s))
  BY <1>2, WaitsSame
<1>4. Recorded(type, FlowOf(s)) + WaitsIn(ring, type, Near(s)) + Total(lost, type, Near(s))
        = Total(made, type, Near(s))
  BY DEF Balanced
<1> QED
  BY <1>1, <1>3, <1>4

\* An event read goes from the ring to the tally of the flow that its socket's
\* own fields name.
LEMMA BalancedRead ==
    ASSUME RingOK, CountsOK, TallyOK, Balanced, Read
    PROVE  Balanced' /\ TallyOK' /\ RingOK'
<1> DEFINE e == Head(ring).ev
           q == Tail(ring)
           n == Worth(e)
           v == Recorded(e.type, FlowOf(e.sock)) + n
<1>1. /\ ring # <<>> /\ ring' = q /\ made' = made /\ lost' = lost
      /\ tally' = IF e.type = "recv" THEN tally
                  ELSE With(tally, <<e.type, FlowOf(e.sock)>>, v)
  BY DEF Read, Tally, FlowOf
<1>2. ring \in Seq(Slots) /\ Len(ring) <= RingSlots
  BY DEF RingOK
<1>3. /\ q \in Seq(Slots) /\ Head(ring) \in Slots /\ Len(q) = Len(ring) - 1
      /\ \A type, socks : WaitsIn(ring, type, socks)
                            = Weight(Head(ring).ev, type, socks) + WaitsIn(q, type, socks)
  BY <1>1, <1>2, WaitsTail
<1>4. e \in Events /\ n \in Nat
  BY <1>3, WeightType DEF Slots
<1>5. v \in Nat
  BY <1>4, RecordedNat
<1>6. RingOK'
  BY <1>1, <1>2, <1>3, LenProperties, BoundsAssumption DEF RingOK
<1>7. e.sock \in Sock /\ e.type \in Types /\ Fit(e.type, e.sock)
      /\ (e.type # "recv" => e.type \in Told)
  BY <1>4 DEF Events, Fit, Types, Paired, Told
<1> HIDE DEF e, q, v, n
<1>8. /\ e.type # "recv" => DOMAIN tally' = DOMAIN tally \cup {<<e.type, FlowOf(e.sock)>>}
      /\ \A type, flow :
        Recorded(type, flow)' =
          IF e.type # "recv" /\ type = e.type /\ flow = FlowOf(e.sock)
          THEN v ELSE Recorded(type, flow)
  <2>1. CASE e.type = "recv"
    BY <1>1, <2>1 DEF Recorded
  <2>2. CASE e.type # "recv"
    <3> DEFINE key == <<e.type, FlowOf(e.sock)>>
    <3>1. /\ DOMAIN tally' = DOMAIN tally \cup {key}
          /\ \A k \in DOMAIN tally \cup {key} : tally'[k] = IF k = key THEN v ELSE tally[k]
      BY <1>1, <2>2 DEF With
    <3>2. ASSUME NEW type, NEW flow
          PROVE  Recorded(type, flow)' = IF type = e.type /\ flow = FlowOf(e.sock)
                                         THEN v ELSE Recorded(type, flow)
      <4>1. <<type, flow>> = key <=> type = e.type /\ flow = FlowOf(e.sock)
        OBVIOUS
      <4> HIDE DEF key
      <4> QED
        BY <3>1, <4>1 DEF Recorded
    <3> QED
      BY <2>2, <3>1, <3>2
  <2> QED
    BY <2>1, <2>2
<1>9. TallyOK'
  <2>1. CASE e.type = "recv"
    BY <1>1, <2>1 DEF TallyOK
  <2>2. CASE e.type # "recv"
    <3> DEFINE key == <<e.type, FlowOf(e.sock)>>
    <3>1. /\ DOMAIN tally' = DOMAIN tally \cup {key}
          /\ \A k \in DOMAIN tally \cup {key} : tally'[k] = IF k = key THEN v ELSE tally[k]
      BY <1>1, <2>2 DEF With
    <3>2. \E type \in Told, s \in Sock : Fit(type, s) /\ key = <<type, FlowOf(s)>>
      BY <1>7, <2>2
    <3> HIDE DEF key
    <3> QED
      BY <1>5, <3>1, <3>2 DEF TallyOK
  <2> QED
    BY <2>1, <2>2
<1>10. Balanced'
  <2> SUFFICES ASSUME NEW type \in Told, NEW s \in Sock, Fit(type, s)
               PROVE  Recorded(type, FlowOf(s))' + WaitsIn(ring', type, Near(s))
                        + Total(lost', type, Near(s)) = Total(made', type, Near(s))
    BY DEF Balanced
  <2> DEFINE w == Weight(e, type, Near(s))
             R == Recorded(type, FlowOf(s))
  <2>1. R + WaitsIn(ring, type, Near(s)) + Total(lost, type, Near(s))
          = Total(made, type, Near(s))
    BY DEF Balanced
  <2>2. WaitsIn(ring, type, Near(s)) = w + WaitsIn(q, type, Near(s))
    BY <1>3 DEF e
  <2>3. Recorded(type, FlowOf(s))' = R + w
    <3>1. ASSUME type = e.type
          PROVE  FlowOf(s) = FlowOf(e.sock) <=> e.sock \in Near(s)
      <4>1. CASE type = "exec"
        BY <1>7, <3>1, <4>1 DEF Fit, Near
      <4>2. CASE type # "exec"
        <5>1. s \in Sockets /\ e.sock \in Sockets
          BY <1>7, <3>1, <4>2 DEF Fit, Sock
        <5>2. FlowOf(s) = Peer[s] /\ FlowOf(e.sock) = Peer[e.sock]
          BY <5>1, FlowOfPeer DEF FlowOf
        <5>3. s # NoSocket
          BY <5>1, PeerAssumption
        <5> QED
          BY <5>1, <5>2, <5>3 DEF Near, On
      <4> QED
        BY <4>1, <4>2
    <3>2. "recv" \notin Told
      BY DEF Told
    <3>3. R \in Nat
      BY RecordedNat
    <3>4. CASE type = e.type /\ e.sock \in Near(s)
      <4>1. w = n
        BY <3>4 DEF Weight, n
      <4>2. v = R + n
        BY <3>1, <3>4 DEF v
      <4> HIDE DEF R, w
      <4> QED
        BY <1>8, <3>1, <3>2, <3>4, <4>1, <4>2
    <3>5. CASE ~(type = e.type /\ e.sock \in Near(s))
      <4>1. w = 0
        BY <3>5 DEF Weight
      <4>2. Recorded(type, FlowOf(s))' = R
        BY <1>8, <3>1, <3>5
      <4> HIDE DEF R, w
      <4> QED
        BY <3>3, <4>1, <4>2
    <3> QED
      BY <3>4, <3>5
  <2>4. w \in Nat /\ WaitsIn(q, type, Near(s)) \in Nat
    BY <1>3, <1>4, WeightType, WaitsNat DEF q
  <2>5. R \in Nat /\ Total(lost, type, Near(s)) \in Nat
    BY TermsNat
  <2> HIDE DEF R, w
  <2> QED
    BY <1>1, <2>1, <2>2, <2>3, <2>4, <2>5
<1> QED
  BY <1>6, <1>9, <1>10

-----------------------------------------------------------------------------
(* Bytes that tcp_sendmsg took, and bytes it is still to take. *)

Part(c, s) == IF c.type = "send" /\ c.sock = s THEN c.asked ELSE 0
Asked(s) == [t \in Threads |-> Part(inCall[t], s)]
AskedOf(s) == SumFunctionOnSet(Asked(s), Threads)

SendsInv == \A s \in Sockets : sent[s] + AskedOf(s) <= made[<<"send", s>>]

LEMMA PartNat ==
    ASSUME NEW c \in CallSet, NEW s
    PROVE  Part(c, s) \in Nat
BY DEF CallSet, Part

LEMMA AskedType ==
    ASSUME CallsOK, NEW s
    PROVE  (\A t \in Threads : Asked(s)[t] \in Nat) /\ AskedOf(s) \in Nat
<1> DEFINE g == Asked(s)
<1>1. \A t \in Threads : g[t] \in Nat
  BY CallType, PartNat DEF Asked
<1> HIDE DEF g
<1>2. SumFunctionOnSet(g, Threads) \in Nat
  BY <1>1, FiniteAssumption, SumNat
<1> QED
  BY <1>1, <1>2 DEF AskedOf, g

\* Beginning or ending a call changes what its own thread has asked.
LEMMA AskedStep ==
    ASSUME CallsOK, NEW t \in Threads, NEW c \in CallSet,
           inCall' = [inCall EXCEPT ![t] = c], NEW s
    PROVE  /\ AskedOf(s)' + Part(inCall[t], s) = AskedOf(s) + Part(c, s)
           /\ AskedOf(s) \in Nat /\ AskedOf(s)' \in Nat
<1> DEFINE g == Asked(s)
           h == [k \in Threads |-> Part(inCall'[k], s)]
<1>1. \A k \in Threads : inCall'[k] = IF k = t THEN c ELSE inCall[k]
  BY DEF CallsOK
<1>2. \A k \in Threads : g[k] \in Nat
  BY AskedType
<1>3. \A k \in Threads : inCall'[k] \in CallSet
  BY <1>1, CallType
<1>4. \A k \in Threads : h[k] \in Nat
  BY <1>3, PartNat
<1>5. \A k \in Threads : k # t => h[k] = g[k]
  BY <1>1 DEF Asked
<1>6. g[t] = Part(inCall[t], s) /\ h[t] = Part(c, s)
  BY <1>1 DEF Asked
<1>7. AskedOf(s)' = SumFunctionOnSet(h, Threads)
  BY DEF AskedOf, Asked, Part
<1>8. AskedOf(s) = SumFunctionOnSet(g, Threads)
  BY DEF AskedOf
<1> HIDE DEF g, h
<1>9. \A k \in Threads : g[k] \in Nat /\ h[k] \in Nat
  BY <1>2, <1>4
<1>10. SumFunctionOnSet(h, Threads) + g[t] = SumFunctionOnSet(g, Threads) + h[t]
  BY <1>5, <1>9, SumChange, FiniteAssumption
<1>11. SumFunctionOnSet(g, Threads) \in Nat /\ SumFunctionOnSet(h, Threads) \in Nat
  BY <1>9, SumNat, FiniteAssumption
<1> QED
  BY <1>6, <1>7, <1>8, <1>10, <1>11

\* Steps that do not begin or end a send.
LEMMA SendsKept ==
    ASSUME CallsOK, CountsOK, SendsInv, sent' = sent,
           \/ inCall' = inCall
           \/ \E t \in Threads, c \in CallSet :
                /\ inCall' = [inCall EXCEPT ![t] = c]
                /\ inCall[t].type # "send" /\ c.type # "send",
           made' = made \/ \E ev \in Events : made' = Add(made, ev)
    PROVE  SendsInv'
<1> SUFFICES ASSUME NEW s \in Sockets
             PROVE  sent[s] + AskedOf(s)' <= made'[<<"send", s>>]
  BY DEF SendsInv
<1>1. AskedOf(s) \in Nat
  BY AskedType
<1>2. AskedOf(s)' = AskedOf(s)
  <2>1. CASE inCall' = inCall
    BY <2>1 DEF AskedOf, Asked, Part
  <2>2. ASSUME NEW t \in Threads, NEW c \in CallSet,
               inCall' = [inCall EXCEPT ![t] = c],
               inCall[t].type # "send", c.type # "send"
        PROVE  AskedOf(s)' = AskedOf(s)
    <3>1. Part(inCall[t], s) = 0 /\ Part(c, s) = 0
      BY <2>2 DEF Part
    <3>2. /\ AskedOf(s)' + Part(inCall[t], s) = AskedOf(s) + Part(c, s)
          /\ AskedOf(s)' \in Nat
      BY <2>2, AskedStep
    <3> QED
      BY <1>1, <3>1, <3>2
  <2> QED
    BY <2>1, <2>2
<1>3. sent[s] \in Nat /\ made[<<"send", s>>] \in Nat /\ "send" \in Types /\ s \in Sock
  BY DEF CountsOK, Counts, Index, Types, Sock
<1>4. made[<<"send", s>>] <= made'[<<"send", s>>] /\ made'[<<"send", s>>] \in Nat
  <2>1. ASSUME NEW ev \in Events, made' = Add(made, ev)
        PROVE  made[<<"send", s>>] <= made'[<<"send", s>>] /\ made'[<<"send", s>>] \in Nat
    <3>1. made'[<<"send", s>>] = made[<<"send", s>>] + Weight(ev, "send", {s})
      BY <1>3, <2>1, AddIs DEF CountsOK
    <3>2. Weight(ev, "send", {s}) \in Nat
      BY WeightType
    <3> QED
      BY <1>3, <3>1, <3>2
  <2> QED
    BY <1>3, <2>1
<1>5. sent[s] + AskedOf(s) <= made[<<"send", s>>]
  BY DEF SendsInv
<1> QED
  BY <1>1, <1>2, <1>3, <1>4, <1>5

LEMMA SendsBegin ==
    ASSUME CallsOK, CountsOK, SendsInv, sent' = sent,
           NEW t \in Threads, NEW a \in Sockets, NEW n \in Sizes,
           inCall[t] = Idle, inCall' = [inCall EXCEPT ![t] = InCall("send", a, n)],
           made' = Add(made, Event("send", a, n))
    PROVE  SendsInv'
<1> SUFFICES ASSUME NEW s \in Sockets
             PROVE  sent[s] + AskedOf(s)' <= made'[<<"send", s>>]
  BY DEF SendsInv
<1> DEFINE c == InCall("send", a, n)
           ev == Event("send", a, n)
           w == IF a = s THEN n ELSE 0
<1>1. n \in Nat /\ w \in Nat
  BY BoundsAssumption
<1>2. c \in CallSet /\ ev \in Events
  BY TypesAre
<1>3. AskedOf(s)' = AskedOf(s) + w /\ AskedOf(s) \in Nat
  <2>1. Part(inCall[t], s) = 0 /\ Part(c, s) = w
    BY DEF InCall, Idle, Part
  <2> HIDE DEF c, w
  <2>2. /\ AskedOf(s)' + Part(inCall[t], s) = AskedOf(s) + Part(c, s)
        /\ AskedOf(s) \in Nat /\ AskedOf(s)' \in Nat
    BY <1>2, AskedStep DEF c
  <2> QED
    BY <1>1, <2>1, <2>2
<1>4. sent[s] \in Nat /\ made[<<"send", s>>] \in Nat /\ "send" \in Types /\ s \in Sock
  BY DEF CountsOK, Counts, Index, Types, Sock
<1>5. made'[<<"send", s>>] = made[<<"send", s>>] + w
  <2>1. Weight(ev, "send", {s}) = w
    BY DEF Weight, Event, Worth
  <2> HIDE DEF ev
  <2> QED
    BY <1>2, <1>4, <2>1, AddIs DEF CountsOK, ev
<1>6. sent[s] + AskedOf(s) <= made[<<"send", s>>]
  BY DEF SendsInv
<1> HIDE DEF w
<1> QED
  BY <1>1, <1>3, <1>4, <1>5, <1>6

LEMMA SendsEnd ==
    ASSUME CallsOK, CountsOK, SendsInv, made' = made,
           NEW t \in Threads, inCall[t].type = "send", NEW n \in 0..inCall[t].asked,
           inCall' = [inCall EXCEPT ![t] = Idle],
           sent' = [sent EXCEPT ![inCall[t].sock] = @ + n]
    PROVE  SendsInv' /\ sent' \in [Sockets -> Nat]
<1> DEFINE c == inCall[t]
<1>1. c \in CallSet /\ c.sock \in Sockets /\ c.asked \in Nat /\ n \in Nat /\ n <= c.asked
  BY DEF CallsOK, CallSet
<1>2. sent \in [Sockets -> Nat]
  BY DEF CountsOK
<1>3. sent' \in [Sockets -> Nat]
  BY <1>1, <1>2
<1>4. ASSUME NEW s \in Sockets
      PROVE  sent'[s] + AskedOf(s)' <= made[<<"send", s>>]
  <2> DEFINE w == IF c.sock = s THEN c.asked ELSE 0
  <2>1. Part(Idle, s) = 0 /\ Part(c, s) = w
    BY DEF Idle, InCall, Part
  <2>2. /\ AskedOf(s)' + w = AskedOf(s)
        /\ AskedOf(s) \in Nat /\ AskedOf(s)' \in Nat
    <3>1. Idle \in CallSet
      BY TypesAre
    <3> HIDE DEF w
    <3>2. /\ AskedOf(s)' + Part(c, s) = AskedOf(s) + Part(Idle, s)
          /\ AskedOf(s) \in Nat /\ AskedOf(s)' \in Nat
      BY <3>1, AskedStep
    <3> QED
      BY <2>1, <3>2
  <2>3. sent[s] \in Nat /\ made[<<"send", s>>] \in Nat
    BY DEF CountsOK, Counts, Index, Types
  <2>4. sent'[s] = sent[s] + (IF c.sock = s THEN n ELSE 0)
    BY <1>1, <1>2
  <2>5. sent[s] + AskedOf(s) <= made[<<"send", s>>]
    BY DEF SendsInv
  <2> HIDE DEF c
  <2> QED
    BY <1>1, <2>2, <2>3, <2>4, <2>5
<1> QED
  BY <1>3, <1>4 DEF SendsInv

-----------------------------------------------------------------------------
(* The inductive invariant. *)

RecordsInv == RingOK /\ CountsOK /\ TallyOK /\ Balanced

Inv == CallInv /\ RecordsInv /\ SendsInv

\* An event that happened and is kept, whatever else the step does.
LEMMA MadeStep ==
    ASSUME RecordsInv, NEW ev \in Events, made' = Add(made, ev),
           Kept(ev), RingOK', tally' = tally,
           sent' \in [Sockets -> Nat], calls' \in Nat, missed' \in Nat
    PROVE  RecordsInv'
<1>1. CountsOK'
  <2>1. made' \in Counts
    BY AddIs DEF RecordsInv, CountsOK
  <2> QED
    BY <2>1, KeptCounts DEF RecordsInv, CountsOK
<1>2. TallyOK'
  BY DEF RecordsInv, TallyOK
<1>3. Balanced'
  BY BalancedMade DEF RecordsInv
<1> QED
  BY <1>1, <1>2, <1>3 DEF RecordsInv

LEMMA QuietStep ==
    ASSUME RecordsInv, UNCHANGED <<made, lost, tally>>,
           ring' \in Seq(Slots), Len(ring') = Len(ring),
           \A i \in 1..Len(ring) : ring'[i].ev = ring[i].ev,
           sent' \in [Sockets -> Nat], calls' \in Nat, missed' \in Nat
    PROVE  RecordsInv'
<1>1. CountsOK' /\ RingOK' /\ TallyOK'
  BY DEF RecordsInv, CountsOK, RingOK, TallyOK
<1>2. Balanced'
  BY BalancedQuiet DEF RecordsInv
<1> QED
  BY <1>1, <1>2 DEF RecordsInv

LEMMA SameRing ==
    ASSUME RecordsInv, UNCHANGED <<made, lost, tally, ring>>,
           sent' \in [Sockets -> Nat], calls' \in Nat, missed' \in Nat
    PROVE  RecordsInv'
<1>1. ring' \in Seq(Slots) /\ Len(ring') = Len(ring)
  BY DEF RecordsInv, RingOK
<1> QED
  BY <1>1, QuietStep

\* Calls and their entries left alone.
LEMMA SameCalls ==
    ASSUME CallInv, UNCHANGED <<inCall, maps, missed>>
    PROVE  CallInv'
BY DEF CallInv, CallsOK, MapsOK, OwnEntry, EntriesHaveCalls

LEMMA ExecStep ==
    ASSUME Inv, NEW t \in Threads, Exec(t)
    PROVE  Inv'
<1> DEFINE ev == Event("exec", NoSocket, 0)
<1>1. /\ UNCHANGED <<inCall, maps, tally, missed, sent>> /\ calls' = calls + 1
      /\ made' = Add(made, ev) /\ Reserve(t, ev)
  BY DEF Exec, AtEntry, Begin
<1>2. ev \in Events
  BY TypesAre
<1> HIDE DEF ev
<1>3. /\ CallInv /\ RecordsInv /\ SendsInv /\ CallsOK /\ CountsOK /\ RingOK
      /\ sent \in [Sockets -> Nat] /\ calls \in Nat /\ missed \in Nat
  BY DEF Inv, CallInv, RecordsInv, CountsOK
<1>4. CallInv'
  BY <1>1, <1>3, SameCalls
<1>5. Kept(ev) /\ RingOK'
  BY <1>1, <1>2, <1>3, ReserveIs
<1>6. RecordsInv'
  BY <1>1, <1>2, <1>3, <1>5, MadeStep
<1>7. SendsInv'
  <2>1. CallsOK'
    BY <1>4 DEF CallInv
  <2> QED
    BY <1>1, <1>2, <1>3, <2>1, SendsKept
<1> QED
  BY <1>4, <1>6, <1>7 DEF Inv

LEMMA SendMsgStep ==
    ASSUME Inv, NEW t \in Threads, NEW s \in Sockets, NEW n \in Sizes, SendMsg(t, s, n)
    PROVE  Inv'
<1> DEFINE ev == Event("send", s, n)
           c  == InCall("send", s, n)
<1>1. /\ UNCHANGED <<maps, tally, missed, sent>> /\ calls' = calls + 1
      /\ made' = Add(made, ev) /\ Reserve(t, ev)
      /\ inCall[t] = Idle /\ inCall' = [inCall EXCEPT ![t] = c]
  BY DEF SendMsg, AtEntry, Begin
<1>2. ev \in Events /\ c \in CallSet /\ c.type \notin Paired /\ Idle.type \notin Paired
  <2>1. c.type \notin Paired /\ Idle.type \notin Paired
    BY DEF InCall, Idle, Paired
  <2> QED
    BY <2>1, TypesAre
<1>3. /\ CallInv /\ RecordsInv /\ SendsInv /\ CallsOK /\ CountsOK /\ RingOK
      /\ sent \in [Sockets -> Nat] /\ calls \in Nat /\ missed \in Nat
  BY DEF Inv, CallInv, RecordsInv, CountsOK
<1>4. CallInv'
  <2> HIDE DEF c
  <2> QED
    BY <1>1, <1>2, <1>3, PlainCallStep
<1>5. SendsInv'
  <2>1. CallsOK'
    BY <1>4 DEF CallInv
  <2> QED
    BY <1>1, <1>3, <2>1, SendsBegin
<1> HIDE DEF ev
<1>6. Kept(ev) /\ RingOK'
  BY <1>1, <1>2, <1>3, ReserveIs
<1>7. RecordsInv'
  BY <1>1, <1>2, <1>3, <1>6, MadeStep
<1> QED
  BY <1>4, <1>5, <1>7 DEF Inv

LEMMA SendReturnsStep ==
    ASSUME Inv, NEW t \in Threads, NEW n \in 0..inCall[t].asked, SendReturns(t, n)
    PROVE  Inv'
<1>1. /\ UNCHANGED <<maps, ring, tally, calls, missed, made, lost>>
      /\ inCall[t].type = "send" /\ inCall' = [inCall EXCEPT ![t] = Idle]
      /\ sent' = [sent EXCEPT ![inCall[t].sock] = @ + n]
  BY DEF SendReturns
<1>2. /\ CallInv /\ RecordsInv /\ SendsInv /\ CallsOK /\ CountsOK
      /\ calls \in Nat /\ missed \in Nat
  BY DEF Inv, CallInv, RecordsInv, CountsOK
<1>3. Idle \in CallSet /\ Idle.type \notin Paired /\ "send" \notin Paired
  <2>1. Idle.type \notin Paired /\ "send" \notin Paired
    BY DEF InCall, Idle, Paired
  <2> QED
    BY <2>1, TypesAre
<1>4. CallInv'
  BY <1>1, <1>2, <1>3, PlainCallStep
<1>5. SendsInv' /\ sent' \in [Sockets -> Nat]
  <2>1. CallsOK'
    BY <1>4 DEF CallInv
  <2> QED
    BY <1>1, <1>2, <2>1, SendsEnd
<1>6. RecordsInv'
  BY <1>1, <1>2, <1>5, SameRing
<1> QED
  BY <1>4, <1>5, <1>6 DEF Inv

LEMMA EntryStep ==
    ASSUME Inv, NEW t \in Threads, NEW type \in Paired, NEW s \in Sockets,
           Enter(t, type, s)
    PROVE  Inv'
<1> DEFINE c == InCall(type, s, 0)
<1>1. /\ UNCHANGED <<ring, tally, missed, made, lost, sent>> /\ calls' = calls + 1
      /\ inCall[t] = Idle /\ inCall' = [inCall EXCEPT ![t] = c]
      /\ maps' = [maps EXCEPT ![type] = Update(@, Key(t), s)]
  BY DEF Enter, Begin
<1>2. /\ CallInv /\ RecordsInv /\ SendsInv /\ CallsOK /\ CountsOK
      /\ sent \in [Sockets -> Nat] /\ calls \in Nat /\ missed \in Nat
  BY DEF Inv, CallInv, RecordsInv, CountsOK
<1>3. CallInv'
  BY <1>1, <1>2, EnterStep
<1>4. c \in CallSet /\ c.type # "send" /\ Idle.type # "send"
  <2>1. c.type # "send" /\ Idle.type # "send"
    BY DEF InCall, Idle, Paired
  <2> QED
    BY <2>1, TypesAre
<1> HIDE DEF c
<1>5. SendsInv'
  <2>1. CallsOK'
    BY <1>3 DEF CallInv
  <2> QED
    BY <1>1, <1>2, <1>4, <2>1, SendsKept
<1>6. RecordsInv'
  BY <1>1, <1>2, SameRing
<1> QED
  BY <1>3, <1>5, <1>6 DEF Inv

LEMMA MissStep ==
    ASSUME Inv, NEW t \in Threads, MissReturn(t)
    PROVE  Inv'
<1>1. /\ UNCHANGED <<maps, ring, tally, calls, made, lost, sent>> /\ missed' = missed + 1
      /\ inCall[t].type \in Paired /\ inCall' = [inCall EXCEPT ![t] = Idle]
  BY DEF MissReturn
<1>2. /\ CallInv /\ RecordsInv /\ SendsInv /\ CallsOK /\ CountsOK
      /\ sent \in [Sockets -> Nat] /\ calls \in Nat /\ missed \in Nat
  BY DEF Inv, CallInv, RecordsInv, CountsOK
<1>3. CallInv'
  BY <1>1, <1>2, LeaveStep
<1>4. Idle \in CallSet /\ inCall[t].type # "send" /\ Idle.type # "send"
  <2>1. inCall[t].type # "send" /\ Idle.type # "send"
    BY <1>1 DEF InCall, Idle, Paired
  <2> QED
    BY <2>1, TypesAre
<1>5. SendsInv'
  <2>1. CallsOK'
    BY <1>3 DEF CallInv
  <2> QED
    BY <1>1, <1>2, <1>4, <2>1, SendsKept
<1>6. RecordsInv'
  BY <1>1, <1>2, SameRing
<1> QED
  BY <1>3, <1>5, <1>6 DEF Inv

\* The return probe tells what the call did, of the socket of that call.
LEMMA ReturnStep ==
    ASSUME Inv, NEW t \in Threads, NEW ret \in {-1, 0, 1}, Return(t, ret)
    PROVE  Inv'
<1> DEFINE type == inCall[t].type
           s  == inCall[t].sock
           n  == Max({ret, 0})
           ev == Event(type, s, n)
           m  == maps[type]
<1>1. /\ CallInv /\ RecordsInv /\ SendsInv /\ CallsOK /\ CountsOK /\ RingOK
      /\ MapsOK /\ OwnEntry
      /\ sent \in [Sockets -> Nat] /\ calls \in Nat /\ missed \in Nat
  BY DEF Inv, CallInv, RecordsInv, CountsOK
<1>2. type \in Paired /\ s \in Sockets
  BY <1>1, CallType DEF Return
<1>3. n \in Nat
  <2>1. \E x \in {ret, 0} : \A y \in {ret, 0} : x >= y
    OBVIOUS
  <2>2. n \in {ret, 0} /\ n >= 0
    BY <2>1 DEF Max
  <2> QED
    BY <2>2
<1>4. ev \in Events
  BY <1>2, <1>3, TypesAre
<1>5. /\ inCall' = [inCall EXCEPT ![t] = Idle]
      /\ UNCHANGED <<tally, calls, missed, sent>>
      /\ made' = IF Tells(type, ret) THEN Add(made, ev) ELSE made
      /\ \/ t \notin DOMAIN m /\ maps' = maps
         \/ t \in DOMAIN m /\ maps' = [maps EXCEPT ![type] = Without(@, Key(t))]
  BY DEF Return, Key
<1>6. IF Tells(type, ret)
      THEN Kept(ev) /\ RingOK'
      ELSE UNCHANGED <<ring, lost>>
  <2>1. CASE t \notin DOMAIN m
    <3>1. /\ lost' = IF Tells(type, ret) THEN Add(lost, ev) ELSE lost
          /\ ring' = ring
      BY <2>1 DEF Return, Key
    <3> HIDE DEF ev
    <3> QED
      BY <1>1, <3>1 DEF Kept, RingOK
  <2>2. CASE t \in DOMAIN m
    <3>1. IF Tells(type, ret) THEN Reserve(t, Event(type, m[t], n))
                              ELSE UNCHANGED <<ring, lost>>
      BY <2>2 DEF Return, Key
    <3>2. m[t] = s
      BY <1>1, <1>2, <2>2 DEF OwnEntry
    <3>3. Tells(type, ret) => Reserve(t, ev)
      BY <3>1, <3>2
    <3> HIDE DEF ev
    <3> QED
      BY <1>1, <1>4, <3>1, <3>3, ReserveIs
  <2> QED
    BY <2>1, <2>2
<1>7. CallInv'
  BY <1>1, <1>2, <1>5, LeaveStep
<1> HIDE DEF ev
<1>8. RecordsInv'
  <2>1. CASE Tells(type, ret)
    BY <1>1, <1>4, <1>5, <1>6, <2>1, MadeStep
  <2>2. CASE ~Tells(type, ret)
    BY <1>1, <1>5, <1>6, <2>2, SameRing
  <2> QED
    BY <2>1, <2>2
<1>9. SendsInv'
  <2>1. CallsOK'
    BY <1>7 DEF CallInv
  <2>2. Idle \in CallSet /\ inCall[t].type # "send" /\ Idle.type # "send"
    <3>1. inCall[t].type # "send" /\ Idle.type # "send"
      BY <1>2 DEF InCall, Idle, Paired
    <3> QED
      BY <3>1, TypesAre
  <2>3. made' = made \/ \E e \in Events : made' = Add(made, e)
    BY <1>4, <1>5
  <2> QED
    BY <1>1, <1>5, <2>1, <2>2, <2>3, SendsKept
<1> QED
  BY <1>7, <1>8, <1>9 DEF Inv

\* Submitting and reading leave the calls alone.
LEMMA RingStep ==
    ASSUME Inv, Read \/ (\E t \in Threads : Submit(t)) \/ UNCHANGED tracerVars
    PROVE  Inv'
<1>1. /\ CallInv /\ RecordsInv /\ SendsInv /\ CallsOK /\ CountsOK /\ RingOK
      /\ sent \in [Sockets -> Nat] /\ calls \in Nat /\ missed \in Nat
  BY DEF Inv, CallInv, RecordsInv, CountsOK
<1>2. UNCHANGED <<inCall, maps, calls, missed, made, lost, sent>>
  BY DEF Read, Submit, tracerVars
<1>3. CallInv'
  BY <1>1, <1>2, SameCalls
<1>4. SendsInv'
  <2>1. CallsOK'
    BY <1>3 DEF CallInv
  <2> QED
    BY <1>1, <1>2, <2>1, SendsKept
<1>5. CASE Read
  <2>1. Balanced' /\ TallyOK' /\ RingOK'
    BY <1>1, <1>5, BalancedRead DEF RecordsInv
  <2>2. CountsOK'
    BY <1>1, <1>2 DEF CountsOK
  <2> QED
    BY <1>3, <1>4, <2>1, <2>2 DEF Inv, RecordsInv
<1>6. ASSUME NEW t \in Threads, Submit(t) PROVE Inv'
  <2>1. PICK i \in DOMAIN ring : ring' = [ring EXCEPT ![i].busy = FALSE]
    BY <1>6 DEF Submit
  <2>2. tally' = tally
    BY <1>6 DEF Submit
  <2> DEFINE slot == [ring[i] EXCEPT !.busy = FALSE]
  <2>3. i \in 1..Len(ring) /\ ring \in Seq(Slots) /\ ring[i] \in Slots
    BY <1>1, LenProperties, ElementOfSeq DEF RingOK
  <2>4. slot \in Slots /\ slot.ev = ring[i].ev
    BY <2>3 DEF Slots
  <2>5. ring' = [ring EXCEPT ![i] = slot]
    BY <2>1
  <2> HIDE DEF slot
  <2>6. /\ ring' \in Seq(Slots) /\ Len(ring') = Len(ring)
        /\ \A j \in 1..Len(ring) : ring'[j] = IF j = i THEN slot ELSE ring[j]
    BY <2>3, <2>4, <2>5, ExceptSeq
  <2>7. \A j \in 1..Len(ring) : ring'[j].ev = ring[j].ev
    BY <2>4, <2>6
  <2>8. RecordsInv'
    BY <1>1, <1>2, <2>2, <2>6, <2>7, QuietStep
  <2> QED
    BY <1>3, <1>4, <2>8 DEF Inv
<1>7. CASE UNCHANGED tracerVars
  <2>1. RecordsInv'
    BY <1>1, <1>2, <1>7, SameRing DEF tracerVars
  <2> QED
    BY <1>3, <1>4, <2>1 DEF Inv
<1> QED
  BY <1>5, <1>6, <1>7

LEMMA InvStep ==
    ASSUME Inv, [Next]_tracerVars
    PROVE  Inv'
<1>1. ASSUME NEW t \in Threads, NEW s \in Sockets,
             \/ \E n \in Sizes : SendMsg(t, s, n)
             \/ s \in IPv4Sockets /\ Enter(t, "connect", s)
             \/ Enter(t, "recv", s)
      PROVE  Inv'
  BY <1>1, SendMsgStep, EntryStep DEF Paired
<1>2. ASSUME NEW t \in Threads,
             \/ Exec(t)
             \/ \E n \in 0..inCall[t].asked : SendReturns(t, n)
             \/ \E ret \in {-1, 0, 1} : Return(t, ret)
             \/ MissReturn(t)
      PROVE  Inv'
  BY <1>2, ExecStep, SendReturnsStep, ReturnStep, MissStep
<1> QED
  BY <1>1, <1>2, RingStep DEF Next

LEMMA InvInit == Init => Inv
<1> SUFFICES ASSUME Init PROVE Inv
  OBVIOUS
<1>1. /\ inCall = [t \in Threads |-> Idle]
      /\ maps = [type \in Paired |-> [k \in {} |-> NoSocket]]
      /\ ring = <<>> /\ tally = [k \in {} |-> 0]
      /\ made = [x \in Index |-> 0] /\ lost = made
      /\ sent = [s \in Sockets |-> 0] /\ calls = 0 /\ missed = 0
  BY DEF Init
<1>2. Idle \in CallSet /\ Idle.type \notin Paired /\ \A s : Part(Idle, s) = 0
  <2>1. Idle.type \notin Paired /\ \A s : Part(Idle, s) = 0
    BY DEF InCall, Idle, Paired, Part
  <2> QED
    BY <2>1, TypesAre
<1>3. CallInv
  <2>1. CallsOK
    BY <1>1, <1>2 DEF CallsOK
  <2>2. MapsOK
    <3>1. \A type \in Paired : DOMAIN maps[type] = {}
      BY <1>1
    <3>2. Cardinality({}) = 0
      BY FS_EmptySet
    <3> QED
      BY <1>1, <3>1, <3>2, BoundsAssumption DEF MapsOK, IsMap
  <2>3. OwnEntry /\ EntriesHaveCalls
    BY <1>1 DEF OwnEntry, EntriesHaveCalls
  <2> QED
    BY <2>1, <2>2, <2>3 DEF CallInv
<1>4. RingOK
  BY <1>1, EmptySeq, BoundsAssumption DEF RingOK
<1>5. CountsOK /\ TallyOK
  BY <1>1 DEF CountsOK, Counts, TallyOK
<1>6. Balanced
  <2> SUFFICES ASSUME NEW type \in Told, NEW s \in Sock
               PROVE  Recorded(type, FlowOf(s)) + WaitsIn(ring, type, Near(s))
                        + Total(lost, type, Near(s)) = Total(made, type, Near(s))
    BY DEF Balanced
  <2>1. Recorded(type, FlowOf(s)) = 0
    BY <1>1 DEF Recorded
  <2>2. WaitsIn(ring, type, Near(s)) = 0
    <3>1. 1..Len(ring) = {}
      BY <1>1
    <3> QED
      BY <3>1, SumEmpty DEF WaitsIn
  <2>3. Total(lost, type, Near(s)) \in Nat
    BY <1>4, <1>5, TermsNat
  <2> QED
    BY <1>1, <2>1, <2>2, <2>3
<1>7. SendsInv
  <2> SUFFICES ASSUME NEW s \in Sockets
               PROVE  sent[s] + AskedOf(s) <= made[<<"send", s>>]
    BY DEF SendsInv
  <2> DEFINE g == Asked(s)
  <2>1. \A t \in Threads : g[t] \in Nat /\ g[t] = 0
    BY <1>1, <1>2 DEF Asked
  <2>2. AskedOf(s) = SumFunctionOnSet(g, Threads)
    BY DEF AskedOf
  <2> HIDE DEF g
  <2>3. {} \in SUBSET Threads /\ \A t \in Threads \ {} : g[t] = 0
    BY <2>1
  <2>4. SumFunctionOnSet(g, Threads) = SumFunctionOnSet(g, {})
    BY <2>1, <2>3, SumSubset, FiniteAssumption
  <2>5. AskedOf(s) = 0
    BY <2>2, <2>4, SumEmpty
  <2>6. sent[s] = 0 /\ made[<<"send", s>>] = 0
    BY <1>1 DEF Index, Types
  <2> QED
    BY <2>5, <2>6
<1> QED
  BY <1>3, <1>4, <1>5, <1>6, <1>7 DEF Inv, RecordsInv

LEMMA Invariance == Spec => []Inv
BY InvInit, InvStep, PTL DEF Spec

-----------------------------------------------------------------------------
(* What the tracer and its reader promise. *)

\* The two maps and the ring never hold more than their sizes
\* (tracer.bpf.c:11-30), and a map only sockets, keyed by threads.
THEOREM TypeCorrect == Spec => []TypeOK
<1>1. Inv => TypeOK
  <2> SUFFICES ASSUME Inv PROVE TypeOK
    OBVIOUS
  <2>1. CallsOK /\ MapsOK /\ RingOK /\ CountsOK
    BY DEF Inv, CallInv, RecordsInv
  <2>2. \A c \in CallSet : c \in [type : Paired \cup {"send", "idle"},
                                   sock : Sockets \cup {NoSocket},
                                   asked : Sizes \cup {0}]
    BY DEF CallSet, Sock
  <2>3. \A t \in Threads : inCall[t] \in CallSet
    BY <2>1 DEF CallsOK
  <2> QED
    BY <2>1, <2>2, <2>3 DEF TypeOK, MapsOK, IsMap, RingOK, CountsOK, Counts
<1> QED
  BY <1>1, Invariance, PTL

\* As long as every return is probed, an entry of a map belongs to a call that
\* is still running: none is left behind, whatever the threads do to each other.
THEOREM EntriesHaveCallsCorrect == Spec => []EntriesHaveCalls
<1>1. Inv => EntriesHaveCalls
  BY DEF Inv, CallInv
<1> QED
  BY <1>1, Invariance, PTL

\* The balance of every flow: keyed by the full pid_tgid, no interleaving of
\* threads and no byte order charges a flow with another's calls, tells a call
\* twice or a failed one at all; what is not recorded is in the ring or lost for
\* want of a slot or an entry (tracer.bpf.c:16-30, reader.go:122-137).
THEOREM EventsBalanceCorrect == Spec => []EventsBalance
<1>1. Inv => EventsBalance
  <2> SUFFICES ASSUME Inv PROVE EventsBalance
    OBVIOUS
  <2>1. RingOK /\ CountsOK /\ TallyOK /\ Balanced
    BY DEF Inv, RecordsInv
  <2>2. ring \in Seq(Slots)
    BY <2>1 DEF RingOK
  <2>3. \A type, socks : Waiting(type, socks) = WaitsIn(ring, type, socks)
    BY <2>2, WaitsInIs DEF Waiting
  <2>4. ASSUME NEW type \in {"connect", "send"}, NEW s \in Sockets
        PROVE  Recorded(type, Peer[s]) + Waiting(type, On(Peer[s]))
                 + Total(lost, type, On(Peer[s])) = Total(made, type, On(Peer[s]))
    <3>1. type \in Told /\ s \in Sock /\ s # NoSocket /\ Fit(type, s)
      BY PeerAssumption DEF Told, Sock, Fit
    <3>2. FlowOf(s) = Peer[s] /\ Near(s) = On(Peer[s])
      BY <3>1, FlowOfPeer DEF FlowOf, Near
    <3>3. Recorded(type, FlowOf(s)) + WaitsIn(ring, type, Near(s))
            + Total(lost, type, Near(s)) = Total(made, type, Near(s))
      BY <2>1, <3>1 DEF Balanced
    <3> QED
      BY <2>3, <3>2, <3>3
  <2>5. Recorded("exec", Flow(Ends(NoSocket))) + Waiting("exec", {NoSocket})
          + lost[<<"exec", NoSocket>>] = made[<<"exec", NoSocket>>]
    <3>1. "exec" \in Told /\ NoSocket \in Sock /\ Fit("exec", NoSocket)
          /\ Near(NoSocket) = {NoSocket} /\ "exec" \in Types
      BY DEF Told, Sock, Fit, Near, Types
    <3>2. Recorded("exec", FlowOf(NoSocket)) + WaitsIn(ring, "exec", {NoSocket})
            + Total(lost, "exec", {NoSocket}) = Total(made, "exec", {NoSocket})
      BY <2>1, <3>1 DEF Balanced
    <3>3. ASSUME NEW f \in Counts
          PROVE  Total(f, "exec", {NoSocket}) = f[<<"exec", NoSocket>>]
      <4> DEFINE g == [s \in {NoSocket} |-> f[<<"exec", s>>]]
                 S == {NoSocket}
      <4>1. IsFiniteSet(S) /\ NoSocket \in S /\ S \ {NoSocket} = {}
        BY FS_Singleton
      <4>2. g[NoSocket] = f[<<"exec", NoSocket>>] /\ g[NoSocket] \in Nat
        BY <3>1, IndexOf DEF Counts
      <4>3. \A s \in S : g[s] \in Nat
        BY <4>2
      <4>4. Total(f, "exec", {NoSocket}) = SumFunctionOnSet(g, S)
        BY TotalIs
      <4> HIDE DEF g, S
      <4>5. SumFunctionOnSet(g, S) = g[NoSocket] + SumFunctionOnSet(g, S \ {NoSocket})
        BY <4>1, <4>3, SumRemove
      <4> QED
        BY <4>1, <4>2, <4>4, <4>5, SumEmpty
    <3>4. lost \in Counts /\ made \in Counts
      BY <2>1 DEF CountsOK
    <3> QED
      BY <2>3, <3>2, <3>3, <3>4 DEF FlowOf
  <2>6. DOMAIN tally \subseteq {<<type, Peer[s]>> : type \in {"connect", "send"}, s \in Sockets}
                                 \cup {<<"exec", Flow(Ends(NoSocket))>>}
    <3> SUFFICES ASSUME NEW k \in DOMAIN tally, k # <<"exec", Flow(Ends(NoSocket))>>
                 PROVE  \E type \in {"connect", "send"}, s \in Sockets : k = <<type, Peer[s]>>
      OBVIOUS
    <3>1. PICK type \in Told, s \in Sock : Fit(type, s) /\ k = <<type, FlowOf(s)>>
      BY <2>1 DEF TallyOK
    <3>2. type # "exec" /\ s \in Sockets
      BY <3>1 DEF Fit, FlowOf, Sock
    <3>3. FlowOf(s) = Peer[s]
      BY <3>2, FlowOfPeer DEF FlowOf
    <3> QED
      BY <3>1, <3>2, <3>3 DEF Told
  <2>7. \A k \in {<<type, Peer[s]>> : type \in {"connect", "send"}, s \in Sockets} :
          Recorded(k[1], k[2]) + Waiting(k[1], On(k[2])) + Total(lost, k[1], On(k[2]))
            = Total(made, k[1], On(k[2]))
    BY <2>4
  <2> QED
    BY <2>5, <2>6, <2>7 DEF EventsBalance
<1> QED
  BY <1>1, Invariance, PTL

\* The size is noted before the call takes anything (tracer.bpf.c:124), so that
\* a flow is charged with no less than was sent on it, unless records were lost.
THEOREM SendsAreCoveredCorrect == Spec => []SendsAreCovered
<1>1. Inv => SendsAreCovered
  <2> SUFFICES ASSUME Inv, NEW s \in Sockets
               PROVE  Recorded("send", Peer[s]) + Waiting("send", On(Peer[s]))
                        + Total(lost, "send", On(Peer[s]))
                          >= SumFunctionOnSet(sent, On(Peer[s]))
    BY DEF SendsAreCovered
  <2> DEFINE S == On(Peer[s])
             g == [x \in S |-> made[<<"send", x>>]]
  <2>1. CallsOK /\ CountsOK /\ RingOK /\ TallyOK /\ Balanced /\ SendsInv
    BY DEF Inv, CallInv, RecordsInv
  <2>2. s \in Sock /\ s # NoSocket /\ "send" \in Told /\ Fit("send", s) /\ Near(s) = S
    BY PeerAssumption DEF Sock, Told, Fit, Near
  <2>3. Recorded("send", Peer[s]) + Waiting("send", S) + Total(lost, "send", S)
          = Total(made, "send", S)
    <3>1. Recorded("send", FlowOf(s)) + WaitsIn(ring, "send", S) + Total(lost, "send", S)
            = Total(made, "send", S)
      BY <2>1, <2>2 DEF Balanced
    <3>2. FlowOf(s) = Peer[s]
      BY FlowOfPeer DEF FlowOf
    <3>3. Waiting("send", S) = WaitsIn(ring, "send", S)
      BY <2>1, WaitsInIs DEF Waiting, RingOK
    <3> QED
      BY <3>1, <3>2, <3>3
  <2>4. IsFiniteSet(S) /\ S \subseteq Sockets
    BY <2>2, NearType DEF On
  <2>5. Total(made, "send", S) = SumFunctionOnSet(g, S)
    BY TotalIs
  <2>6. \A x \in S : sent[x] \in Nat /\ g[x] \in Nat /\ sent[x] <= g[x]
    <3> SUFFICES ASSUME NEW x \in S
                 PROVE  sent[x] \in Nat /\ g[x] \in Nat /\ sent[x] <= g[x]
      OBVIOUS
    <3>1. x \in Sockets
      BY <2>4
    <3>2. sent[x] + AskedOf(x) <= made[<<"send", x>>]
      BY <2>1, <3>1 DEF SendsInv
    <3>3. AskedOf(x) \in Nat
      BY <2>1, AskedType
    <3>4. sent[x] \in Nat /\ made[<<"send", x>>] \in Nat
      BY <2>1, <3>1 DEF CountsOK, Counts, Index, Types
    <3> QED
      BY <3>2, <3>3, <3>4
  <2> HIDE DEF S, g
  <2>7. SumFunctionOnSet(sent, S) <= SumFunctionOnSet(g, S)
    BY <2>4, <2>6, SumLeq
  <2>8. SumFunctionOnSet(sent, S) \in Nat /\ SumFunctionOnSet(g, S) \in Nat
    BY <2>4, <2>6, SumNat
  <2> QED
    BY <2>3, <2>5, <2>7, <2>8 DEF S
<1> QED
  BY <1>1, Invariance, PTL
=============================================================================
