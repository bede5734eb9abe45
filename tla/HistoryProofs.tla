--------------------------- MODULE HistoryProofs ---------------------------
(***************************************************************************)
(* Proofs about History, for every set of records, ring capacity and       *)
(* number of faults.                                                       *)
(***************************************************************************)
EXTENDS History, Induction, FiniteSetTheorems

Lines == Records \cup {Malformed}

Stores == [since : Nat, bytes : Nat, crossAZ : Nat, cost : Nat,
           ring : Seq(Records)]

-----------------------------------------------------------------------------
(* The replay loop. *)

\* g tabulates the replay loop over the lines ls.
Scans(g, ls) ==
    g = [i \in 0..Len(ls) |->
          IF i = 0 THEN EmptyStore ELSE ReplayLine(g[i - 1], ls[i])]

LEMMA ReplayDef ==
    ASSUME NEW ls
    PROVE  Replay(ls) = (CHOOSE g : Scans(g, ls))[Len(ls)]
BY DEF Replay, Scans

\* The loop is well defined over every sequence of lines.
LEMMA ScanExists ==
    ASSUME NEW ls \in Seq(Lines)
    PROVE  \E g : Scans(g, ls)
<1> DEFINE T == {s \in Seq(Lines) : \E g : Scans(g, s)}
<1>1. <<>> \in T
  <2>1. Scans([i \in 0..0 |-> EmptyStore], <<>>)
    BY EmptySeq DEF Scans
  <2> QED
    BY <2>1, EmptySeq
<1>2. ASSUME NEW s \in T, NEW e \in Lines
      PROVE  Append(s, e) \in T
  <2>1. PICK g : Scans(g, s)
    OBVIOUS
  <2> DEFINE n == Len(s)
             t == Append(s, e)
             h == [i \in 0..n + 1 |->
                     IF i = n + 1 THEN ReplayLine(g[n], e) ELSE g[i]]
  <2>2. /\ t \in Seq(Lines)
        /\ Len(t) = n + 1
        /\ n \in Nat
        /\ \A i \in 1..n : t[i] = s[i]
        /\ t[n + 1] = e
    BY AppendProperties, LenProperties
  <2> HIDE DEF t
  <2>3. \A i \in 0..n + 1 :
           h[i] = IF i = 0 THEN EmptyStore ELSE ReplayLine(h[i - 1], t[i])
    <3> SUFFICES ASSUME NEW i \in 0..n + 1
                 PROVE  h[i] = IF i = 0 THEN EmptyStore
                               ELSE ReplayLine(h[i - 1], t[i])
      OBVIOUS
    <3> HIDE DEF n
    <3>1. \A j \in 0..n : g[j] = IF j = 0 THEN EmptyStore
                                ELSE ReplayLine(g[j - 1], s[j])
      BY <2>1 DEF Scans, n
    <3>2. CASE i = 0
      BY <3>1, <3>2, <2>2
    <3>3. CASE i \in 1..n
      <4>1. h[i] = g[i] /\ h[i - 1] = g[i - 1] /\ t[i] = s[i] /\ i # 0
        BY <3>3, <2>2
      <4>2. g[i] = ReplayLine(g[i - 1], s[i])
        BY <3>1, <3>3, <2>2
      <4> HIDE DEF h
      <4> QED
        BY <4>1, <4>2
    <3>4. CASE i = n + 1
      <4>1. h[i] = ReplayLine(g[n], e) /\ h[i - 1] = g[n] /\ t[i] = e /\ i # 0
        BY <3>4, <2>2
      <4> HIDE DEF h
      <4> QED
        BY <4>1
    <3> QED
      BY <3>2, <3>3, <3>4, <2>2
  <2>4. Scans(h, t)
    <3>1. DOMAIN h = 0..Len(t) /\ h = [i \in 0..Len(t) |-> h[i]]
      BY <2>2
    <3> HIDE DEF h
    <3> QED
      BY <3>1, <2>2, <2>3 DEF Scans
  <2> QED
    BY <2>2, <2>4 DEF t
<1> HIDE DEF T
<1>3. T \in SUBSET Seq(Lines)
  BY DEF T
<1>4. T = Seq(Lines)
  BY <1>1, <1>2, <1>3, SeqSetInduction
<1> QED
  BY <1>4 DEF T
LEMMA ReplayEmpty == Replay(<<>>) = EmptyStore
<1>1. \E g : Scans(g, <<>>)
  BY ScanExists, EmptySeq
<1> DEFINE c == CHOOSE g : Scans(g, <<>>)
<1>2. Scans(c, <<>>)
  BY <1>1
<1> HIDE DEF c
<1>3. c[0] = EmptyStore
  BY <1>2, EmptySeq DEF Scans
<1> QED
  BY <1>3, ReplayDef, EmptySeq DEF c

\* Reading one more line is one more turn of the loop.
LEMMA ReplayAppend ==
    ASSUME NEW ls \in Seq(Lines), NEW e \in Lines
    PROVE  Replay(Append(ls, e)) = ReplayLine(Replay(ls), e)
<1> DEFINE n  == Len(ls)
           t  == Append(ls, e)
           c  == CHOOSE g : Scans(g, ls)
           ct == CHOOSE g : Scans(g, t)
<1>1. /\ t \in Seq(Lines)
      /\ Len(t) = n + 1
      /\ n \in Nat
      /\ \A i \in 1..n : t[i] = ls[i]
      /\ t[n + 1] = e
  BY AppendProperties, LenProperties
<1> HIDE DEF t
<1>2. Scans(c, ls) /\ Scans(ct, t)
  BY ScanExists, <1>1
<1>3. Replay(ls) = c[n] /\ Replay(t) = ct[n + 1]
  BY ReplayDef, <1>1
<1> HIDE DEF c, ct, n
<1>4. \A i \in 0..n : c[i] = IF i = 0 THEN EmptyStore
                              ELSE ReplayLine(c[i - 1], ls[i])
  BY <1>2 DEF Scans, n
<1>5. \A i \in 0..n + 1 : ct[i] = IF i = 0 THEN EmptyStore
                                   ELSE ReplayLine(ct[i - 1], t[i])
  BY <1>2, <1>1 DEF Scans
<1> DEFINE Differ == {i \in 0..n : c[i] # ct[i]}
<1>6. Differ = {}
  <2> SUFFICES ASSUME Differ # {} PROVE FALSE
    OBVIOUS
  <2>1. Differ \in SUBSET Nat
    BY <1>1
  <2>2. PICK m \in Differ : \A i \in Differ : m <= i
    BY <2>1, LeastNat
  <2>3. m # 0 /\ m \in 1..n /\ m - 1 \in 0..n
    BY <2>2, <1>4, <1>5, <1>1
  <2>4. m - 1 \notin Differ
    BY <2>2, <2>1, <2>3
  <2>5. c[m - 1] = ct[m - 1] /\ ls[m] = t[m]
    BY <2>3, <2>4, <1>1
  <2> HIDE DEF Differ
  <2>6. m \in 0..n /\ m \in 0..n + 1
    BY <2>3, <1>1
  <2>7. c[m] = ReplayLine(c[m - 1], ls[m])
    BY <2>3, <2>6, <1>4
  <2>8. ct[m] = ReplayLine(ct[m - 1], t[m])
    BY <2>3, <2>6, <1>5
  <2> QED
    BY <2>2, <2>5, <2>7, <2>8 DEF Differ
<1>7. ct[n] = c[n]
  BY <1>6, <1>1
<1>8. ct[n + 1] = ReplayLine(ct[n], e)
  BY <1>5, <1>1
<1> QED
  BY <1>3, <1>7, <1>8 DEF t

\* What the loop reads into the store is well formed: the ring stays within its
\* capacity.
LEMMA PushType ==
    ASSUME NEW ring \in Seq(Records), Len(ring) <= RingCap, NEW rec \in Records
    PROVE  /\ Push(ring, rec) \in Seq(Records)
           /\ Len(Push(ring, rec)) <= RingCap
<1> DEFINE grown == Append(ring, rec)
<1>1. grown \in Seq(Records) /\ grown # <<>> /\ Len(grown) = Len(ring) + 1
  BY AppendProperties
<1>2. Tail(grown) \in Seq(Records) /\ Len(Tail(grown)) = Len(grown) - 1
  BY <1>1, HeadTailProperties
<1>3. Len(ring) \in Nat /\ RingCap \in Nat
  BY LenProperties, RingCapAssumption
<1> HIDE DEF grown
<1>4. Push(ring, rec) = IF Len(grown) > RingCap THEN Tail(grown) ELSE grown
  BY DEF Push, grown
<1> QED
  BY <1>1, <1>2, <1>3, <1>4

GoodStore(h) == h \in Stores /\ Len(h.ring) <= RingCap

LEMMA AbsorbType ==
    ASSUME NEW h, GoodStore(h), NEW rec \in Records
    PROVE  GoodStore(Absorb(h, rec))
<1>1. rec \in [timestamp : Times, bytes : Nat, crossAZ : Nat, cost : Nat]
  BY RecordsAssumption
<1>2. Push(h.ring, rec) \in Seq(Records) /\ Len(Push(h.ring, rec)) <= RingCap
  BY PushType DEF GoodStore, Stores
<1> DEFINE k == Absorb(h, rec)
<1>3. k = [since   |-> h.since,
           bytes   |-> h.bytes + rec.bytes,
           crossAZ |-> h.crossAZ + rec.crossAZ,
           cost    |-> h.cost + rec.cost,
           ring    |-> Push(h.ring, rec)]
  <2>1. h \in Stores
    BY DEF GoodStore
  <2>2. DOMAIN h = {"since", "bytes", "crossAZ", "cost", "ring"}
    BY <2>1 DEF Stores
  <2>3. DOMAIN k = DOMAIN h
    BY DEF Absorb
  <2>4. /\ k.since = h.since
        /\ k.bytes = h.bytes + rec.bytes
        /\ k.crossAZ = h.crossAZ + rec.crossAZ
        /\ k.cost = h.cost + rec.cost
        /\ k.ring = Push(h.ring, rec)
    BY <2>2 DEF Absorb
  <2>5. k = [f \in DOMAIN k |-> k[f]]
    BY DEF Absorb
  <2> HIDE DEF k
  <2> QED
    BY <2>2, <2>3, <2>4, <2>5
<1>4. /\ h.since \in Nat
      /\ h.bytes + rec.bytes \in Nat
      /\ h.crossAZ + rec.crossAZ \in Nat
      /\ h.cost + rec.cost \in Nat
  BY <1>1 DEF GoodStore, Stores
<1> HIDE DEF k
<1>5. k \in Stores /\ k.ring = Push(h.ring, rec)
  BY <1>2, <1>3, <1>4 DEF Stores
<1> QED
  BY <1>2, <1>5 DEF k, GoodStore

LEMMA ReplayType ==
    ASSUME NEW ls \in Seq(Lines)
    PROVE  GoodStore(Replay(ls))
<1> DEFINE T == {s \in Seq(Lines) : GoodStore(Replay(s))}
<1>1. <<>> \in T
  <2>1. GoodStore(EmptyStore)
    BY EmptySeq, RingCapAssumption DEF GoodStore, EmptyStore, Stores, NoTime
  <2> QED
    BY <2>1, ReplayEmpty, EmptySeq
<1>2. ASSUME NEW s \in T, NEW e \in Lines
      PROVE  Append(s, e) \in T
  <2> DEFINE h == Replay(s)
  <2>1. GoodStore(h) /\ Append(s, e) \in Seq(Lines)
    BY AppendProperties
  <2>2. Replay(Append(s, e)) = ReplayLine(h, e)
    BY ReplayAppend
  <2> HIDE DEF h
  <2>3. CASE e = Malformed
    BY <2>1, <2>2, <2>3 DEF ReplayLine
  <2>4. CASE e \in Records /\ e # Malformed
    <3> DEFINE k == [h EXCEPT !.since = IF @ = NoTime THEN e.timestamp ELSE @]
    <3>1. e.timestamp \in Nat
      BY <2>4, RecordsAssumption, TimesAssumption
    <3>2. GoodStore(k)
      BY <2>1, <3>1 DEF GoodStore, Stores
    <3>3. ReplayLine(h, e) = Absorb(k, e)
      BY <2>4 DEF ReplayLine
    <3> HIDE DEF k
    <3> QED
      BY <2>1, <2>2, <2>4, <3>2, <3>3, AbsorbType
  <2> QED
    BY <2>3, <2>4 DEF Lines
<1> HIDE DEF T
<1>3. T \in SUBSET Seq(Lines)
  BY DEF T
<1>4. T = Seq(Lines)
  BY <1>1, <1>2, <1>3, SeqSetInduction
<1> QED
  BY <1>4 DEF T
-----------------------------------------------------------------------------
(* The records among the lines. *)

KeepLine(rs, line) == IF line = Malformed THEN rs ELSE Append(rs, line)

\* g tabulates the records among the first lines of ls.
Keeps(g, ls) ==
    g = [i \in 0..Len(ls) |-> IF i = 0 THEN <<>> ELSE KeepLine(g[i - 1], ls[i])]

LEMMA SoundDef ==
    ASSUME NEW ls
    PROVE  Sound(ls) = (CHOOSE g : Keeps(g, ls))[Len(ls)]
BY DEF Sound, Keeps, KeepLine

\* Leaving out the malformed lines, one line at a time.
LEMMA KeepExists ==
    ASSUME NEW ls \in Seq(Lines)
    PROVE  \E g : Keeps(g, ls)
<1> DEFINE T == {s \in Seq(Lines) : \E g : Keeps(g, s)}
<1>1. <<>> \in T
  <2>1. Keeps([i \in 0..0 |-> <<>>], <<>>)
    BY EmptySeq DEF Keeps
  <2> QED
    BY <2>1, EmptySeq
<1>2. ASSUME NEW s \in T, NEW e \in Lines
      PROVE  Append(s, e) \in T
  <2>1. PICK g : Keeps(g, s)
    OBVIOUS
  <2> DEFINE n == Len(s)
             t == Append(s, e)
             h == [i \in 0..n + 1 |->
                     IF i = n + 1 THEN KeepLine(g[n], e) ELSE g[i]]
  <2>2. /\ t \in Seq(Lines)
        /\ Len(t) = n + 1
        /\ n \in Nat
        /\ \A i \in 1..n : t[i] = s[i]
        /\ t[n + 1] = e
    BY AppendProperties, LenProperties
  <2> HIDE DEF t
  <2>3. \A i \in 0..n + 1 :
           h[i] = IF i = 0 THEN <<>> ELSE KeepLine(h[i - 1], t[i])
    <3> SUFFICES ASSUME NEW i \in 0..n + 1
                 PROVE  h[i] = IF i = 0 THEN <<>>
                               ELSE KeepLine(h[i - 1], t[i])
      OBVIOUS
    <3> HIDE DEF n
    <3>1. \A j \in 0..n : g[j] = IF j = 0 THEN <<>>
                                ELSE KeepLine(g[j - 1], s[j])
      BY <2>1 DEF Keeps, n
    <3>2. CASE i = 0
      BY <3>1, <3>2, <2>2
    <3>3. CASE i \in 1..n
      <4>1. h[i] = g[i] /\ h[i - 1] = g[i - 1] /\ t[i] = s[i] /\ i # 0
        BY <3>3, <2>2
      <4>2. g[i] = KeepLine(g[i - 1], s[i])
        BY <3>1, <3>3, <2>2
      <4> HIDE DEF h
      <4> QED
        BY <4>1, <4>2
    <3>4. CASE i = n + 1
      <4>1. h[i] = KeepLine(g[n], e) /\ h[i - 1] = g[n] /\ t[i] = e /\ i # 0
        BY <3>4, <2>2
      <4> HIDE DEF h
      <4> QED
        BY <4>1
    <3> QED
      BY <3>2, <3>3, <3>4, <2>2
  <2>4. Keeps(h, t)
    <3>1. DOMAIN h = 0..Len(t) /\ h = [i \in 0..Len(t) |-> h[i]]
      BY <2>2
    <3> HIDE DEF h
    <3> QED
      BY <3>1, <2>2, <2>3 DEF Keeps
  <2> QED
    BY <2>2, <2>4 DEF t
<1> HIDE DEF T
<1>3. T \in SUBSET Seq(Lines)
  BY DEF T
<1>4. T = Seq(Lines)
  BY <1>1, <1>2, <1>3, SeqSetInduction
<1> QED
  BY <1>4 DEF T
LEMMA SoundEmpty == Sound(<<>>) = <<>>
<1>1. \E g : Keeps(g, <<>>)
  BY KeepExists, EmptySeq
<1> DEFINE c == CHOOSE g : Keeps(g, <<>>)
<1>2. Keeps(c, <<>>)
  BY <1>1
<1> HIDE DEF c
<1>3. c[0] = <<>>
  BY <1>2, EmptySeq DEF Keeps
<1> QED
  BY <1>3, SoundDef, EmptySeq DEF c

\* One more line is kept behind the others unless it is malformed.
LEMMA SoundAppend ==
    ASSUME NEW ls \in Seq(Lines), NEW e \in Lines
    PROVE  Sound(Append(ls, e)) = KeepLine(Sound(ls), e)
<1> DEFINE n  == Len(ls)
           t  == Append(ls, e)
           c  == CHOOSE g : Keeps(g, ls)
           ct == CHOOSE g : Keeps(g, t)
<1>1. /\ t \in Seq(Lines)
      /\ Len(t) = n + 1
      /\ n \in Nat
      /\ \A i \in 1..n : t[i] = ls[i]
      /\ t[n + 1] = e
  BY AppendProperties, LenProperties
<1> HIDE DEF t
<1>2. Keeps(c, ls) /\ Keeps(ct, t)
  BY KeepExists, <1>1
<1>3. Sound(ls) = c[n] /\ Sound(t) = ct[n + 1]
  BY SoundDef, <1>1
<1> HIDE DEF c, ct, n
<1>4. \A i \in 0..n : c[i] = IF i = 0 THEN <<>>
                              ELSE KeepLine(c[i - 1], ls[i])
  BY <1>2 DEF Keeps, n
<1>5. \A i \in 0..n + 1 : ct[i] = IF i = 0 THEN <<>>
                                   ELSE KeepLine(ct[i - 1], t[i])
  BY <1>2, <1>1 DEF Keeps
<1> DEFINE Differ == {i \in 0..n : c[i] # ct[i]}
<1>6. Differ = {}
  <2> SUFFICES ASSUME Differ # {} PROVE FALSE
    OBVIOUS
  <2>1. Differ \in SUBSET Nat
    BY <1>1
  <2>2. PICK m \in Differ : \A i \in Differ : m <= i
    BY <2>1, LeastNat
  <2>3. m # 0 /\ m \in 1..n /\ m - 1 \in 0..n
    BY <2>2, <1>4, <1>5, <1>1
  <2>4. m - 1 \notin Differ
    BY <2>2, <2>1, <2>3
  <2>5. c[m - 1] = ct[m - 1] /\ ls[m] = t[m]
    BY <2>3, <2>4, <1>1
  <2> HIDE DEF Differ
  <2>6. m \in 0..n /\ m \in 0..n + 1
    BY <2>3, <1>1
  <2>7. c[m] = KeepLine(c[m - 1], ls[m])
    BY <2>3, <2>6, <1>4
  <2>8. ct[m] = KeepLine(ct[m - 1], t[m])
    BY <2>3, <2>6, <1>5
  <2> QED
    BY <2>2, <2>5, <2>7, <2>8 DEF Differ
<1>7. ct[n] = c[n]
  BY <1>6, <1>1
<1>8. ct[n + 1] = KeepLine(ct[n], e)
  BY <1>5, <1>1
<1> QED
  BY <1>3, <1>7, <1>8 DEF t

LEMMA SoundType ==
    ASSUME NEW ls \in Seq(Lines)
    PROVE  Sound(ls) \in Seq(Records)
<1> DEFINE T == {s \in Seq(Lines) : Sound(s) \in Seq(Records)}
<1>1. <<>> \in T
  BY SoundEmpty, EmptySeq
<1>2. ASSUME NEW s \in T, NEW e \in Lines
      PROVE  Append(s, e) \in T
  <2>1. Append(s, e) \in Seq(Lines) /\ Sound(s) \in Seq(Records)
    BY AppendProperties
  <2>2. Sound(Append(s, e)) = KeepLine(Sound(s), e)
    BY SoundAppend
  <2>3. KeepLine(Sound(s), e) \in Seq(Records)
    <3>1. CASE e = Malformed
      BY <2>1, <3>1 DEF KeepLine
    <3>2. CASE e # Malformed
      BY <2>1, <3>2, AppendProperties DEF KeepLine, Lines
    <3> QED
      BY <3>1, <3>2
  <2> QED
    BY <2>1, <2>2, <2>3
<1> HIDE DEF T
<1>3. T \in SUBSET Seq(Lines)
  BY DEF T
<1>4. T = Seq(Lines)
  BY <1>1, <1>2, <1>3, SeqSetInduction
<1> QED
  BY <1>4 DEF T

-----------------------------------------------------------------------------
(* Type correctness. *)

LEMMA ScannedLinesType == HistoryTypeOK => ScannedLines \in Seq(Lines)
<1> SUFFICES ASSUME HistoryTypeOK PROVE ScannedLines \in Seq(Lines)
  OBVIOUS
<1>1. lines \in Seq(Lines) /\ (tail # NoTail => tail \in Lines)
  BY DEF HistoryTypeOK, Lines
<1>2. CASE tail = NoTail
  BY <1>1, <1>2 DEF ScannedLines
<1>3. CASE tail # NoTail
  <2>1. Append(lines, tail) \in Seq(Lines)
    BY <1>1, <1>3, AppendProperties
  <2> QED
    BY <2>1, <1>3 DEF ScannedLines
<1> QED
  BY <1>2, <1>3

LEMMA LaterType == Later \subseteq Records
BY DEF Later

\* What the three appends do to the file keeps it a file.
LEMMA AppendLineType ==
    ASSUME HistoryTypeOK, NEW rec \in Records, AppendLine(rec)
    PROVE  /\ lines' \in Seq(Records \cup {Malformed})
           /\ tail' \in Records \cup {Malformed, NoTail}
<1>1. (IF tail = NoTail THEN rec ELSE Malformed) \in Records \cup {Malformed}
  OBVIOUS
<1>2. lines \in Seq(Records \cup {Malformed})
  BY DEF HistoryTypeOK
<1> DEFINE e == IF tail = NoTail THEN rec ELSE Malformed
<1>3. lines' = Append(lines, e) /\ e \in Records \cup {Malformed}
  BY <1>1 DEF AppendLine
<1> HIDE DEF e
<1>4. lines' \in Seq(Records \cup {Malformed})
  BY <1>2, <1>3, AppendProperties
<1> QED
  BY <1>4 DEF AppendLine

LEMMA AppendFragmentType ==
    ASSUME HistoryTypeOK, NEW rec \in Records, AppendFragment(rec)
    PROVE  /\ lines' \in Seq(Records \cup {Malformed})
           /\ tail' \in Records \cup {Malformed, NoTail}
BY DEF HistoryTypeOK, AppendFragment

\* A first part of the file.
LEMMA PrefixProperties ==
    ASSUME NEW S, NEW ls \in Seq(S), NEW n \in 0..Len(ls)
    PROVE  /\ SubSeq(ls, 1, n) \in Seq(S)
           /\ Len(SubSeq(ls, 1, n)) = n
           /\ \A i \in 1..n : SubSeq(ls, 1, n)[i] = ls[i]
<1>1. Len(ls) \in Nat /\ \A i \in 1..Len(ls) : ls[i] \in S
  BY LenProperties, ElementOfSeq
<1>2. \A i \in 1..n : ls[i] \in S
  BY <1>1
<1> DEFINE p == SubSeq(ls, 1, n)
<1>3. /\ p \in Seq(S) /\ Len(p) = IF 1 <= n THEN n - 1 + 1 ELSE 0
      /\ \A i \in 1..n - 1 + 1 : p[i] = ls[1 + i - 1]
  BY <1>1, <1>2, SubSeqProperties
<1> HIDE DEF p
<1>4. n \in Nat /\ n - 1 + 1 = n /\ \A i \in 1..n : 1 + i - 1 = i
  BY <1>1
<1> QED
  BY <1>3, <1>4 DEF p

\* What a crash of the host leaves of the file: a shorter tail, or all lines but
\* the last and perhaps a part of that one.
LEMMA HostCrashKeeps ==
    ASSUME HistoryTypeOK, HostCrash
    PROVE  \/ /\ tail # NoTail /\ tail' \in {NoTail, Malformed} /\ tail' # tail
              /\ UNCHANGED <<lines, issued, written, faults, cuts>>
           \/ \E front \in Seq(Lines), last \in Lines :
                /\ lines = Append(front, last) /\ lines' = front
                /\ tail' \in {NoTail, Malformed, last}
                /\ written' \subseteq written /\ issued' = issued /\ Fault
<1> DEFINE n == Len(lines)
<1>1. lines \in Seq(Lines) /\ n \in Nat
  BY LenProperties DEF HistoryTypeOK, Lines
<1>2. CASE tail # NoTail /\ tail' \in {NoTail, Malformed} \ {tail}
           /\ UNCHANGED <<lines, written, faults, cuts>>
  BY <1>2 DEF HostCrash
<1>3. CASE n > 0 /\ Fault /\ lines' = SubSeq(lines, 1, n - 1)
           /\ tail' \in {NoTail, Malformed, lines[n]}
           /\ written' = written \ {lines[n]}
  <2> DEFINE front == SubSeq(lines, 1, n - 1)
             last  == lines[n]
             t     == Append(front, last)
  <2>1. n - 1 \in 0..n /\ n \in 1..n /\ last \in Lines
    BY <1>1, <1>3, ElementOfSeq
  <2>2. /\ front \in Seq(Lines) /\ Len(front) = n - 1
        /\ \A i \in 1..n - 1 : front[i] = lines[i]
    BY <1>1, <2>1, PrefixProperties
  <2> HIDE DEF front, last
  <2>3. /\ t \in Seq(Lines) /\ Len(t) = n
        /\ \A i \in 1..n - 1 : t[i] = front[i]
        /\ t[n] = last
    BY <1>1, <2>1, <2>2, AppendProperties
  <2> HIDE DEF t, n
  <2>4. \A i \in 1..n : i \in 1..n - 1 \/ i = n
    BY <1>1
  <2>5. \A i \in 1..n : t[i] = lines[i]
    BY <2>2, <2>3, <2>4 DEF last
  <2>6. t = lines
    BY <1>1, <2>3, <2>5, SeqEqual DEF n
  <2>7. lines' = front /\ tail' \in {NoTail, Malformed, last}
        /\ written' \subseteq written /\ issued' = issued /\ Fault
    BY <1>3 DEF HostCrash, front, last
  <2> QED
    BY <2>1, <2>2, <2>6, <2>7 DEF t
<1> QED
  BY <1>2, <1>3 DEF HostCrash

\* The parts of the type invariant that the store, the file, and the ghosts are.
StoreOK ==
    /\ \/ store = NoStore
       \/ /\ store \in [since : Nat, bytes : Nat, crossAZ : Nat, cost : Nat,
                        ring : Seq(Records)]
          /\ Len(store.ring) <= RingCap
    /\ counted \in Seq(Records)

FileOK == lines \in Seq(Records \cup {Malformed}) /\ tail \in Records \cup {Malformed, NoTail}

GhostsOK ==
    /\ issued \in SUBSET Records
    /\ written \in SUBSET issued
    /\ faults \in Nat /\ cuts \in Nat /\ faults + cuts <= MaxFaults

LEMMA TypeParts == HistoryTypeOK <=> StoreOK /\ FileOK /\ GhostsOK
BY DEF HistoryTypeOK, StoreOK, FileOK, GhostsOK

LEMMA StoreOKNext ==
    ASSUME NEW h, GoodStore(h), store' = h, counted' \in Seq(Records)
    PROVE  StoreOK'
BY DEF GoodStore, Stores, StoreOK

\* Whatever lines are read, the store made of them is well formed.
LEMMA RestoreType ==
    ASSUME NEW ls \in Seq(Lines), NEW now \in Now, Restore(ls, now)
    PROVE  StoreOK'
<1> DEFINE h == Replay(ls)
           k == [h EXCEPT !.since = IF @ = NoTime THEN now ELSE @]
<1>1. GoodStore(h)
  BY ReplayType
<1>2. now \in Nat
  BY TimesAssumption DEF Now
<1>3. store' = k /\ counted' = Sound(ls)
  BY DEF Restore
<1> HIDE DEF h
<1>4. GoodStore(k)
  BY <1>1, <1>2 DEF GoodStore, Stores
<1> HIDE DEF k
<1> QED
  BY <1>3, <1>4, SoundType, StoreOKNext

LEMMA CountType ==
    ASSUME StoreOK, store # NoStore, NEW rec \in Records, Count(rec)
    PROVE  StoreOK'
<1>1. GoodStore(store) /\ counted \in Seq(Records)
  BY DEF StoreOK, GoodStore, Stores
<1>2. GoodStore(Absorb(store, rec)) /\ Append(counted, rec) \in Seq(Records)
  BY <1>1, AbsorbType, AppendProperties
<1> QED
  BY <1>2, StoreOKNext DEF Count

LEMMA ForgetType == Forget => StoreOK'
BY EmptySeq DEF Forget, StoreOK

LEMMA HistoryTypeStep ==
    ASSUME HistoryTypeOK, [HistoryNext]_historyVars
    PROVE  HistoryTypeOK'
<1>0. StoreOK /\ FileOK /\ GhostsOK
  BY TypeParts
<1>00. ASSUME StoreOK', FileOK', GhostsOK' PROVE HistoryTypeOK'
  BY <1>00 DEF HistoryTypeOK, StoreOK, FileOK, GhostsOK
<1>1. ASSUME NEW now \in Now, NewHistoryStore(now) PROVE HistoryTypeOK'
  <2>1. StoreOK'
    BY <1>1, ScannedLinesType, RestoreType DEF NewHistoryStore
  <2>2. FileOK' /\ GhostsOK'
    BY <1>0, <1>1 DEF NewHistoryStore, fileVars, FileOK, GhostsOK
  <2> QED
    BY <1>00, <2>1, <2>2
<1>2. ASSUME NEW now \in Now, NewHistoryStoreCut(now) PROVE HistoryTypeOK'
  <2>1. PICK n \in 0..Len(ScannedLines) - 1 :
          Restore(SubSeq(ScannedLines, 1, n), now)
    BY <1>2 DEF NewHistoryStoreCut
  <2>2. ScannedLines \in Seq(Lines) /\ n \in 0..Len(ScannedLines)
    BY ScannedLinesType, LenProperties
  <2>3. SubSeq(ScannedLines, 1, n) \in Seq(Lines)
    BY <2>2, PrefixProperties
  <2>4. StoreOK'
    BY <2>1, <2>3, RestoreType
  <2>5. FileOK' /\ GhostsOK'
    BY <1>0, <1>2, MaxFaultsAssumption
    DEF NewHistoryStoreCut, MoreFaults, fileVars, FileOK, GhostsOK
  <2> QED
    BY <1>00, <2>4, <2>5
<1>3. ASSUME NEW rec \in Later, Record(rec) PROVE HistoryTypeOK'
  <2>1. rec \in Records /\ StoreOK'
    BY <1>0, <1>3, LaterType, CountType DEF Record
  <2>2. FileOK'
    BY <1>3, <2>1, AppendLineType DEF Record, FileOK
  <2>3. GhostsOK'
    BY <1>0, <1>3, <2>1 DEF Record, GhostsOK
  <2> QED
    BY <1>00, <2>1, <2>2, <2>3
<1>4. ASSUME NEW rec \in Later, RecordUnwritten(rec) PROVE HistoryTypeOK'
  <2>1. rec \in Records /\ StoreOK'
    BY <1>0, <1>4, LaterType, CountType DEF RecordUnwritten
  <2>2. FileOK'
    BY <1>0, <1>4 DEF RecordUnwritten, fileVars, FileOK
  <2>3. GhostsOK'
    BY <1>0, <1>4, <2>1, MaxFaultsAssumption
    DEF RecordUnwritten, Fault, MoreFaults, GhostsOK
  <2> QED
    BY <1>00, <2>1, <2>2, <2>3
<1>5. ASSUME NEW rec \in Later, RecordShort(rec) PROVE HistoryTypeOK'
  <2>1. rec \in Records /\ StoreOK'
    BY <1>0, <1>5, LaterType, CountType DEF RecordShort
  <2>2. FileOK'
    BY <1>5, <2>1, AppendFragmentType DEF RecordShort, FileOK
  <2>3. GhostsOK'
    BY <1>0, <1>5, <2>1, MaxFaultsAssumption
    DEF RecordShort, Fault, MoreFaults, GhostsOK
  <2> QED
    BY <1>00, <2>1, <2>2, <2>3
<1>6. ASSUME NEW rec \in Later, CrashInRecord(rec) PROVE HistoryTypeOK'
  <2>1. rec \in Records /\ StoreOK'
    BY <1>6, LaterType, ForgetType DEF CrashInRecord
  <2>2. FileOK'
    BY <1>6, <2>1, AppendFragmentType DEF CrashInRecord, FileOK
  <2>3. GhostsOK'
    BY <1>0, <1>6, <2>1, MaxFaultsAssumption
    DEF CrashInRecord, Fault, MoreFaults, GhostsOK
  <2> QED
    BY <1>00, <2>1, <2>2, <2>3
<1>7. CASE Crash
  <2>1. StoreOK'
    BY <1>7, ForgetType DEF Crash
  <2>2. FileOK' /\ GhostsOK'
    BY <1>0, <1>7 DEF Crash, fileVars, FileOK, GhostsOK
  <2> QED
    BY <1>00, <2>1, <2>2
<1>8. CASE HostCrash
  <2>1. StoreOK'
    BY <1>8, ForgetType DEF HostCrash
  <2>2. CASE /\ tail' \in {NoTail, Malformed}
             /\ UNCHANGED <<lines, issued, written, faults, cuts>>
    <3>1. FileOK' /\ GhostsOK'
      BY <1>0, <2>2 DEF GhostsOK, FileOK
    <3> QED
      BY <1>00, <2>1, <3>1
  <2>3. ASSUME NEW front \in Seq(Lines), NEW last \in Lines, lines' = front,
               tail' \in {NoTail, Malformed, last},
               written' \subseteq written, issued' = issued, Fault
        PROVE  HistoryTypeOK'
    <3>1. FileOK'
      BY <2>3 DEF FileOK, Lines
    <3>2. GhostsOK'
      BY <1>0, <2>3, MaxFaultsAssumption DEF Fault, MoreFaults, GhostsOK
    <3> QED
      BY <1>00, <2>1, <3>1, <3>2
  <2> QED
    BY <1>8, <2>2, <2>3, HostCrashKeeps
<1>9. CASE UNCHANGED historyVars
  BY <1>9 DEF historyVars, fileVars, storeVars, HistoryTypeOK
<1> QED
  BY <1>1, <1>2, <1>3, <1>4, <1>5, <1>6, <1>7, <1>8, <1>9 DEF HistoryNext

LEMMA HistoryTypeInit == HistoryInit => HistoryTypeOK
BY EmptySeq, MaxFaultsAssumption DEF HistoryInit, HistoryTypeOK

\* The type invariant holds in every reachable state: in particular the ring
\* never outgrows historyRingCap, in Record and in the replay alike.
THEOREM HistoryTypeCorrect == HistorySpec => []HistoryTypeOK
BY HistoryTypeInit, HistoryTypeStep, PTL DEF HistorySpec
-----------------------------------------------------------------------------
(* The bound on what faults cost. *)

\* The records on complete lines, and the one on an incomplete line, if any.
Kept   == {lines[i] : i \in DOMAIN lines} \ {Malformed}
InTail == {tail} \ {Malformed, NoTail}

LEMMA ReadableParts == HistoryTypeOK => Readable = Kept \cup InTail
<1> SUFFICES ASSUME HistoryTypeOK PROVE Readable = Kept \cup InTail
  OBVIOUS
<1>1. CASE tail = NoTail
  BY <1>1, RecordsAssumption DEF Readable, ScannedLines, Kept, InTail
<1>2. CASE tail # NoTail
  <2>1. lines \in Seq(Lines) /\ tail \in Lines
    BY <1>2 DEF HistoryTypeOK, Lines
  <2> DEFINE t == Append(lines, tail)
             n == Len(lines)
  <2>2. /\ n \in Nat
        /\ DOMAIN lines = 1..n
        /\ DOMAIN t = 1..n + 1
        /\ \A i \in 1..n : t[i] = lines[i]
        /\ t[n + 1] = tail
    BY <2>1, AppendProperties, LenProperties
  <2>3. ScannedLines = t
    BY <1>2 DEF ScannedLines
  <2> HIDE DEF t, n
  <2>4. {t[i] : i \in 1..n + 1} = {lines[i] : i \in 1..n} \cup {tail}
    <3>1. \A i \in 1..n + 1 : i = n + 1 \/ i \in 1..n
      BY <2>2
    <3>2. \A i \in 1..n : i \in 1..n + 1
      BY <2>2
    <3>3. n + 1 \in 1..n + 1
      BY <2>2
    <3> QED
      BY <3>1, <3>2, <3>3, <2>2
  <2>5. Readable = ({lines[i] : i \in 1..n} \cup {tail}) \ {Malformed}
    BY <2>2, <2>3, <2>4 DEF Readable
  <2> QED
    BY <2>5, <2>2, <1>2 DEF Kept, InTail
<1> QED
  BY <1>1, <1>2

\* What a complete append adds to the records on complete lines.
LEMMA KeptAfterAppend ==
    ASSUME HistoryTypeOK, NEW rec \in Records, AppendLine(rec)
    PROVE  /\ Kept' = Kept \cup (IF tail = NoTail THEN {rec} ELSE {})
           /\ InTail' = {}
<1> DEFINE e == IF tail = NoTail THEN rec ELSE Malformed
           n == Len(lines)
<1>1. lines \in Seq(Lines) /\ e \in Lines
  BY DEF HistoryTypeOK, Lines
<1>2. lines' = Append(lines, e) /\ tail' = NoTail
  BY DEF AppendLine
<1> HIDE DEF e
<1>3. /\ n \in Nat
      /\ DOMAIN lines = 1..n
      /\ DOMAIN lines' = 1..n + 1
      /\ \A i \in 1..n : lines'[i] = lines[i]
      /\ lines'[n + 1] = e
  BY <1>1, <1>2, AppendProperties, LenProperties
<1> HIDE DEF n
<1>4. {lines'[i] : i \in 1..n + 1} = {lines[i] : i \in 1..n} \cup {e}
  <2>1. \A i \in 1..n + 1 : i = n + 1 \/ i \in 1..n
    BY <1>3
  <2>2. \A i \in 1..n : i \in 1..n + 1
    BY <1>3
  <2>3. n + 1 \in 1..n + 1
    BY <1>3
  <2> QED
    BY <2>1, <2>2, <2>3, <1>3
<1>5. Kept' = ({lines[i] : i \in 1..n} \cup {e}) \ {Malformed}
  BY <1>3, <1>4 DEF Kept
<1>6. rec # Malformed
  BY RecordsAssumption
<1>7. Kept' = Kept \cup ({e} \ {Malformed})
  BY <1>3, <1>5 DEF Kept
<1>8. {e} \ {Malformed} = IF tail = NoTail THEN {rec} ELSE {}
  BY <1>6 DEF e
<1> QED
  BY <1>2, <1>7, <1>8 DEF InTail

LEMMA OneMore ==
    ASSUME NEW L, IsFiniteSet(L), NEW a, NEW M, M \subseteq L \cup {a}
    PROVE  /\ IsFiniteSet(M) /\ Cardinality(M) <= Cardinality(L) + 1
           /\ Cardinality(M) \in Nat /\ Cardinality(L) \in Nat
<1>1. IsFiniteSet(L \cup {a}) /\ Cardinality(L) \in Nat
      /\ Cardinality(L \cup {a}) =
           IF a \in L THEN Cardinality(L) ELSE Cardinality(L) + 1
  BY FS_AddElement, FS_CardinalityType
<1> DEFINE U == L \cup {a}
<1>2. IsFiniteSet(M) /\ Cardinality(M) <= Cardinality(U)
  BY <1>1, FS_Subset
<1>3. Cardinality(U) <= Cardinality(L) + 1 /\ Cardinality(U) \in Nat
  BY <1>1, FS_CardinalityType
<1>4. Cardinality(M) \in Nat
  BY <1>2, FS_CardinalityType
<1> HIDE DEF U
<1> QED
  BY <1>1, <1>2, <1>3, <1>4

LEMMA TwoMore ==
    ASSUME NEW L, IsFiniteSet(L), NEW a, NEW b, NEW M, M \subseteq L \cup {a, b}
    PROVE  /\ IsFiniteSet(M) /\ Cardinality(M) <= Cardinality(L) + 2
           /\ Cardinality(M) \in Nat /\ Cardinality(L) \in Nat
<1> DEFINE U == L \cup {a}
<1>1. /\ IsFiniteSet(U) /\ Cardinality(U) <= Cardinality(L) + 1
      /\ Cardinality(U) \in Nat /\ Cardinality(L) \in Nat
  BY OneMore
<1>2. M \subseteq U \cup {b}
  OBVIOUS
<1> HIDE DEF U
<1>3. /\ IsFiniteSet(M) /\ Cardinality(M) <= Cardinality(U) + 1
      /\ Cardinality(M) \in Nat
  BY <1>1, <1>2, OneMore
<1> QED
  BY <1>1, <1>3
LEMMA ReadablePartsNext == HistoryTypeOK' => Readable' = Kept' \cup InTail'
<1>1. (HistoryTypeOK => Readable = Kept \cup InTail)'
  BY ReadableParts, PTL
<1> QED
  BY <1>1

LEMMA PendingLossIs ==
    /\ tail = NoTail => PendingLoss = 0
    /\ tail = Malformed => PendingLoss = 1
    /\ (tail # NoTail /\ tail # Malformed) => PendingLoss = 2
BY RecordsAssumption DEF PendingLoss

LEMMA PendingLossIsNext ==
    /\ tail' = NoTail => PendingLoss' = 0
    /\ tail' = Malformed => PendingLoss' = 1
    /\ (tail' # NoTail /\ tail' # Malformed) => PendingLoss' = 2
BY RecordsAssumption DEF PendingLoss

Lost == issued \ Readable

\* A short append costs its record and a whole record that it is glued to.
LEMMA LostByFragment ==
    ASSUME HistoryTypeOK, HistoryTypeOK', IsFiniteSet(issued), LossPotential,
           NEW rec \in Records, AppendFragment(rec), Fault,
           issued' = issued \cup {rec}
    PROVE  LossPotential'
<1>1. IsFiniteSet(Lost) /\ Cardinality(Lost) \in Nat
  BY FS_Subset, FS_CardinalityType DEF Lost
<1>2. Lost = issued \ (Kept \cup InTail)
  BY ReadableParts DEF Lost
<1>3. Lost' = (issued \cup {rec}) \ (Kept \cup InTail')
  <2>1. Kept' = Kept
    BY DEF AppendFragment, Kept
  <2> QED
    BY <2>1, ReadablePartsNext DEF Lost
<1>4. /\ Cardinality(Lost) + PendingLoss <= 2 * faults
      /\ faults \in Nat /\ faults' = faults + 1
  BY DEF LossPotential, Lost, Fault, HistoryTypeOK
<1>5. rec \notin {Malformed, NoTail} /\ Malformed # NoTail
  BY RecordsAssumption
<1>6. SUFFICES /\ Cardinality(Lost') \in Nat
               /\ Cardinality(Lost') + PendingLoss' <= Cardinality(Lost) + PendingLoss + 2
  BY <1>1, <1>4, PendingLossIs, PendingLossIsNext DEF LossPotential, Lost
<1>7. CASE tail = NoTail /\ tail' = Malformed
  <2>1. Lost' \subseteq Lost \cup {rec}
    BY <1>2, <1>3, <1>7 DEF InTail
  <2>2. Cardinality(Lost') \in Nat /\ Cardinality(Lost') <= Cardinality(Lost) + 1
    BY <1>1, <2>1, OneMore
  <2> QED
    BY <1>1, <2>2, <1>7, PendingLossIs, PendingLossIsNext
<1>8. CASE tail = NoTail /\ tail' = rec
  <2>1. Lost' \subseteq Lost
    BY <1>2, <1>3, <1>5, <1>8 DEF InTail
  <2>2. Cardinality(Lost') \in Nat /\ Cardinality(Lost') <= Cardinality(Lost)
    BY <1>1, <2>1, FS_Subset, FS_CardinalityType
  <2> QED
    BY <1>1, <2>2, <1>5, <1>8, PendingLossIs, PendingLossIsNext
<1>9. CASE tail = Malformed
  <2>1. tail' = Malformed
    BY <1>5, <1>9 DEF AppendFragment
  <2>2. Lost' \subseteq Lost \cup {rec}
    BY <1>2, <1>3, <1>9 DEF InTail
  <2>3. Cardinality(Lost') \in Nat /\ Cardinality(Lost') <= Cardinality(Lost) + 1
    BY <1>1, <2>2, OneMore
  <2> QED
    BY <1>1, <2>1, <2>3, <1>9, PendingLossIs, PendingLossIsNext
<1>10. CASE tail # NoTail /\ tail # Malformed
  <2>1. tail' = Malformed
    BY <1>10 DEF AppendFragment
  <2>2. Lost' \subseteq Lost \cup {rec, tail}
    BY <1>2, <1>3, <1>10 DEF InTail
  <2>3. Cardinality(Lost') \in Nat /\ Cardinality(Lost') <= Cardinality(Lost) + 2
    BY <1>1, <2>2, TwoMore
  <2> QED
    BY <1>1, <2>1, <2>3, <1>10, PendingLossIs, PendingLossIsNext
<1> QED
  BY <1>7, <1>8, <1>9, <1>10 DEF AppendFragment

\* A complete append pays for the torn tail it ends.
LEMMA LostByAppend ==
    ASSUME HistoryTypeOK, HistoryTypeOK', IsFiniteSet(issued), LossPotential,
           NEW rec \in Records, AppendLine(rec), UNCHANGED faults,
           issued' = issued \cup {rec}
    PROVE  LossPotential'
<1>1. IsFiniteSet(Lost) /\ Cardinality(Lost) \in Nat
  BY FS_Subset, FS_CardinalityType DEF Lost
<1>2. Lost = issued \ (Kept \cup InTail)
  BY ReadableParts DEF Lost
<1>3. Lost' = (issued \cup {rec}) \
               (Kept \cup (IF tail = NoTail THEN {rec} ELSE {}))
  BY KeptAfterAppend, ReadablePartsNext DEF Lost
<1>4. /\ Cardinality(Lost) + PendingLoss <= 2 * faults
      /\ faults \in Nat /\ faults' = faults
  BY DEF LossPotential, Lost, HistoryTypeOK
<1>5. PendingLoss' = 0
  BY PendingLossIsNext DEF AppendLine
<1>6. SUFFICES /\ Cardinality(Lost') \in Nat
               /\ Cardinality(Lost') <= Cardinality(Lost) + PendingLoss
  BY <1>1, <1>4, <1>5, PendingLossIs DEF LossPotential, Lost
<1>7. CASE tail = NoTail
  <2>1. Lost' \subseteq Lost
    BY <1>2, <1>3, <1>7 DEF InTail
  <2>2. Cardinality(Lost') \in Nat /\ Cardinality(Lost') <= Cardinality(Lost)
    BY <1>1, <2>1, FS_Subset, FS_CardinalityType
  <2> QED
    BY <1>1, <2>2, <1>7, PendingLossIs
<1>8. CASE tail = Malformed
  <2>1. Lost' \subseteq Lost \cup {rec}
    BY <1>2, <1>3, <1>8 DEF InTail
  <2>2. Cardinality(Lost') \in Nat /\ Cardinality(Lost') <= Cardinality(Lost) + 1
    BY <1>1, <2>1, OneMore
  <2> QED
    BY <1>1, <2>2, <1>8, PendingLossIs
<1>9. CASE tail # NoTail /\ tail # Malformed
  <2>1. Lost' \subseteq Lost \cup {rec, tail}
    BY <1>2, <1>3, <1>9 DEF InTail
  <2>2. Cardinality(Lost') \in Nat /\ Cardinality(Lost') <= Cardinality(Lost) + 2
    BY <1>1, <2>1, TwoMore
  <2> QED
    BY <1>1, <2>2, <1>9, PendingLossIs
<1> QED
  BY <1>7, <1>8, <1>9

\* A write that leaves the file untouched costs its own record.
LEMMA LostByFailure ==
    ASSUME HistoryTypeOK, HistoryTypeOK', IsFiniteSet(issued), LossPotential,
           NEW rec \in Records, UNCHANGED fileVars, Fault,
           issued' = issued \cup {rec}
    PROVE  LossPotential'
<1>1. IsFiniteSet(Lost) /\ Cardinality(Lost) \in Nat
  BY FS_Subset, FS_CardinalityType DEF Lost
<1>2. Readable' = Readable /\ PendingLoss' = PendingLoss
  BY DEF fileVars, Readable, ScannedLines, PendingLoss
<1>3. Lost' \subseteq Lost \cup {rec}
  BY <1>2 DEF Lost
<1>4. Cardinality(Lost') \in Nat /\ Cardinality(Lost') <= Cardinality(Lost) + 1
  BY <1>1, <1>3, OneMore
<1>5. /\ Cardinality(Lost) + PendingLoss <= 2 * faults
      /\ faults \in Nat /\ faults' = faults + 1
  BY DEF LossPotential, Lost, Fault, HistoryTypeOK
<1> QED
  BY <1>1, <1>2, <1>4, <1>5, PendingLossIs DEF LossPotential, Lost

\* The records on complete lines, one line more or less.
LEMMA KeptIs ==
    ASSUME NEW front \in Seq(Lines), NEW last \in Lines,
           lines = Append(front, last)
    PROVE  Kept = ({front[i] : i \in DOMAIN front} \cup {last}) \ {Malformed}
<1> DEFINE n == Len(front)
<1>1. /\ n \in Nat /\ DOMAIN front = 1..n /\ DOMAIN lines = 1..n + 1
      /\ \A i \in 1..n : lines[i] = front[i]
      /\ lines[n + 1] = last
  BY AppendProperties, LenProperties
<1> HIDE DEF n
<1>2. /\ \A i \in 1..n + 1 : i = n + 1 \/ i \in 1..n
      /\ \A i \in 1..n : i \in 1..n + 1
      /\ n + 1 \in 1..n + 1
  BY <1>1
<1>3. {lines[i] : i \in 1..n + 1} = {front[i] : i \in 1..n} \cup {last}
  BY <1>1, <1>2
<1> QED
  BY <1>1, <1>3 DEF Kept

\* A line that the host loses costs its record, the one of a tail behind it,
\* and what the tail that is left of it will be glued to.
LEMMA LostByHost ==
    ASSUME HistoryTypeOK, HistoryTypeOK', IsFiniteSet(issued), LossPotential,
           HostCrash
    PROVE  LossPotential'
<1>1. IsFiniteSet(Lost) /\ Cardinality(Lost) \in Nat
  BY FS_Subset, FS_CardinalityType DEF Lost
<1>2. Lost = issued \ (Kept \cup InTail)
  BY ReadableParts DEF Lost
<1>3. Lost' = issued \ (Kept' \cup InTail')
  BY ReadablePartsNext DEF Lost, HostCrash
<1>4. Cardinality(Lost) + PendingLoss <= 2 * faults /\ faults \in Nat
  BY DEF LossPotential, Lost, HistoryTypeOK
<1>5. Malformed # NoTail
  BY RecordsAssumption
<1>6. CASE /\ tail # NoTail /\ tail' \in {NoTail, Malformed} /\ tail' # tail
           /\ UNCHANGED <<lines, issued, written, faults, cuts>>
  <2>1. Kept' = Kept /\ InTail' = {} /\ faults' = faults
    BY <1>6 DEF Kept, InTail
  <2>2. CASE tail = Malformed
    <3>1. Lost' = Lost /\ tail' = NoTail
      BY <1>2, <1>3, <1>6, <2>1, <2>2 DEF InTail
    <3>2. PendingLoss = 1 /\ PendingLoss' = 0 /\ Cardinality(Lost') = Cardinality(Lost)
      BY <2>2, <3>1, PendingLossIs, PendingLossIsNext
    <3>3. Cardinality(Lost') + PendingLoss' <= 2 * faults'
      BY <1>1, <1>4, <2>1, <3>2
    <3> QED
      BY <3>3 DEF LossPotential, Lost
  <2>3. CASE tail # Malformed
    <3>1. Lost' \subseteq Lost \cup {tail}
      BY <1>2, <1>3, <2>1 DEF InTail
    <3>2. Cardinality(Lost') \in Nat /\ Cardinality(Lost') <= Cardinality(Lost) + 1
      BY <1>1, <3>1, OneMore
    <3> QED
      BY <1>1, <1>4, <1>6, <2>1, <2>3, <3>2, PendingLossIs, PendingLossIsNext
      DEF LossPotential, Lost
  <2> QED
    BY <2>2, <2>3
<1>7. ASSUME NEW front \in Seq(Lines), NEW last \in Lines,
             lines = Append(front, last), lines' = front,
             tail' \in {NoTail, Malformed, last}, Fault
      PROVE  LossPotential'
  <2> DEFINE K == {front[i] : i \in DOMAIN front} \ {Malformed}
  <2>1. Kept = K \cup ({last} \ {Malformed}) /\ Kept' = K
    BY <1>7, KeptIs DEF Kept
  <2> HIDE DEF K
  <2>2. faults' = faults + 1
    BY <1>7 DEF Fault
  <2>3. SUFFICES /\ Cardinality(Lost') \in Nat
                 /\ Cardinality(Lost') + PendingLoss'
                      <= Cardinality(Lost) + PendingLoss + 2
    BY <1>1, <1>4, <2>2, PendingLossIs, PendingLossIsNext DEF LossPotential, Lost
  <2>4. CASE tail' = NoTail \/ tail' = Malformed
    <3>1. CASE tail = NoTail \/ tail = Malformed
      <4>1. Lost' \subseteq Lost \cup {last}
        BY <1>2, <1>3, <2>1, <3>1 DEF InTail
      <4>2. Cardinality(Lost') \in Nat
            /\ Cardinality(Lost') <= Cardinality(Lost) + 1
        BY <1>1, <4>1, OneMore
      <4> QED
        BY <1>1, <2>4, <3>1, <4>2, PendingLossIs, PendingLossIsNext
    <3>2. CASE tail # NoTail /\ tail # Malformed
      <4>1. Lost' \subseteq Lost \cup {last, tail}
        BY <1>2, <1>3, <2>1 DEF InTail
      <4>2. Cardinality(Lost') \in Nat
            /\ Cardinality(Lost') <= Cardinality(Lost) + 2
        BY <1>1, <4>1, TwoMore
      <4> QED
        BY <1>1, <2>4, <3>2, <4>2, PendingLossIs, PendingLossIsNext
    <3> QED
      BY <3>1, <3>2
  <2>5. CASE tail' # NoTail /\ tail' # Malformed
    <3>1. tail' = last /\ InTail' = {last}
      BY <1>7, <2>5 DEF InTail
    <3>2. Lost' \subseteq Lost \cup {tail}
      BY <1>2, <1>3, <2>1, <3>1 DEF InTail
    <3>3. (tail = NoTail \/ tail = Malformed) => Lost' \subseteq Lost
      BY <1>2, <1>3, <2>1, <3>1 DEF InTail
    <3>4. Cardinality(Lost') \in Nat
          /\ Cardinality(Lost') <= Cardinality(Lost) + 1
      BY <1>1, <3>2, OneMore
    <3>5. (tail = NoTail \/ tail = Malformed)
             => Cardinality(Lost') <= Cardinality(Lost)
      BY <1>1, <3>3, FS_Subset
    <3> QED
      BY <1>1, <2>5, <3>4, <3>5, PendingLossIs, PendingLossIsNext
  <2> QED
    BY <2>4, <2>5
<1> QED
  BY <1>6, <1>7, HostCrashKeeps

\* Losses are counted with Cardinality, so the set they are taken from is finite.
LossInv == IsFiniteSet(issued) /\ LossPotential

\* The strengthened bound is inductive.
THEOREM LossInvCorrect == HistorySpec => []LossInv
<1> USE DEF LossInv
<1>1. HistoryInit => LossInv
  <2>1. HistoryInit => (issued \ Readable = {} /\ PendingLoss = 0 /\ faults = 0
                          /\ issued = {})
    BY PendingLossIs DEF HistoryInit
  <2> QED
    BY <2>1, FS_EmptySet DEF LossPotential
<1>2. ASSUME HistoryTypeOK, HistoryTypeOK', LossInv, [HistoryNext]_historyVars
      PROVE  LossInv'
  <2>1. \A rec : issued' = issued \cup {rec} => IsFiniteSet(issued')
    BY <1>2, FS_AddElement
  <2>2. ASSUME UNCHANGED <<lines, tail, issued, faults>> PROVE LossInv'
    <3>1. Readable' = Readable /\ PendingLoss' = PendingLoss
      BY <2>2 DEF Readable, ScannedLines, PendingLoss
    <3> QED
      BY <1>2, <2>2, <3>1 DEF LossPotential
  <2>3. ASSUME NEW now \in Now, NewHistoryStore(now) PROVE LossInv'
    BY <2>2, <2>3 DEF NewHistoryStore, fileVars
  <2>4. ASSUME NEW now \in Now, NewHistoryStoreCut(now) PROVE LossInv'
    BY <2>2, <2>4 DEF NewHistoryStoreCut, fileVars
  <2>5. ASSUME NEW rec \in Later, Record(rec) PROVE LossInv'
    BY <1>2, <2>1, <2>5, LaterType, LostByAppend DEF Record
  <2>6. ASSUME NEW rec \in Later, RecordUnwritten(rec) PROVE LossInv'
    BY <1>2, <2>1, <2>6, LaterType, LostByFailure DEF RecordUnwritten, fileVars
  <2>7. ASSUME NEW rec \in Later, RecordShort(rec) PROVE LossInv'
    BY <1>2, <2>1, <2>7, LaterType, LostByFragment DEF RecordShort
  <2>8. ASSUME NEW rec \in Later, CrashInRecord(rec) PROVE LossInv'
    BY <1>2, <2>1, <2>8, LaterType, LostByFragment DEF CrashInRecord
  <2>9. CASE Crash
    BY <2>2, <2>9 DEF Crash, fileVars
  <2>10. CASE HostCrash
    BY <1>2, <2>10, LostByHost DEF HostCrash
  <2>11. CASE UNCHANGED historyVars
    BY <2>2, <2>11 DEF historyVars, fileVars
  <2> QED
    BY <1>2, <2>3, <2>4, <2>5, <2>6, <2>7, <2>8, <2>9, <2>10, <2>11
    DEF HistoryNext
<1> QED
  BY <1>1, <1>2, HistoryTypeCorrect, PTL DEF HistorySpec

\* The potential bound that the runs check: what is lost, with what a torn tail
\* may still cost, is at most two intervals per fault.
THEOREM LossPotentialCorrect == HistorySpec => []LossPotential
<1>1. LossInv => LossPotential
  BY DEF LossInv
<1> QED
  BY <1>1, LossInvCorrect, PTL

\* However often the daemon or its host crashes, restarts, and fails to write or
\* to read, a failed write or a lost line costs the history at most two
\* intervals: a torn tail spoils the record it belongs to and the next one, and
\* never more.
THEOREM LossBoundedCorrect == HistorySpec => []LossBounded
<1>1. HistoryTypeOK /\ LossInv => LossBounded
  <2> SUFFICES ASSUME HistoryTypeOK, LossInv PROVE LossBounded
    OBVIOUS
  <2>1. Cardinality(issued \ Readable) \in Nat
    BY FS_Subset, FS_CardinalityType DEF LossInv
  <2> QED
    BY <2>1, PendingLossIs DEF LossInv, LossPotential, LossBounded, HistoryTypeOK
<1> QED
  BY <1>1, HistoryTypeCorrect, LossInvCorrect, PTL

-----------------------------------------------------------------------------
(* What a restart finds: the order of the records in the file, and the date *)
(* of the totals read from them.                                            *)

\* The records among the lines ls, and that they are in the order of time.
RecordsOf(ls) == {ls[i] : i \in DOMAIN ls} \ {Malformed}
InOrder(ls) ==
    \A i, j \in DOMAIN ls :
      (i < j /\ Malformed \notin {ls[i], ls[j]}) => ls[i].timestamp < ls[j].timestamp

LEMMA HonestIs ==
    ReplayIsHonest <=> RecordsOf(ScannedLines) \subseteq issued /\ InOrder(ScannedLines)
BY DEF ReplayIsHonest, Readable, RecordsOf, InOrder

\* One more line at the end of the file.
LEMMA AppendParts ==
    ASSUME NEW ls \in Seq(Lines), NEW e \in Lines
    PROVE  /\ Len(ls) \in Nat
           /\ DOMAIN ls = 1..Len(ls)
           /\ DOMAIN Append(ls, e) = 1..Len(ls) + 1
           /\ \A i \in 1..Len(ls) : Append(ls, e)[i] = ls[i]
           /\ Append(ls, e)[Len(ls) + 1] = e
           /\ Append(ls, e) \in Seq(Lines)
BY AppendProperties, LenProperties

LEMMA RecordsOfAppend ==
    ASSUME NEW ls \in Seq(Lines), NEW e \in Lines
    PROVE  RecordsOf(Append(ls, e)) = RecordsOf(ls) \cup ({e} \ {Malformed})
<1> DEFINE n == Len(ls)
           t == Append(ls, e)
<1>1. /\ n \in Nat /\ DOMAIN ls = 1..n /\ DOMAIN t = 1..n + 1
      /\ \A i \in 1..n : t[i] = ls[i]
      /\ t[n + 1] = e
  BY AppendParts
<1> HIDE DEF n, t
<1>2. {t[i] : i \in 1..n + 1} = {ls[i] : i \in 1..n} \cup {e}
  <2>1. /\ \A i \in 1..n + 1 : i = n + 1 \/ i \in 1..n
        /\ \A i \in 1..n : i \in 1..n + 1
        /\ n + 1 \in 1..n + 1
    BY <1>1
  <2> QED
    BY <2>1, <1>1
<1>3. RecordsOf(t) = ({ls[i] : i \in 1..n} \cup {e}) \ {Malformed}
  BY <1>1, <1>2 DEF RecordsOf
<1>4. RecordsOf(ls) = {ls[i] : i \in 1..n} \ {Malformed}
  BY <1>1 DEF RecordsOf
<1> QED
  BY <1>3, <1>4 DEF t

\* The lines before the last one are in order; and a record later than all of
\* them may follow.
LEMMA InOrderAppend ==
    ASSUME NEW ls \in Seq(Lines), NEW e \in Lines
    PROVE  InOrder(Append(ls, e)) <=>
             /\ InOrder(ls)
             /\ e # Malformed => \A r \in RecordsOf(ls) : r.timestamp < e.timestamp
<1> DEFINE n == Len(ls)
           t == Append(ls, e)
<1>1. /\ n \in Nat /\ DOMAIN ls = 1..n /\ DOMAIN t = 1..n + 1
      /\ \A i \in 1..n : t[i] = ls[i]
      /\ t[n + 1] = e
  BY AppendParts
<1> HIDE DEF n, t
<1>2. /\ \A i \in 1..n + 1 : i = n + 1 \/ i \in 1..n
      /\ \A i \in 1..n : i \in 1..n + 1 /\ i < n + 1 /\ ~(n + 1 < i)
      /\ n + 1 \in 1..n + 1 /\ ~(n + 1 < n + 1)
  BY <1>1
<1>3. ASSUME InOrder(t) PROVE InOrder(ls)
  BY <1>1, <1>2, <1>3 DEF InOrder
<1>4. ASSUME InOrder(t), e # Malformed, NEW r \in RecordsOf(ls)
      PROVE  r.timestamp < e.timestamp
  <2>1. PICK i \in 1..n : r = ls[i] /\ r # Malformed
    BY <1>1 DEF RecordsOf
  <2> QED
    BY <1>1, <1>2, <1>4, <2>1 DEF InOrder
<1>5. ASSUME InOrder(ls),
             e # Malformed => \A r \in RecordsOf(ls) : r.timestamp < e.timestamp
      PROVE  InOrder(t)
  <2> SUFFICES ASSUME NEW i \in 1..n + 1, NEW j \in 1..n + 1, i < j,
                      t[i] # Malformed, t[j] # Malformed
               PROVE  t[i].timestamp < t[j].timestamp
    BY <1>1 DEF InOrder
  <2>1. i \in 1..n
    BY <1>1
  <2>2. CASE j \in 1..n
    BY <1>1, <1>5, <2>1, <2>2 DEF InOrder
  <2>3. CASE j = n + 1
    <3>1. ls[i] \in RecordsOf(ls)
      BY <1>1, <2>1 DEF RecordsOf
    <3> QED
      BY <1>1, <1>5, <2>1, <2>3, <3>1
  <2> QED
    BY <1>2, <2>2, <2>3
<1> QED
  BY <1>3, <1>4, <1>5 DEF t

-----------------------------------------------------------------------------
(* The file after one more record, however its append ended. *)

\* What the file holds is the complete lines and, for a torn tail, its bytes;
\* every append puts one more line, whole or torn, after the complete ones.
LEMMA ScannedIs ==
    ASSUME HistoryTypeOK
    PROVE  /\ lines \in Seq(Lines)
           /\ tail = NoTail => ScannedLines = lines
           /\ tail # NoTail => tail \in Lines /\ ScannedLines = Append(lines, tail)
BY DEF HistoryTypeOK, Lines, ScannedLines

\* The complete lines of an honest file are an honest file.
LEMMA HonestLines ==
    ASSUME HistoryTypeOK, ReplayIsHonest
    PROVE  RecordsOf(lines) \subseteq issued /\ InOrder(lines)
<1>1. RecordsOf(ScannedLines) \subseteq issued /\ InOrder(ScannedLines)
  BY HonestIs
<1>2. CASE tail = NoTail
  BY <1>1, <1>2, ScannedIs
<1>3. CASE tail # NoTail
  <2>1. lines \in Seq(Lines) /\ tail \in Lines /\ ScannedLines = Append(lines, tail)
    BY <1>3, ScannedIs
  <2> QED
    BY <1>1, <2>1, RecordsOfAppend, InOrderAppend
<1> QED
  BY <1>2, <1>3

LEMMA AppendedLine ==
    ASSUME HistoryTypeOK, NEW rec \in Records, AppendLine(rec) \/ AppendFragment(rec)
    PROVE  \E e \in {rec, Malformed} : ScannedLines' = Append(lines, e)
<1>1. rec # NoTail /\ Malformed # NoTail
  BY RecordsAssumption
<1>2. CASE AppendLine(rec)
  BY <1>2 DEF AppendLine, ScannedLines
<1>3. CASE AppendFragment(rec)
  <2>1. tail' \in {rec, Malformed} /\ lines' = lines
    BY <1>3 DEF AppendFragment
  <2>2. ScannedLines' = Append(lines, tail')
    BY <1>1, <2>1 DEF ScannedLines
  <2> QED
    BY <2>1, <2>2
<1> QED
  BY <1>2, <1>3

LEMMA HonestAppend ==
    ASSUME HistoryTypeOK, ReplayIsHonest, NEW rec \in Later,
           AppendLine(rec) \/ AppendFragment(rec),
           issued' = issued \cup {rec}
    PROVE  ReplayIsHonest'
<1>1. rec \in Records /\ \A q \in issued : q.timestamp < rec.timestamp
  BY DEF Later
<1>2. PICK e \in {rec, Malformed} : ScannedLines' = Append(lines, e)
  BY <1>1, AppendedLine
<1>3. lines \in Seq(Lines) /\ e \in Lines
  BY <1>1, ScannedIs DEF Lines
<1>4. RecordsOf(lines) \subseteq issued /\ InOrder(lines)
  BY HonestLines
<1>5. RecordsOf(Append(lines, e)) = RecordsOf(lines) \cup ({e} \ {Malformed})
  BY <1>3, RecordsOfAppend
<1>6. e # Malformed => \A r \in RecordsOf(lines) : r.timestamp < e.timestamp
  BY <1>1, <1>4
<1>7. InOrder(Append(lines, e))
  BY <1>3, <1>4, <1>6, InOrderAppend
<1>8. RecordsOf(ScannedLines') \subseteq issued' /\ InOrder(ScannedLines')
  BY <1>2, <1>4, <1>5, <1>7
<1> QED
  BY <1>8 DEF ReplayIsHonest, Readable, RecordsOf, InOrder

\* A step that leaves the file alone.
LEMMA HonestKept ==
    ASSUME ReplayIsHonest, UNCHANGED fileVars, issued \subseteq issued'
    PROVE  ReplayIsHonest'
BY DEF fileVars, ReplayIsHonest, Readable, ScannedLines

\* Whatever a crash of the host leaves of an honest file is honest: its complete
\* lines, and perhaps one more that is malformed or was there already.
LEMMA HonestHost ==
    ASSUME HistoryTypeOK, ReplayIsHonest, HostCrash
    PROVE  ReplayIsHonest'
<1>1. lines \in Seq(Lines) /\ RecordsOf(lines) \subseteq issued /\ InOrder(lines)
  BY HonestLines, ScannedIs
<1>2. issued' = issued /\ Malformed \in Lines /\ Malformed # NoTail
  BY RecordsAssumption DEF HostCrash, Lines
<1>3. ASSUME NEW ls \in Seq(Lines), RecordsOf(ls) \subseteq issued, InOrder(ls),
             ScannedLines' \in {ls, Append(ls, Malformed)}
      PROVE  ReplayIsHonest'
  <2>1. RecordsOf(Append(ls, Malformed)) = RecordsOf(ls) /\ InOrder(Append(ls, Malformed))
    BY <1>2, <1>3, RecordsOfAppend, InOrderAppend
  <2>2. RecordsOf(ScannedLines') \subseteq issued' /\ InOrder(ScannedLines')
    BY <1>2, <1>3, <2>1
  <2> QED
    BY <2>2 DEF ReplayIsHonest, Readable, RecordsOf, InOrder
<1>4. CASE tail' \in {NoTail, Malformed} /\ lines' = lines
  <2>1. ScannedLines' \in {lines, Append(lines, Malformed)}
    BY <1>2, <1>4 DEF ScannedLines
  <2> QED
    BY <1>1, <1>3, <2>1
<1>5. ASSUME NEW front \in Seq(Lines), NEW last \in Lines,
             lines = Append(front, last), lines' = front,
             tail' \in {NoTail, Malformed, last}
      PROVE  ReplayIsHonest'
  <2>1. RecordsOf(front) \subseteq issued /\ InOrder(front)
    BY <1>1, <1>5, RecordsOfAppend, InOrderAppend
  <2>2. CASE tail' \in {NoTail, Malformed}
    <3>1. ScannedLines' \in {front, Append(front, Malformed)}
      BY <1>2, <1>5, <2>2 DEF ScannedLines
    <3> QED
      BY <1>3, <1>5, <2>1, <3>1
  <2>3. CASE tail' = last /\ tail' # NoTail
    <3>1. ScannedLines' = lines
      BY <1>5, <2>3 DEF ScannedLines
    <3>2. ScannedLines' \in {lines, Append(lines, Malformed)}
      BY <3>1
    <3> QED
      BY <1>1, <1>3, <3>2
  <2> QED
    BY <1>5, <2>2, <2>3
<1> QED
  BY <1>4, <1>5, HostCrashKeeps

\* One step keeps the file honest.
LEMMA HonestStep ==
    ASSUME HistoryTypeOK, ReplayIsHonest, [HistoryNext]_historyVars
    PROVE  ReplayIsHonest'
<1>0. ASSUME NEW now \in Now, NewHistoryStore(now) PROVE ReplayIsHonest'
  BY <1>0, HonestKept DEF NewHistoryStore
<1>1. ASSUME NEW now \in Now, NewHistoryStoreCut(now) PROVE ReplayIsHonest'
  BY <1>1, HonestKept DEF NewHistoryStoreCut
<1>2. ASSUME NEW rec \in Later, Record(rec) PROVE ReplayIsHonest'
  BY <1>2, HonestAppend DEF Record
<1>3. ASSUME NEW rec \in Later, RecordUnwritten(rec) PROVE ReplayIsHonest'
  BY <1>3, HonestKept DEF RecordUnwritten
<1>4. ASSUME NEW rec \in Later, RecordShort(rec) PROVE ReplayIsHonest'
  BY <1>4, HonestAppend DEF RecordShort
<1>5. ASSUME NEW rec \in Later, CrashInRecord(rec) PROVE ReplayIsHonest'
  BY <1>5, HonestAppend DEF CrashInRecord
<1>6. CASE Crash
  BY <1>6, HonestKept DEF Crash
<1>7. CASE HostCrash
  BY <1>7, HonestHost
<1>8. CASE UNCHANGED historyVars
  BY <1>8, HonestKept DEF historyVars, fileVars
<1> QED
  BY <1>0, <1>1, <1>2, <1>3, <1>4, <1>5, <1>6, <1>7, <1>8 DEF HistoryNext

LEMMA HonestInit == HistoryInit => ReplayIsHonest
<1> SUFFICES ASSUME HistoryInit PROVE ReplayIsHonest
  OBVIOUS
<1>1. ScannedLines = <<>> /\ DOMAIN ScannedLines = {}
  BY EmptySeq DEF HistoryInit, ScannedLines
<1> QED
  BY <1>1 DEF ReplayIsHonest, Readable

\* Whatever was torn, glued or skipped on the way, the file never makes replay
\* (history.go:66-81) count an interval twice, out of order, or one that was
\* never recorded.
THEOREM ReplayIsHonestCorrect == HistorySpec => []ReplayIsHonest
BY HonestInit, HistoryTypeCorrect, HonestStep, PTL DEF HistorySpec
-----------------------------------------------------------------------------
(* The date of the totals. *)

\* The date of a store read from the lines ls is that of their first record.
Dated(h, ls) ==
    /\ h.since = NoTime => RecordsOf(ls) = {}
    /\ \A r \in RecordsOf(ls) : h.since <= r.timestamp
    /\ h.since # NoTime => \E r \in RecordsOf(ls) : h.since = r.timestamp

LEMMA RecordTimes ==
    ASSUME NEW ls \in Seq(Lines), NEW r \in RecordsOf(ls)
    PROVE  r \in Records /\ r.timestamp \in Nat /\ r.timestamp # NoTime
<1>1. r \in Records
  <2>1. DOMAIN ls = 1..Len(ls) /\ \A i \in 1..Len(ls) : ls[i] \in Lines
    BY LenProperties, ElementOfSeq
  <2> QED
    BY <2>1 DEF RecordsOf, Lines
<1>2. r.timestamp \in Times
  BY <1>1, RecordsAssumption
<1> QED
  BY <1>1, <1>2, TimesAssumption DEF NoTime

LEMMA ReplayDates ==
    ASSUME NEW ls \in Seq(Lines), InOrder(ls)
    PROVE  Dated(Replay(ls), ls)
<1> DEFINE T == {s \in Seq(Lines) : InOrder(s) => Dated(Replay(s), s)}
<1>1. <<>> \in T
  <2>1. RecordsOf(<<>>) = {}
    BY EmptySeq DEF RecordsOf
  <2>2. EmptyStore.since = NoTime
    BY DEF EmptyStore
  <2>3. Dated(EmptyStore, <<>>)
    BY <2>1, <2>2 DEF Dated
  <2> QED
    BY <2>3, ReplayEmpty, EmptySeq
<1>2. ASSUME NEW s \in T, NEW e \in Lines
      PROVE  Append(s, e) \in T
  <2> DEFINE h == Replay(s)
             t == Append(s, e)
  <2>1. /\ t \in Seq(Lines) /\ s \in Seq(Lines)
        /\ RecordsOf(t) = RecordsOf(s) \cup ({e} \ {Malformed})
        /\ InOrder(t) => InOrder(s)
        /\ (InOrder(t) /\ e # Malformed) =>
              \A r \in RecordsOf(s) : r.timestamp < e.timestamp
    BY AppendProperties, RecordsOfAppend, InOrderAppend
  <2>2. Replay(t) = ReplayLine(h, e) /\ h \in Stores
    BY ReplayAppend, ReplayType, <2>1 DEF GoodStore
  <2>3. SUFFICES ASSUME InOrder(t) PROVE Dated(Replay(t), t)
    BY <2>1
  <2>4. Dated(h, s)
    BY <2>1, <2>3
  <2> HIDE DEF h, t
  <2>5. CASE e = Malformed
    <3>1. RecordsOf(t) = RecordsOf(s) /\ Replay(t) = h
      BY <2>1, <2>2, <2>5 DEF ReplayLine
    <3> QED
      BY <2>4, <3>1 DEF Dated
  <2>6. CASE e # Malformed
    <3> DEFINE k == [h EXCEPT !.since = IF @ = NoTime THEN e.timestamp ELSE @]
               a == Absorb(k, e)
    <3>1. e \in Records /\ e.timestamp \in Nat /\ e.timestamp # NoTime
      BY <2>6, RecordsAssumption, TimesAssumption DEF Lines, NoTime
    <3>2. /\ k \in Stores
          /\ k.since = IF h.since = NoTime THEN e.timestamp ELSE h.since
      BY <2>2, <3>1 DEF Stores
    <3> HIDE DEF k
    <3>3. a.since = k.since
      BY <3>2 DEF Absorb, Stores
    <3>4. Replay(t) = a
      BY <2>2, <2>6 DEF ReplayLine, k
    <3> HIDE DEF a
    <3>5. RecordsOf(t) = RecordsOf(s) \cup {e}
      BY <2>1, <2>6
    <3>6. CASE h.since = NoTime
      <4>1. RecordsOf(t) = {e} /\ a.since = e.timestamp
        BY <2>4, <3>2, <3>3, <3>5, <3>6 DEF Dated
      <4> QED
        BY <3>1, <3>4, <4>1 DEF Dated
    <3>7. CASE h.since # NoTime
      <4>1. a.since = h.since
        BY <3>2, <3>3, <3>7
      <4>2. PICK r \in RecordsOf(s) : h.since = r.timestamp
        BY <2>4, <3>7 DEF Dated
      <4>3. h.since \in Nat /\ h.since <= e.timestamp
        BY <2>1, <2>3, <2>6, <3>1, <4>2, RecordTimes
      <4>4. \A q \in RecordsOf(t) : a.since <= q.timestamp
        BY <2>4, <3>5, <4>1, <4>3 DEF Dated
      <4> QED
        BY <3>4, <3>5, <3>7, <4>1, <4>2, <4>4 DEF Dated
    <3> QED
      BY <3>6, <3>7
  <2> QED
    BY <2>5, <2>6
<1> HIDE DEF T
<1>3. T \in SUBSET Seq(Lines)
  BY DEF T
<1>4. T = Seq(Lines)
  BY <1>1, <1>2, <1>3, SeqSetInduction
<1> QED
  BY <1>4 DEF T

\* What is counted of the lines ls is the records among them.
InSeq(s) == {s[i] : i \in DOMAIN s}

LEMMA InSeqAppend ==
    ASSUME NEW s \in Seq(Records), NEW e \in Records
    PROVE  InSeq(Append(s, e)) \subseteq InSeq(s) \cup {e}
<1> DEFINE n == Len(s)
           t == Append(s, e)
<1>1. /\ n \in Nat /\ DOMAIN s = 1..n /\ DOMAIN t = 1..n + 1
      /\ \A i \in 1..n : t[i] = s[i]
      /\ t[n + 1] = e
  BY AppendProperties, LenProperties
<1> HIDE DEF n, t
<1>2. \A i \in 1..n + 1 : i = n + 1 \/ i \in 1..n
  BY <1>1
<1>3. InSeq(t) \subseteq InSeq(s) \cup {e}
  BY <1>1, <1>2 DEF InSeq
<1> QED
  BY <1>3 DEF t

LEMMA SoundRecords ==
    ASSUME NEW ls \in Seq(Lines)
    PROVE  InSeq(Sound(ls)) \subseteq RecordsOf(ls)
<1> DEFINE T == {s \in Seq(Lines) : InSeq(Sound(s)) \subseteq RecordsOf(s)}
<1>1. <<>> \in T
  BY SoundEmpty, EmptySeq DEF InSeq
<1>2. ASSUME NEW s \in T, NEW e \in Lines
      PROVE  Append(s, e) \in T
  <2>1. /\ Append(s, e) \in Seq(Lines) /\ s \in Seq(Lines)
        /\ Sound(s) \in Seq(Records)
        /\ InSeq(Sound(s)) \subseteq RecordsOf(s)
        /\ RecordsOf(Append(s, e)) = RecordsOf(s) \cup ({e} \ {Malformed})
        /\ Sound(Append(s, e)) = KeepLine(Sound(s), e)
    BY AppendProperties, SoundType, RecordsOfAppend, SoundAppend
  <2>2. InSeq(KeepLine(Sound(s), e)) \subseteq RecordsOf(s) \cup ({e} \ {Malformed})
    <3>1. CASE e = Malformed
      BY <2>1, <3>1 DEF KeepLine
    <3>2. CASE e # Malformed
      <4>1. e \in Records
        BY <3>2 DEF Lines
      <4>2. InSeq(Append(Sound(s), e)) \subseteq InSeq(Sound(s)) \cup {e}
        BY <2>1, <4>1, InSeqAppend
      <4> QED
        BY <2>1, <3>2, <4>2 DEF KeepLine
    <3> QED
      BY <3>1, <3>2
  <2> QED
    BY <2>1, <2>2
<1> HIDE DEF T
<1>3. T \in SUBSET Seq(Lines)
  BY DEF T
<1>4. T = Seq(Lines)
  BY <1>1, <1>2, <1>3, SeqSetInduction
<1> QED
  BY <1>4 DEF T

\* A first part of ordered lines is ordered.
LEMMA InOrderPrefix ==
    ASSUME NEW ls \in Seq(Lines), InOrder(ls), NEW n \in 0..Len(ls)
    PROVE  SubSeq(ls, 1, n) \in Seq(Lines) /\ InOrder(SubSeq(ls, 1, n))
<1> DEFINE p == SubSeq(ls, 1, n)
<1>1. /\ p \in Seq(Lines) /\ Len(p) = n /\ \A i \in 1..n : p[i] = ls[i]
  BY PrefixProperties
<1> HIDE DEF p
<1>2. /\ DOMAIN p = 1..n /\ DOMAIN ls = 1..Len(ls) /\ Len(ls) \in Nat
  BY <1>1, LenProperties
<1>3. \A i \in 1..n : i \in 1..Len(ls)
  BY <1>2
<1>4. InOrder(p)
  BY <1>1, <1>2, <1>3 DEF InOrder
<1> QED
  BY <1>1, <1>4 DEF p

\* The records of a first part are among those of the whole.
LEMMA RecordsOfPrefix ==
    ASSUME NEW ls \in Seq(Lines), NEW n \in 0..Len(ls)
    PROVE  /\ SubSeq(ls, 1, n) \in Seq(Lines)
           /\ RecordsOf(SubSeq(ls, 1, n)) \subseteq RecordsOf(ls)
<1> DEFINE p == SubSeq(ls, 1, n)
<1>1. p \in Seq(Lines) /\ Len(p) = n /\ \A i \in 1..n : p[i] = ls[i]
  BY PrefixProperties
<1>2. DOMAIN p = 1..n /\ DOMAIN ls = 1..Len(ls) /\ Len(ls) \in Nat
  BY <1>1, LenProperties
<1> HIDE DEF p
<1>3. \A i \in 1..n : i \in 1..Len(ls)
  BY <1>2
<1>4. RecordsOf(p) \subseteq RecordsOf(ls)
  BY <1>1, <1>2, <1>3 DEF RecordsOf
<1> QED
  BY <1>1, <1>4 DEF p

LEMMA SinceIs ==
    SinceDatesTheTotals <=>
      (store # NoStore => \A r \in InSeq(counted) : store.since <= r.timestamp)
BY DEF SinceDatesTheTotals, InSeq

\* Opening the store, on all of the file or a part: an empty history is dated
\* from now.
LEMMA OpenedDated ==
    ASSUME NEW ls \in Seq(Lines), InOrder(ls), NEW now \in Now, Restore(ls, now)
    PROVE  SinceDatesTheTotals'
<1> DEFINE h == Replay(ls)
<1>1. h \in Stores /\ Dated(h, ls)
  BY ReplayType, ReplayDates DEF GoodStore
<1>2. store' = [h EXCEPT !.since = IF @ = NoTime THEN now ELSE @]
      /\ counted' = Sound(ls)
  BY DEF Restore
<1> HIDE DEF h
<1>3. store'.since = IF h.since = NoTime THEN now ELSE h.since
  BY <1>1, <1>2 DEF Stores
<1>4. \A r \in RecordsOf(ls) : store'.since <= r.timestamp
  BY <1>1, <1>3 DEF Dated
<1>5. \A r \in InSeq(counted') : store'.since <= r.timestamp
  BY <1>2, <1>4, SoundRecords
<1> QED
  BY <1>5 DEF SinceDatesTheTotals, InSeq

\* Recording: whatever became of the append, the record is no older than the
\* store.
LEMMA RecordedDated ==
    ASSUME HistoryTypeOK, SinceDatesTheTotals, NEW rec \in Later,
           store # NoStore, Count(rec)
    PROVE  SinceDatesTheTotals'
<1>1. rec \in Records /\ store.since <= rec.timestamp
  BY DEF Later
<1>2. store \in Stores /\ counted \in Seq(Records)
  BY DEF HistoryTypeOK, Stores
<1>3. store'.since = store.since /\ counted' = Append(counted, rec)
  BY <1>2 DEF Count, Absorb, Stores
<1>4. InSeq(counted') \subseteq InSeq(counted) \cup {rec}
  BY <1>1, <1>2, <1>3, InSeqAppend
<1>5. \A r \in InSeq(counted') : store'.since <= r.timestamp
  BY <1>1, <1>3, <1>4, SinceIs
<1> QED
  BY <1>5 DEF SinceDatesTheTotals, InSeq

LEMMA SinceStep ==
    ASSUME HistoryTypeOK, ReplayIsHonest, SinceDatesTheTotals,
           [HistoryNext]_historyVars
    PROVE  SinceDatesTheTotals'
<1>1. ScannedLines \in Seq(Lines) /\ InOrder(ScannedLines)
  BY ScannedLinesType, HonestIs
<1>2. ASSUME NEW now \in Now, NewHistoryStore(now) PROVE SinceDatesTheTotals'
  BY <1>1, <1>2, OpenedDated DEF NewHistoryStore
<1>3. ASSUME NEW now \in Now, NewHistoryStoreCut(now) PROVE SinceDatesTheTotals'
  <2>1. PICK n \in 0..Len(ScannedLines) - 1 :
          Restore(SubSeq(ScannedLines, 1, n), now)
    BY <1>3 DEF NewHistoryStoreCut
  <2>2. n \in 0..Len(ScannedLines)
    BY <1>1, LenProperties
  <2>3. SubSeq(ScannedLines, 1, n) \in Seq(Lines)
        /\ InOrder(SubSeq(ScannedLines, 1, n))
    BY <1>1, <2>2, InOrderPrefix
  <2> QED
    BY <2>1, <2>3, OpenedDated
<1>4. ASSUME NEW rec \in Later, Record(rec) PROVE SinceDatesTheTotals'
  BY <1>4, RecordedDated DEF Record
<1>5. ASSUME NEW rec \in Later, RecordUnwritten(rec) PROVE SinceDatesTheTotals'
  BY <1>5, RecordedDated DEF RecordUnwritten
<1>6. ASSUME NEW rec \in Later, RecordShort(rec) PROVE SinceDatesTheTotals'
  BY <1>6, RecordedDated DEF RecordShort
<1>7. ASSUME Forget PROVE SinceDatesTheTotals'
  BY <1>7 DEF Forget, SinceDatesTheTotals
<1>8. CASE UNCHANGED historyVars
  BY <1>8 DEF historyVars, storeVars, SinceDatesTheTotals
<1> QED
  BY <1>2, <1>3, <1>4, <1>5, <1>6, <1>7, <1>8
  DEF HistoryNext, CrashInRecord, Crash, HostCrash

\* HistoryStore.since is never later than an interval that the totals beside it
\* include (history.go:71-72,91-92): it is the time of the first record read,
\* or that of the start if none was.  It says nothing of records that a replay
\* cut short has left unread.
THEOREM SinceDatesTheTotalsCorrect == HistorySpec => []SinceDatesTheTotals
<1>1. HistoryInit => SinceDatesTheTotals
  BY DEF HistoryInit, SinceDatesTheTotals
<1> QED
  BY <1>1, HistoryTypeCorrect, ReplayIsHonestCorrect, SinceStep, PTL DEF HistorySpec

-----------------------------------------------------------------------------
(* History implements DurableLog: the replay loop and Record maintain, one  *)
(* record at a time, the summary that DurableLog states at once, and the    *)
(* file loses nothing but its end to a fault.                               *)

(* Totals. *)

\* g tabulates the sum of a field over the log l.
Sums(g, l, field) ==
    g = [i \in 0..Len(l) |-> IF i = 0 THEN 0 ELSE g[i - 1] + l[i][field]]

LEMMA TotalDef ==
    ASSUME NEW l, NEW field
    PROVE  Durable!Total(l, field) = (CHOOSE g : Sums(g, l, field))[Len(l)]
BY DEF Durable!Total, Sums

LEMMA SumExists ==
    ASSUME NEW l \in Seq(Records), NEW field
    PROVE  \E g : Sums(g, l, field)
<1> DEFINE T == {s \in Seq(Records) : \E g : Sums(g, s, field)}
<1>1. <<>> \in T
  <2>1. Sums([i \in 0..0 |-> 0], <<>>, field)
    BY EmptySeq DEF Sums
  <2> QED
    BY <2>1, EmptySeq
<1>2. ASSUME NEW s \in T, NEW e \in Records
      PROVE  Append(s, e) \in T
  <2>1. PICK g : Sums(g, s, field)
    OBVIOUS
  <2> DEFINE n == Len(s)
             t == Append(s, e)
             h == [i \in 0..n + 1 |->
                     IF i = n + 1 THEN g[n] + e[field] ELSE g[i]]
  <2>2. /\ t \in Seq(Records)
        /\ Len(t) = n + 1
        /\ n \in Nat
        /\ \A i \in 1..n : t[i] = s[i]
        /\ t[n + 1] = e
    BY AppendProperties, LenProperties
  <2> HIDE DEF t
  <2>3. \A i \in 0..n + 1 :
           h[i] = IF i = 0 THEN 0 ELSE h[i - 1] + t[i][field]
    <3> SUFFICES ASSUME NEW i \in 0..n + 1
                 PROVE  h[i] = IF i = 0 THEN 0 ELSE h[i - 1] + t[i][field]
      OBVIOUS
    <3> HIDE DEF n
    <3>1. \A j \in 0..n : g[j] = IF j = 0 THEN 0 ELSE g[j - 1] + s[j][field]
      BY <2>1 DEF Sums, n
    <3>2. CASE i = 0
      BY <3>1, <3>2, <2>2
    <3>3. CASE i \in 1..n
      <4>1. h[i] = g[i] /\ h[i - 1] = g[i - 1] /\ t[i] = s[i] /\ i # 0
        BY <3>3, <2>2
      <4>2. g[i] = g[i - 1] + s[i][field]
        BY <3>1, <3>3, <2>2
      <4> HIDE DEF h
      <4> QED
        BY <4>1, <4>2
    <3>4. CASE i = n + 1
      <4>1. h[i] = g[n] + e[field] /\ h[i - 1] = g[n] /\ t[i] = e /\ i # 0
        BY <3>4, <2>2
      <4> HIDE DEF h
      <4> QED
        BY <4>1
    <3> QED
      BY <3>2, <3>3, <3>4, <2>2
  <2>4. Sums(h, t, field)
    <3>1. DOMAIN h = 0..Len(t) /\ h = [i \in 0..Len(t) |-> h[i]]
      BY <2>2
    <3> HIDE DEF h
    <3> QED
      BY <3>1, <2>2, <2>3 DEF Sums
  <2> QED
    BY <2>2, <2>4 DEF t
<1> HIDE DEF T
<1>3. T \in SUBSET Seq(Records)
  BY DEF T
<1>4. T = Seq(Records)
  BY <1>1, <1>2, <1>3, SeqSetInduction
<1> QED
  BY <1>4 DEF T

LEMMA TotalEmpty ==
    ASSUME NEW field PROVE Durable!Total(<<>>, field) = 0
<1> DEFINE c == CHOOSE g : Sums(g, <<>>, field)
<1>1. Sums(c, <<>>, field)
  BY SumExists, EmptySeq
<1> HIDE DEF c
<1>2. c[0] = 0
  BY <1>1, EmptySeq DEF Sums
<1> QED
  BY <1>2, TotalDef, EmptySeq DEF c

LEMMA TotalAppend ==
    ASSUME NEW l \in Seq(Records), NEW e \in Records, NEW field
    PROVE  Durable!Total(Append(l, e), field) = Durable!Total(l, field) + e[field]
<1> DEFINE n  == Len(l)
           t  == Append(l, e)
           c  == CHOOSE g : Sums(g, l, field)
           ct == CHOOSE g : Sums(g, t, field)
<1>1. /\ t \in Seq(Records)
      /\ Len(t) = n + 1
      /\ n \in Nat
      /\ \A i \in 1..n : t[i] = l[i]
      /\ t[n + 1] = e
  BY AppendProperties, LenProperties
<1> HIDE DEF t
<1>2. Sums(c, l, field) /\ Sums(ct, t, field)
  BY SumExists, <1>1
<1>3. Durable!Total(l, field) = c[n] /\ Durable!Total(t, field) = ct[n + 1]
  BY TotalDef, <1>1
<1> HIDE DEF c, ct, n
<1>4. \A i \in 0..n : c[i] = IF i = 0 THEN 0 ELSE c[i - 1] + l[i][field]
  BY <1>2 DEF Sums, n
<1>5. \A i \in 0..n + 1 : ct[i] = IF i = 0 THEN 0 ELSE ct[i - 1] + t[i][field]
  BY <1>2, <1>1 DEF Sums
<1> DEFINE Differ == {i \in 0..n : c[i] # ct[i]}
<1>6. Differ = {}
  <2> SUFFICES ASSUME Differ # {} PROVE FALSE
    OBVIOUS
  <2>1. Differ \in SUBSET Nat
    BY <1>1
  <2>2. PICK m \in Differ : \A i \in Differ : m <= i
    BY <2>1, LeastNat
  <2>3. m # 0 /\ m \in 1..n /\ m - 1 \in 0..n
    BY <2>2, <1>4, <1>5, <1>1
  <2>4. m - 1 \notin Differ
    BY <2>2, <2>1, <2>3
  <2>5. c[m - 1] = ct[m - 1] /\ l[m] = t[m]
    BY <2>3, <2>4, <1>1
  <2>6. c[m] = c[m - 1] + l[m][field] /\ ct[m] = ct[m - 1] + t[m][field]
    BY <2>3, <1>4, <1>5, <1>1
  <2> QED
    BY <2>2, <2>5, <2>6
<1>7. ct[n] = c[n]
  BY <1>6, <1>1
<1>8. ct[n + 1] = ct[n] + e[field]
  BY <1>5, <1>1
<1> QED
  BY <1>3, <1>7, <1>8 DEF t

-----------------------------------------------------------------------------
(* The ring. *)

\* Keeping the last entries while appending, one at a time, is the same as
\* taking the last entries at the end.
LEMMA PushNewest ==
    ASSUME NEW l \in Seq(Records), NEW e \in Records
    PROVE  Push(Durable!Newest(l), e) = Durable!Newest(Append(l, e))
<1> DEFINE a == Append(l, e)
           n == Len(l)
<1>1. /\ a \in Seq(Records) /\ a # <<>>
      /\ Len(a) = n + 1 /\ n \in Nat
      /\ \A i \in 1..n : a[i] = l[i]
      /\ a[n + 1] = e
      /\ RingCap \in Nat /\ RingCap > 0
  BY AppendProperties, LenProperties, RingCapAssumption
<1>2. CASE n < RingCap
  <2>1. Durable!Newest(l) = l
    BY <1>1, <1>2 DEF Durable!Newest
  <2>2. Durable!Newest(a) = a
    BY <1>1, <1>2 DEF Durable!Newest
  <2>3. Push(l, e) = a
    BY <1>1, <1>2 DEF Push
  <2> QED
    BY <2>1, <2>2, <2>3
<1>3. CASE n = RingCap
  <2>1. Durable!Newest(l) = l
    BY <1>1, <1>3 DEF Durable!Newest
  <2>2. Durable!Newest(a) = SubSeq(a, 2, Len(a))
    <3>1. ~(Len(a) <= RingCap) /\ Len(a) - RingCap + 1 = 2
      BY <1>1, <1>3
    <3> HIDE DEF a
    <3> QED
      BY <3>1 DEF Durable!Newest
  <2>3. Tail(a) = SubSeq(a, 2, Len(a))
    BY <1>1, TailIsSubSeq
  <2>4. Push(l, e) = Tail(a)
    BY <1>1, <1>3 DEF Push
  <2> QED
    BY <2>1, <2>2, <2>3, <2>4
<1>4. CASE n > RingCap
  <2> DEFINE t == SubSeq(l, n - RingCap + 1, n)
             u == SubSeq(a, n - RingCap + 2, n + 1)
             b == Append(t, e)
             v == Tail(b)
  <2>1. /\ t \in Seq(Records) /\ Len(t) = RingCap
        /\ \A i \in 1..RingCap : t[i] = l[n - RingCap + i]
    BY <1>1, <1>4, SubSeqProperties
  <2>2. /\ u \in Seq(Records) /\ Len(u) = RingCap
        /\ \A i \in 1..RingCap : u[i] = a[n - RingCap + 1 + i]
    <3> HIDE DEF a, n
    <3> QED
      BY <1>1, <1>4, SubSeqProperties
  <2>3. Durable!Newest(l) = t
    BY <1>1, <1>4 DEF Durable!Newest
  <2>4. Durable!Newest(a) = u
    <3>1. ~(Len(a) <= RingCap) /\ Len(a) - RingCap + 1 = n - RingCap + 2
          /\ Len(a) = n + 1
      BY <1>1, <1>4
    <3> HIDE DEF a
    <3> QED
      BY <3>1 DEF Durable!Newest
  <2> HIDE DEF t, u
  <2>5. /\ b \in Seq(Records) /\ b # <<>> /\ Len(b) = RingCap + 1
        /\ \A i \in 1..RingCap : b[i] = t[i]
        /\ b[RingCap + 1] = e
    BY <2>1, AppendProperties
  <2>6. Push(t, e) = v
    BY <2>5, <1>1 DEF Push
  <2> HIDE DEF b
  <2>7. /\ v \in Seq(Records) /\ Len(v) = RingCap
        /\ \A i \in 1..RingCap : v[i] = b[i + 1]
    BY <2>5, <1>1, HeadTailProperties
  <2> HIDE DEF v, a, n
  <2>8. \A i \in 1..RingCap : v[i] = u[i]
    <3> SUFFICES ASSUME NEW i \in 1..RingCap PROVE v[i] = u[i]
      OBVIOUS
    <3>1. CASE i = RingCap
      BY <3>1, <2>2, <2>5, <2>7, <1>1
    <3>2. CASE i < RingCap
      <4>1. v[i] = b[i + 1] /\ i + 1 \in 1..RingCap
        BY <3>2, <2>7, <1>1
      <4>2. b[i + 1] = l[n - RingCap + (i + 1)]
        BY <4>1, <2>1, <2>5
      <4>3. n - RingCap + 1 + i \in 1..n
        BY <3>2, <1>1, <1>4
      <4>4. u[i] = l[n - RingCap + 1 + i]
        BY <4>3, <2>2, <1>1
      <4>5. n - RingCap + (i + 1) = n - RingCap + 1 + i
        BY <1>1
      <4> QED
        BY <4>1, <4>2, <4>4, <4>5
    <3> QED
      BY <3>1, <3>2, <1>1
  <2>9. v = u
    BY <2>2, <2>7, <2>8, SeqEqual
  <2> QED
    BY <2>3, <2>4, <2>6, <2>9 DEF a
<1> QED
  BY <1>1, <1>2, <1>3, <1>4
-----------------------------------------------------------------------------
(* The summary. *)

\* The store h is the summary of the log ls.
Agrees(h, ls) ==
    /\ h \in Stores
    /\ h.bytes   = Durable!Total(ls, "bytes")
    /\ h.crossAZ = Durable!Total(ls, "crossAZ")
    /\ h.cost    = Durable!Total(ls, "cost")
    /\ h.ring    = Durable!Newest(ls)

LEMMA AbsorbAgrees ==
    ASSUME NEW h, NEW ls \in Seq(Records), NEW rec \in Records,
           Agrees(h, ls), GoodStore(h)
    PROVE  Agrees(Absorb(h, rec), Append(ls, rec))
<1> DEFINE k == Absorb(h, rec)
           a == Append(ls, rec)
<1>1. GoodStore(k)
  BY AbsorbType
<1>2. DOMAIN h = {"since", "bytes", "crossAZ", "cost", "ring"}
  BY DEF Agrees, Stores
<1>3. /\ k.bytes = h.bytes + rec.bytes
      /\ k.crossAZ = h.crossAZ + rec.crossAZ
      /\ k.cost = h.cost + rec.cost
      /\ k.ring = Push(h.ring, rec)
  BY <1>2 DEF Absorb
<1>4. /\ Durable!Total(a, "bytes") = Durable!Total(ls, "bytes") + rec.bytes
      /\ Durable!Total(a, "crossAZ") = Durable!Total(ls, "crossAZ") + rec.crossAZ
      /\ Durable!Total(a, "cost") = Durable!Total(ls, "cost") + rec.cost
  BY TotalAppend
<1>5. Push(Durable!Newest(ls), rec) = Durable!Newest(a)
  BY PushNewest
<1> HIDE DEF k, a
<1>6. Agrees(k, a)
  BY <1>1, <1>3, <1>4, <1>5 DEF Agrees, GoodStore
<1> QED
  BY <1>6 DEF k, a

\* Replaying any file yields the summary of the records among its lines.
LEMMA ReplayAgrees ==
    ASSUME NEW ls \in Seq(Lines)
    PROVE  Agrees(Replay(ls), Sound(ls))
<1> DEFINE T == {s \in Seq(Lines) : Agrees(Replay(s), Sound(s))}
<1>1. <<>> \in T
  <2>1. Durable!Newest(<<>>) = <<>>
    BY EmptySeq, RingCapAssumption DEF Durable!Newest
  <2>2. Agrees(EmptyStore, <<>>)
    BY <2>1, TotalEmpty, EmptySeq DEF Agrees, EmptyStore, Stores, NoTime
  <2> QED
    BY <2>2, ReplayEmpty, SoundEmpty, EmptySeq
<1>2. ASSUME NEW s \in T, NEW e \in Lines
      PROVE  Append(s, e) \in T
  <2> DEFINE h == Replay(s)
             l == Sound(s)
             k == [h EXCEPT !.since = IF @ = NoTime THEN e.timestamp ELSE @]
  <2>1. /\ s \in Seq(Lines) /\ Append(s, e) \in Seq(Lines)
        /\ Agrees(h, l) /\ GoodStore(h) /\ l \in Seq(Records)
    BY AppendProperties, ReplayType, SoundType
  <2>2. Replay(Append(s, e)) = ReplayLine(h, e) /\ Sound(Append(s, e)) = KeepLine(l, e)
    BY <2>1, ReplayAppend, SoundAppend
  <2> HIDE DEF h, l
  <2>3. CASE e = Malformed
    BY <2>1, <2>2, <2>3 DEF ReplayLine, KeepLine
  <2>4. CASE e # Malformed
    <3>1. e \in Records /\ e.timestamp \in Nat
      BY <2>4, RecordsAssumption, TimesAssumption DEF Lines
    <3>2. Agrees(k, l) /\ GoodStore(k)
      BY <2>1, <3>1 DEF Agrees, GoodStore, Stores
    <3>3. ReplayLine(h, e) = Absorb(k, e) /\ KeepLine(l, e) = Append(l, e)
      BY <2>4 DEF ReplayLine, KeepLine
    <3> HIDE DEF k, T
    <3>4. Agrees(Absorb(k, e), Append(l, e))
      BY <2>1, <3>1, <3>2, AbsorbAgrees
    <3> QED
      BY <2>1, <2>2, <3>3, <3>4 DEF T
  <2> QED
    BY <2>3, <2>4
<1> HIDE DEF T
<1>3. T \in SUBSET Seq(Lines)
  BY DEF T
<1>4. T = Seq(Lines)
  BY <1>1, <1>2, <1>3, SeqSetInduction
<1> QED
  BY <1>4 DEF T

-----------------------------------------------------------------------------
(* Ends of logs. *)

\* Taking away what was appended.
LEMMA PrefixOfAppend ==
    ASSUME NEW S, NEW s \in Seq(S), NEW e \in S, NEW n \in 0..Len(s)
    PROVE  SubSeq(Append(s, e), 1, n) = SubSeq(s, 1, n)
<1> DEFINE t == Append(s, e)
           p == SubSeq(s, 1, n)
           q == SubSeq(t, 1, n)
<1>1. /\ t \in Seq(S) /\ Len(t) = Len(s) + 1 /\ Len(s) \in Nat
      /\ \A i \in 1..Len(s) : t[i] = s[i]
  BY AppendProperties, LenProperties
<1> HIDE DEF t
<1>2. n \in 0..Len(t) /\ \A i \in 1..n : i \in 1..Len(s)
  BY <1>1
<1>3. p \in Seq(S) /\ Len(p) = n /\ \A i \in 1..n : p[i] = s[i]
  BY PrefixProperties
<1>4. q \in Seq(S) /\ Len(q) = n /\ \A i \in 1..n : q[i] = t[i]
  BY <1>1, <1>2, PrefixProperties
<1> HIDE DEF p, q
<1>5. p = q
  BY <1>1, <1>2, <1>3, <1>4, SeqEqual
<1> QED
  BY <1>5 DEF p, q, t

LEMMA WholePrefix ==
    ASSUME NEW S, NEW s \in Seq(S)
    PROVE  SubSeq(s, 1, Len(s)) = s
<1> DEFINE p == SubSeq(s, 1, Len(s))
<1>1. Len(s) \in Nat /\ Len(s) \in 0..Len(s)
  BY LenProperties
<1>2. p \in Seq(S) /\ Len(p) = Len(s) /\ \A i \in 1..Len(s) : p[i] = s[i]
  BY <1>1, PrefixProperties
<1> HIDE DEF p
<1>3. p = s
  BY <1>2, SeqEqual
<1> QED
  BY <1>3 DEF p

LEMMA Shorter ==
    ASSUME NEW s \in Seq(Records), NEW e \in Records
    PROVE  /\ SubSeq(Append(s, e), 1, Len(Append(s, e)) - 1) = s
           /\ s \in Durable!Prefixes(s)
           /\ s \in Durable!Prefixes(Append(s, e))
           /\ Durable!Prefixes(s) \subseteq Durable!Prefixes(Append(s, e))
<1>1. /\ Len(Append(s, e)) = Len(s) + 1 /\ Len(s) \in Nat
      /\ Len(Append(s, e)) - 1 = Len(s) /\ Len(s) \in 0..Len(s)
  BY AppendProperties, LenProperties
<1>2. SubSeq(Append(s, e), 1, Len(s)) = s
  BY <1>1, PrefixOfAppend, WholePrefix
<1>3. s \in Durable!Prefixes(s)
  BY <1>1, WholePrefix DEF Durable!Prefixes
<1>4. Durable!Prefixes(s) \subseteq Durable!Prefixes(Append(s, e))
  <2>1. \A n \in 0..Len(s) : /\ n \in 0..Len(Append(s, e))
                             /\ SubSeq(s, 1, n) = SubSeq(Append(s, e), 1, n)
    BY <1>1, PrefixOfAppend
  <2> QED
    BY <2>1 DEF Durable!Prefixes
<1> QED
  BY <1>1, <1>2, <1>3, <1>4

LEMMA PrefixOfSelf ==
    ASSUME NEW s \in Seq(Records)
    PROVE  s \in Durable!Prefixes(s)
<1>1. Len(s) \in 0..Len(s)
  BY LenProperties
<1> QED
  BY <1>1, WholePrefix DEF Durable!Prefixes

\* The records in a first part of the file are a first part of its records.
LEMMA SoundPrefix ==
    ASSUME NEW ls \in Seq(Lines), NEW n \in 0..Len(ls)
    PROVE  Sound(SubSeq(ls, 1, n)) \in Durable!Prefixes(Sound(ls))
<1> DEFINE OK(s) == \A i \in 0..Len(s) :
                      Sound(SubSeq(s, 1, i)) \in Durable!Prefixes(Sound(s))
           T == {s \in Seq(Lines) : OK(s)}
<1>1. <<>> \in T
  <2> SUFFICES ASSUME NEW i \in 0..Len(<<>>)
               PROVE  Sound(SubSeq(<<>>, 1, i)) \in Durable!Prefixes(Sound(<<>>))
    BY EmptySeq
  <2>1. i = Len(<<>>) /\ <<>> \in Seq(Lines) /\ <<>> \in Seq(Records)
    BY EmptySeq
  <2>2. SubSeq(<<>>, 1, i) = <<>>
    BY <2>1, WholePrefix
  <2> QED
    BY <2>1, <2>2, SoundEmpty, PrefixOfSelf
<1>2. ASSUME NEW s \in T, NEW e \in Lines
      PROVE  Append(s, e) \in T
  <2> DEFINE t == Append(s, e)
  <2>1. /\ s \in Seq(Lines) /\ t \in Seq(Lines) /\ Len(t) = Len(s) + 1
        /\ Len(s) \in Nat
        /\ Sound(s) \in Seq(Records) /\ Sound(t) \in Seq(Records)
    BY AppendProperties, SoundType, LenProperties
  <2>2. Sound(t) = KeepLine(Sound(s), e)
    BY <2>1, SoundAppend
  <2>3. Durable!Prefixes(Sound(s)) \subseteq Durable!Prefixes(Sound(t))
    <3>1. CASE e = Malformed
      BY <2>2, <3>1 DEF KeepLine
    <3>2. CASE e # Malformed
      <4>1. e \in Records
        BY <3>2 DEF Lines
      <4>2. Sound(t) = Append(Sound(s), e)
        BY <2>2, <3>2 DEF KeepLine
      <4> QED
        BY <2>1, <4>1, <4>2, Shorter
    <3> QED
      BY <3>1, <3>2
  <2>4. ASSUME NEW i \in 0..Len(t)
        PROVE  Sound(SubSeq(t, 1, i)) \in Durable!Prefixes(Sound(t))
    <3>1. CASE i = Len(t)
      BY <2>1, <3>1, WholePrefix, PrefixOfSelf
    <3>2. CASE i # Len(t)
      <4>1. i \in 0..Len(s)
        BY <2>1, <3>2
      <4>2. SubSeq(t, 1, i) = SubSeq(s, 1, i)
        BY <2>1, <4>1, PrefixOfAppend
      <4>3. Sound(SubSeq(s, 1, i)) \in Durable!Prefixes(Sound(s))
        BY <4>1
      <4> QED
        BY <2>3, <4>2, <4>3
    <3> QED
      BY <3>1, <3>2
  <2> HIDE DEF t
  <2>5. t \in T
    BY <2>1, <2>4
  <2> QED
    BY <2>5 DEF t
<1> HIDE DEF T
<1>3. T \in SUBSET Seq(Lines)
  BY DEF T
<1>4. T = Seq(Lines)
  BY <1>1, <1>2, <1>3, SeqSetInduction
<1> QED
  BY <1>4 DEF T

\* Lines that are all records are their own records.
LEMMA SoundOfRecords ==
    ASSUME NEW ls \in Seq(Records)
    PROVE  Sound(ls) = ls
<1> DEFINE T == {s \in Seq(Records) : Sound(s) = s}
<1>1. <<>> \in T
  BY SoundEmpty, EmptySeq
<1>2. ASSUME NEW s \in T, NEW e \in Records
      PROVE  Append(s, e) \in T
  <2>1. s \in Seq(Records) /\ Records \subseteq Lines /\ e # Malformed
    BY RecordsAssumption DEF Lines
  <2> HIDE DEF T
  <2>2. s \in Seq(Lines) /\ e \in Lines
    BY <2>1, SeqMonotonic
  <2>3. Sound(Append(s, e)) = Append(Sound(s), e) /\ Append(s, e) \in Seq(Records)
    BY <2>1, <2>2, SoundAppend, AppendProperties DEF KeepLine
  <2> QED
    BY <2>3 DEF T
<1> HIDE DEF T
<1>3. T \in SUBSET Seq(Records)
  BY DEF T
<1>4. T = Seq(Records)
  BY <1>1, <1>2, <1>3, SeqSetInduction
<1> QED
  BY <1>4 DEF T
-----------------------------------------------------------------------------
(* The log and its view. *)

Log == Sound(ScannedLines)

\* An open store is the summary of what it has counted; and as long as there was
\* no fault, that is the whole file, and every line of it a record.
Summarised ==
    /\ store # NoStore => Agrees(store, counted)
    /\ faults + cuts = 0 => /\ tail = NoTail
                            /\ lines \in Seq(Records)
                            /\ store # NoStore => counted = lines

\* The records of the complete lines, and the one in the tail.
LEMMA LogIs ==
    ASSUME HistoryTypeOK
    PROVE  /\ lines \in Seq(Lines) /\ Sound(lines) \in Seq(Records)
           /\ Log \in Seq(Records)
           /\ tail \in {NoTail, Malformed} => Log = Sound(lines)
           /\ tail \notin {NoTail, Malformed} =>
                tail \in Records /\ Log = Append(Sound(lines), tail)
<1>1. lines \in Seq(Lines) /\ (tail # NoTail => tail \in Lines)
  BY DEF HistoryTypeOK, Lines
<1>2. Sound(lines) \in Seq(Records)
  BY <1>1, SoundType
<1>3. ScannedLines \in Seq(Lines)
  BY ScannedLinesType
<1>4. Log \in Seq(Records)
  BY <1>3, SoundType DEF Log
<1>5. tail # NoTail => Log = KeepLine(Sound(lines), tail)
  BY <1>1, SoundAppend DEF Log, ScannedLines
<1>6. tail = NoTail => Log = Sound(lines)
  BY DEF Log, ScannedLines
<1>7. tail = Malformed => Log = Sound(lines)
  BY <1>5, RecordsAssumption DEF KeepLine
<1>8. tail \notin {NoTail, Malformed} => tail \in Records /\ Log = Append(Sound(lines), tail)
  BY <1>1, <1>5 DEF KeepLine, Lines
<1> QED
  BY <1>1, <1>2, <1>4, <1>6, <1>7, <1>8

LEMMA LogIsNext ==
    ASSUME HistoryTypeOK'
    PROVE  /\ lines' \in Seq(Lines) /\ Sound(lines') \in Seq(Records)
           /\ Log' \in Seq(Records)
           /\ tail' \in {NoTail, Malformed} => Log' = Sound(lines')
           /\ tail' \notin {NoTail, Malformed} =>
                tail' \in Records /\ Log' = Append(Sound(lines'), tail')
<1>1. lines' \in Seq(Lines) /\ (tail' # NoTail => tail' \in Lines)
  BY DEF HistoryTypeOK, Lines
<1>2. ScannedLines' = IF tail' = NoTail THEN lines' ELSE Append(lines', tail')
  BY DEF ScannedLines
<1>3. Log' = Sound(ScannedLines')
  BY DEF Log
<1>4. Sound(lines') \in Seq(Records)
  BY <1>1, SoundType
<1>5. tail' # NoTail => Log' = KeepLine(Sound(lines'), tail')
  BY <1>1, <1>2, <1>3, SoundAppend
<1>6. ScannedLines' \in Seq(Lines)
  BY <1>1, <1>2, AppendProperties
<1>7. Log' \in Seq(Records)
  BY <1>3, <1>6, SoundType
<1>8. tail' = NoTail => Log' = Sound(lines')
  BY <1>2, <1>3
<1>9. tail' = Malformed => Log' = Sound(lines')
  BY <1>5, RecordsAssumption DEF KeepLine
<1>10. tail' \notin {NoTail, Malformed} =>
         tail' \in Records /\ Log' = Append(Sound(lines'), tail')
  BY <1>1, <1>5 DEF KeepLine, Lines
<1> QED
  BY <1>1, <1>4, <1>7, <1>8, <1>9, <1>10

\* Whatever one append does to the log.
LEMMA LogFrayed ==
    ASSUME HistoryTypeOK, HistoryTypeOK', NEW rec \in Records,
           AppendLine(rec) \/ AppendFragment(rec)
    PROVE  Log' \in {Log, Append(Log, rec), SubSeq(Log, 1, Len(Log) - 1)}
<1> DEFINE L == Sound(lines)
<1>1. /\ lines \in Seq(Lines) /\ L \in Seq(Records)
      /\ tail \in {NoTail, Malformed} => Log = L
      /\ tail \notin {NoTail, Malformed} => tail \in Records /\ Log = Append(L, tail)
  BY LogIs
<1>2. rec \in Lines /\ Malformed \in Lines /\ rec # Malformed /\ rec # NoTail
      /\ Malformed # NoTail
  BY RecordsAssumption DEF Lines
<1>3. CASE AppendLine(rec)
  <2>1. /\ lines' = Append(lines, IF tail = NoTail THEN rec ELSE Malformed)
        /\ Log' = Sound(lines')
    BY <1>3, LogIsNext DEF AppendLine
  <2>2. Log' = IF tail = NoTail THEN Append(L, rec) ELSE L
    BY <1>1, <1>2, <2>1, SoundAppend DEF KeepLine
  <2> HIDE DEF L
  <2>3. CASE tail \in {NoTail, Malformed}
    BY <1>1, <2>2, <2>3
  <2>4. CASE tail \notin {NoTail, Malformed}
    BY <1>1, <2>2, <2>4, Shorter
  <2> QED
    BY <2>3, <2>4
<1>4. CASE AppendFragment(rec)
  <2>1. lines' = lines /\ tail' \in IF tail = NoTail THEN {Malformed, rec} ELSE {Malformed}
    BY <1>4 DEF AppendFragment
  <2>2. Log' = IF tail' = Malformed THEN L ELSE Append(L, rec)
    BY <1>2, <2>1, LogIsNext
  <2> HIDE DEF L
  <2>3. CASE tail \in {NoTail, Malformed}
    BY <1>1, <2>2, <2>3
  <2>4. CASE tail \notin {NoTail, Malformed}
    <3>1. Log' = L
      BY <2>1, <2>2, <2>4
    <3> QED
      BY <1>1, <2>4, <3>1, Shorter
  <2> QED
    BY <2>3, <2>4
<1> QED
  BY <1>3, <1>4

\* A crash of the host costs the log its end.
LEMMA LogLosesEnd ==
    ASSUME HistoryTypeOK, HistoryTypeOK', HostCrash
    PROVE  Log' \in Durable!Prefixes(Log)
<1>1. /\ lines \in Seq(Lines) /\ Sound(lines) \in Seq(Records)
      /\ tail \in {NoTail, Malformed} => Log = Sound(lines)
      /\ tail \notin {NoTail, Malformed} =>
           tail \in Records /\ Log = Append(Sound(lines), tail)
  BY LogIs
<1>2. /\ Sound(lines) \in Durable!Prefixes(Log)
      /\ Durable!Prefixes(Sound(lines)) \subseteq Durable!Prefixes(Log)
  BY <1>1, Shorter, PrefixOfSelf
<1>3. CASE tail' \in {NoTail, Malformed} /\ lines' = lines
  BY <1>2, <1>3, LogIsNext
<1>4. ASSUME NEW front \in Seq(Lines), NEW last \in Lines,
             lines = Append(front, last), lines' = front,
             tail' \in {NoTail, Malformed, last}
      PROVE  Log' \in Durable!Prefixes(Log)
  <2>1. Sound(lines) = KeepLine(Sound(front), last) /\ Sound(front) \in Seq(Records)
    BY <1>4, SoundAppend, SoundType
  <2>2. Sound(front) \in Durable!Prefixes(Sound(lines))
    <3>1. CASE last = Malformed
      BY <2>1, <3>1, PrefixOfSelf DEF KeepLine
    <3>2. CASE last # Malformed
      <4>1. last \in Records /\ Sound(lines) = Append(Sound(front), last)
        BY <2>1, <3>2 DEF KeepLine, Lines
      <4> QED
        BY <2>1, <4>1, Shorter
    <3> QED
      BY <3>1, <3>2
  <2>3. CASE tail' \in {NoTail, Malformed}
    BY <1>2, <1>4, <2>2, <2>3, LogIsNext
  <2>4. CASE tail' \notin {NoTail, Malformed}
    <3>1. tail' = last /\ last # Malformed /\ Log' = Append(Sound(front), last)
      BY <1>4, <2>4, LogIsNext
    <3>2. Log' = Sound(lines)
      BY <2>1, <3>1 DEF KeepLine
    <3> QED
      BY <1>2, <3>2
  <2> QED
    BY <2>3, <2>4
<1> QED
  BY <1>3, <1>4, HostCrashKeeps

-----------------------------------------------------------------------------
(* The refinement. *)

LEMMA ViewNext ==
    /\ store' = NoStore => View' = NoStore
    /\ store' # NoStore /\ Agrees(store', counted') => View' = Durable!Summary(counted')
BY DEF View, Agrees, Durable!Summary

\* The view of an open store is not mistaken for a closed one.
LEMMA OpenIsOpen == (Summarised /\ store # NoStore) => View # NoStore
<1> SUFFICES ASSUME Summarised, store # NoStore PROVE View # NoStore
  OBVIOUS
<1>1. /\ store.bytes \in Nat /\ store.crossAZ \in Nat /\ store.cost \in Nat
      /\ store.ring \in Seq(Records)
  BY DEF Summarised, Agrees, Stores
<1>2. View \in [bytes : Nat, crossAZ : Nat, cost : Nat, recent : Seq(Records)]
  BY <1>1 DEF View
<1> QED
  BY <1>2, NoStoreAssumption

LEMMA StoreIsOpen == ASSUME NEW h \in Stores PROVE h # NoStore
BY NoStoreAssumption DEF Stores

\* Opening the store on the lines ls, recording, and closing it.
LEMMA RestoreCounts ==
    ASSUME NEW ls \in Seq(Lines), NEW now \in Now, Restore(ls, now)
    PROVE  /\ store' # NoStore /\ Agrees(store', counted')
           /\ counted' = Sound(ls) /\ Durable!Count(Sound(ls))
<1> DEFINE h == Replay(ls)
           k == [h EXCEPT !.since = IF @ = NoTime THEN now ELSE @]
<1>1. Agrees(h, Sound(ls)) /\ now \in Nat
  BY ReplayAgrees, TimesAssumption DEF Now
<1>2. store' = k /\ counted' = Sound(ls)
  BY DEF Restore
<1> HIDE DEF h
<1>3. Agrees(k, Sound(ls)) /\ k \in Stores
  BY <1>1 DEF Agrees, Stores
<1> HIDE DEF k
<1>4. store' # NoStore /\ Agrees(store', counted')
  BY <1>2, <1>3, StoreIsOpen
<1> QED
  BY <1>2, <1>4, ViewNext DEF Durable!Count

LEMMA RecordCounts ==
    ASSUME HistoryTypeOK, Summarised, store # NoStore, NEW rec \in Records,
           Count(rec)
    PROVE  /\ store' # NoStore /\ Agrees(store', counted')
           /\ counted' = Append(counted, rec)
           /\ View # NoStore /\ Durable!Count(Append(counted, rec))
<1>1. Agrees(store, counted) /\ GoodStore(store) /\ counted \in Seq(Records)
  BY DEF Summarised, HistoryTypeOK, GoodStore, Stores
<1>2. Agrees(Absorb(store, rec), Append(counted, rec))
  BY <1>1, AbsorbAgrees
<1>3. store' = Absorb(store, rec) /\ counted' = Append(counted, rec)
  BY DEF Count
<1>4. Agrees(store', counted') /\ store' # NoStore
  BY <1>2, <1>3, StoreIsOpen DEF Agrees
<1> QED
  BY <1>3, <1>4, ViewNext, OpenIsOpen DEF Durable!Count

LEMMA ForgetShuts == Forget => Durable!Shut
BY ViewNext DEF Forget, Durable!Shut

\* One step keeps the invariant.
LEMMA SummarisedStep ==
    ASSUME HistoryTypeOK, HistoryTypeOK', Summarised, [HistoryNext]_historyVars
    PROVE  Summarised'
<1>0. faults \in Nat /\ cuts \in Nat /\ ScannedLines \in Seq(Lines)
  BY ScannedLinesType DEF HistoryTypeOK
<1>1. ASSUME NEW now \in Now, NewHistoryStore(now) PROVE Summarised'
  <2>1. Agrees(store', counted') /\ counted' = Sound(ScannedLines)
    BY <1>0, <1>1, RestoreCounts DEF NewHistoryStore
  <2>2. faults + cuts = 0 => counted' = lines
    BY <2>1, SoundOfRecords DEF Summarised, ScannedLines
  <2> QED
    BY <1>1, <2>1, <2>2 DEF NewHistoryStore, fileVars, Summarised
<1>2. ASSUME NEW now \in Now, NewHistoryStoreCut(now) PROVE Summarised'
  <2>1. PICK n \in 0..Len(ScannedLines) - 1 :
          Restore(SubSeq(ScannedLines, 1, n), now)
    BY <1>2 DEF NewHistoryStoreCut
  <2>2. n \in 0..Len(ScannedLines)
    BY <1>0, LenProperties
  <2>3. SubSeq(ScannedLines, 1, n) \in Seq(Lines)
    BY <1>0, <2>2, PrefixProperties
  <2>4. Agrees(store', counted')
    BY <2>1, <2>3, RestoreCounts
  <2>5. faults' + cuts' # 0
    BY <1>0, <1>2 DEF NewHistoryStoreCut
  <2> QED
    BY <2>4, <2>5 DEF Summarised
<1>3. ASSUME NEW rec \in Later, Record(rec) PROVE Summarised'
  <2>1. Agrees(store', counted') /\ counted' = Append(counted, rec) /\ rec \in Records
    BY <1>3, LaterType, RecordCounts DEF Record
  <2>2. faults + cuts = 0 =>
          /\ tail' = NoTail /\ lines' = Append(lines, rec) /\ lines' \in Seq(Records)
          /\ counted' = lines'
    BY <1>3, <2>1, AppendProperties DEF Record, AppendLine, Summarised
  <2> QED
    BY <1>3, <2>1, <2>2 DEF Record, Summarised
<1>4. Fault => faults' + cuts' # 0
  BY <1>0 DEF Fault
<1>5. ASSUME NEW rec \in Later, RecordUnwritten(rec) \/ RecordShort(rec)
      PROVE  Summarised'
  <2>1. store # NoStore /\ Count(rec) /\ Fault /\ rec \in Records
    BY <1>5, LaterType DEF RecordUnwritten, RecordShort
  <2>2. Agrees(store', counted')
    BY <2>1, RecordCounts
  <2> QED
    BY <1>4, <2>1, <2>2 DEF Summarised
<1>6. ASSUME NEW rec \in Later, CrashInRecord(rec) PROVE Summarised'
  BY <1>4, <1>6 DEF CrashInRecord, Forget, Summarised
<1>7. CASE Crash
  BY <1>7 DEF Crash, Forget, fileVars, Summarised
<1>8. CASE HostCrash
  <2>1. faults' + cuts' # 0
    <3>1. CASE tail # NoTail /\ UNCHANGED <<faults, cuts>>
      BY <1>0, <3>1 DEF Summarised
    <3> QED
      BY <1>4, <1>8, <3>1 DEF HostCrash
  <2> QED
    BY <1>8, <2>1 DEF HostCrash, Forget, Summarised
<1>9. CASE UNCHANGED historyVars
  BY <1>9 DEF historyVars, fileVars, storeVars, Summarised
<1>10. ASSUME NEW rec \in Later, RecordUnwritten(rec) PROVE Summarised'
  BY <1>5, <1>10
<1>11. ASSUME NEW rec \in Later, RecordShort(rec) PROVE Summarised'
  BY <1>5, <1>11
<1> QED
  BY <1>1, <1>2, <1>3, <1>6, <1>7, <1>8, <1>9, <1>10, <1>11 DEF HistoryNext

\* Every step is one of the durable log's, with faults damaging the log in no
\* other way than at its end.
LEMMA DurableStep ==
    ASSUME HistoryTypeOK, HistoryTypeOK', Summarised, [HistoryNext]_historyVars
    PROVE  [Durable!Next]_Durable!vars
<1> DEFINE faulty == faults + cuts > 0
<1>0. /\ faults \in Nat /\ cuts \in Nat /\ ScannedLines \in Seq(Lines)
      /\ Log \in Seq(Records) /\ Log = Sound(ScannedLines)
      /\ Log' = Sound(ScannedLines')
      /\ faults' \in Nat /\ cuts' \in Nat
  BY ScannedLinesType, LogIs DEF HistoryTypeOK, Log
<1>1. store = NoStore => View = NoStore
  BY DEF View
<1>2. ASSUME NEW now \in Now, NewHistoryStore(now) PROVE Durable!Next
  <2>1. /\ Durable!Count(Log) /\ Log' = Log /\ store = NoStore
        /\ UNCHANGED <<faults, cuts>>
    BY <1>0, <1>2, RestoreCounts DEF NewHistoryStore, fileVars, ScannedLines
  <2>2. CASE faulty
    BY <1>0, <1>1, <2>1, <2>2, PrefixOfSelf DEF Durable!Next, Durable!OpenPart
  <2>3. CASE ~faulty
    BY <1>0, <1>1, <2>1, <2>3 DEF Durable!Next, Durable!Open
  <2> QED
    BY <2>2, <2>3
<1>3. ASSUME NEW now \in Now, NewHistoryStoreCut(now) PROVE Durable!Next
  <2>1. PICK n \in 0..Len(ScannedLines) - 1 :
          Restore(SubSeq(ScannedLines, 1, n), now)
    BY <1>3 DEF NewHistoryStoreCut
  <2>2. n \in 0..Len(ScannedLines)
    BY <1>0, LenProperties
  <2> DEFINE l == Sound(SubSeq(ScannedLines, 1, n))
  <2>3. Durable!Count(l)
    BY <1>0, <2>1, <2>2, PrefixProperties, RestoreCounts
  <2>4. l \in Durable!Prefixes(Log)
    BY <1>0, <2>2, SoundPrefix
  <2>5. Log' = Log /\ store = NoStore /\ faults' + cuts' > 0
    BY <1>0, <1>3 DEF NewHistoryStoreCut, fileVars, ScannedLines
  <2> HIDE DEF l
  <2> QED
    BY <1>0, <1>1, <2>3, <2>4, <2>5 DEF Durable!Next, Durable!OpenPart
<1>4. ASSUME NEW rec \in Later, Record(rec) PROVE Durable!Next
  <2>1. /\ rec \in Records /\ View # NoStore /\ Durable!Count(Append(counted, rec))
        /\ UNCHANGED <<faults, cuts>>
    BY <1>4, LaterType, RecordCounts DEF Record
  <2>2. Log' \in {Log, Append(Log, rec), SubSeq(Log, 1, Len(Log) - 1)}
    BY <1>4, <2>1, LogFrayed DEF Record
  <2>3. CASE faulty
    BY <1>0, <2>1, <2>2, <2>3 DEF Durable!Next, Durable!AddFrayed, Durable!Frayed
  <2>4. CASE ~faulty
    <3>1. /\ tail = NoTail /\ tail' = NoTail /\ counted = lines
          /\ lines \in Seq(Records) /\ lines' = Append(lines, rec)
      BY <1>0, <1>4, <2>4 DEF Summarised, Record, AppendLine
    <3>2. Log = lines /\ Log' = Append(lines, rec)
      BY <1>0, <2>1, <3>1, SoundOfRecords, AppendProperties DEF ScannedLines
    <3> QED
      BY <1>0, <2>1, <2>4, <3>1, <3>2 DEF Durable!Next, Durable!Add
  <2> QED
    BY <2>3, <2>4
<1>5. ASSUME NEW rec \in Later, RecordUnwritten(rec) PROVE Durable!Next
  <2>1. /\ rec \in Records /\ View # NoStore /\ Durable!Count(Append(counted, rec))
        /\ faults' + cuts' > 0
    BY <1>0, <1>5, LaterType, RecordCounts DEF RecordUnwritten, Fault
  <2>2. Log' = Log
    BY <1>0, <1>5 DEF RecordUnwritten, fileVars, ScannedLines
  <2> QED
    BY <1>0, <2>1, <2>2 DEF Durable!Next, Durable!AddFrayed, Durable!Frayed
<1>6. ASSUME NEW rec \in Later, RecordShort(rec) PROVE Durable!Next
  <2>1. /\ rec \in Records /\ View # NoStore /\ Durable!Count(Append(counted, rec))
        /\ faults' + cuts' > 0
    BY <1>0, <1>6, LaterType, RecordCounts DEF RecordShort, Fault
  <2>2. Log' \in {Log, Append(Log, rec), SubSeq(Log, 1, Len(Log) - 1)}
    BY <1>6, <2>1, LogFrayed DEF RecordShort
  <2> QED
    BY <1>0, <2>1, <2>2 DEF Durable!Next, Durable!AddFrayed, Durable!Frayed
<1>7. ASSUME NEW rec \in Later, CrashInRecord(rec) PROVE Durable!Next
  <2>1. /\ rec \in Records /\ View # NoStore /\ Durable!Shut
        /\ faults' + cuts' > 0
    BY <1>0, <1>7, LaterType, OpenIsOpen, ForgetShuts DEF CrashInRecord, Fault
  <2>2. Log' \in {Log, Append(Log, rec), SubSeq(Log, 1, Len(Log) - 1)}
    BY <1>7, <2>1, LogFrayed DEF CrashInRecord
  <2> QED
    BY <1>0, <2>1, <2>2 DEF Durable!Next, Durable!AddFrayed, Durable!Frayed
<1>8. ASSUME Crash PROVE Durable!Next
  <2>1. /\ View # NoStore /\ Durable!Shut /\ Log' = Log
        /\ UNCHANGED <<faults, cuts>>
    BY <1>0, <1>8, OpenIsOpen, ForgetShuts DEF Crash, fileVars, ScannedLines
  <2>2. CASE faulty
    BY <1>0, <2>1, <2>2, PrefixOfSelf DEF Durable!Next, Durable!LoseEnd
  <2>3. CASE ~faulty
    BY <1>0, <2>1, <2>3 DEF Durable!Next, Durable!Close
  <2> QED
    BY <2>2, <2>3
<1>9. ASSUME HostCrash PROVE Durable!Next
  <2>1. Durable!Shut /\ Log' \in Durable!Prefixes(Log)
    BY <1>9, ForgetShuts, LogLosesEnd DEF HostCrash
  <2>2. \/ tail # NoTail /\ UNCHANGED <<faults, cuts>>
        \/ Fault
    BY <1>9 DEF HostCrash
  <2>3. CASE tail # NoTail /\ UNCHANGED <<faults, cuts>>
    <3>1. faults + cuts # 0
      BY <2>3 DEF Summarised
    <3> QED
      BY <1>0, <2>1, <2>3, <3>1 DEF Durable!Next, Durable!LoseEnd
  <2>4. CASE Fault
    <3>1. faults' + cuts' > 0
      BY <1>0, <2>4 DEF Fault
    <3> QED
      BY <1>0, <2>1, <3>1 DEF Durable!Next, Durable!LoseEnd
  <2> QED
    BY <2>2, <2>3, <2>4
<1>10. ASSUME UNCHANGED historyVars PROVE UNCHANGED Durable!vars
  BY <1>10 DEF historyVars, fileVars, storeVars, Durable!vars, ScannedLines, View
<1> QED
  BY <1>2, <1>3, <1>4, <1>5, <1>6, <1>7, <1>8, <1>9, <1>10 DEF HistoryNext

\* Whatever faults there are, the store reports the summary of records that were
\* recorded; until the first one, of all that was ever recorded, whatever the
\* crashes and restarts.  A fault never costs the file more than its end.
THEOREM DurableRefinement == HistorySpec => ImplementsDurableLog
<1>1. HistoryInit => Summarised
  BY EmptySeq DEF HistoryInit, Summarised
<1>2. HistoryInit => Durable!Init
  <2> SUFFICES ASSUME HistoryInit PROVE Durable!Init
    OBVIOUS
  <2>1. /\ ScannedLines = <<>> /\ View = NoStore /\ counted = <<>>
        /\ faults = 0 /\ cuts = 0
    BY DEF HistoryInit, ScannedLines, View
  <2> QED
    BY <2>1, SoundEmpty DEF Durable!Init
<1>3. HistoryTypeOK /\ HistoryTypeOK' /\ Summarised /\ [HistoryNext]_historyVars
        => Summarised'
  BY SummarisedStep
<1>4. HistoryTypeOK /\ HistoryTypeOK' /\ Summarised /\ [HistoryNext]_historyVars
        => [Durable!Next]_Durable!vars
  BY DurableStep
<1> QED
  BY <1>1, <1>2, <1>3, <1>4, HistoryTypeCorrect, PTL
  DEF HistorySpec, ImplementsDurableLog, Durable!Spec
=============================================================================
