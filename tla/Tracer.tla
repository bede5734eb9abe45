------------------------------- MODULE Tracer -------------------------------
(***************************************************************************)
(* The kernel side of bpf/tracer.bpf.c and what ReadEvents tallies of it.  *)
(* Threads run on different CPUs, so between the entry probe of a call and *)
(* its return probe, and between the reserve and the submit of a record,   *)
(* the probes of other threads run.  The maps and the ring buffer are      *)
(* bounded, and nothing tells when one is full.  A kretprobe may miss a    *)
(* return (its maxactive instances are all in use).                        *)
(*                                                                         *)
(* tcp_sendmsg serves sockets of both address families.  What the IPv4     *)
(* fields of an IPv6 socket hold names no peer; many sockets may have the  *)
(* same there.                                                             *)
(***************************************************************************)
EXTENDS Addresses, FiniteSetsExt, Functions

CONSTANTS
    Threads,    \* pid_tgid of the threads
    Process,    \* Process[t]: the tgid
    Sockets, NoSocket,
    IPv4Sockets,\* the sockets that tcp_v4_connect is called for
    Peer,       \* Peer[s]: source, destination and port in the socket's IPv4
                \* fields, and whether that destination is in a private block
    Sizes,      \* sizes of tcp_sendmsg
    RingSlots,  \* records the ring buffer holds (16 MiB in the code)
    MapEntries, \* max_entries of sock_map and of recv_sock_map (10240)
    MaxCalls,   \* bound: calls of one behaviour
    MaxMissed   \* bound: returns that a kretprobe misses

ASSUME ProcessAssumption == Process \in [Threads -> Threads]
ASSUME FiniteAssumption == IsFiniteSet(Threads) /\ IsFiniteSet(Sockets)
ASSUME BoundsAssumption ==
    /\ Sizes \subseteq Nat
    /\ RingSlots \in Nat /\ MapEntries \in Nat

\* The private blocks and the loopback one, as reader.go:37-42 lists them.
Private(ip) ==
    \/ ip[1] \in {10, 127}
    \/ ip[1] = 172 /\ ip[2] \in 16..31
    \/ ip[1] = 192 /\ ip[2] = 168

ASSUME PeerAssumption ==
    /\ IPv4Sockets \subseteq Sockets /\ NoSocket \notin Sockets
    /\ \A s \in Sockets :
         /\ Peer[s] \in [src : [1..4 -> Octet], dst : [1..4 -> Octet], port : Port,
                         class : {"internal", "external"}]
         /\ Peer[s].class = "internal" <=> Private(Peer[s].dst)

VARIABLES
    inCall, \* inCall[t]: the probed call the thread is in
    maps,   \* sock_map and recv_sock_map
    ring,   \* records in the order they were reserved
    tally,  \* what ReadEvents has recorded, by type and flow
    calls, missed,
    made,   \* ghost: what happened that should be told, by type and socket
    lost,   \* ghost: how much of it found no map entry or no ring slot
    sent    \* ghost: the bytes that tcp_sendmsg took, by socket

tracerVars == <<inCall, maps, ring, tally, calls, missed, made, lost, sent>>

Paired == {"connect", "recv"}             \* an entry and a return probe each
Types  == Paired \cup {"exec", "send"}
Index  == Types \X (Sockets \cup {NoSocket})
InCall(type, s, n) == [type |-> type, sock |-> s, asked |-> n]
Idle   == InCall("idle", NoSocket, 0)

\* bpf_get_current_pid_tgid().  Mutant: the process alone.
KeyOfProcess(t) == Process[t]
Key(t) == t

-----------------------------------------------------------------------------
(* The ring buffer. *)
Event(type, s, n) == [type |-> type, sock |-> s, bytes |-> n]

\* The fields of struct event that tell where: zeros for an exec.
Ends(s) ==
    IF s = NoSocket
    THEN [src_ip |-> <<0, 0, 0, 0>>, dst_ip |-> <<0, 0, 0, 0>>, dst_port |-> <<0, 0>>]
    ELSE [src_ip   |-> Peer[s].src,
          dst_ip   |-> Peer[s].dst,
          dst_port |-> InMemory(Peer[s].port)]

\* What an event stands for in a tally: bytes of a send, one of the others.
Worth(ev) == IF ev.type = "send" THEN ev.bytes ELSE 1
Add(f, ev) == [f EXCEPT ![<<ev.type, ev.sock>>] = @ + Worth(ev)]

Writing(t) == \E i \in DOMAIN ring : ring[i].by = t /\ ring[i].busy

\* bpf_ringbuf_reserve, or the early return when it fails.
Reserve(t, ev) ==
    IF Len(ring) < RingSlots
    THEN /\ ring' = Append(ring, [ev |-> ev, by |-> t, busy |-> TRUE])
         /\ UNCHANGED lost
    ELSE /\ lost' = Add(lost, ev)
         /\ UNCHANGED ring

Submit(t) ==
    /\ \E i \in DOMAIN ring :
         /\ ring[i].by = t /\ ring[i].busy
         /\ ring' = [ring EXCEPT ![i].busy = FALSE]
    /\ UNCHANGED <<inCall, maps, tally, calls, missed, made, lost, sent>>

\* The flow that ReadEvents makes of an event's fields.
\* Mutant: the port as it was read.
FlowUnswapped(e) ==
    [src |-> IPv4(Uint32(e.src_ip)), dst |-> IPv4(Uint32(e.dst_ip)),
     port |-> Uint16(e.dst_port), class |-> Classify(IPv4(Uint32(e.dst_ip)))]

Flow(e) ==
    LET dst == IPv4(Uint32(e.dst_ip))
    IN  [src   |-> IPv4(Uint32(e.src_ip)),
         dst   |-> dst,
         port  |-> SwapUint16(Uint16(e.dst_port)),
         class |-> Classify(dst)]

Recorded(type, flow) ==
    IF <<type, flow>> \in DOMAIN tally THEN tally[<<type, flow>>] ELSE 0

\* The map m with v under key.
With(m, key, v) == [k \in DOMAIN m \cup {key} |-> IF k = key THEN v ELSE m[k]]
Without(m, key) == [k \in DOMAIN m \ {key} |-> m[k]]

\* Mutant: a send counts as one.
TallyCalls(ev) ==
    LET flow == Flow(Ends(ev.sock))
    IN  With(tally, <<ev.type, flow>>, Recorded(ev.type, flow) + 1)

Tally(ev) ==
    LET flow == Flow(Ends(ev.sock))
    IN  With(tally, <<ev.type, flow>>, Recorded(ev.type, flow) + Worth(ev))

\* ReadEvents takes the oldest record once it is submitted.  Exec, connect and
\* send are recorded; recv is skipped.
Read ==
    /\ ring # <<>> /\ ~Head(ring).busy
    /\ ring' = Tail(ring)
    /\ tally' = IF Head(ring).ev.type = "recv" THEN tally ELSE Tally(Head(ring).ev)
    /\ UNCHANGED <<inCall, maps, calls, missed, made, lost, sent>>

-----------------------------------------------------------------------------
(* The probes. *)
Begin(t) == /\ inCall[t] = Idle /\ ~Writing(t)
            /\ calls < MaxCalls /\ calls' = calls + 1

\* handle_exec and handle_tcp_sendmsg: the whole record at the entry.
AtEntry(t, ev) ==
    /\ Begin(t)
    /\ made' = Add(made, ev)
    /\ Reserve(t, ev)
    /\ UNCHANGED <<maps, tally, missed, sent>>

Exec(t) == AtEntry(t, Event("exec", NoSocket, 0)) /\ UNCHANGED inCall

SendMsg(t, s, n) ==
    /\ AtEntry(t, Event("send", s, n))
    /\ inCall' = [inCall EXCEPT ![t] = InCall("send", s, n)]

\* tcp_sendmsg goes on after its probe, and takes all it was asked to send, a
\* part, or nothing.  The caller may try again with the rest.
SendReturns(t, n) ==
    /\ inCall[t].type = "send"
    /\ ~Writing(t)
    /\ sent' = [sent EXCEPT ![inCall[t].sock] = @ + n]
    /\ inCall' = [inCall EXCEPT ![t] = Idle]
    /\ UNCHANGED <<maps, ring, tally, calls, missed, made, lost>>

\* Mutant: a map without max_entries.
UpdateUnbounded(map, key, s) == With(map, key, s)

\* bpf_map_update_elem(BPF_ANY): fails when the map is full of other keys.
Update(map, key, s) ==
    IF key \in DOMAIN map \/ Cardinality(DOMAIN map) < MapEntries
    THEN With(map, key, s)
    ELSE map

\* handle_tcp_connect_entry, handle_tcp_recvmsg_entry.
Enter(t, type, s) ==
    /\ Begin(t)
    /\ inCall' = [inCall EXCEPT ![t] = InCall(type, s, 0)]
    /\ maps' = [maps EXCEPT ![type] = Update(@, Key(t), s)]
    /\ UNCHANGED <<ring, tally, missed, made, lost, sent>>

\* The results that make an event: connected, or some bytes received.
Tells(type, ret) == IF type = "connect" THEN ret = 0 ELSE ret > 0

\* Mutant: the result checked before the map entry is taken out.
ReturnCheckedFirst(t, ret) ==
    /\ inCall[t].type \in Paired
    /\ inCall[t].type = "connect" => ret <= 0
    /\ LET type == inCall[t].type
           true == Event(type, inCall[t].sock, Max({ret, 0}))
           map  == maps[type]
       IN  /\ made' = IF Tells(type, ret) THEN Add(made, true) ELSE made
           /\ IF ~Tells(type, ret)
              THEN UNCHANGED <<maps, ring, lost>>
              ELSE IF Key(t) \notin DOMAIN map
              THEN lost' = Add(lost, true) /\ UNCHANGED <<maps, ring>>
              ELSE /\ maps' = [maps EXCEPT ![type] = Without(@, Key(t))]
                   /\ Reserve(t, Event(type, map[Key(t)], Max({ret, 0})))
    /\ inCall' = [inCall EXCEPT ![t] = Idle]
    /\ UNCHANGED <<tally, calls, missed, sent>>

\* handle_tcp_connect_exit, handle_tcp_recvmsg_exit.
Return(t, ret) ==
    /\ inCall[t].type \in Paired
    /\ inCall[t].type = "connect" => ret <= 0
    /\ LET type == inCall[t].type
           true == Event(type, inCall[t].sock, Max({ret, 0}))
           map  == maps[type]
       IN  /\ made' = IF Tells(type, ret) THEN Add(made, true) ELSE made
           /\ IF Key(t) \notin DOMAIN map
              THEN /\ lost' = IF Tells(type, ret) THEN Add(lost, true) ELSE lost
                   /\ UNCHANGED <<maps, ring>>
              ELSE /\ maps' = [maps EXCEPT ![type] = Without(@, Key(t))]
                   /\ IF Tells(type, ret)
                      THEN Reserve(t, Event(type, map[Key(t)], Max({ret, 0})))
                      ELSE UNCHANGED <<ring, lost>>
    /\ inCall' = [inCall EXCEPT ![t] = Idle]
    /\ UNCHANGED <<tally, calls, missed, sent>>

\* The call returns and its kretprobe does not fire.
MissReturn(t) ==
    /\ inCall[t].type \in Paired
    /\ missed < MaxMissed /\ missed' = missed + 1
    /\ inCall' = [inCall EXCEPT ![t] = Idle]
    /\ UNCHANGED <<maps, ring, tally, calls, made, lost, sent>>

-----------------------------------------------------------------------------
Init ==
    /\ inCall = [t \in Threads |-> Idle]
    /\ maps = [type \in Paired |-> [k \in {} |-> NoSocket]]
    /\ ring = <<>>
    /\ tally = [k \in {} |-> 0]
    /\ made = [x \in Index |-> 0] /\ lost = made
    /\ sent = [s \in Sockets |-> 0]
    /\ calls = 0 /\ missed = 0

Next ==
    \/ \E t \in Threads :
         \/ Exec(t)
         \/ \E s \in Sockets :
              \/ \E n \in Sizes : SendMsg(t, s, n)
              \/ s \in IPv4Sockets /\ Enter(t, "connect", s)
              \/ Enter(t, "recv", s)
         \/ \E n \in 0..inCall[t].asked : SendReturns(t, n)
         \/ \E ret \in {-1, 0, 1} : Return(t, ret)
         \/ MissReturn(t)
         \/ Submit(t)
    \/ Read

Spec == Init /\ [][Next]_tracerVars

-----------------------------------------------------------------------------
\* Every variable has its type; neither map nor the ring exceeds its size.
TypeOK ==
    /\ \A t \in Threads : inCall[t] \in [type : Paired \cup {"send", "idle"},
                                         sock : Sockets \cup {NoSocket},
                                         asked : Sizes \cup {0}]
    /\ \A type \in Paired :
         /\ DOMAIN maps[type] \subseteq Threads
         /\ \A k \in DOMAIN maps[type] : maps[type][k] \in Sockets
         /\ Cardinality(DOMAIN maps[type]) <= MapEntries
    /\ Len(ring) <= RingSlots
    /\ {made, lost} \subseteq [Index -> Nat]
    /\ sent \in [Sockets -> Nat]

\* The sockets whose calls belong to a flow, and what waits in the ring for them.
On(flow) == {s \in Sockets : Peer[s] = flow}
Waiting(type, socks) ==
    SumFunction([i \in {j \in DOMAIN ring : /\ ring[j].ev.type = type
                                            /\ ring[j].ev.sock \in socks}
                   |-> Worth(ring[i].ev)])
Total(f, type, socks) == SumFunction([s \in socks |-> f[<<type, s>>]])

\* tracer.bpf.c:16-17 "keyed by full pid_tgid ... avoids collisions": what has
\* been recorded for a flow, what is still in the ring for it and what was lost
\* is what the calls on its own sockets did: no interleaving of threads and no
\* byte order charges one flow for another, with an IPv4 peer's for what went
\* to an IPv6 one, tells a call twice, or a failed one at all.  Nothing else is
\* recorded, and of what was received nothing at all (reader.go:109-137).
EventsBalance ==
    LET execs == <<"exec", Flow(Ends(NoSocket))>>
        told  == {<<type, Peer[s]>> : type \in {"connect", "send"}, s \in Sockets}
    IN  /\ \A k \in told :
             Recorded(k[1], k[2]) + Waiting(k[1], On(k[2])) + Total(lost, k[1], On(k[2]))
               = Total(made, k[1], On(k[2]))
        /\ Recorded("exec", execs[2]) + Waiting("exec", {NoSocket}) + lost[<<"exec", NoSocket>>]
             = made[<<"exec", NoSocket>>]
        /\ DOMAIN tally \subseteq told \cup {execs}

\* Every byte that tcp_sendmsg took is recorded, unless its record was lost:
\* with the size noted before the call, a send cut short or refused makes the
\* recorded traffic more than was sent, never less (tracer.bpf.c:124).
SendsAreCovered ==
    \A s \in Sockets :
      LET socks == On(Peer[s])
      IN  Recorded("send", Peer[s]) + Waiting("send", socks) + Total(lost, "send", socks)
            >= SumFunctionOnSet(sent, socks)

\* Only a missed return leaves a map entry without a call that will take it out.
EntriesHaveCalls ==
    missed = 0 =>
      \A type \in Paired, k \in Threads :
        k \in DOMAIN maps[type] => inCall[k] = InCall(type, maps[type][k], 0)
=============================================================================
