------------------------------ MODULE MCTracer ------------------------------
(* A small instance of Tracer for TLC. *)
EXTENDS Tracer, TLC

CONSTANTS t1, t2, t3, v4, v6, w6

\* Two threads of one process and one of another.
MCProcess == (t1 :> t1) @@ (t2 :> t1) @@ (t3 :> t3)

\* An IPv4 socket, to a private address and a port whose octets differ, and two
\* IPv6 sockets, with what Linux puts into their IPv4 fields.
InIPv6 == [src |-> <<127, 0, 0, 6>>, dst |-> <<0, 0, 0, 0>>, port |-> 443,
           class |-> "external"]
MCPeer == (v4 :> [src |-> <<10, 0, 3, 7>>, dst |-> <<172, 31, 0, 9>>, port |-> 443,
                  class |-> "internal"])
          @@ (v6 :> InIPv6) @@ (w6 :> InIPv6)
Symmetry == Permutations({v6, w6})
=============================================================================
