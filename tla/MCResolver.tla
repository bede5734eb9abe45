----------------------------- MODULE MCResolver -----------------------------
EXTENDS Resolver, TLC

CONSTANTS
    p1, p2, s1, s2, n1, n2, ip1, ip2, svcIP, za, zb,
    MaxBusyChanges \* bound: changes of a behaviour before an event is resolved

AllQuirks == {"finish", "move", "share", "retype", "gap"}

\* The agent starts in a cluster of two labelled nodes, one running p1; p2 is
\* scheduled but has no address yet, s2 is yet to take an address.
StartInit ==
    /\ pods = (p1 :> [ip |-> ip1, node |-> n1, live |-> TRUE])
              @@ (p2 :> [ip |-> NoIP, node |-> n2, live |-> TRUE])
    /\ nodes = (n1 :> za) @@ (n2 :> zb)
    /\ svcs = (s1 :> [ip |-> svcIP]) @@ (s2 :> Absent)
    /\ ResolverInit

Synced == PodWatch!HasSynced /\ SvcWatch!HasSynced /\ NodeWatch!HasSynced

\* Of the MaxChanges, an event is in work during the first MaxBusyChanges; and
\* changes begin when every informer has listed, as before that they only make
\* another start.
MCSpec ==
    /\ StartInit
    /\ [][/\ ResolverNext
          /\ stage' # <<"idle">> => changes' <= MaxBusyChanges
          /\ changes' # changes => Synced]_vars
=============================================================================
