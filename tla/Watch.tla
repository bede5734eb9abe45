------------------------------- MODULE Watch -------------------------------
(***************************************************************************)
(* One client-go shared informer, as informer.go uses it: objects of one   *)
(* kind in the API server, the informer's copy of them, and the ordered    *)
(* notifications it has for the registered handlers.  While its watch is   *)
(* up, every change is notified in order.  While it is down, changes are   *)
(* missed; the relist that ends it notifies the differences, and a         *)
(* deletion found that way comes as a DeletedFinalStateUnknown tombstone   *)
(* instead of the object.  The first list is a relist like any other.      *)
(***************************************************************************)
EXTENDS Integers, Sequences, SequencesExt

CONSTANTS
    Keys,   \* the objects' names
    Absent  \* the state of a name that has no object

VARIABLES
    api,      \* the objects in the API server
    known,    \* the informer's copy (its indexer)
    watching, \* "never" listed yet, "up", or "down"
    queue     \* notifications the handlers have not seen

informerVars == <<api, known, watching, queue>>

Note(k, old, new) ==
    CASE new = Absent -> [type |-> "delete", key |-> k, obj |-> old]
      [] old = Absent -> [type |-> "add", key |-> k, obj |-> new]
      [] OTHER        -> [type |-> "update", key |-> k, obj |-> new]

Init ==
    /\ known = [k \in Keys |-> Absent]
    /\ watching = "never"
    /\ queue = <<>>

HasSynced == watching # "never"

\* The API server stores a new state of an object, or removes it.
Change(k, new) ==
    /\ api[k] # new
    /\ api' = [api EXCEPT ![k] = new]
    /\ IF watching = "up"
       THEN /\ known' = [known EXCEPT ![k] = new]
            /\ queue' = Append(queue, Note(k, known[k], new))
       ELSE UNCHANGED <<known, queue>>
    /\ UNCHANGED watching

\* It stores a new version that differs in nothing the handlers look at.
Touch(k) ==
    /\ watching = "up"
    /\ api[k] # Absent
    /\ queue' = Append(queue, Note(k, known[k], api[k]))
    /\ UNCHANGED <<api, known, watching>>

Disconnect ==
    /\ watching = "up"
    /\ watching' = "down"
    /\ UNCHANGED <<api, known, queue>>

\* The relist: a notification for each difference, in any order; between the
\* changes of a watch the order is the API server's (InOrderInformers, on by
\* default in the client-go v0.36 of go.mod:12).
Relist ==
    /\ watching # "up"
    /\ watching' = "up"
    /\ known' = api
    /\ \E ks \in SetToSeqs({k \in Keys : known[k] # api[k]}) :
         queue' = queue \o
             [i \in DOMAIN ks |->
                IF api[ks[i]] = Absent
                THEN [type |-> "tombstone", key |-> ks[i], obj |-> known[ks[i]]]
                ELSE Note(ks[i], known[ks[i]], api[ks[i]])]
    /\ UNCHANGED api

\* The handlers take the next notification.
Deliver == queue # <<>> /\ queue' = Tail(queue) /\ UNCHANGED <<api, known, watching>>
=============================================================================
