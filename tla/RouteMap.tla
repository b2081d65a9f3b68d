------------------------------ MODULE RouteMap ------------------------------
(***************************************************************************)
(* What a route table promises to those who ask it for a next hop: one map *)
(* from nodes to routes, and what of it is saved.  Memory and disk, least  *)
(* recently used entries, promotion, the write buffer and warming are no   *)
(* part of it.  Routes implements it.                                      *)
(***************************************************************************)
CONSTANTS
    Nodes,
    Ways,           \* a next hop with its distance and its signal
    Worse(_, _),    \* a way is farther than another
    None

VARIABLES
    route,      \* what a look-up finds
    saved,      \* what a look-up would find after a crash
    held        \* the way that waits to replace the route

vars == <<route, saved, held>>

\* What may be saved while the map changes: of each node its old or its new
\* route, or what was saved of it before.
Saves == \A n \in Nodes : saved'[n] \in {saved[n], route[n], route'[n]}

\* The way of an announce becomes the route, and nothing waits any more.
Take(n) ==
    /\ \E w \in Ways : route' = [route EXCEPT ![n] = w]
    /\ held' = [held EXCEPT ![n] = None]
    /\ Saves

\* A farther one waits.
Hold(n) ==
    /\ route[n] # None
    /\ \E w \in Ways : Worse(w, route[n]) /\ held' = [held EXCEPT ![n] = w]
    /\ UNCHANGED route
    /\ Saves

\* An equal one, that is not taken, still shows that the route stands.
Confirm(n) ==
    /\ route[n] # None
    /\ held' = [held EXCEPT ![n] = None]
    /\ UNCHANGED route
    /\ Saves

\* Those that have waited long enough are taken; what was held is gone.
Settle ==
    /\ \E S \in SUBSET {n \in Nodes : held[n] # None} :
          /\ route' = [n \in Nodes |-> IF n \in S THEN held[n] ELSE route[n]]
          /\ held'  = [n \in Nodes |-> IF n \in S THEN None ELSE held[n]]
    /\ Saves

\* Nodes that were not heard for too long are forgotten, or only what was
\* saved of them.
Forget ==
    /\ \A n \in Nodes : route'[n] \in {route[n], None} /\ saved'[n] \in {saved[n], None}
    /\ \A n \in Nodes : route'[n] # route[n] => saved'[n] = None
    /\ route' \in [Nodes -> Ways \cup {None}] /\ saved' \in [Nodes -> Ways \cup {None}]
    /\ UNCHANGED held

\* The process stops: cleanly, or with what was saved before.
Close == saved' = route /\ UNCHANGED route /\ held' = [n \in Nodes |-> None]

Crash == route' = saved /\ UNCHANGED saved /\ held' = [n \in Nodes |-> None]

Init ==
    /\ route = [n \in Nodes |-> None]
    /\ saved = [n \in Nodes |-> None]
    /\ held  = [n \in Nodes |-> None]

Next ==
    \/ \E n \in Nodes : Take(n) \/ Hold(n) \/ Confirm(n)
    \/ Settle
    \/ Forget
    \/ Close
    \/ Crash

Spec == Init /\ [][Next]_vars
=============================================================================
