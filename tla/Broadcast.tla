----------------------------- MODULE Broadcast ------------------------------
(***************************************************************************)
(* What flooding promises of one announce after the other: the nodes that  *)
(* take it grow by one at a time, each getting it from a node in range     *)
(* that has taken it, and none takes it again unless it has forgotten it.  *)
(* Mesh implements it.                                                     *)
(***************************************************************************)
EXTENDS Integers

CONSTANTS Nodes, Origin, Topologies

VARIABLES
    flood,      \* announces that were made
    links,      \* <<m, n>> if n hears m
    reached,    \* the nodes that have taken the latest announce
    holding     \* those of them that still know it when they hear it again

vars == <<flood, links, reached, holding>>

Announce ==
    /\ flood' = flood + 1
    /\ links' \in Topologies
    /\ reached' = {Origin}
    /\ holding' = {Origin}

Reach(n) ==
    /\ n \notin holding
    /\ \E m \in reached : <<m, n>> \in links
    /\ reached' = reached \cup {n}
    /\ holding' = holding \cup {n}
    /\ UNCHANGED <<flood, links>>

Forget(n) ==
    /\ n \in holding \ {Origin}
    /\ holding' = holding \ {n}
    /\ UNCHANGED <<flood, links, reached>>

Init == flood = 0 /\ links \in Topologies /\ reached = {} /\ holding = {}

Next == Announce \/ \E n \in Nodes : Reach(n) \/ Forget(n)

Spec == Init /\ [][Next]_vars
=============================================================================
