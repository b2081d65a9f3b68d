---------------------------- MODULE OriginTable -----------------------------
(***************************************************************************)
(* beachedmesh/routes.py, reduced to what the announces of one originator  *)
(* make of the tables: what learn does to the route and to the candidate,  *)
(* by hops alone and with the windows of time as a set.  Mesh has such a   *)
(* table on every node; RoutesProofs shows that Routes, the whole table of *)
(* one node, is one of these for each originator.                          *)
(***************************************************************************)
EXTENDS Integers

CONSTANTS
    HopLimit,   \* the hop limit every node is started with
    None        \* no route, no candidate

VARIABLES
    flood,      \* announces the origin has made
    route,      \* route[n]: the route to the origin in n's table
    settling,   \* settling[n]: the candidate in RouteTable._pending
    lapsed      \* nodes whose FLOOD_GUARD has run out since their route was written

routeVars == <<route, settling, lapsed>>

(***************************************************************************)
(* RouteTable.learn, for the copy f of this flood's announce.  Of two      *)
(* equally long ways either may have the stronger signal.                  *)
(***************************************************************************)
HopsOf(f) == HopLimit - f.left

\* The guard counts from the whole second in which the route was written, so that
\* it lasts two to three seconds, and time passes in the middle of a flood too:
\* three relays that each leave a read of the radio late outlast it, or two and a
\* client of the control socket.
Lapse(n) ==
    /\ n \notin lapsed
    /\ lapsed' = lapsed \cup {n}
    /\ UNCHANGED <<route, settling>>

\* Mistake: no FLOOD_GUARD.
GuardedNever(n) == FALSE

Guarded(n) == n \notin lapsed

\* Mistake: a copy that is taken does not end the settle.
CommitKeepsSettling(n, via, hops) ==
    /\ route'  = [route EXCEPT ![n] = [via |-> via, hops |-> hops, flood |-> flood]]
    /\ lapsed' = lapsed \ {n}
    /\ UNCHANGED settling

Commit(n, via, hops) ==
    /\ route'  = [route EXCEPT ![n] = [via |-> via, hops |-> hops, flood |-> flood]]
    /\ settling' = [settling EXCEPT ![n] = None]
    /\ lapsed' = lapsed \ {n}

\* Mistake: the latest copy is taken, not the shortest of the latest announce.
LearnTakenAny(n, f) == Commit(n, f.from, HopsOf(f))

\* "new", "better" or "refreshed"
LearnTaken(n, f) ==
    /\ route[n] # None => HopsOf(f) <= route[n].hops
    /\ Commit(n, f.from, HopsOf(f))

\* "kept", and no longer settling: an equal-hop sibling, not stronger
LearnSibling(n, f) ==
    /\ route[n] # None /\ HopsOf(f) = route[n].hops
    /\ f.from # route[n].via /\ Guarded(n)
    /\ settling' = [settling EXCEPT ![n] = None]
    /\ UNCHANGED <<route, lapsed>>

\* Mistake: the best copy ever heard is kept.
LearnSettlingNever(n, f) ==
    /\ route[n] # None /\ HopsOf(f) > route[n].hops /\ ~Guarded(n)
    /\ UNCHANGED routeVars

\* "settling": a worse copy opens or sharpens a settle, or changes nothing
LearnSettling(n, f) ==
    /\ route[n] # None /\ HopsOf(f) > route[n].hops /\ ~Guarded(n)
    /\ \/ /\ settling[n] # None => HopsOf(f) <= settling[n].hops
          /\ settling' = [settling EXCEPT ![n] = [via |-> f.from, hops |-> HopsOf(f)]]
       \/ /\ settling[n] # None /\ HopsOf(f) >= settling[n].hops
          /\ UNCHANGED settling
    /\ UNCHANGED <<route, lapsed>>

\* "kept": a worse copy within the guard
LearnStraggler(n, f) ==
    /\ route[n] # None /\ HopsOf(f) > route[n].hops /\ Guarded(n)
    /\ UNCHANGED routeVars

Learn(n, f) ==
    LearnTaken(n, f) \/ LearnSibling(n, f) \/ LearnSettling(n, f) \/ LearnStraggler(n, f)
=============================================================================
