------------------------------ MODULE RoutesMC ------------------------------
(***************************************************************************)
(* Values for the constants of Routes in TLC's runs.                       *)
(***************************************************************************)
EXTENDS Routes

CONSTANTS v1, v2

\* Everything that two neighbours may bring: a direct copy, and copies one and
\* two hops long that tie, win or lose on signal.
SettleOffers ==
    {[via |-> v1, hops |-> 0, rssi |-> 1, keyed |-> TRUE]} \cup
    [via : {v1, v2}, hops : {1}, rssi : {0, 1}, keyed : {FALSE}] \cup
    [via : {v2}, hops : {2}, rssi : {0, 1}, keyed : {FALSE}]

\* One neighbour; direct and relayed copies, verified or not.
StoreOffers == [via : {v1}, hops : {0, 1}, rssi : {0}, keyed : BOOLEAN]

\* One kind of copy, for the runs about recency alone.
PlainOffers == [via : {v1}, hops : {0}, rssi : {0}, keyed : {TRUE}]

\* The other nodes are interchangeable.
NodeSymmetry == Permutations(Nodes)
=============================================================================
