----------------------------- MODULE MeshProofs -----------------------------
(***************************************************************************)
(* Proofs about Mesh: the variables keep their types, the routes of all    *)
(* nodes descend towards the origin as long as no copy outlasts the guard  *)
(* of a node it comes back to, and the latest announce wins; whatever the  *)
(* topologies, losses, outages, forgetful caches and the interleaving.     *)
(***************************************************************************)
EXTENDS Mesh, SequenceTheorems, FiniteSetTheorems, WellFoundedInduction, TLAPS

\* A broadcast changes nothing but socket buffers, and only adds the frame.
LEMMA TransmitAppends ==
    ASSUME NEW boxes \in [Nodes -> Seq(Frame)], NEW frame \in Frame, NEW topology,
           NEW before, Transmit(boxes, frame, topology, before)
    PROVE  /\ inbox' \in [Nodes -> Seq(Frame)]
           /\ \A n \in Nodes : inbox'[n] = boxes[n] \/ inbox'[n] = Append(boxes[n], frame)
BY DEF Transmit

LEMMA TransmitTypes ==
    ASSUME TypeOK, NEW frame, NEW topology, NEW before \in SUBSET Nodes,
           Transmit(inbox, frame, topology, before)
    PROVE  missed' \subseteq Nodes /\ faults' \in 0..MaxFaults
BY BoundsAssumption DEF Transmit, TypeOK

LEMMA FrameHops == \A f \in Frame : HopsOf(f) \in 0..HopLimit
BY BoundsAssumption DEF Frame, HopsOf

\* learn() leaves a table of the right type.
LEMMA LearnTypes ==
    ASSUME TypeOK, NEW n \in Nodes, NEW f \in Frame, Learn(n, f)
    PROVE  /\ route' \in [Nodes -> Route \cup {None}]
           /\ settling' \in [Nodes -> Settling \cup {None}]
           /\ lapsed' \subseteq Nodes
<1>1. HopsOf(f) \in 0..HopLimit /\ f.from \in Nodes
  BY FrameHops DEF Frame
<1>2. CASE LearnTaken(n, f)
  BY <1>1, <1>2 DEF LearnTaken, Commit, TypeOK, Route
<1>3. CASE LearnSibling(n, f)
  BY <1>3 DEF LearnSibling, TypeOK
<1>4. CASE LearnSettling(n, f)
  <2>1. [via |-> f.from, hops |-> HopsOf(f)] \in Settling
    BY <1>1 DEF Settling
  <2>2. settling' = [settling EXCEPT ![n] = [via |-> f.from, hops |-> HopsOf(f)]]
          \/ settling' = settling
    BY <1>4 DEF LearnSettling
  <2> QED
    BY <1>4, <2>1, <2>2 DEF LearnSettling, TypeOK
<1>5. CASE LearnStraggler(n, f)
  BY <1>5 DEF LearnStraggler, routeVars, TypeOK
<1> QED
  BY <1>2, <1>3, <1>4, <1>5 DEF Learn

\* Hear touches the buffers, the history of senders and the table only.
LEMMA HearTypes ==
    ASSUME TypeOK, NEW n \in Nodes, inbox[n] # <<>>, Hear(n, Head(inbox[n]))
    PROVE  /\ Head(inbox[n]) \in Frame
           /\ flood' \in 0..MaxFloods /\ links' \in Topologies
           /\ inbox' \in [Nodes -> Seq(Frame)]
           /\ dead' \subseteq Nodes
           /\ missed' \subseteq Nodes /\ forgot' \subseteq Nodes
           /\ clean' \in 0..(MaxFloods + 1) /\ faults' \in 0..MaxFaults
           /\ sources' \in [Nodes -> SUBSET Nodes]
           /\ route' \in [Nodes -> Route \cup {None}]
           /\ settling' \in [Nodes -> Settling \cup {None}]
           /\ lapsed' \subseteq Nodes
<1>1. Head(inbox[n]) \in Frame /\ Tail(inbox[n]) \in Seq(Frame)
  BY DEF TypeOK
<1>2. Head(inbox[n]).from \in Nodes
  BY <1>1 DEF Frame
<1>3. clean' \in 0..(MaxFloods + 1)
  BY BoundsAssumption DEF Hear, TypeOK
<1>4. /\ flood' = flood /\ links' = links /\ dead' = dead /\ missed' = missed
      /\ forgot' = forgot /\ faults' = faults
      /\ inbox' = [inbox EXCEPT ![n] = Tail(@)]
      /\ sources' = [sources EXCEPT ![n] = @ \cup {Head(inbox[n]).from}]
  BY DEF Hear, Read
<1>5. /\ route' \in [Nodes -> Route \cup {None}]
      /\ settling' \in [Nodes -> Settling \cup {None}]
      /\ lapsed' \subseteq Nodes
  BY <1>1, LearnTypes DEF Hear
<1> QED
  BY <1>1, <1>2, <1>3, <1>4, <1>5 DEF TypeOK

\* Every variable of Mesh keeps its type, for every set of nodes, every hop
\* limit and threshold, every topology, with loss, outages and forgetful caches.
THEOREM TypeCorrect == Spec => []TypeOK
<1>1. Init => TypeOK
  BY NodesAssumption, BoundsAssumption DEF Init, TypeOK
<1>2. TypeOK /\ [Next]_vars => TypeOK'
  <2> SUFFICES ASSUME TypeOK, [Next]_vars PROVE TypeOK'
    OBVIOUS
  <2>1. CASE Announce
    <3>1. [from |-> Origin, left |-> HopLimit] \in Frame
      BY NodesAssumption, BoundsAssumption DEF Frame
    <3>2. inbox' \in [Nodes -> Seq(Frame)]
      BY <2>1, <3>1, TransmitAppends DEF Announce, TypeOK
    <3>3. missed' \subseteq Nodes /\ faults' \in 0..MaxFaults
      BY <2>1, TransmitTypes DEF Announce
    <3> QED
      BY <2>1, <3>2, <3>3, NodesAssumption, BoundsAssumption DEF Announce, TypeOK
  <2>2. ASSUME NEW n \in Nodes, Receive(n)
        PROVE  TypeOK'
    <3> DEFINE f == Head(inbox[n])
    <3>0. inbox[n] # <<>> /\ f \in Frame
      BY <2>2 DEF Receive, TypeOK
    <3>1. CASE n = Origin /\ HearOwn(f)
      <4>1. inbox' \in [Nodes -> Seq(Frame)]
        BY <3>0, <3>1 DEF HearOwn, Read, TypeOK
      <4> QED
        BY <3>1, <4>1 DEF HearOwn, Read, floodVars, routeVars, TypeOK
    <3>2. CASE CountCopy(n, f)
      <4>1. waiting' \in [Nodes -> Relays \cup {None}]
        <5> DEFINE next == [waiting[n] EXCEPT !.heard = @ + 1]
        <5>1. /\ waiting[n] \in Relays /\ waiting[n].heard + 1 < Threshold
              /\ waiting' = [waiting EXCEPT ![n] = next]
          BY <3>2 DEF CountCopy, TypeOK
        <5>2. next \in Relays
          BY <5>1, BoundsAssumption DEF Relays
        <5> HIDE DEF next
        <5> QED
          BY <5>1, <5>2 DEF TypeOK
      <4> QED
        BY <3>0, <3>2, <4>1, HearTypes DEF CountCopy, TypeOK
    <3>3. CASE CancelRelay(n, f)
      BY <3>0, <3>3, HearTypes DEF CancelRelay, TypeOK
    <3>4. CASE HearAgain(n, f)
      BY <3>0, <3>4, HearTypes DEF HearAgain, floodVars, TypeOK
    <3>5. CASE HearLastHop(n, f)
      BY <3>0, <3>5, HearTypes DEF HearLastHop, TypeOK
    <3>6. CASE HearFirst(n, f)
      <4>1. [left |-> f.left - 1, heard |-> 0] \in Relays
        BY <3>0, <3>6, BoundsAssumption DEF HearFirst, Frame, Relays
      <4> QED
        BY <3>0, <3>6, <4>1, HearTypes DEF HearFirst, TypeOK
    <3> QED
      BY <2>2, <3>1, <3>2, <3>3, <3>4, <3>5, <3>6 DEF Receive
  <2>3. ASSUME NEW n \in Nodes, Relay(n)
        PROVE  TypeOK'
    <3>1. [from |-> n, left |-> waiting[n].left] \in Frame
      BY <2>3 DEF Relay, TypeOK, Relays, Frame
    <3>2. inbox' \in [Nodes -> Seq(Frame)]
      BY <2>3, <3>1, TransmitAppends DEF Relay, TypeOK
    <3>3. sent' \in [Nodes -> 0..2] /\ waiting' \in [Nodes -> Relays \cup {None}]
      BY <2>3 DEF Relay, TypeOK
    <3>4. missed' \subseteq Nodes /\ faults' \in 0..MaxFaults
      BY <2>3, TransmitTypes DEF Relay, TypeOK
    <3> QED
      BY <2>3, <3>2, <3>3, <3>4 DEF Relay, routeVars, TypeOK
  <2>4. ASSUME NEW n \in Nodes, Settle(n)
        PROVE  TypeOK'
    <3>1. settling[n] \in Settling
      BY <2>4 DEF Settle, TypeOK
    <3>2. [via |-> settling[n].via, hops |-> settling[n].hops, flood |-> flood] \in Route
      BY <3>1 DEF TypeOK, Route, Settling
    <3>3. /\ route' \in [Nodes -> Route \cup {None}]
          /\ settling' \in [Nodes -> Settling \cup {None}]
          /\ lapsed' \subseteq Nodes
      BY <2>4, <3>2 DEF Settle, Commit, TypeOK
    <3> QED
      BY <2>4, <3>3 DEF Settle, floodVars, history, TypeOK
  <2>5. ASSUME NEW n \in Nodes, Fail(n)
        PROVE  TypeOK'
    <3>1. waiting' \in [Nodes -> Relays \cup {None}]
      BY <2>5 DEF Fail, TypeOK
    <3>2. inbox' \in [Nodes -> Seq(Frame)]
      BY <2>5 DEF Fail, TypeOK
    <3>3. faults' \in 0..MaxFaults
      BY <2>5, BoundsAssumption DEF Fail, TypeOK
    <3> QED
      BY <2>5, <3>1, <3>2, <3>3 DEF Fail, routeVars, TypeOK
  <2>6. ASSUME NEW n \in Nodes, Recover(n)
        PROVE  TypeOK'
    BY <2>6 DEF Recover, floodVars, routeVars, history, TypeOK
  <2>7. CASE UNCHANGED vars
    BY <2>7 DEF vars, floodVars, routeVars, history, TypeOK
  <2>8. CASE IdlePoll
    BY <2>7, <2>8 DEF IdlePoll
  <2>9. ASSUME NEW n \in Nodes, GuardRunsOut(n)
        PROVE  TypeOK'
    BY <2>9 DEF GuardRunsOut, Lapse, floodVars, history, TypeOK
  <2>10. ASSUME NEW n \in Nodes, Forget(n)
         PROVE  TypeOK'
    <3>1. faults' \in 0..MaxFaults
      BY <2>10, BoundsAssumption DEF Forget, TypeOK
    <3> QED
      BY <2>10, <3>1 DEF Forget, routeVars, TypeOK
  <2>11. Next \/ UNCHANGED vars
    OBVIOUS
  <2> QED
    BY <2>1, <2>2, <2>3, <2>4, <2>5, <2>6, <2>7, <2>8, <2>9, <2>10, <2>11 DEF Next
<1> QED
  BY <1>1, <1>2, PTL DEF Spec

(***************************************************************************)
(* A node's table only ever gets nearer to the origin within a flood.      *)
(***************************************************************************)
Unchanged(m) == route'[m] = route[m] /\ settling'[m] = settling[m]

Rewritten(m) ==
    /\ route'[m] # None /\ settling'[m] = None
    /\ route'[m].flood = flood
    /\ route[m] # None /\ route[m].flood = flood => route'[m].hops <= route[m].hops
    /\ settling[m] # None => route'[m].hops <= settling[m].hops

Sharpened(m) ==
    /\ route'[m] = route[m]
    /\ settling'[m] # None
    /\ settling[m] # None => settling'[m].hops <= settling[m].hops

\* Routes are of the present flood or of an older one, and of the present one
\* where the guard has not run out.
GuardsDated ==
    /\ \A n \in Nodes : route[n] # None => route[n].flood <= flood
    /\ \A n \in Nodes \ lapsed : route[n] # None /\ route[n].flood = flood

Nearer(m, r) == Ahead(m, r) \/ (r.flood = flood /\ Serves(m, r.hops))

LEMMA Progress ==
    ASSUME TypeOK, TypeOK', flood' = flood, NEW m \in Nodes,
           route[m] # None => route[m].flood <= flood,
           Unchanged(m) \/ Rewritten(m) \/ Sharpened(m)
    PROVE  /\ \A hops \in Int : Serves(m, hops) => Serves(m, hops)'
           /\ \A r \in Route : r.flood <= flood /\ Nearer(m, r) => Nearer(m, r)'
<1>1. /\ flood \in Int
      /\ route[m] # None => route[m].hops \in Int /\ route[m].flood \in Int
      /\ route'[m] # None => route'[m].hops \in Int /\ route'[m].flood \in Int
      /\ settling[m] # None => settling[m].hops \in Int
      /\ settling'[m] # None => settling'[m].hops \in Int
  BY BoundsAssumption DEF TypeOK, Route, Settling
<1>2. \A hops \in Int : Serves(m, hops) => Serves(m, hops)'
  BY <1>1 DEF Serves, Unchanged, Rewritten, Sharpened
<1>3. ASSUME NEW r \in Route, r.flood <= flood, Nearer(m, r)
      PROVE  Nearer(m, r)'
  <2>1. r.flood \in Int /\ r.hops \in Int
    BY BoundsAssumption DEF Route
  <2>2. CASE r.flood = flood /\ Serves(m, r.hops)
    BY <1>2, <2>1, <2>2 DEF Nearer
  <2>3. CASE Ahead(m, r)
    BY <1>1, <2>1, <2>3, <1>3 DEF Ahead, Serves, Nearer, Unchanged, Rewritten, Sharpened
  <2> QED
    BY <1>3, <2>2, <2>3 DEF Nearer
<1> QED
  BY <1>2, <1>3

\* learn() moves a table forward, and after it the node serves what it passes on.
LEMMA LearnProgress ==
    ASSUME TypeOK, TypeOK', FloodServed, GuardsDated, flood' = flood,
           NEW n \in Nodes, NEW f \in Frame, Learn(n, f), ~LateCopy(n, f)
    PROVE  /\ \A m \in Nodes : Unchanged(m) \/ Rewritten(m) \/ Sharpened(m)
           /\ Serves(n, HopsOf(f) + 1)'
<1>1. HopsOf(f) \in 0..HopLimit /\ f.from \in Nodes
  BY FrameHops DEF Frame
<1>2. /\ flood \in Int /\ HopLimit \in Int
      /\ \A m \in Nodes : /\ route[m] # None => route[m].hops \in Int /\ route[m].flood \in Int
                          /\ settling[m] # None => settling[m].hops \in Int
  <2>1. flood \in 0..MaxFloods /\ flood \in Int /\ HopLimit \in Int
    BY BoundsAssumption DEF TypeOK
  <2>2. ASSUME NEW m \in Nodes, route[m] # None
        PROVE  route[m].hops \in Int /\ route[m].flood \in Int
    <3>1. route[m] \in Route
      BY <2>2 DEF TypeOK
    <3> QED
      BY <3>1, BoundsAssumption DEF Route
  <2>3. ASSUME NEW m \in Nodes, settling[m] # None
        PROVE  settling[m].hops \in Int
    <3>1. settling[m] \in Settling
      BY <2>3 DEF TypeOK
    <3> QED
      BY <3>1, BoundsAssumption DEF Settling
  <2> QED
    BY <2>1, <2>2, <2>3
<1>3. /\ settling[n] # None =>
            route[n] # None /\ settling[n].hops > route[n].hops /\ route[n].flood < flood
      /\ route[n] # None => route[n].flood <= flood
      /\ n \notin lapsed => route[n] # None /\ route[n].flood = flood
  <2>1. SettlingServed
    BY DEF FloodServed
  <2>2. settling[n] # None =>
            route[n] # None /\ settling[n].hops > route[n].hops /\ route[n].flood < flood
    BY <2>1 DEF SettlingServed
  <2> QED
    BY <2>2 DEF GuardsDated
<1>9. [via |-> f.from, hops |-> HopsOf(f), flood |-> flood] # None
      /\ [via |-> f.from, hops |-> HopsOf(f)] # None
  BY <1>1, NoneAssumption DEF TypeOK, Route, Settling
<1>4. \A m \in Nodes \ {n} : Unchanged(m)
  BY DEF Learn, LearnTaken, LearnSibling, LearnSettling, LearnStraggler, Commit,
         routeVars, Unchanged, TypeOK
<1>5. CASE LearnTaken(n, f)
  <2>1. route'[n] = [via |-> f.from, hops |-> HopsOf(f), flood |-> flood]
        /\ settling'[n] = None
    BY <1>5 DEF LearnTaken, Commit, TypeOK
  <2>2. route[n] # None => HopsOf(f) <= route[n].hops
    BY <1>5 DEF LearnTaken
  <2>3. Rewritten(n)
    BY <1>9, <1>1, <1>2, <1>3, <2>1, <2>2 DEF Rewritten
  <2>4. Serves(n, HopsOf(f) + 1)'
    BY <1>9, <1>1, <2>1 DEF Serves, HopsOf
  <2> QED
    BY <1>4, <2>3, <2>4
<1>6. CASE LearnSibling(n, f)
  <2>1. /\ n \notin lapsed /\ settling[n] = None /\ settling'[n] = None /\ route' = route
        /\ route[n].flood = flood
    BY <1>2, <1>3, <1>6 DEF LearnSibling, Guarded, TypeOK
  <2>2. Unchanged(n)
    BY <2>1 DEF Unchanged
  <2>3. Serves(n, HopsOf(f) + 1)'
    BY <1>1, <1>2, <1>3, <1>6, <2>1 DEF LearnSibling, Serves, HopsOf
  <2> QED
    BY <1>4, <2>2, <2>3
<1>7. CASE LearnSettling(n, f)
  <2>1. route' = route /\ route[n] # None
    BY <1>7 DEF LearnSettling
  <2>2. CASE /\ settling[n] # None => HopsOf(f) <= settling[n].hops
             /\ settling' = [settling EXCEPT ![n] = [via |-> f.from, hops |-> HopsOf(f)]]
    <3>1. settling'[n] = [via |-> f.from, hops |-> HopsOf(f)]
      BY <2>2 DEF TypeOK
    <3>2. Sharpened(n)
      BY <1>9, <2>1, <2>2, <3>1 DEF Sharpened
    <3>3. Serves(n, HopsOf(f) + 1)'
      BY <1>9, <1>1, <2>1, <3>1 DEF Serves, HopsOf
    <3> QED
      BY <1>4, <3>2, <3>3
  <2>3. CASE settling[n] # None /\ HopsOf(f) >= settling[n].hops /\ settling' = settling
    BY <1>1, <1>2, <1>4, <2>1, <2>3 DEF Unchanged, Serves, HopsOf
  <2> QED
    BY <1>7, <2>2, <2>3 DEF LearnSettling
<1>8. CASE LearnStraggler(n, f)
  BY <1>1, <1>2, <1>3, <1>4, <1>8
  DEF LearnStraggler, routeVars, Guarded, Unchanged, Serves, HopsOf
<1> QED
  BY <1>5, <1>6, <1>7, <1>8 DEF Learn

(***************************************************************************)
(* The part of the invariant about tables, as one predicate of a node.     *)
(***************************************************************************)
TableOK(m) ==
    /\ settling[m] # None =>
          /\ route[m] # None /\ settling[m].hops > route[m].hops
          /\ route[m].flood < flood
          /\ settling[m].via = Origin \/ Serves(settling[m].via, settling[m].hops)
    /\ route[m] # None =>
          /\ route[m].flood <= flood
          /\ \/ ~Clean(route[m])
             \/ route[m].via = Origin \/ Nearer(route[m].via, route[m])
    /\ m \notin lapsed => route[m] # None /\ route[m].flood = flood

LEMMA Tables ==
    SettlingServed /\ RoutesAhead /\ GuardsDated <=> \A m \in Nodes : TableOK(m)
BY DEF TableOK, SettlingServed, RoutesAhead, GuardsDated, Nearer

LEMMA TablesNext ==
    ASSUME \A n \in Nodes : TableOK(n)'
    PROVE  SettlingServed' /\ RoutesAhead'
BY DEF TableOK, SettlingServed, RoutesAhead, Nearer

\* A table that a step leaves alone stays sound while the others progress.
LEMMA TableStays ==
    ASSUME TypeOK, TypeOK', UNCHANGED <<flood, clean>>,
           NEW m \in Nodes, TableOK(m), Unchanged(m),
           m \in lapsed => m \in lapsed',
           \A k \in Nodes :
              /\ \A hops \in Int : Serves(k, hops) => Serves(k, hops)'
              /\ \A r \in Route : r.flood <= flood /\ Nearer(k, r) => Nearer(k, r)'
    PROVE  TableOK(m)'
<1>1. settling[m] # None => settling[m].via \in Nodes /\ settling[m].hops \in Int
  BY BoundsAssumption DEF TypeOK, Settling
<1>2. route[m] # None => route[m].via \in Nodes /\ route[m] \in Route
  BY DEF TypeOK, Route
<1>3. ASSUME settling'[m] # None
      PROVE  /\ route'[m] # None /\ settling'[m].hops > route'[m].hops
             /\ route'[m].flood < flood'
             /\ settling'[m].via = Origin \/ Serves(settling[m].via, settling[m].hops)'
  <2>1. settling[m] # None /\ settling'[m] = settling[m] /\ route'[m] = route[m]
    BY <1>3 DEF Unchanged
  <2>2. settling[m].via = Origin \/ Serves(settling[m].via, settling[m].hops)
    BY <2>1 DEF TableOK
  <2>3. ASSUME NEW v, NEW h, v = settling[m].via, h = settling[m].hops, v # Origin
        PROVE  Serves(v, h)'
    BY <1>1, <2>1, <2>2, <2>3
  <2>4. settling'[m].via = Origin \/ Serves(settling[m].via, settling[m].hops)'
    BY <2>1, <2>3 DEF Serves
  <2> QED
    BY <2>1, <2>4 DEF TableOK
<1>4. ASSUME route'[m] # None
      PROVE  /\ route'[m].flood <= flood'
             /\ route'[m].flood >= clean' =>
                   route'[m].via = Origin \/ Nearer(route[m].via, route[m])'
  <2>1. route[m] # None /\ route'[m] = route[m]
    BY <1>4 DEF Unchanged
  <2>2. /\ route[m].flood <= flood
        /\ Clean(route[m]) => route[m].via = Origin \/ Nearer(route[m].via, route[m])
    BY <2>1 DEF TableOK
  <2>3. ASSUME NEW v, NEW r, v = route[m].via, r = route[m], v # Origin, Clean(r)
        PROVE  Nearer(v, r)'
    BY <1>2, <2>1, <2>2, <2>3
  <2>4. route'[m].flood >= clean' =>
            route'[m].via = Origin \/ Nearer(route[m].via, route[m])'
    BY <2>1, <2>3 DEF Nearer, Ahead, Serves, Clean
  <2> QED
    BY <2>1, <2>2, <2>4
<1> QED
  BY <1>3, <1>4 DEF TableOK, Unchanged, Clean

\* A route committed in this flood, through a neighbour that serves it.
LEMMA TableCommitted ==
    ASSUME TypeOK, TypeOK', flood' = flood, NEW n \in Nodes, NEW via \in Nodes,
           NEW hops \in 0..HopLimit, Commit(n, via, hops),
           via = Origin \/ Serves(via, hops)'
    PROVE  TableOK(n)'
<1>1. /\ route'[n] = [via |-> via, hops |-> hops, flood |-> flood]
      /\ settling'[n] = None /\ n \notin lapsed'
  BY DEF Commit, TypeOK
<1>2. flood \in Int /\ [via |-> via, hops |-> hops, flood |-> flood] # None
  BY BoundsAssumption, NoneAssumption DEF TypeOK, Route
<1> QED
  BY <1>1, <1>2 DEF TableOK, Nearer

\* learn() keeps every table sound.
LEMMA LearnTables ==
    ASSUME TypeOK, TypeOK', FloodServed, GuardsDated, UNCHANGED <<flood, clean>>,
           NEW n \in Nodes, NEW f \in Frame, Learn(n, f), ~LateCopy(n, f),
           f.from = Origin \/ Serves(f.from, HopsOf(f))
    PROVE  /\ \A m \in Nodes : TableOK(m)'
           /\ \A m \in Nodes, hops \in Int : Serves(m, hops) => Serves(m, hops)'
<1>0. \A m \in Nodes : TableOK(m)
  BY Tables DEF FloodServed
<1>1. \A m \in Nodes :
          /\ \A hops \in Int : Serves(m, hops) => Serves(m, hops)'
          /\ \A r \in Route : r.flood <= flood /\ Nearer(m, r) => Nearer(m, r)'
  <2> TAKE m \in Nodes
  <2>1. Unchanged(m) \/ Rewritten(m) \/ Sharpened(m)
    BY LearnProgress
  <2>2. route[m] # None => route[m].flood <= flood
    BY <1>0 DEF TableOK
  <2> QED
    BY <2>1, <2>2, Progress
<1>2. HopsOf(f) \in 0..HopLimit /\ HopsOf(f) \in Int /\ f.from \in Nodes
  BY FrameHops, BoundsAssumption DEF Frame
<1>3. f.from = Origin \/ Serves(f.from, HopsOf(f))'
  BY <1>1, <1>2
<1>4. ASSUME NEW m \in Nodes \ {n}
      PROVE  TableOK(m)'
  <2>1. Unchanged(m) /\ (m \in lapsed => m \in lapsed')
    BY DEF Learn, LearnTaken, LearnSibling, LearnSettling, LearnStraggler, Commit,
           routeVars, Unchanged, TypeOK
  <2> QED
    BY <1>0, <1>1, <2>1, TableStays
<1>5. TableOK(n)'
  <2>1. CASE LearnTaken(n, f)
    BY <1>2, <1>3, <2>1, TableCommitted DEF LearnTaken
  <2>2. CASE LearnSibling(n, f)
    <3>1. settling[n] = None
      <4>1. route[n] # None => route[n].flood \in Int
        BY BoundsAssumption DEF TypeOK, Route
      <4> QED
        BY <1>0, <2>2, <4>1 DEF LearnSibling, Guarded, TableOK
    <3>2. Unchanged(n) /\ (n \in lapsed => n \in lapsed')
      BY <2>2, <3>1 DEF LearnSibling, Unchanged, TypeOK
    <3> QED
      BY <1>0, <1>1, <3>2, TableStays
  <2>3. CASE LearnSettling(n, f)
    <3>1. CASE UNCHANGED settling
      <4>1. Unchanged(n) /\ (n \in lapsed => n \in lapsed')
        BY <2>3, <3>1 DEF LearnSettling, Unchanged
      <4> QED
        BY <1>0, <1>1, <4>1, TableStays
    <3>2. CASE settling' = [settling EXCEPT ![n] = [via |-> f.from, hops |-> HopsOf(f)]]
      <4>1. settling'[n] = [via |-> f.from, hops |-> HopsOf(f)]
        BY <3>2 DEF TypeOK
      <4>2. /\ route' = route /\ lapsed' = lapsed
            /\ n \in lapsed /\ route[n] # None /\ HopsOf(f) > route[n].hops
            /\ route[n].flood # flood
        BY <2>3 DEF LearnSettling, Guarded, LateCopy
      <4>3. route[n].via \in Nodes /\ route[n] \in Route
        BY <4>2 DEF TypeOK, Route
      <4>4. /\ route[n].flood <= flood
            /\ Clean(route[n]) => route[n].via = Origin \/ Nearer(route[n].via, route[n])
        BY <1>0, <4>2 DEF TableOK
      <4>5. ASSUME NEW v, NEW r, v = route[n].via, r = route[n], v # Origin, Clean(r)
            PROVE  Nearer(v, r)'
        BY <1>1, <4>3, <4>4, <4>5
      <4>6. route'[n].flood >= clean' =>
                route'[n].via = Origin \/ Nearer(route[n].via, route[n])'
        BY <4>2, <4>5 DEF Nearer, Ahead, Serves, Clean
      <4>7. settling'[n].via = Origin \/ Serves(settling[n].via, settling[n].hops)'
        BY <1>3, <4>1 DEF Serves
      <4>8. settling'[n].hops > route'[n].hops
        BY <4>1, <4>2
      <4>9. route[n].flood < flood
        BY <4>2, <4>3, <4>4, BoundsAssumption DEF TypeOK, Route
      <4> QED
        BY <4>2, <4>4, <4>6, <4>7, <4>8, <4>9 DEF TableOK, Clean
    <3> QED
      BY <2>3, <3>1, <3>2 DEF LearnSettling
  <2>4. CASE LearnStraggler(n, f)
    <3>1. Unchanged(n) /\ (n \in lapsed => n \in lapsed')
      BY <2>4 DEF LearnStraggler, routeVars, Unchanged
    <3> QED
      BY <1>0, <1>1, <3>1, TableStays
  <2> QED
    BY <2>1, <2>2, <2>3, <2>4 DEF Learn
<1> QED
  BY <1>1, <1>4, <1>5

(***************************************************************************)
(* Frames and waiting relays stay served when tables progress.             *)
(***************************************************************************)
LEMMA FramesStay ==
    ASSUME TypeOK, FramesServed, NEW n \in Nodes, inbox[n] # <<>>,
           inbox' = [inbox EXCEPT ![n] = Tail(@)],
           \A m \in Nodes, hops \in Int : Serves(m, hops) => Serves(m, hops)'
    PROVE  FramesServed'
<1> SUFFICES ASSUME NEW m \in Nodes, NEW i \in 1..Len(inbox'[m])
             PROVE  inbox'[m][i].from = Origin
                      \/ Serves(inbox[m][i].from, HopsOf(inbox[m][i]))'
  BY DEF FramesServed
<1>1. PICK j \in 1..Len(inbox[m]) : inbox'[m][i] = inbox[m][j]
  <2>1. CASE m = n
    <3>1. inbox'[m] = Tail(inbox[m]) /\ inbox[m] \in Seq(Frame) /\ inbox[m] # <<>>
      BY <2>1 DEF TypeOK
    <3>2. PICK s \in Seq(Frame) : s = inbox[m] /\ s # <<>>
      BY <3>1
    <3>3. Len(Tail(s)) = Len(s) - 1 /\ \A k \in 1..Len(Tail(s)) : Tail(s)[k] = s[k + 1]
      BY <3>2, HeadTailProperties
    <3>4. PICK k \in 1..Len(Tail(s)) : k = i
      BY <3>1, <3>2
    <3>5. inbox'[m][i] = Tail(s)[k]
      BY <3>1, <3>2, <3>4
    <3>6. Tail(s)[k] = s[k + 1]
      BY <3>3
    <3>7. k + 1 \in 1..Len(s)
      <4>1. Len(s) \in Nat
        BY <3>2, LenProperties
      <4> QED
        BY <3>3, <3>4, <4>1
    <3> QED
      BY <3>2, <3>5, <3>6, <3>7
  <2>2. CASE m # n
    BY <2>2 DEF TypeOK
  <2> QED
    BY <2>1, <2>2
<1>2. inbox[m][j] \in Frame
  BY DEF TypeOK
<1>3. ASSUME NEW f \in Frame, f = inbox[m][j], f.from # Origin
      PROVE  Serves(f.from, HopsOf(f))'
  <2>1. f.from \in Nodes /\ HopsOf(f) \in Int
    BY FrameHops, BoundsAssumption DEF Frame
  <2> QED
    BY <1>3, <2>1 DEF FramesServed
<1> QED
  BY <1>1, <1>2, <1>3 DEF Serves, HopsOf

LEMMA WaitingStays ==
    ASSUME TypeOK, WaitingServed, NEW m \in Nodes, waiting'[m] # None,
           waiting[m] # None, waiting'[m].left = waiting[m].left,
           \A k \in Nodes, hops \in Int : Serves(k, hops) => Serves(k, hops)'
    PROVE  Serves(m, HopLimit - waiting[m].left)'
<1>1. HopLimit - waiting[m].left \in Int
  BY BoundsAssumption DEF TypeOK, Relays
<1>2. ASSUME NEW h, h = HopLimit - waiting[m].left
      PROVE  Serves(m, h)'
  BY <1>1, <1>2 DEF WaitingServed
<1> QED
  BY <1>2 DEF Serves

LEMMA HearInduct ==
    ASSUME TypeOK, TypeOK', FloodServed, GuardsDated, NEW n \in Nodes, inbox[n] # <<>>,
           NEW f \in Frame, f = Head(inbox[n]), Hear(n, f), ~LateCopy(n, f),
           \A m \in Nodes : waiting'[m] # None =>
               \/ waiting[m] # None /\ waiting'[m].left = waiting[m].left
               \/ m = n /\ waiting'[m].left = f.left - 1
    PROVE  FloodServed'
<1>1. /\ UNCHANGED <<flood, clean>> /\ dead' = dead /\ Learn(n, f)
      /\ inbox' = [inbox EXCEPT ![n] = Tail(@)]
  BY DEF Hear, Read
<1>2. f.from = Origin \/ Serves(f.from, HopsOf(f))
  <2>1. 1 \in 1..Len(inbox[n]) /\ f = inbox[n][1]
    BY DEF TypeOK
  <2> QED
    BY <2>1 DEF FloodServed, FramesServed
<1>3. /\ \A m \in Nodes : TableOK(m)'
      /\ \A m \in Nodes, hops \in Int : Serves(m, hops) => Serves(m, hops)'
  BY <1>1, <1>2, LearnTables
<1>4. FramesServed'
  BY <1>1, <1>3, FramesStay DEF FloodServed
<1>5. ASSUME NEW m \in Nodes, waiting'[m] # None
      PROVE  Serves(m, HopLimit - waiting[m].left)'
  <2>1. CASE waiting[m] # None /\ waiting'[m].left = waiting[m].left
    BY <1>3, <1>5, <2>1, WaitingStays DEF FloodServed
  <2>2. CASE m = n /\ waiting'[m].left = f.left - 1
    <3>1. Serves(n, HopsOf(f) + 1)'
      BY <1>1, LearnProgress
    <3>2. HopLimit - waiting'[m].left = HopsOf(f) + 1
      BY <2>2, BoundsAssumption DEF HopsOf, Frame
    <3> QED
      BY <2>2, <3>1, <3>2 DEF Serves
  <2> QED
    BY <1>5, <2>1, <2>2
<1>6. WaitingServed'
  BY <1>5 DEF WaitingServed
<1> QED
  BY <1>1, <1>3, <1>4, <1>6, TablesNext DEF FloodServed

(***************************************************************************)
(* Every step keeps the invariant.                                         *)
(***************************************************************************)
\* A flood finds all routes older than itself, and those learned since the last
\* late copy sound; if there was one in the flood before, there are none of these.
LEMMA AnnounceInduct ==
    ASSUME TypeOK, RoutesInduct, Announce, CleanFlood'
    PROVE  FloodServed'
<1>1. /\ flood' = flood + 1 /\ flood \in Int /\ clean \in Int
      /\ UNCHANGED <<waiting, route, settling, dead, clean>> /\ lapsed' = Nodes
      /\ \A n \in Nodes : inbox[n] = <<>> /\ waiting[n] = None /\ settling[n] = None
  BY BoundsAssumption DEF Announce, Quiet, TypeOK
<1>2. [from |-> Origin, left |-> HopLimit] \in Frame
  BY NodesAssumption, BoundsAssumption DEF Frame
<1>3. \A n \in Nodes : inbox'[n] = <<>>
                         \/ inbox'[n] = Append(<<>>, [from |-> Origin, left |-> HopLimit])
  <2> DEFINE frame == [from |-> Origin, left |-> HopLimit]
  <2>1. frame \in Frame /\ inbox \in [Nodes -> Seq(Frame)] /\ Transmit(inbox, frame, links', {})
    BY <1>2 DEF Announce, TypeOK
  <2> HIDE DEF frame
  <2>2. \A n \in Nodes : inbox'[n] = inbox[n] \/ inbox'[n] = Append(inbox[n], frame)
    BY <2>1, TransmitAppends
  <2> QED
    BY <1>1, <2>2 DEF frame
<1>4. FramesServed'
  <2> SUFFICES ASSUME NEW n \in Nodes, NEW i \in 1..Len(inbox'[n])
               PROVE  inbox'[n][i].from = Origin
    BY DEF FramesServed
  <2>1. inbox'[n] # <<>>
    OBVIOUS
  <2>2. inbox'[n] = <<[from |-> Origin, left |-> HopLimit]>>
    BY <1>3, <2>1
  <2> QED
    BY <2>2
<1>5. WaitingServed' /\ SettlingServed'
  BY <1>1 DEF WaitingServed, SettlingServed
<1>6. RoutesAhead'
  <2> SUFFICES ASSUME NEW n \in Nodes, route'[n] # None
               PROVE  route'[n].flood >= clean' =>
                          route'[n].via = Origin \/ Ahead(route[n].via, route[n])'
    BY DEF RoutesAhead, Clean
  <2>1. route[n] \in Route /\ route'[n] = route[n]
    BY <1>1 DEF TypeOK
  <2>2. route[n].flood <= flood /\ route[n].flood \in Int /\ route[n].via \in Nodes
    BY <1>1, <2>1 DEF RoutesInduct, Route
  <2>3. ASSUME Clean(route[n])
        PROVE  route[n].via = Origin \/ Ahead(route[n].via, route[n])
    <3>1. CleanFlood
      BY <1>1, <2>2, <2>3 DEF Clean, CleanFlood
    <3>2. FloodServed
      BY <3>1 DEF RoutesInduct
    <3> QED
      BY <1>1, <2>1, <2>2, <2>3, <3>2 DEF FloodServed, RoutesAhead, Serves, Ahead
  <2>4. route'[n].flood >= clean' => route'[n].via = Origin \/ Ahead(route[n].via, route[n])'
    BY <1>1, <2>3 DEF Ahead, Clean
  <2> QED
    BY <1>1, <2>1, <2>2, <2>4
<1> QED
  BY <1>1, <1>4, <1>5, <1>6 DEF FloodServed

LEMMA RelayInduct ==
    ASSUME TypeOK, FloodServed, NEW n \in Nodes, Relay(n)
    PROVE  FloodServed'
<1>1. /\ waiting[n] # None /\ waiting' = [waiting EXCEPT ![n] = None]
      /\ UNCHANGED <<flood, clean, dead, route, settling, lapsed>>
      /\ waiting[n] \in Relays
  BY DEF Relay, routeVars, TypeOK
<1>2. PICK g \in Frame : /\ g = [from |-> n, left |-> waiting[n].left]
                         /\ \A m \in Nodes : inbox'[m] = inbox[m]
                                              \/ inbox'[m] = Append(inbox[m], g)
  <2>1. [from |-> n, left |-> waiting[n].left] \in Frame
    BY <1>1 DEF Relays, Frame
  <2> QED
    BY <2>1, TransmitAppends DEF Relay, TypeOK
<1>3. Serves(g.from, HopsOf(g))
  BY <1>1, <1>2 DEF FloodServed, WaitingServed, HopsOf
<1>4. FramesServed'
  <2> SUFFICES ASSUME NEW m \in Nodes, NEW i \in 1..Len(inbox'[m])
               PROVE  inbox'[m][i].from = Origin
                        \/ Serves(inbox[m][i].from, HopsOf(inbox[m][i]))'
    BY DEF FramesServed
  <2>1. inbox'[m][i] = g \/ (i \in 1..Len(inbox[m]) /\ inbox'[m][i] = inbox[m][i])
    <3>1. CASE inbox'[m] = inbox[m]
      BY <3>1
    <3>2. CASE inbox'[m] = Append(inbox[m], g)
      <4>1. PICK s \in Seq(Frame) : s = inbox[m]
        BY DEF TypeOK
      <4>2. PICK t \in Seq(Frame) : t = Append(s, g)
        BY <4>1, <1>2, AppendProperties
      <4>3. /\ Len(t) = Len(s) + 1 /\ Len(s) \in Nat
            /\ t[Len(s) + 1] = g /\ \A k \in 1..Len(s) : t[k] = s[k]
        BY <4>1, <4>2, <1>2, AppendProperties, LenProperties
      <4>4. PICK k \in 1..Len(t) : k = i
        BY <3>2, <4>1, <4>2
      <4>5. t[k] = g \/ (k \in 1..Len(s) /\ t[k] = s[k])
        BY <4>3
      <4> QED
        BY <3>2, <4>1, <4>2, <4>4, <4>5
    <3> QED
      BY <1>2, <3>1, <3>2
  <2>2. PICK f : f = inbox'[m][i]
    OBVIOUS
  <2>3. f.from = Origin \/ Serves(f.from, HopsOf(f))
    BY <1>3, <2>1, <2>2 DEF FloodServed, FramesServed
  <2> QED
    BY <1>1, <2>2, <2>3 DEF Serves, HopsOf
<1>5. WaitingServed'
  BY <1>1 DEF FloodServed, WaitingServed, Serves, TypeOK
<1>6. SettlingServed' /\ RoutesAhead'
  BY <1>1 DEF FloodServed, SettlingServed, RoutesAhead, Serves, Ahead, Clean
<1> QED
  BY <1>1, <1>4, <1>5, <1>6 DEF FloodServed

LEMMA SettleInduct ==
    ASSUME TypeOK, TypeOK', FloodServed, GuardsDated, NEW n \in Nodes, Settle(n)
    PROVE  FloodServed'
<1>0. \A m \in Nodes : TableOK(m)
  BY Tables DEF FloodServed
<1>1. PICK via, hops : via = settling[n].via /\ hops = settling[n].hops
  OBVIOUS
<1>2. /\ settling[n] # None /\ Commit(n, via, hops)
      /\ via \in Nodes /\ hops \in 0..HopLimit /\ hops \in Int
      /\ UNCHANGED <<flood, clean, inbox, waiting, dead>>
  BY <1>1, BoundsAssumption DEF Settle, TypeOK, Settling, floodVars, history
<1>3. /\ route[n] # None /\ route[n].flood < flood
      /\ via = Origin \/ Serves(via, hops)
  BY <1>0, <1>1, <1>2 DEF TableOK
<1>4. /\ route'[n] = [via |-> via, hops |-> hops, flood |-> flood]
      /\ settling'[n] = None
      /\ \A m \in Nodes \ {n} : Unchanged(m) /\ (m \in lapsed => m \in lapsed')
  BY <1>2 DEF Commit, TypeOK, Unchanged
<1>5. Rewritten(n)
  <2>1. route'[n] # None
    BY <1>2, <1>4, NoneAssumption DEF TypeOK, Route
  <2>2. route[n].flood \in Int /\ flood \in Int
    BY <1>3, BoundsAssumption DEF TypeOK, Route
  <2> QED
    BY <1>1, <1>2, <1>3, <1>4, <2>1, <2>2 DEF Rewritten
<1>6. \A m \in Nodes :
          /\ \A h \in Int : Serves(m, h) => Serves(m, h)'
          /\ \A r \in Route : r.flood <= flood /\ Nearer(m, r) => Nearer(m, r)'
  <2> TAKE m \in Nodes
  <2>1. Unchanged(m) \/ Rewritten(m) \/ Sharpened(m)
    BY <1>4, <1>5
  <2>2. route[m] # None => route[m].flood <= flood
    BY <1>0 DEF TableOK
  <2> QED
    BY <1>2, <2>1, <2>2, Progress
<1>7. TableOK(n)'
  BY <1>2, <1>3, <1>6, TableCommitted
<1>8. ASSUME NEW m \in Nodes \ {n}
      PROVE  TableOK(m)'
  BY <1>0, <1>2, <1>4, <1>6, TableStays
<1>9. FramesServed'
  <2> SUFFICES ASSUME NEW m \in Nodes, NEW i \in 1..Len(inbox[m]),
                      inbox[m][i].from # Origin
               PROVE  Serves(inbox[m][i].from, HopsOf(inbox[m][i]))'
    BY <1>2 DEF FramesServed
  <2>1. PICK f \in Frame : f = inbox[m][i]
    BY DEF TypeOK
  <2>2. f.from \in Nodes /\ HopsOf(f) \in Int
    BY FrameHops, BoundsAssumption DEF Frame
  <2>3. Serves(f.from, HopsOf(f))
    BY <2>1 DEF FloodServed, FramesServed
  <2>4. Serves(f.from, HopsOf(f))'
    BY <1>6, <2>2, <2>3
  <2> QED
    BY <1>2, <2>1, <2>4 DEF Serves, HopsOf
<1>10. WaitingServed'
  <2> SUFFICES ASSUME NEW m \in Nodes, waiting'[m] # None
               PROVE  Serves(m, HopLimit - waiting[m].left)'
    BY DEF WaitingServed
  <2> QED
    BY <1>2, <1>6, WaitingStays DEF FloodServed
<1> QED
  BY <1>2, <1>7, <1>8, <1>9, <1>10, TablesNext DEF FloodServed

LEMMA ReceiveInduct ==
    ASSUME TypeOK, TypeOK', FloodServed, GuardsDated, NEW n \in Nodes, Receive(n),
           CleanFlood, CleanFlood'
    PROVE  FloodServed'
<1>1. PICK f \in Frame :
          /\ inbox[n] # <<>> /\ f = Head(inbox[n])
          /\ \/ n = Origin /\ HearOwn(f)
             \/ CountCopy(n, f) \/ CancelRelay(n, f) \/ HearAgain(n, f)
             \/ HearLastHop(n, f) \/ HearFirst(n, f)
  BY DEF Receive, TypeOK
<1>0. Hear(n, f) => ~LateCopy(n, f)
  <2>1. flood \in Int
    BY BoundsAssumption DEF TypeOK
  <2> QED
    BY <2>1 DEF Hear, Read, CleanFlood
<1>2. CASE n = Origin /\ HearOwn(f)
  <2>1. /\ UNCHANGED <<flood, clean, dead, waiting, route, settling, lapsed>>
        /\ inbox' = [inbox EXCEPT ![n] = Tail(@)]
    BY <1>2 DEF HearOwn, Read, floodVars, routeVars
  <2>2. \A m \in Nodes, hops \in Int : Serves(m, hops) => Serves(m, hops)'
    BY <2>1 DEF Serves
  <2>3. FramesServed'
    BY <1>1, <2>1, <2>2, FramesStay DEF FloodServed
  <2>4. WaitingServed' /\ SettlingServed' /\ RoutesAhead'
    BY <2>1 DEF FloodServed, WaitingServed, SettlingServed, RoutesAhead, Serves, Ahead, Clean
  <2> QED
    BY <2>1, <2>3, <2>4 DEF FloodServed
<1>3. CASE CountCopy(n, f)
  <2>1. \A m \in Nodes : waiting'[m] # None =>
            waiting[m] # None /\ waiting'[m].left = waiting[m].left
    BY <1>3 DEF CountCopy, TypeOK, Relays
  <2> QED
    BY <1>0, <1>1, <1>3, <2>1, HearInduct DEF CountCopy
<1>4. CASE CancelRelay(n, f)
  <2>1. \A m \in Nodes : waiting'[m] # None =>
            waiting[m] # None /\ waiting'[m].left = waiting[m].left
    BY <1>4 DEF CancelRelay, TypeOK
  <2> QED
    BY <1>0, <1>1, <1>4, <2>1, HearInduct DEF CancelRelay
<1>5. CASE HearAgain(n, f)
  BY <1>0, <1>1, <1>5, HearInduct DEF HearAgain, floodVars
<1>6. CASE HearLastHop(n, f)
  BY <1>0, <1>1, <1>6, HearInduct DEF HearLastHop
<1>7. CASE HearFirst(n, f)
  <2>1. \A m \in Nodes : waiting'[m] # None =>
            \/ waiting[m] # None /\ waiting'[m].left = waiting[m].left
            \/ m = n /\ waiting'[m].left = f.left - 1
    BY <1>7 DEF HearFirst, TypeOK
  <2> QED
    BY <1>0, <1>1, <1>7, <2>1, HearInduct DEF HearFirst
<1> QED
  BY <1>1, <1>2, <1>3, <1>4, <1>5, <1>6, <1>7

\* An outage empties a buffer, and may lose the relay that was being sent.
LEMMA FailInduct ==
    ASSUME TypeOK, FloodServed, NEW n \in Nodes, Fail(n)
    PROVE  FloodServed'
<1>1. /\ UNCHANGED <<flood, clean, route, settling, lapsed>>
      /\ inbox' = [inbox EXCEPT ![n] = <<>>]
      /\ \A m \in Nodes : waiting'[m] # None => waiting[m] # None /\ waiting'[m] = waiting[m]
  BY DEF Fail, routeVars, TypeOK
<1>2. FramesServed'
  <2> SUFFICES ASSUME NEW m \in Nodes, NEW i \in 1..Len(inbox'[m])
               PROVE  inbox'[m][i].from = Origin
                        \/ Serves(inbox[m][i].from, HopsOf(inbox[m][i]))'
    BY DEF FramesServed
  <2>1. inbox'[m] = inbox[m]
    BY <1>1 DEF TypeOK
  <2> QED
    BY <1>1, <2>1 DEF FloodServed, FramesServed, Serves, HopsOf
<1>3. WaitingServed'
  BY <1>1 DEF FloodServed, WaitingServed, Serves
<1>4. SettlingServed' /\ RoutesAhead'
  BY <1>1 DEF FloodServed, SettlingServed, RoutesAhead, Serves, Ahead, Clean
<1> QED
  BY <1>2, <1>3, <1>4 DEF FloodServed

\* Guards that run out, caches that forget and radios that come back change
\* nothing of it.
LEMMA SameServed ==
    ASSUME FloodServed, UNCHANGED <<flood, clean, inbox, waiting, route, settling>>
    PROVE  FloodServed'
BY DEF FloodServed, FramesServed, WaitingServed, SettlingServed, RoutesAhead, Serves, Ahead,
       HopsOf, Clean

\* If this flood has seen no late copy after the step, it had not before, unless
\* the step began the flood.
LEMMA CleanBefore ==
    ASSUME TypeOK, [Next]_vars, CleanFlood'
    PROVE  UNCHANGED clean /\ (Announce \/ (CleanFlood /\ UNCHANGED flood))
<1>1. flood \in Int
  BY BoundsAssumption DEF TypeOK
<1>2. CASE Announce
  BY <1>2 DEF Announce
<1>3. ASSUME NEW n \in Nodes, Receive(n)
      PROVE  UNCHANGED <<clean, flood>>
  <2> DEFINE f == Head(inbox[n])
  <2>1. HearOwn(f) \/ Hear(n, f)
    BY <1>3 DEF Receive, CountCopy, CancelRelay, HearAgain, HearLastHop, HearFirst
  <2> HIDE DEF f
  <2> QED
    BY <1>1, <2>1 DEF HearOwn, Hear, Read, CleanFlood
<1>4. ASSUME NEW n \in Nodes,
             Relay(n) \/ Settle(n) \/ GuardRunsOut(n) \/ Forget(n) \/ Fail(n) \/ Recover(n)
      PROVE  UNCHANGED <<clean, flood>>
  BY <1>4 DEF Relay, Settle, GuardRunsOut, Forget, Fail, Recover, history
<1>5. CASE IdlePoll \/ UNCHANGED vars
  BY <1>5 DEF IdlePoll, vars, history, CleanFlood
<1> QED
  BY <1>2, <1>3, <1>4, <1>5 DEF Next, CleanFlood

\* The guard of a table is running only if the table was written in this flood.
LEMMA GuardsStayDated ==
    ASSUME TypeOK, [Next]_vars, GuardsDated
    PROVE  GuardsDated'
<1>1. /\ flood \in Int /\ route \in [Nodes -> Route \cup {None}]
      /\ \A n \in Nodes : route[n] # None => route[n].flood \in Int
  BY BoundsAssumption DEF TypeOK, Route
<1>2. ASSUME UNCHANGED <<route, flood>>, lapsed \subseteq lapsed'
      PROVE  GuardsDated'
  BY <1>2 DEF GuardsDated
<1>3. ASSUME NEW n \in Nodes, NEW via \in Nodes, NEW hops \in 0..HopLimit,
             Commit(n, via, hops), UNCHANGED flood
      PROVE  GuardsDated'
  <2>1. [via |-> via, hops |-> hops, flood |-> flood] # None
    BY NoneAssumption DEF TypeOK, Route
  <2>2. /\ route'[n] = [via |-> via, hops |-> hops, flood |-> flood]
        /\ \A m \in Nodes \ {n} : route'[m] = route[m]
        /\ lapsed' = lapsed \ {n}
    BY <1>1, <1>3 DEF Commit
  <2> QED
    BY <1>1, <1>3, <2>1, <2>2 DEF GuardsDated
<1>4. CASE Announce
  BY <1>1, <1>4 DEF Announce, GuardsDated
<1>5. ASSUME NEW n \in Nodes, Receive(n)
      PROVE  GuardsDated'
  <2>1. PICK f \in Frame : HearOwn(f) \/ Hear(n, f)
    BY <1>5 DEF Receive, CountCopy, CancelRelay, HearAgain, HearLastHop, HearFirst, TypeOK
  <2>2. f.from \in Nodes /\ HopsOf(f) \in 0..HopLimit
    BY FrameHops DEF Frame
  <2>3. UNCHANGED flood
    BY <2>1 DEF HearOwn, Hear, Read
  <2>4. (UNCHANGED route /\ lapsed \subseteq lapsed') \/ LearnTaken(n, f)
    BY <2>1 DEF HearOwn, Hear, Learn, LearnSibling, LearnSettling, LearnStraggler, routeVars
  <2> QED
    BY <1>2, <1>3, <2>2, <2>3, <2>4 DEF LearnTaken
<1>6. ASSUME NEW n \in Nodes, Settle(n)
      PROVE  GuardsDated'
  <2>1. settling[n] \in Settling /\ UNCHANGED flood
        /\ Commit(n, settling[n].via, settling[n].hops)
    BY <1>6 DEF Settle, TypeOK
  <2> QED
    BY <1>3, <2>1 DEF Settling
<1>7. ASSUME NEW n \in Nodes,
             Relay(n) \/ GuardRunsOut(n) \/ Forget(n) \/ Fail(n) \/ Recover(n)
      PROVE  GuardsDated'
  BY <1>2, <1>7 DEF Relay, GuardRunsOut, Lapse, Forget, Fail, Recover, routeVars
<1>8. CASE IdlePoll \/ UNCHANGED vars
  BY <1>2, <1>8 DEF IdlePoll, vars, routeVars
<1> QED
  BY <1>4, <1>5, <1>6, <1>7, <1>8 DEF Next

\* A late copy marks the next flood, and floods are only counted up.
LEMMA StillAhead ==
    ASSUME NEW c \in Int, NEW d \in Int, NEW f \in Int, NEW g \in Int, c <= f + 1,
           d = c \/ (d = f + 1 /\ g = f), g = f \/ g = f + 1
    PROVE  d <= g + 1
OBVIOUS

LEMMA StepInduct ==
    ASSUME TypeOK, TypeOK', RoutesInduct, [Next]_vars
    PROVE  RoutesInduct'
<1>0. GuardsDated
  BY DEF RoutesInduct, GuardsDated
<1>1. GuardsDated'
  BY <1>0, GuardsStayDated
<1>2. clean' <= flood' + 1
  <2>1. flood \in Int /\ clean \in Int /\ flood' \in Int /\ clean' \in Int
        /\ clean <= flood + 1
    BY BoundsAssumption DEF TypeOK, RoutesInduct
  <2>2. ASSUME NEW n \in Nodes, Receive(n)
        PROVE  flood' = flood /\ (clean' = clean \/ clean' = flood + 1)
    BY <2>2 DEF Receive, CountCopy, CancelRelay, HearAgain, HearLastHop, HearFirst, HearOwn,
                Hear, Read
  <2>3. ASSUME NEW n \in Nodes,
               Relay(n) \/ Settle(n) \/ GuardRunsOut(n) \/ Forget(n) \/ Fail(n) \/ Recover(n)
        PROVE  flood' = flood /\ clean' = clean
    BY <2>3 DEF Relay, Settle, GuardRunsOut, Forget, Fail, Recover, history
  <2>4. Announce => flood' = flood + 1 /\ clean' = clean
    BY DEF Announce
  <2>5. IdlePoll \/ UNCHANGED vars => flood' = flood /\ clean' = clean
    BY DEF IdlePoll, vars, history
  <2>6. /\ clean' = clean \/ (clean' = flood + 1 /\ flood' = flood)
        /\ flood' = flood \/ flood' = flood + 1
    BY <2>2, <2>3, <2>4, <2>5 DEF Next
  <2> QED
    BY <2>1, <2>6, StillAhead
<1>3. ASSUME CleanFlood'
      PROVE  FloodServed'
  <2>1. CASE Announce
    BY <1>3, <2>1, AnnounceInduct
  <2>2. CASE ~Announce
    <3>1. FloodServed /\ CleanFlood /\ UNCHANGED <<flood, clean>>
      BY <1>3, <2>2, CleanBefore DEF RoutesInduct
    <3>2. ASSUME NEW n \in Nodes, Receive(n)
          PROVE  FloodServed'
      BY <1>0, <1>3, <3>1, <3>2, ReceiveInduct
    <3>3. ASSUME NEW n \in Nodes, Relay(n)
          PROVE  FloodServed'
      BY <3>1, <3>3, RelayInduct
    <3>4. ASSUME NEW n \in Nodes, Settle(n)
          PROVE  FloodServed'
      BY <1>0, <3>1, <3>4, SettleInduct
    <3>5. ASSUME NEW n \in Nodes, Fail(n)
          PROVE  FloodServed'
      BY <3>1, <3>5, FailInduct
    <3>6. ASSUME NEW n \in Nodes, GuardRunsOut(n) \/ Forget(n) \/ Recover(n)
          PROVE  FloodServed'
      BY <3>1, <3>6, SameServed DEF GuardRunsOut, Lapse, Forget, Recover, floodVars, routeVars
    <3>7. CASE IdlePoll \/ UNCHANGED vars
      BY <3>1, <3>7, SameServed DEF IdlePoll, vars, floodVars, routeVars
    <3> QED
      BY <2>2, <3>2, <3>3, <3>4, <3>5, <3>6, <3>7 DEF Next
  <2> QED
    BY <2>1, <2>2
<1> QED
  BY <1>1, <1>2, <1>3 DEF RoutesInduct, GuardsDated

\* In every flood, until it sees a late copy, each frame, waiting relay and
\* candidate, and each route learned since the last late copy, traces back to a
\* node nearer to the origin, or newer; and FLOOD_GUARD, wherever it runs, protects
\* a route of this flood.
THEOREM RoutesInductive == Spec => []RoutesInduct
<1>1. Init => RoutesInduct
  BY DEF Init, RoutesInduct, FloodServed, FramesServed, WaitingServed, SettlingServed,
         RoutesAhead
<1> QED
  BY <1>1, StepInduct, TypeCorrect, PTL DEF Spec

\* For every mesh, topology, hop limit, loss, interleaving, outage and forgetful
\* cache: the next hop of every route learned since a copy last outlasted the guard
\* is the origin, is settling, or has a newer or a strictly shorter route.
THEOREM RoutesDescend == Spec => []DescendingRoutes
<1>1. TypeOK /\ RoutesInduct => DescendingRoutes
  <2> SUFFICES ASSUME TypeOK, RoutesInduct, NEW n \in Nodes, route[n] # None,
                      Clean(route[n]), route[n].via # Origin
               PROVE  settling[route[n].via] # None \/ Ahead(route[n].via, route[n])
    BY DEF DescendingRoutes
  <2>1. route[n] \in Route /\ flood \in Int /\ clean \in Int
    BY BoundsAssumption DEF TypeOK
  <2>2. CleanFlood
    BY <2>1, BoundsAssumption DEF RoutesInduct, Clean, CleanFlood, Route
  <2> QED
    BY <2>1, <2>2 DEF RoutesInduct, FloodServed, RoutesAhead, Serves, Ahead
<1> QED
  BY <1>1, TypeCorrect, RoutesInductive, PTL

(***************************************************************************)
(* No loops                                                                *)
(***************************************************************************)
\* A set of numbers that is not empty has a least.
LEMMA Least ==
    ASSUME NEW T, T \subseteq Nat, T # {}
    PROVE  \E n \in T : \A k \in T : n <= k
<1> DEFINE upTo == {0..n : n \in T}
           less == StrictSubsetOrdering(Nat)
<1>1. upTo \subseteq FiniteSubsetsOf(Nat)
  <2>1. \A n \in T : (0..n) \subseteq Nat /\ IsFiniteSet(0..n)
    BY FS_Interval
  <2> QED
    BY <2>1 DEF FiniteSubsetsOf
<1>2. IsWellFoundedOn(less, FiniteSubsetsOf(Nat))
  BY FS_StrictSubsetOrderingWellFounded
<1>3. PICK x \in upTo : \A y \in upTo : <<y, x>> \notin less
  <2>1. upTo # {}
    OBVIOUS
  <2> HIDE DEF upTo, less
  <2> QED
    BY <1>1, <1>2, <2>1, WFMin
<1>4. PICK n \in T : x = 0..n
  OBVIOUS
<1>5. ASSUME NEW k \in T, ~(n <= k) PROVE FALSE
  <2>1. n \in Nat /\ k \in Nat /\ k < n
    BY <1>5
  <2>2. (0..k) \subseteq (0..n) /\ n \in 0..n /\ n \notin 0..k
    BY <2>1
  <2>3. 0..k \in SUBSET Nat /\ 0..n \in SUBSET Nat /\ 0..k # 0..n
    BY <2>1, <2>2
  <2>4. <<0..k, 0..n>> \in less
    BY <2>2, <2>3 DEF StrictSubsetOrdering
  <2>5. 0..k \in upTo
    OBVIOUS
  <2> QED
    BY <2>4, <2>5, <1>3, <1>4
<1> QED
  BY <1>5

\* The origin has no route to itself.
LEMMA OriginStays == TypeOK /\ OriginKeepsNone /\ [Next]_vars => OriginKeepsNone'
<1> SUFFICES ASSUME TypeOK, OriginKeepsNone, [Next]_vars PROVE OriginKeepsNone'
  OBVIOUS
<1>1. /\ route[Origin] = None /\ settling[Origin] = None
      /\ route \in [Nodes -> Route \cup {None}] /\ settling \in [Nodes -> Settling \cup {None}]
      /\ Origin \in Nodes
  BY NodesAssumption DEF TypeOK, OriginKeepsNone
<1>2. ASSUME UNCHANGED <<route, settling>> PROVE OriginKeepsNone'
  BY <1>1, <1>2 DEF OriginKeepsNone
<1>3. ASSUME NEW n \in Nodes, NEW f, n # Origin, Learn(n, f) PROVE OriginKeepsNone'
  BY <1>1, <1>3 DEF Learn, LearnTaken, LearnSibling, LearnSettling, LearnStraggler, Commit,
     routeVars, OriginKeepsNone
<1>4. ASSUME NEW n \in Nodes, Receive(n) PROVE OriginKeepsNone'
  <2> DEFINE f == Head(inbox[n])
  <2>1. HearOwn(f) \/ Hear(n, f)
    BY <1>4 DEF Receive, CountCopy, CancelRelay, HearAgain, HearLastHop, HearFirst
  <2> HIDE DEF f
  <2> QED
    BY <1>2, <1>3, <2>1 DEF HearOwn, Hear, routeVars
<1>5. ASSUME NEW n \in Nodes, Settle(n) PROVE OriginKeepsNone'
  BY <1>1, <1>5 DEF Settle, Commit, OriginKeepsNone
<1>6. CASE Announce
  BY <1>2, <1>6 DEF Announce
<1>7. ASSUME NEW n \in Nodes,
             Relay(n) \/ GuardRunsOut(n) \/ Forget(n) \/ Fail(n) \/ Recover(n)
      PROVE  OriginKeepsNone'
  BY <1>2, <1>7 DEF Relay, GuardRunsOut, Lapse, Forget, Fail, Recover, routeVars
<1>8. CASE IdlePoll \/ UNCHANGED vars
  BY <1>2, <1>8 DEF IdlePoll, vars, routeVars
<1> QED
  BY <1>4, <1>5, <1>6, <1>7, <1>8 DEF Next

\* Of some nodes with routes, one has the newest, and of those the shortest.
LEMMA SomeNodeIsFirst ==
    ASSUME TypeOK, NEW S \in SUBSET Nodes, S # {}, \A n \in S : route[n] # None
    PROVE  \E n \in S : \A m \in S : ~Ahead(m, route[n])
<1>1. \A n \in S : route[n].flood \in 0..MaxFloods /\ route[n].hops \in Nat
  BY BoundsAssumption DEF TypeOK, Route
<1> DEFINE age(n) == MaxFloods - route[n].flood
           newest(n) == \A m \in S : age(n) <= age(m)
<1>2. PICK n \in S : newest(n)
  <2>1. {age(n) : n \in S} \subseteq Nat
    BY <1>1, BoundsAssumption
  <2>2. {age(n) : n \in S} # {}
    OBVIOUS
  <2>3. PICK a \in {age(n) : n \in S} : \A b \in {age(n) : n \in S} : a <= b
    BY <2>1, <2>2, Least
  <2> QED
    BY <2>3
<1>3. PICK k \in S : newest(k) /\ \A m \in S : newest(m) => route[k].hops <= route[m].hops
  <2> DEFINE Lengths == {route[m].hops : m \in {j \in S : newest(j)}}
  <2>1. Lengths \subseteq Nat /\ Lengths # {}
    BY <1>1, <1>2
  <2>2. PICK a \in Lengths : \A b \in Lengths : a <= b
    BY <2>1, Least
  <2> HIDE DEF newest
  <2> QED
    BY <2>2
<1>4. ASSUME NEW m \in S, Ahead(m, route[k]) PROVE FALSE
  <2>1. age(k) <= age(m)
    BY <1>3
  <2>2. ~(route[m].flood > route[k].flood)
    BY <1>1, <2>1, BoundsAssumption
  <2>3. route[m].flood = route[k].flood /\ route[m].hops < route[k].hops
    BY <1>4, <2>2 DEF Ahead
  <2>4. newest(m)
    BY <1>3, <2>3
  <2>5. route[k].hops <= route[m].hops
    BY <1>3, <2>4
  <2> QED
    BY <1>1, <2>3, <2>5
<1> QED
  BY <1>4

\* The node with the newest and shortest route of a loop would have a next hop
\* that is ahead of it; it has, if any route of the loop is clean.
LEMMA ClosedLoopsAreOld ==
    ASSUME TypeOK, OriginKeepsNone, DescendingRoutes
    PROVE  LoopFree
<1> SUFFICES ASSUME NEW S \in SUBSET Nodes, \A n \in S : route[n] # None /\ settling[n] = None,
                    NEW k \in S, Clean(route[k]), \A n \in S : route[n].via \in S
             PROVE  FALSE
  BY DEF LoopFree
<1>1. PICK n \in S : \A m \in S : ~Ahead(m, route[n])
  BY SomeNodeIsFirst
<1>2. route[n].via \in S /\ route[n].via # Origin
  BY DEF OriginKeepsNone
<1>3. Clean(route[n])
  <2>1. ~(route[k].flood > route[n].flood)
    BY <1>1 DEF Ahead
  <2>2. route[k] \in Route /\ route[n] \in Route /\ clean \in 0..(MaxFloods + 1)
    BY DEF TypeOK
  <2>3. route[k].flood \in Int /\ route[n].flood \in Int /\ clean \in Int
    BY <2>2, BoundsAssumption DEF Route
  <2> QED
    BY <2>1, <2>3 DEF Clean
<1>4. Ahead(route[n].via, route[n])
  BY <1>2, <1>3 DEF DescendingRoutes
<1> QED
  BY <1>1, <1>2, <1>4

\* For every mesh, topology, hop limit, loss, interleaving, outage and forgetful
\* cache: packets that follow settled routes do not go round in circles, unless all
\* routes of the circle are no newer than a copy that outlasted the guard.
THEOREM RoutesLeadOut == Spec => []LoopFree
<1>1. Init => OriginKeepsNone
  BY NodesAssumption DEF Init, OriginKeepsNone
<1>2. Spec => []OriginKeepsNone
  BY <1>1, OriginStays, TypeCorrect, PTL DEF Spec
<1>3. TypeOK /\ OriginKeepsNone /\ DescendingRoutes => LoopFree
  BY ClosedLoopsAreOld
<1> QED
  BY <1>2, <1>3, TypeCorrect, RoutesDescend, PTL

(***************************************************************************)
(* The latest announce wins                                                *)
(***************************************************************************)
\* n routes by this flood, or is about to.
Latest(n) == route[n] # None /\ (route[n].flood = flood \/ settling[n] # None)

TakenLatest == \A n \in Taken \ {Origin} : Latest(n)

\* A commit writes a route of this flood.
LEMMA Commits ==
    ASSUME TypeOK, NEW n \in Nodes, NEW via \in Nodes, NEW hops \in 0..HopLimit,
           Commit(n, via, hops), UNCHANGED flood
    PROVE  Latest(n)' /\ \A m \in Nodes \ {n} : route'[m] = route[m] /\ settling'[m] = settling[m]
<1>1. /\ route' = [route EXCEPT ![n] = [via |-> via, hops |-> hops, flood |-> flood]]
      /\ settling' = [settling EXCEPT ![n] = None]
      /\ route \in [Nodes -> Route \cup {None}] /\ settling \in [Nodes -> Settling \cup {None}]
  BY DEF Commit, TypeOK
<1>2. [via |-> via, hops |-> hops, flood |-> flood] # None
  BY NoneAssumption DEF TypeOK, Route
<1>3. route'[n] = [via |-> via, hops |-> hops, flood |-> flood]
  BY <1>1
<1>4. Latest(n)'
  BY <1>2, <1>3 DEF Latest
<1> QED
  BY <1>1, <1>4

\* Whatever a copy does to the table, the node routes by this flood or settles.
LEMMA LearnsLatest ==
    ASSUME TypeOK, GuardsDated, NEW n \in Nodes, NEW f \in Frame, Learn(n, f), UNCHANGED flood
    PROVE  Latest(n)' /\ \A m \in Nodes \ {n} : route'[m] = route[m] /\ settling'[m] = settling[m]
<1>1. /\ route \in [Nodes -> Route \cup {None}] /\ settling \in [Nodes -> Settling \cup {None}]
      /\ f.from \in Nodes /\ HopsOf(f) \in 0..HopLimit /\ flood \in 0..MaxFloods
  BY FrameHops DEF TypeOK, Frame
<1>2. Guarded(n) => route[n].flood = flood
  BY DEF GuardsDated, Guarded
<1>3. CASE LearnTaken(n, f)
  BY <1>1, <1>3, Commits DEF LearnTaken
<1>4. CASE LearnSibling(n, f)
  <2>1. route' = route /\ route[n] # None /\ Guarded(n)
        /\ settling' = [settling EXCEPT ![n] = None]
    BY <1>4 DEF LearnSibling
  <2> QED
    BY <1>1, <1>2, <2>1 DEF Latest
<1>5. CASE LearnSettling(n, f)
  <2>1. CASE settling' = [settling EXCEPT ![n] = [via |-> f.from, hops |-> HopsOf(f)]]
    <3>1. settling'[n] = [via |-> f.from, hops |-> HopsOf(f)]
      BY <1>1, <2>1
    <3>2. settling'[n] # None
      BY <1>1, <3>1, NoneAssumption DEF Settling
    <3>3. route' = route /\ route[n] # None
      BY <1>5 DEF LearnSettling
    <3>4. Latest(n)'
      BY <3>2, <3>3 DEF Latest
    <3> QED
      BY <1>1, <2>1, <3>3, <3>4
  <2>2. CASE settling[n] # None /\ UNCHANGED settling
    BY <1>5, <2>2 DEF LearnSettling, Latest
  <2> QED
    BY <1>5, <2>1, <2>2 DEF LearnSettling
<1>6. CASE LearnStraggler(n, f)
  BY <1>2, <1>6 DEF LearnStraggler, routeVars, Latest
<1> QED
  BY <1>3, <1>4, <1>5, <1>6 DEF Learn

LEMMA LatestStays ==
    TypeOK /\ RoutesInduct /\ TakenLatest /\ [Next]_vars => TakenLatest'
<1> SUFFICES ASSUME TypeOK, RoutesInduct, TakenLatest, [Next]_vars PROVE TakenLatest'
  OBVIOUS
<1>0. Taken \subseteq Nodes /\ GuardsDated
  BY DEF TypeOK, Taken, RoutesInduct, GuardsDated
<1>1. CASE Announce
  BY <1>1 DEF Announce, TakenLatest, Taken
<1>2. ASSUME NEW n \in Nodes, Receive(n)
      PROVE  TakenLatest'
  <2> DEFINE f == Head(inbox[n])
  <2>1. f \in Frame
    BY <1>2, HeadTailProperties DEF Receive, TypeOK
  <2>2. CASE HearOwn(f)
    BY <1>0, <2>2 DEF HearOwn, Read, floodVars, routeVars, TakenLatest, Taken, Latest
  <2>3. CASE CountCopy(n, f) \/ CancelRelay(n, f) \/ HearAgain(n, f)
             \/ HearLastHop(n, f) \/ HearFirst(n, f)
    <3>1. Learn(n, f) /\ UNCHANGED <<flood, forgot>> /\ handled' \subseteq handled \cup {n}
      BY <2>3 DEF CountCopy, CancelRelay, HearAgain, HearLastHop, HearFirst, Hear,
                  Read, floodVars
    <3>2. Latest(n)' /\ \A m \in Nodes \ {n} : route'[m] = route[m] /\ settling'[m] = settling[m]
      BY <1>0, <2>1, <3>1, LearnsLatest
    <3> QED
      BY <1>0, <3>1, <3>2 DEF TakenLatest, Taken, Latest
  <2> QED
    BY <1>2, <2>2, <2>3 DEF Receive
<1>3. ASSUME NEW n \in Nodes, Settle(n)
      PROVE  TakenLatest'
  <2>1. /\ settling[n] \in Settling /\ UNCHANGED <<flood, handled, forgot>>
        /\ Commit(n, settling[n].via, settling[n].hops)
    BY <1>3 DEF Settle, floodVars, history, TypeOK
  <2>2. Latest(n)' /\ \A m \in Nodes \ {n} : route'[m] = route[m] /\ settling'[m] = settling[m]
    BY <2>1, Commits DEF Settling
  <2> QED
    BY <1>0, <2>1, <2>2 DEF TakenLatest, Taken, Latest
<1>4. ASSUME NEW n \in Nodes,
             Relay(n) \/ GuardRunsOut(n) \/ Forget(n) \/ Fail(n) \/ Recover(n)
      PROVE  TakenLatest'
  <2>1. UNCHANGED <<flood, route, settling>> /\ Taken' = Taken
    BY <1>4 DEF Relay, GuardRunsOut, Lapse, Forget, Fail, Recover, routeVars, floodVars,
                history, Taken
  <2> QED
    BY <1>0, <2>1 DEF TakenLatest, Latest
<1>5. CASE IdlePoll \/ UNCHANGED vars
  BY <1>0, <1>5 DEF IdlePoll, vars, floodVars, routeVars, history, TakenLatest, Taken, Latest
<1> QED
  BY <1>1, <1>2, <1>3, <1>4, <1>5 DEF Next

\* What a flood has reached routes by it, or is about to.
LEMMA LatestInductive == Spec => []TakenLatest
<1>1. Init => TakenLatest
  BY DEF Init, TakenLatest, Taken
<1> QED
  BY <1>1, LatestStays, TypeCorrect, RoutesInductive, PTL DEF Spec

\* For every mesh, topology, hop limit, loss, interleaving, outage, late copy and
\* forgetful cache: routes.py's table records the latest announce heard, not the
\* best ever, on every node that took a flood when it has died down.
THEOREM LatestWins == Spec => []LatestAnnounceWins
<1>1. TypeOK /\ TakenLatest => LatestAnnounceWins
  BY DEF TypeOK, TakenLatest, Taken, Latest, LatestAnnounceWins, Quiet
<1> QED
  BY <1>1, LatestInductive, TypeCorrect, PTL

\* For every mesh, topology, hop limit, loss, interleaving, outage and forgetful
\* cache: when a flood without a late copy has died down, no circle of routes goes
\* through a node that took it, whatever circles earlier floods have left.  One
\* announce heals what a late copy broke, wherever it gets.
FloodHeals ==
    Quiet /\ CleanFlood =>
        \A S \in SUBSET Nodes :
            (\A n \in S : route[n] # None) /\ S \cap Taken # {}
                => \E n \in S : route[n].via \notin S

THEOREM FloodsHeal == Spec => []FloodHeals
<1>1. ASSUME OriginKeepsNone, LoopFree, LatestAnnounceWins, TypeOK
      PROVE  FloodHeals
  <2> SUFFICES ASSUME Quiet, CleanFlood, NEW S \in SUBSET Nodes, \A n \in S : route[n] # None,
                      NEW k \in S, k \in Taken
               PROVE  \E n \in S : route[n].via \notin S
    BY DEF FloodHeals
  <2>1. k # Origin
    BY <1>1 DEF OriginKeepsNone
  <2>2. route[k].flood = flood
    BY <1>1, <2>1 DEF LatestAnnounceWins
  <2>3. Clean(route[k])
    BY <2>2 DEF Clean, CleanFlood
  <2>4. \A n \in S : settling[n] = None
    BY DEF Quiet
  <2> QED
    BY <1>1, <2>3, <2>4 DEF LoopFree
<1>2. Init => OriginKeepsNone
  BY NodesAssumption DEF Init, OriginKeepsNone
<1>3. Spec => []OriginKeepsNone
  BY <1>2, OriginStays, TypeCorrect, PTL DEF Spec
<1> QED
  BY <1>1, <1>3, TypeCorrect, RoutesLeadOut, LatestWins, PTL
=============================================================================
