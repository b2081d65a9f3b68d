-------------------------------- MODULE Mesh --------------------------------
(***************************************************************************)
(* Nodes that flood one node's announces and learn routes from the copies: *)
(* beachedmesh/node.py on every node, with the flooder and the route table *)
(* reduced to what one originator's announces make of them.                *)
(*                                                                         *)
(* The origin announces once per flood; a flood ends before the next one   *)
(* begins, because announces are hours apart (ANNOUNCE_INTERVAL).  Between *)
(* floods nodes move: each flood has its own topology.  Contention delays, *)
(* reads and clients that hold up a relay, and the wait to settle, are any *)
(* interleaving; FLOOD_GUARD may run out on any node at any point of it,   *)
(* and a seen cache may forget the announce.                               *)
(***************************************************************************)
EXTENDS OriginTable, FiniteSets, Sequences, SequencesExt

CONSTANTS
    Nodes,
    Origin,         \* the node whose announces are followed
    Threshold,      \* RELAY_THRESHOLD
    Topologies,     \* each a set of pairs: <<m, n>> if n hears m
    \* Bounds of the model:
    MaxFloods,      \* announces the origin makes
    MaxFaults       \* frames that miss receivers, radios that fail, caches that forget

Frame  == [from : Nodes, left : 0..HopLimit]
Relays == [left : 0..HopLimit, heard : 0..(Threshold - 1)]
Route  == [via : Nodes, hops : 0..HopLimit, flood : 0..MaxFloods]
Settling == [via : Nodes, hops : 0..HopLimit]

ASSUME NodesAssumption == IsFiniteSet(Nodes) /\ Origin \in Nodes
ASSUME LinksAssumption ==
    \A T \in Topologies : T \subseteq Nodes \X Nodes /\ \A n \in Nodes : <<n, n>> \notin T
ASSUME BoundsAssumption ==
    /\ HopLimit \in Nat /\ Threshold \in Nat \ {0}
    /\ MaxFloods \in Nat /\ MaxFaults \in Nat
ASSUME NoneAssumption == None \notin Relays \cup Route \cup Settling

VARIABLES
    links,      \* the topology during this flood
    inbox,      \* inbox[n]: frames in the receive buffer of n's socket
    handled,    \* nodes whose seen cache holds this flood's announce
    waiting,    \* waiting[n]: the relay in Flooder.pending
    dead,       \* nodes whose radio has failed
    \* History variables: they guard no action but by their bounds.
    owes,       \* nodes that scheduled a relay in this flood and did not fail
    sent,       \* relays n has transmitted in this flood
    sources,    \* nodes n has heard this flood's announce from
    missed,     \* nodes that a frame of this flood should have reached but did not
    forgot,     \* nodes whose seen cache has forgotten this flood's announce
    clean,      \* the first flood that began after the last late copy
    faults

floodVars == <<handled, waiting, owes, sent>>

history == <<missed, forgot, clean, faults>>

vars == <<flood, links, inbox, dead, floodVars, routeVars, sources, history>>

\* Nodes that have taken this flood's announce.
Taken == handled \cup forgot

Quiet == \A n \in Nodes : inbox[n] = <<>> /\ waiting[n] = None /\ settling[n] = None

\* One broadcast frame, into the socket buffer of every radio that gets it.
Transmit(boxes, frame, topology, before) ==
    LET near == {n \in Nodes : <<frame.from, n>> \in topology}
    IN  \E got \in SUBSET (near \ dead) :
          /\ IF got = near \ dead THEN UNCHANGED faults
             ELSE faults < MaxFaults /\ faults' = faults + 1
          /\ inbox' = [n \in Nodes |-> IF n \in got THEN Append(boxes[n], frame) ELSE boxes[n]]
          /\ missed' = before \cup (near \ got)

(***************************************************************************)
(* Node.send_announce at the origin                                        *)
(***************************************************************************)
\* Mistake: the announce has the packet id of the one before.
AnnounceSameId ==
    /\ flood < MaxFloods
    /\ Quiet /\ Origin \notin dead
    /\ flood' = flood + 1
    /\ links' \in Topologies
    /\ Transmit(inbox, [from |-> Origin, left |-> HopLimit], links', {})
    /\ handled' = handled \cup {Origin}
    /\ lapsed'  = Nodes
    /\ owes'    = {}
    /\ sent'    = [n \in Nodes |-> 0]
    /\ sources' = [n \in Nodes |-> {}]
    /\ forgot'  = {}
    /\ UNCHANGED <<waiting, route, settling, dead, clean>>

Announce ==
    /\ flood < MaxFloods
    /\ Quiet /\ Origin \notin dead
    /\ flood' = flood + 1
    /\ links' \in Topologies
    /\ Transmit(inbox, [from |-> Origin, left |-> HopLimit], links', {})
    /\ handled' = {Origin}
    /\ lapsed'  = Nodes
    /\ owes'    = {}
    /\ sent'    = [n \in Nodes |-> 0]
    /\ sources' = [n \in Nodes |-> {}]
    /\ forgot'  = {}
    /\ UNCHANGED <<waiting, route, settling, dead, clean>>

(***************************************************************************)
(* Node._handle: the flooder classifies the frame, the table learns.       *)
(***************************************************************************)
Read(n, f) ==
    /\ inbox' = [inbox EXCEPT ![n] = Tail(@)]
    /\ UNCHANGED <<flood, links, dead, missed, forgot, faults>>

\* "own"
HearOwn(f) ==
    /\ Read(Origin, f)
    /\ UNCHANGED <<floodVars, routeVars, sources, clean>>

\* A worse copy of the flood that wrote the route, when the guard has run out.
LateCopy(n, f) ==
    /\ route[n] # None /\ route[n].flood = flood /\ HopsOf(f) > route[n].hops
    /\ n \in lapsed

Hear(n, f) ==
    /\ n # Origin
    /\ Read(n, f)
    /\ sources' = [sources EXCEPT ![n] = @ \cup {f.from}]
    /\ Learn(n, f)
    /\ clean' = IF LateCopy(n, f) THEN flood + 1 ELSE clean

\* "duplicate" and "cancelled", while a relay waits
CountCopy(n, f) ==
    /\ Hear(n, f)
    /\ waiting[n] # None /\ waiting[n].heard + 1 < Threshold
    /\ waiting' = [waiting EXCEPT ![n].heard = @ + 1]
    /\ UNCHANGED <<handled, owes, sent>>

CancelRelay(n, f) ==
    /\ Hear(n, f)
    /\ waiting[n] # None /\ waiting[n].heard + 1 >= Threshold
    /\ waiting' = [waiting EXCEPT ![n] = None]
    /\ UNCHANGED <<handled, owes, sent>>

\* "duplicate", of a packet already dealt with
HearAgain(n, f) ==
    /\ Hear(n, f)
    /\ waiting[n] = None /\ n \in handled
    /\ UNCHANGED floodVars

\* "no-hops"
HearLastHop(n, f) ==
    /\ Hear(n, f)
    /\ waiting[n] = None /\ n \notin handled /\ f.left = 0
    /\ handled' = handled \cup {n}
    /\ UNCHANGED <<waiting, owes, sent>>

\* Mistake: a frame without hops left is relayed too.
HearFirstAnyHops(n, f) ==
    /\ Hear(n, f)
    /\ waiting[n] = None /\ n \notin handled
    /\ handled' = handled \cup {n}
    /\ waiting' = [waiting EXCEPT ![n] = [left |-> f.left - 1, heard |-> 0]]
    /\ owes' = owes \cup {n}
    /\ UNCHANGED sent

\* Mistake: a packet that is scheduled is not put into the seen cache.
HearFirstUnseen(n, f) ==
    /\ Hear(n, f)
    /\ waiting[n] = None /\ n \notin handled /\ f.left > 0
    /\ waiting' = [waiting EXCEPT ![n] = [left |-> f.left - 1, heard |-> 0]]
    /\ owes' = owes \cup {n}
    /\ UNCHANGED <<handled, sent>>

\* Mistake: the copy that brought the packet counts towards the threshold.
HearFirstCountsOriginal(n, f) ==
    /\ Hear(n, f)
    /\ waiting[n] = None /\ n \notin handled /\ f.left > 0
    /\ handled' = handled \cup {n}
    /\ IF Threshold = 1 THEN UNCHANGED waiting
       ELSE waiting' = [waiting EXCEPT ![n] = [left |-> f.left - 1, heard |-> 1]]
    /\ owes' = owes \cup {n}
    /\ UNCHANGED sent

\* "scheduled"
HearFirst(n, f) ==
    /\ Hear(n, f)
    /\ waiting[n] = None /\ n \notin handled /\ f.left > 0
    /\ handled' = handled \cup {n}
    /\ waiting' = [waiting EXCEPT ![n] = [left |-> f.left - 1, heard |-> 0]]
    /\ owes' = owes \cup {n}
    /\ UNCHANGED sent

(***************************************************************************)
(* Node.poll: relays whose timer expired, candidates that have settled     *)
(***************************************************************************)
\* Mistake: a relay that is sent stays in the table.
RelayKept(n) ==
    /\ n \notin dead
    /\ waiting[n] # None
    /\ Transmit(inbox, [from |-> n, left |-> waiting[n].left], links, missed)
    /\ sent' = [sent EXCEPT ![n] = IF @ < 2 THEN @ + 1 ELSE @]
    /\ UNCHANGED <<flood, links, waiting, handled, owes, routeVars, dead, sources, forgot, clean>>

Relay(n) ==
    /\ n \notin dead
    /\ waiting[n] # None
    /\ Transmit(inbox, [from |-> n, left |-> waiting[n].left], links, missed)
    /\ waiting' = [waiting EXCEPT ![n] = None]
    /\ sent' = [sent EXCEPT ![n] = IF @ < 2 THEN @ + 1 ELSE @]
    /\ UNCHANGED <<flood, links, handled, owes, routeVars, dead, sources, forgot, clean>>

Settle(n) ==
    /\ n \notin dead
    /\ settling[n] # None
    /\ Commit(n, settling[n].via, settling[n].hops)
    /\ UNCHANGED <<flood, links, inbox, floodVars, dead, sources, history>>

(***************************************************************************)
(* Time passes: what runs out does so, in effect, before a frame is read.   *)
(***************************************************************************)
GuardRunsOut(n) ==
    /\ inbox[n] # <<>>
    /\ Lapse(n)
    /\ UNCHANGED <<flood, links, inbox, floodVars, dead, sources, history>>

\* SeenCache: the key is older than the ttl, as after a long outage, or newer ones
\* have pushed it out.  Its own packets a node knows by their source.
Forget(n) ==
    /\ inbox[n] # <<>>
    /\ n \in handled \ {Origin}
    /\ faults < MaxFaults /\ faults' = faults + 1
    /\ handled' = handled \ {n}
    /\ forgot' = forgot \cup {n}
    /\ UNCHANGED <<flood, links, inbox, waiting, owes, sent, routeVars, dead, sources,
                   missed, clean>>

(***************************************************************************)
(* The main loop of bin/beachedmesh when a radio fails: the socket and     *)
(* what it had received are gone, and so is the relay if it was being sent *)
(* when the radio failed.  The loop waits for the adapter with everything  *)
(* else as it was: a relay that was not due yet is sent when it is back.   *)
(***************************************************************************)
Fail(n) ==
    /\ faults < MaxFaults /\ n \notin dead
    /\ dead' = dead \cup {n}
    /\ faults' = faults + 1
    /\ inbox' = [inbox EXCEPT ![n] = <<>>]
    /\ missed' = IF inbox[n] = <<>> THEN missed ELSE missed \cup {n}
    /\ waiting' \in {waiting, [waiting EXCEPT ![n] = None]}
    /\ owes' = owes \ {n}
    /\ UNCHANGED <<flood, links, handled, sent, routeVars, sources, forgot, clean>>

Recover(n) ==
    /\ n \in dead
    /\ dead' = dead \ {n}
    /\ UNCHANGED <<flood, links, inbox, floodVars, routeVars, sources, history>>

\* A turn of the loops with nothing to read and nothing due.
IdlePoll == Quiet /\ dead = {} /\ UNCHANGED vars

(***************************************************************************)
(* Specification                                                           *)
(***************************************************************************)
Init ==
    /\ flood = 0
    /\ links \in Topologies
    /\ inbox = [n \in Nodes |-> <<>>]
    /\ handled = {}
    /\ waiting = [n \in Nodes |-> None]
    /\ route = [n \in Nodes |-> None]
    /\ settling = [n \in Nodes |-> None]
    /\ lapsed = Nodes
    /\ dead = {}
    /\ owes = {}
    /\ sent = [n \in Nodes |-> 0]
    /\ sources = [n \in Nodes |-> {}]
    /\ missed = {} /\ forgot = {}
    /\ clean = 0
    /\ faults = 0

Receive(n) ==
    /\ inbox[n] # <<>>
    /\ LET f == Head(inbox[n])
       IN  \/ n = Origin /\ HearOwn(f)
           \/ CountCopy(n, f)
           \/ CancelRelay(n, f)
           \/ HearAgain(n, f)
           \/ HearLastHop(n, f)
           \/ HearFirst(n, f)

Next ==
    \/ Announce
    \/ IdlePoll
    \/ \E n \in Nodes : Receive(n) \/ Relay(n) \/ Settle(n)
    \/ \E n \in Nodes : GuardRunsOut(n) \/ Forget(n) \/ Fail(n) \/ Recover(n)

\* The poll loops keep turning, and an adapter that failed comes back.  Of this no
\* more is needed than that it does not stop on all nodes at once.
Fairness == WF_vars(\E n \in Nodes : Receive(n) \/ Relay(n) \/ Settle(n) \/ Recover(n))

Spec == Init /\ [][Next]_vars /\ Fairness

(***************************************************************************)
(* Properties                                                              *)
(***************************************************************************)

\* Every variable has its type.
TypeOK ==
    /\ flood \in 0..MaxFloods /\ links \in Topologies
    /\ inbox \in [Nodes -> Seq(Frame)]
    /\ handled \subseteq Nodes /\ owes \subseteq Nodes
    /\ lapsed \subseteq Nodes /\ dead \subseteq Nodes
    /\ waiting \in [Nodes -> Relays \cup {None}]
    /\ route \in [Nodes -> Route \cup {None}]
    /\ settling \in [Nodes -> Settling \cup {None}]
    /\ sent \in [Nodes -> 0..2]
    /\ sources \in [Nodes -> SUBSET Nodes]
    /\ missed \subseteq Nodes /\ forgot \subseteq Nodes
    /\ clean \in 0..(MaxFloods + 1)
    /\ faults \in 0..MaxFaults

\* m is a fresher or shorter way to Origin than a route r through m.
Ahead(m, r) ==
    /\ route[m] # None
    /\ \/ route[m].flood > r.flood
       \/ route[m].flood = r.flood /\ route[m].hops < r.hops

\* No node has heard a late copy since the announce that a route, or this flood,
\* is of.
Clean(r) == r.flood >= clean

CleanFlood == flood >= clean

\* routes.py's "hand the packet to whoever told me": the next hop of a route that
\* was learned since the last late copy has itself a route that is newer, or as
\* new and strictly shorter, unless it is the origin or is still settling on one.
\* Nothing but a copy that outlasts FLOOD_GUARD breaks this: no loss, no movement,
\* no outage, no order of the copies, no seen cache that forgets.
DescendingRoutes ==
    \A n \in Nodes : route[n] # None /\ Clean(route[n]) /\ route[n].via # Origin =>
        settling[route[n].via] # None \/ Ahead(route[n].via, route[n])

\* No routing loop: among nodes that have a route and are not settling, some
\* next hop leads out.  DESIGN.md's "the announce travels the reverse of the
\* path data will take" holds across floods whatever moved in between.  Only
\* routes that are no newer than a late copy may all go round in a circle: one
\* flood without late copies that reaches any node of a loop opens it.
LoopFree ==
    \A S \in SUBSET Nodes :
        /\ \A n \in S : route[n] # None /\ settling[n] = None
        /\ \E n \in S : Clean(route[n])
        => \E n \in S : route[n].via \notin S

\* routes.py's "a route records the latest announce heard, not the best ever":
\* when a flood has died down, every node that took it routes by it, whatever was
\* lost, late or failed.
LatestAnnounceWins ==
    Quiet => \A n \in Taken \ {Origin} : route[n] # None /\ route[n].flood = flood

\* Duplicate suppression and counter cancellation together: a node relays an
\* announce once, unless its seen cache forgets it; and as long as none has, a
\* node that scheduled a relay waits, has transmitted, or has heard Threshold
\* nodes beyond the one that brought the packet.
RelayedOrCovered ==
    /\ \A n \in Nodes \ forgot : sent[n] <= 1
    /\ forgot = {} => \A n \in owes : sent[n] = 0 /\ waiting[n] = None
                                        => Cardinality(sources[n]) > Threshold

\* "Higher is more redundant and more robust to loss": when a flood has died
\* down, a node that did not take it although no frame to it was lost is in range
\* only of nodes that had no hop left for it or whose radio failed, and of nodes
\* that cancelled.  Who sends is heard, so that whoever is left out was left out by
\* the hop limit or the counter.
LeftOutByCancelling ==
    Quiet => \A n \in Nodes \ (Taken \cup missed), m \in Taken : <<m, n>> \in links =>
        /\ m # Origin /\ sent[m] = 0
        /\ m \in owes /\ forgot = {} => Cardinality(sources[m]) > Threshold

\* Every flood dies down: suppression and the hop limit leave no packet
\* circulating, and no relay or candidate waits for ever.
FloodEnds == []<>Quiet

Broadcasts == INSTANCE Broadcast WITH reached <- Taken, holding <- handled

\* Relays, cancelled relays, duplicates, losses and outages on all nodes make one
\* broadcast: a node takes an announce from a node in range that took it before,
\* and not again while its seen cache holds it; nothing of one flood is left for
\* the next.
ImplementsBroadcast == Broadcasts!Spec

(***************************************************************************)
(* What ties every copy on its way to nodes that have the announce.        *)
(***************************************************************************)
FramesHandled ==
    \A n \in Nodes : \A i \in 1..Len(inbox[n]) :
        inbox[n][i].from \in Taken /\ <<inbox[n][i].from, n>> \in links

WaitingHandled == \A n \in Nodes : waiting[n] # None => n \in Taken

\* Whatever node.py's nodes have in their socket buffers, or wait to relay, is
\* of the present flood, and was sent by a node in range that took it.
FloodInduct == FramesHandled /\ WaitingHandled

\* Of one flood, a node hears each neighbour at most once: who is heard has
\* relayed the packet, or is the origin, and nobody relays it twice.  So a relay
\* that waits or was cancelled has heard as many nodes as it has counted copies.
HeardOnce ==
    \A n \in Nodes :
        /\ \A i \in 1..Len(inbox[n]) :
              /\ inbox[n][i].from \notin sources[n]
              /\ inbox[n][i].from = Origin \/ sent[inbox[n][i].from] = 1
              /\ \A j \in 1..(i - 1) : inbox[n][j].from # inbox[n][i].from
        /\ \A m \in sources[n] : m = Origin \/ sent[m] = 1

CopiesCounted ==
    \A n \in Nodes : waiting[n] # None =>
        n # Origin /\ Cardinality(sources[n]) > waiting[n].heard

RelaysTaken ==
    /\ \A n \in Nodes : waiting[n] # None => n \in forgot \/ sent[n] = 0
    /\ \A n \in Nodes : n \notin Taken => waiting[n] = None /\ sent[n] = 0
    /\ owes \subseteq Taken

\* Together the invariant behind RelayedOrCovered.
CoverInduct ==
    /\ forgot = {} => HeardOnce /\ CopiesCounted
    /\ RelaysTaken /\ RelayedOrCovered

\* What makes LeftOutByCancelling inductive: whoever is in range of a node that
\* has sent took the announce, has it to read, or lost it.
SentIsHeard ==
    /\ Taken # {} => Origin \in handled
    /\ \A m, n \in Nodes :
          (m = Origin \/ sent[m] > 0) /\ Taken # {} /\ <<m, n>> \in links
              => n \in Taken \cup missed \/ inbox[n] # <<>>

OriginKeepsNone == route[Origin] = None /\ settling[Origin] = None

(***************************************************************************)
(* The inductive invariant behind DescendingRoutes: what a node passes on  *)
(* in this flood, or is about to, it can itself deliver in fewer hops, by  *)
(* its route or by the candidate that is settling.                         *)
(***************************************************************************)
Serves(m, hops) ==
    /\ route[m] # None
    /\ \/ route[m].flood = flood /\ route[m].hops < hops
       \/ settling[m] # None /\ settling[m].hops < hops

FramesServed ==
    \A n \in Nodes : \A i \in 1..Len(inbox[n]) :
        inbox[n][i].from = Origin \/ Serves(inbox[n][i].from, HopsOf(inbox[n][i]))

WaitingServed ==
    \A n \in Nodes : waiting[n] # None => Serves(n, HopLimit - waiting[n].left)

SettlingServed ==
    \A n \in Nodes : settling[n] # None =>
        /\ route[n] # None /\ settling[n].hops > route[n].hops
        /\ route[n].flood < flood
        /\ settling[n].via = Origin \/ Serves(settling[n].via, settling[n].hops)

RoutesAhead ==
    \A n \in Nodes : route[n] # None =>
        \/ ~Clean(route[n])
        \/ route[n].via = Origin
        \/ Ahead(route[n].via, route[n])
        \/ route[n].flood = flood /\ Serves(route[n].via, route[n].hops)

\* While a flood sees no late copy: every frame, waiting relay and candidate of
\* node.py's nodes, and every route learned since the last one, traces back to
\* a node nearer to the origin.
FloodServed == FramesServed /\ WaitingServed /\ SettlingServed /\ RoutesAhead

\* A late copy in this flood ends with it: what the next one needs of the routes it
\* finds is only that they are older.  And a route that the guard protects is of
\* this flood, whenever the guards of other nodes run out.
RoutesInduct ==
    /\ \A n \in Nodes : route[n] # None => route[n].flood <= flood
    /\ \A n \in Nodes \ lapsed : route[n] # None /\ route[n].flood = flood
    /\ clean <= flood + 1
    /\ CleanFlood => FloodServed
=============================================================================
