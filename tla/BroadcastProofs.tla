--------------------------- MODULE BroadcastProofs ---------------------------
(***************************************************************************)
(* Mesh implements Broadcast: the flooding of beachedmesh, with relays     *)
(* cancelled, frames lost, radios failing and seen caches forgetting, is a *)
(* broadcast in which no node takes an announce again that it remembers;   *)
(* who is left out of one that lost nothing; and no flood goes beyond the  *)
(* hop limit.                                                              *)
(***************************************************************************)
EXTENDS MeshProofs

\* A broadcast adds its frame to the sockets of radios in range, and to those only.
LEMMA TransmitReaches ==
    ASSUME NEW boxes \in [Nodes -> Seq(Frame)], NEW frame \in Frame, NEW topology,
           NEW before, Transmit(boxes, frame, topology, before), NEW n \in Nodes
    PROVE  \/ inbox'[n] = boxes[n]
           \/ inbox'[n] = Append(boxes[n], frame) /\ <<frame.from, n>> \in topology
BY DEF Transmit

LEMMA AppendedFrame ==
    ASSUME NEW box \in Seq(Frame), NEW frame \in Frame, NEW i \in 1..Len(Append(box, frame))
    PROVE  \/ i \in 1..Len(box) /\ Append(box, frame)[i] = box[i]
           \/ i = Len(box) + 1 /\ Append(box, frame)[i] = frame
<1>1. Len(Append(box, frame)) = Len(box) + 1
  BY AppendProperties
<1>2. Len(box) \in Nat
  BY LenProperties
<1>3. i \in 1..Len(box) \/ i = Len(box) + 1
  BY <1>1, <1>2
<1> QED
  BY <1>3, AppendProperties

\* Reading a frame leaves the others in order.
LEMMA TailFrame ==
    ASSUME NEW box \in Seq(Frame), box # <<>>, NEW i \in 1..Len(Tail(box))
    PROVE  i + 1 \in 1..Len(box) /\ Tail(box)[i] = box[i + 1]
<1>1. Len(box) \in Nat /\ Len(box) # 0 /\ Len(Tail(box)) = Len(box) - 1
  BY HeadTailProperties, EmptySeq, LenProperties
<1> QED
  BY <1>1, HeadTailProperties

LEMMA InitFloodInduct == Init => FloodInduct
BY DEF Init, FloodInduct, FramesHandled, WaitingHandled

\* What is in the buffers stays sound when nodes take the announce and a
\* frame is read.
LEMMA ReadKeepsFrames ==
    ASSUME TypeOK, FramesHandled, Taken \subseteq Taken',
           NEW n \in Nodes, inbox[n] # <<>>, Read(n, Head(inbox[n]))
    PROVE  FramesHandled'
<1> SUFFICES ASSUME NEW m \in Nodes, NEW i \in 1..Len(inbox'[m])
             PROVE  inbox'[m][i].from \in Taken' /\ <<inbox'[m][i].from, m>> \in links'
  BY DEF FramesHandled
<1>1. inbox' = [inbox EXCEPT ![n] = Tail(@)] /\ links' = links
  BY DEF Read
<1>2. inbox \in [Nodes -> Seq(Frame)]
  BY DEF TypeOK
<1>3. CASE m # n
  BY <1>1, <1>2, <1>3 DEF FramesHandled
<1>4. CASE m = n
  <2>1. inbox'[n] = Tail(inbox[n])
    BY <1>1, <1>2
  <2>2. i + 1 \in 1..Len(inbox[n]) /\ inbox'[n][i] = inbox[n][i + 1]
    BY <1>2, <1>4, <2>1, TailFrame
  <2> QED
    BY <1>1, <1>4, <2>2 DEF FramesHandled
<1> QED
  BY <1>3, <1>4

\* A broadcast by a node that has the announce keeps them sound.
LEMMA TransmitKeepsFrames ==
    ASSUME TypeOK, FramesHandled, NEW frame \in Frame, frame.from \in Taken,
           Transmit(inbox, frame, links, missed), links' = links, Taken' = Taken
    PROVE  FramesHandled'
<1> SUFFICES ASSUME NEW m \in Nodes, NEW i \in 1..Len(inbox'[m])
             PROVE  inbox'[m][i].from \in Taken /\ <<inbox'[m][i].from, m>> \in links
  BY DEF FramesHandled
<1>1. inbox \in [Nodes -> Seq(Frame)]
  BY DEF TypeOK
<1>2. CASE inbox'[m] = inbox[m]
  BY <1>2 DEF FramesHandled
<1>3. CASE inbox'[m] = Append(inbox[m], frame) /\ <<frame.from, m>> \in links
  <2>1. \/ i \in 1..Len(inbox[m]) /\ inbox'[m][i] = inbox[m][i]
        \/ inbox'[m][i] = frame
    BY <1>1, <1>3, AppendedFrame
  <2> QED
    BY <1>3, <2>1 DEF FramesHandled
<1> QED
  BY <1>1, <1>2, <1>3, TransmitReaches

\* Every step but Announce keeps the invariant and is a step of Broadcast, or
\* none; Receive may be one.
LEMMA ReceiveReaches ==
    ASSUME TypeOK, FloodInduct, NEW n \in Nodes, Receive(n)
    PROVE  FloodInduct' /\ (Broadcasts!Reach(n) \/ UNCHANGED <<flood, links, handled, forgot>>)
<1> DEFINE f == Head(inbox[n])
<1>1. inbox[n] # <<>> /\ inbox \in [Nodes -> Seq(Frame)]
  BY DEF Receive, TypeOK
<1>2. f.from \in Taken /\ <<f.from, n>> \in links
  <2>1. 1 \in 1..Len(inbox[n]) /\ f = inbox[n][1]
    BY <1>1, EmptySeq, LenProperties
  <2> QED
    BY <2>1 DEF FloodInduct, FramesHandled
<1>3. CASE n = Origin /\ HearOwn(f)
  <2>1. Read(n, f) /\ UNCHANGED <<flood, links, handled, forgot, waiting>>
    BY <1>3 DEF HearOwn, Read, floodVars
  <2> QED
    BY <1>1, <2>1, ReadKeepsFrames DEF FloodInduct, WaitingHandled, Taken
<1>4. CASE CountCopy(n, f) \/ CancelRelay(n, f)
  <2>1. Read(n, f) /\ UNCHANGED <<flood, links, handled, forgot>>
    BY <1>4 DEF CountCopy, CancelRelay, Hear, Read
  <2>2. waiting[n] # None /\ \A m \in Nodes \ {n} : waiting'[m] = waiting[m]
    BY <1>4 DEF CountCopy, CancelRelay, TypeOK
  <2>3. WaitingHandled'
    BY <2>1, <2>2 DEF FloodInduct, WaitingHandled, Taken
  <2> QED
    BY <1>1, <2>1, <2>3, ReadKeepsFrames DEF FloodInduct, Taken
<1>5. CASE HearAgain(n, f)
  <2>1. Read(n, f) /\ UNCHANGED <<flood, links, handled, forgot, waiting>>
    BY <1>5 DEF HearAgain, Hear, Read, floodVars
  <2> QED
    BY <1>1, <2>1, ReadKeepsFrames DEF FloodInduct, WaitingHandled, Taken
<1>6. CASE HearLastHop(n, f) \/ HearFirst(n, f)
  <2>1. /\ Read(n, f) /\ UNCHANGED <<flood, links, forgot>>
        /\ n \notin handled /\ handled' = handled \cup {n}
    BY <1>6 DEF HearLastHop, HearFirst, Hear, Read
  <2>2. \A m \in Nodes \ {n} : waiting'[m] = waiting[m]
    BY <1>6 DEF HearLastHop, HearFirst, TypeOK
  <2>3. WaitingHandled'
    BY <2>1, <2>2 DEF FloodInduct, WaitingHandled, Taken
  <2>4. Broadcasts!Reach(n)
    BY <1>2, <2>1 DEF Broadcasts!Reach, Taken
  <2> QED
    BY <1>1, <2>1, <2>3, <2>4, ReadKeepsFrames DEF FloodInduct, Taken
<1> QED
  BY <1>3, <1>4, <1>5, <1>6 DEF Receive

\* Announce begins the broadcast of the next announce, with nothing left over.
LEMMA AnnounceBegins ==
    ASSUME TypeOK, FloodInduct, Announce
    PROVE  FloodInduct' /\ Broadcasts!Announce
<1> DEFINE frame == [from |-> Origin, left |-> HopLimit]
<1>1. frame \in Frame /\ frame.from = Origin
  BY NodesAssumption, BoundsAssumption DEF Frame
<1>2. /\ \A n \in Nodes : inbox[n] = <<>> /\ waiting[n] = None
      /\ handled' = {Origin} /\ forgot' = {} /\ links' \in Topologies /\ UNCHANGED waiting
      /\ Transmit(inbox, frame, links', {})
  BY DEF Announce, Quiet
<1>3. inbox \in [Nodes -> Seq(Frame)]
  BY DEF TypeOK
<1>4. ASSUME NEW m \in Nodes, NEW i \in 1..Len(inbox'[m])
      PROVE  inbox'[m][i].from \in Taken' /\ <<inbox'[m][i].from, m>> \in links'
  <2>1. \/ inbox'[m] = <<>>
        \/ inbox'[m] = Append(inbox[m], frame) /\ <<Origin, m>> \in links'
    BY <1>1, <1>2, <1>3, TransmitReaches
  <2>2. i \notin 1..Len(<<>>)
    OBVIOUS
  <2>3. inbox'[m] = Append(inbox[m], frame) /\ <<Origin, m>> \in links'
    BY <1>4, <2>1, <2>2
  <2>4. inbox'[m][i] = frame
    BY <1>1, <1>2, <1>3, <1>4, <2>2, <2>3, AppendedFrame
  <2> QED
    BY <1>1, <1>2, <2>3, <2>4 DEF Taken
<1>5. FramesHandled'
  BY <1>4 DEF FramesHandled
<1>6. WaitingHandled'
  BY <1>2 DEF WaitingHandled
<1>7. Broadcasts!Announce
  BY DEF Announce, Broadcasts!Announce, Taken
<1> QED
  BY <1>5, <1>6, <1>7 DEF FloodInduct

\* The invariant and the refinement, step by step.
LEMMA StepRefines ==
    ASSUME TypeOK, FloodInduct, [Next]_vars
    PROVE  FloodInduct' /\ [Broadcasts!Next]_<<flood, links, Taken, handled>>
<1>1. CASE Announce
  BY <1>1, AnnounceBegins DEF Broadcasts!Next
<1>2. ASSUME NEW n \in Nodes, Receive(n)
      PROVE  FloodInduct' /\ [Broadcasts!Next]_<<flood, links, Taken, handled>>
  BY <1>2, ReceiveReaches DEF Broadcasts!Next, Taken
<1>3. ASSUME NEW n \in Nodes, Relay(n)
      PROVE  FloodInduct' /\ UNCHANGED <<flood, links, handled, forgot>>
  <2> DEFINE frame == [from |-> n, left |-> waiting[n].left]
  <2>1. frame \in Frame /\ frame.from = n
    BY <1>3 DEF Relay, TypeOK, Relays, Frame
  <2>2. /\ Transmit(inbox, frame, links, missed) /\ UNCHANGED <<flood, links, handled, forgot>>
        /\ waiting[n] # None /\ waiting' = [waiting EXCEPT ![n] = None]
    BY <1>3 DEF Relay
  <2>3. n \in Taken
    BY <2>2 DEF FloodInduct, WaitingHandled
  <2>4. FramesHandled'
    BY <2>1, <2>2, <2>3, TransmitKeepsFrames DEF FloodInduct, Taken
  <2>5. WaitingHandled'
    BY <2>2 DEF FloodInduct, WaitingHandled, Taken, TypeOK
  <2> QED
    BY <2>2, <2>4, <2>5 DEF FloodInduct
<1>4. ASSUME NEW n \in Nodes, Settle(n) \/ GuardRunsOut(n) \/ Recover(n)
      PROVE  FloodInduct' /\ UNCHANGED <<flood, links, handled, forgot>>
  BY <1>4 DEF Settle, GuardRunsOut, Recover, floodVars, history, FloodInduct, FramesHandled,
              WaitingHandled, Taken
<1>5. ASSUME NEW n \in Nodes, Fail(n)
      PROVE  FloodInduct' /\ UNCHANGED <<flood, links, handled, forgot>>
  <2>1. /\ inbox' = [inbox EXCEPT ![n] = <<>>] /\ UNCHANGED <<flood, links, handled, forgot>>
        /\ waiting' \in {waiting, [waiting EXCEPT ![n] = None]}
    BY <1>5 DEF Fail
  <2>2. inbox \in [Nodes -> Seq(Frame)] /\ Len(<<>>) = 0
    BY DEF TypeOK
  <2>3. \A m \in Nodes : inbox'[m] = inbox[m] \/ inbox'[m] = <<>>
    BY <2>1, <2>2
  <2>4. FramesHandled'
    BY <2>1, <2>2, <2>3 DEF FloodInduct, FramesHandled, Taken
  <2>5. WaitingHandled'
    BY <2>1 DEF FloodInduct, WaitingHandled, Taken, TypeOK
  <2> QED
    BY <2>1, <2>4, <2>5 DEF FloodInduct
<1>6. CASE IdlePoll \/ UNCHANGED vars
  BY <1>6 DEF IdlePoll, vars, floodVars, history, FloodInduct, FramesHandled, WaitingHandled,
              Taken
<1>7. ASSUME NEW n \in Nodes, Forget(n)
      PROVE  FloodInduct' /\ Broadcasts!Forget(n)
  <2>1. /\ n \in handled \ {Origin} /\ handled' = handled \ {n} /\ Taken' = Taken
        /\ UNCHANGED <<flood, links, inbox, waiting>>
    BY <1>7 DEF Forget, Taken
  <2>2. FloodInduct'
    BY <2>1 DEF FloodInduct, FramesHandled, WaitingHandled
  <2> QED
    BY <2>1, <2>2 DEF Broadcasts!Forget
<1> QED
  BY <1>1, <1>2, <1>3, <1>4, <1>5, <1>6, <1>7 DEF Next, Broadcasts!Next, Taken

\* Whatever node.py's nodes hold of a flood was sent by a node in range that
\* took its announce, for any nodes, topologies, losses, outages and forgetful caches.
THEOREM FloodInductive == Spec => []FloodInduct
<1>1. TypeOK /\ FloodInduct /\ [Next]_vars => FloodInduct'
  BY StepRefines
<1> QED
  BY <1>1, InitFloodInduct, TypeCorrect, PTL DEF Spec

\* The flooding of flood.py on the loops of node.py is a broadcast: Mesh
\* implements Broadcast, with the nodes in whose seen cache the announce is as those
\* that hold it, and with those whose cache has forgotten it as reached too.
THEOREM Implementation == Spec => ImplementsBroadcast
<1>1. Init => Broadcasts!Init
  BY DEF Init, Broadcasts!Init, Taken
<1>2. TypeOK /\ FloodInduct /\ [Next]_vars => [Broadcasts!Next]_(Broadcasts!vars)
  BY StepRefines DEF Broadcasts!vars
<1> QED
  BY <1>1, <1>2, FloodInductive, TypeCorrect, PTL
  DEF Spec, ImplementsBroadcast, Broadcasts!Spec

(***************************************************************************)
(* Relayed or covered: a cancelled relay has heard as many nodes as it has *)
(* counted copies, because of one flood it hears no node twice.            *)
(***************************************************************************)
\* One more node heard is one more in the count.
LEMMA OneMore ==
    ASSUME NEW known \in SUBSET Nodes, NEW m \in Nodes
    PROVE  /\ Cardinality(known) \in Nat
           /\ m \notin known => Cardinality(known \cup {m}) = Cardinality(known) + 1
           /\ Cardinality(known \cup {m}) >= Cardinality(known)
<1>1. IsFiniteSet(known)
  BY NodesAssumption, FS_Subset
<1>2. Cardinality(known) \in Nat
  BY <1>1, FS_CardinalityType
<1>3. m \notin known => Cardinality(known \cup {m}) = Cardinality(known) + 1
  BY <1>1, FS_AddElement
<1>4. m \in known => known \cup {m} = known
  OBVIOUS
<1> QED
  BY <1>2, <1>3, <1>4

\* The frame that is read is from a node not heard before, and those that are
\* left are from others.
LEMMA ReadHearsOnce ==
    ASSUME TypeOK, HeardOnce, NEW n \in Nodes, inbox[n] # <<>>,
           Read(n, Head(inbox[n])), UNCHANGED sent,
           sources' \in {sources, [sources EXCEPT ![n] = @ \cup {Head(inbox[n]).from}]}
    PROVE  HeardOnce' /\ Head(inbox[n]) \in Frame /\ Head(inbox[n]).from \notin sources[n]
<1> DEFINE f == Head(inbox[n])
<1>1. inbox \in [Nodes -> Seq(Frame)] /\ sources \in [Nodes -> SUBSET Nodes]
  BY DEF TypeOK
<1>2. 1 \in 1..Len(inbox[n]) /\ f = inbox[n][1] /\ f \in Frame
  BY <1>1, EmptySeq, LenProperties, HeadTailProperties
<1>3. f.from \notin sources[n] /\ (f.from = Origin \/ sent[f.from] = 1)
  BY <1>2 DEF HeardOnce
<1>4. \A m \in Nodes \ {n} : inbox'[m] = inbox[m] /\ sources'[m] = sources[m]
  BY <1>1 DEF Read
<1>5. inbox'[n] = Tail(inbox[n]) /\ sources'[n] \subseteq sources[n] \cup {f.from}
  BY <1>1 DEF Read
<1>6. ASSUME NEW i \in 1..Len(inbox'[n])
      PROVE  /\ inbox'[n][i].from \notin sources'[n]
             /\ inbox'[n][i].from = Origin \/ sent[inbox'[n][i].from] = 1
             /\ \A j \in 1..(i - 1) : inbox'[n][j].from # inbox'[n][i].from
  <2>1. i + 1 \in 1..Len(inbox[n]) /\ inbox'[n][i] = inbox[n][i + 1]
    BY <1>1, <1>5, <1>6, TailFrame
  <2>2. 1 \in 1..((i + 1) - 1)
    BY <1>6
  <2>3. f.from # inbox'[n][i].from /\ inbox'[n][i].from \notin sources[n]
        /\ (inbox'[n][i].from = Origin \/ sent[inbox'[n][i].from] = 1)
    BY <1>2, <2>1, <2>2 DEF HeardOnce
  <2>4. ASSUME NEW j \in 1..(i - 1) PROVE inbox'[n][j].from # inbox'[n][i].from
    <3>1. j \in 1..Len(inbox'[n]) /\ j + 1 \in 1..((i + 1) - 1)
      <4>1. Len(inbox'[n]) \in Nat
        BY <1>1, <1>5, HeadTailProperties, LenProperties
      <4> QED
        BY <1>6, <2>4, <4>1
    <3>2. inbox'[n][j] = inbox[n][j + 1]
      BY <1>1, <1>5, <3>1, TailFrame
    <3>3. \A k \in 1..((i + 1) - 1) : inbox[n][k].from # inbox[n][i + 1].from
      BY <2>1 DEF HeardOnce
    <3> QED
      BY <2>1, <3>1, <3>2, <3>3
  <2> QED
    BY <1>5, <2>3, <2>4
<1>7. \A m \in sources'[n] : m = Origin \/ sent[m] = 1
  BY <1>3, <1>5 DEF HeardOnce
<1>8. HeardOnce'
  <2> SUFFICES ASSUME NEW m \in Nodes
               PROVE  /\ \A i \in 1..Len(inbox'[m]) :
                           /\ inbox'[m][i].from \notin sources'[m]
                           /\ inbox'[m][i].from = Origin \/ sent[inbox'[m][i].from] = 1
                           /\ \A j \in 1..(i - 1) : inbox'[m][j].from # inbox'[m][i].from
                      /\ \A k \in sources'[m] : k = Origin \/ sent[k] = 1
    BY DEF HeardOnce
  <2>1. CASE m = n
    BY <1>6, <1>7, <2>1
  <2>2. CASE m # n
    BY <1>4, <2>2 DEF HeardOnce
  <2> QED
    BY <2>1, <2>2
<1> QED
  BY <1>2, <1>3, <1>8

\* While no seen cache has forgotten the announce, copies are counted once, and
\* who does not send has heard enough.
Covered ==
    /\ HeardOnce /\ CopiesCounted
    /\ \A n \in owes : sent[n] = 0 /\ waiting[n] = None => Cardinality(sources[n]) > Threshold

\* Nobody sends twice who does not take the announce twice.
SentOnce == RelaysTaken /\ \A n \in Nodes \ forgot : sent[n] <= 1

LEMMA CoverParts == CoverInduct <=> SentOnce /\ (forgot = {} => Covered)
BY DEF CoverInduct, SentOnce, Covered, RelayedOrCovered

LEMMA ReceiveCovers ==
    ASSUME TypeOK, SentOnce, Covered, forgot = {}, NEW n \in Nodes, Receive(n)
    PROVE  Covered'
<1> DEFINE f == Head(inbox[n])
<1>1. /\ HeardOnce /\ CopiesCounted
      /\ \A m \in Nodes : waiting[m] # None => sent[m] = 0 /\ m \in handled
      /\ \A m \in Nodes \ handled : sent[m] = 0
      /\ owes \subseteq handled
  BY DEF Covered, SentOnce, RelaysTaken, Taken
<1>2. /\ inbox[n] # <<>> /\ sources \in [Nodes -> SUBSET Nodes]
      /\ waiting \in [Nodes -> Relays \cup {None}] /\ sent \in [Nodes -> 0..2]
      /\ owes \subseteq Nodes /\ handled \subseteq Nodes
  BY DEF Receive, TypeOK
<1>3. CASE n = Origin /\ HearOwn(f)
  <2>1. Read(n, f) /\ UNCHANGED <<handled, waiting, owes, sent, sources>>
    BY <1>3 DEF HearOwn, floodVars
  <2>2. HeardOnce'
    BY <1>1, <1>2, <2>1, ReadHearsOnce
  <2> QED
    BY <2>1, <2>2 DEF Covered, CopiesCounted
<1>4. ASSUME Hear(n, f), UNCHANGED sent,
             \A m \in Nodes \ {n} : waiting'[m] = waiting[m],
             owes' \subseteq owes \cup {n}, owes' \subseteq Nodes,
             waiting'[n] # None =>
                Cardinality(sources'[n]) > waiting'[n].heard,
             n \in owes' /\ sent[n] = 0 /\ waiting'[n] = None =>
                Cardinality(sources'[n]) > Threshold
      PROVE  Covered'
  <2>1. /\ n # Origin /\ Read(n, f)
        /\ sources' = [sources EXCEPT ![n] = @ \cup {f.from}]
    BY <1>4 DEF Hear
  <2>2. HeardOnce'
    BY <1>1, <1>2, <1>4, <2>1, ReadHearsOnce
  <2>3. \A m \in Nodes \ {n} : sources'[m] = sources[m]
    BY <1>2, <2>1
  <2>4. CopiesCounted'
    <3> SUFFICES ASSUME NEW m \in Nodes, waiting'[m] # None
                 PROVE  m # Origin
                        /\ Cardinality(sources'[m]) > waiting'[m].heard
      BY <1>4 DEF CopiesCounted
    <3>1. CASE m = n
      BY <1>4, <2>1, <3>1
    <3>2. CASE m # n
      BY <1>1, <1>4, <2>3, <3>2 DEF CopiesCounted
    <3> QED
      BY <3>1, <3>2
  <2>5. ASSUME NEW m \in owes', sent[m] = 0, waiting'[m] = None
        PROVE  Cardinality(sources'[m]) > Threshold
    <3>1. CASE m = n
      BY <1>4, <2>5, <3>1
    <3>2. CASE m # n
      <4>1. m \in Nodes /\ m \in owes /\ waiting[m] = None
        BY <1>4, <2>5, <3>2
      <4> QED
        BY <2>3, <2>5, <3>2, <4>1 DEF Covered
    <3> QED
      BY <3>1, <3>2
  <2> QED
    BY <1>4, <2>2, <2>4, <2>5 DEF Covered
<1>5. ASSUME Hear(n, f), UNCHANGED sent
      PROVE  /\ Cardinality(sources[n]) \in Nat
             /\ Cardinality(sources'[n]) = Cardinality(sources[n]) + 1
  <2>1. /\ Read(n, f) /\ sources' = [sources EXCEPT ![n] = @ \cup {f.from}]
    BY <1>5 DEF Hear
  <2>2. f \in Frame /\ f.from \notin sources[n]
    BY <1>1, <1>2, <1>5, <2>1, ReadHearsOnce
  <2>3. f.from \in Nodes /\ sources[n] \in SUBSET Nodes
    BY <1>2, <2>2 DEF Frame
  <2>4. sources'[n] = sources[n] \cup {f.from}
    BY <1>2, <2>1
  <2> QED
    BY <2>2, <2>3, <2>4, OneMore
<1>6. waiting[n] # None => n \in handled /\ sent[n] = 0
                           /\ waiting[n].heard \in Nat /\ Cardinality(sources[n]) > waiting[n].heard
  BY <1>1, <1>2, BoundsAssumption DEF CopiesCounted, Relays
<1>7. Threshold \in Nat
  BY BoundsAssumption
<1>8. CASE CountCopy(n, f)
  <2>1. /\ Hear(n, f) /\ waiting[n] # None /\ UNCHANGED <<handled, owes, sent>>
        /\ waiting' = [waiting EXCEPT ![n].heard = @ + 1]
    BY <1>8 DEF CountCopy
  <2>2. \A m \in Nodes \ {n} : waiting'[m] = waiting[m]
    BY <1>2, <2>1
  <2>3. waiting'[n].heard = waiting[n].heard + 1
    <3>1. waiting[n] \in Relays
      BY <1>2, <2>1
    <3>2. waiting'[n] = [waiting[n] EXCEPT !.heard = waiting[n].heard + 1]
      BY <1>2, <2>1
    <3> QED
      BY <3>1, <3>2 DEF Relays
  <2>4. waiting'[n] # None
    <3>1. waiting[n] \in Relays
      BY <1>2, <2>1
    <3>2. waiting'[n] = [waiting[n] EXCEPT !.heard = waiting[n].heard + 1]
      BY <1>2, <2>1
    <3>3. waiting'[n] \in Relays
      BY <1>8, <3>1, <3>2, BoundsAssumption DEF CountCopy, Relays
    <3> QED
      BY <3>3, NoneAssumption
  <2>5. Cardinality(sources'[n]) > waiting'[n].heard
    BY <1>5, <1>6, <2>1, <2>3
  <2> QED
    BY <1>2, <1>4, <1>6, <2>1, <2>2, <2>4, <2>5
<1>9. CASE CancelRelay(n, f)
  <2>1. /\ Hear(n, f) /\ waiting[n] # None /\ UNCHANGED <<handled, owes, sent>>
        /\ waiting[n].heard + 1 >= Threshold
        /\ waiting' = [waiting EXCEPT ![n] = None]
    BY <1>9 DEF CancelRelay
  <2>2. waiting'[n] = None /\ \A m \in Nodes \ {n} : waiting'[m] = waiting[m]
    BY <1>2, <2>1
  <2>3. Cardinality(sources'[n]) > Threshold
    BY <1>5, <1>6, <1>7, <2>1
  <2> QED
    BY <1>2, <1>4, <1>6, <2>1, <2>2, <2>3
<1>10. CASE HearAgain(n, f)
  <2>1. Hear(n, f) /\ waiting[n] = None /\ n \in handled
        /\ UNCHANGED <<handled, owes, sent, waiting>>
    BY <1>10 DEF HearAgain, floodVars
  <2>2. n \in owes /\ sent[n] = 0 => Cardinality(sources'[n]) > Threshold
    BY <1>5, <1>7, <2>1 DEF Covered
  <2> QED
    BY <1>2, <1>4, <2>1, <2>2
<1>11. CASE HearLastHop(n, f)
  <2>1. Hear(n, f) /\ waiting[n] = None /\ n \notin handled
        /\ handled' = handled \cup {n} /\ UNCHANGED <<owes, sent, waiting>>
    BY <1>11 DEF HearLastHop
  <2>2. n \notin owes
    BY <1>1, <2>1
  <2> QED
    BY <1>2, <1>4, <2>1, <2>2
<1>12. CASE HearFirst(n, f)
  <2>1. /\ Hear(n, f) /\ n \notin handled /\ UNCHANGED sent
        /\ handled' = handled \cup {n} /\ owes' = owes \cup {n}
        /\ waiting' = [waiting EXCEPT ![n] = [left |-> f.left - 1, heard |-> 0]]
    BY <1>12 DEF HearFirst
  <2>2. /\ waiting'[n] = [left |-> f.left - 1, heard |-> 0]
        /\ \A m \in Nodes \ {n} : waiting'[m] = waiting[m]
    BY <1>2, <2>1
  <2>3. waiting'[n] # None
    <3>1. f \in Frame
      BY <1>1, <1>2, <2>1, ReadHearsOnce DEF Hear
    <3>2. waiting'[n] \in Relays
      BY <1>12, <2>2, <3>1, BoundsAssumption DEF HearFirst, Frame, Relays
    <3> QED
      BY <3>2, NoneAssumption
  <2>4. sent[n] = 0
    BY <1>1, <2>1
  <2>5. Cardinality(sources'[n]) > waiting'[n].heard
    BY <1>5, <2>1, <2>2
  <2> QED
    BY <1>2, <1>4, <2>1, <2>2, <2>3, <2>4, <2>5
<1> QED
  BY <1>3, <1>8, <1>9, <1>10, <1>11, <1>12 DEF Receive

\* The origin's announce reaches sockets that are empty, and nothing else is left.
LEMMA AnnounceCovers == TypeOK /\ Announce => SentOnce' /\ Covered'
<1> SUFFICES ASSUME TypeOK, Announce PROVE SentOnce' /\ Covered'
  OBVIOUS
<1> DEFINE frame == [from |-> Origin, left |-> HopLimit]
<1>1. frame \in Frame /\ frame.from = Origin
  BY NodesAssumption, BoundsAssumption DEF Frame
<1>2. /\ \A n \in Nodes : inbox[n] = <<>> /\ waiting'[n] = None
      /\ sent' = [n \in Nodes |-> 0] /\ sources' = [n \in Nodes |-> {}] /\ owes' = {}
      /\ Transmit(inbox, frame, links', {})
  BY DEF Announce, Quiet
<1>3. inbox \in [Nodes -> Seq(Frame)]
  BY DEF TypeOK
<1>4. ASSUME NEW n \in Nodes, NEW i \in 1..Len(inbox'[n])
      PROVE  i = 1 /\ inbox'[n][i] = frame
  <2>1. Len(<<>>) = 0
    OBVIOUS
  <2>2. inbox'[n] = <<>> \/ inbox'[n] = Append(inbox[n], frame)
    BY <1>1, <1>2, <1>3, TransmitReaches
  <2>3. inbox'[n] = Append(inbox[n], frame) /\ inbox[n] = <<>>
    BY <1>2, <1>4, <2>1, <2>2
  <2>4. i = Len(inbox[n]) + 1 /\ inbox'[n][i] = frame
    BY <1>1, <1>3, <1>4, <2>1, <2>3, AppendedFrame
  <2> QED
    BY <2>1, <2>3, <2>4
<1>5. HeardOnce'
  <2> SUFFICES ASSUME NEW n \in Nodes
               PROVE  /\ \A i \in 1..Len(inbox'[n]) :
                           /\ inbox'[n][i].from \notin sources'[n]
                           /\ inbox'[n][i].from = Origin \/ sent'[inbox'[n][i].from] = 1
                           /\ \A j \in 1..(i - 1) : inbox'[n][j].from # inbox'[n][i].from
                      /\ \A k \in sources'[n] : k = Origin \/ sent'[k] = 1
    BY DEF HeardOnce
  <2>1. sources'[n] = {}
    BY <1>2
  <2>2. \A i \in 1..Len(inbox'[n]) : inbox'[n][i].from = Origin /\ 1..(i - 1) = {}
    BY <1>1, <1>4
  <2> QED
    BY <2>1, <2>2
<1> QED
  BY <1>2, <1>5 DEF Covered, SentOnce, CopiesCounted, RelaysTaken

\* A node relays once, so none of its neighbours has heard it before.
LEMMA RelayCovers ==
    ASSUME TypeOK, SentOnce, Covered, forgot = {}, NEW n \in Nodes, Relay(n)
    PROVE  Covered'
<1> DEFINE frame == [from |-> n, left |-> waiting[n].left]
<1>1. /\ waiting[n] # None /\ waiting' = [waiting EXCEPT ![n] = None]
      /\ sent' = [sent EXCEPT ![n] = IF @ < 2 THEN @ + 1 ELSE @]
      /\ Transmit(inbox, frame, links, missed) /\ UNCHANGED <<handled, owes, sources>>
  BY DEF Relay
<1>2. /\ inbox \in [Nodes -> Seq(Frame)] /\ sent \in [Nodes -> 0..2]
      /\ waiting \in [Nodes -> Relays \cup {None}] /\ owes \subseteq Nodes
      /\ sources \in [Nodes -> SUBSET Nodes]
  BY DEF TypeOK
<1>3. frame \in Frame /\ frame.from = n
  BY <1>1, <1>2 DEF Relays, Frame
<1>4. HeardOnce /\ CopiesCounted
  BY DEF Covered
<1>5. n # Origin /\ sent[n] = 0
  BY <1>1, <1>4 DEF CopiesCounted, SentOnce, RelaysTaken
<1>6. sent'[n] = 1 /\ waiting'[n] = None
      /\ \A m \in Nodes \ {n} : sent'[m] = sent[m] /\ waiting'[m] = waiting[m]
  BY <1>1, <1>2, <1>5
<1>7. HeardOnce'
  <2> SUFFICES ASSUME NEW m \in Nodes
               PROVE  /\ \A i \in 1..Len(inbox'[m]) :
                           /\ inbox'[m][i].from \notin sources[m]
                           /\ inbox'[m][i].from = Origin \/ sent'[inbox'[m][i].from] = 1
                           /\ \A j \in 1..(i - 1) : inbox'[m][j].from # inbox'[m][i].from
                      /\ \A k \in sources[m] : k = Origin \/ sent'[k] = 1
    BY <1>1 DEF HeardOnce
  <2>1. n \notin sources[m] /\ \A k \in sources[m] : k = Origin \/ sent'[k] = 1
    <3>1. \A k \in sources[m] : k \in Nodes /\ (k = Origin \/ sent[k] = 1)
      BY <1>2, <1>4 DEF HeardOnce
    <3> QED
      BY <1>5, <1>6, <3>1
  <2>2. \A i \in 1..Len(inbox[m]) : /\ inbox[m][i].from # n
                                    /\ inbox[m][i].from \notin sources[m]
                                    /\ inbox[m][i].from = Origin \/ sent'[inbox[m][i].from] = 1
                                    /\ \A j \in 1..(i - 1) : inbox[m][j].from # inbox[m][i].from
    <3> SUFFICES ASSUME NEW i \in 1..Len(inbox[m])
                 PROVE  /\ inbox[m][i].from # n
                        /\ inbox[m][i].from \notin sources[m]
                        /\ inbox[m][i].from = Origin \/ sent'[inbox[m][i].from] = 1
                        /\ \A j \in 1..(i - 1) : inbox[m][j].from # inbox[m][i].from
      OBVIOUS
    <3>1. inbox[m][i].from \in Nodes
      <4>1. inbox[m] \in Seq(Frame) /\ inbox[m][i] \in Frame
        BY <1>2, ElementOfSeq
      <4> QED
        BY <4>1 DEF Frame
    <3>2. /\ inbox[m][i].from \notin sources[m]
          /\ inbox[m][i].from = Origin \/ sent[inbox[m][i].from] = 1
          /\ \A j \in 1..(i - 1) : inbox[m][j].from # inbox[m][i].from
      BY <1>4 DEF HeardOnce
    <3>3. inbox[m][i].from # n
      BY <1>5, <3>2
    <3> QED
      BY <1>6, <3>1, <3>2, <3>3
  <2>3. CASE inbox'[m] = inbox[m]
    BY <2>1, <2>2, <2>3
  <2>4. CASE inbox'[m] = Append(inbox[m], frame)
    <3> SUFFICES ASSUME NEW i \in 1..Len(inbox'[m])
                 PROVE  /\ inbox'[m][i].from \notin sources[m]
                        /\ inbox'[m][i].from = Origin \/ sent'[inbox'[m][i].from] = 1
                        /\ \A j \in 1..(i - 1) : inbox'[m][j].from # inbox'[m][i].from
      BY <2>1
    <3>1. \/ i \in 1..Len(inbox[m]) /\ inbox'[m][i] = inbox[m][i]
          \/ i = Len(inbox[m]) + 1 /\ inbox'[m][i] = frame
      BY <1>2, <1>3, <2>4, AppendedFrame
    <3>2. Len(inbox[m]) \in Nat
      BY <1>2, LenProperties
    <3>3. \A j \in 1..(i - 1) : j \in 1..Len(inbox[m]) /\ inbox'[m][j] = inbox[m][j]
      <4> SUFFICES ASSUME NEW j \in 1..(i - 1)
                   PROVE  j \in 1..Len(inbox[m]) /\ inbox'[m][j] = inbox[m][j]
        OBVIOUS
      <4>1. j \in 1..Len(inbox[m])
        BY <3>1, <3>2
      <4> QED
        BY <1>2, <1>3, <2>4, <4>1, AppendProperties
    <3>4. CASE i \in 1..Len(inbox[m]) /\ inbox'[m][i] = inbox[m][i]
      BY <2>2, <3>3, <3>4
    <3>5. CASE inbox'[m][i] = frame
      BY <1>3, <1>6, <2>1, <2>2, <3>3, <3>5
    <3> QED
      BY <3>1, <3>4, <3>5
  <2> QED
    BY <1>1, <1>2, <1>3, <2>3, <2>4, TransmitReaches
<1>8. CopiesCounted'
  BY <1>1, <1>4, <1>6 DEF CopiesCounted
<1>9. \A m \in owes : sent'[m] = 0 /\ waiting'[m] = None => Cardinality(sources[m]) > Threshold
  BY <1>2, <1>6 DEF Covered
<1> QED
  BY <1>1, <1>7, <1>8, <1>9 DEF Covered

\* A radio that fails takes frames and a relay away, and adds none.
LEMMA FailCovers ==
    ASSUME TypeOK, Covered, NEW n \in Nodes, Fail(n)
    PROVE  Covered'
<1>1. /\ inbox' = [inbox EXCEPT ![n] = <<>>] /\ owes' = owes \ {n}
      /\ waiting' \in {waiting, [waiting EXCEPT ![n] = None]}
      /\ UNCHANGED <<handled, sent, sources>>
  BY DEF Fail
<1>2. /\ inbox \in [Nodes -> Seq(Frame)] /\ Len(<<>>) = 0
      /\ waiting \in [Nodes -> Relays \cup {None}] /\ owes \subseteq Nodes
  BY DEF TypeOK
<1>3. \A m \in Nodes : inbox'[m] = inbox[m] \/ inbox'[m] = <<>>
  BY <1>1, <1>2
<1>4. \A m \in Nodes : waiting'[m] = waiting[m] \/ (m = n /\ waiting'[m] = None)
  <2>1. CASE waiting' = waiting
    BY <2>1
  <2>2. CASE waiting' = [waiting EXCEPT ![n] = None]
    BY <1>2, <2>2
  <2> QED
    BY <1>1, <2>1, <2>2
<1>5. HeardOnce /\ CopiesCounted
  BY DEF Covered
<1>6. HeardOnce'
  <2> SUFFICES ASSUME NEW m \in Nodes
               PROVE  /\ \A i \in 1..Len(inbox'[m]) :
                           /\ inbox'[m][i].from \notin sources[m]
                           /\ inbox'[m][i].from = Origin \/ sent[inbox'[m][i].from] = 1
                           /\ \A j \in 1..(i - 1) : inbox'[m][j].from # inbox'[m][i].from
                      /\ \A k \in sources[m] : k = Origin \/ sent[k] = 1
    BY <1>1 DEF HeardOnce
  <2>1. CASE inbox'[m] = inbox[m]
    BY <1>5, <2>1 DEF HeardOnce
  <2>2. CASE inbox'[m] = <<>>
    BY <1>2, <1>5, <2>2 DEF HeardOnce
  <2> QED
    BY <1>3, <2>1, <2>2
<1>7. CopiesCounted'
  BY <1>1, <1>4, <1>5 DEF CopiesCounted
<1>8. \A m \in owes' : sent[m] = 0 /\ waiting'[m] = None => Cardinality(sources[m]) > Threshold
  BY <1>1, <1>2, <1>4 DEF Covered
<1> QED
  BY <1>1, <1>6, <1>7, <1>8 DEF Covered

\* Who takes the announce again has forgotten it, and that is on record.
LEMMA StepSendsOnce == TypeOK /\ SentOnce /\ [Next]_vars => SentOnce'
<1> SUFFICES ASSUME TypeOK, SentOnce, [Next]_vars PROVE SentOnce'
  OBVIOUS
<1>1. /\ waiting \in [Nodes -> Relays \cup {None}] /\ sent \in [Nodes -> 0..2]
      /\ owes \subseteq Nodes /\ handled \subseteq Nodes /\ forgot \subseteq Nodes
  BY DEF TypeOK
<1>2. /\ \A m \in Nodes : waiting[m] # None => m \in forgot \/ sent[m] = 0
      /\ \A m \in Nodes : m \notin Taken => waiting[m] = None /\ sent[m] = 0
      /\ owes \subseteq Taken /\ \A m \in Nodes \ forgot : sent[m] <= 1
  BY DEF SentOnce, RelaysTaken
<1>3. ASSUME UNCHANGED sent, forgot \subseteq forgot', Taken' = Taken, owes' \subseteq owes,
             \A m \in Nodes : waiting'[m] # None => waiting[m] # None
      PROVE  SentOnce'
  BY <1>2, <1>3 DEF SentOnce, RelaysTaken
<1>4. ASSUME NEW n \in Nodes, Receive(n) PROVE SentOnce'
  <2> DEFINE f == Head(inbox[n])
  <2>1. CASE n = Origin /\ HearOwn(f)
    BY <1>3, <2>1 DEF HearOwn, Read, floodVars, Taken
  <2>2. CASE CountCopy(n, f) \/ CancelRelay(n, f) \/ HearAgain(n, f)
    <3>1. /\ UNCHANGED <<sent, forgot, handled, owes>>
          /\ \A m \in Nodes : waiting'[m] # None => waiting[m] # None
      BY <1>1, <2>2 DEF CountCopy, CancelRelay, HearAgain, Hear, Read, floodVars
    <3> QED
      BY <1>3, <3>1 DEF Taken
  <2>3. CASE HearLastHop(n, f) \/ HearFirst(n, f)
    <3>1. /\ n \notin handled /\ handled' = handled \cup {n} /\ UNCHANGED <<sent, forgot>>
          /\ owes' \subseteq owes \cup {n}
          /\ \A m \in Nodes \ {n} : waiting'[m] = waiting[m]
      BY <1>1, <2>3 DEF HearLastHop, HearFirst, Hear, Read
    <3>2. n \in forgot \/ sent[n] = 0
      BY <1>2, <3>1 DEF Taken
    <3> QED
      BY <1>2, <3>1, <3>2 DEF SentOnce, RelaysTaken, Taken
  <2> QED
    BY <1>4, <2>1, <2>2, <2>3 DEF Receive
<1>5. ASSUME NEW n \in Nodes, Relay(n) PROVE SentOnce'
  <2>1. /\ waiting[n] # None /\ waiting'[n] = None
        /\ \A m \in Nodes \ {n} : waiting'[m] = waiting[m] /\ sent'[m] = sent[m]
        /\ sent[n] = 0 => sent'[n] = 1
        /\ UNCHANGED <<forgot, handled, owes>>
    BY <1>1, <1>5 DEF Relay
  <2> QED
    BY <1>2, <2>1 DEF SentOnce, RelaysTaken, Taken
<1>6. ASSUME NEW n \in Nodes,
             Settle(n) \/ GuardRunsOut(n) \/ Forget(n) \/ Fail(n) \/ Recover(n)
      PROVE  SentOnce'
  <2>1. /\ UNCHANGED sent /\ forgot \subseteq forgot' /\ owes' \subseteq owes /\ Taken' = Taken
        /\ \A m \in Nodes : waiting'[m] # None => waiting[m] # None
    BY <1>1, <1>6 DEF Settle, GuardRunsOut, Forget, Fail, Recover, floodVars, history, Taken
  <2> QED
    BY <1>3, <2>1
<1>7. CASE IdlePoll \/ UNCHANGED vars
  BY <1>3, <1>7 DEF IdlePoll, vars, floodVars, history, Taken
<1> QED
  BY <1>4, <1>5, <1>6, <1>7, AnnounceCovers DEF Next

LEMMA StepCovers == TypeOK /\ CoverInduct /\ [Next]_vars => CoverInduct'
<1> SUFFICES ASSUME TypeOK, SentOnce, forgot = {} => Covered, [Next]_vars PROVE CoverInduct'
  BY CoverParts
<1>1. SentOnce'
  BY StepSendsOnce
<1>2. ASSUME forgot' = {} PROVE Covered'
  <2>1. CASE Announce
    BY <2>1, AnnounceCovers
  <2>2. ASSUME ~Announce PROVE forgot = {} /\ Covered
    <3>1. ASSUME NEW n \in Nodes, Receive(n) PROVE forgot = {}
      BY <1>2, <3>1 DEF Receive, HearOwn, CountCopy, CancelRelay, HearAgain, HearLastHop,
                        HearFirst, Hear, Read
    <3>2. forgot = {}
      BY <1>2, <2>2, <3>1 DEF Next, IdlePoll, Relay, Settle, GuardRunsOut, Forget, Fail,
                              Recover, vars, history
    <3> QED
      BY <3>2
  <2>3. ASSUME NEW n \in Nodes, Settle(n) \/ GuardRunsOut(n) \/ Recover(n), Covered
        PROVE  Covered'
    BY <2>3 DEF Settle, GuardRunsOut, Recover, floodVars, Covered, HeardOnce, CopiesCounted
  <2>4. CASE (IdlePoll \/ UNCHANGED vars) /\ Covered
    BY <2>4 DEF IdlePoll, vars, floodVars, Covered, HeardOnce, CopiesCounted
  <2>5. ASSUME NEW n \in Nodes, Forget(n) PROVE FALSE
    BY <1>2, <2>5 DEF Forget
  <2> QED
    BY <2>1, <2>2, <2>3, <2>4, <2>5, ReceiveCovers, RelayCovers, FailCovers DEF Next
<1> QED
  BY <1>1, <1>2, CoverParts DEF CoverInduct, SentOnce, Covered, RelayedOrCovered

LEMMA CoverInductive == Spec => []CoverInduct
<1>1. Init => CoverInduct
  <2> SUFFICES ASSUME Init PROVE CoverInduct
    OBVIOUS
  <2>1. /\ inbox = [n \in Nodes |-> <<>>] /\ waiting = [n \in Nodes |-> None]
        /\ owes = {} /\ sent = [n \in Nodes |-> 0] /\ sources = [n \in Nodes |-> {}]
    BY DEF Init
  <2>2. HeardOnce
    BY <2>1 DEF HeardOnce
  <2> QED
    BY <2>1, <2>2 DEF CoverInduct, CopiesCounted, RelaysTaken, RelayedOrCovered
<1> QED
  BY <1>1, StepCovers, TypeCorrect, PTL DEF Spec

\* For every mesh, threshold, topology, loss, outage and interleaving: flood.py's
\* Flooder sends a relay once, unless its seen cache forgets the packet, and while
\* no cache has, gives one up only when more than RELAY_THRESHOLD nodes were heard.
THEOREM RelaysCovered == Spec => []RelayedOrCovered
<1>1. CoverInduct => RelayedOrCovered
  BY DEF CoverInduct
<1> QED
  BY <1>1, CoverInductive, PTL

(***************************************************************************)
(* Left out by cancelling: whoever is in range of a node that sends hears  *)
(* it, or loses the frame.                                                 *)
(***************************************************************************)
\* Who is in range of a sender that reaches its radio has something to read, and
\* every other one has missed a frame.
LEMMA InRangeHear ==
    ASSUME TypeOK, NEW frame \in Frame, NEW topology, NEW before \in SUBSET Nodes,
           Transmit(inbox, frame, topology, before), NEW n \in Nodes
    PROVE  /\ <<frame.from, n>> \in topology => n \in missed' \/ inbox'[n] # <<>>
           /\ inbox[n] # <<>> => inbox'[n] # <<>>
           /\ before \subseteq missed'
<1>1. inbox[n] \in Seq(Frame)
  BY DEF TypeOK
<1>2. Append(inbox[n], frame) # <<>>
  <2>1. Len(Append(inbox[n], frame)) = Len(inbox[n]) + 1 /\ Len(inbox[n]) \in Nat
    BY <1>1, AppendProperties, LenProperties
  <2>2. Len(<<>>) = 0
    OBVIOUS
  <2> QED
    BY <2>1, <2>2
<1>3. PICK got \in SUBSET ({k \in Nodes : <<frame.from, k>> \in topology} \ dead) :
          /\ inbox' = [k \in Nodes |-> IF k \in got THEN Append(inbox[k], frame) ELSE inbox[k]]
          /\ missed' = before \cup ({k \in Nodes : <<frame.from, k>> \in topology} \ got)
  BY DEF Transmit
<1>4. inbox'[n] = IF n \in got THEN Append(inbox[n], frame) ELSE inbox[n]
  BY <1>3
<1> QED
  BY <1>2, <1>3, <1>4

LEMMA StepHeard ==
    ASSUME TypeOK, SentIsHeard, FloodInduct, [Next]_vars
    PROVE  SentIsHeard'
<1>1. /\ inbox \in [Nodes -> Seq(Frame)] /\ sent \in [Nodes -> 0..2]
      /\ missed \in SUBSET Nodes /\ handled \subseteq Nodes /\ forgot \subseteq Nodes
      /\ waiting \in [Nodes -> Relays \cup {None}] /\ Origin \in Nodes
  BY NodesAssumption DEF TypeOK
<1>2. CASE Announce
  <2> DEFINE frame == [from |-> Origin, left |-> HopLimit]
  <2>1. frame \in Frame /\ frame.from = Origin
    BY NodesAssumption, BoundsAssumption DEF Frame
  <2>2. /\ Transmit(inbox, frame, links', {}) /\ handled' = {Origin}
        /\ sent' = [n \in Nodes |-> 0]
    BY <1>2 DEF Announce
  <2> HIDE DEF frame
  <2>3. \A n \in Nodes : <<Origin, n>> \in links' => n \in missed' \/ inbox'[n] # <<>>
    BY <2>1, <2>2, InRangeHear
  <2> QED
    BY <2>2, <2>3 DEF SentIsHeard
<1>3. ASSUME UNCHANGED <<links, sent>>, Taken' = Taken, missed \subseteq missed',
             Origin \in handled => Origin \in handled',
             \A n \in Nodes : inbox[n] # <<>> => inbox'[n] # <<>> \/ n \in missed'
      PROVE  SentIsHeard'
  BY <1>3 DEF SentIsHeard
<1>4. ASSUME NEW n \in Nodes, Receive(n) PROVE SentIsHeard'
  <2> DEFINE f == Head(inbox[n])
  <2>1. (HearOwn(f) /\ n = Origin)
          \/ CountCopy(n, f) \/ CancelRelay(n, f) \/ HearAgain(n, f)
          \/ HearLastHop(n, f) \/ HearFirst(n, f)
    BY <1>4 DEF Receive
  <2>2. /\ UNCHANGED <<links, sent, missed, forgot>> /\ inbox' = [inbox EXCEPT ![n] = Tail(@)]
        /\ handled' \in {handled, handled \cup {n}}
    BY <2>1 DEF HearOwn, CountCopy, CancelRelay, HearAgain, HearLastHop, HearFirst, Hear, Read,
                floodVars
  <2>3. inbox[n] # <<>> /\ f.from \in Taken
    <3>1. inbox[n] # <<>>
      BY <1>4 DEF Receive
    <3>2. 1 \in 1..Len(inbox[n]) /\ f = inbox[n][1]
      BY <1>1, <3>1, EmptySeq, LenProperties
    <3> QED
      BY <3>1, <3>2 DEF FloodInduct, FramesHandled
  <2>4. Origin \in handled
    BY <2>3 DEF SentIsHeard
  <2>5. n \in Taken'
    <3>1. waiting[n] # None => n \in Taken
      BY DEF FloodInduct, WaitingHandled
    <3>2. n \in Taken \/ n \in handled'
      BY <2>1, <2>4, <3>1 DEF CountCopy, CancelRelay, HearAgain, HearLastHop, HearFirst, Taken
    <3> QED
      BY <2>2, <3>2 DEF Taken
  <2>6. \A m \in Nodes \ {n} : inbox'[m] = inbox[m]
    BY <1>1, <2>2
  <2> QED
    BY <2>2, <2>3, <2>4, <2>5, <2>6 DEF SentIsHeard, Taken
<1>5. ASSUME NEW n \in Nodes, Relay(n) PROVE SentIsHeard'
  <2> DEFINE frame == [from |-> n, left |-> waiting[n].left]
  <2>1. frame \in Frame /\ frame.from = n
    BY <1>1, <1>5 DEF Relay, Relays, Frame
  <2>2. /\ Transmit(inbox, frame, links, missed) /\ UNCHANGED <<links, handled, forgot>>
        /\ \A m \in Nodes \ {n} : sent'[m] = sent[m]
    BY <1>1, <1>5 DEF Relay
  <2> HIDE DEF frame
  <2>3. \A k \in Nodes :
            /\ <<n, k>> \in links => k \in missed' \/ inbox'[k] # <<>>
            /\ inbox[k] # <<>> => inbox'[k] # <<>>
            /\ missed \subseteq missed'
    BY <1>1, <2>1, <2>2, InRangeHear
  <2>4. Taken' = Taken /\ links' = links /\ (Taken # {} => Origin \in handled')
    BY <2>2 DEF SentIsHeard, Taken
  <2>5. ASSUME NEW m \in Nodes, NEW k \in Nodes, m = Origin \/ sent'[m] > 0, Taken # {},
               <<m, k>> \in links
        PROVE  k \in Taken \cup missed' \/ inbox'[k] # <<>>
    <3>1. CASE m = n
      BY <2>3, <2>5, <3>1
    <3>2. CASE m # n
      <4>1. m = Origin \/ sent[m] > 0
        BY <2>2, <2>5, <3>2
      <4>2. k \in Taken \cup missed \/ inbox[k] # <<>>
        BY <2>5, <4>1 DEF SentIsHeard
      <4> QED
        BY <2>3, <4>2
    <3> QED
      BY <3>1, <3>2
  <2> QED
    BY <2>4, <2>5 DEF SentIsHeard
<1>6. ASSUME NEW n \in Nodes, Fail(n) PROVE SentIsHeard'
  <2>1. /\ UNCHANGED <<links, sent, handled, forgot>> /\ inbox' = [inbox EXCEPT ![n] = <<>>]
        /\ missed' = IF inbox[n] = <<>> THEN missed ELSE missed \cup {n}
    BY <1>6 DEF Fail
  <2>2. \A m \in Nodes : inbox[m] # <<>> => inbox'[m] # <<>> \/ m \in missed'
    BY <1>1, <2>1
  <2>3. missed \subseteq missed' /\ Taken' = Taken
    BY <2>1 DEF Taken
  <2>4. Origin \in handled => Origin \in handled'
    BY <2>1
  <2> QED
    BY <1>3, <2>1, <2>2, <2>3, <2>4
<1>7. ASSUME NEW n \in Nodes, Settle(n) \/ GuardRunsOut(n) \/ Forget(n) \/ Recover(n)
      PROVE  SentIsHeard'
  <2>1. UNCHANGED <<links, sent, missed, inbox>> /\ Taken' = Taken
        /\ (Origin \in handled => Origin \in handled')
    BY <1>7 DEF Settle, GuardRunsOut, Forget, Recover, floodVars, history, Taken
  <2> QED
    BY <1>3, <2>1
<1>8. CASE IdlePoll \/ UNCHANGED vars
  BY <1>3, <1>8 DEF IdlePoll, vars, floodVars, history, Taken
<1> QED
  BY <1>2, <1>4, <1>5, <1>6, <1>7, <1>8 DEF Next

LEMMA HeardInductive == Spec => []SentIsHeard
<1>1. Init => SentIsHeard
  BY DEF Init, SentIsHeard, Taken
<1>2. TypeOK /\ SentIsHeard /\ FloodInduct /\ [Next]_vars => SentIsHeard'
  BY StepHeard
<1> QED
  BY <1>1, <1>2, TypeCorrect, FloodInductive, PTL DEF Spec

\* For every mesh, threshold, hop limit, topology, loss and outage: when a flood has
\* died down, a node that lost no frame of it and yet did not take it has only
\* neighbours that did not send, and of those that scheduled a relay and whose
\* radio works, while no seen cache has forgotten, each has heard more than
\* RELAY_THRESHOLD nodes.
THEOREM LeftOut == Spec => []LeftOutByCancelling
<1>1. TypeOK /\ SentIsHeard /\ RelayedOrCovered => LeftOutByCancelling
  <2> SUFFICES ASSUME TypeOK, SentIsHeard, RelayedOrCovered, Quiet,
                      NEW n \in Nodes \ (Taken \cup missed), NEW m \in Taken, <<m, n>> \in links
               PROVE  /\ m # Origin /\ sent[m] = 0
                      /\ m \in owes /\ forgot = {} => Cardinality(sources[m]) > Threshold
    BY DEF LeftOutByCancelling
  <2>1. m \in Nodes /\ sent[m] \in 0..2
    BY DEF TypeOK, Taken
  <2>2. inbox[n] = <<>> /\ waiting[m] = None
    BY <2>1 DEF Quiet
  <2>3. m # Origin /\ ~(sent[m] > 0)
    BY <2>1, <2>2 DEF SentIsHeard
  <2> QED
    BY <2>1, <2>2, <2>3 DEF RelayedOrCovered
<1> QED
  BY <1>1, TypeCorrect, HeardInductive, RelaysCovered, PTL

(***************************************************************************)
(* The hop limit: no announce goes farther than it allows.                 *)
(***************************************************************************)
\* Nodes that k transmissions can reach from Origin in topology T.
Reached(T, k) ==
    {n \in Nodes : \E j \in 0..k : \E p \in [0..j -> Nodes] :
        p[0] = Origin /\ (\A i \in 1..j : <<p[i - 1], p[i]>> \in T) /\ p[j] = n}

LEMMA ReachedFirst == ASSUME NEW T, NEW k \in Nat PROVE Origin \in Reached(T, k)
<1> DEFINE p == [i \in 0..0 |-> Origin]
<1>1. p \in [0..0 -> Nodes] /\ p[0] = Origin /\ 0 \in 0..k
  BY NodesAssumption
<1>2. \A i \in 1..0 : <<p[i - 1], p[i]>> \in T
  OBVIOUS
<1> HIDE DEF p
<1> QED
  BY <1>1, <1>2, NodesAssumption DEF Reached

\* One transmission more reaches whoever hears a node that is reached.
LEMMA ReachedNext ==
    ASSUME NEW T, NEW k \in Nat, NEW m \in Reached(T, k), NEW n \in Nodes, <<m, n>> \in T
    PROVE  n \in Reached(T, k + 1)
<1>1. PICK j \in 0..k : \E p \in [0..j -> Nodes] :
          p[0] = Origin /\ (\A i \in 1..j : <<p[i - 1], p[i]>> \in T) /\ p[j] = m
  BY DEF Reached
<1>2. PICK p \in [0..j -> Nodes] :
          p[0] = Origin /\ (\A i \in 1..j : <<p[i - 1], p[i]>> \in T) /\ p[j] = m
  BY <1>1
<1> DEFINE q == [i \in 0..(j + 1) |-> IF i = j + 1 THEN n ELSE p[i]]
<1>3. j \in Nat /\ j + 1 \in 0..(k + 1)
  OBVIOUS
<1>4. q \in [0..(j + 1) -> Nodes] /\ q[0] = Origin /\ q[j + 1] = n
  BY <1>2, <1>3
<1>5. ASSUME NEW i \in 1..(j + 1) PROVE <<q[i - 1], q[i]>> \in T
  <2>1. CASE i = j + 1
    BY <1>2, <1>3, <2>1
  <2>2. CASE i # j + 1
    <3>1. i \in 1..j /\ i - 1 \in 0..(j + 1) /\ i \in 0..(j + 1) /\ i - 1 # j + 1
      BY <1>3, <1>5, <2>2
    <3> QED
      BY <1>2, <2>2, <3>1
  <2> QED
    BY <2>1, <2>2
<1> HIDE DEF q
<1> QED
  BY <1>3, <1>4, <1>5 DEF Reached

LEMMA ReachedFarther ==
    ASSUME NEW T, NEW k \in Nat, NEW l \in Nat, k <= l
    PROVE  Reached(T, k) \subseteq Reached(T, l)
<1>1. 0..k \subseteq 0..l
  OBVIOUS
<1> QED
  BY <1>1 DEF Reached

\* A copy has used up as many hops as it has come, and only who has taken the
\* present announce routes by it or is about to.
FramesNear ==
    \A n \in Nodes : \A i \in 1..Len(inbox[n]) :
        inbox[n][i].from \in Reached(links, HopsOf(inbox[n][i]))

WaitingNear ==
    \A n \in Nodes : waiting[n] # None => n \in Reached(links, HopLimit - waiting[n].left)

RoutesTaken ==
    \A n \in Nodes :
        /\ settling[n] # None => n \in Taken
        /\ route[n] # None => route[n].flood <= flood /\ (route[n].flood = flood => n \in Taken)

NearInduct ==
    FramesNear /\ WaitingNear /\ RoutesTaken /\ Taken \subseteq Reached(links, HopLimit + 1)

\* What learn does to the table of one node, it does to a node that has the announce.
LEMMA LearnKeepsTaken ==
    ASSUME TypeOK, RoutesTaken, NEW n \in Nodes, NEW f \in Frame, Learn(n, f),
           n \in Taken', Taken \subseteq Taken', UNCHANGED flood
    PROVE  RoutesTaken'
<1>1. /\ route \in [Nodes -> Route \cup {None}] /\ flood \in Nat
      /\ settling \in [Nodes -> Settling \cup {None}]
  BY BoundsAssumption DEF TypeOK
<1>2. \A m \in Nodes \ {n} : route'[m] = route[m] /\ settling'[m] = settling[m]
  BY <1>1 DEF Learn, LearnTaken, LearnSibling, LearnSettling, LearnStraggler, Commit, routeVars
<1>3. route'[n] = route[n] \/ route'[n].flood = flood
  BY <1>1 DEF Learn, LearnTaken, LearnSibling, LearnSettling, LearnStraggler, Commit, routeVars
<1> QED
  BY <1>1, <1>2, <1>3 DEF RoutesTaken

LEMMA ReceiveNear ==
    ASSUME TypeOK, FloodInduct, NearInduct, NEW n \in Nodes, Receive(n)
    PROVE  NearInduct'
<1> DEFINE f == Head(inbox[n])
<1>1. /\ inbox[n] # <<>> /\ inbox \in [Nodes -> Seq(Frame)]
      /\ waiting \in [Nodes -> Relays \cup {None}]
  BY DEF Receive, TypeOK
<1>2. 1 \in 1..Len(inbox[n]) /\ f = inbox[n][1] /\ f \in Frame
  BY <1>1, EmptySeq, LenProperties, HeadTailProperties
<1>3. /\ f.from \in Reached(links, HopsOf(f)) /\ <<f.from, n>> \in links
      /\ HopsOf(f) \in Nat /\ HopsOf(f) <= HopLimit /\ HopLimit \in Nat
      /\ f.left \in 0..HopLimit /\ HopsOf(f) = HopLimit - f.left
  BY <1>2, BoundsAssumption DEF NearInduct, FramesNear, FloodInduct, FramesHandled, Frame, HopsOf
<1>4. n \in Reached(links, HopsOf(f) + 1)
  BY <1>3, ReachedNext
<1>5. n \in Reached(links, HopLimit + 1)
  BY <1>3, <1>4, ReachedFarther
<1>6. Read(n, f)
  BY DEF Receive, HearOwn, CountCopy, CancelRelay, HearAgain, HearLastHop, HearFirst, Hear
<1> HIDE DEF f
<1>7. UNCHANGED <<flood, links, forgot>>
  BY <1>6 DEF Read
<1>8. FramesNear'
  <2> SUFFICES ASSUME NEW m \in Nodes, NEW i \in 1..Len(inbox'[m])
               PROVE  inbox'[m][i].from \in Reached(links, HopsOf(inbox'[m][i]))
    BY <1>7 DEF FramesNear, HopsOf
  <2>1. CASE m # n
    <3>1. inbox'[m] = inbox[m]
      BY <1>1, <1>6, <2>1 DEF Read
    <3> QED
      BY <3>1 DEF NearInduct, FramesNear
  <2>2. CASE m = n
    <3>1. inbox'[n] = Tail(inbox[n])
      BY <1>1, <1>6 DEF Read
    <3>2. i + 1 \in 1..Len(inbox[n]) /\ inbox'[n][i] = inbox[n][i + 1]
      BY <1>1, <2>2, <3>1, TailFrame
    <3> QED
      BY <2>2, <3>2 DEF NearInduct, FramesNear
  <2> QED
    BY <2>1, <2>2
<1>9. ASSUME n \in Taken', Taken' \in {Taken, Taken \cup {n}}, Learn(n, f), WaitingNear'
      PROVE  NearInduct'
  <2>1. RoutesTaken'
    BY <1>2, <1>7, <1>9, LearnKeepsTaken DEF NearInduct
  <2>2. Taken' \subseteq Reached(links, HopLimit + 1)
    BY <1>5, <1>9 DEF NearInduct
  <2> QED
    BY <1>7, <1>8, <1>9, <2>1, <2>2 DEF NearInduct
<1>10. CASE n = Origin /\ HearOwn(f)
  <2>1. UNCHANGED <<handled, waiting, route, settling>>
    BY <1>10 DEF HearOwn, floodVars, routeVars
  <2> QED
    BY <1>7, <1>8, <2>1 DEF NearInduct, WaitingNear, RoutesTaken, Taken
<1>11. CASE CountCopy(n, f)
  <2>1. /\ waiting[n] \in Relays /\ waiting[n] # None /\ UNCHANGED handled /\ Learn(n, f)
        /\ waiting' = [waiting EXCEPT ![n].heard = @ + 1]
    BY <1>1, <1>11 DEF CountCopy, Hear
  <2>2. /\ waiting'[n].left = waiting[n].left
        /\ \A m \in Nodes \ {n} : waiting'[m] = waiting[m]
    BY <1>1, <2>1 DEF Relays
  <2>3. WaitingNear'
    BY <1>7, <2>1, <2>2 DEF NearInduct, WaitingNear
  <2>4. n \in Taken
    BY <2>1 DEF FloodInduct, WaitingHandled
  <2> QED
    BY <1>7, <1>9, <2>1, <2>3, <2>4 DEF Taken
<1>12. CASE CancelRelay(n, f)
  <2>1. /\ waiting[n] # None /\ UNCHANGED handled /\ Learn(n, f)
        /\ waiting' = [waiting EXCEPT ![n] = None]
    BY <1>12 DEF CancelRelay, Hear
  <2>2. WaitingNear'
    BY <1>1, <1>7, <2>1 DEF NearInduct, WaitingNear
  <2>3. n \in Taken
    BY <2>1 DEF FloodInduct, WaitingHandled
  <2> QED
    BY <1>7, <1>9, <2>1, <2>2, <2>3 DEF Taken
<1>13. CASE HearAgain(n, f) \/ HearLastHop(n, f)
  <2>1. UNCHANGED waiting /\ Learn(n, f) /\ n \in handled' /\ handled' \in {handled, handled \cup {n}}
    BY <1>13 DEF HearAgain, HearLastHop, Hear, floodVars
  <2>2. WaitingNear'
    BY <1>7, <2>1 DEF NearInduct, WaitingNear
  <2> QED
    BY <1>7, <1>9, <2>1, <2>2 DEF Taken
<1>14. CASE HearFirst(n, f)
  <2>1. /\ handled' = handled \cup {n} /\ Learn(n, f) /\ f.left > 0
        /\ waiting' = [waiting EXCEPT ![n] = [left |-> f.left - 1, heard |-> 0]]
    BY <1>14 DEF HearFirst, Hear
  <2>2. /\ waiting'[n].left = f.left - 1
        /\ \A m \in Nodes \ {n} : waiting'[m] = waiting[m]
    BY <1>1, <2>1
  <2>3. HopLimit - (f.left - 1) = HopsOf(f) + 1
    BY <1>3
  <2>4. WaitingNear'
    BY <1>4, <1>7, <2>2, <2>3 DEF NearInduct, WaitingNear
  <2> QED
    BY <1>7, <1>9, <2>1, <2>4 DEF Taken
<1> QED
  BY <1>10, <1>11, <1>12, <1>13, <1>14 DEF Receive, f

LEMMA AnnounceNear == ASSUME TypeOK, NearInduct, Announce PROVE NearInduct'
<1> DEFINE frame == [from |-> Origin, left |-> HopLimit]
<1>1. frame \in Frame /\ frame.from = Origin /\ HopsOf(frame) = 0
  BY NodesAssumption, BoundsAssumption DEF Frame, HopsOf
<1>2. /\ \A n \in Nodes : inbox[n] = <<>> /\ waiting[n] = None /\ settling[n] = None
      /\ Taken' = {Origin} /\ flood' = flood + 1
      /\ UNCHANGED <<waiting, route, settling>> /\ Transmit(inbox, frame, links', {})
  BY DEF Announce, Quiet, Taken
<1>3. inbox \in [Nodes -> Seq(Frame)] /\ flood \in Nat /\ route \in [Nodes -> Route \cup {None}]
  BY BoundsAssumption DEF TypeOK
<1> HIDE DEF frame
<1>4. FramesNear'
  <2> SUFFICES ASSUME NEW m \in Nodes, NEW i \in 1..Len(inbox'[m])
               PROVE  inbox'[m][i].from \in Reached(links', HopsOf(inbox'[m][i]))
    BY DEF FramesNear, HopsOf
  <2>1. inbox'[m] = <<>> \/ inbox'[m] = Append(inbox[m], frame)
    BY <1>1, <1>2, <1>3, TransmitReaches
  <2>2. inbox'[m] = Append(inbox[m], frame) /\ i \notin 1..Len(inbox[m])
    BY <1>2, <2>1
  <2>3. inbox'[m][i] = frame
    BY <1>1, <1>3, <2>2, AppendedFrame
  <2> QED
    BY <1>1, <2>3, ReachedFirst
<1>5. WaitingNear'
  BY <1>2 DEF WaitingNear
<1>6. RoutesTaken'
  <2> SUFFICES ASSUME NEW n \in Nodes, route[n] # None
               PROVE  route[n].flood <= flood' /\ route[n].flood # flood'
    BY <1>2 DEF RoutesTaken
  <2>1. route[n].flood <= flood /\ route[n].flood \in Int
    BY <1>3 DEF NearInduct, RoutesTaken, Route
  <2> QED
    BY <1>2, <1>3, <2>1
<1>7. Taken' \subseteq Reached(links', HopLimit + 1)
  BY <1>2, ReachedFirst, BoundsAssumption
<1> QED
  BY <1>4, <1>5, <1>6, <1>7 DEF NearInduct

LEMMA StepNear ==
    ASSUME TypeOK, FloodInduct, NearInduct, [Next]_vars
    PROVE  NearInduct'
<1>1. CASE Announce
  BY <1>1, AnnounceNear
<1>2. ASSUME NEW n \in Nodes, Receive(n) PROVE NearInduct'
  BY <1>2, ReceiveNear
<1>3. ASSUME NEW n \in Nodes, Relay(n) PROVE NearInduct'
  <2> DEFINE frame == [from |-> n, left |-> waiting[n].left]
  <2>1. /\ waiting[n] # None /\ waiting' = [waiting EXCEPT ![n] = None]
        /\ Transmit(inbox, frame, links, missed)
        /\ UNCHANGED <<flood, links, handled, forgot, route, settling>>
    BY <1>3 DEF Relay, routeVars
  <2>2. inbox \in [Nodes -> Seq(Frame)] /\ waiting \in [Nodes -> Relays \cup {None}]
    BY DEF TypeOK
  <2>3. frame \in Frame /\ frame.from = n /\ HopsOf(frame) = HopLimit - waiting[n].left
    BY <2>1, <2>2 DEF Relays, Frame, HopsOf
  <2>4. n \in Reached(links, HopsOf(frame))
    BY <2>1, <2>3 DEF NearInduct, WaitingNear
  <2> HIDE DEF frame
  <2>5. FramesNear'
    <3> SUFFICES ASSUME NEW m \in Nodes, NEW i \in 1..Len(inbox'[m])
                 PROVE  inbox'[m][i].from \in Reached(links, HopsOf(inbox'[m][i]))
      BY <2>1 DEF FramesNear, HopsOf
    <3>1. CASE inbox'[m] = inbox[m]
      BY <3>1 DEF NearInduct, FramesNear
    <3>2. CASE inbox'[m] = Append(inbox[m], frame)
      <4>1. \/ i \in 1..Len(inbox[m]) /\ inbox'[m][i] = inbox[m][i]
            \/ inbox'[m][i] = frame
        BY <2>2, <2>3, <3>2, AppendedFrame
      <4> QED
        BY <2>3, <2>4, <4>1 DEF NearInduct, FramesNear
    <3> QED
      BY <2>1, <2>2, <2>3, <3>1, <3>2, TransmitReaches
  <2>6. WaitingNear'
    BY <2>1, <2>2 DEF NearInduct, WaitingNear
  <2>7. RoutesTaken'
    BY <2>1 DEF NearInduct, RoutesTaken, Taken
  <2> QED
    BY <2>1, <2>5, <2>6, <2>7 DEF NearInduct, Taken
<1>4. ASSUME NEW n \in Nodes, Settle(n) PROVE NearInduct'
  <2>1. /\ settling[n] # None /\ Commit(n, settling[n].via, settling[n].hops)
        /\ UNCHANGED <<flood, links, inbox, handled, forgot, waiting>>
    BY <1>4 DEF Settle, floodVars, history
  <2>2. /\ route \in [Nodes -> Route \cup {None}] /\ flood \in Nat
        /\ settling \in [Nodes -> Settling \cup {None}]
    BY BoundsAssumption DEF TypeOK
  <2>3. /\ route'[n].flood = flood /\ settling'[n] = None
        /\ \A m \in Nodes \ {n} : route'[m] = route[m] /\ settling'[m] = settling[m]
    BY <2>1, <2>2 DEF Commit
  <2>4. RoutesTaken'
    BY <2>1, <2>2, <2>3 DEF NearInduct, RoutesTaken, Taken
  <2> QED
    BY <2>1, <2>4 DEF NearInduct, FramesNear, HopsOf, WaitingNear, Taken
<1>5. ASSUME NEW n \in Nodes, Fail(n) PROVE NearInduct'
  <2>1. /\ inbox' = [inbox EXCEPT ![n] = <<>>]
        /\ UNCHANGED <<flood, links, handled, forgot, route, settling>>
        /\ waiting' \in {waiting, [waiting EXCEPT ![n] = None]}
    BY <1>5 DEF Fail, routeVars
  <2>2. /\ inbox \in [Nodes -> Seq(Frame)] /\ Len(<<>>) = 0
        /\ waiting \in [Nodes -> Relays \cup {None}]
    BY DEF TypeOK
  <2>3. \A m \in Nodes : inbox'[m] = inbox[m] \/ inbox'[m] = <<>>
    BY <2>1, <2>2
  <2>4. FramesNear'
    BY <2>1, <2>2, <2>3 DEF NearInduct, FramesNear, HopsOf
  <2>5. WaitingNear'
    BY <2>1, <2>2 DEF NearInduct, WaitingNear
  <2> QED
    BY <2>1, <2>4, <2>5 DEF NearInduct, RoutesTaken, Taken
<1>6. ASSUME NEW n \in Nodes, GuardRunsOut(n) \/ Forget(n) \/ Recover(n) PROVE NearInduct'
  <2>1. UNCHANGED <<flood, links, inbox, waiting, route, settling>> /\ Taken' = Taken
    BY <1>6 DEF GuardRunsOut, Lapse, Forget, Recover, floodVars, routeVars, history, Taken
  <2> QED
    BY <2>1 DEF NearInduct, FramesNear, HopsOf, WaitingNear, RoutesTaken
<1>7. CASE IdlePoll \/ UNCHANGED vars
  BY <1>7 DEF IdlePoll, vars, floodVars, routeVars, history, NearInduct, FramesNear, HopsOf,
              WaitingNear, RoutesTaken, Taken
<1> QED
  BY <1>1, <1>2, <1>3, <1>4, <1>5, <1>6, <1>7 DEF Next

\* An announce is taken, and routed by, nowhere but within its hop limit: by no
\* node that HopLimit + 1 transmissions do not reach, for any nodes, topologies,
\* losses, outages and forgetful caches.
THEOREM FloodsStayNear ==
    Spec => [](\A n \in Nodes :
                  n \in Taken \/ (route[n] # None /\ route[n].flood = flood)
                      => n \in Reached(links, HopLimit + 1))
<1>1. Init => NearInduct
  <2>1. Init => FramesNear /\ WaitingNear /\ RoutesTaken /\ Taken = {}
    BY DEF Init, FramesNear, WaitingNear, RoutesTaken, Taken
  <2> QED
    BY <2>1 DEF NearInduct
<1>2. TypeOK /\ FloodInduct /\ NearInduct /\ [Next]_vars => NearInduct'
  BY StepNear
<1>3. NearInduct =>
         \A n \in Nodes :
            n \in Taken \/ (route[n] # None /\ route[n].flood = flood)
                => n \in Reached(links, HopLimit + 1)
  BY DEF NearInduct, RoutesTaken, Reached
<1> QED
  BY <1>1, <1>2, <1>3, TypeCorrect, FloodInductive, PTL DEF Spec
=============================================================================
