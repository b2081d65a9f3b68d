---------------------------- MODULE NodeProofs ----------------------------
(***************************************************************************)
(* Proofs about Node: the loop calls its flooder as Flood says, loses no   *)
(* relay but in a failing turn, learns nothing it has neither verified nor *)
(* rejected, and, while the radio works, is late by at most one read and   *)
(* the clients it served.                                                  *)
(***************************************************************************)
EXTENDS Node, SequenceTheorems, TLAPS

LoopTypes ==
    /\ wait \in Nat /\ served \in Nat /\ failures \in Nat
    /\ aired \in Nat /\ nextAnnounce \in Nat
    /\ turn \in {"recv", "due", "send", "announce", "serve", "client", "down"}
    /\ link \in {"live", "dead"}

(***************************************************************************)
(* What module FloodProofs has shown of a flooder, whoever calls it.  The  *)
(* instance has operators of its own, which are those of Flooder word for  *)
(* word: each step below expands both.                                     *)
(***************************************************************************)
FlooderProofs == INSTANCE FloodProofs

LEMMA FlooderAssumptions ==
    /\ FlooderProofs!KeysAssumption
    /\ FlooderProofs!BoundsAssumption
    /\ FlooderProofs!NoneAssumption
<1>1. FlooderProofs!KeysAssumption
  BY KeysAssumption DEF FlooderProofs!KeysAssumption, FlooderProofs!IsFiniteSet, IsFiniteSet
<1>2. FlooderProofs!BoundsAssumption
  BY BoundsAssumption DEF FlooderProofs!BoundsAssumption
<1>3. FlooderProofs!Waiting = Waiting
  BY DEF FlooderProofs!Waiting, Waiting
<1>4. FlooderProofs!NoneAssumption
  BY <1>3, NoneAssumption DEF FlooderProofs!NoneAssumption
<1> QED
  BY <1>1, <1>2, <1>4

LEMMA SameTypes ==
    /\ Flooder!TypeOK => FlooderProofs!TypeOK
    /\ FlooderProofs!TypeOK => Flooder!TypeOK
BY DEF Flooder!TypeOK, FlooderProofs!TypeOK, Flooder!Waiting,
       FlooderProofs!Waiting, Flooder!IsInjective, FlooderProofs!IsInjective

LEMMA SameCache ==
    ASSUME NEW s, NEW k
    PROVE  /\ Flooder!MoveToEnd(s, k) = FlooderProofs!MoveToEnd(s, k)
           /\ Flooder!Remember(s, k) = FlooderProofs!Remember(s, k)
           /\ Flooder!ToSet(s) = FlooderProofs!ToSet(s)
BY DEF Flooder!MoveToEnd, FlooderProofs!MoveToEnd, Flooder!Remember,
       FlooderProofs!Remember, Flooder!Without, FlooderProofs!Without,
       Flooder!Position, FlooderProofs!Position, Flooder!RemoveAt,
       FlooderProofs!RemoveAt, Flooder!ToSet, FlooderProofs!ToSet

LEMMA SameDelays ==
    ASSUME NEW rssi
    PROVE  Flooder!RelayDelays(rssi) = FlooderProofs!RelayDelays(rssi)
BY DEF Flooder!RelayDelays, FlooderProofs!RelayDelays, Flooder!Contention,
       FlooderProofs!Contention, Flooder!BandOf, FlooderProofs!BandOf,
       Flooder!DelayBands, FlooderProofs!DelayBands, Flooder!Band, FlooderProofs!Band

LEMMA SameBehaviours ==
    Flooder!Init /\ [][Flooder!Next]_(Flooder!vars)
        => FlooderProofs!Init /\ [][FlooderProofs!Next]_(FlooderProofs!vars)
<1>1. Flooder!Init => FlooderProofs!Init
  BY DEF Flooder!Init, FlooderProofs!Init
<1>2. Flooder!Next => FlooderProofs!Next
  <2>1. \A k : Flooder!HearOwn(k) \/ Flooder!CountCopy(k) \/ Flooder!CancelRelay(k)
           => FlooderProofs!HearOwn(k) \/ FlooderProofs!CountCopy(k) \/ FlooderProofs!CancelRelay(k)
    BY DEF Flooder!HearOwn, FlooderProofs!HearOwn, Flooder!CountCopy,
           FlooderProofs!CountCopy, Flooder!CancelRelay, FlooderProofs!CancelRelay
  <2>2. \A k : /\ Flooder!Remembered(k) <=> FlooderProofs!Remembered(k)
               /\ Flooder!Idle(k) <=> FlooderProofs!Idle(k)
               /\ Flooder!Used(k) <=> FlooderProofs!Used(k)
    BY SameCache DEF Flooder!Remembered, FlooderProofs!Remembered, Flooder!Cached,
                     FlooderProofs!Cached, Flooder!Idle, FlooderProofs!Idle,
                     Flooder!Used, FlooderProofs!Used
  <2>3. \A k : Flooder!AddToCache(k) => FlooderProofs!AddToCache(k)
    BY <2>2, SameCache DEF Flooder!AddToCache, FlooderProofs!AddToCache
  <2>4. \A k : Flooder!Accept(k) => FlooderProofs!Accept(k)
    <3>1. \A k : Flooder!Forgettable(k) <=> FlooderProofs!Forgettable(k)
      BY DEF Flooder!Forgettable, FlooderProofs!Forgettable, Flooder!Cardinality,
             FlooderProofs!Cardinality
    <3> QED
      BY <2>2, <2>3, <3>1 DEF Flooder!Accept, FlooderProofs!Accept
  <2>5. \A k : Flooder!HearAgain(k) => FlooderProofs!HearAgain(k)
    BY <2>2, SameCache DEF Flooder!HearAgain, FlooderProofs!HearAgain
  <2>6. \A k, hops : Flooder!AcceptLastHop(k, hops) => FlooderProofs!AcceptLastHop(k, hops)
    BY <2>4 DEF Flooder!AcceptLastHop, FlooderProofs!AcceptLastHop
  <2>7. ASSUME NEW k, NEW hops, NEW rssi, Flooder!ScheduleRelay(k, hops, rssi)
        PROVE  FlooderProofs!ScheduleRelay(k, hops, rssi)
    BY <2>4, <2>7, SameDelays DEF Flooder!ScheduleRelay, FlooderProofs!ScheduleRelay
  <2>8. \A k : Flooder!SendAnnounce(k) => FlooderProofs!SendAnnounce(k)
    BY <2>3 DEF Flooder!SendAnnounce, FlooderProofs!SendAnnounce
  <2>9. Flooder!Due \/ Flooder!PassTime => FlooderProofs!Due \/ FlooderProofs!PassTime
    BY DEF Flooder!Due, FlooderProofs!Due, Flooder!PassTime, FlooderProofs!PassTime,
           Flooder!Ready, FlooderProofs!Ready
  <2> QED
    BY <2>1, <2>5, <2>6, <2>7, <2>8, <2>9 DEF Flooder!Next, FlooderProofs!Next
<1>3. [Flooder!Next]_(Flooder!vars) => [FlooderProofs!Next]_(FlooderProofs!vars)
  BY <1>2 DEF Flooder!vars, FlooderProofs!vars
<1> QED
  BY <1>1, <1>3, PTL

LEMMA FloodersCalls ==
    Flooder!Init /\ [][Flooder!Next]_(Flooder!vars) => []Flooder!TypeOK /\ []Flooder!RelayOnce
<1>1. FlooderProofs!RelayInduct => Flooder!RelayOnce
  BY DEF FlooderProofs!RelayInduct, FlooderProofs!RelayOnce, Flooder!RelayOnce
<1>2. FlooderProofs!Init /\ [][FlooderProofs!Next]_(FlooderProofs!vars)
         => []FlooderProofs!TypeOK /\ []FlooderProofs!RelayInduct
  BY FlooderAssumptions, FlooderProofs!CallsKeepTypes, FlooderProofs!CallsRelayOnce, PTL
<1> QED
  BY <1>1, <1>2, SameBehaviours, SameTypes, PTL

LEMMA FloodersOrder ==
    ASSUME TickMs <= 5
    PROVE  Flooder!Init /\ [][Flooder!Next]_(Flooder!vars) => []Flooder!FarFirst
<1>1. FlooderProofs!FarFirst => Flooder!FarFirst
  BY DEF Flooder!FarFirst, FlooderProofs!FarFirst, Flooder!BandOf,
         FlooderProofs!BandOf, Flooder!DelayBands, FlooderProofs!DelayBands,
         Flooder!Band, FlooderProofs!Band
<1>2. FlooderProofs!Init /\ [][FlooderProofs!Next]_(FlooderProofs!vars)
         => []FlooderProofs!FarFirst
  BY FlooderAssumptions, FlooderProofs!CallsFarFirst, PTL
<1> QED
  BY <1>1, <1>2, SameBehaviours, PTL

\* A hit on the cache or an addition to it brings in no key but its own.
LEMMA CacheWithin ==
    ASSUME Flooder!TypeOK, NEW k \in Keys,
           NEW r, r = Flooder!MoveToEnd(seen, k) \/ r = Flooder!Remember(seen, k)
    PROVE  Flooder!ToSet(r) \subseteq Flooder!ToSet(seen) \cup {k}
<1>1. seen \in Seq(Keys) /\ FlooderProofs!IsInjective(seen) /\ Len(seen) <= SeenCapacity
  BY SameTypes DEF FlooderProofs!TypeOK
<1> DEFINE t == FlooderProofs!MoveToEnd(seen, k)
           s == FlooderProofs!Remember(seen, k)
<1>2. FlooderProofs!ToSet(t) = FlooderProofs!ToSet(seen) \cup {k}
  BY <1>1, FlooderAssumptions, FlooderProofs!MoveToEndShape
<1>3. FlooderProofs!ToSet(s) \subseteq FlooderProofs!ToSet(t)
  BY <1>1, FlooderAssumptions, FlooderProofs!RememberShape
<1>4. r = t \/ r = s
  BY SameCache
<1> HIDE DEF t, s
<1> QED
  BY <1>2, <1>3, <1>4, SameCache

\* Relay delays are whole ticks.
LEMMA DelaysInNat ==
    ASSUME NEW rssi \in Signals, NEW d \in Flooder!RelayDelays(rssi)
    PROVE  d \in Nat
<1>1. FlooderProofs!RelayDelays(rssi) \subseteq Nat
  BY FlooderAssumptions, FlooderProofs!DelaysAreTicks
<1> QED
  BY <1>1, SameDelays

(***************************************************************************)
(* The flooder in the loop                                                 *)
(***************************************************************************)
\* A step of the loop is a step of the flooder or leaves it alone.
LEMMA StepOfFlood == [Next]_vars => [Flooder!Next]_(Flooder!vars)
<1> SUFFICES ASSUME Next \/ UNCHANGED vars PROVE Flooder!Next \/ UNCHANGED Flooder!vars
  OBVIOUS
<1>1. ASSUME UNCHANGED flood PROVE UNCHANGED Flooder!vars
  BY <1>1 DEF flood, Flooder!vars
<1>2. CASE UNCHANGED vars
  BY <1>1, <1>2 DEF vars
<1>3. ASSUME NEW k \in Keys, HandleOwn(k) PROVE Flooder!Next
  BY <1>3 DEF HandleOwn, Flooder!Next
<1>4. ASSUME NEW k \in Keys, NEW hops \in 0..MaxHops, NEW rssi \in Signals,
             HandleFirst(k, hops, rssi)
      PROVE  Flooder!Next
  BY <1>4 DEF HandleFirst, Flooder!Next
<1>5. ASSUME NEW k \in Keys, HandleAgain(k) PROVE Flooder!Next
  BY <1>5 DEF HandleAgain, Flooder!Next
<1>6. CASE TakeDue
  BY <1>1, <1>6 DEF TakeDue, Flooder!Next
<1>7. CASE Announce \/ AnswerAnnounce
  <2>1. \/ \E k \in OwnKeys : Flooder!SendAnnounce(k)
        \/ UNCHANGED flood
    BY <1>7 DEF Announce, AnswerAnnounce, SendAnnounce
  <2> QED
    BY <1>1, <2>1, KeysAssumption DEF Flooder!Next
<1>8. CASE PassTime
  BY <1>8 DEF PassTime, Flooder!Next, Flooder!PassTime, Flooder!vars
<1>9. CASE \/ RecvNothing \/ SendFails \/ Serve \/ ClientTimesOut \/ RecvFails \/ Recover
           \/ AnswerQuery \/ Fail \/ Connect \/ \E k \in Keys : SendRelay(k)
  BY <1>1, <1>9 DEF RecvNothing, SendFails, Serve, ClientTimesOut, RecvFails, Recover,
       AnswerQuery, Fail, Connect, SendRelay
<1> QED
  BY <1>2, <1>3, <1>4, <1>5, <1>6, <1>7, <1>8, <1>9 DEF Next, Run, Handle

\* A packet that is scheduled waits from now on, one hop spent.
LEMMA Scheduling ==
    ASSUME Flooder!TypeOK, NEW k \in Keys, NEW hops \in 0..MaxHops, NEW rssi \in Signals,
           Flooder!ScheduleRelay(k, hops, rssi)
    PROVE  \E w \in Flooder!Waiting :
              /\ w.sendAt >= now
              /\ pending' = [pending EXCEPT ![k] = w]
<1>1. PICK d \in Flooder!RelayDelays(rssi) : pending' = [pending EXCEPT
          ![k] = [hops |-> hops - 1, sendAt |-> now + d, heard |-> 0, rssi |-> rssi]]
  BY DEF Flooder!ScheduleRelay
<1> DEFINE w == [hops |-> hops - 1, sendAt |-> now + d, heard |-> 0, rssi |-> rssi]
<1>2. d \in Nat /\ now \in Nat
  BY DelaysInNat DEF Flooder!TypeOK
<1>3. hops - 1 \in 0..MaxHops /\ now + d \in Nat /\ 0 \in 0..(Threshold - 1)
  <2>1. hops > 0 /\ MaxHops \in Nat /\ Threshold \in Nat \ {0}
    BY BoundsAssumption DEF Flooder!ScheduleRelay
  <2> QED
    BY <2>1, <1>2
<1>4. w \in Flooder!Waiting /\ w.sendAt = now + d
  BY <1>3 DEF Flooder!Waiting
<1>5. now + d >= now
  BY <1>2
<1>6. pending' = [pending EXCEPT ![k] = w]
  BY <1>1
<1> HIDE DEF w
<1> QED
  BY <1>4, <1>5, <1>6

\* A further copy leaves a relay where it was, and due when it was.
LEMMA Counting ==
    ASSUME Flooder!TypeOK, NEW k \in Keys, Flooder!CountCopy(k)
    PROVE  \E w \in Flooder!Waiting :
              /\ pending[k] # NoRelay /\ w.sendAt = pending[k].sendAt
              /\ pending' = [pending EXCEPT ![k] = w]
<1> DEFINE p == pending[k]
           w == [p EXCEPT !.heard = @ + 1]
<1>1. p \in Flooder!Waiting /\ p # NoRelay /\ p.heard + 1 < Threshold
  BY DEF Flooder!TypeOK, Flooder!CountCopy
<1>2. pending' = [pending EXCEPT ![k] = w]
  BY DEF Flooder!CountCopy, Flooder!TypeOK
<1>3. w \in Flooder!Waiting /\ w.sendAt = p.sendAt
  <2> HIDE DEF p
  <2>1. p.heard \in Nat /\ p.heard + 1 \in 0..(Threshold - 1)
    BY <1>1, BoundsAssumption DEF Flooder!Waiting
  <2> QED
    BY <2>1, <1>1 DEF Flooder!Waiting
<1> QED
  BY <1>1, <1>2, <1>3

LEMMA InitTypes == Init => LoopTypes
BY NodeAssumption DEF Init, Flooder!Init, LoopTypes

LEMMA LoopStepType == Flooder!TypeOK /\ LoopTypes /\ [Next]_vars => LoopTypes'
<1> SUFFICES ASSUME Flooder!TypeOK, LoopTypes, Next \/ UNCHANGED vars PROVE LoopTypes'
  OBVIOUS
<1> USE DEF LoopTypes, Go
<1>1. now \in Nat /\ RecvTime \in Nat /\ ClientTime \in Nat /\ Interval \in Nat
  BY NodeAssumption DEF Flooder!TypeOK
<1>2. CASE UNCHANGED vars
  BY <1>2 DEF vars, control
<1>3. CASE RecvNothing \/ Handle
  BY <1>3 DEF RecvNothing, Handle, HandleOwn, HandleFirst, HandleAgain, Handled, control
<1>4. CASE TakeDue \/ SendFails \/ \E k \in Keys : SendRelay(k)
  BY <1>4 DEF TakeDue, SendFails, SendRelay, control
<1>5. CASE Announce \/ AnswerAnnounce
  BY <1>1, <1>5 DEF Announce, AnswerAnnounce, SendAnnounce, control
<1>6. CASE Serve \/ AnswerQuery \/ ClientTimesOut
  BY <1>1, <1>6 DEF Serve, AnswerQuery, ClientTimesOut, control
<1>7. CASE RecvFails \/ Recover \/ Fail \/ Connect
  BY <1>1, <1>7 DEF RecvFails, Recover, Fail, Connect, control
<1>8. CASE PassTime
  BY <1>8 DEF PassTime, control
<1> QED
  BY <1>2, <1>3, <1>4, <1>5, <1>6, <1>7, <1>8 DEF Next, Run

\* The rest of Node's variables.
RestTypes ==
    /\ wait \in 0..(RecvTime + ClientTime)
    /\ batch \subseteq Keys /\ owed \subseteq Keys
    /\ routed \subseteq Keys /\ keyed \subseteq Keys /\ rejected \subseteq Keys
    /\ clients \in Nat /\ callers \in Nat /\ failures \in 0..MaxFailures

LEMMA InitRest == Init => RestTypes
BY NodeAssumption DEF Init, RestTypes

LEMMA RestStepType == LoopTypes /\ RestTypes /\ [Next]_vars => RestTypes'
<1> SUFFICES ASSUME LoopTypes, RestTypes, Next \/ UNCHANGED vars PROVE RestTypes'
  OBVIOUS
<1> USE DEF RestTypes, Go
<1>1. /\ RecvTime \in Nat /\ ClientTime \in Nat /\ MaxFailures \in Nat
      /\ 0 \in 0..(RecvTime + ClientTime) /\ RecvTime \in 0..(RecvTime + ClientTime)
      /\ ClientTime \in 0..(RecvTime + ClientTime)
  BY NodeAssumption
<1>2. CASE UNCHANGED vars
  BY <1>2 DEF vars, table, control
<1>3. CASE RecvNothing
  BY <1>1, <1>3 DEF RecvNothing, table, control
<1>4. ASSUME NEW k \in Keys, HandleOwn(k) PROVE RestTypes'
  BY <1>1, <1>4 DEF HandleOwn, Handled, table, control
<1>5. ASSUME NEW k \in Keys, NEW hops, NEW rssi, HandleFirst(k, hops, rssi) PROVE RestTypes'
  BY <1>1, <1>5 DEF HandleFirst, Handled, LearnFirst, control
<1>6. ASSUME NEW k \in Keys, HandleAgain(k) PROVE RestTypes'
  BY <1>1, <1>6 DEF HandleAgain, Handled, control
<1>7. CASE TakeDue
  BY <1>1, <1>7 DEF TakeDue, Flooder!Ready, table, control
<1>8. CASE SendFails \/ \E k \in Keys : SendRelay(k)
  BY <1>1, <1>8 DEF SendFails, SendRelay, table, control
<1>9. CASE Announce \/ AnswerAnnounce
  BY <1>1, <1>9 DEF Announce, AnswerAnnounce, SendAnnounce, table, control
<1>10. CASE Serve \/ AnswerQuery \/ ClientTimesOut
  BY <1>1, <1>10 DEF Serve, AnswerQuery, ClientTimesOut, table, control
<1>11. CASE RecvFails \/ Recover \/ Connect
  BY <1>1, <1>11 DEF RecvFails, Recover, Connect, table, control
<1>12. CASE Fail
  BY <1>1, <1>12 DEF Fail, LoopTypes, table, control
<1>13. CASE PassTime
  BY <1>1, <1>13 DEF PassTime, table, control
<1> QED
  BY <1>2, <1>3, <1>4, <1>5, <1>6, <1>7, <1>8, <1>9, <1>10, <1>11, <1>12, <1>13
     DEF Next, Run, Handle

(***************************************************************************)
(* What is scheduled, and what was heard                                   *)
(***************************************************************************)
\* The first copy of a packet schedules that packet at most.
LEMMA FirstScheduled ==
    ASSUME Flooder!TypeOK, NEW k \in Keys, NEW hops \in 0..MaxHops, NEW rssi \in Signals,
           Flooder!ScheduleRelay(k, hops, rssi)
    PROVE  Scheduled' = Scheduled \cup {k} /\ k \notin Scheduled
<1>1. PICK w \in Flooder!Waiting : pending' = [pending EXCEPT ![k] = w]
  BY Scheduling
<1>2. w # NoRelay
  BY NoneAssumption DEF Flooder!Waiting, Waiting
<1> QED
  BY <1>1, <1>2 DEF Scheduled, Flooder!TypeOK, Flooder!ScheduleRelay, Flooder!Accept, Flooder!Idle

LEMMA CountedScheduled ==
    ASSUME Flooder!TypeOK, NEW k \in Keys, Flooder!CountCopy(k)
    PROVE  Scheduled' = Scheduled
<1>1. PICK w \in Flooder!Waiting : pending[k] # NoRelay /\ pending' = [pending EXCEPT ![k] = w]
  BY Counting
<1>2. w # NoRelay
  BY NoneAssumption DEF Flooder!Waiting, Waiting
<1> QED
  BY <1>1, <1>2 DEF Scheduled, Flooder!TypeOK

LEMMA InitBatch == Init => BatchInTurn
BY DEF Init, Flooder!Init, BatchInTurn, Scheduled

\* A relay is owed from when it is scheduled until it is sent, cancelled or
\* lost with its batch.
LEMMA BatchStep ==
    Flooder!TypeOK /\ HeardIsKnown /\ BatchInTurn /\ [Next]_vars => BatchInTurn'
<1> SUFFICES ASSUME Flooder!TypeOK, HeardIsKnown, BatchInTurn, Next \/ UNCHANGED vars
             PROVE  BatchInTurn'
  OBVIOUS
<1>1. /\ turn # "send" => batch = {}
      /\ owed = Scheduled \cup batch /\ Scheduled \cap batch = {}
  BY DEF BatchInTurn
<1>2. ASSUME UNCHANGED pending PROVE Scheduled' = Scheduled
  BY <1>2 DEF Scheduled
<1>3. CASE UNCHANGED vars
  BY <1>1, <1>2, <1>3 DEF vars, flood, BatchInTurn
<1>4. ASSUME NEW k \in Keys, HandleOwn(k) PROVE BatchInTurn'
  <2>1. k \notin Scheduled
    BY <1>4 DEF HeardIsKnown, HandleOwn, Flooder!HearOwn
  <2>2. Scheduled' = Scheduled
    BY <1>4, <2>1 DEF Scheduled, Flooder!TypeOK, HandleOwn, Flooder!HearOwn
  <2> QED
    BY <1>1, <1>4, <2>2 DEF HandleOwn, Handled, Go, BatchInTurn
<1>5. ASSUME NEW k \in Keys, NEW hops \in 0..MaxHops, NEW rssi \in Signals,
             HandleFirst(k, hops, rssi)
      PROVE  BatchInTurn'
  <2>1. batch = {} /\ batch' = {} /\ turn' = "due"
    BY <1>1, <1>5 DEF HandleFirst, Handled, Go
  <2>2. CASE Flooder!AcceptLastHop(k, hops) /\ UNCHANGED owed
    BY <1>1, <1>2, <2>1, <2>2 DEF Flooder!AcceptLastHop, BatchInTurn
  <2>3. CASE Flooder!ScheduleRelay(k, hops, rssi) /\ owed' = owed \cup {k}
    BY <1>1, <2>1, <2>3, FirstScheduled DEF BatchInTurn
  <2> QED
    BY <1>5, <2>2, <2>3 DEF HandleFirst
<1>6. ASSUME NEW k \in Keys, HandleAgain(k) PROVE BatchInTurn'
  <2>1. batch = {} /\ batch' = {} /\ turn' = "due"
    BY <1>1, <1>6 DEF HandleAgain, Handled, Go
  <2>2. CASE Flooder!CountCopy(k) /\ UNCHANGED owed
    BY <1>1, <2>1, <2>2, CountedScheduled DEF BatchInTurn
  <2>3. CASE Flooder!HearAgain(k) /\ UNCHANGED owed
    BY <1>1, <1>2, <2>1, <2>3 DEF Flooder!HearAgain, BatchInTurn
  <2>4. CASE Flooder!CancelRelay(k) /\ owed' = owed \ {k}
    <3>1. Scheduled' = Scheduled \ {k}
      BY <2>4 DEF Scheduled, Flooder!TypeOK, Flooder!CancelRelay
    <3> QED
      BY <1>1, <2>1, <2>4, <3>1 DEF BatchInTurn
  <2> QED
    BY <1>6, <2>2, <2>3, <2>4 DEF HandleAgain
<1>7. CASE TakeDue
  <2>1. CASE Flooder!Ready = {}
    BY <1>1, <1>2, <1>7, <2>1 DEF TakeDue, Go, flood, Flooder!Due, BatchInTurn
  <2>2. CASE Flooder!Ready # {}
    <3>1. Flooder!Due /\ batch' = Flooder!Ready /\ turn' = "send" /\ owed' = owed /\ batch = {}
      BY <1>1, <1>7, <2>2 DEF TakeDue, Go
    <3>2. Flooder!Ready \subseteq Scheduled
      BY DEF Flooder!Ready, Scheduled
    <3>3. Scheduled' = Scheduled \ Flooder!Ready
      BY <3>1 DEF Flooder!Due, Scheduled
    <3> QED
      BY <1>1, <3>1, <3>2, <3>3 DEF BatchInTurn
  <2> QED
    BY <2>1, <2>2
<1>8. CASE SendFails \/ \E k \in Keys : SendRelay(k)
  BY <1>1, <1>2, <1>8 DEF SendFails, SendRelay, Go, flood, BatchInTurn
<1>9. CASE Announce \/ AnswerAnnounce
  <2>1. /\ UNCHANGED <<pending, batch, owed>>
        /\ turn # "send" /\ turn' # "send"
    BY <1>9 DEF Announce, AnswerAnnounce, SendAnnounce, Flooder!SendAnnounce, Go, flood
  <2> QED
    BY <1>1, <1>2, <2>1 DEF BatchInTurn
<1>10. CASE RecvNothing \/ Serve \/ AnswerQuery \/ ClientTimesOut \/ RecvFails \/ Recover
  BY <1>1, <1>2, <1>10 DEF RecvNothing, Serve, AnswerQuery, ClientTimesOut, RecvFails,
       Recover, Go, flood, BatchInTurn
<1>11. CASE Fail \/ Connect \/ PassTime
  BY <1>1, <1>2, <1>11 DEF Fail, Connect, PassTime, flood, BatchInTurn
<1> QED
  BY <1>3, <1>4, <1>5, <1>6, <1>7, <1>8, <1>9, <1>10, <1>11 DEF Next, Run, Handle

LEMMA InitHeard == Init => HeardIsKnown
<1> SUFFICES ASSUME Init PROVE HeardIsKnown
  OBVIOUS
<1>1. Flooder!Cached = {}
  BY EmptySeq DEF Init, Flooder!Init, Flooder!Cached, Flooder!ToSet
<1> QED
  BY <1>1 DEF Init, Flooder!Init, HeardIsKnown, Scheduled

\* What is heard for the first time is verified or rejected as it is remembered.
LEMMA HeardStep == Flooder!TypeOK /\ HeardIsKnown /\ [Next]_vars => HeardIsKnown'
<1> SUFFICES ASSUME Flooder!TypeOK, HeardIsKnown, Next \/ UNCHANGED vars PROVE HeardIsKnown'
  OBVIOUS
<1>1. /\ Scheduled \cap OwnKeys = {}
      /\ Scheduled \cup Flooder!Cached \subseteq known
      /\ known \subseteq OwnKeys \cup Signed \cup rejected
      /\ seen \in Seq(Keys)
  BY DEF HeardIsKnown, Flooder!TypeOK
<1>2. ASSUME Scheduled' \subseteq Scheduled, UNCHANGED <<seen, known, rejected>>
      PROVE  HeardIsKnown'
  BY <1>1, <1>2 DEF HeardIsKnown, Flooder!Cached
<1>3. ASSUME UNCHANGED pending PROVE Scheduled' = Scheduled
  BY <1>3 DEF Scheduled
<1>4. ASSUME NEW k \in Keys, Flooder!AddToCache(k)
      PROVE  Flooder!Cached' \subseteq known' /\ known' = known \cup {k}
  <2>1. seen' = Flooder!Remember(seen, k) /\ known' = known \cup {k}
    BY <1>4 DEF Flooder!AddToCache
  <2>2. Flooder!ToSet(seen') \subseteq Flooder!ToSet(seen) \cup {k}
    BY <1>1, <2>1, CacheWithin
  <2> QED
    BY <1>1, <2>1, <2>2 DEF Flooder!Cached
<1>5. CASE UNCHANGED vars
  BY <1>2, <1>3, <1>5 DEF vars, flood, table
<1>6. ASSUME NEW k \in Keys, HandleOwn(k) PROVE HeardIsKnown'
  <2>1. Scheduled' \subseteq Scheduled
    BY <1>6 DEF Scheduled, Flooder!TypeOK, HandleOwn, Flooder!HearOwn
  <2> QED
    BY <1>2, <1>6, <2>1 DEF HandleOwn, Flooder!HearOwn, table
<1>7. ASSUME NEW k \in Keys, NEW hops \in 0..MaxHops, NEW rssi \in Signals,
             HandleFirst(k, hops, rssi)
      PROVE  HeardIsKnown'
  <2>1. Flooder!AddToCache(k) /\ k \notin OwnKeys
    BY <1>7 DEF HandleFirst, Flooder!AcceptLastHop, Flooder!ScheduleRelay, Flooder!Accept,
         Flooder!Idle
  <2>2. Scheduled' \subseteq Scheduled \cup {k}
    BY <1>3, <1>7, FirstScheduled DEF HandleFirst, Flooder!AcceptLastHop
  <2>3. rejected \subseteq rejected' /\ k \in Signed \cup rejected'
    BY <1>7 DEF HandleFirst, LearnFirst
  <2> QED
    BY <1>1, <1>4, <2>1, <2>2, <2>3 DEF HeardIsKnown
<1>8. ASSUME NEW k \in Keys, HandleAgain(k) PROVE HeardIsKnown'
  <2>1. UNCHANGED <<known, rejected>>
    BY <1>8 DEF HandleAgain, Flooder!CountCopy, Flooder!HearAgain, Flooder!CancelRelay
  <2>2. CASE Flooder!CountCopy(k)
    BY <1>2, <2>1, <2>2, CountedScheduled DEF Flooder!CountCopy
  <2>3. CASE Flooder!CancelRelay(k)
    <3>1. Scheduled' \subseteq Scheduled
      BY <2>3 DEF Scheduled, Flooder!TypeOK, Flooder!CancelRelay
    <3> QED
      BY <1>2, <2>1, <2>3, <3>1 DEF Flooder!CancelRelay
  <2>4. CASE Flooder!HearAgain(k)
    <3>1. k \in Flooder!Cached
      BY <2>4 DEF Flooder!HearAgain, Flooder!Remembered
    <3>2. Flooder!ToSet(seen') \subseteq Flooder!ToSet(seen) \cup {k}
      BY <1>1, <2>4, CacheWithin DEF Flooder!HearAgain
    <3>3. Flooder!Cached' \subseteq Flooder!Cached
      BY <3>1, <3>2 DEF Flooder!Cached
    <3>4. Scheduled' = Scheduled
      BY <1>3, <2>4 DEF Flooder!HearAgain
    <3> QED
      BY <1>1, <2>1, <3>3, <3>4 DEF HeardIsKnown
  <2> QED
    BY <1>8, <2>2, <2>3, <2>4 DEF HandleAgain
<1>9. CASE TakeDue
  <2>1. Scheduled' \subseteq Scheduled
    <3>1. CASE Flooder!Due
      BY <3>1 DEF Flooder!Due, Scheduled
    <3>2. CASE UNCHANGED pending
      BY <1>3, <3>2
    <3> QED
      BY <1>9, <3>1, <3>2 DEF TakeDue, flood
  <2> QED
    BY <1>2, <1>9, <2>1 DEF TakeDue, Flooder!Due, flood, table
<1>10. CASE Announce \/ AnswerAnnounce
  <2>1. UNCHANGED pending /\ UNCHANGED rejected
    BY <1>10 DEF Announce, AnswerAnnounce, SendAnnounce, Flooder!SendAnnounce, flood, table
  <2>2. CASE UNCHANGED flood
    BY <1>2, <1>3, <2>1, <2>2 DEF flood
  <2>3. CASE \E k \in OwnKeys : Flooder!SendAnnounce(k)
    <3>1. PICK k \in OwnKeys : Flooder!AddToCache(k)
      BY <2>3 DEF Flooder!SendAnnounce
    <3>2. k \in Keys
      BY KeysAssumption
    <3> QED
      BY <1>1, <1>3, <1>4, <2>1, <3>1, <3>2 DEF HeardIsKnown
  <2> QED
    BY <1>10, <2>2, <2>3 DEF Announce, AnswerAnnounce, SendAnnounce
<1>11. CASE \/ RecvNothing \/ SendFails \/ Serve \/ AnswerQuery \/ ClientTimesOut
            \/ RecvFails \/ Recover \/ \E k \in Keys : SendRelay(k)
  BY <1>2, <1>3, <1>11 DEF RecvNothing, SendFails, Serve, AnswerQuery, ClientTimesOut,
       RecvFails, Recover, SendRelay, flood, table
<1>12. CASE Fail \/ Connect \/ PassTime
  BY <1>2, <1>3, <1>12 DEF Fail, Connect, PassTime, flood, table
<1> QED
  BY <1>5, <1>6, <1>7, <1>8, <1>9, <1>10, <1>11, <1>12 DEF Next, Run, Handle

LEMMA InitVerified == Init => VerifiedOrRejected
BY DEF Init, VerifiedOrRejected

\* A further copy is learned without being verified, but its first was.
LEMMA VerifiedStep == HeardIsKnown /\ VerifiedOrRejected /\ [Next]_vars => VerifiedOrRejected'
<1> SUFFICES ASSUME HeardIsKnown, VerifiedOrRejected, Next \/ UNCHANGED vars
             PROVE  VerifiedOrRejected'
  OBVIOUS
<1>1. keyed \subseteq Signed /\ routed \subseteq Signed \cup rejected
  BY DEF VerifiedOrRejected
<1>2. ASSUME UNCHANGED table PROVE VerifiedOrRejected'
  BY <1>1, <1>2 DEF table, VerifiedOrRejected
<1>3. CASE UNCHANGED vars
  BY <1>2, <1>3 DEF vars
<1>4. ASSUME NEW k \in Keys, NEW hops \in 0..MaxHops, NEW rssi \in Signals,
             HandleFirst(k, hops, rssi)
      PROVE  VerifiedOrRejected'
  BY <1>1, <1>4 DEF HandleFirst, LearnFirst, VerifiedOrRejected
<1>5. ASSUME NEW k \in Keys, HandleAgain(k) PROVE VerifiedOrRejected'
  <2>1. k \notin OwnKeys /\ k \in Scheduled \cup Flooder!Cached
    BY <1>5 DEF HandleAgain, Flooder!CountCopy, Flooder!HearAgain, Flooder!CancelRelay,
         Flooder!Idle, Flooder!Remembered, Scheduled
  <2>2. k \in Signed \cup rejected
    BY <2>1 DEF HeardIsKnown
  <2> QED
    BY <1>1, <1>5, <2>2 DEF HandleAgain, VerifiedOrRejected
<1>6. CASE RecvNothing \/ \E k \in Keys : HandleOwn(k)
  BY <1>2, <1>6 DEF RecvNothing, HandleOwn
<1>7. CASE TakeDue \/ Announce \/ AnswerAnnounce \/ SendFails \/ \E k \in Keys : SendRelay(k)
  BY <1>2, <1>7 DEF TakeDue, Announce, AnswerAnnounce, SendFails, SendRelay
<1>8. CASE \/ Serve \/ AnswerQuery \/ ClientTimesOut \/ RecvFails \/ Recover
           \/ Fail \/ Connect \/ PassTime
  BY <1>2, <1>8 DEF Serve, AnswerQuery, ClientTimesOut, RecvFails, Recover, Fail, Connect,
       PassTime
<1> QED
  BY <1>3, <1>4, <1>5, <1>6, <1>7, <1>8 DEF Next, Run, Handle

(***************************************************************************)
(* How late the loop may be                                                *)
(***************************************************************************)
LEMMA Times ==
    /\ RecvTime \in Nat /\ RecvTime > 0 /\ ClientTime \in Nat /\ Interval \in Nat
    /\ Interval > 0
    /\ \A n \in Nat : /\ ClientTime * n \in Nat
                      /\ ClientTime * (n + 1) = ClientTime * n + ClientTime
    /\ ClientTime * 0 = 0
<1>1. RecvTime \in Nat /\ RecvTime > 0 /\ ClientTime \in Nat /\ Interval \in Nat /\ Interval > 0
  BY NodeAssumption
<1>2. ASSUME NEW n \in Nat, NEW c \in Nat PROVE c * n \in Nat /\ c * (n + 1) = c * n + c
  OBVIOUS
<1>3. ClientTime * 0 = 0
  BY <1>1
<1> QED
  BY <1>1, <1>2, <1>3

LEMMA InitTurns == Init => TurnsInTime
<1> SUFFICES ASSUME Init PROVE TurnsInTime
  OBVIOUS
<1>1. Scheduled = {}
  BY DEF Init, Flooder!Init, Scheduled
<1>2. /\ now = 0 /\ wait = RecvTime /\ turn = "recv" /\ link = "live" /\ aired = 0
      /\ nextAnnounce = 0 /\ served = 0
  BY DEF Init, Flooder!Init
<1>3. now + wait < aired + Interval + Allowance
  <2>1. Allowance = RecvTime + ClientTime * served
    BY <1>2 DEF Allowance
  <2> QED
    BY <1>2, <2>1, Times
<1> QED
  BY <1>1, <1>2, <1>3, Times DEF TurnsInTime

\* The order of the turns, and what time passes in them, while the radio works.
Moves ==
    \/ turn = "recv" /\ turn' = "due" /\ wait' = 0 /\ UNCHANGED <<now, served>>
    \/ turn = "due" /\ turn' \in {"send", "announce"} /\ wait' = 0 /\ UNCHANGED <<now, served>>
    \/ turn = "send" /\ turn' \in {"send", "announce"} /\ wait' = 0 /\ UNCHANGED <<now, served>>
    \/ turn = "announce" /\ turn' = "serve" /\ wait' = 0 /\ now' = now /\ served' = 0
    \/ turn = "serve" /\ turn' = "recv" /\ wait' = RecvTime /\ UNCHANGED <<now, served>>
    \/ turn = "serve" /\ turn' = "client" /\ wait' = ClientTime /\ now' = now
       /\ served' = served + 1
    \/ turn = "client" /\ turn' = "serve" /\ wait' = 0 /\ UNCHANGED <<now, served>>
    \/ /\ turn \in {"recv", "client"} /\ turn' = turn /\ served' = served
       /\ wait > 0 /\ wait' = wait - 1 /\ (now' = now \/ now' = now + 1)
    \/ UNCHANGED <<turn, wait, now, served>>

LEMMA TurnsMove ==
    ASSUME Flooder!TypeOK, LoopTypes, TurnsInTime, [Next]_vars, failures' = 0
    PROVE  failures = 0 /\ link' = "live" /\ turn' # "down" /\ Moves
<1>1. failures = 0
  <2>1. failures \in Nat
    BY DEF LoopTypes
  <2>2. CASE Fail
    BY <2>1, <2>2 DEF Fail
  <2>3. CASE ~Fail
    BY <2>3 DEF Next, Run, Handle, RecvNothing, TakeDue, SendRelay, SendFails, Announce, Serve,
         ClientTimesOut, RecvFails, Recover, Handled, HandleOwn, HandleFirst, HandleAgain,
         AnswerQuery, AnswerAnnounce, Connect, PassTime, vars
  <2> QED
    BY <2>2, <2>3
<1>2. link = "live" /\ turn # "down"
  BY <1>1 DEF TurnsInTime
<1> USE DEF Go
<1>3. CASE UNCHANGED vars
  BY <1>1, <1>2, <1>3 DEF vars, flood, control, Moves
<1>4. CASE RecvNothing
  BY <1>1, <1>2, <1>4 DEF RecvNothing, flood, control, Moves
<1>5. ASSUME NEW k \in Keys,
             \/ HandleOwn(k) \/ HandleAgain(k)
             \/ \E hops \in 0..MaxHops, rssi \in Signals : HandleFirst(k, hops, rssi)
      PROVE  link' = "live" /\ turn' # "down" /\ Moves
  <2>1. Handled /\ now' = now
    BY <1>5 DEF HandleOwn, HandleAgain, HandleFirst, Flooder!HearOwn, Flooder!AcceptLastHop,
         Flooder!ScheduleRelay, Flooder!CountCopy, Flooder!HearAgain, Flooder!CancelRelay
  <2> QED
    BY <1>2, <2>1 DEF Handled, control, Moves
<1>6. CASE TakeDue
  BY <1>1, <1>2, <1>6 DEF TakeDue, Flooder!Due, flood, control, Moves
<1>7. CASE \E k \in Keys : SendRelay(k)
  BY <1>1, <1>2, <1>7 DEF SendRelay, flood, control, Moves
<1>8. CASE Announce
  BY <1>1, <1>2, <1>8 DEF Announce, SendAnnounce, Flooder!SendAnnounce, flood, Moves
<1>9. CASE AnswerAnnounce
  BY <1>1, <1>2, <1>9 DEF AnswerAnnounce, SendAnnounce, Flooder!SendAnnounce, control, Moves
<1>10. CASE Serve
  BY <1>1, <1>2, <1>10 DEF Serve, flood, control, Moves
<1>11. CASE AnswerQuery \/ ClientTimesOut
  BY <1>1, <1>2, <1>11 DEF AnswerQuery, ClientTimesOut, flood, control, Moves
<1>12. CASE Connect
  BY <1>1, <1>2, <1>12 DEF Connect, flood, Moves
<1>13. CASE PassTime
  BY <1>1, <1>2, <1>13 DEF PassTime, control, Moves
<1>14. CASE Fail
  <2>1. failures \in Nat
    BY DEF LoopTypes
  <2> QED
    BY <1>1, <1>14, <2>1 DEF Fail
<1>15. CASE SendFails \/ RecvFails \/ Recover
  BY <1>2, <1>15 DEF SendFails, RecvFails, Recover
<1> QED
  BY <1>1, <1>3, <1>4, <1>5, <1>6, <1>7, <1>8, <1>9, <1>10, <1>11, <1>12, <1>13, <1>14, <1>15
     DEF Next, Run, Handle

\* A limit that is kept before a move, other than those from due(), is kept after it.
LEMMA LimitKept ==
    ASSUME Flooder!TypeOK, LoopTypes, TurnsInTime, failures = 0, Moves, turn # "due",
           NEW limit \in Nat, now + wait < limit + Allowance
    PROVE  now' + wait' < limit + Allowance'
<1>1. now \in Nat /\ wait \in Nat /\ served \in Nat
  BY DEF Flooder!TypeOK, LoopTypes
<1>2. turn \in {"recv", "send", "announce", "serve", "client", "down"}
  BY DEF LoopTypes
<1>3. turn \in {"send", "announce"} => wait = 0
  BY DEF TurnsInTime
<1> DEFINE spent == ClientTime * served
<1>4. spent \in Nat /\ ClientTime * (served + 1) = spent + ClientTime
  BY <1>1, Times
<1> HIDE DEF spent
<1>5. CASE turn = "recv" /\ turn' = "due" /\ wait' = 0 /\ UNCHANGED <<now, served>>
  <2>1. Allowance = RecvTime + spent /\ Allowance' = RecvTime + spent
    BY <1>5 DEF Allowance, spent
  <2> QED
    BY <1>1, <1>4, <1>5, <2>1, Times
<1>6. CASE turn = "send" /\ turn' \in {"send", "announce"} /\ wait' = 0 /\ UNCHANGED <<now, served>>
  <2>1. Allowance = 0 /\ Allowance' = 0
    BY <1>6 DEF Allowance
  <2> QED
    BY <1>1, <1>3, <1>6, <2>1
<1>7. CASE turn = "announce" /\ turn' = "serve" /\ wait' = 0 /\ now' = now /\ served' = 0
  <2>1. Allowance = 0 /\ Allowance' = 0
    BY <1>7, Times DEF Allowance
  <2> QED
    BY <1>1, <1>3, <1>7, <2>1
<1>8. CASE turn = "serve" /\ turn' = "recv" /\ wait' = RecvTime /\ UNCHANGED <<now, served>>
  <2>1. Allowance = spent /\ Allowance' = RecvTime + spent
    BY <1>8 DEF Allowance, spent
  <2> QED
    BY <1>1, <1>4, <1>8, <2>1, Times
<1>9. CASE turn = "serve" /\ turn' = "client" /\ wait' = ClientTime /\ now' = now
           /\ served' = served + 1
  <2>1. Allowance = spent /\ Allowance' = spent + ClientTime
    BY <1>4, <1>9 DEF Allowance, spent
  <2> QED
    BY <1>1, <1>4, <1>9, <2>1, Times
<1>10. CASE turn = "client" /\ turn' = "serve" /\ wait' = 0 /\ UNCHANGED <<now, served>>
  <2>1. Allowance = spent /\ Allowance' = spent
    BY <1>10 DEF Allowance, spent
  <2> QED
    BY <1>1, <1>4, <1>10, <2>1, Times
<1>11. CASE /\ turn \in {"recv", "client"} /\ turn' = turn /\ served' = served
            /\ wait > 0 /\ wait' = wait - 1 /\ (now' = now \/ now' = now + 1)
  <2>1. Allowance \in Nat /\ Allowance' = Allowance
    BY <1>4, <1>11, Times DEF Allowance, spent
  <2>2. now' + wait' <= now + wait
    BY ONLY <1>1, <1>11
  <2>3. limit \in Nat /\ now + wait < limit + Allowance
    OBVIOUS
  <2>4. \A a, b \in Nat : b <= a /\ a < limit + Allowance => b < limit + Allowance
    BY <2>1
  <2>5. now + wait \in Nat /\ now' + wait' \in Nat
    BY ONLY <1>1, <1>11
  <2> QED
    BY <2>1, <2>2, <2>3, <2>4, <2>5
<1>12. CASE UNCHANGED <<turn, wait, now, served>>
  BY <1>12 DEF Allowance
<1> QED
  BY <1>5, <1>6, <1>7, <1>8, <1>9, <1>10, <1>11, <1>12 DEF Moves

\* A relay that waits after a step waited before it, as long, or is scheduled in it.
LEMMA StillScheduled ==
    ASSUME Flooder!TypeOK, [Next]_vars, NEW j \in Scheduled'
    PROVE  \/ j \in Scheduled /\ pending'[j].sendAt = pending[j].sendAt
           \/ turn' = "due" /\ now' = now /\ wait' = 0 /\ served' = served
              /\ pending'[j].sendAt >= now
<1> USE DEF Scheduled, Flooder!TypeOK
<1>1. CASE UNCHANGED pending
  BY <1>1
<1>2. ASSUME NEW k \in Keys, Flooder!HearOwn(k) \/ Flooder!CancelRelay(k)
      PROVE  j \in Scheduled /\ pending'[j].sendAt = pending[j].sendAt
  BY <1>2 DEF Flooder!HearOwn, Flooder!CancelRelay
<1>3. ASSUME NEW k \in Keys, Flooder!CountCopy(k)
      PROVE  j \in Scheduled /\ pending'[j].sendAt = pending[j].sendAt
  <2>1. PICK w \in Flooder!Waiting : /\ pending[k] # NoRelay /\ w.sendAt = pending[k].sendAt
                                     /\ pending' = [pending EXCEPT ![k] = w]
    BY <1>3, Counting
  <2> QED
    BY <2>1
<1>4. ASSUME Flooder!Due PROVE j \in Scheduled /\ pending'[j].sendAt = pending[j].sendAt
  BY <1>4 DEF Flooder!Due
<1>5. ASSUME NEW k \in Keys, NEW hops \in 0..MaxHops, NEW rssi \in Signals,
             HandleFirst(k, hops, rssi), Flooder!ScheduleRelay(k, hops, rssi)
      PROVE  \/ j \in Scheduled /\ pending'[j].sendAt = pending[j].sendAt
             \/ turn' = "due" /\ now' = now /\ wait' = 0 /\ served' = served
                /\ pending'[j].sendAt >= now
  <2>1. PICK w \in Flooder!Waiting :
            w.sendAt >= now /\ pending' = [pending EXCEPT ![k] = w]
    BY <1>5, Scheduling
  <2>2. turn' = "due" /\ wait' = 0 /\ served' = served /\ now' = now
    BY <1>5 DEF HandleFirst, Handled, Go, control, Flooder!ScheduleRelay
  <2> QED
    BY <2>1, <2>2
<1>6. CASE Handle
  BY <1>1, <1>2, <1>3, <1>5, <1>6 DEF Handle, HandleOwn, HandleFirst, HandleAgain,
       Flooder!AcceptLastHop, Flooder!HearAgain
<1>7. CASE TakeDue
  BY <1>1, <1>4, <1>7 DEF TakeDue, flood
<1>8. CASE Announce \/ AnswerAnnounce
  BY <1>1, <1>8 DEF Announce, AnswerAnnounce, SendAnnounce, Flooder!SendAnnounce, flood
<1>9. CASE \/ RecvNothing \/ SendFails \/ Serve \/ AnswerQuery \/ ClientTimesOut
           \/ RecvFails \/ Recover \/ \E k \in Keys : SendRelay(k)
  BY <1>1, <1>9 DEF RecvNothing, SendFails, Serve, AnswerQuery, ClientTimesOut, RecvFails,
       Recover, SendRelay, flood
<1>10. CASE Fail \/ Connect \/ PassTime \/ UNCHANGED vars
  BY <1>1, <1>10 DEF Fail, Connect, PassTime, flood, vars
<1> QED
  BY <1>6, <1>7, <1>8, <1>9, <1>10 DEF Next, Run

LEMMA RelaysInTime ==
    ASSUME Flooder!TypeOK, Flooder!TypeOK', LoopTypes, TurnsInTime, [Next]_vars,
           failures' = 0, NEW j \in Scheduled'
    PROVE  now' + wait' < pending'[j].sendAt + Allowance'
<1>1. failures = 0 /\ Moves
  BY TurnsMove
<1>2. now \in Nat /\ wait \in Nat /\ served \in Nat /\ ClientTime * served \in Nat
  BY Times DEF Flooder!TypeOK, LoopTypes
<1>3. CASE j \in Scheduled /\ pending'[j].sendAt = pending[j].sendAt
  <2> DEFINE at == pending[j].sendAt
  <2>1. at \in Nat /\ now + wait < at + Allowance
    BY <1>1, <1>3 DEF Flooder!TypeOK, Scheduled, Flooder!Waiting, TurnsInTime
  <2>2. CASE turn # "due"
    BY <1>1, <1>3, <2>1, <2>2, LimitKept
  <2>3. CASE turn = "due" /\ UNCHANGED <<turn, wait, now, served>>
    BY <1>3, <2>1, <2>3 DEF Allowance
  <2>4. CASE turn = "due" /\ ~UNCHANGED <<turn, wait, now, served>>
    <3>1. turn' \in {"send", "announce"} /\ wait' = 0 /\ now' = now
      BY <1>1, <2>4 DEF Moves
    <3>2. TakeDue
      BY <2>4, <3>1 DEF Next, Run, Handle, RecvNothing, SendRelay, SendFails, Announce, Serve,
         ClientTimesOut, RecvFails, Recover, Handled, HandleOwn, HandleFirst, HandleAgain,
         AnswerQuery, AnswerAnnounce, Fail, Connect, PassTime, vars, flood, control
    <3>3. j \notin Flooder!Ready /\ j \in Keys /\ pending[j] # NoRelay
      BY <1>3, <3>2 DEF TakeDue, Flooder!Due, Scheduled
    <3>4. ~(at <= now)
      BY <3>3 DEF Flooder!Ready
    <3>5. Allowance' = 0
      BY <3>1 DEF Allowance
    <3> HIDE DEF at
    <3>6. now' + wait' < at + 0
      BY <1>2, <2>1, <3>1, <3>4
    <3> QED
      BY <1>3, <3>5, <3>6 DEF at
  <2> QED
    BY <2>2, <2>3, <2>4
<1>4. CASE /\ turn' = "due" /\ now' = now /\ wait' = 0 /\ served' = served
           /\ pending'[j].sendAt >= now
  <2> DEFINE at == pending'[j].sendAt
  <2>1. Allowance' = RecvTime + ClientTime * served
    BY <1>4 DEF Allowance
  <2>3. at \in Nat
    BY DEF Flooder!TypeOK, Scheduled, Flooder!Waiting
  <2> DEFINE spent == ClientTime * served
  <2>4. now + 0 < at + (RecvTime + spent)
    <3>1. spent \in Nat /\ RecvTime \in Nat /\ RecvTime > 0 /\ at >= now
      BY <1>2, <1>4, Times
    <3> HIDE DEF at, spent
    <3> QED
      BY <1>2, <2>3, <3>1
  <2> QED
    BY <1>4, <2>1, <2>4
<1> QED
  BY <1>3, <1>4, StillScheduled

LEMMA AnnouncesInTime ==
    ASSUME Flooder!TypeOK, LoopTypes, TurnsInTime, [Next]_vars, failures' = 0
    PROVE  /\ nextAnnounce' <= aired' + Interval
           /\ IF turn' \in {"send", "announce"}
              THEN now' < aired' + Interval + RecvTime + ClientTime * served'
              ELSE now' + wait' < aired' + Interval + Allowance'
<1>1. failures = 0 /\ Moves
  BY TurnsMove
<1> DEFINE spent == ClientTime * served
<1>2. /\ now \in Nat /\ wait \in Nat /\ served \in Nat /\ aired \in Nat /\ spent \in Nat
      /\ aired + Interval \in Nat
  BY Times DEF Flooder!TypeOK, LoopTypes
<1>3. /\ link = "live" /\ nextAnnounce <= aired + Interval
      /\ turn \in {"due", "send", "announce"} => wait = 0
      /\ IF turn \in {"send", "announce"}
         THEN now < aired + Interval + RecvTime + spent
         ELSE now + wait < aired + Interval + Allowance
  BY <1>1 DEF TurnsInTime
<1> HIDE DEF spent
<1>4. CASE Announce
  <2>1. turn' = "serve" /\ wait' = 0 /\ served' = 0 /\ now' = now
    BY <1>3, <1>4 DEF Announce, SendAnnounce, Flooder!SendAnnounce, Go, flood
  <2>2. Allowance' = 0
    BY <2>1, Times DEF Allowance
  <2>3. \/ nextAnnounce' = now + Interval /\ aired' = now
        \/ now < nextAnnounce /\ UNCHANGED <<nextAnnounce, aired>>
    BY <1>3, <1>4 DEF Announce, SendAnnounce
  <2>4. now < aired' + Interval /\ nextAnnounce' <= aired' + Interval
    <3>1. CASE nextAnnounce' = now + Interval /\ aired' = now
      BY <3>1, <1>2, Times
    <3>2. CASE now < nextAnnounce /\ UNCHANGED <<nextAnnounce, aired>>
      <4>1. nextAnnounce \in Nat
        BY DEF LoopTypes
      <4> QED
        BY <3>2, <4>1, <1>2, <1>3
    <3> QED
      BY <2>3, <3>1, <3>2
  <2>5. aired' + Interval \in Nat
    BY <2>3, <1>2, Times
  <2>6. now' + wait' < aired' + Interval + Allowance'
    BY <1>2, <2>1, <2>2, <2>4, <2>5
  <2> QED
    BY <2>1, <2>4, <2>6
<1>5. CASE AnswerAnnounce
  <2>1. /\ turn' = "serve" /\ wait' = 0 /\ served' = served /\ now' = now
        /\ nextAnnounce' = now + Interval /\ aired' = now
    BY <1>3, <1>5 DEF AnswerAnnounce, SendAnnounce, Flooder!SendAnnounce, Go, control
  <2>2. Allowance' = spent
    BY <2>1 DEF Allowance, spent
  <2>3. now + 0 < now + Interval + spent /\ now + Interval <= now + Interval
    BY <1>2, Times
  <2> QED
    BY <2>1, <2>2, <2>3
<1>6. CASE UNCHANGED <<nextAnnounce, aired>> /\ ~Announce
  <2>1. nextAnnounce' <= aired' + Interval
    BY <1>3, <1>6
  <2>2. CASE UNCHANGED <<turn, wait, now, served>>
    <3>1. Allowance' = Allowance
      BY <2>2 DEF Allowance
    <3> QED
      BY <1>3, <1>6, <2>1, <2>2, <3>1 DEF spent
  <2>3. CASE turn \in {"due", "send"} /\ turn' \in {"send", "announce"}
    <3>1. wait = 0 /\ now' = now /\ served' = served
      BY <1>1, <1>3, <2>3 DEF Moves
    <3>2. now < aired + Interval + RecvTime + spent
      <4>1. CASE turn = "send"
        BY <1>3, <4>1
      <4>2. CASE turn = "due"
        <5>1. Allowance = RecvTime + spent
          BY <4>2 DEF Allowance, spent
        <5> QED
          BY <1>2, <1>3, <3>1, <4>2, <5>1, Times
      <4> QED
        BY <2>3, <4>1, <4>2
    <3> QED
      BY <1>6, <2>1, <2>3, <3>1, <3>2 DEF spent
  <2>4. CASE turn \in {"recv", "serve", "client"}
    <3>1. now' + wait' < aired + Interval + Allowance'
      BY <1>1, <1>2, <1>3, <2>4, LimitKept
    <3>2. turn' \notin {"send", "announce"}
      BY <1>1, <2>4 DEF Moves
    <3> QED
      BY <1>6, <2>1, <3>1, <3>2
  <2>5. turn = "announce" => UNCHANGED <<turn, wait, now, served>>
    BY <1>6 DEF Next, Run, Handle, RecvNothing, TakeDue, SendRelay, SendFails, Serve,
       ClientTimesOut, RecvFails, Recover, Handled, HandleOwn, HandleFirst, HandleAgain,
       AnswerQuery, AnswerAnnounce, Fail, Connect, PassTime, vars, flood, control
  <2> QED
    BY <1>1, <2>2, <2>3, <2>4, <2>5 DEF Moves
<1>7. UNCHANGED <<nextAnnounce, aired>> \/ Announce \/ AnswerAnnounce
  BY DEF Next, Run, Handle, RecvNothing, TakeDue, SendRelay, SendFails, Serve,
     ClientTimesOut, RecvFails, Recover, Handled, HandleOwn, HandleFirst, HandleAgain,
     AnswerQuery, Fail, Connect, PassTime, vars
<1> QED
  BY <1>4, <1>5, <1>6, <1>7

LEMMA TurnsStep ==
    Flooder!TypeOK /\ Flooder!TypeOK' /\ LoopTypes /\ TurnsInTime /\ [Next]_vars => TurnsInTime'
<1> SUFFICES ASSUME Flooder!TypeOK, Flooder!TypeOK', LoopTypes, TurnsInTime, [Next]_vars,
                    failures' = 0
             PROVE  /\ link' = "live" /\ turn' # "down" /\ nextAnnounce' <= aired' + Interval
                    /\ turn' \in {"due", "send", "announce"} => wait' = 0
                    /\ \A k \in Scheduled' : now' + wait' < pending'[k].sendAt + Allowance'
                    /\ IF turn' \in {"send", "announce"}
                       THEN now' < aired' + Interval + RecvTime + ClientTime * served'
                       ELSE now' + wait' < aired' + Interval + Allowance'
  BY DEF TurnsInTime
<1>1. link' = "live" /\ turn' # "down" /\ Moves /\ failures = 0
  BY TurnsMove
<1>2. turn' \in {"due", "send", "announce"} => wait' = 0
  BY <1>1 DEF Moves, TurnsInTime
<1>3. \A k \in Scheduled' : now' + wait' < pending'[k].sendAt + Allowance'
  BY RelaysInTime
<1> QED
  BY <1>1, <1>2, <1>3, AnnouncesInTime

(***************************************************************************)
(* The theorems                                                            *)
(***************************************************************************)
\* node.py uses the flooder as module Flood has it used: it calls nothing out of
\* turn, and what it does in between leaves the flooder alone.
THEOREM RunsTheFlooder == Spec => Flooder!Init /\ [][Flooder!Next]_(Flooder!vars)
<1>1. Init => Flooder!Init
  BY DEF Init
<1> QED
  BY <1>1, StepOfFlood, PTL DEF Spec

\* In the loop of node.py, too, "relays an announce exactly once": whatever the
\* radio, the clients and the outages make of the order in which the flooder is
\* called, no packet is handed to the radio twice within what the seen cache can
\* remember, and none of the node's own is relayed.
THEOREM RelaysOnce == Spec => []RelayOnce
<1>1. Flooder!RelayOnce => RelayOnce
  BY DEF RelayOnce
<1> QED
  BY <1>1, RunsTheFlooder, FloodersCalls, PTL

\* "jitter stays inside each band so the far-first ordering holds": in the loop,
\* too, the weaker heard of two packets taken at once falls due first, if time is
\* measured in steps no longer than the gap between two bands.
THEOREM FarLeaveFirst == ASSUME TickMs <= 5 PROVE Spec => []Flooder!FarFirst
BY RunsTheFlooder, FloodersOrder, PTL

Induct ==
    /\ Flooder!TypeOK /\ LoopTypes
    /\ BatchInTurn /\ HeardIsKnown /\ VerifiedOrRejected /\ TurnsInTime

\* What the theorems below rest on holds in every state of the loop.
THEOREM Inductive == Spec => []Induct
<1>1. Init /\ Flooder!TypeOK => Induct
  BY InitTypes, InitBatch, InitHeard, InitVerified, InitTurns DEF Induct
<1>2. Flooder!TypeOK' /\ Induct /\ [Next]_vars => Induct'
  BY LoopStepType, BatchStep, HeardStep, VerifiedStep, TurnsStep DEF Induct
<1> QED
  BY <1>1, <1>2, RunsTheFlooder, FloodersCalls, PTL DEF Spec

\* Every variable of the loop keeps its type, those of the flooder included.
THEOREM TypeCorrect == Spec => []TypeOK
<1>1. Spec => []RestTypes
  <2>1. Induct /\ RestTypes /\ [Next]_vars => RestTypes'
    BY RestStepType DEF Induct
  <2> QED
    BY <2>1, InitRest, Inductive, PTL DEF Spec
<1>2. Induct /\ RestTypes => TypeOK
  BY DEF Induct, LoopTypes, RestTypes, TypeOK
<1> QED
  BY <1>1, <1>2, Inductive, PTL

\* "learn from it, but never re-verify": a route that no verified announce backs
\* comes from a copy of one that was rejected, and no such key is on record.
THEOREM LearnsTheVerified == Spec => []VerifiedOrRejected
<1>1. Induct => VerifiedOrRejected
  BY DEF Induct
<1> QED
  BY <1>1, Inductive, PTL

\* poll loses relays only with a turn whose send fails.
THEOREM NoRelayLost == Spec => []RelaysAccounted
<1>1. Induct => RelaysAccounted
  BY DEF Induct, BatchInTurn, RelaysAccounted, Scheduled
<1> QED
  BY <1>1, Inductive, PTL

\* While the radio works, no relay and no announce is later than one read of the
\* radio and the clients served since the last turn of poll.
THEOREM NothingLate == Spec => []DueInTime
<1>1. Induct => DueInTime
  <2> SUFFICES ASSUME Induct, failures = 0
               PROVE  /\ \A k \in Keys : pending[k] # NoRelay =>
                            now < pending[k].sendAt + RecvTime + ClientTime * served
                      /\ now < aired + Interval + RecvTime + ClientTime * served
    BY DEF DueInTime
  <2> DEFINE spent == ClientTime * served
  <2>1. /\ now \in Nat /\ wait \in Nat /\ aired + Interval \in Nat
        /\ spent \in Nat /\ RecvTime \in Nat
    BY Times DEF Induct, Flooder!TypeOK, LoopTypes
  <2>2. Allowance \in Nat /\ Allowance <= RecvTime + spent
    <3>1. Allowance = 0 \/ Allowance = spent \/ Allowance = RecvTime + spent
      BY DEF Allowance
    <3> HIDE DEF spent
    <3> QED
      BY <2>1, <3>1
  <2> HIDE DEF spent
  <2>3. ASSUME NEW limit \in Nat, now + wait < limit + Allowance
        PROVE  now < limit + RecvTime + spent
    BY <2>1, <2>2, <2>3
  <2>4. now < aired + Interval + RecvTime + spent
    <3>1. CASE turn \in {"send", "announce"}
      BY <3>1 DEF Induct, TurnsInTime, spent
    <3>2. CASE turn \notin {"send", "announce"}
      <4>1. now + wait < aired + Interval + Allowance
        BY <3>2 DEF Induct, TurnsInTime
      <4> QED
        BY <4>1, <2>1, <2>3
    <3> QED
      BY <3>1, <3>2
  <2>5. ASSUME NEW k \in Keys, pending[k] # NoRelay
        PROVE  now < pending[k].sendAt + RecvTime + spent
    <3>1. pending[k].sendAt \in Nat
      BY <2>5 DEF Induct, Flooder!TypeOK, Flooder!Waiting
    <3>2. now + wait < pending[k].sendAt + Allowance
      BY <2>5 DEF Induct, TurnsInTime, Scheduled
    <3> QED
      BY <3>1, <3>2, <2>3
  <2> QED
    BY <2>4, <2>5 DEF spent
<1> QED
  BY <1>1, Inductive, PTL
=============================================================================
