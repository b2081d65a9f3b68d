------------------------------- MODULE Flood -------------------------------
(***************************************************************************)
(* The flooder of one node (beachedmesh/flood.py): which received packets  *)
(* are relayed, when, and which relays are given up because the            *)
(* neighbourhood has already done the job.                                 *)
(*                                                                         *)
(* A packet is its dedup key, (originator, packet id), and the hops it has *)
(* left; packet ids of our own packets are not told apart.  Time is an     *)
(* integer clock of ticks of TickMs milliseconds.  due() may be called any *)
(* time after a deadline: module Node has the loop that calls it.          *)
(***************************************************************************)
EXTENDS FloodParams, Sequences, SequencesExt

VARIABLES
    now,        \* time.monotonic()
    seen,       \* keys of the SeenCache, least recently used first
    stamp,      \* when a key was last added to the cache
    pending,    \* Flooder.pending
    \* History variables: they record the past for the properties and guard
    \* no action.
    known,      \* keys that have ever been added to the cache
    since,      \* since[k]: other keys used since k was last added or hit
    relays      \* transmissions of k since it was last forgivably forgotten

vars == <<now, seen, stamp, pending, known, since, relays>>

(***************************************************************************)
(* SeenCache: an LRU of bounded size whose entries also age.  A hit moves  *)
(* an entry to the recent end but keeps its time stamp.                    *)
(***************************************************************************)
Cached == ToSet(seen)

Position(s, k) == CHOOSE i \in DOMAIN s : s[i] = k

Without(s, k) == IF k \in ToSet(s) THEN RemoveAt(s, Position(s, k)) ELSE s

MoveToEnd(s, k) == Append(Without(s, k), k)

\* Mistake: the cache is not trimmed.
RememberAll(s, k) == MoveToEnd(s, k)

Remember(s, k) ==
    LET t == MoveToEnd(s, k) IN IF Len(t) > SeenCapacity THEN Tail(t) ELSE t

\* Mistake: an entry as old as the TTL is no longer honoured.
RememberedYounger(k) == k \in Cached /\ now - stamp[k] < SeenTTL

Remembered(k) == k \in Cached /\ now - stamp[k] <= SeenTTL

Used(k) == since' = [j \in Keys |-> IF j = k THEN {} ELSE since[j] \cup {k}]

AddToCache(k) ==
    /\ seen'  = Remember(seen, k)
    /\ stamp' = [stamp EXCEPT ![k] = now]
    /\ known' = known \cup {k}
    /\ Used(k)

\* The cache may have lost k through age or through pressure from other keys.
Forgettable(k) ==
    \/ k \notin known
    \/ now - stamp[k] > SeenTTL
    \/ Cardinality(since[k]) >= SeenCapacity

(***************************************************************************)
(* relay_delay.  The last band has no upper end.                           *)
(***************************************************************************)
Band(upTo, base, jitter) == [upTo |-> upTo, waits |-> base..(base + jitter)]

DelayBands ==
    <<Band(-95, 10, 5), Band(-80, 20, 15), Band(-70, 50, 20),
      Band(-60, 90, 17), Band(-50, 125, 30), Band(0, 200, 30)>>

BandOf(rssi) ==
    CHOOSE i \in DOMAIN DelayBands :
        /\ i = Len(DelayBands) \/ rssi <= DelayBands[i].upTo
        /\ \A j \in 1..(i - 1) : rssi > DelayBands[j].upTo

\* Without a signal, the whole contention window: CW_MIN to CW_MAX.
Contention(rssi) == IF rssi = NoSignal THEN 10..230 ELSE DelayBands[BandOf(rssi)].waits

\* In ticks; a relay is not due before its last tick has begun.
RelayDelays(rssi) == {(ms + TickMs - 1) \div TickMs : ms \in Contention(rssi)}

(***************************************************************************)
(* Flooder.on_receive, one action per way out of it, in the order of the   *)
(* code's tests.                                                           *)
(***************************************************************************)
Idle(k) == k \notin OwnKeys /\ pending[k] = NoRelay

\* "own": our own packet came back; a relay of it, if there were one, goes.
HearOwn(k) ==
    /\ k \in OwnKeys
    /\ pending' = [pending EXCEPT ![k] = NoRelay]
    /\ UNCHANGED <<now, seen, stamp, known, since, relays>>

\* "duplicate": another node relayed what we are waiting to relay.
CountCopy(k) ==
    /\ k \notin OwnKeys /\ pending[k] # NoRelay
    /\ pending[k].heard + 1 < Threshold
    /\ pending' = [pending EXCEPT ![k].heard = @ + 1]
    /\ UNCHANGED <<now, seen, stamp, known, since, relays>>

\* "cancelled": enough others did.
CancelRelay(k) ==
    /\ k \notin OwnKeys /\ pending[k] # NoRelay
    /\ pending[k].heard + 1 >= Threshold
    /\ pending' = [pending EXCEPT ![k] = NoRelay]
    /\ UNCHANGED <<now, seen, stamp, known, since, relays>>

\* "duplicate": the cache remembers it.
HearAgain(k) ==
    /\ Idle(k) /\ Remembered(k)
    /\ seen' = MoveToEnd(seen, k)
    /\ Used(k)
    /\ UNCHANGED <<now, stamp, pending, known, relays>>

Accept(k) ==
    /\ Idle(k) /\ ~Remembered(k)
    /\ AddToCache(k)
    /\ relays' = [relays EXCEPT ![k] = IF Forgettable(k) THEN 0 ELSE @]

\* "no-hops": ours to deliver, not to forward.
AcceptLastHop(k, hops) ==
    /\ Accept(k)
    /\ hops = 0
    /\ UNCHANGED <<now, pending>>

\* "scheduled": relay it, one hop spent, after a contention delay.
ScheduleRelay(k, hops, rssi) ==
    /\ Accept(k)
    /\ hops > 0
    /\ \E d \in RelayDelays(rssi) :
          /\ now + d <= Horizon
          /\ pending' = [pending EXCEPT
                ![k] = [hops |-> hops - 1, sendAt |-> now + d, heard |-> 0, rssi |-> rssi]]
    /\ UNCHANGED now

(***************************************************************************)
(* Flooder.due and Node.send_announce                                      *)
(***************************************************************************)
Ready == {k \in Keys : pending[k] # NoRelay /\ pending[k].sendAt <= now}

\* due(): every relay whose timer has expired leaves, to be transmitted.
Due ==
    /\ Ready # {}
    /\ pending' = [k \in Keys |-> IF k \in Ready THEN NoRelay ELSE pending[k]]
    /\ relays'  = [k \in Keys |->
                      IF k \in Ready /\ relays[k] < 2 THEN relays[k] + 1 ELSE relays[k]]
    /\ UNCHANGED <<now, seen, stamp, known, since>>

\* send_announce() puts the fresh packet's key in the cache before sending.
SendAnnounce(k) ==
    /\ k \in OwnKeys
    /\ AddToCache(k)
    /\ UNCHANGED <<now, pending, relays>>

PassTime ==
    /\ now < Horizon
    /\ now' = now + 1
    /\ UNCHANGED <<seen, stamp, pending, known, since, relays>>

(***************************************************************************)
(* Specification                                                           *)
(***************************************************************************)
Init ==
    /\ now     = 0
    /\ seen    = <<>>
    /\ stamp   = [k \in Keys |-> 0]
    /\ pending = [k \in Keys |-> NoRelay]
    /\ known   = {}
    /\ since   = [k \in Keys |-> {}]
    /\ relays  = [k \in Keys |-> 0]

Next ==
    \/ \E k \in Keys :
          \/ HearOwn(k)
          \/ CountCopy(k)
          \/ CancelRelay(k)
          \/ HearAgain(k)
          \/ \E hops \in 0..MaxHops :
                \/ AcceptLastHop(k, hops)
                \/ \E rssi \in Signals : ScheduleRelay(k, hops, rssi)
          \/ SendAnnounce(k)
    \/ Due
    \/ PassTime

\* Time passes, and the poll loop that calls due() keeps turning.
Fairness == WF_vars(Due) /\ WF_vars(PassTime)

Spec == Init /\ [][Next]_vars /\ Fairness

(***************************************************************************)
(* Properties                                                              *)
(***************************************************************************)

\* Every variable has its type, and the cache is a duplicate-free sequence
\* within its capacity, as an OrderedDict trimmed by SeenCache.add is.
TypeOK ==
    /\ now \in Nat
    /\ seen \in Seq(Keys) /\ IsInjective(seen) /\ Len(seen) <= SeenCapacity
    /\ stamp \in [Keys -> Nat]
    /\ pending \in [Keys -> Waiting \cup {NoRelay}]
    /\ known \subseteq Keys
    /\ since \in [Keys -> SUBSET Keys]
    /\ relays \in [Keys -> 0..2]

\* flood.py's promise that a node "relays an announce exactly once": a packet
\* is not transmitted a second time unless its key has, in between, aged out
\* of the cache or been pushed out by SeenCapacity other keys.  A node's own
\* packet is not relayed at all, however long ago the cache forgot it.
RelayOnce == \A k \in Keys : relays[k] <= IF k \in OwnKeys THEN 0 ELSE 1

\* "Weak signal -> short delay", and "jitter stays inside each band so the
\* far-first ordering holds": of two packets accepted at the same time, the one
\* heard in a weaker band is not the later to leave.
FarFirst ==
    \A j, k \in Keys :
        /\ pending[j] # NoRelay /\ pending[k] # NoRelay
        /\ NoSignal \notin {pending[j].rssi, pending[k].rssi}
        /\ stamp[j] = stamp[k]
        /\ BandOf(pending[j].rssi) < BandOf(pending[k].rssi)
        => pending[j].sendAt < pending[k].sendAt

\* The invariant behind RelayOnce.  What stands later in the cache was used
\* since; what is known and no longer cached was pushed out by SeenCapacity
\* others; and a relay that waits is the first since the cache could have
\* forgotten its key.
UsedSince == \A i, j \in DOMAIN seen : i < j => seen[j] \in since[seen[i]]
LostUnderPressure == \A k \in known : k \in Cached \/ Cardinality(since[k]) >= SeenCapacity
WaitsForTheFirst == \A k \in Keys : pending[k] # NoRelay => k \notin OwnKeys /\ relays[k] = 0
RelayInduct == UsedSince /\ LostUnderPressure /\ WaitsForTheFirst /\ RelayOnce

\* The invariant behind FarFirst: a relay waits one of the delays of the band
\* its packet was heard in, from the moment the packet was remembered.
WaitsInBand ==
    \A k \in Keys : pending[k] # NoRelay =>
        \E d \in RelayDelays(pending[k].rssi) : pending[k].sendAt = stamp[k] + d

\* Every relay that on_receive schedules is eventually transmitted by due() or
\* cancelled: no entry stays in Flooder.pending.
RelaysResolve == \A k \in Keys : (pending[k] # NoRelay) ~> (pending[k] = NoRelay)
=============================================================================
