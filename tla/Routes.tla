------------------------------- MODULE Routes -------------------------------
(***************************************************************************)
(* The route table of one node (beachedmesh/routes.py): a bounded, least   *)
(* recently used hot table in memory, candidates waiting to settle, a      *)
(* write buffer, and the rows on disk, across crashes and restarts.        *)
(*                                                                         *)
(* Time is counted in ticks, TicksPerSecond to the second: rows keep the   *)
(* moment a node was heard, hot entries only its whole second.  A signal   *)
(* is a number whose least value, 0, also stands for "no reading" (the -128*)
(* the hot table stores).  Public keys and name travel together, so a row  *)
(* is keyed or not; first_seen and the announce count are left out.        *)
(***************************************************************************)
EXTENDS Integers, FiniteSets, Sequences, SequencesExt

CONSTANTS
    Nodes,          \* the other nodes of the mesh
    Vias,           \* MAC addresses of the neighbours that hand us frames
    MaxHops,        \* largest hop count of an announce
    MaxRssi,        \* strongest signal
    TicksPerSecond,
    SettleAfter,    \* SETTLE_AFTER, in ticks
    FloodGuard,     \* FLOOD_GUARD, in ticks
    TTL,            \* RouteTable.ttl, in ticks
    FlushAfter,     \* FLUSH_SECONDS, in ticks
    FlushEntries,   \* FLUSH_ENTRIES
    MaxHot,         \* RouteTable.max_hot
    Offers,         \* the copies of announces that may be heard
    Horizon,        \* bound of the model: the clock stops here
    MaxRestarts,    \* bound of the model: times the process may stop
    None            \* the absent route, candidate or row

Hop   == 0..MaxHops
Rssi  == 0..MaxRssi

HotEntry  == [via : Vias, hops : Hop, rssi : Rssi, seen : Nat]
Candidate == [via : Vias, hops : Hop, rssi : Rssi, commitAt : Nat]
Row       == [via : Vias, hops : Hop, rssi : Rssi, seen : Nat, keyed : BOOLEAN]
Offer     == [via : Vias, hops : Hop, rssi : Rssi, keyed : BOOLEAN]
Ways      == [via : Vias, hops : Hop, rssi : Rssi]

ASSUME SetsAssumption   == IsFiniteSet(Nodes)
ASSUME TimesAssumption  == /\ TicksPerSecond \in Nat \ {0}
                           /\ SettleAfter \in Nat /\ FloodGuard \in Nat
                           /\ TTL \in Nat /\ FlushAfter \in Nat
ASSUME BoundsAssumption == /\ MaxHops \in Nat /\ MaxRssi \in Nat
                           /\ FlushEntries \in Nat \ {0} /\ MaxHot \in Nat \ {0}
                           /\ Horizon \in Nat /\ MaxRestarts \in Nat
ASSUME OffersAssumption == Offers \subseteq Offer
ASSUME NoneAssumption   == None \notin HotEntry \cup Candidate \cup Row \cup Ways

VARIABLES
    now,        \* time.time(), in ticks
    up,         \* the process is running
    lru,        \* ids in the hot table, least recently used first
    hot,        \* RouteTable._hot; None for an id not in lru
    pending,    \* RouteTable._pending
    buf,        \* ColdStore._buf
    disk,       \* the routes table of the database
    idle,       \* ticks since the last flush, up to FlushAfter
    \* History variables: they guard no action.
    heard,      \* when each node was last heard, as far as this process knows
    copies,     \* worse copies heard since the node's settle began
    used,       \* when each hot entry was last put or looked up
    restarts

memory == <<lru, hot, pending, buf, idle>>
vars   == <<now, up, memory, disk, heard, copies, used, restarts>>

Second(t) == t \div TicksPerSecond

(***************************************************************************)
(* The hot table                                                           *)
(***************************************************************************)
Hot == ToSet(lru)

\* The entries of s that are not in S, in the order of s.
Drop(s, S) ==
    LET kept == {i \in DOMAIN s : s[i] \notin S}
        rank(i) == Cardinality({k \in kept : k <= i})
    IN  [j \in 1..Cardinality(kept) |-> s[CHOOSE i \in kept : rank(i) = j]]

\* Mistake: the hot table is not trimmed.
NewestAll(s) == s

Newest(s) == IF Len(s) > MaxHot THEN SubSeq(s, Len(s) - MaxHot + 1, Len(s)) ELSE s

Entry(r, seen) == [via |-> r.via, hops |-> r.hops, rssi |-> r.rssi, seen |-> Second(seen)]

\* _put_hot of each id n of the duplicate-free sequence ids, with entry[n]:
\* every one moves to the recent end, and the oldest go while there are too many.
PutHot(ids, entry) ==
    LET kept == Newest(Drop(lru, ToSet(ids)) \o ids)
    IN  /\ lru' = kept
        /\ hot' = [n \in Nodes |-> IF n \notin ToSet(kept) THEN None
                                   ELSE IF n \in ToSet(ids) THEN entry[n] ELSE hot[n]]
        /\ used' = [n \in Nodes |-> IF n \in ToSet(ids) THEN now ELSE used[n]]

(***************************************************************************)
(* The cold store                                                          *)
(***************************************************************************)
Buffered(b) == {n \in Nodes : b[n] # None}

RowOf(r, keyed) ==
    [via |-> r.via, hops |-> r.hops, rssi |-> r.rssi, seen |-> now, keyed |-> keyed]

\* Mistake: a row written over another replaces its keys too.
OverAll(row, old) == row

\* A row written over another keeps the keys it does not bring itself.
Over(row, old) == [row EXCEPT !.keyed = row.keyed \/ (old # None /\ old.keyed)]

Upsert(d, b) == [n \in Nodes |-> IF b[n] = None THEN d[n] ELSE Over(b[n], d[n])]

NoRows == [n \in Nodes |-> None]

\* What cold.buffer leaves behind when called with row[n] for each n of ids.  It
\* flushes whenever FLUSH_ENTRIES rows have gathered: Flushed(ids) of the calls
\* end on disk, the later ones in the buffer.
Flushed(ids) ==
    LET full == {i \in DOMAIN ids :
                    Cardinality(Buffered(buf) \cup {ids[j] : j \in 1..i}) >= FlushEntries}
        first == Len(ids) + 1 - Cardinality(full)
    IN  IF full = {} THEN 0
        ELSE first + FlushEntries * ((Len(ids) - first) \div FlushEntries)

AfterBuffer(ids, row) ==
    LET cut   == Flushed(ids)
        early == {ids[i] : i \in 1..cut}
        late  == {ids[i] : i \in (cut + 1)..Len(ids)}
        fill(b, S) == [n \in Nodes |-> IF n \in S THEN Over(row[n], b[n]) ELSE b[n]]
    IN  IF cut = 0
        THEN [buf |-> fill(buf, late), disk |-> disk, idle |-> idle]
        ELSE [buf |-> fill(NoRows, late), disk |-> Upsert(disk, fill(buf, early)), idle |-> 0]

Buffer(ids, row) ==
    LET after == AfterBuffer(ids, row)
    IN  /\ buf' = after.buf /\ disk' = after.disk /\ idle' = after.idle

\* Mistake: rows that are not flushed are not looked at.
ColdGetDisk(n) == disk[n]

\* cold.get: the buffer first, else the disk.
ColdGet(n) == IF buf[n] # None THEN buf[n] ELSE disk[n]

(***************************************************************************)
(* RouteTable.learn, one action per verdict.  r is the copy of an announce *)
(* that was heard; it brings keys if its signature was checked on this     *)
(* copy.  (The verdict "self" changes nothing: Nodes are the others.)      *)
(***************************************************************************)
Commit(n, r) ==
    /\ PutHot(<<n>>, [m \in {n} |-> Entry(r, now)])
    /\ Buffer(<<n>>, [m \in {n} |-> RowOf(r, r.keyed)])

\* The node was heard; the held route stays and is written again.
NoteHearing(n, keyed) ==
    /\ Buffer(<<n>>, [m \in {n} |-> RowOf(hot[n], keyed)])
    /\ UNCHANGED <<lru, hot, used>>

DropCandidate(n) ==
    /\ pending' = [pending EXCEPT ![n] = None]
    /\ copies'  = [copies EXCEPT ![n] = {}]

\* Mistake: the window is counted from the record, which any copy renews.
GuardedByRecord(n) == now - ColdGet(n).seen <= FloodGuard

\* The held route was touched within FLOOD_GUARD, by the whole-second stamp.
Guarded(n) == now - hot[n].seen * TicksPerSecond <= FloodGuard

Hear(n) ==
    /\ up
    /\ now + SettleAfter <= Horizon
    /\ heard' = [heard EXCEPT ![n] = now]
    /\ UNCHANGED <<now, up, restarts>>

\* "new"
LearnNew(n, r) ==
    /\ Hear(n)
    /\ hot[n] = None
    /\ DropCandidate(n)
    /\ Commit(n, r)

\* "better", by hops
LearnShorter(n, r) ==
    /\ Hear(n)
    /\ hot[n] # None /\ r.hops < hot[n].hops
    /\ DropCandidate(n)
    /\ Commit(n, r)

\* "refreshed", or "better" for an equally short way through another neighbour
LearnEqual(n, r) ==
    /\ Hear(n)
    /\ hot[n] # None /\ r.hops = hot[n].hops
    /\ r.via = hot[n].via \/ ~Guarded(n) \/ r.rssi > hot[n].rssi
    /\ DropCandidate(n)
    /\ Commit(n, r)

\* "kept": a sibling of the copy that has just refreshed the route
KeepEqual(n, r) ==
    /\ Hear(n)
    /\ hot[n] # None /\ r.hops = hot[n].hops
    /\ r.via # hot[n].via /\ Guarded(n) /\ r.rssi <= hot[n].rssi
    /\ DropCandidate(n)
    /\ NoteHearing(n, r.keyed)

Beats(r, p) == r.hops < p.hops \/ (r.hops = p.hops /\ r.rssi > p.rssi)

\* Mistake: only the first worse copy counts.
LearnWorseFirst(n, r) ==
    /\ Hear(n)
    /\ hot[n] # None /\ r.hops > hot[n].hops
    /\ ~Guarded(n)
    /\ pending' = IF pending[n] # None THEN pending
                  ELSE [pending EXCEPT ![n] = [via |-> r.via, hops |-> r.hops,
                                               rssi |-> r.rssi, commitAt |-> now + SettleAfter]]
    /\ copies' = [copies EXCEPT ![n] = @ \cup {[hops |-> r.hops, rssi |-> r.rssi]}]
    /\ NoteHearing(n, r.keyed)

\* "settling": a worse copy opens a settle, or sharpens the one that is open
LearnWorse(n, r) ==
    /\ Hear(n)
    /\ hot[n] # None /\ r.hops > hot[n].hops
    /\ ~Guarded(n)
    /\ LET p == pending[n]
           commitAt == IF p = None THEN now + SettleAfter ELSE p.commitAt
       IN  pending' = IF p = None \/ Beats(r, p)
                      THEN [pending EXCEPT ![n] = [via |-> r.via, hops |-> r.hops,
                                                   rssi |-> r.rssi, commitAt |-> commitAt]]
                      ELSE pending
    /\ copies' = [copies EXCEPT ![n] = @ \cup {[hops |-> r.hops, rssi |-> r.rssi]}]
    /\ NoteHearing(n, r.keyed)

\* "kept": a worse straggler of the flood that has just updated the route
KeepWorse(n, r) ==
    /\ Hear(n)
    /\ hot[n] # None /\ r.hops > hot[n].hops
    /\ Guarded(n)
    /\ NoteHearing(n, r.keyed)
    /\ UNCHANGED <<pending, copies>>

(***************************************************************************)
(* RouteTable.tick, next_hop and expire                                    *)
(***************************************************************************)
Overdue == {n \in Nodes : pending[n] # None /\ pending[n].commitAt <= now}

\* Mistake: a candidate that is committed is not forgotten.
PopNothing == UNCHANGED <<pending, copies>>

PopOverdue ==
    /\ pending' = [n \in Nodes |-> IF n \in Overdue THEN None ELSE pending[n]]
    /\ copies'  = [n \in Nodes |-> IF n \in Overdue THEN {} ELSE copies[n]]

\* The dict of candidates is walked in the order the settles began.
SettleOrders ==
    {ids \in SetToSeqs(Overdue) :
        \A i, j \in DOMAIN ids :
            i < j => pending[ids[i]].commitAt <= pending[ids[j]].commitAt}

\* _settle, then maybe_flush on what it left.  (A turn with nothing to settle
\* or to flush changes nothing.)
Tick ==
    /\ up
    /\ \E ids \in SettleOrders :
          LET after == AfterBuffer(ids, [n \in Overdue |-> RowOf(pending[n], FALSE)])
              flush == Buffered(after.buf) # {} /\ after.idle >= FlushAfter
          IN  /\ ids # <<>> \/ flush
              /\ PutHot(ids, [n \in Overdue |-> Entry(pending[n], now)])
              /\ buf'  = IF flush THEN NoRows ELSE after.buf
              /\ disk' = IF flush THEN Upsert(after.disk, after.buf) ELSE after.disk
              /\ idle' = IF flush THEN 0 ELSE after.idle
    /\ PopOverdue
    /\ UNCHANGED <<now, up, heard, restarts>>

\* A hit moves the entry to the recent end; a cold hit promotes the row.
NextHop(n) ==
    /\ up
    /\ hot[n] # None \/ ColdGet(n) # None
    /\ PutHot(<<n>>, [m \in {n} |-> IF hot[n] # None THEN hot[n]
                                     ELSE Entry(ColdGet(n), ColdGet(n).seen)])
    /\ UNCHANGED <<now, up, pending, buf, disk, idle, heard, copies, restarts>>

\* A miss changes nothing.
NextHopMiss(n) == up /\ hot[n] = None /\ ColdGet(n) = None /\ UNCHANGED vars

\* Mistake: only the disk is swept.
StaleNone == {}

StaleHot  == {n \in Nodes : hot[n] # None /\ hot[n].seen * TicksPerSecond < now - TTL}
StaleDisk == {n \in Nodes : disk[n] # None /\ disk[n].seen < now - TTL}

\* Drops what is past the TTL from the hot table and from the disk; candidates
\* and buffered rows are not looked at.
Expire ==
    /\ up
    /\ StaleHot \cup StaleDisk # {}
    /\ lru'  = Drop(lru, StaleHot)
    /\ hot'  = [n \in Nodes |-> IF n \in StaleHot THEN None ELSE hot[n]]
    /\ disk' = [n \in Nodes |-> IF n \in StaleDisk THEN None ELSE disk[n]]
    /\ UNCHANGED <<now, up, pending, buf, idle, heard, copies, used, restarts>>

(***************************************************************************)
(* The process stops, by close() or without it, and starts again.          *)
(***************************************************************************)
Stop ==
    /\ up /\ restarts < MaxRestarts
    /\ up'  = FALSE
    /\ restarts' = restarts + 1
    /\ lru' = <<>>
    /\ hot' = [n \in Nodes |-> None]
    /\ pending' = [n \in Nodes |-> None]
    /\ buf' = NoRows
    /\ idle' = 0
    /\ copies' = [n \in Nodes |-> {}]
    /\ UNCHANGED <<now, heard, used>>

Close == Stop /\ disk' = Upsert(disk, buf)

Crash == Stop /\ UNCHANGED disk

\* The rows ColdStore.recent(max_hot) returns, most recently heard first.
Recent(ids) ==
    /\ \A i \in DOMAIN ids : disk[ids[i]] # None
    /\ \A i, j \in DOMAIN ids : i < j => disk[ids[i]].seen >= disk[ids[j]].seen
    /\ \A n \in Nodes \ ToSet(ids) :
          disk[n] # None => /\ Len(ids) = MaxHot
                            /\ \A i \in DOMAIN ids : disk[ids[i]].seen >= disk[n].seen

\* A new RouteTable, filled by warm(): the rows are put in the order recent()
\* returns them.
Start ==
    /\ ~up
    /\ up' = TRUE
    /\ \E S \in SUBSET Buffered(disk) : \E ids \in SetToSeqs(S) :
          /\ Len(ids) <= MaxHot /\ Recent(ids)
          /\ lru' = ids
          /\ hot' = [n \in Nodes |-> IF n \in S THEN Entry(disk[n], disk[n].seen) ELSE None]
          /\ used' = [n \in Nodes |-> IF n \in S THEN disk[n].seen ELSE used[n]]
    /\ heard' = [n \in Nodes |-> IF disk[n] # None THEN disk[n].seen ELSE 0]
    /\ UNCHANGED <<now, pending, buf, disk, idle, copies, restarts>>

PassTime ==
    /\ now < Horizon
    /\ now' = now + 1
    /\ idle' = IF up /\ idle < FlushAfter THEN idle + 1 ELSE idle
    /\ UNCHANGED <<up, lru, hot, pending, buf, disk, heard, copies, used, restarts>>

(***************************************************************************)
(* Specification                                                           *)
(***************************************************************************)
Init ==
    /\ now = 0 /\ up = TRUE /\ idle = 0 /\ restarts = 0
    /\ lru = <<>>
    /\ hot = [n \in Nodes |-> None]
    /\ pending = [n \in Nodes |-> None]
    /\ buf  = NoRows
    /\ disk = NoRows
    /\ heard  = [n \in Nodes |-> 0]
    /\ copies = [n \in Nodes |-> {}]
    /\ used   = [n \in Nodes |-> 0]

Learn(n, r) ==
    \/ LearnNew(n, r)
    \/ LearnShorter(n, r)
    \/ LearnEqual(n, r)
    \/ KeepEqual(n, r)
    \/ LearnWorse(n, r)
    \/ KeepWorse(n, r)

Next ==
    \/ \E n \in Nodes, r \in Offers : Learn(n, r)
    \/ Tick
    \/ \E n \in Nodes : NextHop(n) \/ NextHopMiss(n)
    \/ Expire
    \/ Close
    \/ Crash
    \/ Start
    \/ PassTime

\* The poll loop calls tick() every turn, and time passes.
Fairness == WF_vars(Tick) /\ WF_vars(PassTime)

Spec == Init /\ [][Next]_vars /\ Fairness

(***************************************************************************)
(* Properties                                                              *)
(***************************************************************************)

\* The part of the types that does not depend on the recency order.
StoreTypeOK ==
    /\ now \in Nat /\ up \in BOOLEAN /\ idle \in 0..FlushAfter
    /\ hot \in [Nodes -> HotEntry \cup {None}]
    /\ pending \in [Nodes -> Candidate \cup {None}]
    /\ buf \in [Nodes -> Row \cup {None}]
    /\ disk \in [Nodes -> Row \cup {None}]
    /\ heard \in [Nodes -> Nat] /\ used \in [Nodes -> Nat]
    /\ copies \in [Nodes -> SUBSET [hops : Hop, rssi : Rssi]]
    /\ restarts \in 0..MaxRestarts

RecencyOK ==
    /\ lru \in Seq(Nodes) /\ IsInjective(lru) /\ Len(lru) <= MaxHot
    /\ Hot = {n \in Nodes : hot[n] # None}

\* Every variable has its type; a node is in the hot table exactly if it is in
\* the recency order, and the hot table keeps to RouteTable.max_hot.
TypeOK == StoreTypeOK /\ RecencyOK

SameRoute(r, q) == r.via = q.via /\ r.hops = q.hops /\ r.rssi = q.rssi

\* The route that traffic uses from memory is the one on record: whatever
\* learn, settle, eviction, promotion, flush, expiry and restart did, a hot
\* entry has a record in the buffer or on disk with the same route, last heard
\* no earlier than the hot entry says.
HotAgreesWithCold ==
    \A n \in Nodes : hot[n] # None =>
        /\ ColdGet(n) # None
        /\ SameRoute(hot[n], ColdGet(n))
        /\ hot[n].seen * TicksPerSecond <= ColdGet(n).seen

\* Of the worse copies heard since a settle began, none beats the candidate:
\* what tick() commits is the lowest-hop copy of the flood, then the strongest.
SettlesOnBest ==
    \A n \in Nodes : pending[n] # None =>
        /\ \E c \in copies[n] : c.hops = pending[n].hops /\ c.rssi = pending[n].rssi
        /\ \A c \in copies[n] : ~Beats(c, pending[n])

\* learn() says that every hearing is what the TTL counts: the hot entry of a
\* node that is not settling lags behind its last hearing by no more than the
\* flood guard and the part of a second its stamp drops.
HotTracksHearing ==
    \A n \in Nodes : hot[n] # None /\ pending[n] = None =>
        heard[n] - hot[n].seen * TicksPerSecond <= FloodGuard + TicksPerSecond - 1

HasKeys(n) == (buf[n] # None /\ buf[n].keyed) \/ (disk[n] # None /\ disk[n].keyed)

\* The keys of a node, once recorded, are lost only to the TTL or to a crash
\* before the buffer is flushed: no later announce without keys, flush, settle,
\* eviction, clean close or restart discards them.
KeysSurvive ==
    [][\A n \in Nodes : HasKeys(n) => HasKeys(n)' \/ n \in StaleDisk \/ Crash]_vars

\* The comment on RouteTable._hot: "the least recently used entry is the one
\* evicted".  An entry that leaves the table without being stale was used no
\* later than any that stays.
LeastRecentlyUsedLeaves ==
    \A n \in Hot \ (StaleHot \cup Hot') : \A m \in Hot' : used[n] <= used'[m]
EvictsLeastRecentlyUsed == [][up /\ up' => LeastRecentlyUsedLeaves]_vars

\* Every settle ends: by a commit, by a copy no worse than the held route, or
\* with the process.
SettlesResolve == \A n \in Nodes : (pending[n] # None) ~> (pending[n] = None)

(***************************************************************************)
(* What the properties rest on.                                            *)
(***************************************************************************)
\* Stamps are of the past, and a process that is down holds nothing.
TablesSound ==
    \A n \in Nodes :
        /\ heard[n] <= now
        /\ buf[n] # None => buf[n].seen <= now
        /\ disk[n] # None => disk[n].seen <= now
        /\ ~up => hot[n] = None /\ pending[n] = None /\ buf[n] = None

\* tick() waits for a way that is farther than the route on record.
HeldIsFarther ==
    \A n \in Nodes : pending[n] # None /\ ColdGet(n) # None =>
        pending[n].hops > ColdGet(n).hops

\* Whatever learn() makes of a copy, it puts the hearing on record.
HearingOnRecord ==
    up => \A n \in Nodes : ColdGet(n) # None => heard[n] <= ColdGet(n).seen

\* Together the invariant behind HotAgreesWithCold, HotTracksHearing and the
\* implementation of RouteMap.
StoreInduct ==
    StoreTypeOK /\ TablesSound /\ HotAgreesWithCold /\ HeldIsFarther /\ HearingOnRecord

\* Until the process is started again, whose warm() turns it round, the recency
\* order is the order of use.
UsedInOrder ==
    restarts = 0 => \A i, j \in DOMAIN lru : i < j => used[lru[i]] <= used[lru[j]]

\* Together the invariant behind the eviction of the least recently used.
RecencyInduct ==
    /\ RecencyOK /\ UsedInOrder
    /\ up \/ restarts # 0
    /\ \A n \in Nodes : used[n] <= now

\* A settle begins with no copies, and the copies go with it.
CopiesInduct == SettlesOnBest /\ \A n \in Nodes : pending[n] = None => copies[n] = {}

Way(r) == IF r = None THEN None ELSE [via |-> r.via, hops |-> r.hops, rssi |-> r.rssi]

Farther(w, v) == w.hops > v.hops

\* What a look-up finds, what it would find after a crash, and what waits.
FoundWay  == [n \in Nodes |-> Way(IF hot[n] # None THEN hot[n] ELSE ColdGet(n))]
SavedWay  == [n \in Nodes |-> Way(disk[n])]
HeldWay   == [n \in Nodes |-> Way(pending[n])]

Map == INSTANCE RouteMap WITH
           Worse <- Farther, route <- FoundWay, saved <- SavedWay, held <- HeldWay

\* For those who ask it, the route table is a map: whatever is evicted, promoted,
\* buffered, flushed, expired or warmed, and however learn's cases interleave
\* with them, a node's route changes only by an announce, a settle or the TTL,
\* and a crash brings back what was saved, which is never what nobody announced.
ImplementsMap == Map!Spec

\* cold.get's promise of the "full record", on which keys_for relies: if a
\* node's keys are on record, a look-up finds them.
KeysAreFound == \A n \in Nodes : HasKeys(n) => ColdGet(n).keyed
=============================================================================
