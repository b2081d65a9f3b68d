---------------------------- MODULE RoutesProofs ----------------------------
(***************************************************************************)
(* Proofs about Routes: memory and disk agree, keys survive, settles take  *)
(* the best copy, and the table implements RouteMap, for any nodes, times, *)
(* sizes of the hot table and of the write buffer, crashes and restarts.   *)
(* The hot table keeps to its size and to the order of use.  Last, for     *)
(* each originator the table is the one that Mesh looks at.                *)
(***************************************************************************)
EXTENDS Routes, SequenceTheorems, FiniteSetTheorems, TLAPS

(***************************************************************************)
(* Arithmetic of stamps and of the write buffer                            *)
(***************************************************************************)
LEMMA Quotient ==
    ASSUME NEW a \in Nat, NEW b \in Nat \ {0}
    PROVE  a \div b \in Nat /\ b * (a \div b) <= a /\ a < b * (a \div b) + b
<1>1. a \div b \in Int /\ a % b \in 0..(b - 1) /\ a = b * (a \div b) + (a % b)
  OBVIOUS
<1> QED
  OBVIOUS

\* A whole-second stamp is of the past, by less than a second.
LEMMA Stamps ==
    ASSUME NEW t \in Nat
    PROVE  Second(t) \in Nat /\ Second(t) * TicksPerSecond <= t
           /\ t - Second(t) * TicksPerSecond <= TicksPerSecond - 1
<1>1. TicksPerSecond \in Nat \ {0}
  BY TimesAssumption
<1>2. /\ t \div TicksPerSecond \in Nat
      /\ TicksPerSecond * (t \div TicksPerSecond) <= t
      /\ t < TicksPerSecond * (t \div TicksPerSecond) + TicksPerSecond
  BY <1>1, Quotient
<1> DEFINE q == t \div TicksPerSecond
<1>3. q * TicksPerSecond = TicksPerSecond * q /\ q * TicksPerSecond \in Nat
  BY <1>1, <1>2
<1> HIDE DEF q
<1>4. q * TicksPerSecond <= t /\ t < q * TicksPerSecond + TicksPerSecond /\ q \in Nat
  BY <1>2, <1>3 DEF q
<1>5. t - q * TicksPerSecond <= TicksPerSecond - 1
  BY <1>1, <1>3, <1>4
<1> QED
  BY <1>4, <1>5 DEF q, Second

\* The calls that end on disk are among those that were made.
LEMMA FlushedCalls ==
    ASSUME NEW ids \in Seq(Nodes)
    PROVE  Flushed(ids) \in 0..Len(ids)
<1> DEFINE full == {i \in DOMAIN ids :
                       Cardinality(Buffered(buf) \cup {ids[j] : j \in 1..i}) >= FlushEntries}
           first == Len(ids) + 1 - Cardinality(full)
           runs == (Len(ids) - first) \div FlushEntries
<1>1. Len(ids) \in Nat /\ DOMAIN ids = 1..Len(ids)
  BY LenProperties
<1>2. IsFiniteSet(DOMAIN ids) /\ Cardinality(DOMAIN ids) = Len(ids)
  BY <1>1, FS_Interval
<1>3. IsFiniteSet(full) /\ Cardinality(full) \in Nat /\ Cardinality(full) <= Len(ids)
  <2>1. full \subseteq DOMAIN ids
    OBVIOUS
  <2> HIDE DEF full
  <2> QED
    BY <1>2, <2>1, FS_Subset, FS_CardinalityType
<1>4. CASE full = {}
  BY <1>1, <1>4 DEF Flushed
<1>5. CASE full # {}
  <2>1. Cardinality(full) # 0
    <3> HIDE DEF full
    <3> QED
      BY <1>3, <1>5, FS_EmptySet
  <2>2. first \in 1..Len(ids) /\ Len(ids) - first \in Nat
    <3> HIDE DEF full
    <3> QED
      BY <1>1, <1>3, <2>1
  <2>3. Flushed(ids) = first + FlushEntries * runs
    BY <1>5 DEF Flushed
  <2> HIDE DEF full, first
  <2>4. FlushEntries \in Nat \ {0}
    BY BoundsAssumption
  <2>5. runs \in Nat /\ FlushEntries * runs <= Len(ids) - first
    BY <2>2, <2>4, Quotient
  <2>6. FlushEntries * runs \in Nat
    BY <2>4, <2>5
  <2> HIDE DEF runs
  <2> QED
    BY <1>1, <2>2, <2>3, <2>5, <2>6
<1> QED
  BY <1>4, <1>5

(***************************************************************************)
(* The cold store                                                          *)
(***************************************************************************)
\* The same record, but for the keys.
Alike(r, q) ==
    \/ r = None /\ q = None
    \/ r # None /\ q # None /\ SameRoute(r, q) /\ r.seen = q.seen

\* What cold.get finds in buffer b and on disk d, and whether with keys.
Found(b, d, n) == IF b[n] # None THEN b[n] ELSE d[n]

Keyed(b, d, n) == (b[n] # None /\ b[n].keyed) \/ (d[n] # None /\ d[n].keyed)

\* b and d are what becomes of buffer and disk when row[n] is written for each n
\* of S, whatever is flushed meanwhile.
Writes(b, d, S, row) ==
    /\ b \in [Nodes -> Row \cup {None}] /\ d \in [Nodes -> Row \cup {None}]
    /\ \A n \in S : Alike(Found(b, d, n), row[n])
    /\ \A n \in Nodes \ S : Alike(Found(b, d, n), ColdGet(n))
    /\ \A n \in Nodes : \/ Alike(d[n], disk[n])
                        \/ Alike(d[n], ColdGet(n))
                        \/ Alike(d[n], Found(b, d, n))
    /\ \A n \in Nodes : HasKeys(n) => Keyed(b, d, n)

\* A row written over another is the row, with at least the keys of both.
LEMMA OverKeeps ==
    ASSUME NEW row \in Row, NEW old \in Row \cup {None}
    PROVE  /\ Over(row, old) \in Row /\ Over(row, old) # None
           /\ Alike(Over(row, old), row)
           /\ row.keyed \/ (old # None /\ old.keyed) => Over(row, old).keyed
<1>1. /\ Over(row, old) = [via |-> row.via, hops |-> row.hops, rssi |-> row.rssi,
                           seen |-> row.seen, keyed |-> row.keyed \/ (old # None /\ old.keyed)]
  BY DEF Over, Row
<1>2. Over(row, old) \in Row
  <2>1. (old # None /\ old.keyed) \in BOOLEAN /\ row.keyed \in BOOLEAN
    BY DEF Row
  <2>2. (row.keyed \/ (old # None /\ old.keyed)) \in BOOLEAN
    OBVIOUS
  <2> QED
    BY <1>1, <2>2 DEF Row
<1>3. Over(row, old) # None /\ row # None
  BY <1>2, NoneAssumption
<1>4. /\ Over(row, old).via = row.via /\ Over(row, old).hops = row.hops
      /\ Over(row, old).rssi = row.rssi /\ Over(row, old).seen = row.seen
      /\ Over(row, old).keyed = (row.keyed \/ (old # None /\ old.keyed))
  BY <1>1
<1>5. Alike(Over(row, old), row)
  BY <1>3, <1>4 DEF Alike, SameRoute
<1> QED
  BY <1>2, <1>3, <1>4, <1>5

LEMMA AlikeItself == \A r : Alike(r, r)
BY DEF Alike, SameRoute

LEMMA AlikeTransitive == \A r, q, p : Alike(r, q) /\ Alike(q, p) => Alike(r, p)
BY DEF Alike, SameRoute

LEMMA AlikeSymmetric == \A r, q : Alike(r, q) => Alike(q, r)
BY DEF Alike, SameRoute

\* cold.buffer, called for each of ids.
LEMMA BufferWrites ==
    ASSUME StoreTypeOK, NEW ids \in Seq(Nodes), IsInjective(ids),
           NEW row, \A n \in ToSet(ids) : row[n] \in Row
    PROVE  LET after == AfterBuffer(ids, row)
           IN  Writes(after.buf, after.disk, ToSet(ids), row) /\ after.idle \in 0..FlushAfter
<1> DEFINE cut   == Flushed(ids)
           early == {ids[i] : i \in 1..cut}
           late  == {ids[i] : i \in (cut + 1)..Len(ids)}
           fill(b, S) == [n \in Nodes |-> IF n \in S THEN Over(row[n], b[n]) ELSE b[n]]
           after == AfterBuffer(ids, row)
           b == after.buf
           d == after.disk
<1>1. cut \in 0..Len(ids) /\ Len(ids) \in Nat /\ DOMAIN ids = 1..Len(ids)
  BY FlushedCalls, LenProperties
<1>2. /\ ToSet(ids) = early \cup late /\ early \cap late = {} /\ ToSet(ids) \subseteq Nodes
      /\ cut = 0 => early = {}
  <2> HIDE DEF cut
  <2>1. \A i \in 1..Len(ids) : i \in 1..cut \/ i \in (cut + 1)..Len(ids)
    BY <1>1
  <2>2. \A i \in 1..cut : i \in 1..Len(ids)
    BY <1>1
  <2>3. \A i \in (cut + 1)..Len(ids) : i \in 1..Len(ids) /\ i \notin 1..cut
    BY <1>1
  <2>4. ToSet(ids) = early \cup late
    BY <1>1, <2>1, <2>2, <2>3 DEF ToSet
  <2>5. early \cap late = {}
    BY <1>1, <2>2, <2>3 DEF IsInjective
  <2>6. ToSet(ids) \subseteq Nodes
    BY <1>1, ElementOfSeq DEF ToSet
  <2>7. cut = 0 => early = {}
    OBVIOUS
  <2> QED
    BY <2>4, <2>5, <2>6, <2>7
<1>3. /\ cut = 0 => b = fill(buf, late) /\ d = disk /\ after.idle = idle
      /\ cut # 0 => b = fill(NoRows, late) /\ d = Upsert(disk, fill(buf, early)) /\ after.idle = 0
  BY DEF AfterBuffer
<1>4. buf \in [Nodes -> Row \cup {None}] /\ disk \in [Nodes -> Row \cup {None}]
      /\ idle \in 0..FlushAfter /\ FlushAfter \in Nat
  BY TimesAssumption DEF StoreTypeOK
<1> HIDE DEF cut, early, late, after
<1>5. ASSUME NEW n \in Nodes
      PROVE  /\ b[n] \in Row \cup {None} /\ d[n] \in Row \cup {None}
             /\ n \in ToSet(ids) => Alike(Found(b, d, n), row[n])
             /\ n \notin ToSet(ids) => Alike(Found(b, d, n), ColdGet(n))
             /\ \/ Alike(d[n], disk[n])
                \/ Alike(d[n], ColdGet(n))
                \/ Alike(d[n], Found(b, d, n))
             /\ HasKeys(n) => Keyed(b, d, n)
  <2>1. buf[n] \in Row \cup {None} /\ disk[n] \in Row \cup {None} /\ None \notin Row
    BY <1>4, NoneAssumption
  <2>2. CASE cut = 0
    <3>1. b[n] = (IF n \in late THEN Over(row[n], buf[n]) ELSE buf[n]) /\ d[n] = disk[n]
      BY <1>3, <2>2
    <3>2. n \in ToSet(ids) <=> n \in late
      BY <1>2, <2>2
    <3>3. CASE n \in late
      <4>1. row[n] \in Row
        BY <3>2, <3>3
      <4>2. /\ b[n] \in Row /\ b[n] # None /\ Alike(b[n], row[n])
            /\ buf[n] # None /\ buf[n].keyed => b[n].keyed
        BY <2>1, <3>1, <3>3, <4>1, OverKeeps
      <4> QED
        BY <2>1, <3>1, <3>2, <3>3, <4>2, AlikeItself DEF Found, HasKeys, Keyed
    <3>4. CASE n \notin late
      BY <2>1, <3>1, <3>2, <3>4, AlikeItself DEF Found, ColdGet, HasKeys, Keyed
    <3> QED
      BY <3>3, <3>4
  <2>3. CASE cut # 0
    <3> DEFINE e == IF n \in early THEN Over(row[n], buf[n]) ELSE buf[n]
    <3>1. /\ b[n] = IF n \in late THEN Over(row[n], None) ELSE None
          /\ d[n] = IF e = None THEN disk[n] ELSE Over(e, disk[n])
      BY <1>3, <2>3 DEF Upsert, NoRows
    <3>2. n \in ToSet(ids) => row[n] \in Row
      OBVIOUS
    <3>3. /\ e \in Row \cup {None}
          /\ n \in early => e # None /\ Alike(e, row[n])
          /\ n \notin early => e = buf[n]
          /\ buf[n] # None /\ buf[n].keyed => e # None /\ e.keyed
      BY <1>2, <2>1, <3>2, OverKeeps
    <3> HIDE DEF e
    <3>4. /\ d[n] \in Row \cup {None}
          /\ e # None => d[n] # None /\ Alike(d[n], e)
          /\ e = None => d[n] = disk[n]
          /\ (e # None /\ e.keyed) \/ (disk[n] # None /\ disk[n].keyed) => d[n] # None /\ d[n].keyed
      BY <2>1, <3>1, <3>3, OverKeeps
    <3>5. HasKeys(n) => Keyed(b, d, n)
      BY <3>3, <3>4 DEF HasKeys, Keyed
    <3>6. CASE n \in late
      <4>1. /\ n \notin early /\ n \in ToSet(ids)
            /\ b[n] \in Row /\ b[n] # None /\ Alike(b[n], row[n])
        BY <1>2, <3>1, <3>2, <3>6, OverKeeps
      <4>2. Alike(d[n], disk[n]) \/ Alike(d[n], ColdGet(n))
        BY <3>3, <3>4, <4>1, AlikeItself DEF ColdGet
      <4> QED
        BY <3>4, <3>5, <4>1, <4>2 DEF Found
    <3>7. CASE n \notin late
      <4>1. b[n] = None /\ Found(b, d, n) = d[n]
        BY <3>1, <3>7 DEF Found
      <4>2. CASE n \in early
        BY <1>2, <3>3, <3>4, <3>5, <4>1, <4>2, AlikeTransitive, AlikeItself
      <4>3. CASE n \notin early
        <5>1. n \notin ToSet(ids)
          BY <1>2, <3>7, <4>3
        <5>2. Alike(d[n], ColdGet(n))
          BY <3>3, <3>4, <4>3, AlikeItself DEF ColdGet
        <5> QED
          BY <3>4, <3>5, <4>1, <5>1, <5>2
      <4> QED
        BY <4>2, <4>3
    <3> QED
      BY <3>6, <3>7
  <2> QED
    BY <2>2, <2>3
<1>6. b \in [Nodes -> Row \cup {None}] /\ d \in [Nodes -> Row \cup {None}]
  <2>1. (\E f : b = [n \in Nodes |-> f[n]]) /\ (\E f : d = [n \in Nodes |-> f[n]])
    BY <1>3, <1>4 DEF Upsert
  <2> QED
    BY <1>5, <2>1
<1>7. Writes(b, d, ToSet(ids), row)
  BY <1>2, <1>5, <1>6 DEF Writes
<1>8. after.idle \in 0..FlushAfter
  BY <1>3, <1>4
<1> QED
  BY <1>7, <1>8 DEF after

\* A flush leaves every record where cold.get finds it.
LEMMA FlushWrites ==
    ASSUME NEW b, NEW d, NEW S \in SUBSET Nodes, NEW row, Writes(b, d, S, row)
    PROVE  Writes(NoRows, Upsert(d, b), S, row)
<1> DEFINE u == Upsert(d, b)
<1>1. b \in [Nodes -> Row \cup {None}] /\ d \in [Nodes -> Row \cup {None}] /\ None \notin Row
  BY NoneAssumption DEF Writes
<1>2. ASSUME NEW n \in Nodes
      PROVE  /\ u[n] \in Row \cup {None} /\ NoRows[n] = None
             /\ Alike(u[n], Found(b, d, n))
             /\ Keyed(b, d, n) => Keyed(NoRows, u, n)
  <2>1. /\ u[n] = (IF b[n] = None THEN d[n] ELSE Over(b[n], d[n])) /\ NoRows[n] = None
        /\ b[n] \in Row \cup {None} /\ d[n] \in Row \cup {None}
    BY <1>1 DEF Upsert, NoRows
  <2>2. CASE b[n] = None
    BY <2>1, <2>2, AlikeItself DEF Found, Keyed
  <2>3. CASE b[n] # None
    <3>1. /\ u[n] \in Row /\ u[n] # None /\ Alike(u[n], b[n])
          /\ b[n].keyed \/ (d[n] # None /\ d[n].keyed) => u[n].keyed
      BY <2>1, <2>3, OverKeeps
    <3> QED
      BY <2>1, <2>3, <3>1 DEF Found, Keyed
  <2> QED
    BY <2>2, <2>3
<1>3. \A n \in Nodes : Found(NoRows, u, n) = u[n]
  BY <1>2 DEF Found
<1>4. u \in [Nodes -> Row \cup {None}] /\ NoRows \in [Nodes -> Row \cup {None}]
  BY <1>2 DEF Upsert, NoRows
<1> HIDE DEF u
<1>5. \A n \in Nodes : Alike(u[n], Found(NoRows, u, n))
  BY <1>3, AlikeItself
<1>6. \A n \in S : Alike(Found(NoRows, u, n), row[n])
  BY <1>2, <1>3, AlikeTransitive DEF Writes
<1>7. \A n \in Nodes \ S : Alike(Found(NoRows, u, n), ColdGet(n))
  BY <1>2, <1>3, AlikeTransitive DEF Writes
<1>8. \A n \in Nodes : HasKeys(n) => Keyed(NoRows, u, n)
  BY <1>2 DEF Writes
<1> QED
  BY <1>4, <1>5, <1>6, <1>7, <1>8 DEF Writes, u

LEMMA Single ==
    ASSUME NEW n \in Nodes
    PROVE  <<n>> \in Seq(Nodes) /\ IsInjective(<<n>>) /\ ToSet(<<n>>) = {n}
BY DEF IsInjective, ToSet

\* The same of a single call of cold.buffer.
LEMMA SingleWrites ==
    ASSUME StoreTypeOK, NEW n \in Nodes, NEW row, row[n] \in Row
    PROVE  LET after == AfterBuffer(<<n>>, row)
           IN  Writes(after.buf, after.disk, {n}, row) /\ after.idle \in 0..FlushAfter
<1>1. <<n>> \in Seq(Nodes) /\ IsInjective(<<n>>) /\ ToSet(<<n>>) = {n}
  BY Single
<1>2. \A m \in ToSet(<<n>>) : row[m] \in Row
  BY <1>1
<1>3. LET after == AfterBuffer(<<n>>, row)
      IN  Writes(after.buf, after.disk, ToSet(<<n>>), row) /\ after.idle \in 0..FlushAfter
  BY <1>1, <1>2, BufferWrites
<1> QED
  BY <1>1, <1>3

\* _put_hot changes the entries of ids, and may drop any.
LEMMA PutsHot ==
    ASSUME StoreTypeOK, NEW ids, NEW entry, \A n \in ToSet(ids) : entry[n] \in HotEntry,
           PutHot(ids, entry)
    PROVE  /\ hot' \in [Nodes -> HotEntry \cup {None}]
           /\ used' \in [Nodes -> Nat]
           /\ \A n \in Nodes : hot'[n] = None \/ hot'[n] = IF n \in ToSet(ids) THEN entry[n] ELSE hot[n]
<1> DEFINE kept == Newest(Drop(lru, ToSet(ids)) \o ids)
<1>1. /\ lru' = kept
      /\ hot' = [n \in Nodes |-> IF n \notin ToSet(kept) THEN None
                                 ELSE IF n \in ToSet(ids) THEN entry[n] ELSE hot[n]]
      /\ used' = [n \in Nodes |-> IF n \in ToSet(ids) THEN now ELSE used[n]]
  BY DEF PutHot
<1> HIDE DEF kept
<1>2. hot \in [Nodes -> HotEntry \cup {None}] /\ used \in [Nodes -> Nat] /\ now \in Nat
  BY DEF StoreTypeOK
<1>3. hot' \in [Nodes -> HotEntry \cup {None}]
  BY <1>1, <1>2
<1>4. used' \in [Nodes -> Nat]
  BY <1>1, <1>2
<1> QED
  BY <1>1, <1>3, <1>4

\* The row and the entry of a copy, or of a candidate that has settled.
LEMMA RowsAndEntries ==
    ASSUME StoreTypeOK, NEW r, r.via \in Vias, r.hops \in Hop, r.rssi \in Rssi,
           NEW keyed \in BOOLEAN, NEW t \in Nat
    PROVE  /\ RowOf(r, keyed) \in Row /\ RowOf(r, keyed) # None
           /\ SameRoute(RowOf(r, keyed), r) /\ RowOf(r, keyed).seen = now
           /\ Entry(r, t) \in HotEntry /\ Entry(r, t) # None
           /\ SameRoute(Entry(r, t), r) /\ Entry(r, t).seen = Second(t)
<1>1. now \in Nat /\ Second(t) \in Nat
  BY Stamps DEF StoreTypeOK
<1>2. RowOf(r, keyed) \in Row
  BY <1>1 DEF RowOf, Row
<1>3. Entry(r, t) \in HotEntry
  BY <1>1 DEF Entry, HotEntry
<1>4. SameRoute(RowOf(r, keyed), r) /\ RowOf(r, keyed).seen = now
  BY DEF RowOf, SameRoute
<1>5. SameRoute(Entry(r, t), r) /\ Entry(r, t).seen = Second(t)
  BY DEF Entry, SameRoute
<1> QED
  BY <1>2, <1>3, <1>4, <1>5, NoneAssumption

\* A copy that is taken goes to memory and to the store.
LEMMA Commits ==
    ASSUME StoreTypeOK, NEW n \in Nodes, NEW r \in Offer, Commit(n, r)
    PROVE  /\ Writes(buf', disk', {n}, [m \in {n} |-> RowOf(r, r.keyed)])
           /\ idle' \in 0..FlushAfter
           /\ hot' \in [Nodes -> HotEntry \cup {None}] /\ used' \in [Nodes -> Nat]
           /\ \A m \in Nodes : hot'[m] = None \/ hot'[m] = IF m = n THEN Entry(r, now) ELSE hot[m]
<1> DEFINE row == [m \in {n} |-> RowOf(r, r.keyed)]
           entry == [m \in {n} |-> Entry(r, now)]
<1>1. /\ PutHot(<<n>>, entry) /\ buf' = AfterBuffer(<<n>>, row).buf
      /\ disk' = AfterBuffer(<<n>>, row).disk /\ idle' = AfterBuffer(<<n>>, row).idle
  BY DEF Commit, Buffer
<1>2. /\ r.via \in Vias /\ r.hops \in Hop /\ r.rssi \in Rssi /\ r.keyed \in BOOLEAN /\ now \in Nat
  BY DEF Offer, StoreTypeOK
<1>3. RowOf(r, r.keyed) \in Row /\ Entry(r, now) \in HotEntry
  BY <1>2, RowsAndEntries
<1>4. row[n] \in Row /\ entry[n] \in HotEntry /\ entry[n] = Entry(r, now)
  BY <1>3
<1>5. Writes(buf', disk', {n}, row) /\ idle' \in 0..FlushAfter
  <2> HIDE DEF row
  <2> QED
    BY <1>1, <1>4, SingleWrites
<1> HIDE DEF entry
<1>6. /\ hot' \in [Nodes -> HotEntry \cup {None}] /\ used' \in [Nodes -> Nat]
      /\ \A m \in Nodes : hot'[m] = None \/ hot'[m] = IF m \in {n} THEN entry[m] ELSE hot[m]
  BY <1>1, <1>4, Single, PutsHot
<1> QED
  BY <1>4, <1>5, <1>6

\* A hearing that leaves the held route writes it again.
LEMMA Notes ==
    ASSUME StoreTypeOK, NEW n \in Nodes, hot[n] # None, NEW keyed \in BOOLEAN,
           NoteHearing(n, keyed)
    PROVE  /\ Writes(buf', disk', {n}, [m \in {n} |-> RowOf(hot[n], keyed)])
           /\ idle' \in 0..FlushAfter /\ UNCHANGED <<lru, hot, used>>
           /\ RowOf(hot[n], keyed) \in Row
           /\ SameRoute(RowOf(hot[n], keyed), hot[n]) /\ RowOf(hot[n], keyed).seen = now
<1> DEFINE row == [m \in {n} |-> RowOf(hot[n], keyed)]
<1>1. /\ buf' = AfterBuffer(<<n>>, row).buf /\ disk' = AfterBuffer(<<n>>, row).disk
      /\ idle' = AfterBuffer(<<n>>, row).idle /\ UNCHANGED <<lru, hot, used>>
  BY DEF NoteHearing, Buffer
<1>2. hot[n].via \in Vias /\ hot[n].hops \in Hop /\ hot[n].rssi \in Rssi /\ now \in Nat
  BY DEF StoreTypeOK, HotEntry
<1>3. /\ RowOf(hot[n], keyed) \in Row /\ SameRoute(RowOf(hot[n], keyed), hot[n])
      /\ RowOf(hot[n], keyed).seen = now
  BY <1>2, RowsAndEntries
<1>4. row[n] \in Row
  BY <1>3
<1>5. Writes(buf', disk', {n}, row) /\ idle' \in 0..FlushAfter
  <2> HIDE DEF row
  <2> QED
    BY <1>1, <1>4, SingleWrites
<1> QED
  BY <1>1, <1>3, <1>5

(***************************************************************************)
(* The invariant of memory and store                                       *)
(***************************************************************************)
\* What a hot entry says is on record, and of the past.
LEMMA HotOnRecord ==
    ASSUME StoreInduct, NEW n \in Nodes, hot[n] # None
    PROVE  /\ ColdGet(n) # None /\ ColdGet(n) \in Row
           /\ hot[n].via = ColdGet(n).via /\ hot[n].hops = ColdGet(n).hops
           /\ hot[n].rssi = ColdGet(n).rssi
           /\ hot[n].seen * TicksPerSecond \in Nat
           /\ hot[n].seen * TicksPerSecond <= ColdGet(n).seen
           /\ hot[n].seen * TicksPerSecond <= now
<1>1. ColdGet(n) # None /\ SameRoute(hot[n], ColdGet(n))
      /\ hot[n].seen * TicksPerSecond <= ColdGet(n).seen
  BY DEF StoreInduct, HotAgreesWithCold
<1>2. buf[n] \in Row \cup {None} /\ disk[n] \in Row \cup {None} /\ hot[n] \in HotEntry
      /\ now \in Nat
  BY DEF StoreInduct, StoreTypeOK
<1>3. ColdGet(n) \in Row /\ ColdGet(n).seen <= now
  BY <1>1, <1>2 DEF ColdGet, StoreInduct, TablesSound
<1>4. hot[n].seen \in Nat /\ ColdGet(n).seen \in Nat
  BY <1>2, <1>3 DEF HotEntry, Row
<1>5. hot[n].seen * TicksPerSecond \in Nat
  BY <1>4, TimesAssumption
<1> QED
  BY <1>1, <1>2, <1>3, <1>4, <1>5 DEF SameRoute

\* Records that are written now keep the invariant, if what stays in memory
\* agrees with them.
LEMMA WritesKeep ==
    ASSUME StoreInduct, StoreTypeOK', up, UNCHANGED <<now, up>>,
           NEW S \in SUBSET Nodes, NEW row, Writes(buf', disk', S, row),
           \A m \in S :
              /\ row[m] \in Row /\ row[m].seen = now /\ heard'[m] <= now
              /\ \/ hot'[m] = None
                 \/ SameRoute(hot'[m], row[m]) /\ hot'[m].seen * TicksPerSecond <= now
              /\ pending'[m] = None \/ pending'[m].hops > row[m].hops,
           \A m \in Nodes \ S : /\ hot'[m] \in {None, hot[m]} /\ heard'[m] = heard[m]
                                /\ pending'[m] \in {None, pending[m]}
    PROVE  StoreInduct'
<1> DEFINE found(m) == Found(buf', disk', m)
<1>1. ASSUME NEW m \in Nodes
      PROVE  /\ ColdGet(m)' = found(m)
             /\ buf'[m] # None => found(m) = buf'[m]
             /\ found(m) \in Row \cup {None}
             /\ m \in S => Alike(found(m), row[m]) /\ row[m] # None
             /\ m \notin S => Alike(found(m), ColdGet(m))
             /\ \/ Alike(disk'[m], disk[m]) \/ Alike(disk'[m], ColdGet(m))
                \/ Alike(disk'[m], found(m))
  BY NoneAssumption DEF Found, ColdGet, Writes
<1> HIDE DEF found
<1>2. ASSUME NEW m \in Nodes
      PROVE  /\ buf[m] # None => buf[m].seen <= now
             /\ disk[m] # None => disk[m].seen <= now
             /\ ColdGet(m) # None => ColdGet(m).seen <= now /\ heard[m] <= ColdGet(m).seen
             /\ heard[m] <= now /\ now \in Nat
  BY DEF StoreInduct, StoreTypeOK, TablesSound, HearingOnRecord, ColdGet
<1>3. ASSUME NEW m \in Nodes
      PROVE  found(m) # None => found(m).seen <= now
  BY <1>1, <1>2 DEF Alike
<1>4. TablesSound'
  <2> SUFFICES ASSUME NEW m \in Nodes
               PROVE  /\ heard'[m] <= now
                      /\ buf'[m] # None => buf'[m].seen <= now
                      /\ disk'[m] # None => disk'[m].seen <= now
    BY DEF TablesSound
  <2>1. heard'[m] <= now
    BY <1>2
  <2>2. buf'[m] # None => buf'[m].seen <= now
    BY <1>1, <1>3
  <2>3. disk'[m] # None => disk'[m].seen <= now
    BY <1>1, <1>2, <1>3 DEF Alike
  <2> QED
    BY <2>1, <2>2, <2>3
<1>5. HotAgreesWithCold'
  <2> SUFFICES ASSUME NEW m \in Nodes, hot'[m] # None
               PROVE  /\ found(m) # None /\ SameRoute(hot'[m], found(m))
                      /\ hot'[m].seen * TicksPerSecond <= found(m).seen
    BY <1>1 DEF HotAgreesWithCold
  <2>1. CASE m \in S
    <3>1. /\ SameRoute(hot'[m], row[m]) /\ hot'[m].seen * TicksPerSecond <= now
          /\ row[m].seen = now /\ Alike(found(m), row[m]) /\ row[m] # None
      BY <1>1, <2>1
    <3> QED
      BY <3>1 DEF Alike, SameRoute
  <2>2. CASE m \notin S
    <3>1. hot'[m] = hot[m] /\ hot[m] # None /\ Alike(found(m), ColdGet(m))
      BY <1>1, <2>2
    <3>2. /\ ColdGet(m) # None /\ SameRoute(hot[m], ColdGet(m))
          /\ hot[m].seen * TicksPerSecond <= ColdGet(m).seen
      BY <3>1 DEF StoreInduct, HotAgreesWithCold
    <3> QED
      BY <3>1, <3>2 DEF Alike, SameRoute
  <2> QED
    BY <2>1, <2>2
<1>6. HeldIsFarther'
  <2> SUFFICES ASSUME NEW m \in Nodes, pending'[m] # None, found(m) # None
               PROVE  pending'[m].hops > found(m).hops
    BY <1>1 DEF HeldIsFarther
  <2>1. CASE m \in S
    <3>1. pending'[m].hops > row[m].hops /\ Alike(found(m), row[m])
      BY <1>1, <2>1
    <3>2. found(m).hops = row[m].hops
      BY <3>1 DEF Alike, SameRoute
    <3> QED
      BY <3>1, <3>2
  <2>2. CASE m \notin S
    <3>1. pending'[m] = pending[m] /\ Alike(found(m), ColdGet(m))
      BY <1>1, <2>2
    <3>2. ColdGet(m) # None /\ found(m).hops = ColdGet(m).hops
      BY <3>1 DEF Alike, SameRoute
    <3>3. pending[m].hops > ColdGet(m).hops
      BY <3>1, <3>2 DEF StoreInduct, HeldIsFarther
    <3> QED
      BY <3>1, <3>2, <3>3
  <2> QED
    BY <2>1, <2>2
<1>7. HearingOnRecord'
  <2> SUFFICES ASSUME NEW m \in Nodes, found(m) # None PROVE heard'[m] <= found(m).seen
    BY <1>1 DEF HearingOnRecord
  <2>1. CASE m \in S
    <3>1. found(m).seen = row[m].seen
      BY <1>1, <2>1 DEF Alike
    <3> QED
      BY <2>1, <3>1
  <2>2. CASE m \notin S
    <3>1. heard'[m] = heard[m] /\ ColdGet(m) # None /\ found(m).seen = ColdGet(m).seen
      BY <1>1, <2>2 DEF Alike
    <3> QED
      BY <1>2, <3>1
  <2> QED
    BY <2>1, <2>2
<1> QED
  BY <1>4, <1>5, <1>6, <1>7 DEF StoreInduct

\* The candidate that a worse copy leaves.
LEMMA Candidates ==
    ASSUME StoreTypeOK, NEW n \in Nodes, NEW r \in Offer, LearnWorse(n, r)
    PROVE  /\ pending' \in [Nodes -> Candidate \cup {None}]
           /\ \A m \in Nodes \ {n} : pending'[m] = pending[m]
           /\ pending'[n] # None
           /\ \/ pending'[n] = pending[n] /\ ~Beats(r, pending[n])
              \/ /\ pending'[n].hops = r.hops /\ pending'[n].rssi = r.rssi
                 /\ pending[n] = None \/ Beats(r, pending[n])
<1> DEFINE p == pending[n]
           new == [via |-> r.via, hops |-> r.hops, rssi |-> r.rssi,
                   commitAt |-> IF p = None THEN now + SettleAfter ELSE p.commitAt]
<1>1. pending' = IF p = None \/ Beats(r, p) THEN [pending EXCEPT ![n] = new] ELSE pending
  BY DEF LearnWorse
<1>2. pending \in [Nodes -> Candidate \cup {None}] /\ now \in Nat /\ SettleAfter \in Nat
  BY TimesAssumption DEF StoreTypeOK
<1>3. new \in Candidate /\ new # None /\ new.hops = r.hops /\ new.rssi = r.rssi
  <2>1. p # None => p.commitAt \in Nat
    BY <1>2 DEF Candidate
  <2>2. new \in Candidate
    BY <1>2, <2>1 DEF Candidate, Offer
  <2> QED
    BY <2>2, NoneAssumption
<1> HIDE DEF new
<1>4. CASE p = None \/ Beats(r, p)
  <2>1. pending' = [pending EXCEPT ![n] = new]
    BY <1>1, <1>4
  <2>2. pending'[n] = new
    BY <1>2, <2>1
  <2> QED
    BY <1>2, <1>3, <1>4, <2>1, <2>2
<1>5. CASE ~(p = None \/ Beats(r, p))
  BY <1>1, <1>2, <1>5
<1> QED
  BY <1>4, <1>5

LEMMA LearnKeeps ==
    ASSUME StoreInduct, NEW n \in Nodes, NEW r \in Offers, Learn(n, r)
    PROVE  StoreInduct'
<1>1. r \in Offer /\ r.keyed \in BOOLEAN /\ r.hops \in Nat /\ StoreTypeOK
  BY OffersAssumption, BoundsAssumption DEF Offer, Hop, StoreInduct
<1>2. /\ Hear(n) /\ up /\ UNCHANGED <<now, up, restarts>>
      /\ heard' = [heard EXCEPT ![n] = now]
  BY DEF Learn, LearnNew, LearnShorter, LearnEqual, KeepEqual, LearnWorse, KeepWorse, Hear
<1>3. /\ heard \in [Nodes -> Nat] /\ now \in Nat /\ pending \in [Nodes -> Candidate \cup {None}]
      /\ copies \in [Nodes -> SUBSET [hops : Hop, rssi : Rssi]]
      /\ hot \in [Nodes -> HotEntry \cup {None}] /\ used \in [Nodes -> Nat]
  BY <1>1 DEF StoreTypeOK
<1>4. /\ heard' \in [Nodes -> Nat] /\ heard'[n] <= now
      /\ \A m \in Nodes \ {n} : heard'[m] = heard[m]
  BY <1>2, <1>3
<1>5. ASSUME DropCandidate(n)
      PROVE  /\ pending' \in [Nodes -> Candidate \cup {None}]
             /\ copies' \in [Nodes -> SUBSET [hops : Hop, rssi : Rssi]]
             /\ pending'[n] = None /\ \A m \in Nodes \ {n} : pending'[m] = pending[m]
  BY <1>3, <1>5 DEF DropCandidate
<1>6. CASE LearnNew(n, r) \/ LearnShorter(n, r) \/ LearnEqual(n, r)
  <2> DEFINE row == [m \in {n} |-> RowOf(r, r.keyed)]
  <2>1. DropCandidate(n) /\ Commit(n, r)
    BY <1>6 DEF LearnNew, LearnShorter, LearnEqual
  <2>2. /\ Writes(buf', disk', {n}, row) /\ idle' \in 0..FlushAfter
        /\ hot' \in [Nodes -> HotEntry \cup {None}] /\ used' \in [Nodes -> Nat]
        /\ \A m \in Nodes : hot'[m] = None \/ hot'[m] = IF m = n THEN Entry(r, now) ELSE hot[m]
    BY <1>1, <2>1, Commits
  <2>3. StoreTypeOK'
    BY <1>1, <1>2, <1>4, <1>5, <2>1, <2>2 DEF StoreTypeOK, Writes
  <2>4. /\ RowOf(r, r.keyed) \in Row /\ SameRoute(RowOf(r, r.keyed), r)
        /\ RowOf(r, r.keyed).seen = now
        /\ SameRoute(Entry(r, now), r) /\ Entry(r, now).seen = Second(now)
    BY <1>1, <1>3, RowsAndEntries DEF Offer
  <2>5. Second(now) * TicksPerSecond <= now
    BY <1>3, Stamps
  <2>6. /\ row[n] \in Row /\ row[n].seen = now
        /\ hot'[n] = None \/ (SameRoute(hot'[n], row[n]) /\ hot'[n].seen * TicksPerSecond <= now)
    BY <2>2, <2>4, <2>5 DEF SameRoute
  <2> HIDE DEF row
  <2> QED
    BY <1>2, <1>4, <1>5, <2>1, <2>2, <2>3, <2>6, WritesKeep
<1>7. CASE KeepEqual(n, r) \/ LearnWorse(n, r) \/ KeepWorse(n, r)
  <2> DEFINE row == [m \in {n} |-> RowOf(hot[n], r.keyed)]
  <2>1. hot[n] # None /\ NoteHearing(n, r.keyed)
    BY <1>7 DEF KeepEqual, LearnWorse, KeepWorse
  <2>2. /\ Writes(buf', disk', {n}, row) /\ idle' \in 0..FlushAfter
        /\ UNCHANGED <<lru, hot, used>>
        /\ RowOf(hot[n], r.keyed) \in Row
        /\ SameRoute(RowOf(hot[n], r.keyed), hot[n]) /\ RowOf(hot[n], r.keyed).seen = now
    BY <1>1, <2>1, Notes
  <2>3. /\ pending' \in [Nodes -> Candidate \cup {None}]
        /\ copies' \in [Nodes -> SUBSET [hops : Hop, rssi : Rssi]]
        /\ \A m \in Nodes \ {n} : pending'[m] = pending[m]
        /\ pending'[n] = None \/ pending'[n].hops > hot[n].hops
    <3>1. pending[n] # None => pending[n].hops > hot[n].hops
      BY <2>1, HotOnRecord DEF StoreInduct, HeldIsFarther
    <3>2. CASE KeepEqual(n, r)
      BY <1>5, <3>2 DEF KeepEqual
    <3>3. CASE LearnWorse(n, r)
      <4>1. copies' = [copies EXCEPT ![n] = @ \cup {[hops |-> r.hops, rssi |-> r.rssi]}]
            /\ r.hops > hot[n].hops
        BY <3>3 DEF LearnWorse
      <4>2. copies' \in [Nodes -> SUBSET [hops : Hop, rssi : Rssi]]
        BY <1>1, <1>3, <4>1 DEF Offer
      <4> QED
        BY <1>1, <3>1, <3>3, <4>1, <4>2, Candidates
    <3>4. CASE KeepWorse(n, r)
      BY <1>3, <3>1, <3>4 DEF KeepWorse
    <3> QED
      BY <1>7, <3>2, <3>3, <3>4
  <2>4. StoreTypeOK'
    BY <1>1, <1>2, <1>4, <2>2, <2>3 DEF StoreTypeOK, Writes
  <2>5. /\ row[n] \in Row /\ row[n].seen = now /\ SameRoute(hot'[n], row[n])
        /\ hot'[n].seen * TicksPerSecond <= now
        /\ pending'[n] = None \/ pending'[n].hops > row[n].hops
    BY <2>1, <2>2, <2>3, HotOnRecord DEF SameRoute
  <2> HIDE DEF row
  <2> QED
    BY <1>2, <1>4, <2>2, <2>3, <2>4, <2>5, WritesKeep
<1> QED
  BY <1>6, <1>7 DEF Learn

(***************************************************************************)
(* tick, look-ups, expiry and restarts                                     *)
(***************************************************************************)
\* A set in some order is all of the set, each once.
LEMMA Orders ==
    ASSUME NEW S \in SUBSET Nodes, NEW ids \in SetToSeqs(S)
    PROVE  ids \in Seq(Nodes) /\ IsInjective(ids) /\ ToSet(ids) = S
<1> DEFINE D == 1..Cardinality(S)
<1>1. IsFiniteSet(S) /\ Cardinality(S) \in Nat
  BY SetsAssumption, FS_Subset, FS_CardinalityType
<1>2. ids \in [D -> S] /\ \A i, j \in D : i # j => ids[i] # ids[j]
  BY DEF SetToSeqs
<1>3. IsInjective(ids) /\ DOMAIN ids = D
  BY <1>2 DEF IsInjective
<1>4. ids \in Injection(D, S)
  BY <1>2, <1>3 DEF Injection
<1>5. Cardinality(D) = Cardinality(S)
  BY <1>1, FS_Interval
<1>6. ids \in Surjection(D, S)
  BY <1>1, <1>4, <1>5, FS_Injection
<1>7. ToSet(ids) = S
  BY <1>2, <1>3, <1>6 DEF Surjection, ToSet
<1>8. ids \in Seq(Nodes)
  <2>1. ids \in [D -> Nodes]
    BY <1>2
  <2> QED
    BY <1>1, <2>1
<1> QED
  BY <1>3, <1>7, <1>8

\* What tick() makes of the candidates that have waited long enough.
LEMMA Ticks ==
    ASSUME StoreTypeOK, Tick
    PROVE  /\ Writes(buf', disk', Overdue, [n \in Overdue |-> RowOf(pending[n], FALSE)])
           /\ idle' \in 0..FlushAfter
           /\ hot' \in [Nodes -> HotEntry \cup {None}] /\ used' \in [Nodes -> Nat]
           /\ \A n \in Nodes : \/ hot'[n] = None
                               \/ hot'[n] = IF n \in Overdue THEN Entry(pending[n], now) ELSE hot[n]
           /\ \A n \in Overdue : /\ RowOf(pending[n], FALSE) \in Row
                                 /\ SameRoute(RowOf(pending[n], FALSE), pending[n])
                                 /\ RowOf(pending[n], FALSE).seen = now
                                 /\ SameRoute(Entry(pending[n], now), pending[n])
                                 /\ Entry(pending[n], now).seen = Second(now)
           /\ pending' = [n \in Nodes |-> IF n \in Overdue THEN None ELSE pending[n]]
           /\ copies' = [n \in Nodes |-> IF n \in Overdue THEN {} ELSE copies[n]]
           /\ up /\ UNCHANGED <<now, up, heard, restarts>>
<1> DEFINE row == [n \in Overdue |-> RowOf(pending[n], FALSE)]
           entry == [n \in Overdue |-> Entry(pending[n], now)]
<1>1. PICK ids \in SettleOrders :
         LET after == AfterBuffer(ids, row)
             flush == Buffered(after.buf) # {} /\ after.idle >= FlushAfter
         IN  /\ PutHot(ids, entry)
             /\ buf'  = IF flush THEN NoRows ELSE after.buf
             /\ disk' = IF flush THEN Upsert(after.disk, after.buf) ELSE after.disk
             /\ idle' = IF flush THEN 0 ELSE after.idle
  BY DEF Tick
<1>2. Overdue \in SUBSET Nodes /\ ids \in SetToSeqs(Overdue)
  BY DEF Overdue, SettleOrders
<1>3. ids \in Seq(Nodes) /\ IsInjective(ids) /\ ToSet(ids) = Overdue
  BY <1>2, Orders
<1>4. ASSUME NEW n \in Overdue
      PROVE  /\ RowOf(pending[n], FALSE) \in Row
             /\ SameRoute(RowOf(pending[n], FALSE), pending[n])
             /\ RowOf(pending[n], FALSE).seen = now
             /\ Entry(pending[n], now) \in HotEntry
             /\ SameRoute(Entry(pending[n], now), pending[n])
             /\ Entry(pending[n], now).seen = Second(now)
  <2>1. pending[n] \in Candidate /\ now \in Nat
    BY DEF Overdue, StoreTypeOK
  <2>2. pending[n].via \in Vias /\ pending[n].hops \in Hop /\ pending[n].rssi \in Rssi
    BY <2>1 DEF Candidate
  <2> QED
    BY <2>1, <2>2, RowsAndEntries
<1>5. /\ \A n \in ToSet(ids) : row[n] \in Row /\ entry[n] \in HotEntry
      /\ \A n \in Overdue : entry[n] = Entry(pending[n], now)
  BY <1>3, <1>4
<1> HIDE DEF row, entry
<1>6. /\ hot' \in [Nodes -> HotEntry \cup {None}] /\ used' \in [Nodes -> Nat]
      /\ \A n \in Nodes : hot'[n] = None \/ hot'[n] = IF n \in Overdue THEN entry[n] ELSE hot[n]
  BY <1>1, <1>3, <1>5, PutsHot
<1> DEFINE after == AfterBuffer(ids, row)
<1>7. Writes(after.buf, after.disk, Overdue, row) /\ after.idle \in 0..FlushAfter
  BY <1>3, <1>5, BufferWrites
<1> HIDE DEF after
<1>8. Writes(NoRows, Upsert(after.disk, after.buf), Overdue, row)
  BY <1>2, <1>7, FlushWrites
<1>9. Writes(buf', disk', Overdue, row) /\ idle' \in 0..FlushAfter
  <2>1. 0 \in 0..FlushAfter
    BY TimesAssumption
  <2>2. /\ \/ buf' = NoRows /\ disk' = Upsert(after.disk, after.buf)
           \/ buf' = after.buf /\ disk' = after.disk
        /\ idle' = 0 \/ idle' = after.idle
    BY <1>1 DEF after
  <2> QED
    BY <1>7, <1>8, <2>1, <2>2
<1>10. /\ pending' = [n \in Nodes |-> IF n \in Overdue THEN None ELSE pending[n]]
       /\ copies' = [n \in Nodes |-> IF n \in Overdue THEN {} ELSE copies[n]]
       /\ up /\ UNCHANGED <<now, up, heard, restarts>>
  BY DEF Tick, PopOverdue
<1>11. \A n \in Nodes : \/ hot'[n] = None
                        \/ hot'[n] = IF n \in Overdue THEN Entry(pending[n], now) ELSE hot[n]
  BY <1>5, <1>6
<1> QED
  BY <1>4, <1>6, <1>9, <1>10, <1>11 DEF row

LEMMA TickKeeps == StoreInduct /\ Tick => StoreInduct'
<1> SUFFICES ASSUME StoreInduct, Tick PROVE StoreInduct'
  OBVIOUS
<1> DEFINE row == [n \in Overdue |-> RowOf(pending[n], FALSE)]
<1>1. StoreTypeOK /\ now \in Nat
  BY DEF StoreInduct, StoreTypeOK
<1>2. /\ Writes(buf', disk', Overdue, row)
      /\ idle' \in 0..FlushAfter
      /\ hot' \in [Nodes -> HotEntry \cup {None}] /\ used' \in [Nodes -> Nat]
      /\ \A n \in Nodes : \/ hot'[n] = None
                          \/ hot'[n] = IF n \in Overdue THEN Entry(pending[n], now) ELSE hot[n]
      /\ \A n \in Overdue : /\ RowOf(pending[n], FALSE) \in Row
                            /\ SameRoute(RowOf(pending[n], FALSE), pending[n])
                            /\ RowOf(pending[n], FALSE).seen = now
                            /\ SameRoute(Entry(pending[n], now), pending[n])
                            /\ Entry(pending[n], now).seen = Second(now)
      /\ pending' = [n \in Nodes |-> IF n \in Overdue THEN None ELSE pending[n]]
      /\ copies' = [n \in Nodes |-> IF n \in Overdue THEN {} ELSE copies[n]]
      /\ up /\ UNCHANGED <<now, up, heard, restarts>>
  BY <1>1, Ticks
<1>3. Overdue \in SUBSET Nodes /\ \A n \in Overdue : row[n] = RowOf(pending[n], FALSE)
  BY DEF Overdue
<1> HIDE DEF row
<1>4. StoreTypeOK'
  BY <1>1, <1>2 DEF StoreTypeOK, Writes
<1>5. Second(now) * TicksPerSecond <= now
  BY <1>1, Stamps
<1>6. \A n \in Overdue :
         /\ row[n] \in Row /\ row[n].seen = now /\ heard'[n] <= now
         /\ hot'[n] = None \/ (SameRoute(hot'[n], row[n]) /\ hot'[n].seen * TicksPerSecond <= now)
         /\ pending'[n] = None
  <2> SUFFICES ASSUME NEW n \in Overdue
               PROVE  /\ row[n] \in Row /\ row[n].seen = now /\ heard'[n] <= now
                      /\ \/ hot'[n] = None
                         \/ SameRoute(hot'[n], row[n]) /\ hot'[n].seen * TicksPerSecond <= now
                      /\ pending'[n] = None
    OBVIOUS
  <2>1. row[n] \in Row /\ row[n].seen = now /\ SameRoute(row[n], pending[n])
    BY <1>2, <1>3
  <2>2. heard'[n] <= now /\ pending'[n] = None
    BY <1>2, <1>3 DEF StoreInduct, TablesSound
  <2>3. ASSUME hot'[n] # None
        PROVE  SameRoute(hot'[n], row[n]) /\ hot'[n].seen * TicksPerSecond <= now
    <3>1. hot'[n] = Entry(pending[n], now) /\ SameRoute(hot'[n], pending[n])
          /\ hot'[n].seen = Second(now)
      BY <1>2, <1>3, <2>3
    <3> QED
      BY <1>5, <2>1, <3>1 DEF SameRoute
  <2> QED
    BY <2>1, <2>2, <2>3
<1>7. \A n \in Nodes \ Overdue : /\ hot'[n] \in {None, hot[n]} /\ heard'[n] = heard[n]
                                 /\ pending'[n] \in {None, pending[n]}
  BY <1>2
<1> QED
  BY <1>2, <1>3, <1>4, <1>6, <1>7, WritesKeep

LEMMA NextHopKeeps ==
    ASSUME StoreInduct, NEW n \in Nodes, NextHop(n)
    PROVE  /\ StoreInduct'
           /\ \A m \in Nodes \ {n} : hot'[m] = None \/ hot'[m] = hot[m]
           /\ \/ hot'[n] = None
              \/ hot[n] # None /\ hot'[n] = hot[n]
              \/ /\ hot[n] = None /\ ColdGet(n) \in Row
                 /\ SameRoute(hot'[n], ColdGet(n)) /\ hot'[n].seen = Second(ColdGet(n).seen)
<1> DEFINE entry == [m \in {n} |-> IF hot[n] # None THEN hot[n]
                                   ELSE Entry(ColdGet(n), ColdGet(n).seen)]
<1>1. /\ hot[n] # None \/ ColdGet(n) # None
      /\ PutHot(<<n>>, entry)
      /\ up /\ UNCHANGED <<now, up, pending, buf, disk, idle, heard, copies, restarts>>
  BY DEF NextHop
<1>2. StoreTypeOK /\ hot[n] \in HotEntry \cup {None} /\ ColdGet(n) \in Row \cup {None}
  BY DEF StoreInduct, StoreTypeOK, ColdGet
<1>3. ASSUME hot[n] = None
      PROVE  /\ ColdGet(n) \in Row /\ ColdGet(n).seen \in Nat
             /\ entry[n] \in HotEntry /\ SameRoute(entry[n], ColdGet(n))
             /\ entry[n].seen = Second(ColdGet(n).seen)
  <2>1. ColdGet(n) \in Row
    BY <1>1, <1>2, <1>3
  <2>2. /\ ColdGet(n).via \in Vias /\ ColdGet(n).hops \in Hop /\ ColdGet(n).rssi \in Rssi
        /\ ColdGet(n).seen \in Nat
    BY <2>1 DEF Row
  <2>3. entry[n] = Entry(ColdGet(n), ColdGet(n).seen)
    BY <1>3
  <2> QED
    BY <1>2, <2>1, <2>2, <2>3, RowsAndEntries
<1>4. hot[n] # None => entry[n] = hot[n]
  OBVIOUS
<1>5. entry[n] \in HotEntry
  BY <1>2, <1>3, <1>4
<1> HIDE DEF entry
<1>6. /\ hot' \in [Nodes -> HotEntry \cup {None}] /\ used' \in [Nodes -> Nat]
      /\ \A m \in Nodes : hot'[m] = None \/ hot'[m] = IF m = n THEN entry[m] ELSE hot[m]
  BY <1>1, <1>2, <1>5, Single, PutsHot
<1>7. StoreTypeOK'
  BY <1>1, <1>2, <1>6 DEF StoreTypeOK
<1>8. \A m \in Nodes : ColdGet(m)' = ColdGet(m)
  BY <1>1 DEF ColdGet
<1>9. HotAgreesWithCold'
  <2> SUFFICES ASSUME NEW m \in Nodes, hot'[m] # None
               PROVE  /\ ColdGet(m) # None /\ SameRoute(hot'[m], ColdGet(m))
                      /\ hot'[m].seen * TicksPerSecond <= ColdGet(m).seen
    BY <1>1, <1>8 DEF HotAgreesWithCold
  <2>1. CASE hot'[m] = hot[m]
    BY <2>1 DEF StoreInduct, HotAgreesWithCold
  <2>2. CASE hot'[m] # hot[m]
    <3>1. m = n /\ hot[n] = None /\ hot'[m] = entry[n]
      BY <1>4, <1>6, <2>2
    <3>2. Second(ColdGet(n).seen) * TicksPerSecond <= ColdGet(n).seen /\ ColdGet(n) # None
      BY <1>3, <3>1, Stamps, NoneAssumption
    <3> QED
      BY <1>3, <3>1, <3>2
  <2> QED
    BY <2>1, <2>2
<1>10. TablesSound' /\ HeldIsFarther' /\ HearingOnRecord'
  BY <1>1, <1>8 DEF StoreInduct, TablesSound, HeldIsFarther, HearingOnRecord
<1> QED
  BY <1>3, <1>4, <1>6, <1>7, <1>9, <1>10 DEF StoreInduct

LEMMA ExpireKeeps == StoreInduct /\ Expire => StoreInduct'
<1> SUFFICES ASSUME StoreInduct, Expire PROVE StoreInduct'
  OBVIOUS
<1>1. /\ hot'  = [n \in Nodes |-> IF n \in StaleHot THEN None ELSE hot[n]]
      /\ disk' = [n \in Nodes |-> IF n \in StaleDisk THEN None ELSE disk[n]]
      /\ up /\ UNCHANGED <<now, up, pending, buf, idle, heard, copies, used, restarts>>
  BY DEF Expire
<1>2. StoreTypeOK'
  BY <1>1 DEF StoreInduct, StoreTypeOK
<1>3. ASSUME NEW n \in Nodes
      PROVE  /\ \/ ColdGet(n)' = ColdGet(n)
                \/ (ColdGet(n)' = None /\ n \in StaleDisk /\ buf[n] = None)
             /\ hot'[n] = hot[n] \/ hot'[n] = None
             /\ disk'[n] = disk[n] \/ disk'[n] = None
  <2>1. hot'[n] = IF n \in StaleHot THEN None ELSE hot[n]
    BY <1>1
  <2>2. disk'[n] = IF n \in StaleDisk THEN None ELSE disk[n]
    BY <1>1
  <2>3. buf'[n] = buf[n]
    BY <1>1
  <2>4. /\ ColdGet(n) = IF buf[n] # None THEN buf[n] ELSE disk[n]
        /\ ColdGet(n)' = IF buf'[n] # None THEN buf'[n] ELSE disk'[n]
    BY DEF ColdGet
  <2> QED
    BY <2>1, <2>2, <2>3, <2>4
<1>4. ASSUME NEW n \in Nodes, hot'[n] # None
      PROVE  ColdGet(n)' = ColdGet(n) /\ hot'[n] = hot[n] /\ hot[n] # None
  <2>1. hot'[n] = hot[n] /\ hot[n] # None /\ n \notin StaleHot
    BY <1>1, <1>4
  <2>2. ASSUME n \in StaleDisk, buf[n] = None PROVE FALSE
    <3>1. disk[n].seen < now - TTL /\ ColdGet(n) = disk[n]
      BY <2>2 DEF StaleDisk, ColdGet
    <3>2. /\ hot[n].seen * TicksPerSecond \in Nat /\ ColdGet(n) \in Row
          /\ hot[n].seen * TicksPerSecond <= ColdGet(n).seen
      BY <2>1, HotOnRecord
    <3>3. now \in Nat /\ TTL \in Nat /\ ColdGet(n).seen \in Nat
      BY <3>2, TimesAssumption DEF StoreInduct, StoreTypeOK, Row
    <3>4. hot[n].seen * TicksPerSecond < now - TTL
      BY <3>1, <3>2, <3>3
    <3> QED
      BY <2>1, <3>4 DEF StaleHot
  <2> QED
    BY <1>3, <2>1, <2>2
<1>5. HotAgreesWithCold'
  BY <1>4 DEF StoreInduct, HotAgreesWithCold
<1>6. TablesSound'
  BY <1>1, <1>3 DEF StoreInduct, TablesSound
<1>7. HeldIsFarther' /\ HearingOnRecord'
  BY <1>1, <1>3 DEF StoreInduct, HeldIsFarther, HearingOnRecord
<1> QED
  BY <1>2, <1>5, <1>6, <1>7 DEF StoreInduct

LEMMA StopKeeps == StoreInduct /\ (Close \/ Crash) => StoreInduct'
<1> SUFFICES ASSUME StoreInduct, Close \/ Crash PROVE StoreInduct'
  OBVIOUS
<1>1. /\ up' = FALSE /\ hot' = [n \in Nodes |-> None] /\ pending' = [n \in Nodes |-> None]
      /\ buf' = NoRows /\ idle' = 0 /\ copies' = [n \in Nodes |-> {}]
      /\ restarts < MaxRestarts /\ restarts' = restarts + 1
      /\ UNCHANGED <<now, heard, used>>
      /\ disk' = disk \/ disk' = Upsert(disk, buf)
  BY DEF Close, Crash, Stop
<1>2. StoreTypeOK /\ TablesSound
  BY DEF StoreInduct
<1>3. ASSUME NEW n \in Nodes
      PROVE  /\ disk'[n] \in Row \cup {None}
             /\ disk'[n] # None => disk'[n].seen <= now
  <2>1. /\ buf[n] \in Row \cup {None} /\ disk[n] \in Row \cup {None}
        /\ buf[n] # None => buf[n].seen <= now
        /\ disk[n] # None => disk[n].seen <= now
    BY <1>2 DEF StoreTypeOK, TablesSound
  <2>2. CASE disk'[n] = disk[n]
    BY <2>1, <2>2
  <2>3. CASE disk' = Upsert(disk, buf) /\ buf[n] # None
    <3>1. disk'[n] = Over(buf[n], disk[n]) /\ buf[n] \in Row
      BY <2>1, <2>3 DEF Upsert
    <3> QED
      BY <2>1, <2>3, <3>1, OverKeeps DEF Alike
  <2>4. disk' = Upsert(disk, buf) /\ buf[n] = None => disk'[n] = disk[n]
    BY DEF Upsert
  <2> QED
    BY <1>1, <2>2, <2>3, <2>4
<1>4. disk' \in [Nodes -> Row \cup {None}]
  <2>1. disk' = [n \in Nodes |-> disk'[n]]
    BY <1>1, <1>2 DEF Upsert, StoreTypeOK
  <2> QED
    BY <1>3, <2>1
<1>5. StoreTypeOK'
  <2>1. /\ now' \in Nat /\ up' \in BOOLEAN /\ idle' \in 0..FlushAfter
        /\ heard' \in [Nodes -> Nat] /\ used' \in [Nodes -> Nat] /\ restarts' \in 0..MaxRestarts
    <3>1. now \in Nat /\ heard \in [Nodes -> Nat] /\ used \in [Nodes -> Nat]
          /\ restarts \in 0..MaxRestarts
      BY <1>2 DEF StoreTypeOK
    <3>2. FlushAfter \in Nat /\ MaxRestarts \in Nat
      BY TimesAssumption, BoundsAssumption
    <3>3. restarts + 1 \in 0..MaxRestarts
      BY <1>1, <3>1, <3>2
    <3>4. /\ now' = now /\ up' = FALSE /\ idle' = 0 /\ heard' = heard /\ used' = used
          /\ restarts' = restarts + 1
      BY <1>1
    <3>5. up' \in BOOLEAN
      BY <3>4
    <3>6. now' \in Nat /\ idle' \in 0..FlushAfter /\ restarts' \in 0..MaxRestarts
      BY <3>1, <3>2, <3>3, <3>4
    <3>7. heard' \in [Nodes -> Nat] /\ used' \in [Nodes -> Nat]
      BY <3>1, <3>4
    <3> QED
      BY <3>5, <3>6, <3>7
  <2>2. /\ hot' \in [Nodes -> HotEntry \cup {None}]
        /\ pending' \in [Nodes -> Candidate \cup {None}]
        /\ buf' \in [Nodes -> Row \cup {None}]
        /\ copies' \in [Nodes -> SUBSET [hops : Hop, rssi : Rssi]]
    BY <1>1 DEF NoRows
  <2> QED
    BY <1>4, <2>1, <2>2 DEF StoreTypeOK
<1>6. TablesSound'
  <2> SUFFICES ASSUME NEW n \in Nodes
               PROVE  /\ heard'[n] <= now'
                      /\ buf'[n] # None => buf'[n].seen <= now'
                      /\ disk'[n] # None => disk'[n].seen <= now'
                      /\ hot'[n] = None /\ pending'[n] = None /\ buf'[n] = None
    BY DEF TablesSound
  <2>1. heard[n] <= now
    BY <1>2 DEF TablesSound
  <2> QED
    BY <1>1, <1>3, <2>1 DEF NoRows
<1>7. HotAgreesWithCold' /\ HeldIsFarther' /\ HearingOnRecord'
  BY <1>1 DEF HotAgreesWithCold, HeldIsFarther, HearingOnRecord
<1> QED
  BY <1>5, <1>6, <1>7 DEF StoreInduct

LEMMA StartKeeps ==
    ASSUME StoreInduct, Start
    PROVE  /\ StoreInduct'
           /\ \A n \in Nodes : hot'[n] # None =>
                 /\ disk[n] # None /\ hot'[n].seen = Second(disk[n].seen)
                 /\ heard'[n] = disk[n].seen
<1>1. /\ ~up /\ up' = TRUE
      /\ heard' = [n \in Nodes |-> IF disk[n] # None THEN disk[n].seen ELSE 0]
      /\ UNCHANGED <<now, pending, buf, disk, idle, copies, restarts>>
  BY DEF Start
<1>2. PICK S \in SUBSET Buffered(disk) :
         /\ hot' = [n \in Nodes |-> IF n \in S THEN Entry(disk[n], disk[n].seen) ELSE None]
         /\ used' = [n \in Nodes |-> IF n \in S THEN disk[n].seen ELSE used[n]]
  BY DEF Start
<1>3. StoreTypeOK /\ TablesSound /\ None \notin Row
  BY NoneAssumption DEF StoreInduct
<1>4. ASSUME NEW n \in Nodes
      PROVE  /\ disk[n] \in Row \cup {None} /\ ColdGet(n) = disk[n] /\ ColdGet(n)' = disk[n]
             /\ disk[n] # None => disk[n].seen \in Nat /\ disk[n].seen <= now
             /\ heard'[n] \in Nat /\ heard'[n] <= now /\ pending'[n] = None /\ buf'[n] = None
             /\ used[n] \in Nat /\ heard'[n] = IF disk[n] # None THEN disk[n].seen ELSE 0
  <2>1. disk[n] \in Row \cup {None} /\ now \in Nat /\ used[n] \in Nat
    BY <1>3 DEF StoreTypeOK
  <2>2. buf[n] = None /\ pending[n] = None /\ (disk[n] # None => disk[n].seen <= now)
    BY <1>1, <1>3 DEF TablesSound
  <2>3. ColdGet(n) = disk[n] /\ ColdGet(n)' = disk[n]
    BY <1>1, <2>2 DEF ColdGet
  <2>4. disk[n] # None => disk[n].seen \in Nat
    BY <2>1 DEF Row
  <2> QED
    BY <1>1, <2>1, <2>2, <2>3, <2>4
<1>5. ASSUME NEW n \in S
      PROVE  /\ n \in Nodes /\ disk[n] # None /\ Entry(disk[n], disk[n].seen) \in HotEntry
             /\ SameRoute(Entry(disk[n], disk[n].seen), disk[n])
             /\ Entry(disk[n], disk[n].seen).seen = Second(disk[n].seen)
             /\ Second(disk[n].seen) * TicksPerSecond <= disk[n].seen
  <2>1. n \in Nodes /\ disk[n] # None
    BY DEF Buffered
  <2>2. disk[n] \in Row
    BY <1>4, <2>1
  <2>3. /\ disk[n].via \in Vias /\ disk[n].hops \in Hop /\ disk[n].rssi \in Rssi
        /\ disk[n].seen \in Nat
    BY <2>2 DEF Row
  <2> QED
    BY <1>3, <2>1, <2>3, RowsAndEntries, Stamps
<1>6. ASSUME NEW n \in Nodes
      PROVE  /\ hot'[n] \in HotEntry \cup {None} /\ used'[n] \in Nat
             /\ hot'[n] # None => /\ disk[n] # None /\ SameRoute(hot'[n], disk[n])
                                  /\ hot'[n].seen = Second(disk[n].seen)
                                  /\ hot'[n].seen * TicksPerSecond <= disk[n].seen
  <2>1. CASE n \in S
    <3>1. hot'[n] = Entry(disk[n], disk[n].seen) /\ used'[n] = disk[n].seen
      BY <1>2, <2>1
    <3> QED
      BY <1>4, <1>5, <2>1, <3>1
  <2>2. CASE n \notin S
    BY <1>2, <1>4, <2>2
  <2> QED
    BY <2>1, <2>2
<1>7. StoreTypeOK'
  <2>1. hot' \in [Nodes -> HotEntry \cup {None}]
    BY <1>2, <1>6
  <2>2. used' \in [Nodes -> Nat]
    BY <1>2, <1>6
  <2>3. heard' \in [Nodes -> Nat]
    BY <1>1, <1>4
  <2> QED
    BY <1>1, <1>3, <2>1, <2>2, <2>3 DEF StoreTypeOK
<1>8. TablesSound'
  BY <1>1, <1>4 DEF TablesSound
<1>9. HotAgreesWithCold'
  BY <1>1, <1>4, <1>6 DEF HotAgreesWithCold
<1>10. HeldIsFarther'
  BY <1>4 DEF HeldIsFarther
<1>11. HearingOnRecord'
  BY <1>4 DEF HearingOnRecord
<1> QED
  BY <1>4, <1>6, <1>7, <1>8, <1>9, <1>10, <1>11 DEF StoreInduct

LEMMA PassTimeKeeps == StoreInduct /\ PassTime => StoreInduct'
<1> SUFFICES ASSUME StoreInduct, PassTime PROVE StoreInduct'
  OBVIOUS
<1>1. /\ now' = now + 1 /\ idle' = IF up /\ idle < FlushAfter THEN idle + 1 ELSE idle
      /\ UNCHANGED <<up, lru, hot, pending, buf, disk, heard, copies, used, restarts>>
  BY DEF PassTime
<1>2. StoreTypeOK /\ now \in Nat /\ FlushAfter \in Nat
  BY TimesAssumption DEF StoreInduct, StoreTypeOK
<1>3. StoreTypeOK'
  <2>1. now' \in Nat /\ idle' \in 0..FlushAfter
    BY <1>1, <1>2 DEF StoreTypeOK
  <2> QED
    BY <1>1, <1>2, <2>1 DEF StoreTypeOK
<1>4. TablesSound'
  <2> SUFFICES ASSUME NEW n \in Nodes
               PROVE  /\ heard'[n] <= now'
                      /\ buf'[n] # None => buf'[n].seen <= now'
                      /\ disk'[n] # None => disk'[n].seen <= now'
                      /\ ~up' => hot'[n] = None /\ pending'[n] = None /\ buf'[n] = None
    BY DEF TablesSound
  <2>1. /\ heard[n] <= now /\ (buf[n] # None => buf[n].seen <= now)
        /\ (disk[n] # None => disk[n].seen <= now)
        /\ (~up => hot[n] = None /\ pending[n] = None /\ buf[n] = None)
    BY DEF StoreInduct, TablesSound
  <2>2. /\ heard[n] \in Nat /\ buf[n] \in Row \cup {None} /\ disk[n] \in Row \cup {None}
    BY <1>2 DEF StoreTypeOK
  <2>3. (buf[n] # None => buf[n].seen \in Nat) /\ (disk[n] # None => disk[n].seen \in Nat)
    BY <2>2 DEF Row
  <2> QED
    BY <1>1, <1>2, <2>1, <2>2, <2>3
<1>5. HotAgreesWithCold' /\ HeldIsFarther' /\ HearingOnRecord'
  BY <1>1 DEF StoreInduct, HotAgreesWithCold, HeldIsFarther, HearingOnRecord, ColdGet
<1> QED
  BY <1>3, <1>4, <1>5 DEF StoreInduct

LEMMA StoreInductInit == Init => StoreInduct
<1> SUFFICES ASSUME Init PROVE StoreInduct
  OBVIOUS
<1>1. /\ now = 0 /\ up = TRUE /\ idle = 0 /\ restarts = 0
      /\ hot = [n \in Nodes |-> None] /\ pending = [n \in Nodes |-> None]
      /\ buf = [n \in Nodes |-> None] /\ disk = [n \in Nodes |-> None]
      /\ heard = [n \in Nodes |-> 0] /\ copies = [n \in Nodes |-> {}]
      /\ used = [n \in Nodes |-> 0]
  BY DEF Init, NoRows
<1>2. StoreTypeOK
  <2>1. FlushAfter \in Nat /\ MaxRestarts \in Nat
    BY TimesAssumption, BoundsAssumption
  <2> QED
    BY <1>1, <2>1 DEF StoreTypeOK
<1>3. TablesSound /\ HotAgreesWithCold /\ HeldIsFarther
  BY <1>1 DEF TablesSound, HotAgreesWithCold, HeldIsFarther
<1>4. HearingOnRecord
  BY <1>1 DEF HearingOnRecord, ColdGet
<1> QED
  BY <1>2, <1>3, <1>4 DEF StoreInduct

LEMMA StoreInductStep == StoreInduct /\ [Next]_vars => StoreInduct'
<1> SUFFICES ASSUME StoreInduct, [Next]_vars PROVE StoreInduct'
  OBVIOUS
<1>1. CASE \E n \in Nodes, r \in Offers : Learn(n, r)
  BY <1>1, LearnKeeps
<1>2. CASE Tick
  BY <1>2, TickKeeps
<1>3. CASE \E n \in Nodes : NextHop(n)
  BY <1>3, NextHopKeeps
<1>4. CASE Expire
  BY <1>4, ExpireKeeps
<1>5. CASE Close \/ Crash
  BY <1>5, StopKeeps
<1>6. CASE Start
  BY <1>6, StartKeeps
<1>7. CASE PassTime
  BY <1>7, PassTimeKeeps
<1>8. CASE UNCHANGED vars
  BY <1>8 DEF vars, memory, StoreInduct, StoreTypeOK, TablesSound, HotAgreesWithCold,
              HeldIsFarther, HearingOnRecord, ColdGet
<1> QED
  BY <1>1, <1>2, <1>3, <1>4, <1>5, <1>6, <1>7, <1>8 DEF Next, NextHopMiss

(***************************************************************************)
(* Hearings, settles and keys                                              *)
(***************************************************************************)
\* What is not the announced node's stays.
LEMMA LearnsOne ==
    ASSUME StoreInduct, NEW n \in Nodes, NEW r \in Offers, Learn(n, r)
    PROVE  /\ r \in Offer /\ heard'[n] = now
           /\ \A m \in Nodes \ {n} : /\ hot'[m] = None \/ hot'[m] = hot[m]
                                     /\ heard'[m] = heard[m] /\ pending'[m] = pending[m]
                                     /\ copies'[m] = copies[m]
<1>1. r \in Offer /\ r.keyed \in BOOLEAN /\ StoreTypeOK
  BY OffersAssumption DEF Offer, StoreInduct
<1>2. /\ heard \in [Nodes -> Nat] /\ pending \in [Nodes -> Candidate \cup {None}]
      /\ copies \in [Nodes -> SUBSET [hops : Hop, rssi : Rssi]]
  BY <1>1 DEF StoreTypeOK
<1>3. heard' = [heard EXCEPT ![n] = now]
  BY DEF Learn, LearnNew, LearnShorter, LearnEqual, KeepEqual, LearnWorse, KeepWorse, Hear
<1>4. \A m \in Nodes \ {n} : pending'[m] = pending[m] /\ copies'[m] = copies[m]
  <2>1. CASE DropCandidate(n)
    BY <1>2, <2>1 DEF DropCandidate
  <2>2. CASE LearnWorse(n, r)
    <3>1. copies' = [copies EXCEPT ![n] = @ \cup {[hops |-> r.hops, rssi |-> r.rssi]}]
      BY <2>2 DEF LearnWorse
    <3>2. \A m \in Nodes \ {n} : pending'[m] = pending[m]
      BY <1>1, <2>2, Candidates
    <3> QED
      BY <1>2, <3>1, <3>2
  <2>3. CASE KeepWorse(n, r)
    BY <2>3 DEF KeepWorse
  <2> QED
    BY <2>1, <2>2, <2>3 DEF Learn, LearnNew, LearnShorter, LearnEqual, KeepEqual
<1>5. \A m \in Nodes \ {n} : hot'[m] = None \/ hot'[m] = hot[m]
  <2>1. CASE Commit(n, r)
    BY <1>1, <2>1, Commits
  <2>2. CASE UNCHANGED hot
    BY <2>2
  <2> QED
    BY <2>1, <2>2 DEF Learn, LearnNew, LearnShorter, LearnEqual, KeepEqual, LearnWorse,
                      KeepWorse, NoteHearing
<1> QED
  BY <1>1, <1>2, <1>3, <1>4, <1>5

\* A hearing reaches the hot entry, is within the flood guard, or opens a settle.
LEMMA LearnTracks ==
    ASSUME StoreInduct, HotTracksHearing, NEW n \in Nodes, NEW r \in Offers, Learn(n, r)
    PROVE  HotTracksHearing'
<1>1. r \in Offer /\ StoreTypeOK /\ now \in Nat /\ FloodGuard \in Nat /\ TicksPerSecond \in Nat
  BY LearnsOne, TimesAssumption DEF StoreInduct, StoreTypeOK
<1> SUFFICES ASSUME NEW m \in Nodes, hot'[m] # None, pending'[m] = None
             PROVE  heard'[m] - hot'[m].seen * TicksPerSecond <= FloodGuard + TicksPerSecond - 1
  BY DEF HotTracksHearing
<1>2. CASE m # n
  <2>1. hot'[m] = hot[m] /\ heard'[m] = heard[m] /\ pending'[m] = pending[m]
    BY <1>2, LearnsOne
  <2> QED
    BY <2>1 DEF HotTracksHearing
<1>3. CASE m = n
  <2>1. heard'[n] = now
    BY LearnsOne
  <2>2. CASE Commit(n, r)
    <3>1. hot'[n] = Entry(r, now)
      BY <1>1, <1>3, <2>2, Commits
    <3>2. r.via \in Vias /\ r.hops \in Hop /\ r.rssi \in Rssi /\ r.keyed \in BOOLEAN
      BY <1>1 DEF Offer
    <3>3. hot'[n].seen = Second(now)
      BY <1>1, <3>1, <3>2, RowsAndEntries
    <3>4. now - Second(now) * TicksPerSecond <= TicksPerSecond - 1
          /\ Second(now) * TicksPerSecond <= now /\ Second(now) \in Nat
      BY <1>1, Stamps
    <3> DEFINE stamp == Second(now) * TicksPerSecond
    <3>5. stamp \in Nat
      BY <1>1, <3>4
    <3>6. heard'[n] - hot'[n].seen * TicksPerSecond = now - stamp
      BY <2>1, <3>3
    <3>7. now - stamp <= TicksPerSecond - 1
      BY <3>4
    <3> HIDE DEF stamp
    <3> QED
      BY <1>1, <1>3, <3>5, <3>6, <3>7
  <2>3. CASE KeepEqual(n, r) \/ KeepWorse(n, r)
    <3>1. Guarded(n) /\ hot' = hot /\ hot[n] # None
      BY <2>3 DEF KeepEqual, KeepWorse, NoteHearing
    <3> DEFINE stamp == hot[n].seen * TicksPerSecond
    <3>2. stamp \in Nat /\ now - stamp <= FloodGuard
      BY <3>1, HotOnRecord DEF Guarded
    <3>3. heard'[n] - hot'[n].seen * TicksPerSecond = now - stamp
      BY <2>1, <3>1
    <3>4. TicksPerSecond - 1 \in Nat
      BY TimesAssumption
    <3> HIDE DEF stamp
    <3> QED
      BY <1>1, <1>3, <3>2, <3>3, <3>4
  <2>4. CASE LearnWorse(n, r)
    BY <1>1, <1>3, <2>4, Candidates
  <2> QED
    BY <2>2, <2>3, <2>4 DEF Learn, LearnNew, LearnShorter, LearnEqual
<1> QED
  BY <1>2, <1>3

LEMMA TracksStep ==
    ASSUME StoreInduct, HotTracksHearing, [Next]_vars
    PROVE  HotTracksHearing'
<1>1. /\ StoreTypeOK /\ now \in Nat /\ FloodGuard \in Nat /\ TicksPerSecond \in Nat \ {0}
      /\ pending \in [Nodes -> Candidate \cup {None}] /\ heard \in [Nodes -> Nat]
  BY TimesAssumption DEF StoreInduct, StoreTypeOK
<1>2. ASSUME NEW t \in Nat, t <= now
      PROVE  t - Second(t) * TicksPerSecond <= FloodGuard + TicksPerSecond - 1
  <2> DEFINE stamp == Second(t) * TicksPerSecond
  <2>1. Second(t) \in Nat /\ t - stamp <= TicksPerSecond - 1
    BY Stamps
  <2>2. stamp \in Nat
    BY <1>1, <2>1
  <2> HIDE DEF stamp
  <2>3. t - stamp <= FloodGuard + TicksPerSecond - 1
    BY <1>1, <2>1, <2>2
  <2> QED
    BY <2>3 DEF stamp
<1>3. CASE \E n \in Nodes, r \in Offers : Learn(n, r)
  BY <1>3, LearnTracks
<1>4. CASE Tick
  <2> SUFFICES ASSUME NEW n \in Nodes, hot'[n] # None, pending'[n] = None
               PROVE  heard'[n] - hot'[n].seen * TicksPerSecond <= FloodGuard + TicksPerSecond - 1
    BY DEF HotTracksHearing
  <2>1. /\ hot'[n] = IF n \in Overdue THEN Entry(pending[n], now) ELSE hot[n]
        /\ n \in Overdue => Entry(pending[n], now).seen = Second(now)
        /\ pending'[n] = IF n \in Overdue THEN None ELSE pending[n]
        /\ heard'[n] = heard[n]
    BY <1>1, <1>4, Ticks
  <2>2. CASE n \in Overdue
    <3> DEFINE stamp == Second(now) * TicksPerSecond
    <3>1. heard[n] \in Nat /\ heard[n] <= now
      BY <1>1 DEF StoreInduct, TablesSound
    <3>2. now - stamp <= FloodGuard + TicksPerSecond - 1
      BY <1>1, <1>2
    <3>3. stamp \in Nat
      BY <1>1, Stamps
    <3>4. heard'[n] - hot'[n].seen * TicksPerSecond = heard[n] - stamp
      BY <2>1, <2>2
    <3> HIDE DEF stamp
    <3> QED
      BY <1>1, <3>1, <3>2, <3>3, <3>4
  <2>3. CASE n \notin Overdue
    BY <2>1, <2>3 DEF HotTracksHearing
  <2> QED
    BY <2>2, <2>3
<1>5. ASSUME NEW n \in Nodes, NextHop(n)
      PROVE  HotTracksHearing'
  <2> SUFFICES ASSUME NEW m \in Nodes, hot'[m] # None, pending'[m] = None
               PROVE  heard'[m] - hot'[m].seen * TicksPerSecond <= FloodGuard + TicksPerSecond - 1
    BY DEF HotTracksHearing
  <2>1. up /\ heard' = heard /\ pending' = pending
    BY <1>5 DEF NextHop
  <2>2. CASE hot[m] # None /\ hot'[m] = hot[m]
    BY <2>1, <2>2 DEF HotTracksHearing
  <2>3. CASE /\ hot[n] = None /\ ColdGet(n) \in Row
             /\ hot'[n].seen = Second(ColdGet(n).seen) /\ m = n
    <3> DEFINE t == ColdGet(n).seen
               stamp == Second(t) * TicksPerSecond
    <3>1. t \in Nat /\ ColdGet(n) # None
      BY <2>3, NoneAssumption DEF Row
    <3>2. t <= now
      <4>1. ColdGet(n) = buf[n] \/ (ColdGet(n) = disk[n])
        BY DEF ColdGet
      <4> QED
        BY <3>1, <4>1 DEF StoreInduct, TablesSound
    <3>3. heard[n] \in Nat /\ heard[n] <= t
      BY <1>1, <2>1, <3>1 DEF StoreInduct, HearingOnRecord
    <3>4. heard'[m] - hot'[m].seen * TicksPerSecond = heard[n] - stamp
      BY <2>1, <2>3
    <3> HIDE DEF t
    <3>5. stamp \in Nat /\ t - stamp <= FloodGuard + TicksPerSecond - 1
      BY <1>1, <1>2, <3>1, <3>2, Stamps
    <3> HIDE DEF stamp
    <3> QED
      BY <1>1, <3>1, <3>3, <3>4, <3>5
  <2>4. /\ m # n => hot'[m] = None \/ hot'[m] = hot[m]
        /\ \/ hot'[n] = None
           \/ hot[n] # None /\ hot'[n] = hot[n]
           \/ hot[n] = None /\ ColdGet(n) \in Row /\ hot'[n].seen = Second(ColdGet(n).seen)
    BY <1>5, NextHopKeeps
  <2> QED
    BY <2>2, <2>3, <2>4
<1>6. CASE Expire
  <2>1. /\ UNCHANGED <<pending, heard>>
        /\ \A n \in Nodes : hot'[n] = None \/ hot'[n] = hot[n]
    BY <1>6 DEF Expire
  <2> QED
    BY <2>1 DEF HotTracksHearing
<1>7. CASE Close \/ Crash
  BY <1>7 DEF Close, Crash, Stop, HotTracksHearing
<1>8. CASE Start
  <2> SUFFICES ASSUME NEW n \in Nodes, hot'[n] # None
               PROVE  heard'[n] - hot'[n].seen * TicksPerSecond <= FloodGuard + TicksPerSecond - 1
    BY DEF HotTracksHearing
  <2>1. disk[n] # None /\ hot'[n].seen = Second(disk[n].seen) /\ heard'[n] = disk[n].seen
    BY <1>8, StartKeeps
  <2>2. disk[n] \in Row
    BY <1>1, <2>1 DEF StoreTypeOK
  <2>3. disk[n].seen \in Nat /\ disk[n].seen <= now
    BY <2>1, <2>2 DEF Row, StoreInduct, TablesSound
  <2> QED
    BY <1>2, <2>1, <2>3
<1>9. CASE PassTime \/ UNCHANGED vars
  BY <1>9 DEF PassTime, vars, memory, HotTracksHearing
<1> QED
  BY <1>3, <1>4, <1>5, <1>6, <1>7, <1>8, <1>9 DEF Next, NextHopMiss

\* A copy that beats what beats another beats that other.
LEMMA BeatsAll ==
    ASSUME NEW c, NEW r, NEW p, c.hops \in Nat, c.rssi \in Nat, r.hops \in Nat, r.rssi \in Nat,
           p.hops \in Nat, p.rssi \in Nat, ~Beats(c, p), Beats(r, p)
    PROVE  ~Beats(c, r)
BY DEF Beats

LEMMA WorseSettles ==
    ASSUME StoreTypeOK, CopiesInduct, NEW n \in Nodes, NEW r \in Offer, LearnWorse(n, r)
    PROVE  /\ \E c \in copies'[n] : c.hops = pending'[n].hops /\ c.rssi = pending'[n].rssi
           /\ \A c \in copies'[n] : ~Beats(c, pending'[n])
<1> DEFINE new == [hops |-> r.hops, rssi |-> r.rssi]
<1>1. /\ copies \in [Nodes -> SUBSET [hops : Hop, rssi : Rssi]]
      /\ pending[n] \in Candidate \cup {None}
  BY DEF StoreTypeOK
<1>2. /\ r.hops \in Nat /\ r.rssi \in Nat
      /\ \A c \in copies[n] : c.hops \in Nat /\ c.rssi \in Nat
      /\ pending[n] # None => pending[n].hops \in Nat /\ pending[n].rssi \in Nat
  <2>1. Hop \subseteq Nat /\ Rssi \subseteq Nat
    BY BoundsAssumption DEF Hop, Rssi
  <2> QED
    BY <1>1, <2>1 DEF Offer, Candidate
<1>3. copies'[n] = copies[n] \cup {new}
  BY <1>1 DEF LearnWorse
<1>4. new.hops = r.hops /\ new.rssi = r.rssi
  OBVIOUS
<1> HIDE DEF new
<1>5. CASE pending'[n] = pending[n] /\ ~Beats(r, pending[n]) /\ pending[n] # None
  <2>1. ~Beats(new, pending[n])
    BY <1>4, <1>5 DEF Beats
  <2>2. /\ \E c \in copies[n] : c.hops = pending[n].hops /\ c.rssi = pending[n].rssi
        /\ \A c \in copies[n] : ~Beats(c, pending[n])
    BY <1>5 DEF CopiesInduct, SettlesOnBest
  <2> QED
    BY <1>3, <1>5, <2>1, <2>2
<1>6. CASE /\ pending'[n].hops = r.hops /\ pending'[n].rssi = r.rssi
           /\ pending[n] = None \/ Beats(r, pending[n])
  <2>1. ~Beats(new, pending'[n])
    BY <1>2, <1>4, <1>6 DEF Beats
  <2>2. ASSUME NEW c \in copies[n] PROVE ~Beats(c, pending'[n])
    <3>1. pending[n] # None
      BY DEF CopiesInduct
    <3>2. ~Beats(c, pending[n]) /\ Beats(r, pending[n])
      BY <1>6, <3>1 DEF CopiesInduct, SettlesOnBest
    <3>3. ~Beats(c, r)
      BY <1>2, <3>1, <3>2, BeatsAll
    <3> QED
      BY <1>6, <3>3 DEF Beats
  <2> QED
    BY <1>3, <1>4, <1>6, <2>1, <2>2
<1>7. /\ pending'[n] # None
      /\ \/ pending'[n] = pending[n] /\ ~Beats(r, pending[n])
         \/ /\ pending'[n].hops = r.hops /\ pending'[n].rssi = r.rssi
            /\ pending[n] = None \/ Beats(r, pending[n])
  BY Candidates
<1> QED
  BY <1>5, <1>6, <1>7

LEMMA CopiesStep ==
    ASSUME StoreInduct, CopiesInduct, [Next]_vars
    PROVE  CopiesInduct'
<1>1. /\ StoreTypeOK /\ pending \in [Nodes -> Candidate \cup {None}]
      /\ copies \in [Nodes -> SUBSET [hops : Hop, rssi : Rssi]]
  BY DEF StoreInduct, StoreTypeOK
<1>2. ASSUME \A m \in Nodes : \/ pending'[m] = pending[m] /\ copies'[m] = copies[m]
                              \/ pending'[m] = None /\ copies'[m] = {}
      PROVE  CopiesInduct'
  BY <1>2 DEF CopiesInduct, SettlesOnBest
<1>3. ASSUME NEW n \in Nodes, NEW r \in Offers, Learn(n, r)
      PROVE  CopiesInduct'
  <2>1. r \in Offer /\ \A m \in Nodes \ {n} : pending'[m] = pending[m] /\ copies'[m] = copies[m]
    BY <1>3, LearnsOne
  <2>2. CASE DropCandidate(n)
    <3>1. pending'[n] = None /\ copies'[n] = {}
      BY <1>1, <2>2 DEF DropCandidate
    <3> QED
      BY <1>2, <2>1, <3>1
  <2>3. CASE LearnWorse(n, r)
    <3>1. /\ \E c \in copies'[n] : c.hops = pending'[n].hops /\ c.rssi = pending'[n].rssi
          /\ \A c \in copies'[n] : ~Beats(c, pending'[n])
      BY <1>1, <2>1, <2>3, WorseSettles
    <3>2. pending'[n] # None
      BY <1>1, <2>1, <2>3, Candidates
    <3> QED
      BY <2>1, <3>1, <3>2 DEF CopiesInduct, SettlesOnBest
  <2>4. CASE KeepWorse(n, r)
    BY <1>2, <2>4 DEF KeepWorse
  <2> QED
    BY <1>3, <2>2, <2>3, <2>4 DEF Learn, LearnNew, LearnShorter, LearnEqual, KeepEqual
<1>4. CASE Tick
  BY <1>2, <1>4 DEF Tick, PopOverdue
<1>5. CASE Close \/ Crash
  BY <1>2, <1>5 DEF Close, Crash, Stop
<1>6. CASE UNCHANGED <<pending, copies>>
  BY <1>2, <1>6
<1> QED
  BY <1>3, <1>4, <1>5, <1>6 DEF Next, NextHop, NextHopMiss, Expire, Start, PassTime, vars, memory

LEMMA KeysStep ==
    ASSUME StoreInduct, [Next]_vars, NEW n \in Nodes, HasKeys(n)
    PROVE  HasKeys(n)' \/ n \in StaleDisk \/ Crash
<1>1. /\ StoreTypeOK /\ buf[n] \in Row \cup {None} /\ disk[n] \in Row \cup {None}
  BY DEF StoreInduct, StoreTypeOK
<1>2. HasKeys(n)' <=> Keyed(buf', disk', n)
  BY DEF HasKeys, Keyed
<1>3. ASSUME NEW m \in Nodes, NEW r \in Offers, Learn(m, r)
      PROVE  HasKeys(n)'
  <2>1. r \in Offer /\ r.keyed \in BOOLEAN
    BY <1>3, LearnsOne DEF Offer
  <2>2. CASE Commit(m, r)
    BY <1>1, <1>2, <2>1, <2>2, Commits DEF Writes
  <2>3. CASE hot[m] # None /\ NoteHearing(m, r.keyed)
    BY <1>1, <1>2, <2>1, <2>3, Notes DEF Writes
  <2> QED
    BY <1>3, <2>2, <2>3 DEF Learn, LearnNew, LearnShorter, LearnEqual, KeepEqual, LearnWorse,
                            KeepWorse
<1>4. CASE Tick
  BY <1>1, <1>2, <1>4, Ticks DEF Writes
<1>5. CASE Expire
  <2>1. buf'[n] = buf[n] /\ disk'[n] = IF n \in StaleDisk THEN None ELSE disk[n]
    BY <1>5 DEF Expire
  <2> QED
    BY <1>2, <2>1 DEF HasKeys, Keyed
<1>6. CASE Close
  <2>1. disk'[n] = IF buf[n] = None THEN disk[n] ELSE Over(buf[n], disk[n])
    BY <1>6 DEF Close, Upsert
  <2>2. CASE buf[n] = None
    BY <1>2, <2>1, <2>2 DEF HasKeys, Keyed
  <2>3. CASE buf[n] # None
    <3>1. buf[n] \in Row /\ (buf[n].keyed \/ (disk[n] # None /\ disk[n].keyed))
      BY <1>1, <2>3 DEF HasKeys
    <3>2. disk'[n] # None /\ disk'[n].keyed
      BY <1>1, <2>1, <2>3, <3>1, OverKeeps
    <3> QED
      BY <1>2, <3>2 DEF Keyed
  <2> QED
    BY <2>2, <2>3
<1>7. CASE UNCHANGED <<buf, disk>>
  BY <1>7 DEF HasKeys
<1> QED
  BY <1>3, <1>4, <1>5, <1>6, <1>7 DEF Next, NextHop, NextHopMiss, Start, PassTime, vars, memory

(***************************************************************************)
(* Each step is one of RouteMap                                            *)
(***************************************************************************)
LEMMA WayIsWay ==
    ASSUME NEW r, NEW q, r # None, q # None, SameRoute(r, q)
    PROVE  Way(r) = Way(q)
BY DEF Way, SameRoute

LEMMA WaysExist ==
    ASSUME NEW r, r # None, r.via \in Vias, r.hops \in Hop, r.rssi \in Rssi
    PROVE  /\ Way(r) \in Ways /\ Way(r) # None
           /\ Way(r).hops = r.hops
<1>1. Way(r) = [via |-> r.via, hops |-> r.hops, rssi |-> r.rssi]
  BY DEF Way
<1>2. Way(r) \in Ways
  BY <1>1 DEF Ways
<1> QED
  BY <1>1, <1>2, NoneAssumption

\* What is found of a node is its record, as memory agrees with it.
Recorded ==
    /\ FoundWay = [n \in Nodes |-> Way(ColdGet(n))]
    /\ FoundWay \in [Nodes -> Ways \cup {None}]
    /\ SavedWay \in [Nodes -> Ways \cup {None}]
    /\ HeldWay \in [Nodes -> Ways \cup {None}]

LEMMA FoundIsRecord == StoreInduct => Recorded
<1> SUFFICES ASSUME StoreInduct PROVE Recorded
  OBVIOUS
<1>1. ASSUME NEW n \in Nodes
      PROVE  /\ Way(IF hot[n] # None THEN hot[n] ELSE ColdGet(n)) = Way(ColdGet(n))
             /\ Way(ColdGet(n)) \in Ways \cup {None} /\ Way(disk[n]) \in Ways \cup {None}
             /\ Way(pending[n]) \in Ways \cup {None}
  <2>1. /\ buf[n] \in Row \cup {None} /\ disk[n] \in Row \cup {None}
        /\ pending[n] \in Candidate \cup {None}
    BY DEF StoreInduct, StoreTypeOK
  <2>2. ASSUME NEW r, r \in Row \cup {None} PROVE Way(r) \in Ways \cup {None}
    BY <2>2, WaysExist DEF Row, Way
  <2>3. Way(pending[n]) \in Ways \cup {None}
    BY <2>1, WaysExist DEF Candidate, Way
  <2>4. ColdGet(n) \in Row \cup {None}
    BY <2>1 DEF ColdGet
  <2>5. Way(IF hot[n] # None THEN hot[n] ELSE ColdGet(n)) = Way(ColdGet(n))
    <3>1. CASE hot[n] # None
      BY <3>1, WayIsWay DEF StoreInduct, HotAgreesWithCold
    <3>2. CASE hot[n] = None
      BY <3>2
    <3> QED
      BY <3>1, <3>2
  <2> QED
    BY <2>1, <2>2, <2>3, <2>4, <2>5
<1> QED
  BY <1>1 DEF Recorded, FoundWay, SavedWay, HeldWay

LEMMA FoundIsRecordNext == StoreInduct' => Recorded'
BY FoundIsRecord, PTL

\* The way that is found of each node before and after a step.
LEMMA FoundBefore ==
    ASSUME StoreInduct, StoreInduct'
    PROVE  /\ \A n \in Nodes : /\ FoundWay[n] = Way(ColdGet(n)) /\ FoundWay'[n] = Way(ColdGet(n)')
                               /\ SavedWay[n] = Way(disk[n]) /\ SavedWay'[n] = Way(disk'[n])
                               /\ HeldWay[n] = Way(pending[n]) /\ HeldWay'[n] = Way(pending'[n])
           /\ SavedWay \in [Nodes -> Ways \cup {None}] /\ SavedWay' \in [Nodes -> Ways \cup {None}]
           /\ FoundWay \in [Nodes -> Ways \cup {None}] /\ FoundWay' \in [Nodes -> Ways \cup {None}]
           /\ HeldWay \in [Nodes -> Ways \cup {None}] /\ HeldWay' \in [Nodes -> Ways \cup {None}]
<1>1. Recorded /\ Recorded'
  BY FoundIsRecord, FoundIsRecordNext
<1>2. FoundWay = [n \in Nodes |-> Way(ColdGet(n))] /\ FoundWay' = [n \in Nodes |-> Way(ColdGet(n)')]
  BY <1>1 DEF Recorded, Way
<1>3. \A n \in Nodes : /\ SavedWay[n] = Way(disk[n]) /\ SavedWay'[n] = Way(disk'[n])
                       /\ HeldWay[n] = Way(pending[n]) /\ HeldWay'[n] = Way(pending'[n])
  BY DEF SavedWay, HeldWay, Way
<1>4. \A n \in Nodes : FoundWay[n] = Way(ColdGet(n)) /\ FoundWay'[n] = Way(ColdGet(n)')
  BY <1>2
<1> QED
  BY <1>1, <1>3, <1>4 DEF Recorded

LEMMA AlikeWays == \A r, q : Alike(r, q) => Way(r) = Way(q)
BY WayIsWay DEF Alike

\* Writing rows changes what is found of their nodes only, and saves nothing else.
LEMMA WritesSave ==
    ASSUME StoreInduct, StoreInduct', NEW S \in SUBSET Nodes, NEW row, Writes(buf', disk', S, row)
    PROVE  /\ Map!Saves
           /\ \A n \in S : FoundWay'[n] = Way(row[n])
           /\ \A n \in Nodes \ S : FoundWay'[n] = FoundWay[n]
<1>1. \A n \in Nodes : ColdGet(n)' = Found(buf', disk', n)
  BY DEF ColdGet, Found
<1>2. ASSUME NEW n \in Nodes
      PROVE  SavedWay'[n] \in {SavedWay[n], FoundWay[n], FoundWay'[n]}
  <2>1. \/ Way(disk'[n]) = Way(disk[n])
        \/ Way(disk'[n]) = Way(ColdGet(n))
        \/ Way(disk'[n]) = Way(Found(buf', disk', n))
    BY AlikeWays DEF Writes
  <2> QED
    BY <1>1, <2>1, FoundBefore
<1>3. ASSUME NEW n \in S PROVE FoundWay'[n] = Way(row[n])
  BY <1>1, AlikeWays, FoundBefore DEF Writes
<1>4. ASSUME NEW n \in Nodes \ S PROVE FoundWay'[n] = FoundWay[n]
  BY <1>1, AlikeWays, FoundBefore DEF Writes
<1> QED
  BY <1>2, <1>3, <1>4 DEF Map!Saves

\* learn takes the announced way, holds it, or finds the route confirmed.
LEMMA LearnMaps ==
    ASSUME StoreInduct, StoreInduct', NEW n \in Nodes, NEW r \in Offers, Learn(n, r)
    PROVE  Map!Take(n) \/ Map!Hold(n) \/ Map!Confirm(n)
<1>1. /\ r \in Offer /\ r.keyed \in BOOLEAN /\ StoreTypeOK /\ None \notin Row
      /\ r.via \in Vias /\ r.hops \in Hop /\ r.rssi \in Rssi
  BY LearnsOne, NoneAssumption DEF Offer, StoreInduct
<1>2. /\ FoundWay \in [Nodes -> Ways \cup {None}] /\ FoundWay' \in [Nodes -> Ways \cup {None}]
      /\ HeldWay \in [Nodes -> Ways \cup {None}] /\ HeldWay' \in [Nodes -> Ways \cup {None}]
      /\ HeldWay[n] = Way(pending[n]) /\ HeldWay'[n] = Way(pending'[n])
      /\ FoundWay[n] = Way(ColdGet(n)) /\ FoundWay'[n] = Way(ColdGet(n)')
  BY FoundBefore
<1>3. \A m \in Nodes \ {n} : HeldWay'[m] = HeldWay[m]
  BY LearnsOne, FoundBefore
<1>4. HeldWay' = [HeldWay EXCEPT ![n] = HeldWay'[n]]
  BY <1>2, <1>3
<1>5. DropCandidate(n) => HeldWay'[n] = None
  BY <1>1, <1>2 DEF DropCandidate, StoreTypeOK, Way
<1>6. CASE DropCandidate(n) /\ Commit(n, r)
  <2> DEFINE row == [m \in {n} |-> RowOf(r, r.keyed)]
             w == Way(RowOf(r, r.keyed))
  <2>1. Writes(buf', disk', {n}, row) /\ row[n] = RowOf(r, r.keyed)
    BY <1>1, <1>6, Commits
  <2>2. w \in Ways
    <3>1. RowOf(r, r.keyed) \in Row
      BY <1>1, RowsAndEntries
    <3> QED
      BY <1>1, <3>1, WaysExist DEF Row
  <2> HIDE DEF row
  <2>3. Map!Saves /\ FoundWay'[n] = w /\ \A m \in Nodes \ {n} : FoundWay'[m] = FoundWay[m]
    BY <2>1, WritesSave
  <2> HIDE DEF w
  <2>4. FoundWay' = [FoundWay EXCEPT ![n] = w]
    BY <1>2, <2>3
  <2>5. HeldWay' = [HeldWay EXCEPT ![n] = None]
    BY <1>4, <1>5, <1>6
  <2> QED
    BY <2>2, <2>3, <2>4, <2>5 DEF Map!Take
<1>7. CASE KeepEqual(n, r) \/ LearnWorse(n, r) \/ KeepWorse(n, r)
  <2> DEFINE row == [m \in {n} |-> RowOf(hot[n], r.keyed)]
  <2>1. hot[n] # None /\ NoteHearing(n, r.keyed)
    BY <1>7 DEF KeepEqual, LearnWorse, KeepWorse
  <2>2. /\ Writes(buf', disk', {n}, row) /\ row[n] = RowOf(hot[n], r.keyed)
        /\ row[n] \in Row /\ SameRoute(row[n], hot[n])
    BY <1>1, <2>1, Notes
  <2> HIDE DEF row
  <2>3. ColdGet(n) \in Row /\ SameRoute(row[n], ColdGet(n))
    BY <2>1, <2>2, HotOnRecord DEF SameRoute
  <2>4. /\ FoundWay[n] # None /\ FoundWay[n].hops = ColdGet(n).hops
        /\ Way(row[n]) = FoundWay[n]
    <3>1. ColdGet(n).via \in Vias /\ ColdGet(n).hops \in Hop /\ ColdGet(n).rssi \in Rssi
      BY <2>3 DEF Row
    <3>2. ColdGet(n) # None /\ row[n] # None
      BY <1>1, <2>2, <2>3
    <3> QED
      BY <1>2, <2>3, <3>1, <3>2, WaysExist, WayIsWay
  <2>5. Map!Saves /\ FoundWay'[n] = FoundWay[n] /\ \A m \in Nodes \ {n} : FoundWay'[m] = FoundWay[m]
    BY <2>2, <2>4, WritesSave
  <2>6. FoundWay' = FoundWay
    BY <1>2, <2>5
  <2>7. CASE pending'[n] = None
    <3>1. HeldWay' = [HeldWay EXCEPT ![n] = None]
      BY <1>2, <1>4, <2>7 DEF Way
    <3> QED
      BY <2>4, <2>5, <2>6, <3>1 DEF Map!Confirm
  <2>8. CASE pending'[n] # None
    <3>1. pending'[n] \in Candidate /\ ColdGet(n)' # None
      <4>1. FoundWay'[n] # None
        BY <2>4, <2>5
      <4> QED
        BY <1>2, <2>8, <4>1 DEF StoreInduct, StoreTypeOK, Way
    <3>2. pending'[n].hops > ColdGet(n)'.hops
      BY <2>8, <3>1 DEF StoreInduct, HeldIsFarther
    <3>3. pending'[n].via \in Vias /\ pending'[n].hops \in Hop /\ pending'[n].rssi \in Rssi
      BY <3>1 DEF Candidate
    <3>4. HeldWay'[n] \in Ways /\ HeldWay'[n].hops = pending'[n].hops
      BY <1>2, <2>8, <3>3, WaysExist
    <3>5. FoundWay'[n].hops = ColdGet(n)'.hops
      BY <1>2, <3>1 DEF Way
    <3>6. HeldWay'[n].hops > FoundWay[n].hops
      BY <2>5, <3>2, <3>4, <3>5
    <3> QED
      BY <1>4, <2>4, <2>5, <2>6, <3>4, <3>6 DEF Map!Hold, Farther
  <2> QED
    BY <2>7, <2>8
<1> QED
  BY <1>6, <1>7 DEF Learn, LearnNew, LearnShorter, LearnEqual

\* A turn takes the overdue candidates.
LEMMA TickMaps == StoreInduct /\ StoreInduct' /\ Tick => Map!Settle
<1> SUFFICES ASSUME StoreInduct, StoreInduct', Tick PROVE Map!Settle
  OBVIOUS
<1> DEFINE row == [n \in Overdue |-> RowOf(pending[n], FALSE)]
<1>1. StoreTypeOK /\ pending \in [Nodes -> Candidate \cup {None}] /\ None \notin Row
  BY NoneAssumption DEF StoreInduct, StoreTypeOK
<1>2. /\ Writes(buf', disk', Overdue, row)
      /\ \A n \in Overdue : /\ row[n] = RowOf(pending[n], FALSE) /\ row[n] \in Row
                            /\ SameRoute(row[n], pending[n])
      /\ pending' = [n \in Nodes |-> IF n \in Overdue THEN None ELSE pending[n]]
  BY <1>1, Ticks
<1>3. Overdue \in SUBSET Nodes /\ \A n \in Overdue : pending[n] # None
  BY DEF Overdue
<1> HIDE DEF row
<1>4. ASSUME NEW n \in Overdue PROVE Way(row[n]) = HeldWay[n]
  <2>1. row[n] # None /\ pending[n] # None /\ SameRoute(row[n], pending[n])
    BY <1>1, <1>2, <1>3
  <2>2. Way(row[n]) = Way(pending[n])
    BY <2>1, WayIsWay
  <2> QED
    BY <1>3, <2>2, FoundBefore
<1>5. Map!Saves /\ \A n \in Nodes : FoundWay'[n] = IF n \in Overdue THEN HeldWay[n] ELSE FoundWay[n]
  BY <1>2, <1>3, <1>4, WritesSave
<1>6. \A n \in Nodes : HeldWay'[n] = IF n \in Overdue THEN None ELSE HeldWay[n]
  BY <1>2, FoundBefore DEF Way
<1>7. /\ FoundWay' = [n \in Nodes |-> IF n \in Overdue THEN HeldWay[n] ELSE FoundWay[n]]
      /\ HeldWay' = [n \in Nodes |-> IF n \in Overdue THEN None ELSE HeldWay[n]]
  BY <1>5, <1>6, FoundBefore
<1>8. Overdue \in SUBSET {n \in Nodes : HeldWay[n] # None}
  <2>1. \A n \in Overdue : row[n] # None /\ row[n].via \in Vias /\ row[n].hops \in Hop
                           /\ row[n].rssi \in Rssi
    BY <1>1, <1>2 DEF Row
  <2>2. \A n \in Overdue : HeldWay[n] # None
    BY <1>4, <2>1, WaysExist
  <2> QED
    BY <1>3, <2>2
<1> QED
  BY <1>5, <1>7, <1>8 DEF Map!Settle

\* expire forgets those whose record is past the TTL; an entry that only memory
\* drops is still found on record.
LEMMA ExpireMaps == StoreInduct /\ StoreInduct' /\ Expire => Map!Forget
<1> SUFFICES ASSUME StoreInduct, StoreInduct', Expire PROVE Map!Forget
  OBVIOUS
<1>1. ASSUME NEW n \in Nodes
      PROVE  /\ FoundWay'[n] \in {FoundWay[n], None} /\ SavedWay'[n] \in {SavedWay[n], None}
             /\ FoundWay'[n] # FoundWay[n] => SavedWay'[n] = None
             /\ HeldWay'[n] = HeldWay[n]
  <2>1. disk'[n] = (IF n \in StaleDisk THEN None ELSE disk[n]) /\ buf'[n] = buf[n]
        /\ pending'[n] = pending[n]
    BY DEF Expire
  <2>2. Way(None) = None
    BY DEF Way
  <2>3. /\ ColdGet(n) = IF buf[n] # None THEN buf[n] ELSE disk[n]
        /\ ColdGet(n)' = IF buf'[n] # None THEN buf'[n] ELSE disk'[n]
    BY DEF ColdGet
  <2> QED
    BY <2>1, <2>2, <2>3, FoundBefore
<1>2. HeldWay' = HeldWay
  BY <1>1, FoundBefore
<1> QED
  BY <1>1, <1>2, FoundBefore DEF Map!Forget

LEMMA CloseMaps == StoreInduct /\ StoreInduct' /\ Close => Map!Close
<1> SUFFICES ASSUME StoreInduct, StoreInduct', Close PROVE Map!Close
  OBVIOUS
<1>1. ASSUME NEW n \in Nodes
      PROVE  SavedWay'[n] = FoundWay[n] /\ FoundWay'[n] = FoundWay[n] /\ HeldWay'[n] = None
  <2>1. /\ disk' = Upsert(disk, buf) /\ buf'[n] = None /\ pending'[n] = None
        /\ buf[n] \in Row \cup {None} /\ disk[n] \in Row \cup {None}
    BY DEF Close, Stop, NoRows, StoreInduct, StoreTypeOK
  <2>2. disk'[n] = IF buf[n] = None THEN disk[n] ELSE Over(buf[n], disk[n])
    BY <2>1 DEF Upsert
  <2>3. Way(disk'[n]) = Way(ColdGet(n))
    <3>1. CASE buf[n] = None
      BY <2>2, <3>1 DEF ColdGet
    <3>2. CASE buf[n] # None
      BY <2>1, <2>2, <3>2, OverKeeps, AlikeWays DEF ColdGet
    <3> QED
      BY <3>1, <3>2
  <2>4. ColdGet(n)' = disk'[n]
    BY <2>1 DEF ColdGet
  <2> QED
    BY <2>1, <2>3, <2>4, FoundBefore DEF Way
<1> QED
  BY <1>1, FoundBefore DEF Map!Close

LEMMA CrashMaps == StoreInduct /\ StoreInduct' /\ Crash => Map!Crash
<1> SUFFICES ASSUME StoreInduct, StoreInduct', Crash PROVE Map!Crash
  OBVIOUS
<1>1. ASSUME NEW n \in Nodes
      PROVE  SavedWay'[n] = SavedWay[n] /\ FoundWay'[n] = SavedWay[n] /\ HeldWay'[n] = None
  <2>1. disk' = disk /\ buf'[n] = None /\ pending'[n] = None
    BY DEF Crash, Stop, NoRows
  <2>2. ColdGet(n)' = disk[n]
    BY <2>1 DEF ColdGet
  <2>3. /\ SavedWay[n] = Way(disk[n]) /\ SavedWay'[n] = Way(disk'[n])
        /\ FoundWay'[n] = Way(ColdGet(n)') /\ HeldWay'[n] = Way(pending'[n])
    BY FoundBefore
  <2>4. Way(None) = None
    BY DEF Way
  <2> QED
    BY <2>1, <2>2, <2>3, <2>4
<1> QED
  BY <1>1, FoundBefore DEF Map!Crash

\* Look-ups, promotion, warming and the clock change nothing that is found.
LEMMA OthersMap ==
    ASSUME StoreInduct, StoreInduct', UNCHANGED <<buf, disk, pending>>
    PROVE  UNCHANGED Map!vars
<1>1. ASSUME NEW n \in Nodes
      PROVE  SavedWay'[n] = SavedWay[n] /\ FoundWay'[n] = FoundWay[n] /\ HeldWay'[n] = HeldWay[n]
  <2>1. ColdGet(n)' = ColdGet(n)
    BY DEF ColdGet
  <2> QED
    BY <2>1, FoundBefore
<1>2. SavedWay' = SavedWay /\ FoundWay' = FoundWay /\ HeldWay' = HeldWay
  BY <1>1, FoundBefore
<1> QED
  BY <1>2 DEF Map!vars

LEMMA StepMaps == StoreInduct /\ StoreInduct' /\ [Next]_vars => [Map!Next]_(Map!vars)
<1> SUFFICES ASSUME StoreInduct, StoreInduct', [Next]_vars PROVE [Map!Next]_(Map!vars)
  OBVIOUS
<1>1. CASE \E n \in Nodes, r \in Offers : Learn(n, r)
  BY <1>1, LearnMaps DEF Map!Next
<1>2. CASE Tick
  BY <1>2, TickMaps DEF Map!Next
<1>3. CASE Expire
  BY <1>3, ExpireMaps DEF Map!Next
<1>4. CASE Close
  BY <1>4, CloseMaps DEF Map!Next
<1>5. CASE Crash
  BY <1>5, CrashMaps DEF Map!Next
<1>6. CASE UNCHANGED <<buf, disk, pending>>
  BY <1>6, OthersMap
<1> QED
  BY <1>1, <1>2, <1>3, <1>4, <1>5, <1>6
  DEF Next, NextHop, NextHopMiss, Start, PassTime, vars, memory

(***************************************************************************)
(* The recency order                                                       *)
(***************************************************************************)
\* t holds entries of s, in the order of s.
Within(t, s) ==
    \A j, k \in DOMAIN t : j < k =>
        \E i, l \in DOMAIN s : i < l /\ t[j] = s[i] /\ t[k] = s[l]

\* What is left of a sequence when the ids of S are dropped.
LEMMA Drops ==
    ASSUME NEW s \in Seq(Nodes), IsInjective(s), NEW S
    PROVE  /\ Drop(s, S) \in Seq(Nodes) /\ IsInjective(Drop(s, S))
           /\ Len(Drop(s, S)) <= Len(s)
           /\ ToSet(Drop(s, S)) = ToSet(s) \ S
           /\ Within(Drop(s, S), s)
<1> DEFINE kept == {i \in DOMAIN s : s[i] \notin S}
           upTo(i) == {k \in kept : k <= i}
           rank == [i \in kept |-> Cardinality(upTo(i))]
           C == Cardinality(kept)
           pick(j) == CHOOSE i \in kept : rank[i] = j
           t == Drop(s, S)
<1>1. Len(s) \in Nat /\ DOMAIN s = 1..Len(s) /\ \A i \in DOMAIN s : s[i] \in Nodes
  BY LenProperties, ElementOfSeq
<1>2. IsFiniteSet(kept) /\ C \in Nat /\ C <= Len(s)
  <2>1. IsFiniteSet(DOMAIN s) /\ Cardinality(DOMAIN s) = Len(s) /\ kept \subseteq DOMAIN s
    BY <1>1, FS_Interval
  <2> HIDE DEF kept
  <2> QED
    BY <2>1, FS_Subset, FS_CardinalityType
<1>3. ASSUME NEW i \in kept
      PROVE  IsFiniteSet(upTo(i)) /\ rank[i] \in 1..C
  <2>1. upTo(i) \subseteq kept /\ i \in upTo(i) /\ rank[i] = Cardinality(upTo(i))
    BY <1>1
  <2> HIDE DEF kept, upTo, rank
  <2>2. IsFiniteSet(upTo(i)) /\ Cardinality(upTo(i)) \in Nat /\ Cardinality(upTo(i)) <= C
    BY <1>2, <2>1, FS_Subset, FS_CardinalityType
  <2>3. Cardinality(upTo(i)) # 0
    BY <2>1, <2>2, FS_EmptySet
  <2> QED
    BY <1>2, <2>1, <2>2, <2>3
<1>4. ASSUME NEW i \in kept, NEW l \in kept, i < l PROVE rank[i] < rank[l]
  <2>1. /\ upTo(i) \subseteq upTo(l) /\ l \in upTo(l) /\ l \notin upTo(i)
        /\ rank[i] = Cardinality(upTo(i)) /\ rank[l] = Cardinality(upTo(l))
    BY <1>1, <1>4
  <2>2. IsFiniteSet(upTo(l)) /\ rank[i] \in Nat /\ rank[l] \in Nat
    <3>1. IsFiniteSet(upTo(l)) /\ rank[i] \in 1..C /\ rank[l] \in 1..C
      BY <1>3
    <3> HIDE DEF kept, upTo, rank, C
    <3> QED
      BY <1>2, <3>1
  <2> HIDE DEF kept, upTo, rank
  <2> QED
    BY <2>1, <2>2, FS_Subset
<1>5. \A i, l \in kept : rank[i] = rank[l] => i = l
  <2>1. \A i \in kept : i \in Nat /\ rank[i] \in Nat
    <3>1. \A i \in kept : i \in 1..Len(s) /\ rank[i] \in 1..C
      BY <1>1, <1>3
    <3> HIDE DEF kept, upTo, rank, C
    <3> QED
      BY <1>1, <1>2, <3>1
  <2> HIDE DEF kept, upTo, rank
  <2> QED
    BY <1>4, <2>1
<1>6. rank \in Injection(kept, 1..C)
  <2>1. rank \in [kept -> 1..C]
    BY <1>3
  <2> HIDE DEF kept, upTo, rank, C
  <2> QED
    BY <1>5, <2>1 DEF Injection, IsInjective
<1>7. rank \in Surjection(kept, 1..C)
  <2>1. IsFiniteSet(1..C) /\ Cardinality(1..C) = C
    BY <1>2, FS_Interval
  <2> HIDE DEF kept, upTo, rank
  <2> QED
    BY <1>2, <1>6, <2>1, FS_Injection
<1>8. ASSUME NEW j \in 1..C PROVE pick(j) \in kept /\ rank[pick(j)] = j
  <2>1. \E i \in kept : rank[i] = j
    <3> HIDE DEF kept, upTo, rank, C
    <3> QED
      BY <1>7 DEF Surjection
  <2> HIDE DEF kept, upTo, rank, C
  <2> QED
    BY <2>1
<1>9. t = [j \in 1..C |-> s[pick(j)]]
  <2> DEFINE found(j) == CHOOSE i \in kept : Cardinality({k \in kept : k <= i}) = j
  <2>1. ASSUME NEW j \in 1..C PROVE found(j) = pick(j)
    <3>1. \A i \in kept : rank[i] = Cardinality({k \in kept : k <= i})
      OBVIOUS
    <3> HIDE DEF kept, rank, C
    <3> QED
      BY <3>1
  <2>2. t = [j \in 1..C |-> s[found(j)]]
    BY DEF Drop
  <2> HIDE DEF pick, found, rank, upTo, kept, t, C
  <2> QED
    BY <2>1, <2>2
<1> HIDE DEF t, pick, rank, upTo, C
<1>10. \A j \in 1..C : t[j] = s[pick(j)] /\ pick(j) \in DOMAIN s /\ s[pick(j)] \in Nodes \ S
  BY <1>1, <1>8, <1>9
<1>11. t \in Seq(Nodes) /\ DOMAIN t = 1..C /\ Len(t) = C
  <2>1. t \in [1..C -> Nodes]
    BY <1>9, <1>10
  <2> QED
    BY <1>2, <1>9, <2>1
<1>12. ASSUME NEW j \in 1..C, NEW k \in 1..C, j < k PROVE pick(j) < pick(k)
  <2>1. pick(j) \in kept /\ pick(k) \in kept /\ rank[pick(j)] = j /\ rank[pick(k)] = k
    BY <1>8
  <2>2. pick(j) \in Nat /\ pick(k) \in Nat
    BY <1>1, <2>1
  <2>3. ~(pick(k) < pick(j)) /\ pick(k) # pick(j)
    BY <1>2, <1>4, <1>12, <2>1
  <2> QED
    BY <2>2, <2>3
<1>13. IsInjective(t)
  <2>1. ASSUME NEW j \in 1..C, NEW k \in 1..C, t[j] = t[k] PROVE j = k
    <3>1. pick(j) = pick(k)
      BY <1>10, <2>1 DEF IsInjective
    <3> QED
      BY <1>8, <3>1
  <2> QED
    BY <1>11, <2>1 DEF IsInjective
<1>14. ToSet(t) = ToSet(s) \ S
  <2>1. \A j \in 1..C : t[j] \in ToSet(s) \ S
    BY <1>10 DEF ToSet
  <2>2. ASSUME NEW n \in ToSet(s) \ S PROVE \E j \in 1..C : t[j] = n
    <3>1. PICK i \in kept : s[i] = n
      BY <2>2 DEF ToSet
    <3>2. rank[i] \in 1..C
      BY <1>3
    <3>3. pick(rank[i]) = i
      BY <1>5, <1>8, <3>2
    <3> QED
      BY <1>10, <3>1, <3>2, <3>3
  <2> QED
    BY <1>11, <2>1, <2>2 DEF ToSet
<1>15. Within(t, s)
  BY <1>10, <1>11, <1>12 DEF Within
<1> QED
  BY <1>2, <1>11, <1>13, <1>14, <1>15 DEF t

\* The newest entries of a sequence, and those before them.
LEMMA Newests ==
    ASSUME NEW s \in Seq(Nodes), IsInjective(s)
    PROVE  /\ Newest(s) \in Seq(Nodes) /\ IsInjective(Newest(s)) /\ Len(Newest(s)) <= MaxHot
           /\ ToSet(Newest(s)) \subseteq ToSet(s)
           /\ Within(Newest(s), s)
           /\ \A n \in ToSet(s) \ ToSet(Newest(s)), m \in ToSet(Newest(s)) :
                 \E i, l \in DOMAIN s : i < l /\ n = s[i] /\ m = s[l]
<1> DEFINE t == Newest(s)
           cut == IF Len(s) > MaxHot THEN Len(s) - MaxHot ELSE 0
<1>1. Len(s) \in Nat /\ DOMAIN s = 1..Len(s) /\ MaxHot \in Nat \ {0}
  BY LenProperties, BoundsAssumption
<1>2. /\ t \in Seq(Nodes) /\ Len(t) = Len(s) - cut /\ DOMAIN t = 1..(Len(s) - cut)
      /\ \A j \in 1..(Len(s) - cut) : t[j] = s[j + cut]
  <2>1. CASE Len(s) > MaxHot
    <3>1. t = SubSeq(s, cut + 1, Len(s)) /\ cut \in 1..Len(s)
      BY <1>1, <2>1 DEF Newest
    <3> HIDE DEF cut, t
    <3>2. /\ SubSeq(s, cut + 1, Len(s)) \in Seq(Nodes)
          /\ Len(SubSeq(s, cut + 1, Len(s))) = Len(s) - cut
          /\ \A j \in 1..(Len(s) - cut) : SubSeq(s, cut + 1, Len(s))[j] = s[j + cut]
      <4>1. \A i \in (cut + 1)..Len(s) : s[i] \in Nodes
        BY <1>1, <3>1, ElementOfSeq
      <4>2. /\ cut + 1 \in Int /\ Len(s) \in Int
            /\ Len(s) - (cut + 1) + 1 = Len(s) - cut
            /\ ~(cut + 1 <= Len(s)) => Len(s) - cut = 0
        <5>1. cut \in Nat /\ cut <= Len(s) /\ Len(s) \in Nat
          BY <1>1, <3>1
        <5> QED
          BY <5>1
      <4>3. \A j \in 1..(Len(s) - cut) : j \in 1..(Len(s) - (cut + 1) + 1) /\ (cut + 1) + j - 1 = j + cut
        BY <1>1, <3>1
      <4> QED
        BY <4>1, <4>2, <4>3, SubSeqProperties
    <3> QED
      BY <1>1, <3>1, <3>2, LenProperties
  <2>2. CASE ~(Len(s) > MaxHot)
    BY <1>1, <2>2 DEF Newest
  <2> QED
    BY <2>1, <2>2
<1>3. cut \in 0..Len(s) /\ Len(s) - cut <= MaxHot
  BY <1>1
<1> HIDE DEF t, cut
<1>4. \A j \in DOMAIN t : j + cut \in DOMAIN s
  BY <1>1, <1>2, <1>3
<1>5. IsInjective(t)
  <2>1. ASSUME NEW j \in DOMAIN t, NEW k \in DOMAIN t, t[j] = t[k] PROVE j = k
    <3>1. j + cut = k + cut
      BY <1>2, <1>4, <2>1 DEF IsInjective
    <3> QED
      BY <1>1, <1>2, <1>3, <3>1
  <2> QED
    BY <2>1 DEF IsInjective
<1>6. ToSet(t) \subseteq ToSet(s)
  BY <1>2, <1>4 DEF ToSet
<1>7. Within(t, s)
  <2>1. ASSUME NEW j \in DOMAIN t, NEW k \in DOMAIN t, j < k
        PROVE  j + cut < k + cut
    BY <1>1, <1>2, <1>3, <2>1
  <2> QED
    BY <1>2, <1>4, <2>1 DEF Within
<1>8. ASSUME NEW n \in ToSet(s) \ ToSet(t), NEW m \in ToSet(t)
      PROVE  \E i, l \in DOMAIN s : i < l /\ n = s[i] /\ m = s[l]
  <2>1. PICK i \in DOMAIN s : s[i] = n
    BY <1>8 DEF ToSet
  <2>2. PICK k \in DOMAIN t : t[k] = m
    BY <1>8 DEF ToSet
  <2>3. i <= cut
    <3>1. SUFFICES ASSUME i > cut PROVE FALSE
      BY <1>1, <1>3
    <3>2. i - cut \in DOMAIN t /\ (i - cut) + cut = i
      BY <1>1, <1>2, <1>3, <3>1
    <3>3. t[i - cut] = n
      BY <1>2, <2>1, <3>2
    <3> QED
      BY <1>8, <3>2, <3>3 DEF ToSet
  <2>4. i < k + cut
    BY <1>1, <1>2, <1>3, <2>3
  <2> QED
    BY <1>2, <1>4, <2>1, <2>2, <2>4
<1> QED
  BY <1>2, <1>3, <1>5, <1>6, <1>7, <1>8 DEF t

\* Two sequences that share nothing, one after the other.
LEMMA Joined ==
    ASSUME NEW s \in Seq(Nodes), NEW t \in Seq(Nodes), IsInjective(s), IsInjective(t),
           ToSet(s) \cap ToSet(t) = {}
    PROVE  /\ s \o t \in Seq(Nodes) /\ IsInjective(s \o t)
           /\ ToSet(s \o t) = ToSet(s) \cup ToSet(t)
           /\ \A i \in DOMAIN (s \o t) :
                 \/ i \in DOMAIN s /\ (s \o t)[i] = s[i]
                 \/ i > Len(s) /\ (s \o t)[i] \in ToSet(t)
<1> DEFINE u == s \o t
<1>1. /\ Len(s) \in Nat /\ DOMAIN s = 1..Len(s) /\ Len(t) \in Nat /\ DOMAIN t = 1..Len(t)
  BY LenProperties
<1>2. /\ u \in Seq(Nodes) /\ DOMAIN u = 1..(Len(s) + Len(t))
      /\ \A i \in 1..Len(s) : u[i] = s[i]
      /\ \A i \in 1..Len(t) : u[Len(s) + i] = t[i]
  BY <1>1, ConcatProperties, LenProperties
<1> HIDE DEF u
<1>3. ASSUME NEW i \in DOMAIN u, i \notin DOMAIN s
      PROVE  i > Len(s) /\ i - Len(s) \in DOMAIN t /\ u[i] = t[i - Len(s)]
  <2>1. i \in Nat /\ i > Len(s) /\ i - Len(s) \in 1..Len(t) /\ Len(s) + (i - Len(s)) = i
    BY <1>1, <1>2, <1>3
  <2> QED
    BY <1>1, <1>2, <2>1
<1>4. IsInjective(u)
  <2>1. ASSUME NEW i \in DOMAIN u, NEW j \in DOMAIN u, u[i] = u[j] PROVE i = j
    <3>1. CASE i \in DOMAIN s /\ j \in DOMAIN s
      BY <1>1, <1>2, <2>1, <3>1 DEF IsInjective
    <3>2. CASE i \in DOMAIN s /\ j \notin DOMAIN s
      <4>1. u[i] \in ToSet(s)
        BY <1>1, <1>2, <3>2 DEF ToSet
      <4>2. u[j] \in ToSet(t)
        BY <1>3, <2>1, <3>2 DEF ToSet
      <4> QED
        BY <2>1, <4>1, <4>2
    <3>3. CASE i \notin DOMAIN s /\ j \in DOMAIN s
      <4>1. u[j] \in ToSet(s)
        BY <1>1, <1>2, <3>3 DEF ToSet
      <4>2. u[i] \in ToSet(t)
        BY <1>3, <2>1, <3>3 DEF ToSet
      <4> QED
        BY <2>1, <4>1, <4>2
    <3>4. CASE i \notin DOMAIN s /\ j \notin DOMAIN s
      <4>1. i - Len(s) = j - Len(s)
        BY <1>3, <2>1, <3>4 DEF IsInjective
      <4> QED
        BY <1>1, <1>2, <4>1
    <3> QED
      BY <3>1, <3>2, <3>3, <3>4
  <2> QED
    BY <2>1 DEF IsInjective
<1>5. ToSet(u) = ToSet(s) \cup ToSet(t)
  <2>1. \A i \in DOMAIN u : u[i] \in ToSet(s) \cup ToSet(t)
    BY <1>1, <1>2, <1>3 DEF ToSet
  <2>2. \A i \in DOMAIN s : i \in DOMAIN u /\ u[i] = s[i]
    BY <1>1, <1>2
  <2>3. \A i \in DOMAIN t : Len(s) + i \in DOMAIN u /\ u[Len(s) + i] = t[i]
    BY <1>1, <1>2
  <2> QED
    BY <2>1, <2>2, <2>3 DEF ToSet
<1>6. \A i \in DOMAIN u : \/ i \in DOMAIN s /\ u[i] = s[i]
                          \/ i > Len(s) /\ u[i] \in ToSet(t)
  BY <1>1, <1>2, <1>3 DEF ToSet
<1> QED
  BY <1>2, <1>4, <1>5, <1>6 DEF u

\* f[n] does not fall along the sequence s.
InOrder(s, f) == \A i, j \in DOMAIN s : i < j => f[s[i]] <= f[s[j]]

LEMMA OrderWithin ==
    ASSUME NEW s, NEW t, NEW f, InOrder(s, f), Within(t, s)
    PROVE  InOrder(t, f)
BY DEF InOrder, Within

\* _put_hot keeps the table and the order together and within max_hot; if the
\* entries were in the order of their use they still are, and what left was used
\* no later than what stayed.
LEMMA PutsInOrder ==
    ASSUME RecencyOK, StoreTypeOK, NEW ids \in Seq(Nodes), IsInjective(ids),
           NEW entry, \A n \in ToSet(ids) : entry[n] \in HotEntry, PutHot(ids, entry)
    PROVE  /\ RecencyOK'
           /\ \A n \in Nodes : used'[n] = used[n] \/ used'[n] = now
           /\ InOrder(lru, used) /\ (\A n \in Nodes : used[n] <= now) =>
                 /\ InOrder(lru', used')
                 /\ \A n \in Hot \ Hot', m \in Hot' : used[n] <= used'[m]
<1> DEFINE S == ToSet(ids)
           d == Drop(lru, S)
           u == d \o ids
<1>1. lru \in Seq(Nodes) /\ IsInjective(lru) /\ Hot = {n \in Nodes : hot[n] # None} /\ Hot = ToSet(lru)
  BY DEF RecencyOK, Hot
<1>2. /\ d \in Seq(Nodes) /\ IsInjective(d) /\ ToSet(d) = Hot \ S /\ Within(d, lru)
  BY <1>1, Drops
<1>3. /\ lru' = Newest(u)
      /\ hot' = [n \in Nodes |-> IF n \notin ToSet(Newest(u)) THEN None
                                 ELSE IF n \in S THEN entry[n] ELSE hot[n]]
      /\ used' = [n \in Nodes |-> IF n \in S THEN now ELSE used[n]]
  BY DEF PutHot
<1> HIDE DEF d
<1>4. /\ u \in Seq(Nodes) /\ IsInjective(u) /\ ToSet(u) = (Hot \ S) \cup S
      /\ \A i \in DOMAIN u : \/ i \in DOMAIN d /\ u[i] = d[i]
                             \/ i > Len(d) /\ u[i] \in S
  <2>1. ToSet(d) \cap ToSet(ids) = {}
    BY <1>2
  <2>2. /\ d \o ids \in Seq(Nodes) /\ IsInjective(d \o ids)
        /\ ToSet(d \o ids) = ToSet(d) \cup ToSet(ids)
        /\ \A i \in DOMAIN (d \o ids) : \/ i \in DOMAIN d /\ (d \o ids)[i] = d[i]
                                        \/ i > Len(d) /\ (d \o ids)[i] \in ToSet(ids)
    BY <1>2, <2>1, Joined
  <2> QED
    BY <1>2, <2>2
<1> HIDE DEF u
<1>5. /\ lru' \in Seq(Nodes) /\ IsInjective(lru') /\ Len(lru') <= MaxHot
      /\ Hot' \subseteq (Hot \ S) \cup S /\ Hot' = ToSet(lru')
      /\ Within(lru', u)
      /\ \A n \in ToSet(u) \ Hot', m \in Hot' :
            \E i, l \in DOMAIN u : i < l /\ n = u[i] /\ m = u[l]
  <2>1. Hot' = ToSet(Newest(u))
    BY <1>3 DEF Hot
  <2> QED
    BY <1>3, <1>4, <2>1, Newests DEF Hot
<1>6. S \subseteq Nodes /\ Hot \subseteq Nodes
  <2>1. \A i \in DOMAIN ids : ids[i] \in Nodes
    BY ElementOfSeq, LenProperties
  <2> QED
    BY <1>1, <2>1 DEF ToSet
<1> HIDE DEF S
<1>7. Hot' = {n \in Nodes : hot'[n] # None}
  <2>1. \A n \in S : entry[n] # None
    BY NoneAssumption DEF S
  <2>2. \A n \in Nodes : hot'[n] = IF n \notin Hot' THEN None
                                   ELSE IF n \in S THEN entry[n] ELSE hot[n]
    BY <1>3, <1>5
  <2> QED
    BY <1>1, <1>5, <1>6, <2>1, <2>2
<1>8. RecencyOK'
  BY <1>5, <1>7 DEF RecencyOK
<1>9. now \in Nat /\ \A n \in Nodes : used[n] \in Nat /\ used'[n] = IF n \in S THEN now ELSE used[n]
  BY <1>3 DEF StoreTypeOK
<1>10. ASSUME InOrder(lru, used), \A n \in Nodes : used[n] <= now
       PROVE  InOrder(lru', used') /\ \A n \in Hot \ Hot', m \in Hot' : used[n] <= used'[m]
  <2>1. InOrder(d, used)
    BY <1>2, <1>10, OrderWithin
  <2>2. Len(d) \in Nat /\ DOMAIN d = 1..Len(d) /\ \A i \in DOMAIN d : d[i] \in Nodes \ S
    <3>1. Len(d) \in Nat /\ DOMAIN d = 1..Len(d)
      BY <1>2, LenProperties
    <3>2. \A i \in DOMAIN d : d[i] \in Hot \ S
      BY <1>2 DEF ToSet
    <3> QED
      BY <1>6, <3>1, <3>2
  <2>3. InOrder(u, used')
    <3>1. ASSUME NEW i \in DOMAIN u, NEW j \in DOMAIN u, i < j
          PROVE  used'[u[i]] <= used'[u[j]]
      <4>1. i \in Nat /\ j \in Nat
        BY <1>4, LenProperties
      <4>2. CASE j \in DOMAIN d /\ u[j] = d[j]
        <5>1. i \in DOMAIN d /\ u[i] = d[i]
          BY <1>4, <2>2, <3>1, <4>1, <4>2
        <5>2. used[d[i]] <= used[d[j]]
          BY <2>1, <3>1, <4>2, <5>1 DEF InOrder
        <5> QED
          BY <1>9, <2>2, <4>2, <5>1, <5>2
      <4>3. CASE u[j] \in S
        <5>1. u[i] \in Nodes
          BY <1>4, ElementOfSeq, LenProperties
        <5>2. used'[u[j]] = now /\ used'[u[i]] <= now
          BY <1>6, <1>9, <1>10, <4>3, <5>1
        <5> QED
          BY <5>2
      <4> QED
        BY <1>4, <4>2, <4>3
    <3> QED
      BY <3>1 DEF InOrder
  <2>4. InOrder(lru', used')
    BY <1>5, <2>3, OrderWithin
  <2>5. ASSUME NEW n \in Hot \ Hot', NEW m \in Hot' PROVE used[n] <= used'[m]
    <3>1. n \in ToSet(u) \ Hot'
      BY <1>4
    <3>2. used'[n] <= used'[m]
      BY <1>5, <2>3, <3>1 DEF InOrder
    <3>3. used[n] <= used'[n] /\ n \in Nodes /\ m \in Nodes
      BY <1>5, <1>6, <1>9, <1>10
    <3> QED
      BY <1>9, <3>2, <3>3
  <2> QED
    BY <2>4, <2>5
<1> QED
  BY <1>8, <1>9, <1>10

\* What use an entry that is put gives, and what an eviction leaves, in general.
LEMMA PutsRecent ==
    ASSUME StoreTypeOK, RecencyInduct, UNCHANGED <<now, up, restarts>>,
           NEW ids \in Seq(Nodes), IsInjective(ids),
           NEW entry, \A n \in ToSet(ids) : entry[n] \in HotEntry, PutHot(ids, entry)
    PROVE  RecencyInduct' /\ (restarts = 0 => LeastRecentlyUsedLeaves)
<1>1. /\ RecencyOK'
      /\ \A n \in Nodes : used'[n] = used[n] \/ used'[n] = now
      /\ InOrder(lru, used) /\ (\A n \in Nodes : used[n] <= now) =>
            /\ InOrder(lru', used')
            /\ \A n \in Hot \ Hot', m \in Hot' : used[n] <= used'[m]
  BY PutsInOrder DEF RecencyInduct
<1>2. /\ \A n \in Nodes : used[n] <= now
      /\ up \/ restarts # 0
      /\ now \in Nat
      /\ restarts = 0 => InOrder(lru, used)
  BY DEF RecencyInduct, UsedInOrder, InOrder, StoreTypeOK
<1>3. \A n \in Nodes : used'[n] <= now
  BY <1>1, <1>2
<1>4. UsedInOrder' /\ (restarts = 0 => LeastRecentlyUsedLeaves)
  BY <1>1, <1>2 DEF UsedInOrder, InOrder, LeastRecentlyUsedLeaves
<1> QED
  BY <1>1, <1>2, <1>3, <1>4 DEF RecencyInduct

\* Nothing leaves the table, which stays as it is.
LEMMA SameRecent ==
    ASSUME StoreTypeOK, RecencyInduct, UNCHANGED <<lru, hot, used, up, restarts>>,
           now' \in Nat, now <= now'
    PROVE  RecencyInduct' /\ LeastRecentlyUsedLeaves
<1>1. RecencyOK' /\ UsedInOrder' /\ (up \/ restarts # 0)' /\ Hot' = Hot
  BY DEF RecencyInduct, RecencyOK, UsedInOrder, Hot
<1>2. \A n \in Nodes : used'[n] <= now'
  <2>1. \A n \in Nodes : used[n] \in Nat /\ used[n] <= now /\ now \in Nat
    BY DEF RecencyInduct, StoreTypeOK
  <2> QED
    BY <2>1
<1> QED
  BY <1>1, <1>2 DEF RecencyInduct, LeastRecentlyUsedLeaves

LEMMA RecencyInit == Init => RecencyInduct
<1> SUFFICES ASSUME Init PROVE RecencyInduct
  OBVIOUS
<1>1. /\ lru = <<>> /\ up = TRUE /\ now = 0 /\ restarts = 0
      /\ hot = [n \in Nodes |-> None] /\ used = [n \in Nodes |-> 0]
  BY DEF Init
<1>2. lru \in Seq(Nodes) /\ IsInjective(lru) /\ Len(lru) <= MaxHot /\ Hot = {}
  BY <1>1, BoundsAssumption, EmptySeq DEF IsInjective, Hot, ToSet
<1> QED
  BY <1>1, <1>2 DEF RecencyInduct, RecencyOK, UsedInOrder

LEMMA RecencyStep ==
    StoreInduct /\ RecencyInduct /\ [Next]_vars =>
        RecencyInduct' /\ (up /\ up' /\ restarts = 0 => LeastRecentlyUsedLeaves)
<1> SUFFICES ASSUME StoreInduct, RecencyInduct, [Next]_vars
             PROVE  RecencyInduct' /\ (up /\ up' /\ restarts = 0 => LeastRecentlyUsedLeaves)
  OBVIOUS
<1> DEFINE Goal == RecencyInduct' /\ (up /\ up' /\ restarts = 0 => LeastRecentlyUsedLeaves)
<1>1. StoreTypeOK /\ TablesSound /\ now \in Nat
  BY DEF StoreInduct, StoreTypeOK
<1>2. ASSUME NEW n \in Nodes, NEW entry \in HotEntry, PutHot(<<n>>, [m \in {n} |-> entry]),
             UNCHANGED <<now, up, restarts>>
      PROVE  Goal
  <2>1. <<n>> \in Seq(Nodes) /\ IsInjective(<<n>>) /\ ToSet(<<n>>) = {n}
    BY Single
  <2>2. \A m \in ToSet(<<n>>) : [k \in {n} |-> entry][m] \in HotEntry
    BY <2>1
  <2> QED
    BY <1>1, <1>2, <2>1, <2>2, PutsRecent
<1>3. ASSUME NEW n \in Nodes, NEW r \in Offers, Learn(n, r) PROVE Goal
  <2>1. r.via \in Vias /\ r.hops \in Hop /\ r.rssi \in Rssi
    BY OffersAssumption DEF Offer
  <2>2. UNCHANGED <<now, up, restarts>>
    BY <1>3 DEF Learn, LearnNew, LearnShorter, LearnEqual, KeepEqual, LearnWorse, KeepWorse, Hear
  <2>3. CASE LearnNew(n, r) \/ LearnShorter(n, r) \/ LearnEqual(n, r)
    <3>1. PutHot(<<n>>, [m \in {n} |-> Entry(r, now)])
      BY <2>3 DEF LearnNew, LearnShorter, LearnEqual, Commit
    <3>2. Entry(r, now) \in HotEntry
      BY <1>1, <2>1, RowsAndEntries
    <3> QED
      BY <1>2, <2>2, <3>1, <3>2
  <2>4. CASE KeepEqual(n, r) \/ LearnWorse(n, r) \/ KeepWorse(n, r)
    <3>1. UNCHANGED <<lru, hot, used>>
      BY <2>4 DEF KeepEqual, LearnWorse, KeepWorse, NoteHearing
    <3> QED
      BY <1>1, <2>2, <3>1, SameRecent
  <2> QED
    BY <1>3, <2>3, <2>4 DEF Learn
<1>4. CASE Tick
  <2>1. PICK ids \in SettleOrders : PutHot(ids, [n \in Overdue |-> Entry(pending[n], now)])
    BY <1>4 DEF Tick
  <2>2. Overdue \in SUBSET Nodes /\ ids \in SetToSeqs(Overdue)
    BY DEF Overdue, SettleOrders
  <2>3. ids \in Seq(Nodes) /\ IsInjective(ids) /\ ToSet(ids) = Overdue
    BY <2>2, Orders
  <2>4. ASSUME NEW n \in Overdue PROVE Entry(pending[n], now) \in HotEntry
    <3>1. pending[n] \in Candidate
      BY <1>1 DEF Overdue, StoreTypeOK
    <3>2. pending[n].via \in Vias /\ pending[n].hops \in Hop /\ pending[n].rssi \in Rssi
      BY <3>1 DEF Candidate
    <3> QED
      BY <1>1, <3>2, RowsAndEntries
  <2>5. UNCHANGED <<now, up, restarts>>
    BY <1>4 DEF Tick
  <2> QED
    BY <1>1, <2>1, <2>3, <2>4, <2>5, PutsRecent
<1>5. ASSUME NEW n \in Nodes, NextHop(n) PROVE Goal
  <2> DEFINE entry == IF hot[n] # None THEN hot[n] ELSE Entry(ColdGet(n), ColdGet(n).seen)
  <2>1. /\ hot[n] # None \/ ColdGet(n) # None
        /\ PutHot(<<n>>, [m \in {n} |-> entry])
        /\ UNCHANGED <<now, up, restarts>>
    BY <1>5 DEF NextHop
  <2>2. entry \in HotEntry
    <3>1. CASE hot[n] # None
      BY <1>1, <3>1 DEF StoreTypeOK
    <3>2. CASE hot[n] = None
      <4>1. ColdGet(n) \in Row
        BY <1>1, <2>1, <3>2 DEF StoreTypeOK, ColdGet
      <4>2. /\ ColdGet(n).via \in Vias /\ ColdGet(n).hops \in Hop
            /\ ColdGet(n).rssi \in Rssi /\ ColdGet(n).seen \in Nat
        BY <4>1 DEF Row
      <4> QED
        BY <1>1, <3>2, <4>2, RowsAndEntries
    <3> QED
      BY <3>1, <3>2
  <2> HIDE DEF entry
  <2> QED
    BY <1>2, <2>1, <2>2
<1>6. CASE Expire
  <2>1. /\ lru' = Drop(lru, StaleHot)
        /\ hot' = [n \in Nodes |-> IF n \in StaleHot THEN None ELSE hot[n]]
        /\ UNCHANGED <<now, up, used, restarts>>
    BY <1>6 DEF Expire
  <2>2. lru \in Seq(Nodes) /\ IsInjective(lru) /\ Len(lru) <= MaxHot /\ Len(lru) \in Nat
        /\ MaxHot \in Nat
    BY BoundsAssumption, LenProperties DEF RecencyInduct, RecencyOK
  <2>3. /\ lru' \in Seq(Nodes) /\ IsInjective(lru') /\ Len(lru') <= Len(lru)
        /\ Hot' = Hot \ StaleHot /\ Within(lru', lru)
    BY <2>1, <2>2, Drops DEF Hot
  <2>4. Hot' = {n \in Nodes : hot'[n] # None}
    BY <2>1, <2>3 DEF RecencyInduct, RecencyOK
  <2>5. Len(lru') <= MaxHot
    <3>1. Len(lru') \in Nat
      BY <2>3, LenProperties
    <3> QED
      BY <2>2, <2>3, <3>1
  <2>6. RecencyOK'
    BY <2>3, <2>4, <2>5 DEF RecencyOK
  <2>7. InOrder(lru, used) => InOrder(lru', used')
    BY <2>1, <2>3, OrderWithin
  <2>8. UsedInOrder'
    BY <2>1, <2>7 DEF UsedInOrder, InOrder, RecencyInduct
  <2>9. LeastRecentlyUsedLeaves
    BY <2>3 DEF LeastRecentlyUsedLeaves
  <2> QED
    BY <2>1, <2>6, <2>8, <2>9 DEF RecencyInduct
<1>7. CASE Close \/ Crash
  <2>1. /\ up' = FALSE /\ restarts' = restarts + 1 /\ restarts \in Nat
        /\ lru' = <<>> /\ hot' = [n \in Nodes |-> None] /\ UNCHANGED <<now, used>>
    BY <1>1, <1>7, BoundsAssumption DEF Close, Crash, Stop, StoreTypeOK
  <2>2. restarts' # 0
    BY <2>1
  <2>3. /\ lru' \in Seq(Nodes) /\ IsInjective(lru') /\ Len(lru') <= MaxHot /\ Hot' = {}
    BY <2>1, BoundsAssumption, EmptySeq DEF IsInjective, Hot, ToSet
  <2> QED
    BY <2>1, <2>2, <2>3 DEF RecencyInduct, RecencyOK, UsedInOrder
<1>8. CASE Start
  <2>1. ~up /\ UNCHANGED <<now, disk, restarts>>
    BY <1>8 DEF Start
  <2>2a. PICK S \in SUBSET Buffered(disk) : \E ids \in SetToSeqs(S) :
           /\ Len(ids) <= MaxHot /\ lru' = ids
           /\ hot' = [n \in Nodes |-> IF n \in S THEN Entry(disk[n], disk[n].seen) ELSE None]
           /\ used' = [n \in Nodes |-> IF n \in S THEN disk[n].seen ELSE used[n]]
    BY <1>8 DEF Start
  <2>2. PICK ids \in SetToSeqs(S) :
           /\ Len(ids) <= MaxHot /\ lru' = ids
           /\ hot' = [n \in Nodes |-> IF n \in S THEN Entry(disk[n], disk[n].seen) ELSE None]
           /\ used' = [n \in Nodes |-> IF n \in S THEN disk[n].seen ELSE used[n]]
    BY <2>2a
  <2>3. S \in SUBSET Nodes /\ \A n \in S : disk[n] \in Row
    BY <1>1 DEF Buffered, StoreTypeOK
  <2>4. ids \in Seq(Nodes) /\ IsInjective(ids) /\ ToSet(ids) = S
    BY <2>3, Orders
  <2>5. \A n \in S : Entry(disk[n], disk[n].seen) # None
    <3>1. ASSUME NEW n \in S PROVE Entry(disk[n], disk[n].seen) \in HotEntry
      <4>1. /\ disk[n].via \in Vias /\ disk[n].hops \in Hop
            /\ disk[n].rssi \in Rssi /\ disk[n].seen \in Nat
        BY <2>3 DEF Row
      <4> QED
        BY <1>1, <4>1, RowsAndEntries
    <3> QED
      BY <3>1, NoneAssumption
  <2>6. RecencyOK'
    <3>1. Hot' = S
      BY <2>2, <2>4 DEF Hot
    <3>2. {n \in Nodes : hot'[n] # None} = S
      BY <2>2, <2>3, <2>5
    <3> QED
      BY <2>2, <2>4, <3>1, <3>2 DEF RecencyOK
  <2>7. restarts # 0
    BY <2>1 DEF RecencyInduct
  <2>8. \A n \in Nodes : used'[n] <= now
    <3>1. \A n \in S : disk[n].seen <= now
      BY <1>1, <2>3, NoneAssumption DEF TablesSound
    <3> QED
      BY <2>2, <3>1 DEF RecencyInduct
  <2> QED
    BY <2>1, <2>6, <2>7, <2>8 DEF RecencyInduct, UsedInOrder
<1>9. CASE PassTime
  <2>1. UNCHANGED <<lru, hot, used, up, restarts>> /\ now' = now + 1
    BY <1>9 DEF PassTime
  <2>2. now' \in Nat /\ now <= now'
    BY <1>1, <2>1
  <2> QED
    BY <1>1, <2>1, <2>2, SameRecent
<1>10. CASE UNCHANGED vars
  <2>1. UNCHANGED <<lru, hot, used, up, restarts, now>>
    BY <1>10 DEF vars, memory
  <2> QED
    BY <1>1, <2>1, SameRecent
<1> QED
  BY <1>3, <1>4, <1>5, <1>6, <1>7, <1>8, <1>9, <1>10 DEF Next, NextHopMiss

(***************************************************************************)
(* One table per originator.  Mesh looks at the announces of one node, and *)
(* reduces the route table to OriginTable: floods in place of times, and   *)
(* no eviction, expiry or restart.  Here is what Routes has to do with it: *)
(* Table(o) is its state as far as o goes, a flood being a second.         *)
(***************************************************************************)
Table(o) == INSTANCE OriginTable WITH
    HopLimit <- MaxHops,
    flood    <- Second(now),
    route    <- [n \in {o} |-> IF hot[n] = None THEN None
                               ELSE [via |-> hot[n].via, hops |-> hot[n].hops, flood |-> hot[n].seen]],
    settling <- [n \in {o} |-> IF pending[n] = None THEN None
                               ELSE [via |-> pending[n].via, hops |-> pending[n].hops]],
    lapsed   <- {n \in {o} : hot[n] # None /\ ~Guarded(n)}

\* A frame that brings the copy r.
FrameOf(r) == [from |-> r.via, left |-> MaxHops - r.hops]

\* What a step makes of the routes to one originator.
LearnsOf(o)  == \E r \in Offers : Learn(o, r) /\ Table(o)!Learn(o, FrameOf(r))
SettlesOf(o) == pending[o] # None /\ Table(o)!Commit(o, pending[o].via, pending[o].hops)
LeavesOf(o)  == UNCHANGED <<hot[o], pending[o]>>
LosesOf(o)   == hot'[o] = None /\ pending'[o] \in {pending[o], None}
FindsOf(o)   == /\ hot[o] = None /\ hot'[o] # None /\ SameRoute(hot'[o], ColdGet(o))
                /\ pending'[o] = pending[o]

\* An announce of one originator does to the routes to it what Mesh says, and to
\* those of the others nothing but push them out of memory.
OriginsApart ==
    /\ \A o \in Nodes, r \in Offers : Learn(o, r) => Table(o)!Learn(o, FrameOf(r))
    /\ \A o \in Nodes : LearnsOf(o) \/ SettlesOf(o) \/ LeavesOf(o) \/ LosesOf(o) \/ FindsOf(o)

\* None is none of the records that OriginTable looks at.
NoneIsNoTable == None \notin [via : Vias, hops : Hop, flood : Nat] \cup [via : Vias, hops : Hop]

\* _put_hot of one entry leaves it in the table.
LEMMA PutStays ==
    ASSUME RecencyOK, StoreTypeOK, NEW n \in Nodes, NEW entry, PutHot(<<n>>, entry)
    PROVE  hot'[n] = entry[n]
<1> DEFINE d == Drop(lru, ToSet(<<n>>))
           u == d \o <<n>>
<1>1. d \in Seq(Nodes)
  BY Drops DEF RecencyOK
<1>2. /\ lru' = Newest(u)
      /\ hot' = [m \in Nodes |-> IF m \notin ToSet(Newest(u)) THEN None
                                 ELSE IF m \in ToSet(<<n>>) THEN entry[m] ELSE hot[m]]
  BY DEF PutHot
<1> HIDE DEF d
<1>3. u \in Seq(Nodes) /\ Len(u) \in Nat \ {0} /\ u[Len(u)] = n
  BY <1>1
<1> HIDE DEF u
<1>4. n \in ToSet(Newest(u))
  <2>1. MaxHot \in Nat \ {0}
    BY BoundsAssumption
  <2>2. CASE Len(u) > MaxHot
    <3>1. Newest(u) = SubSeq(u, Len(u) - MaxHot + 1, Len(u))
      BY <2>2 DEF Newest
    <3>2. /\ Len(u) - MaxHot + 1 \in 1..Len(u)
          /\ Len(u) - (Len(u) - MaxHot + 1) + 1 = MaxHot
      BY <1>3, <2>1, <2>2
    <3>3. Len(Newest(u)) = MaxHot /\ Newest(u)[MaxHot] = u[Len(u)]
      BY <1>3, <2>1, <2>2, <3>1, <3>2
    <3>4. MaxHot \in DOMAIN Newest(u)
      BY <1>3, <2>1, <2>2, <3>1, <3>2
    <3> QED
      BY <1>3, <3>3, <3>4 DEF ToSet
  <2>3. CASE ~(Len(u) > MaxHot)
    BY <1>3, <2>3 DEF Newest, ToSet
  <2> QED
    BY <2>2, <2>3
<1> QED
  BY <1>2, <1>4, Single

\* What is written now lies within the guard, though its stamp drops the part of
\* the second.
LEMMA WrittenIsGuarded ==
    ASSUME FloodGuard >= TicksPerSecond - 1, StoreTypeOK, NEW o \in Nodes,
           hot'[o].seen = Second(now), UNCHANGED now
    PROVE  Guarded(o)'
<1>1. now \in Nat /\ Second(now) \in Nat /\ TicksPerSecond \in Nat /\ FloodGuard \in Nat
      /\ now - Second(now) * TicksPerSecond <= TicksPerSecond - 1
  BY Stamps, TimesAssumption DEF StoreTypeOK
<1> DEFINE late == now - Second(now) * TicksPerSecond
<1>2. late \in Int
  BY <1>1
<1>3. Guarded(o)' <=> late <= FloodGuard
  BY DEF Guarded
<1> HIDE DEF late
<1>4. late <= TicksPerSecond - 1
  BY <1>1 DEF late
<1> QED
  BY <1>1, <1>2, <1>3, <1>4

\* A route written to the hot table, with no candidate left, is OriginTable's Commit.
LEMMA CommitApart ==
    ASSUME FloodGuard >= TicksPerSecond - 1, StoreTypeOK, NEW o \in Nodes,
           NEW r, hot'[o] = Entry(r, now), hot'[o] # None, pending'[o] = None, UNCHANGED now
    PROVE  Table(o)!Commit(o, r.via, r.hops)
<1>1. /\ hot'[o].via = r.via /\ hot'[o].hops = r.hops /\ hot'[o].seen = Second(now)
      /\ Second(now') = Second(now)
  BY DEF Entry
<1>2. Guarded(o)'
  BY <1>1, WrittenIsGuarded
<1> QED
  BY <1>1, <1>2 DEF Table!Commit

LEMMA LearnApart ==
    ASSUME FloodGuard >= TicksPerSecond - 1, NoneIsNoTable, StoreTypeOK, RecencyOK,
           NEW o \in Nodes, NEW r \in Offers, Learn(o, r)
    PROVE  Table(o)!Learn(o, FrameOf(r))
<1> SUFFICES ASSUME NEW f, f = FrameOf(r) PROVE Table(o)!Learn(o, f)
  OBVIOUS
<1>1. /\ r \in Offer /\ r.via \in Vias /\ r.hops \in Hop /\ r.rssi \in Rssi
      /\ now \in Nat /\ now' = now
      /\ hot[o] \in HotEntry \cup {None} /\ pending \in [Nodes -> Candidate \cup {None}]
  BY OffersAssumption DEF Offer, StoreTypeOK, Learn, LearnNew, LearnShorter, LearnEqual,
                          KeepEqual, LearnWorse, KeepWorse, Hear
<1>2. f.from = r.via /\ Table(o)!HopsOf(f) = r.hops
  BY <1>1, BoundsAssumption DEF FrameOf, Table!HopsOf, Hop
<1>3. hot[o] # None => [via |-> hot[o].via, hops |-> hot[o].hops, flood |-> hot[o].seen] # None
  BY <1>1 DEF NoneIsNoTable, HotEntry
<1>4. pending[o] # None => [via |-> pending[o].via, hops |-> pending[o].hops] # None
  BY <1>1 DEF NoneIsNoTable, Candidate
<1>5. /\ r.hops \in Nat /\ (hot[o] # None => hot[o].hops \in Nat)
      /\ pending[o] # None => pending[o].hops \in Nat
  BY <1>1, BoundsAssumption DEF HotEntry, Candidate, Hop
<1>6. ASSUME DropCandidate(o), Commit(o, r), hot[o] # None => r.hops <= hot[o].hops
      PROVE  Table(o)!LearnTaken(o, f)
  <2>1. pending'[o] = None
    BY <1>1, <1>6 DEF DropCandidate
  <2>2. Entry(r, now) # None
    BY <1>1, RowsAndEntries
  <2>3. hot'[o] = Entry(r, now)
    BY <1>6, PutStays DEF Commit
  <2>4. Table(o)!Commit(o, r.via, r.hops)
    BY <1>1, <2>1, <2>2, <2>3, CommitApart
  <2> QED
    BY <1>2, <1>6, <2>4 DEF Table!LearnTaken
<1>7. CASE LearnNew(o, r) \/ LearnShorter(o, r) \/ LearnEqual(o, r)
  <2>1. DropCandidate(o) /\ Commit(o, r) /\ (hot[o] # None => r.hops <= hot[o].hops)
    BY <1>5, <1>7 DEF LearnNew, LearnShorter, LearnEqual
  <2> QED
    BY <1>2, <1>6, <2>1 DEF Table!Learn
<1>8. CASE KeepEqual(o, r)
  <2>1. /\ hot[o] # None /\ r.hops = hot[o].hops /\ r.via # hot[o].via /\ Guarded(o)
        /\ UNCHANGED hot /\ pending' = [pending EXCEPT ![o] = None]
    BY <1>8 DEF KeepEqual, DropCandidate, NoteHearing
  <2>2. Guarded(o)' = Guarded(o) /\ pending'[o] = None
    BY <1>1, <2>1 DEF Guarded
  <2>3. Table(o)!LearnSibling(o, f)
    BY <1>2, <1>3, <2>1, <2>2 DEF Table!LearnSibling, Table!Guarded
  <2> QED
    BY <2>3 DEF Table!Learn
<1>9. CASE LearnWorse(o, r)
  <2>1. /\ hot[o] # None /\ r.hops > hot[o].hops /\ ~Guarded(o) /\ UNCHANGED hot
    BY <1>9 DEF LearnWorse, NoteHearing
  <2>2. Guarded(o)' = Guarded(o)
    BY <1>1, <2>1 DEF Guarded
  <2>3. \/ pending'[o] = pending[o] /\ pending[o] # None /\ r.hops >= pending[o].hops
        \/ /\ pending'[o] # None /\ pending'[o].via = r.via /\ pending'[o].hops = r.hops
           /\ pending[o] # None => r.hops <= pending[o].hops
    <3> DEFINE p == pending[o]
               new == [via |-> r.via, hops |-> r.hops, rssi |-> r.rssi,
                       commitAt |-> IF p = None THEN now + SettleAfter ELSE p.commitAt]
    <3>1. pending' = IF p = None \/ Beats(r, p) THEN [pending EXCEPT ![o] = new] ELSE pending
      BY <1>9 DEF LearnWorse
    <3>2. new.via = r.via /\ new.hops = r.hops
      OBVIOUS
    <3>3. pending'[o] # None
      BY <1>1, <1>9, Candidates
    <3> HIDE DEF new
    <3>4. CASE p = None \/ Beats(r, p)
      <4>1. pending'[o] = new
        BY <1>1, <3>1, <3>4
      <4> QED
        BY <1>5, <3>2, <3>3, <3>4, <4>1 DEF Beats
    <3>5. CASE p # None /\ ~Beats(r, p)
      BY <1>5, <3>1, <3>5 DEF Beats
    <3> QED
      BY <3>4, <3>5
  <2>4. Table(o)!LearnSettling(o, f)
    BY <1>2, <1>3, <1>4, <2>1, <2>2, <2>3 DEF Table!LearnSettling, Table!Guarded
  <2> QED
    BY <2>4 DEF Table!Learn
<1>10. CASE KeepWorse(o, r)
  <2>1. /\ hot[o] # None /\ r.hops > hot[o].hops /\ Guarded(o) /\ UNCHANGED <<hot, pending>>
    BY <1>10 DEF KeepWorse, NoteHearing
  <2>2. Guarded(o)' = Guarded(o)
    BY <1>1, <2>1 DEF Guarded
  <2>3. Table(o)!LearnStraggler(o, f)
    BY <1>2, <1>3, <2>1, <2>2 DEF Table!LearnStraggler, Table!Guarded, Table!routeVars
  <2> QED
    BY <2>3 DEF Table!Learn
<1> QED
  BY <1>7, <1>8, <1>9, <1>10 DEF Learn

\* What is found again in memory is what was on record.
LEMMA FoundAgain ==
    ASSUME StoreInduct', NEW o \in Nodes, hot'[o] # None, UNCHANGED <<buf, disk>>
    PROVE  SameRoute(hot'[o], ColdGet(o))
<1>1. SameRoute(hot'[o], ColdGet(o)')
  BY DEF StoreInduct, HotAgreesWithCold
<1> QED
  BY <1>1 DEF ColdGet

LEMMA StepApart ==
    ASSUME FloodGuard >= TicksPerSecond - 1, NoneIsNoTable, StoreInduct, StoreInduct',
           RecencyInduct, [Next]_vars
    PROVE  [OriginsApart]_vars
<1>1. StoreTypeOK /\ RecencyOK /\ now \in Nat
  BY DEF StoreInduct, StoreTypeOK, RecencyInduct
<1>2. ASSUME NEW o \in Nodes, NEW r \in Offers, Learn(o, r)
      PROVE  Table(o)!Learn(o, FrameOf(r))
  BY <1>1, <1>2, LearnApart
<1> SUFFICES ASSUME NEW o \in Nodes, ~(UNCHANGED vars)
             PROVE  LearnsOf(o) \/ SettlesOf(o) \/ LeavesOf(o) \/ LosesOf(o) \/ FindsOf(o)
  BY <1>2 DEF OriginsApart
<1>3. ASSUME NEW n \in Nodes, NEW r \in Offers, Learn(n, r)
      PROVE  LearnsOf(o) \/ LeavesOf(o) \/ LosesOf(o)
  <2>1. CASE n = o
    BY <1>2, <1>3, <2>1 DEF LearnsOf
  <2>2. CASE n # o
    <3>1. (hot'[o] = None \/ hot'[o] = hot[o]) /\ pending'[o] = pending[o]
      BY <1>3, <2>2, LearnsOne
    <3> QED
      BY <3>1 DEF LeavesOf, LosesOf
  <2> QED
    BY <2>1, <2>2
<1>4. CASE Tick
  <2>1. /\ \/ hot'[o] = None
           \/ hot'[o] = IF o \in Overdue THEN Entry(pending[o], now) ELSE hot[o]
        /\ pending'[o] = IF o \in Overdue THEN None ELSE pending[o]
        /\ UNCHANGED now
    BY <1>1, <1>4, Ticks
  <2>2. CASE hot'[o] = None
    BY <2>1, <2>2 DEF LosesOf
  <2>3. CASE o \notin Overdue
    BY <2>1, <2>3 DEF LeavesOf, LosesOf
  <2>4. CASE o \in Overdue /\ hot'[o] # None
    <3>1. /\ pending[o] # None /\ pending'[o] = None
          /\ hot'[o] = Entry(pending[o], now) /\ hot'[o] # None
      BY <2>1, <2>4 DEF Overdue
    <3>2. PICK p : p = pending[o]
      OBVIOUS
    <3>3. Table(o)!Commit(o, p.via, p.hops)
      BY <1>1, <2>1, <3>1, <3>2, CommitApart
    <3> QED
      BY <3>1, <3>2, <3>3 DEF SettlesOf, Table!Commit
  <2> QED
    BY <2>2, <2>3, <2>4
<1>5. ASSUME NEW n \in Nodes, NextHop(n)
      PROVE  LeavesOf(o) \/ LosesOf(o) \/ FindsOf(o)
  <2>1. UNCHANGED <<pending, buf, disk>>
    BY <1>5 DEF NextHop
  <2>2. hot'[o] = None \/ hot'[o] = hot[o] \/ hot[o] = None
    BY <1>5, NextHopKeeps
  <2> QED
    BY <2>1, <2>2, FoundAgain DEF LeavesOf, LosesOf, FindsOf
<1>6. CASE Expire
  BY <1>6 DEF Expire, LeavesOf, LosesOf
<1>7. CASE Close \/ Crash
  BY <1>7 DEF Close, Crash, Stop, LosesOf
<1>8. CASE Start
  <2>1. ~up /\ UNCHANGED <<pending, buf, disk>>
    BY <1>8 DEF Start
  <2>2. hot[o] = None
    BY <2>1 DEF StoreInduct, TablesSound
  <2> QED
    BY <2>1, <2>2, FoundAgain DEF LosesOf, FindsOf
<1>9. CASE PassTime
  BY <1>9 DEF PassTime, LeavesOf
<1> QED
  BY <1>3, <1>4, <1>5, <1>6, <1>7, <1>8, <1>9 DEF Next, NextHopMiss

(***************************************************************************)
(* The theorems                                                            *)
(***************************************************************************)
\* What memory, buffer and disk hold of a node goes together: the invariant
\* behind the theorems that follow.
THEOREM StoreInductive == Spec => []StoreInduct
<1> QED
  BY StoreInductInit, StoreInductStep, PTL DEF Spec

\* The route that traffic uses is the one on record, whatever learn, settle,
\* eviction, promotion, flush, expiry and restart did.
THEOREM MemoryAgreesWithRecord == Spec => []HotAgreesWithCold
<1>1. StoreInduct => HotAgreesWithCold
  BY DEF StoreInduct
<1> QED
  BY <1>1, StoreInductive, PTL

\* What learn() says of the TTL: the hot entry of a node that is not settling
\* lags behind its last hearing by at most the flood guard and part of a second.
THEOREM HearingsAreTracked == Spec => []HotTracksHearing
<1>1. Init => HotTracksHearing
  BY DEF Init, HotTracksHearing
<1>2. StoreInduct /\ HotTracksHearing /\ [Next]_vars => HotTracksHearing'
  BY TracksStep
<1> QED
  BY <1>1, <1>2, StoreInductive, PTL DEF Spec

\* What tick() commits is the lowest-hop copy heard since the settle began, then
\* the strongest.
THEOREM SettlesTakeTheBest == Spec => []SettlesOnBest
<1>1. Init => CopiesInduct
  BY DEF Init, CopiesInduct, SettlesOnBest
<1>2. StoreInduct /\ CopiesInduct /\ [Next]_vars => CopiesInduct'
  BY CopiesStep
<1>3. CopiesInduct => SettlesOnBest
  BY DEF CopiesInduct
<1> QED
  BY <1>1, <1>2, <1>3, StoreInductive, PTL DEF Spec

\* Keys on record are lost only to the TTL or to a crash before a flush.
THEOREM KeysAreKept == Spec => KeysSurvive
<1>1. StoreInduct /\ [Next]_vars =>
          [\A n \in Nodes : HasKeys(n) => HasKeys(n)' \/ n \in StaleDisk \/ Crash]_vars
  BY KeysStep
<1> QED
  BY <1>1, StoreInductive, PTL DEF Spec, KeysSurvive

\* For those who ask it the route table is one map: whatever is evicted,
\* promoted, buffered, flushed, expired or warmed, a route changes by announces,
\* settles and the TTL alone, and a crash brings back what was saved.
THEOREM TableImplementsMap == Spec => ImplementsMap
<1>1. Init => Map!Init
  <2> SUFFICES ASSUME Init PROVE Map!Init
    OBVIOUS
  <2>1. /\ FoundWay = [n \in Nodes |-> None] /\ SavedWay = [n \in Nodes |-> None]
        /\ HeldWay = [n \in Nodes |-> None]
    BY DEF Init, NoRows, FoundWay, SavedWay, HeldWay, Way, ColdGet
  <2> QED
    BY <2>1 DEF Map!Init
<1>2. StoreInduct /\ StoreInduct' /\ [Next]_vars => [Map!Next]_(Map!vars)
  BY StepMaps
<1> QED
  BY <1>1, <1>2, StoreInductive, PTL DEF Spec, ImplementsMap, Map!Spec

\* Every variable of a route table keeps its type; the hot table and the recency
\* order hold the same nodes, and no more than max_hot.
THEOREM TypeCorrect == Spec => []TypeOK
<1>1. StoreInduct /\ RecencyInduct => TypeOK
  BY DEF StoreInduct, RecencyInduct, TypeOK
<1> QED
  BY <1>1, StoreInductive, RecencyInit, RecencyStep, PTL DEF Spec

\* The comment on RouteTable._hot holds until the process is started again: what
\* leaves the hot table without being stale was used no later than what stays.
THEOREM EvictsInOrderOfUse ==
    Spec => [][up /\ up' /\ restarts = 0 => LeastRecentlyUsedLeaves]_vars
<1>1. Spec => []RecencyInduct
  BY StoreInductive, RecencyInit, RecencyStep, PTL DEF Spec
<1>2. StoreInduct /\ RecencyInduct /\ [Next]_vars =>
         [up /\ up' /\ restarts = 0 => LeastRecentlyUsedLeaves]_vars
  BY RecencyStep
<1> QED
  BY <1>1, <1>2, StoreInductive, PTL DEF Spec

\* What Mesh makes of route tables is what routes.py does: whatever else the table
\* holds, an announce does to the routes to its originator what OriginTable
\* says, a settle commits, and otherwise a route stays, is lost from memory, or
\* is found again as it is on record; if the whole-second stamps of the hot table
\* are finer than FLOOD_GUARD.
THEOREM OriginsStayApart ==
    ASSUME FloodGuard >= TicksPerSecond - 1, NoneIsNoTable
    PROVE  Spec => [][OriginsApart]_vars
<1>1. Spec => []RecencyInduct
  BY StoreInductive, RecencyInit, RecencyStep, PTL DEF Spec
<1>2. StoreInduct /\ StoreInduct' /\ RecencyInduct /\ [Next]_vars => [OriginsApart]_vars
  BY StepApart
<1> QED
  BY <1>1, <1>2, StoreInductive, PTL DEF Spec
=============================================================================
