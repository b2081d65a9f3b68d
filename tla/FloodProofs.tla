---------------------------- MODULE FloodProofs ----------------------------
(***************************************************************************)
(* Proofs about Flood: the cache stays a bounded sequence without          *)
(* duplicates, no packet is relayed twice within what the cache can        *)
(* remember, and of two packets taken at once the weaker leaves first.     *)
(***************************************************************************)
EXTENDS Flood, SequenceTheorems, FiniteSetTheorems, TLAPS

(***************************************************************************)
(* The OrderedDict of SeenCache.                                           *)
(***************************************************************************)
\* Deleting an entry deletes that entry only and keeps the order of the others.
LEMMA WithoutShape ==
    ASSUME NEW s \in Seq(Keys), IsInjective(s), NEW k \in Keys
    PROVE  LET u == Without(s, k) IN
           /\ u \in Seq(Keys)
           /\ Len(u) = IF k \in ToSet(s) THEN Len(s) - 1 ELSE Len(s)
           /\ \A i \in DOMAIN u : u[i] # k
           /\ \A i, j \in DOMAIN u : i < j =>
                 \E a, b \in DOMAIN s : a < b /\ s[a] = u[i] /\ s[b] = u[j]
           /\ \A a \in DOMAIN s : s[a] # k => \E i \in DOMAIN u : u[i] = s[a]
           /\ \A i \in DOMAIN u : \E a \in DOMAIN s : u[i] = s[a]
<1> DEFINE u == Without(s, k)
<1>1. Len(s) \in Nat /\ DOMAIN s = 1..Len(s) /\ \A a \in 1..Len(s) : s[a] \in Keys
  BY LenProperties, ElementOfSeq
<1>2. CASE k \notin ToSet(s)
  <2>1. u = s
    BY <1>2 DEF Without
  <2>2. \A a \in DOMAIN s : s[a] # k
    BY <1>2 DEF ToSet
  <2> HIDE DEF u
  <2> QED
    BY <1>1, <1>2, <2>1, <2>2 DEF u
<1>3. CASE k \in ToSet(s)
  <2> DEFINE p     == Position(s, k)
             left  == SubSeq(s, 1, p - 1)
             right == SubSeq(s, p + 1, Len(s))
  <2>1. p \in DOMAIN s /\ s[p] = k
    <3>1. \E i \in DOMAIN s : s[i] = k
      BY <1>3 DEF ToSet
    <3> QED
      BY <3>1 DEF Position
  <2>2. u = left \o right
    BY <1>3 DEF Without, RemoveAt
  <2> HIDE DEF p, u
  <2>3. p \in 1..Len(s) /\ p \in Nat /\ 1 <= p /\ p <= Len(s)
    BY <1>1, <2>1
  <2>4. /\ left \in Seq(Keys) /\ Len(left) = p - 1
        /\ \A i \in 1..(p - 1) : left[i] = s[i]
    <3>1. \A i \in 1..(p - 1) : s[i] \in Keys
      BY <1>1, <2>3
    <3>2. /\ left \in Seq(Keys)
          /\ Len(left) = IF 1 <= p - 1 THEN (p - 1) - 1 + 1 ELSE 0
          /\ \A i \in 1..((p - 1) - 1 + 1) : left[i] = s[1 + i - 1]
      BY <3>1, <2>3, <1>1, SubSeqProperties
    <3> QED
      BY <3>2, <2>3, <1>1
  <2>5. /\ right \in Seq(Keys) /\ Len(right) = Len(s) - p
        /\ \A i \in 1..(Len(s) - p) : right[i] = s[p + i]
    <3>1. \A i \in (p + 1)..Len(s) : s[i] \in Keys
      BY <1>1, <2>3
    <3>2. /\ right \in Seq(Keys)
          /\ Len(right) = IF p + 1 <= Len(s) THEN Len(s) - (p + 1) + 1 ELSE 0
          /\ \A i \in 1..(Len(s) - (p + 1) + 1) : right[i] = s[(p + 1) + i - 1]
      BY <3>1, <2>3, <1>1, SubSeqProperties
    <3> HIDE DEF right
    <3>3. Len(s) - (p + 1) + 1 = Len(s) - p
      BY <2>3, <1>1
    <3>4. Len(right) = Len(s) - p
      <4>1. CASE p + 1 <= Len(s)
        BY <4>1, <3>2, <3>3
      <4>2. CASE ~(p + 1 <= Len(s))
        <5>1. Len(right) = 0
          BY <4>2, <3>2
        <5>2. Len(s) \in Nat /\ p \in Nat /\ p <= Len(s) /\ ~(p + 1 <= Len(s))
          BY <4>2, <2>3, <1>1
        <5>3. Len(s) - p = 0
          BY ONLY <5>2
        <5> QED
          BY <5>1, <5>3
      <4> QED
        BY <4>1, <4>2
    <3>5. ASSUME NEW i \in 1..(Len(s) - p) PROVE right[i] = s[p + i]
      <4>1. (p + 1) + i - 1 = p + i
        BY <2>3, <1>1
      <4> QED
        BY <4>1, <3>2, <3>3
    <3> QED
      BY <3>2, <3>4, <3>5
  <2> HIDE DEF left, right
  <2>6. /\ u \in Seq(Keys) /\ Len(u) = Len(s) - 1 /\ DOMAIN u = 1..(Len(s) - 1)
        /\ \A i \in 1..(Len(s) - 1) : u[i] = IF i < p THEN s[i] ELSE s[i + 1]
    <3>0. /\ u \in Seq(Keys) /\ Len(u) = Len(left) + Len(right)
          /\ \A i \in 1..(Len(left) + Len(right)) :
                u[i] = IF i <= Len(left) THEN left[i] ELSE right[i - Len(left)]
      BY <2>2, <2>4, <2>5, ConcatProperties
    <3>1. /\ u \in Seq(Keys) /\ Len(u) = (p - 1) + (Len(s) - p)
          /\ \A i \in 1..((p - 1) + (Len(s) - p)) :
                u[i] = IF i <= p - 1 THEN left[i] ELSE right[i - (p - 1)]
      BY <3>0, <2>4, <2>5
    <3>2. DOMAIN u = 1..Len(u)
      BY <3>1, LenProperties
    <3>3. ASSUME NEW i \in 1..(Len(s) - 1), i < p PROVE u[i] = s[i]
      <4>1. i \in 1..(p - 1) /\ i \in 1..((p - 1) + (Len(s) - p))
        BY <1>1, <2>3, <3>3
      <4> QED
        BY <4>1, <3>1, <2>4
    <3>4. ASSUME NEW i \in 1..(Len(s) - 1), ~(i < p) PROVE u[i] = s[i + 1]
      <4>1. /\ i - (p - 1) \in 1..(Len(s) - p) /\ i \in 1..((p - 1) + (Len(s) - p))
            /\ ~(i <= p - 1) /\ p + (i - (p - 1)) = i + 1
        BY <1>1, <2>3, <3>4
      <4> QED
        BY <4>1, <3>1, <2>5
    <3>5. (p - 1) + (Len(s) - p) = Len(s) - 1
      BY <1>1, <2>3
    <3> QED
      BY <3>1, <3>2, <3>3, <3>4, <3>5
  <2> HIDE DEF u
  <2>7. ASSUME NEW i \in DOMAIN u
        PROVE  \E a \in DOMAIN s : a # p /\ u[i] = s[a] /\ (a = i \/ a = i + 1)
    <3>1. CASE i < p
      BY <3>1, <2>6, <1>1, <2>3
    <3>2. CASE ~(i < p)
      <4>1. i + 1 \in DOMAIN s /\ i + 1 # p
        BY <3>2, <2>6, <1>1, <2>3
      <4> QED
        BY <4>1, <3>2, <2>6
    <3> QED
      BY <3>1, <3>2
  <2>8. ASSUME NEW i \in DOMAIN u PROVE u[i] # k
    BY <2>7, <2>1 DEF IsInjective
  <2>9. ASSUME NEW i \in DOMAIN u, NEW j \in DOMAIN u, i < j
        PROVE  \E a, b \in DOMAIN s : a < b /\ s[a] = u[i] /\ s[b] = u[j]
    <3> DEFINE a == IF i < p THEN i ELSE i + 1
               b == IF j < p THEN j ELSE j + 1
    <3>1. a \in DOMAIN s /\ b \in DOMAIN s /\ a < b
      BY <2>6, <2>9, <1>1, <2>3
    <3>2. u[i] = s[a] /\ u[j] = s[b]
      BY <2>6
    <3> QED
      BY <3>1, <3>2
  <2>10. ASSUME NEW a \in DOMAIN s, s[a] # k PROVE \E i \in DOMAIN u : u[i] = s[a]
    <3> DEFINE i == IF a < p THEN a ELSE a - 1
    <3>1. a # p
      BY <2>10, <2>1
    <3>2. i \in 1..(Len(s) - 1) /\ (IF i < p THEN i ELSE i + 1) = a
      BY <3>1, <1>1, <2>3
    <3> QED
      BY <3>2, <2>6
  <2> QED
    BY <1>3, <2>6, <2>7, <2>8, <2>9, <2>10 DEF u
<1> QED
  BY <1>2, <1>3

\* A key that is used stands last, and the others keep their order.
LEMMA MoveToEndShape ==
    ASSUME NEW s \in Seq(Keys), IsInjective(s), NEW k \in Keys
    PROVE  LET t == MoveToEnd(s, k) IN
           /\ t \in Seq(Keys) /\ IsInjective(t)
           /\ Len(t) = IF k \in ToSet(s) THEN Len(s) ELSE Len(s) + 1
           /\ ToSet(t) = ToSet(s) \cup {k}
           /\ t[Len(t)] = k
           /\ \A i, j \in DOMAIN t : i < j =>
                 \/ t[j] = k /\ t[i] # k
                 \/ \E a, b \in DOMAIN s : a < b /\ s[a] = t[i] /\ s[b] = t[j]
<1> DEFINE u == Without(s, k)
           t == MoveToEnd(s, k)
<1>1. /\ u \in Seq(Keys)
      /\ Len(u) = IF k \in ToSet(s) THEN Len(s) - 1 ELSE Len(s)
      /\ \A i \in DOMAIN u : u[i] # k
      /\ \A i, j \in DOMAIN u : i < j =>
            \E a, b \in DOMAIN s : a < b /\ s[a] = u[i] /\ s[b] = u[j]
      /\ \A a \in DOMAIN s : s[a] # k => \E i \in DOMAIN u : u[i] = s[a]
      /\ \A i \in DOMAIN u : \E a \in DOMAIN s : u[i] = s[a]
  BY WithoutShape
<1>2. t = Append(u, k)
  BY DEF MoveToEnd
<1> HIDE DEF u, t
<1>3. Len(u) \in Nat /\ DOMAIN u = 1..Len(u) /\ Len(s) \in Nat /\ DOMAIN s = 1..Len(s)
  BY <1>1, LenProperties
<1>4. /\ t \in Seq(Keys) /\ Len(t) = Len(u) + 1 /\ t[Len(t)] = k
      /\ \A i \in 1..Len(u) : t[i] = u[i]
  BY <1>1, <1>2, AppendProperties
<1>5. DOMAIN t = 1..(Len(u) + 1)
  BY <1>4, LenProperties
<1>6. ASSUME NEW i \in DOMAIN t, NEW j \in DOMAIN t, i < j
      PROVE  \/ t[j] = k /\ t[i] # k
             \/ \E a, b \in DOMAIN s : a < b /\ s[a] = t[i] /\ s[b] = t[j]
  <2>1. i \in DOMAIN u /\ t[i] = u[i]
    BY <1>3, <1>4, <1>5, <1>6
  <2>2. CASE j = Len(u) + 1
    BY <2>1, <2>2, <1>1, <1>4
  <2>3. CASE j # Len(u) + 1
    <3>1. j \in DOMAIN u /\ t[j] = u[j]
      BY <2>3, <1>3, <1>4, <1>5
    <3> QED
      BY <3>1, <2>1, <1>1, <1>6
  <2> QED
    BY <2>2, <2>3
<1>7. IsInjective(t)
  <2>1. ASSUME NEW i \in DOMAIN t, NEW j \in DOMAIN t, i < j PROVE t[i] # t[j]
    <3>1. CASE t[j] = k /\ t[i] # k
      BY <3>1
    <3>2. CASE \E a, b \in DOMAIN s : a < b /\ s[a] = t[i] /\ s[b] = t[j]
      <4>1. PICK a \in DOMAIN s, b \in DOMAIN s : a < b /\ s[a] = t[i] /\ s[b] = t[j]
        BY <3>2
      <4>2. a # b
        BY <4>1, <1>3
      <4> QED
        BY <4>1, <4>2 DEF IsInjective
    <3> QED
      BY <3>1, <3>2, <1>6, <2>1
  <2>2. \A i, j \in DOMAIN t : i = j \/ i < j \/ j < i
    BY <1>3, <1>5
  <2> QED
    BY <2>1, <2>2 DEF IsInjective
<1>8. ToSet(t) = ToSet(s) \cup {k}
  <2>1. ASSUME NEW i \in DOMAIN t PROVE t[i] \in ToSet(s) \cup {k}
    <3>1. CASE i = Len(u) + 1
      BY <3>1, <1>4
    <3>2. CASE i # Len(u) + 1
      <4>1. i \in DOMAIN u /\ t[i] = u[i]
        BY <3>2, <1>3, <1>4, <1>5
      <4> QED
        BY <4>1, <1>1 DEF ToSet
    <3> QED
      BY <3>1, <3>2
  <2>2. ASSUME NEW a \in DOMAIN s, s[a] # k PROVE \E i \in DOMAIN t : t[i] = s[a]
    <3>1. PICK i \in DOMAIN u : u[i] = s[a]
      BY <2>2, <1>1
    <3>2. i \in DOMAIN t /\ t[i] = u[i]
      BY <1>3, <1>4, <1>5
    <3> QED
      BY <3>1, <3>2
  <2>3. \E i \in DOMAIN t : t[i] = k
    <3>1. Len(t) \in DOMAIN t
      BY <1>3, <1>4, <1>5
    <3> QED
      BY <3>1, <1>4
  <2> QED
    BY <2>1, <2>2, <2>3 DEF ToSet
<1>9. Len(t) = IF k \in ToSet(s) THEN Len(s) ELSE Len(s) + 1
  <2>1. CASE k \in ToSet(s)
    <3>1. Len(u) = Len(s) - 1
      BY <2>1, <1>1
    <3> QED
      BY <3>1, <2>1, <1>3, <1>4
  <2>2. CASE k \notin ToSet(s)
    BY <2>2, <1>1, <1>3, <1>4
  <2> QED
    BY <2>1, <2>2
<1> QED
  BY <1>4, <1>6, <1>7, <1>8, <1>9 DEF t

\* An entry that is pushed out has had as many others used since as the cache holds.
LEMMA PushedOut ==
    ASSUME NEW t \in Seq(Keys), IsInjective(t), Len(t) = SeenCapacity + 1,
           NEW g \in [Keys -> SUBSET Keys],
           \A i \in DOMAIN t : 1 < i => t[i] \in g[t[1]]
    PROVE  Cardinality(g[t[1]]) >= SeenCapacity
<1> DEFINE f == [i \in 1..SeenCapacity |-> t[i + 1]]
<1>1. SeenCapacity \in Nat /\ DOMAIN t = 1..(SeenCapacity + 1)
  BY BoundsAssumption, LenProperties
<1>2. t[1] \in Keys
  BY <1>1, ElementOfSeq
<1>3. \A i \in 1..SeenCapacity : i + 1 \in DOMAIN t /\ 1 \in DOMAIN t /\ 1 < i + 1
  BY <1>1
<1>4. f \in [1..SeenCapacity -> g[t[1]]]
  BY <1>3
<1>5. \A i, j \in 1..SeenCapacity : t[i + 1] = t[j + 1] => i = j
  <2>1. \A i, j \in 1..SeenCapacity : i + 1 = j + 1 => i = j
    BY <1>1
  <2> QED
    BY <2>1, <1>3 DEF IsInjective
<1>6. f \in Injection(1..SeenCapacity, g[t[1]])
  <2>1. IsInjective(f)
    BY <1>5 DEF IsInjective
  <2> HIDE DEF f
  <2> QED
    BY <2>1, <1>4 DEF Injection
<1>7. IsFiniteSet(g[t[1]])
  BY <1>2, KeysAssumption, FS_Subset
<1>8. Cardinality(1..SeenCapacity) <= Cardinality(g[t[1]])
  BY <1>6, <1>7, FS_Injection
<1>9. Cardinality(1..SeenCapacity) = SeenCapacity
  <2>1. Cardinality(1..SeenCapacity) = IF 1 > SeenCapacity THEN 0 ELSE SeenCapacity - 1 + 1
    BY <1>1, FS_Interval
  <2> QED
    BY <2>1, BoundsAssumption
<1>10. Cardinality(g[t[1]]) \in Nat
  BY <1>7, FS_CardinalityType
<1> QED
  BY <1>1, <1>8, <1>9, <1>10

\* What the cache holds after a key is added: all but the oldest, if it was full.
LEMMA RememberShape ==
    ASSUME NEW s \in Seq(Keys), IsInjective(s), Len(s) <= SeenCapacity, NEW k \in Keys
    PROVE  LET t == MoveToEnd(s, k)
               r == Remember(s, k)
           IN  /\ r \in Seq(Keys) /\ IsInjective(r) /\ Len(r) <= SeenCapacity
               /\ k \in ToSet(r)
               /\ \/ r = t
                  \/ /\ Len(t) = SeenCapacity + 1
                     /\ ToSet(t) = ToSet(r) \cup {t[1]}
                     /\ DOMAIN r = 1..SeenCapacity
                     /\ \A i \in DOMAIN r : i + 1 \in DOMAIN t /\ r[i] = t[i + 1]
<1> DEFINE t == MoveToEnd(s, k)
           r == Remember(s, k)
<1>1. /\ t \in Seq(Keys) /\ IsInjective(t)
      /\ Len(t) = IF k \in ToSet(s) THEN Len(s) ELSE Len(s) + 1
      /\ ToSet(t) = ToSet(s) \cup {k} /\ t[Len(t)] = k
  BY MoveToEndShape
<1>2. r = IF Len(t) > SeenCapacity THEN Tail(t) ELSE t
  BY DEF Remember
<1>3. Len(s) \in Nat /\ SeenCapacity \in Nat /\ SeenCapacity >= 1
  BY LenProperties, BoundsAssumption
<1> HIDE DEF t, r
<1>4. Len(t) \in Nat /\ DOMAIN t = 1..Len(t)
  BY <1>1, LenProperties
<1>5. CASE ~(Len(t) > SeenCapacity)
  <2>1. r = t /\ Len(r) <= SeenCapacity
    BY <1>5, <1>2, <1>3, <1>4
  <2> QED
    BY <2>1, <1>1 DEF t, r
<1>6. CASE Len(t) > SeenCapacity
  <2>1. Len(t) = SeenCapacity + 1
    <3>1. Len(t) = Len(s) \/ Len(t) = Len(s) + 1
      BY <1>1
    <3> QED
      BY <3>1, <1>6, <1>3
  <2>2. t # <<>>
    BY <2>1, <1>3, <1>1, EmptySeq
  <2>3. /\ r \in Seq(Keys) /\ Len(r) = Len(t) - 1
        /\ \A i \in 1..Len(r) : r[i] = t[i + 1]
    BY <1>6, <1>2, <1>1, <2>2, HeadTailProperties
  <2>4. DOMAIN r = 1..SeenCapacity /\ Len(r) = SeenCapacity
    BY <2>1, <2>3, <1>3, LenProperties
  <2>5. \A i \in DOMAIN r : i + 1 \in DOMAIN t /\ r[i] = t[i + 1]
    BY <2>1, <2>3, <2>4, <1>3, <1>4
  <2>6. IsInjective(r)
    <3>1. \A i, j \in 1..SeenCapacity : i + 1 = j + 1 => i = j
      BY <1>3
    <3> QED
      BY <3>1, <2>4, <2>5, <1>1 DEF IsInjective
  <2>7. ToSet(t) = ToSet(r) \cup {t[1]}
    <3>1. \A i \in DOMAIN t : i = 1 \/ (i - 1 \in DOMAIN r /\ (i - 1) + 1 = i)
      BY <2>1, <2>4, <1>3, <1>4
    <3>2. 1 \in DOMAIN t
      BY <2>1, <1>3, <1>4
    <3>3. \A i \in DOMAIN t : i = 1 \/ \E j \in DOMAIN r : r[j] = t[i]
      BY <3>1, <2>5
    <3> QED
      BY <3>2, <3>3, <2>5 DEF ToSet
  <2>8. k \in ToSet(r)
    <3>1. SeenCapacity \in DOMAIN r /\ SeenCapacity + 1 = Len(t)
      BY <2>1, <2>4, <1>3
    <3>2. r[SeenCapacity] = k
      BY <3>1, <2>5, <1>1
    <3> QED
      BY <3>1, <3>2 DEF ToSet
  <2>9. Len(r) <= SeenCapacity
    BY <2>4, <1>3
  <2> QED
    BY <2>1, <2>3, <2>4, <2>5, <2>6, <2>7, <2>8, <2>9 DEF t, r
<1> QED
  BY <1>5, <1>6

(***************************************************************************)
(* relay_delay                                                             *)
(***************************************************************************)
\* Every signal falls into a band: the last one has no upper end.
LEMMA BandOfASignal ==
    ASSUME NEW rssi \in Int
    PROVE  /\ BandOf(rssi) \in 1..6
           /\ BandOf(rssi) = 6 \/ rssi <= DelayBands[BandOf(rssi)].upTo
           /\ \A j \in 1..(BandOf(rssi) - 1) : rssi > DelayBands[j].upTo
<1> DEFINE Fits(i) == /\ i = 6 \/ rssi <= DelayBands[i].upTo
                      /\ \A j \in 1..(i - 1) : rssi > DelayBands[j].upTo
<1>1. DOMAIN DelayBands = 1..6 /\ Len(DelayBands) = 6
  BY DEF DelayBands
<1>2. /\ DelayBands[1].upTo = -95 /\ DelayBands[2].upTo = -80 /\ DelayBands[3].upTo = -70
      /\ DelayBands[4].upTo = -60 /\ DelayBands[5].upTo = -50
  BY DEF DelayBands, Band
<1>3. \E i \in 1..6 : Fits(i)
  <2>1. CASE rssi <= -95
    <3>1. Fits(1)
      BY <2>1, <1>2
    <3> QED
      BY <3>1
  <2>2. CASE rssi > -95 /\ rssi <= -80
    <3>1. Fits(2)
      BY <2>2, <1>2
    <3> QED
      BY <3>1
  <2>3. CASE rssi > -80 /\ rssi <= -70
    <3>1. Fits(3)
      BY <2>3, <1>2
    <3> QED
      BY <3>1
  <2>4. CASE rssi > -70 /\ rssi <= -60
    <3>1. Fits(4)
      BY <2>4, <1>2
    <3> QED
      BY <3>1
  <2>5. CASE rssi > -60 /\ rssi <= -50
    <3>1. Fits(5)
      BY <2>5, <1>2
    <3> QED
      BY <3>1
  <2>6. CASE rssi > -50
    <3>1. Fits(6)
      BY <2>6, <1>2
    <3> QED
      BY <3>1
  <2> QED
    BY <2>1, <2>2, <2>3, <2>4, <2>5, <2>6
<1>4. BandOf(rssi) = CHOOSE i \in 1..6 : Fits(i)
  BY <1>1 DEF BandOf
<1> HIDE DEF Fits
<1>5. BandOf(rssi) \in 1..6 /\ Fits(BandOf(rssi))
  BY <1>3, <1>4
<1> QED
  BY <1>5 DEF Fits

\* The bands do not overlap: five milliseconds at least lie between two of them.
LEMMA BandsAreApart ==
    /\ \A i \in 1..6 : DelayBands[i].waits \subseteq Nat
    /\ \A i, j \in 1..6 : i < j =>
          \A a \in DelayBands[i].waits, b \in DelayBands[j].waits : a + 5 <= b
<1>1. /\ DelayBands[1].waits = 10..15   /\ DelayBands[2].waits = 20..35
      /\ DelayBands[3].waits = 50..70   /\ DelayBands[4].waits = 90..107
      /\ DelayBands[5].waits = 125..155 /\ DelayBands[6].waits = 200..230
  BY DEF DelayBands, Band
<1>2. \A i \in 1..6 : i = 1 \/ i = 2 \/ i = 3 \/ i = 4 \/ i = 5 \/ i = 6
  OBVIOUS
<1>3. ASSUME NEW i \in 1..6, NEW a \in DelayBands[i].waits
      PROVE  /\ a \in Nat
             /\ i = 1 => a <= 15
             /\ i = 2 => a >= 20 /\ a <= 35
             /\ i = 3 => a >= 50 /\ a <= 70
             /\ i = 4 => a >= 90 /\ a <= 107
             /\ i = 5 => a >= 125 /\ a <= 155
             /\ i = 6 => a >= 200
  BY <1>1, <1>2
<1>4. ASSUME NEW i \in 1..6, NEW j \in 1..6, i < j,
             NEW a \in DelayBands[i].waits, NEW b \in DelayBands[j].waits
      PROVE  a + 5 <= b
  BY <1>3, <1>4
<1> QED
  BY <1>3, <1>4

\* Rounded up to ticks, a delay is a number of ticks.
LEMMA DelaysAreTicks ==
    ASSUME NEW rssi \in Signals
    PROVE  RelayDelays(rssi) \subseteq Nat
<1>1. Contention(rssi) \subseteq Nat
  <2>1. CASE rssi = NoSignal
    BY <2>1 DEF Contention
  <2>2. CASE rssi # NoSignal
    <3>1. rssi \in Int
      BY <2>2, BoundsAssumption
    <3> QED
      BY <2>2, <3>1, BandOfASignal, BandsAreApart DEF Contention
  <2> QED
    BY <2>1, <2>2
<1>2. ASSUME NEW ms \in Nat PROVE (ms + TickMs - 1) \div TickMs \in Nat
  <2>1. TickMs \in Nat /\ TickMs >= 1 /\ ms + TickMs - 1 \in Nat
    BY BoundsAssumption
  <2> QED
    BY <2>1
<1> QED
  BY <1>1, <1>2 DEF RelayDelays

(***************************************************************************)
(* The cache in a step.                                                    *)
(***************************************************************************)
CacheOK ==
    /\ seen \in Seq(Keys) /\ IsInjective(seen) /\ Len(seen) <= SeenCapacity
    /\ stamp \in [Keys -> Nat]
    /\ known \subseteq Keys
    /\ since \in [Keys -> SUBSET Keys]

\* A hit keeps the cache's type, its order and what it holds.
LEMMA HitKeepsCache ==
    ASSUME CacheOK, NEW k \in Keys, Used(k), k \in Cached, seen' = MoveToEnd(seen, k),
           UNCHANGED <<stamp, known>>
    PROVE  CacheOK'
<1>1. /\ seen' \in Seq(Keys) /\ IsInjective(seen') /\ Len(seen') = Len(seen)
  BY MoveToEndShape DEF CacheOK, Cached
<1>2. since' \in [Keys -> SUBSET Keys]
  BY DEF CacheOK, Used
<1> QED
  BY <1>1, <1>2 DEF CacheOK

LEMMA AddKeepsCache ==
    ASSUME CacheOK, now \in Nat, NEW k \in Keys, AddToCache(k)
    PROVE  CacheOK'
<1>1. seen' \in Seq(Keys) /\ IsInjective(seen') /\ Len(seen') <= SeenCapacity
  BY RememberShape DEF CacheOK, AddToCache
<1>2. since' \in [Keys -> SUBSET Keys]
  BY DEF CacheOK, AddToCache, Used
<1>3. stamp' \in [Keys -> Nat] /\ known' \subseteq Keys
  BY DEF CacheOK, AddToCache
<1> QED
  BY <1>1, <1>2, <1>3 DEF CacheOK

\* Once a key is used, whatever stands later in the order was used since.
LEMMA UseKeepsOrder ==
    ASSUME CacheOK, UsedSince, NEW k \in Keys, Used(k)
    PROVE  LET t == MoveToEnd(seen, k) IN
           \A i, j \in DOMAIN t : i < j => t[j] \in since'[t[i]]
<1> DEFINE t == MoveToEnd(seen, k)
<1>1. /\ t \in Seq(Keys) /\ IsInjective(t) /\ t[Len(t)] = k
      /\ \A i, j \in DOMAIN t : i < j =>
            \/ t[j] = k /\ t[i] # k
            \/ \E a, b \in DOMAIN seen : a < b /\ seen[a] = t[i] /\ seen[b] = t[j]
  BY MoveToEndShape DEF CacheOK
<1> HIDE DEF t
<1>2. Len(t) \in Nat /\ DOMAIN t = 1..Len(t)
  BY <1>1, LenProperties
<1> SUFFICES ASSUME NEW i \in DOMAIN t, NEW j \in DOMAIN t, i < j
             PROVE  t[j] \in since'[t[i]]
  BY DEF t
<1>3. t[i] \in Keys
  BY <1>1, <1>2, ElementOfSeq
<1>4. t[i] # k
  <2>1. Len(t) \in DOMAIN t /\ i # Len(t)
    BY <1>2
  <2> QED
    BY <2>1, <1>1 DEF IsInjective
<1>5. since'[t[i]] = since[t[i]] \cup {k}
  BY <1>3, <1>4 DEF Used
<1>6. CASE t[j] = k
  BY <1>5, <1>6
<1>7. CASE \E a, b \in DOMAIN seen : a < b /\ seen[a] = t[i] /\ seen[b] = t[j]
  BY <1>5, <1>7 DEF UsedSince
<1> QED
  BY <1>1, <1>6, <1>7

\* Of what was used since another key, nothing is forgotten.
LEMMA MoreUsed ==
    ASSUME CacheOK, NEW k \in Keys, Used(k), NEW j \in Keys, j # k,
           Cardinality(since[j]) >= SeenCapacity
    PROVE  Cardinality(since'[j]) >= SeenCapacity
<1>1. since'[j] = since[j] \cup {k} /\ since'[j] \subseteq Keys
  BY DEF CacheOK, Used
<1>2. IsFiniteSet(since'[j])
  BY <1>1, KeysAssumption, FS_Subset
<1>3. /\ Cardinality(since[j]) <= Cardinality(since'[j]) /\ IsFiniteSet(since[j])
  BY <1>1, <1>2, FS_Subset
<1>4. Cardinality(since[j]) \in Nat /\ Cardinality(since'[j]) \in Nat /\ SeenCapacity \in Nat
  BY <1>2, <1>3, FS_CardinalityType, BoundsAssumption
<1> QED
  BY <1>3, <1>4

LEMMA HitKeepsOrder ==
    ASSUME CacheOK, UsedSince, LostUnderPressure, NEW k \in Keys, Used(k), k \in Cached,
           seen' = MoveToEnd(seen, k), UNCHANGED known
    PROVE  UsedSince' /\ LostUnderPressure'
<1>1. UsedSince'
  BY UseKeepsOrder DEF UsedSince
<1>2. Cached' = Cached
  <2>1. ToSet(seen') = ToSet(seen) \cup {k}
    BY MoveToEndShape DEF CacheOK
  <2>2. Cached' = ToSet(seen')
    BY DEF Cached
  <2> QED
    BY <2>1, <2>2 DEF Cached
<1>3. ASSUME NEW j \in known, j \notin Cached
      PROVE  Cardinality(since'[j]) >= SeenCapacity
  BY <1>3, MoreUsed DEF CacheOK, LostUnderPressure
<1> QED
  BY <1>1, <1>2, <1>3 DEF LostUnderPressure

LEMMA AddKeepsOrder ==
    ASSUME CacheOK, UsedSince, LostUnderPressure, NEW k \in Keys, AddToCache(k)
    PROVE  UsedSince' /\ LostUnderPressure'
<1> DEFINE t == MoveToEnd(seen, k)
<1>0. Used(k) /\ seen' = Remember(seen, k) /\ known' = known \cup {k}
  BY DEF AddToCache
<1>1. /\ t \in Seq(Keys) /\ IsInjective(t) /\ ToSet(t) = Cached \cup {k}
  BY MoveToEndShape DEF CacheOK, Cached
<1>2. \A i, j \in DOMAIN t : i < j => t[j] \in since'[t[i]]
  BY <1>0, UseKeepsOrder
<1>3. /\ k \in ToSet(seen')
      /\ \/ seen' = t
         \/ /\ Len(t) = SeenCapacity + 1
            /\ ToSet(t) = ToSet(seen') \cup {t[1]}
            /\ DOMAIN seen' = 1..SeenCapacity
            /\ \A i \in DOMAIN seen' : i + 1 \in DOMAIN t /\ seen'[i] = t[i + 1]
  BY <1>0, RememberShape DEF CacheOK
<1>4. since' \in [Keys -> SUBSET Keys] /\ known \subseteq Keys
  BY <1>0 DEF CacheOK, Used
<1>5. Cached' = ToSet(seen')
  BY DEF Cached
<1> HIDE DEF t
<1>6. ASSUME NEW j \in known, j \notin Cached, j # k
      PROVE  Cardinality(since'[j]) >= SeenCapacity
  BY <1>6, <1>0, <1>4, MoreUsed DEF LostUnderPressure
<1>7. CASE seen' = t
  <2>1. UsedSince'
    BY <1>7, <1>2 DEF UsedSince
  <2>2. LostUnderPressure'
    BY <1>7, <1>0, <1>1, <1>5, <1>6 DEF LostUnderPressure
  <2> QED
    BY <2>1, <2>2
<1>8. CASE /\ Len(t) = SeenCapacity + 1
           /\ ToSet(t) = ToSet(seen') \cup {t[1]}
           /\ DOMAIN seen' = 1..SeenCapacity
           /\ \A i \in DOMAIN seen' : i + 1 \in DOMAIN t /\ seen'[i] = t[i + 1]
  <2>1. UsedSince'
    <3>1. \A i, j \in DOMAIN seen' : i < j => i + 1 < j + 1
      BY <1>8, BoundsAssumption
    <3>2. \A i, j \in DOMAIN seen' : i < j => seen'[j] \in since'[seen'[i]]
      BY <3>1, <1>8, <1>2
    <3> QED
      BY <3>2 DEF UsedSince
  <2>2. Cardinality(since'[t[1]]) >= SeenCapacity
    <3>1. 1 \in DOMAIN t
      <4>1. DOMAIN t = 1..Len(t)
        BY <1>1, LenProperties
      <4> QED
        BY <4>1, <1>8, BoundsAssumption
    <3>2. \A i \in DOMAIN t : 1 < i => t[i] \in since'[t[1]]
      BY <3>1, <1>2
    <3> QED
      BY <3>2, <1>8, <1>1, <1>4, PushedOut
  <2>3. \A j \in known' : j \in ToSet(seen') \/ j = t[1] \/ (j \in known /\ j \notin Cached /\ j # k)
    BY <1>0, <1>1, <1>3, <1>8
  <2>4. LostUnderPressure'
    BY <2>2, <2>3, <1>5, <1>6 DEF LostUnderPressure
  <2> QED
    BY <2>1, <2>4
<1> QED
  BY <1>3, <1>7, <1>8

(***************************************************************************)
(* Types                                                                   *)
(***************************************************************************)
TablesOK ==
    /\ now \in Nat
    /\ pending \in [Keys -> Waiting \cup {NoRelay}]
    /\ relays \in [Keys -> 0..2]

LEMMA TypeParts == TypeOK <=> CacheOK /\ TablesOK
BY DEF TypeOK, CacheOK, TablesOK

LEMMA InitType == Init => TypeOK
<1> SUFFICES ASSUME Init PROVE TypeOK
  OBVIOUS
<1>1. seen \in Seq(Keys) /\ Len(seen) = 0 /\ IsInjective(seen)
  <2>1. seen = <<>> /\ DOMAIN seen = {}
    BY DEF Init
  <2> QED
    BY <2>1, EmptySeq DEF IsInjective
<1>2. CacheOK
  BY <1>1, BoundsAssumption DEF Init, CacheOK
<1>3. TablesOK
  BY DEF Init, TablesOK
<1> QED
  BY <1>2, <1>3, TypeParts

\* Sending counts each packet that leaves, up to two.
LEMMA DueTables ==
    ASSUME TablesOK, Due
    PROVE  TablesOK'
<1>1. pending' \in [Keys -> Waiting \cup {NoRelay}]
  BY DEF TablesOK, Due
<1>2. relays' \in [Keys -> 0..2]
  <2>1. \A k \in Keys : relays[k] \in 0..2 /\ (relays[k] < 2 => relays[k] + 1 \in 0..2)
    BY DEF TablesOK
  <2> QED
    BY <2>1 DEF Due
<1> QED
  BY <1>1, <1>2 DEF TablesOK, Due

LEMMA ScheduleTables ==
    ASSUME TablesOK, NEW k \in Keys, NEW hops \in 0..MaxHops, NEW rssi \in Signals,
           ScheduleRelay(k, hops, rssi)
    PROVE  TablesOK'
<1>1. PICK d \in RelayDelays(rssi) :
         pending' = [pending EXCEPT
            ![k] = [hops |-> hops - 1, sendAt |-> now + d, heard |-> 0, rssi |-> rssi]]
  BY DEF ScheduleRelay
<1>2. hops - 1 \in 0..MaxHops
  BY BoundsAssumption DEF ScheduleRelay
<1>3. now + d \in Nat
  BY DelaysAreTicks DEF TablesOK
<1>4. 0 \in 0..(Threshold - 1)
  BY BoundsAssumption
<1>5. [hops |-> hops - 1, sendAt |-> now + d, heard |-> 0, rssi |-> rssi] \in Waiting
  BY <1>2, <1>3, <1>4 DEF Waiting
<1>6. pending' \in [Keys -> Waiting \cup {NoRelay}]
  BY <1>1, <1>5 DEF TablesOK
<1>7. relays' \in [Keys -> 0..2]
  BY DEF TablesOK, ScheduleRelay, Accept
<1> QED
  BY <1>6, <1>7 DEF TablesOK, ScheduleRelay

LEMMA CountTables ==
    ASSUME TablesOK, NEW k \in Keys, CountCopy(k)
    PROVE  TablesOK'
<1>1. pending[k] \in Waiting
  BY DEF TablesOK, CountCopy
<1>2. pending[k].heard + 1 \in 0..(Threshold - 1)
  BY <1>1, BoundsAssumption DEF CountCopy, Waiting
<1>3. [pending[k] EXCEPT !.heard = @ + 1] \in Waiting
  BY <1>1, <1>2 DEF Waiting
<1>4. pending' = [pending EXCEPT ![k] = [pending[k] EXCEPT !.heard = @ + 1]]
  BY DEF CountCopy
<1>5. pending' \in [Keys -> Waiting \cup {NoRelay}]
  BY <1>3, <1>4 DEF TablesOK
<1> QED
  BY <1>5 DEF TablesOK, CountCopy

LEMMA NextType == TypeOK /\ [Next]_vars => TypeOK'
<1> SUFFICES ASSUME CacheOK, TablesOK, [Next]_vars PROVE CacheOK' /\ TablesOK'
  <2>1. TypeOK' <=> CacheOK' /\ TablesOK'
    BY DEF TypeOK, CacheOK, TablesOK
  <2> QED
    BY <2>1, TypeParts
<1>1. ASSUME NEW k \in Keys, HearOwn(k) PROVE CacheOK' /\ TablesOK'
  BY <1>1 DEF HearOwn, CacheOK, TablesOK
<1>2. ASSUME NEW k \in Keys, CountCopy(k) PROVE CacheOK' /\ TablesOK'
  <2>1. CacheOK'
    BY <1>2 DEF CountCopy, CacheOK
  <2> QED
    BY <1>2, <2>1, CountTables
<1>3. ASSUME NEW k \in Keys, CancelRelay(k) PROVE CacheOK' /\ TablesOK'
  BY <1>3 DEF CancelRelay, CacheOK, TablesOK
<1>4. ASSUME NEW k \in Keys, HearAgain(k) PROVE CacheOK' /\ TablesOK'
  <2>1. CacheOK'
    BY <1>4, HitKeepsCache DEF HearAgain, Remembered
  <2> QED
    BY <1>4, <2>1 DEF HearAgain, TablesOK
<1>5. ASSUME NEW k \in Keys, NEW hops \in 0..MaxHops, AcceptLastHop(k, hops)
      PROVE  CacheOK' /\ TablesOK'
  <2>1. CacheOK'
    BY <1>5, AddKeepsCache DEF AcceptLastHop, Accept, TablesOK
  <2> QED
    BY <1>5, <2>1 DEF AcceptLastHop, Accept, TablesOK
<1>6. ASSUME NEW k \in Keys, NEW hops \in 0..MaxHops, NEW rssi \in Signals,
             ScheduleRelay(k, hops, rssi)
      PROVE  CacheOK' /\ TablesOK'
  <2>1. CacheOK'
    BY <1>6, AddKeepsCache DEF ScheduleRelay, Accept, TablesOK
  <2> QED
    BY <1>6, <2>1, ScheduleTables
<1>7. ASSUME NEW k \in Keys, SendAnnounce(k) PROVE CacheOK' /\ TablesOK'
  <2>1. CacheOK'
    BY <1>7, AddKeepsCache DEF SendAnnounce, TablesOK
  <2> QED
    BY <1>7, <2>1 DEF SendAnnounce, TablesOK
<1>8. CASE Due
  <2>1. CacheOK'
    BY <1>8 DEF Due, CacheOK
  <2> QED
    BY <1>8, <2>1, DueTables
<1>9. CASE PassTime
  BY <1>9 DEF PassTime, CacheOK, TablesOK
<1>10. CASE UNCHANGED vars
  BY <1>10 DEF vars, CacheOK, TablesOK
<1> QED
  BY <1>1, <1>2, <1>3, <1>4, <1>5, <1>6, <1>7, <1>8, <1>9, <1>10 DEF Next

\* However often the flooder is called, and when: no fairness is needed, so that
\* this holds of any loop that calls it, too.
THEOREM CallsKeepTypes == Init /\ [][Next]_vars => []TypeOK
BY InitType, NextType, PTL

\* Every variable of the flooder keeps its type, and the cache of SeenCache.add
\* stays within its capacity and holds no key twice, for any keys and bounds.
THEOREM TypeCorrect == Spec => []TypeOK
BY CallsKeepTypes, PTL DEF Spec

(***************************************************************************)
(* Relaying once                                                           *)
(***************************************************************************)
\* What the cache has lost, it was entitled to lose.
LEMMA UnrememberedIsForgettable ==
    ASSUME TypeOK, LostUnderPressure, NEW k \in Keys, ~Remembered(k)
    PROVE  Forgettable(k)
<1>1. now \in Int /\ stamp[k] \in Int /\ SeenTTL \in Int
  BY BoundsAssumption DEF TypeOK
<1>2. CASE k \in Cached
  <2>1. now - stamp[k] > SeenTTL
    BY <1>1, <1>2 DEF Remembered
  <2> QED
    BY <2>1 DEF Forgettable
<1>3. CASE k \notin Cached
  BY <1>3 DEF LostUnderPressure, Forgettable
<1> QED
  BY <1>2, <1>3

LEMMA InitRelayInduct == Init => RelayInduct
<1> SUFFICES ASSUME Init PROVE RelayInduct
  OBVIOUS
<1>1. DOMAIN seen = {} /\ known = {}
  BY DEF Init
<1>2. WaitsForTheFirst /\ RelayOnce
  BY DEF Init, WaitsForTheFirst, RelayOnce
<1> QED
  BY <1>1, <1>2 DEF RelayInduct, UsedSince, LostUnderPressure

LEMMA NextRelayInduct == TypeOK /\ RelayInduct /\ [Next]_vars => RelayInduct'
<1> SUFFICES ASSUME TypeOK, RelayInduct, [Next]_vars
             PROVE  UsedSince' /\ LostUnderPressure' /\ WaitsForTheFirst' /\ RelayOnce'
  BY DEF RelayInduct
<1> USE DEF RelayInduct
<1>0. CacheOK /\ TablesOK /\ UsedSince /\ LostUnderPressure /\ WaitsForTheFirst /\ RelayOnce
  BY TypeParts
<1>1. ASSUME UNCHANGED <<seen, known, since>> PROVE UsedSince' /\ LostUnderPressure'
  BY <1>0, <1>1 DEF UsedSince, LostUnderPressure, Cached
<1>2. ASSUME NEW k \in Keys, UNCHANGED relays,
             \A j \in Keys : j # k => pending'[j] = pending[j],
             pending'[k] # NoRelay => pending[k] # NoRelay
      PROVE  WaitsForTheFirst' /\ RelayOnce'
  BY <1>0, <1>2 DEF WaitsForTheFirst, RelayOnce
<1>3. ASSUME UNCHANGED <<pending, relays>> PROVE WaitsForTheFirst' /\ RelayOnce'
  BY <1>0, <1>3 DEF WaitsForTheFirst, RelayOnce
<1>4. ASSUME NEW k \in Keys, HearOwn(k) \/ CountCopy(k) \/ CancelRelay(k)
      PROVE  UsedSince' /\ LostUnderPressure' /\ WaitsForTheFirst' /\ RelayOnce'
  <2>1. UsedSince' /\ LostUnderPressure'
    BY <1>1, <1>4 DEF HearOwn, CountCopy, CancelRelay
  <2>2. /\ UNCHANGED relays
        /\ \A j \in Keys : j # k => pending'[j] = pending[j]
        /\ pending'[k] # NoRelay => pending[k] # NoRelay
    BY <1>0, <1>4 DEF HearOwn, CountCopy, CancelRelay, TablesOK
  <2> QED
    BY <2>1, <2>2, <1>2
<1>5. ASSUME NEW k \in Keys, HearAgain(k)
      PROVE  UsedSince' /\ LostUnderPressure' /\ WaitsForTheFirst' /\ RelayOnce'
  <2>1. UsedSince' /\ LostUnderPressure'
    BY <1>0, <1>5, HitKeepsOrder DEF HearAgain, Remembered
  <2> QED
    BY <2>1, <1>3, <1>5 DEF HearAgain
<1>6. ASSUME NEW k \in Keys, Accept(k)
      PROVE  /\ UsedSince' /\ LostUnderPressure' /\ RelayOnce'
             /\ pending[k] = NoRelay /\ k \notin OwnKeys
             /\ relays' = [relays EXCEPT ![k] = 0]
  <2>1. UsedSince' /\ LostUnderPressure'
    BY <1>0, <1>6, AddKeepsOrder DEF Accept
  <2>2. relays' = [relays EXCEPT ![k] = 0]
    BY <1>0, <1>6, UnrememberedIsForgettable DEF Accept
  <2>3. RelayOnce'
    BY <2>2, <1>0 DEF RelayOnce, TablesOK
  <2> QED
    BY <2>1, <2>2, <2>3, <1>6 DEF Accept, Idle
<1>7. ASSUME NEW k \in Keys, NEW hops \in 0..MaxHops, AcceptLastHop(k, hops)
      PROVE  UsedSince' /\ LostUnderPressure' /\ WaitsForTheFirst' /\ RelayOnce'
  <2>1. /\ UsedSince' /\ LostUnderPressure' /\ RelayOnce'
        /\ relays' = [relays EXCEPT ![k] = 0] /\ pending' = pending
    BY <1>6, <1>7 DEF AcceptLastHop
  <2>2. WaitsForTheFirst'
    BY <2>1, <1>0 DEF WaitsForTheFirst, TablesOK
  <2> QED
    BY <2>1, <2>2
<1>8. ASSUME NEW k \in Keys, NEW hops \in 0..MaxHops, NEW rssi \in Signals,
             ScheduleRelay(k, hops, rssi)
      PROVE  UsedSince' /\ LostUnderPressure' /\ WaitsForTheFirst' /\ RelayOnce'
  <2>1. /\ UsedSince' /\ LostUnderPressure' /\ RelayOnce' /\ k \notin OwnKeys
        /\ relays' = [relays EXCEPT ![k] = 0]
        /\ \A j \in Keys : j # k => pending'[j] = pending[j]
    BY <1>0, <1>6, <1>8 DEF ScheduleRelay, TablesOK
  <2>2. WaitsForTheFirst'
    BY <2>1, <1>0 DEF WaitsForTheFirst, TablesOK
  <2> QED
    BY <2>1, <2>2
<1>9. ASSUME NEW k \in Keys, SendAnnounce(k)
      PROVE  UsedSince' /\ LostUnderPressure' /\ WaitsForTheFirst' /\ RelayOnce'
  <2>1. UsedSince' /\ LostUnderPressure'
    BY <1>0, <1>9, AddKeepsOrder DEF SendAnnounce
  <2> QED
    BY <2>1, <1>3, <1>9 DEF SendAnnounce
<1>10. CASE Due
  <2>1. UsedSince' /\ LostUnderPressure'
    BY <1>1, <1>10 DEF Due
  <2>2. WaitsForTheFirst'
    BY <1>0, <1>10 DEF Due, Ready, WaitsForTheFirst
  <2>3. \A k \in Keys : k \in Ready => k \notin OwnKeys /\ relays'[k] = 1
    BY <1>0, <1>10 DEF Due, Ready, WaitsForTheFirst
  <2>4. \A k \in Keys : k \notin Ready => relays'[k] = relays[k]
    BY <1>10 DEF Due
  <2>5. RelayOnce'
    BY <2>3, <2>4, <1>0 DEF RelayOnce
  <2> QED
    BY <2>1, <2>2, <2>5
<1>11. CASE PassTime \/ UNCHANGED vars
  BY <1>1, <1>3, <1>11 DEF PassTime, vars
<1> QED
  BY <1>4, <1>5, <1>7, <1>8, <1>9, <1>10, <1>11 DEF Next

\* The same of relaying, of any loop that calls the flooder.
THEOREM CallsRelayOnce == Init /\ [][Next]_vars => []RelayInduct
<1>1. TypeOK /\ TypeOK' /\ RelayInduct /\ [Next]_vars => RelayInduct'
  BY NextRelayInduct
<1> QED
  BY <1>1, InitRelayInduct, CallsKeepTypes, PTL

\* No packet is relayed twice within what the seen cache can remember, and none
\* of the node's own at all, for any keys, signals and bounds of the cache.
THEOREM RelaysOnce == Spec => []RelayOnce
<1>1. RelayInduct => RelayOnce
  BY DEF RelayInduct
<1> QED
  BY <1>1, CallsRelayOnce, PTL DEF Spec

(***************************************************************************)
(* The far first                                                           *)
(***************************************************************************)
LEMMA InitWaits == Init => WaitsInBand
BY DEF Init, WaitsInBand

LEMMA NextWaits == TypeOK /\ WaitsForTheFirst /\ WaitsInBand /\ [Next]_vars => WaitsInBand'
<1> DEFINE InBand(k) == pending[k] # NoRelay =>
                \E d \in RelayDelays(pending[k].rssi) : pending[k].sendAt = stamp[k] + d
<1> SUFFICES ASSUME TypeOK, WaitsForTheFirst, WaitsInBand, [Next]_vars, NEW j \in Keys
             PROVE  InBand(j)'
  BY DEF WaitsInBand
<1>1. InBand(j) /\ TablesOK /\ stamp \in [Keys -> Nat]
  BY TypeParts DEF WaitsInBand, CacheOK
<1>2. ASSUME pending'[j] = pending[j], stamp'[j] = stamp[j] PROVE InBand(j)'
  BY <1>1, <1>2
<1>3. ASSUME pending'[j] = NoRelay PROVE InBand(j)'
  BY <1>3
<1> HIDE DEF InBand
<1>4. ASSUME NEW k \in Keys, HearOwn(k) \/ CancelRelay(k) PROVE InBand(j)'
  BY <1>1, <1>2, <1>3, <1>4 DEF HearOwn, CancelRelay, TablesOK
<1>5. ASSUME NEW k \in Keys, CountCopy(k) PROVE InBand(j)'
  <2>1. CASE j # k
    BY <2>1, <1>1, <1>2, <1>5 DEF CountCopy, TablesOK
  <2>2. CASE j = k
    <3>1. pending[k] \in Waiting /\ pending[k] # NoRelay
      BY <1>1, <1>5 DEF CountCopy, TablesOK
    <3>2. pending'[k] = [pending[k] EXCEPT !.heard = @ + 1] /\ stamp' = stamp
      BY <1>1, <1>5 DEF CountCopy, TablesOK
    <3>3. pending'[k].rssi = pending[k].rssi /\ pending'[k].sendAt = pending[k].sendAt
      BY <3>1, <3>2 DEF Waiting
    <3> QED
      BY <2>2, <3>1, <3>2, <3>3, <1>1 DEF InBand
  <2> QED
    BY <2>1, <2>2
<1>6. ASSUME NEW k \in Keys, HearAgain(k) PROVE InBand(j)'
  BY <1>2, <1>6 DEF HearAgain
<1>7. ASSUME NEW k \in Keys, NEW hops \in 0..MaxHops, AcceptLastHop(k, hops)
      PROVE  InBand(j)'
  <2>1. CASE j # k
    BY <2>1, <1>1, <1>2, <1>7 DEF AcceptLastHop, Accept, AddToCache
  <2>2. CASE j = k
    BY <2>2, <1>3, <1>7 DEF AcceptLastHop, Accept, Idle
  <2> QED
    BY <2>1, <2>2
<1>8. ASSUME NEW k \in Keys, NEW hops \in 0..MaxHops, NEW rssi \in Signals,
             ScheduleRelay(k, hops, rssi)
      PROVE  InBand(j)'
  <2>1. CASE j # k
    BY <2>1, <1>1, <1>2, <1>8 DEF ScheduleRelay, Accept, AddToCache, TablesOK
  <2>2. CASE j = k
    <3>1. PICK d \in RelayDelays(rssi) :
             pending' = [pending EXCEPT
                ![k] = [hops |-> hops - 1, sendAt |-> now + d, heard |-> 0, rssi |-> rssi]]
      BY <1>8 DEF ScheduleRelay
    <3>2. pending'[k].sendAt = now + d /\ pending'[k].rssi = rssi
      BY <3>1, <1>1 DEF TablesOK
    <3>3. stamp'[k] = now
      BY <1>1, <1>8 DEF ScheduleRelay, Accept, AddToCache
    <3> QED
      BY <2>2, <3>2, <3>3 DEF InBand
  <2> QED
    BY <2>1, <2>2
<1>9. ASSUME NEW k \in Keys, SendAnnounce(k) PROVE InBand(j)'
  <2>1. CASE j # k
    BY <2>1, <1>1, <1>2, <1>9 DEF SendAnnounce, AddToCache
  <2>2. CASE j = k
    BY <2>2, <1>3, <1>9 DEF SendAnnounce, WaitsForTheFirst
  <2> QED
    BY <2>1, <2>2
<1>10. CASE Due
  BY <1>2, <1>3, <1>10 DEF Due
<1>11. CASE PassTime \/ UNCHANGED vars
  BY <1>2, <1>11 DEF PassTime, vars
<1> QED
  BY <1>4, <1>5, <1>6, <1>7, <1>8, <1>9, <1>10, <1>11 DEF Next

\* Rounding up to ticks no longer than the gap between two bands keeps the order.
LEMMA TicksKeepOrder ==
    ASSUME TickMs <= 5, NEW a \in Nat, NEW b \in Nat, a + 5 <= b
    PROVE  (a + TickMs - 1) \div TickMs < (b + TickMs - 1) \div TickMs
<1>1. TickMs = 1 \/ TickMs = 2 \/ TickMs = 3 \/ TickMs = 4 \/ TickMs = 5
  BY BoundsAssumption
<1>2. CASE TickMs = 1
  BY <1>2
<1>3. CASE TickMs = 2
  BY <1>3
<1>4. CASE TickMs = 3
  BY <1>4
<1>5. CASE TickMs = 4
  BY <1>5
<1>6. CASE TickMs = 5
  BY <1>6
<1> QED
  BY <1>1, <1>2, <1>3, <1>4, <1>5, <1>6

LEMMA BandsKeepOrder ==
    ASSUME TypeOK, WaitsInBand, TickMs <= 5
    PROVE  FarFirst
<1> SUFFICES ASSUME NEW j \in Keys, NEW k \in Keys,
                    pending[j] # NoRelay, pending[k] # NoRelay,
                    NoSignal \notin {pending[j].rssi, pending[k].rssi},
                    stamp[j] = stamp[k],
                    BandOf(pending[j].rssi) < BandOf(pending[k].rssi)
             PROVE  pending[j].sendAt < pending[k].sendAt
  BY DEF FarFirst
<1>1. pending[j] \in Waiting /\ pending[k] \in Waiting /\ stamp[j] \in Nat
  BY DEF TypeOK
<1>2. pending[j].rssi \in Int /\ pending[k].rssi \in Int
  BY <1>1, BoundsAssumption DEF Waiting
<1>3. PICK d \in RelayDelays(pending[j].rssi) : pending[j].sendAt = stamp[j] + d
  BY DEF WaitsInBand
<1>4. PICK e \in RelayDelays(pending[k].rssi) : pending[k].sendAt = stamp[k] + e
  BY DEF WaitsInBand
<1>5. PICK a \in Contention(pending[j].rssi) : d = (a + TickMs - 1) \div TickMs
  BY DEF RelayDelays
<1>6. PICK b \in Contention(pending[k].rssi) : e = (b + TickMs - 1) \div TickMs
  BY DEF RelayDelays
<1>7. BandOf(pending[j].rssi) \in 1..6 /\ BandOf(pending[k].rssi) \in 1..6
  BY <1>2, BandOfASignal
<1>8. /\ a \in DelayBands[BandOf(pending[j].rssi)].waits
      /\ b \in DelayBands[BandOf(pending[k].rssi)].waits
  BY DEF Contention
<1>9. a \in Nat /\ b \in Nat /\ a + 5 <= b
  BY <1>7, <1>8, BandsAreApart
<1>10. d < e
  BY <1>5, <1>6, <1>9, TicksKeepOrder
<1>11. d \in Nat /\ e \in Nat
  BY <1>1, DelaysAreTicks DEF Waiting
<1> QED
  BY <1>1, <1>3, <1>4, <1>10, <1>11

\* The same of the order of relays, of any loop that calls the flooder.
THEOREM CallsFarFirst == ASSUME TickMs <= 5 PROVE Init /\ [][Next]_vars => []FarFirst
<1>1. TypeOK /\ RelayInduct /\ WaitsInBand /\ [Next]_vars => WaitsInBand'
  BY NextWaits DEF RelayInduct
<1>2. TypeOK /\ WaitsInBand => FarFirst
  BY BandsKeepOrder
<1> QED
  BY <1>1, <1>2, InitWaits, CallsKeepTypes, CallsRelayOnce, PTL

\* The weaker heard of two packets taken at once leaves first, whatever the
\* jitter, if time is measured in steps no longer than the gap between two bands.
THEOREM FarLeaveFirst == ASSUME TickMs <= 5 PROVE Spec => []FarFirst
BY CallsFarFirst, PTL DEF Spec
=============================================================================
