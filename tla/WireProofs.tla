------------------------------ MODULE WireProofs ------------------------------
(***************************************************************************)
(* What holds of an announce on its way, for any nodes, names, hop limits  *)
(* and radiotap headers.                                                   *)
(***************************************************************************)
EXTENDS Wire, SequenceTheorems, TLAPS

(***************************************************************************)
(* Radiotap: parse_radiotap finds every field where the driver wrote it.   *)
(***************************************************************************)
\* The padding that a driver puts before a field is what the parser skips.
LEMMA PaddingAligns ==
    ASSUME NEW len \in Nat, NEW align \in {1, 2, 8}
    PROVE  Padding(len, align) \in Nat /\ Aligned(len, align) = len + Padding(len, align)
<1> DEFINE to == Aligned(len, align) - len
<1>1. to \in 0..(align - 1) /\ (len + to) % align = 0
  <2>1. CASE align = 1
    BY <2>1 DEF Aligned
  <2>2. CASE align = 2
    BY <2>2 DEF Aligned
  <2>3. CASE align = 8
    BY <2>3 DEF Aligned
  <2> QED
    BY <2>1, <2>2, <2>3
<1> HIDE DEF to
<1>2. Padding(len, align) \in 0..(align - 1) /\ (len + Padding(len, align)) % align = 0
  BY <1>1 DEF Padding
<1>3. ASSUME NEW m \in 0..(align - 1), NEW n \in 0..(align - 1),
             (len + m) % align = 0, (len + n) % align = 0
      PROVE  m = n
  <2>1. CASE align = 1
    BY <1>3, <2>1
  <2>2. CASE align = 2
    BY <1>3, <2>2
  <2>3. CASE align = 8
    BY <1>3, <2>3
  <2> QED
    BY <2>1, <2>2, <2>3
<1>4. Padding(len, align) = to
  BY <1>1, <1>2, <1>3
<1>5. Aligned(len, align) \in Int
  <2>1. align = 1 \/ align = 2 \/ align = 8
    OBVIOUS
  <2> QED
    BY <2>1 DEF Aligned
<1> QED
  BY <1>2, <1>4, <1>5 DEF to

\* The bytes of a header.
Written == (0..6) \cup {Junk}

LEMMA FieldSizes ==
    ASSUME NEW b \in 0..6
    PROVE  Align[b + 1] \in {1, 2, 8} /\ Size[b + 1] \in Nat \ {0}
BY DEF Align, Size

LEMMA FillerFills ==
    ASSUME NEW n \in Nat
    PROVE  Filler(n) \in Seq(Written) /\ Len(Filler(n)) = n
BY DEF Filler, Written

Extends(t, s) == Len(s) <= Len(t) /\ \A i \in 1..Len(s) : t[i] = s[i]

\* Field b, if it is present, is the last of the bytes behind, at the place that
\* parse_radiotap computes.
Placed(h, b, before, behind, place) ==
    /\ behind \in Seq(Written) /\ PastField(h, b, place) = Len(behind)
    /\ place \in Nat /\ Extends(behind, before)
    /\ b \in h.present =>
           /\ place + Size[b + 1] = Len(behind) /\ place + 1 <= Len(behind)
           /\ behind[place + 1] = b

\* One more field, or none.
LEMMA BehindPlaces ==
    ASSUME NEW h, NEW b \in 0..6, NEW before \in Seq(Written),
           NEW behind, behind = Behind(before, b, h.present),
           NEW place, place = PlaceOf(h, b, Len(before))
    PROVE  Placed(h, b, before, behind, place)
<1>1. Len(before) \in Nat
  BY LenProperties
<1>2. CASE b \notin h.present
  BY <1>1, <1>2 DEF Behind, PlaceOf, PastField, Extends, Placed
<1>3. CASE b \in h.present
  <2> DEFINE pad == Padding(Len(before), Align[b + 1])
             s1 == before \o Filler(pad)
             s2 == s1 \o <<b>>
             rest == Filler(Size[b + 1] - 1)
  <2>1. pad \in Nat /\ place = Len(before) + pad /\ Size[b + 1] \in Nat \ {0}
    BY <1>1, <1>3, FieldSizes, PaddingAligns DEF PlaceOf
  <2>2. /\ Filler(pad) \in Seq(Written) /\ Len(Filler(pad)) = pad
        /\ rest \in Seq(Written) /\ Len(rest) = Size[b + 1] - 1
    <3>1. Size[b + 1] - 1 \in Nat
      BY <2>1
    <3> HIDE DEF pad
    <3>2. Filler(pad) \in Seq(Written) /\ Len(Filler(pad)) = pad
      BY <2>1, FillerFills
    <3> QED
      BY <3>1, <3>2, FillerFills
  <2> HIDE DEF pad, rest
  <2>3. <<b>> \in Seq(Written) /\ Len(<<b>>) = 1
    BY DEF Written
  <2>4. s1 \in Seq(Written) /\ Len(s1) = place /\ Extends(s1, before)
    BY <1>1, <2>1, <2>2, ConcatProperties DEF Extends
  <2>5. s2 \in Seq(Written) /\ Len(s2) = place + 1 /\ Extends(s2, s1) /\ s2[place + 1] = b
    <3> HIDE DEF s1
    <3>1. place \in Nat /\ s1 \in Seq(Written) /\ Len(s1) = place
      BY <1>1, <2>1, <2>4
    <3>2. /\ s2 \in Seq(Written) /\ Len(s2) = Len(s1) + 1
          /\ \A i \in 1..Len(s1) : s2[i] = s1[i]
          /\ s2[Len(s1) + 1] = <<b>>[1]
      BY <2>3, <3>1, ConcatProperties
    <3>3. Extends(s2, s1)
      BY <3>1, <3>2 DEF Extends
    <3> QED
      BY <3>1, <3>2, <3>3
  <2>6. behind = s2 \o rest
    BY <1>3 DEF Behind, pad, rest
  <2>7. behind \in Seq(Written) /\ Len(behind) = place + Size[b + 1] /\ Extends(behind, s2)
    <3> HIDE DEF s1, s2
    <3>1. behind \in Seq(Written) /\ Len(behind) = Len(s2) + Len(rest)
      BY <2>2, <2>5, <2>6, ConcatProperties
    <3>2. \A i \in 1..Len(s2) : behind[i] = s2[i]
      BY <2>2, <2>5, <2>6, ConcatProperties
    <3>3. place \in Nat /\ Len(s2) \in Nat /\ Len(rest) \in Nat
      BY <1>1, <2>1, <2>2, <2>5, LenProperties
    <3>4. Len(behind) = place + Size[b + 1]
      BY <2>1, <2>2, <2>5, <3>1, <3>3
    <3>5. Extends(behind, s2)
      BY <3>1, <3>2, <3>3 DEF Extends
    <3> QED
      BY <3>1, <3>4, <3>5
  <2> HIDE DEF s1, s2
  <2>8. Extends(behind, before) /\ behind[place + 1] = b
    BY <1>1, <2>1, <2>4, <2>5, <2>7 DEF Extends
  <2>9. PastField(h, b, place) = Len(behind)
    BY <1>3, <2>1, <2>7 DEF PastField
  <2> QED
    BY <1>1, <2>1, <2>7, <2>8, <2>9 DEF Placed
<1> QED
  BY <1>2, <1>3

\* The two functions that HeaderBytes and OffsetOf define on the way.  Each is
\* known only as a solution of its equation; that there is one is shown by
\* writing down its values one after the other.
Upto(present, chain) ==
    CHOOSE upTo : upTo = [b \in -1..6 |->
        IF b = -1 THEN Filler(WordsLen(chain)) ELSE Behind(upTo[b - 1], b, present)]

Off(h) == CHOOSE off : off = [c \in 0..6 |->
            PlaceOf(h, c, IF c = 0 THEN WordsLen(h.chain) ELSE PastField(h, c - 1, off[c - 1]))]

LEMMA HeaderIsUpto ==
    ASSUME NEW present, NEW chain
    PROVE  HeaderBytes(present, chain) = Upto(present, chain)[6]
BY DEF HeaderBytes, Upto

LEMMA OffsetIsOff ==
    ASSUME NEW h, NEW b
    PROVE  OffsetOf(h, b) = Off(h)[b]
BY DEF OffsetOf, Off

LEMMA UptoSteps ==
    ASSUME NEW present, NEW chain
    PROVE  Upto(present, chain) =
               [b \in -1..6 |-> IF b = -1 THEN Filler(WordsLen(chain))
                                ELSE Behind(Upto(present, chain)[b - 1], b, present)]
<1> DEFINE v0 == Filler(WordsLen(chain))
           v1 == Behind(v0, 0, present)
           v2 == Behind(v1, 1, present)
           v3 == Behind(v2, 2, present)
           v4 == Behind(v3, 3, present)
           v5 == Behind(v4, 4, present)
           v6 == Behind(v5, 5, present)
           v7 == Behind(v6, 6, present)
           f == [b \in -1..6 |-> IF b = -1 THEN v0 ELSE IF b = 0 THEN v1 ELSE IF b = 1 THEN v2
                   ELSE IF b = 2 THEN v3 ELSE IF b = 3 THEN v4 ELSE IF b = 4 THEN v5
                   ELSE IF b = 5 THEN v6 ELSE v7]
           g(u) == [b \in -1..6 |-> IF b = -1 THEN v0 ELSE Behind(u[b - 1], b, present)]
<1>1. f = g(f)
  <2>1. ASSUME NEW b \in -1..6 PROVE f[b] = IF b = -1 THEN v0 ELSE Behind(f[b - 1], b, present)
    <3>1. b \in {-1,0,1,2,3,4,5,6}
      OBVIOUS
    <3>2. /\ f[-1] = v0 /\ f[0] = v1 /\ f[1] = v2 /\ f[2] = v3
          /\ f[3] = v4 /\ f[4] = v5 /\ f[5] = v6 /\ f[6] = v7
      <4> HIDE DEF v0, v1, v2, v3, v4, v5, v6, v7
      <4> QED
        OBVIOUS
    <3> HIDE DEF f
    <3>3. CASE b = -1
      BY <3>2, <3>3
    <3>4. CASE b = 0
      BY <3>2, <3>4
    <3>5. CASE b = 1
      BY <3>2, <3>5
    <3>6. CASE b = 2
      BY <3>2, <3>6
    <3>7. CASE b = 3
      BY <3>2, <3>7
    <3>8. CASE b = 4
      BY <3>2, <3>8
    <3>9. CASE b = 5
      BY <3>2, <3>9
    <3>10. CASE b = 6
      BY <3>2, <3>10
    <3> HIDE DEF v0, v1, v2, v3, v4, v5, v6, v7
    <3> QED
      BY <3>1, <3>3, <3>4, <3>5, <3>6, <3>7, <3>8, <3>9, <3>10
  <2> HIDE DEF v0
  <2>2. f = [b \in -1..6 |-> f[b]]
    <3> HIDE DEF v1, v2, v3, v4, v5, v6, v7
    <3> QED
      OBVIOUS
  <2> HIDE DEF f
  <2> QED
    BY <2>1, <2>2
<1> HIDE DEF v0, f
<1>2. \E u : u = g(u)
  <2> HIDE DEF g
  <2> QED
    BY <1>1
<1>3. (CHOOSE u : u = g(u)) = g(CHOOSE u : u = g(u))
  <2> HIDE DEF g
  <2> QED
    BY <1>2
<1> QED
  BY <1>3 DEF Upto, v0

LEMMA OffSteps ==
    ASSUME NEW h
    PROVE  Off(h) = [c \in 0..6 |-> PlaceOf(h, c, IF c = 0 THEN WordsLen(h.chain)
                                                  ELSE PastField(h, c - 1, Off(h)[c - 1]))]
<1> DEFINE e(c, o) == PlaceOf(h, c, IF c = 0 THEN WordsLen(h.chain) ELSE PastField(h, c - 1, o))
           v0 == e(0, 0)
           v1 == e(1, v0)
           v2 == e(2, v1)
           v3 == e(3, v2)
           v4 == e(4, v3)
           v5 == e(5, v4)
           v6 == e(6, v5)
           f == [c \in 0..6 |-> IF c = 0 THEN v0 ELSE IF c = 1 THEN v1 ELSE IF c = 2 THEN v2
                   ELSE IF c = 3 THEN v3 ELSE IF c = 4 THEN v4 ELSE IF c = 5 THEN v5 ELSE v6]
           g(u) == [c \in 0..6 |-> e(c, u[c - 1])]
<1>1. f = g(f)
  <2>1. ASSUME NEW c \in 0..6 PROVE f[c] = e(c, f[c - 1])
    <3>1. c \in {0,1,2,3,4,5,6}
      OBVIOUS
    <3>2. f[0] = v0 /\ f[1] = v1 /\ f[2] = v2 /\ f[3] = v3 /\ f[4] = v4 /\ f[5] = v5 /\ f[6] = v6
      <4> HIDE DEF v0, v1, v2, v3, v4, v5, v6
      <4> QED
        OBVIOUS
    <3>0. e(0, 0) = e(0, f[-1])
      OBVIOUS
    <3> HIDE DEF e, f
    <3>3. CASE c = 0
      BY <3>0, <3>2, <3>3
    <3>4. CASE c = 1
      BY <3>2, <3>4
    <3>5. CASE c = 2
      BY <3>2, <3>5
    <3>6. CASE c = 3
      BY <3>2, <3>6
    <3>7. CASE c = 4
      BY <3>2, <3>7
    <3>8. CASE c = 5
      BY <3>2, <3>8
    <3>9. CASE c = 6
      BY <3>2, <3>9
    <3> HIDE DEF v0, v1, v2, v3, v4, v5, v6
    <3> QED
      BY <3>1, <3>3, <3>4, <3>5, <3>6, <3>7, <3>8, <3>9
  <2>2. f = [c \in 0..6 |-> f[c]]
    <3> HIDE DEF v0, v1, v2, v3, v4, v5, v6
    <3> QED
      OBVIOUS
  <2> HIDE DEF f, e
  <2> QED
    BY <2>1, <2>2
<1> HIDE DEF f
<1>2. \E u : u = g(u)
  <2> HIDE DEF g
  <2> QED
    BY <1>1
<1>3. (CHOOSE u : u = g(u)) = g(CHOOSE u : u = g(u))
  <2> HIDE DEF g
  <2> QED
    BY <1>2
<1> QED
  BY <1>3 DEF Off

\* The parser's offset of every field is the place where the driver wrote it.
LEMMA FieldsFound ==
    ASSUME NEW h, h.chain \in Nat
    PROVE  LET all == HeaderBytes(h.present, h.chain)
           IN  /\ all \in Seq(Written) /\ WordsLen(h.chain) <= Len(all)
               /\ \A b \in 0..6 : b \in h.present =>
                      /\ OffsetOf(h, b) \in Nat /\ OffsetOf(h, b) + Size[b + 1] <= Len(all)
                      /\ all[OffsetOf(h, b) + 1] = b
<1> DEFINE L == Upto(h.present, h.chain)
           O == Off(h)
           At(b) == Placed(h, b, L[b - 1], L[b], O[b])
<1>1. /\ L[-1] = Filler(WordsLen(h.chain))
      /\ \A b \in 0..6 : L[b] = Behind(L[b - 1], b, h.present)
  <2> HIDE DEF L
  <2>1. L = [b \in -1..6 |-> IF b = -1 THEN Filler(WordsLen(h.chain))
                             ELSE Behind(L[b - 1], b, h.present)]
    BY UptoSteps DEF L
  <2> QED
    BY <2>1
<1>2. \A b \in 0..6 :
         O[b] = PlaceOf(h, b, IF b = 0 THEN WordsLen(h.chain) ELSE PastField(h, b - 1, O[b - 1]))
  <2> HIDE DEF O
  <2>1. O = [b \in 0..6 |->
          PlaceOf(h, b, IF b = 0 THEN WordsLen(h.chain) ELSE PastField(h, b - 1, O[b - 1]))]
    BY OffSteps DEF O
  <2> QED
    BY <2>1
<1> HIDE DEF L, O
<1>3. WordsLen(h.chain) \in Nat /\ L[-1] \in Seq(Written) /\ Len(L[-1]) = WordsLen(h.chain)
  <2>1. WordsLen(h.chain) \in Nat
    BY DEF WordsLen
  <2> QED
    BY <1>1, <2>1, FillerFills
<1>4. ASSUME NEW b \in 0..6, L[b - 1] \in Seq(Written), O[b] = PlaceOf(h, b, Len(L[b - 1]))
      PROVE  At(b)
  <2>1. L[b - 1] \in Seq(Written) /\ O[b] = PlaceOf(h, b, Len(L[b - 1]))
        /\ L[b] = Behind(L[b - 1], b, h.present)
    BY <1>1, <1>4
  <2> QED
    BY <1>4, <2>1, BehindPlaces
<1>5. At(0)
  <2>1. O[0] = PlaceOf(h, 0, Len(L[0 - 1])) /\ L[0 - 1] \in Seq(Written)
    BY <1>2, <1>3
  <2> HIDE DEF At
  <2> QED
    BY <1>4, <2>1
<1>6. ASSUME NEW b \in 0..5, At(b) PROVE At(b + 1)
  <2>1. /\ b + 1 \in 0..6 /\ (b + 1) - 1 = b /\ b + 1 # 0
        /\ L[b] \in Seq(Written) /\ PastField(h, b, O[b]) = Len(L[b])
    BY <1>6 DEF Placed
  <2>2. O[b + 1] = PlaceOf(h, b + 1, Len(L[b]))
    BY <1>2, <2>1
  <2> HIDE DEF At
  <2> QED
    BY <1>4, <2>1, <2>2
<1>7. At(0) /\ At(1) /\ At(2) /\ At(3) /\ At(4) /\ At(5) /\ At(6)
  <2> HIDE DEF At
  <2>1. At(0 + 1)
    BY <1>5, <1>6
  <2>2. At(1 + 1)
    BY <1>6, <2>1
  <2>3. At(2 + 1)
    BY <1>6, <2>2
  <2>4. At(3 + 1)
    BY <1>6, <2>3
  <2>5. At(4 + 1)
    BY <1>6, <2>4
  <2>6. At(5 + 1)
    BY <1>6, <2>5
  <2> QED
    BY <1>5, <2>1, <2>2, <2>3, <2>4, <2>5, <2>6
<1>8. \A b \in 0..6 : At(b)
  <2> HIDE DEF At
  <2> QED
    BY <1>7
<1>9. ASSUME NEW b \in 0..5, Extends(L[6], L[b + 1]) PROVE Extends(L[6], L[b])
  <2>1. b + 1 \in 0..6 /\ (b + 1) - 1 = b /\ b \in 0..6 /\ 6 \in 0..6
    OBVIOUS
  <2>2. Extends(L[b + 1], L[b]) /\ L[b + 1] \in Seq(Written) /\ L[b] \in Seq(Written)
    BY <1>8, <2>1 DEF Placed
  <2> QED
    BY <1>9, <2>2, LenProperties DEF Extends
<1>10. L[6] \in Seq(Written)
  BY <1>8 DEF Placed
<1>11. Extends(L[6], L[6]) /\ Extends(L[6], L[5]) /\ Extends(L[6], L[4]) /\ Extends(L[6], L[3])
       /\ Extends(L[6], L[2]) /\ Extends(L[6], L[1]) /\ Extends(L[6], L[0])
  <2>1. Extends(L[6], L[5 + 1])
    BY <1>10, LenProperties DEF Extends
  <2>2. Extends(L[6], L[4 + 1])
    BY <1>9, <2>1
  <2>3. Extends(L[6], L[3 + 1])
    BY <1>9, <2>2
  <2>4. Extends(L[6], L[2 + 1])
    BY <1>9, <2>3
  <2>5. Extends(L[6], L[1 + 1])
    BY <1>9, <2>4
  <2>6. Extends(L[6], L[0 + 1])
    BY <1>9, <2>5
  <2>7. Extends(L[6], L[0])
    BY <1>9, <2>6
  <2> QED
    BY <2>1, <2>2, <2>3, <2>4, <2>5, <2>6, <2>7
<1>12. \A b \in 0..6 : Extends(L[6], L[b])
  BY <1>11
<1>13. WordsLen(h.chain) <= Len(L[6])
  <2>1. Extends(L[0], L[0 - 1]) /\ L[0] \in Seq(Written)
    BY <1>8 DEF Placed
  <2>2. Len(L[-1]) <= Len(L[0]) /\ Len(L[0]) <= Len(L[6])
    BY <1>11, <2>1 DEF Extends
  <2> QED
    BY <1>3, <1>10, <2>1, <2>2, LenProperties
<1>14. ASSUME NEW b \in 0..6, b \in h.present
       PROVE  O[b] \in Nat /\ O[b] + Size[b + 1] <= Len(L[6]) /\ L[6][O[b] + 1] = b
  <2>1. /\ O[b] \in Nat /\ L[b] \in Seq(Written) /\ O[b] + Size[b + 1] = Len(L[b])
        /\ O[b] + 1 <= Len(L[b]) /\ L[b][O[b] + 1] = b
    BY <1>8, <1>14 DEF Placed
  <2>2. Len(L[b]) <= Len(L[6]) /\ \A i \in 1..Len(L[b]) : L[6][i] = L[b][i]
    BY <1>12 DEF Extends
  <2>3. O[b] + 1 \in 1..Len(L[b])
    BY <2>1, LenProperties
  <2> QED
    BY <2>1, <2>2, <2>3
<1>15. HeaderBytes(h.present, h.chain) = L[6] /\ \A b \in 0..6 : OffsetOf(h, b) = O[b]
  BY HeaderIsUpto, OffsetIsOff DEF L, O
<1> QED
  BY <1>10, <1>13, <1>14, <1>15

\* What a driver may hand up in front of the frame.
LEMMA HeaderIs ==
    ASSUME NEW h \in Headers
    PROVE  LET all == HeaderBytes(h.present, h.chain)
           IN  /\ h.present \subseteq 0..6 /\ h.chain \in Nat /\ h.fcs \in BOOLEAN
               /\ h.bytes \in {all, all \o Filler(4), SubSeq(all, 1, Len(all) - 1),
                               SubSeq(all, 1, WordsLen(h.chain) - 1)}
<1> DEFINE all == HeaderBytes(h.present, h.chain)
<1>1. PICK present \in SUBSET Fields, chain \in 0..MaxChain : h \in HeadersWith(present, chain)
  BY DEF Headers
<1>2. /\ h.present = present /\ h.chain = chain /\ h.fcs \in BOOLEAN
      /\ h.bytes \in {all, all \o Filler(4), SubSeq(all, 1, Len(all) - 1),
                      SubSeq(all, 1, WordsLen(h.chain) - 1)}
  BY <1>1 DEF HeadersWith
<1>3. h.present \subseteq 0..6 /\ h.chain \in Nat
  BY <1>1, <1>2, WireAssumption
<1> QED
  BY <1>2, <1>3

\* A header that was not cut holds all its present words.
LEMMA WholeHoldsWords ==
    ASSUME NEW h \in Headers, WellFormed(h)
    PROVE  WordsLen(h.chain) <= Len(h.bytes)
<1> DEFINE all == HeaderBytes(h.present, h.chain)
<1>1. all \in Seq(Written) /\ WordsLen(h.chain) <= Len(all) /\ WordsLen(h.chain) \in Nat \ {0}
  <2>1. WordsLen(h.chain) \in Nat \ {0} /\ h.chain \in Nat
    BY HeaderIs DEF WordsLen
  <2> QED
    BY <2>1, FieldsFound
<1>2. h.bytes \in {all, all \o Filler(4), SubSeq(all, 1, Len(all) - 1),
                   SubSeq(all, 1, WordsLen(h.chain) - 1)}
  BY HeaderIs
<1>3. Len(all) <= Len(h.bytes)
  BY DEF WellFormed
<1> HIDE DEF all
<1>4. Len(all) \in Nat /\ \A i \in 1..Len(all) : all[i] \in Written
  BY <1>1, ElementOfSeq, LenProperties
<1>5. h.bytes \in Seq(Written)
  <2>1. all \o Filler(4) \in Seq(Written)
    BY <1>1, FillerFills, ConcatProperties
  <2>2. ASSUME NEW n \in Nat, n <= Len(all) PROVE SubSeq(all, 1, n) \in Seq(Written)
    BY <1>4, <2>2, SubSeqProperties
  <2>3. /\ Len(all) - 1 \in Nat /\ WordsLen(h.chain) - 1 \in Nat
        /\ Len(all) - 1 <= Len(all) /\ WordsLen(h.chain) - 1 <= Len(all)
    BY <1>1, <1>4
  <2> QED
    BY <1>1, <1>2, <2>1, <2>2, <2>3
<1>6. Len(h.bytes) \in Nat
  BY <1>5, LenProperties
<1> QED
  BY <1>1, <1>3, <1>4, <1>6

\* Whatever of a header was handed up: a field that lies in it is found.
LEMMA FieldRead ==
    ASSUME NEW h \in Headers, WordsLen(h.chain) <= Len(h.bytes)
    PROVE  /\ \A b \in h.present : OffsetOf(h, b) + Size[b + 1] <= Len(h.bytes) =>
                  h.bytes[OffsetOf(h, b) + 1] = b
           /\ WellFormed(h) =>
                  \A b \in h.present : OffsetOf(h, b) + Size[b + 1] <= Len(h.bytes)
<1> DEFINE all == HeaderBytes(h.present, h.chain)
<1>1. /\ h.present \subseteq 0..6 /\ h.chain \in Nat
      /\ h.bytes \in {all, all \o Filler(4), SubSeq(all, 1, Len(all) - 1),
                      SubSeq(all, 1, WordsLen(h.chain) - 1)}
  BY HeaderIs
<1>2. /\ all \in Seq(Written) /\ WordsLen(h.chain) <= Len(all)
      /\ WordsLen(h.chain) \in Nat \ {0} /\ Len(all) \in Nat
      /\ \A b \in h.present :
             /\ OffsetOf(h, b) \in Nat /\ OffsetOf(h, b) + Size[b + 1] <= Len(all)
             /\ all[OffsetOf(h, b) + 1] = b /\ Size[b + 1] \in Nat \ {0}
  <2>1. WordsLen(h.chain) \in Nat \ {0}
    BY <1>1 DEF WordsLen
  <2>2. \A b \in h.present : b \in 0..6 /\ Size[b + 1] \in Nat \ {0}
    BY <1>1, FieldSizes
  <2>3. /\ all \in Seq(Written) /\ WordsLen(h.chain) <= Len(all)
        /\ \A b \in 0..6 : b \in h.present =>
             /\ OffsetOf(h, b) \in Nat /\ OffsetOf(h, b) + Size[b + 1] <= Len(all)
             /\ all[OffsetOf(h, b) + 1] = b
    BY <1>1, FieldsFound
  <2> HIDE DEF all
  <2> QED
    BY <2>1, <2>2, <2>3, LenProperties
<1> HIDE DEF all
<1>3. CASE h.bytes = all
  <2>1. \A b \in h.present : h.bytes[OffsetOf(h, b) + 1] = b
    BY <1>2, <1>3
  <2>2. \A b \in h.present : OffsetOf(h, b) + Size[b + 1] <= Len(h.bytes)
    BY <1>2, <1>3
  <2> QED
    BY <1>1, <2>1, <2>2
<1>4. CASE h.bytes = all \o Filler(4)
  <2>1. /\ Len(h.bytes) = Len(all) + 4
        /\ \A i \in 1..Len(all) : h.bytes[i] = all[i]
    BY <1>2, <1>4, FillerFills, ConcatProperties
  <2>2. ASSUME NEW b \in h.present
        PROVE  h.bytes[OffsetOf(h, b) + 1] = b /\ OffsetOf(h, b) + Size[b + 1] <= Len(h.bytes)
    <3>1. OffsetOf(h, b) + 1 \in 1..Len(all)
      BY <1>2
    <3> QED
      BY <1>2, <2>1, <3>1
  <2> QED
    BY <1>1, <2>2
<1>5. CASE h.bytes = SubSeq(all, 1, Len(all) - 1)
  <2>1. /\ Len(h.bytes) = Len(all) - 1
        /\ \A i \in 1..(Len(all) - 1) : h.bytes[i] = all[i]
    <3>1. Len(all) - 1 \in Nat /\ \A i \in 1..(Len(all) - 1) : all[i] \in Written
      BY <1>2, ElementOfSeq
    <3> QED
      BY <1>2, <1>5, <3>1, SubSeqProperties
  <2>2. ~WellFormed(h)
    BY <1>2, <2>1 DEF WellFormed, all
  <2>3. ASSUME NEW b \in h.present, OffsetOf(h, b) + Size[b + 1] <= Len(h.bytes)
        PROVE  h.bytes[OffsetOf(h, b) + 1] = b
    <3>1. OffsetOf(h, b) + 1 \in 1..(Len(all) - 1)
      BY <1>2, <2>1, <2>3
    <3> QED
      BY <1>2, <2>1, <3>1
  <2> QED
    BY <1>1, <2>2, <2>3
<1>6. CASE h.bytes = SubSeq(all, 1, WordsLen(h.chain) - 1)
  <2>1. WordsLen(h.chain) - 1 \in Nat /\ \A i \in 1..(WordsLen(h.chain) - 1) : all[i] \in Written
    BY <1>2, ElementOfSeq
  <2>2. Len(h.bytes) = WordsLen(h.chain) - 1
    BY <1>2, <1>6, <2>1, SubSeqProperties
  <2> QED
    BY <1>2, <2>2
<1> QED
  BY <1>1, <1>3, <1>4, <1>5, <1>6

(***************************************************************************)
(* recv: the signal and the checksum.                                      *)
(***************************************************************************)
\* A field's value, or none where the header was cut before it.
LEMMA ReadingsAre ==
    ASSUME NEW h \in Headers, WordsLen(h.chain) <= Len(h.bytes)
    PROVE  /\ Reading(h, AntSignal) \in {Signal, Nothing}
           /\ Reading(h, Flags) = TRUE => h.fcs
           /\ WellFormed(h) =>
                 /\ Reading(h, AntSignal) = IF AntSignal \in h.present THEN Signal ELSE Nothing
                 /\ h.fcs => Reading(h, Flags) = TRUE
<1>1. ASSUME NEW b \in {Flags, AntSignal}, NEW v,
             v = IF b = Flags THEN h.fcs ELSE Signal
      PROVE  /\ Reading(h, b) \in {v, Nothing}
             /\ WellFormed(h) => Reading(h, b) = IF b \in h.present THEN v ELSE Nothing
  <2> DEFINE there == b \in h.present /\ OffsetOf(h, b) + Size[b + 1] <= Len(h.bytes)
  <2>1. there => h.bytes[OffsetOf(h, b) + 1] = b
    BY FieldRead
  <2>2. WellFormed(h) => (there <=> b \in h.present)
    BY FieldRead
  <2>3. Reading(h, b) = IF there THEN v ELSE Nothing
    BY <1>1, <2>1 DEF Reading, Flags, AntSignal
  <2> QED
    BY <2>2, <2>3
<1>2. /\ Reading(h, AntSignal) \in {Signal, Nothing}
      /\ WellFormed(h) =>
            Reading(h, AntSignal) = IF AntSignal \in h.present THEN Signal ELSE Nothing
  BY <1>1 DEF Flags, AntSignal
<1>3. /\ Reading(h, Flags) \in {h.fcs, Nothing}
      /\ WellFormed(h) => Reading(h, Flags) = IF Flags \in h.present THEN h.fcs ELSE Nothing
  BY <1>1 DEF Flags, AntSignal
<1>4. Reading(h, Flags) = TRUE => h.fcs
  BY <1>3, WireAssumption
<1>5. ASSUME WellFormed(h), h.fcs PROVE Reading(h, Flags) = TRUE
  <2>1. Flags \in h.present /\ h.fcs = TRUE
    BY <1>5, HeaderIs DEF WellFormed
  <2> QED
    BY <1>3, <1>5, <2>1
<1> QED
  BY <1>2, <1>4, <1>5

\* The packet is handed up whole, and a checksum goes where its flag is seen.
LEMMA ChecksumStripped ==
    ASSUME NEW h \in Headers, WordsLen(h.chain) <= Len(h.bytes), NEW name \in NamesOnAir
    PROVE  LET bytes == StripFcs(h, name \o IF h.fcs THEN Fcs ELSE <<>>)
           IN  bytes \in NamesOnAir /\ (WellFormed(h) => bytes = name)
<1> DEFINE with == name \o Fcs
           bytes == StripFcs(h, name \o IF h.fcs THEN Fcs ELSE <<>>)
<1>1. /\ with \in NamesOnAir /\ Len(with) = Len(name) + 4 /\ Len(name) \in Nat
      /\ \A i \in 1..Len(name) : with[i] = name[i] /\ name[i] \in Bytes \cup {"fcs"}
  <2>1. Fcs \in NamesOnAir /\ Len(Fcs) = 4
    BY DEF Fcs, NamesOnAir
  <2>2. \A i \in 1..Len(name) : name[i] \in Bytes \cup {"fcs"}
    BY ElementOfSeq DEF NamesOnAir
  <2>3. Len(name) \in Nat
    BY LenProperties DEF NamesOnAir
  <2>4. /\ with \in NamesOnAir /\ Len(with) = Len(name) + Len(Fcs)
        /\ \A i \in 1..Len(name) : with[i] = name[i]
    <3> DEFINE bytesOnAir == Bytes \cup {"fcs"}
    <3>1. name \in Seq(bytesOnAir) /\ Fcs \in Seq(bytesOnAir) /\ NamesOnAir = Seq(bytesOnAir)
      BY <2>1 DEF NamesOnAir
    <3> HIDE DEF bytesOnAir
    <3>2. /\ name \o Fcs \in Seq(bytesOnAir) /\ Len(name \o Fcs) = Len(name) + Len(Fcs)
          /\ \A i \in 1..Len(name) : (name \o Fcs)[i] = name[i]
      BY <3>1, ConcatProperties
    <3> QED
      BY <3>1, <3>2
  <2> HIDE DEF with
  <2> QED
    BY <2>1, <2>2, <2>3, <2>4
<1>2. SubSeq(with, 1, Len(with) - 4) = name
  <2>1. Len(with) - 4 = Len(name)
    BY <1>1
  <2>2. /\ SubSeq(with, 1, Len(name)) \in NamesOnAir
        /\ Len(SubSeq(with, 1, Len(name))) = Len(name)
        /\ \A i \in 1..Len(name) : SubSeq(with, 1, Len(name))[i] = name[i]
    <3> HIDE DEF with
    <3>1. \A i \in 1..Len(name) : with[i] \in Bytes \cup {"fcs"}
      BY <1>1
    <3> QED
      BY <1>1, <3>1, SubSeqProperties DEF NamesOnAir
  <2> HIDE DEF with
  <2> QED
    BY <2>1, <2>2, SeqEqual DEF NamesOnAir
<1>3. name \o <<>> = name
  BY ConcatEmptySeq DEF NamesOnAir
<1> HIDE DEF with
<1>4. CASE h.fcs
  <2>1. bytes = IF Reading(h, Flags) = TRUE THEN name ELSE with
    BY <1>2, <1>4 DEF StripFcs, with
  <2> QED
    BY <1>1, <1>4, <2>1, ReadingsAre
<1>5. CASE ~h.fcs
  <2>1. bytes = name
    BY <1>3, <1>5, ReadingsAre DEF StripFcs
  <2> QED
    BY <2>1
<1> QED
  BY <1>4, <1>5

(***************************************************************************)
(* What becomes of the packet.                                             *)
(***************************************************************************)
\* Replacing anything but the signature leaves it.
LEMMA ChangesLeaveSignature ==
    ASSUME NEW p, SignedByBuilder(p)
    PROVE  /\ SignedByBuilder([p EXCEPT !.ours = FALSE])
           /\ SignedByBuilder([p EXCEPT !.type = "data"])
           /\ \A v \in Nat : SignedByBuilder([p EXCEPT !.hops = v])
           /\ SignedByBuilder([p EXCEPT !.id = Junk])
           /\ \A v \in NodeIds : SignedByBuilder([p EXCEPT !.src = v])
           /\ \A v \in Nodes : SignedByBuilder([p EXCEPT !.key = v])
           /\ \A v \in Nodes : SignedByBuilder([p EXCEPT !.encrypt = v])
           /\ SignedByBuilder([p EXCEPT !.random = Junk])
           /\ \A v \in Nat : SignedByBuilder([p EXCEPT !.size = v])
           /\ \A v \in NamesOnAir : SignedByBuilder([p EXCEPT !.name = v])
<1>1. p \in Packets /\ (p.sig = built.sig \/ p.sig.by = Junk)
  BY DEF SignedByBuilder
<1>2. SignedByBuilder([p EXCEPT !.ours = FALSE])
  BY <1>1 DEF SignedByBuilder, Packets
<1>3. SignedByBuilder([p EXCEPT !.type = "data"])
  BY <1>1 DEF SignedByBuilder, Packets
<1>4. \A v \in Nat : SignedByBuilder([p EXCEPT !.hops = v])
  BY <1>1 DEF SignedByBuilder, Packets
<1>5. SignedByBuilder([p EXCEPT !.id = Junk])
  BY <1>1 DEF SignedByBuilder, Packets
<1>6. \A v \in NodeIds : SignedByBuilder([p EXCEPT !.src = v])
  BY <1>1 DEF SignedByBuilder, Packets
<1>7. \A v \in Nodes : SignedByBuilder([p EXCEPT !.key = v])
  BY <1>1 DEF SignedByBuilder, Packets
<1>8. \A v \in Nodes : SignedByBuilder([p EXCEPT !.encrypt = v])
  BY <1>1 DEF SignedByBuilder, Packets
<1>9. SignedByBuilder([p EXCEPT !.random = Junk])
  BY <1>1 DEF SignedByBuilder, Packets
<1>10. \A v \in Nat : SignedByBuilder([p EXCEPT !.size = v])
  BY <1>1 DEF SignedByBuilder, Packets
<1>11. \A v \in NamesOnAir : SignedByBuilder([p EXCEPT !.name = v])
  BY <1>1 DEF SignedByBuilder, Packets
<1> QED
  BY <1>2, <1>3, <1>4, <1>5, <1>6, <1>7, <1>8, <1>9, <1>10, <1>11

\* parse_announce accepts a packet only with what the signature in it covers.
LEMMA VerifiedIsSigned ==
    ASSUME Verifies(built), NEW p, SignedByBuilder(p), Verifies(p)
    PROVE  Info(p) = Info(built)
<1>1. p.sig = [by |-> p.key, of |-> SignedBytes(p.src, p.key, p.encrypt, p.random, p.name)]
      /\ built.sig = [by |-> built.key, of |-> SignedBytes(built.src, built.key,
                          built.encrypt, built.random, built.name)]
  BY DEF Verifies
<1>2. p.sig.by = p.key /\ p.key \in Nodes
  BY <1>1 DEF SignedByBuilder, Packets
<1>3. p.sig = built.sig
  BY <1>2, WireAssumption DEF SignedByBuilder
<1>4. p.sig.of = built.sig.of
  BY <1>3
<1>5. SignedBytes(p.src, p.key, p.encrypt, p.random, p.name)
        = SignedBytes(built.src, built.key, built.encrypt, built.random, built.name)
  BY <1>1, <1>4
<1>6. p.src = built.src /\ p.key = built.key /\ p.encrypt = built.encrypt /\ p.name = built.name
  BY <1>5 DEF SignedBytes
<1> QED
  BY <1>6 DEF Info

\* What recv and from_bytes make of a packet behind any header.
LEMMA ReceivedIs ==
    ASSUME SignedByBuilder(packet), sender \in Nodes, heard \in Headers,
           NEW g, g = Received(heard)
    PROVE  /\ g # Nothing =>
                 /\ SignedByBuilder(g.packet) /\ g.rssi \in {Signal, Nothing}
                 /\ g.info = IF g.packet.type = "announce" /\ Verifies(g.packet)
                             THEN Info(g.packet) ELSE Nothing
           /\ WellFormed(heard) /\ packet.ours /\ packet.size >= HeaderLen =>
                 /\ g # Nothing /\ g.packet = packet /\ g.mac = sender
                 /\ g.rssi = IF AntSignal \in heard.present THEN Signal ELSE Nothing
<1> DEFINE bytes == StripFcs(heard, packet.name \o IF heard.fcs THEN Fcs ELSE <<>>)
           up == [packet EXCEPT !.name = bytes]
           rssi == Reading(heard, AntSignal)
           info == IF up.type = "announce" /\ Verifies(up) THEN Info(up) ELSE Nothing
           one == [packet |-> up, mac |-> sender, rssi |-> rssi, info |-> info]
           takes == /\ Len(heard.bytes) >= WordsLen(heard.chain)
                    /\ packet.ours /\ packet.size >= HeaderLen
<1>1. g = IF takes THEN one ELSE Nothing
  BY DEF Received
<1>2. packet \in Packets /\ packet.name \in NamesOnAir
  BY DEF SignedByBuilder, Packets
<1>3. ASSUME WordsLen(heard.chain) <= Len(heard.bytes)
      PROVE  /\ bytes \in NamesOnAir /\ (WellFormed(heard) => bytes = packet.name)
             /\ rssi \in {Signal, Nothing}
             /\ WellFormed(heard) =>
                    rssi = IF AntSignal \in heard.present THEN Signal ELSE Nothing
  BY <1>2, <1>3, ReadingsAre, ChecksumStripped
<1>4. takes => WordsLen(heard.chain) <= Len(heard.bytes)
  OBVIOUS
<1> HIDE DEF bytes, rssi
<1>5. ASSUME takes PROVE SignedByBuilder(up) /\ one \in Receptions
  <2>1. SignedByBuilder(up)
    BY <1>3, <1>4, <1>5, ChangesLeaveSignature
  <2>2. up \in Packets
    BY <2>1 DEF SignedByBuilder
  <2> HIDE DEF up
  <2>3. info \in Infos \cup {Nothing}
    BY <2>2 DEF Info, Infos, Packets
  <2>4. rssi \in {Signal, Nothing}
    BY <1>3, <1>4, <1>5
  <2> HIDE DEF info
  <2> QED
    BY <2>1, <2>2, <2>3, <2>4 DEF Receptions
<1>6. one.packet = up /\ one.mac = sender /\ one.rssi = rssi /\ one.info = info
  OBVIOUS
<1>7. bytes = packet.name => up = packet
  BY <1>2 DEF Packets
<1>8. takes => g = one /\ g # Nothing
  BY <1>1, <1>5, NothingAssumption
<1> HIDE DEF up, one
<1>9. g # Nothing => takes
  BY <1>1
<1>10. g # Nothing =>
         /\ SignedByBuilder(g.packet) /\ g.rssi \in {Signal, Nothing}
         /\ g.info = IF g.packet.type = "announce" /\ Verifies(g.packet)
                     THEN Info(g.packet) ELSE Nothing
  BY <1>3, <1>4, <1>5, <1>6, <1>8, <1>9
<1>11. WellFormed(heard) /\ packet.ours /\ packet.size >= HeaderLen => takes
  BY WholeHoldsWords
<1>12. WellFormed(heard) /\ takes =>
         /\ g # Nothing /\ g.packet = packet /\ g.mac = sender
         /\ g.rssi = IF AntSignal \in heard.present THEN Signal ELSE Nothing
  BY <1>3, <1>4, <1>6, <1>7, <1>8
<1> HIDE DEF takes
<1> QED
  BY <1>10, <1>11, <1>12

(***************************************************************************)
(* The steps.                                                              *)
(***************************************************************************)
LEMMA NamesAreHeard == \A name \in Names : name \in NamesOnAir
<1> SUFFICES ASSUME NEW name \in Names PROVE name \in NamesOnAir
  OBVIOUS
<1>1. name \in Seq(Bytes)
  BY WireAssumption
<1> QED
  BY <1>1, SeqMonotonic DEF NamesOnAir

LEMMA BuildSigns == Build => WireInduct'
<1> SUFFICES ASSUME Build PROVE WireInduct'
  OBVIOUS
<1>1. PICK n \in Nodes, name \in Names, hops \in 0..MaxHops :
         packet' = BuildAnnounce(n, name, hops) /\ built' = packet' /\ sender' = n
  BY DEF Build
<1>2. phase' = "air" /\ hops \in Nat /\ n \in Nodes
  BY WireAssumption DEF Build
<1>3. name \in NamesOnAir
  BY NamesAreHeard
<1>4. built' \in Packets
  <2> DEFINE signed == SignedBytes(NodeIdFromKey(n), n, n, Fresh, name)
  <2>1. NodeIdFromKey(n) \in NodeIds
    BY <1>1 DEF NodeIds
  <2>2. signed \in NodeIds \X Nodes \X Nodes \X {Fresh} \X NamesOnAir
    BY <1>3, <2>1 DEF SignedBytes
  <2> HIDE DEF signed
  <2>3. [by |-> n, of |-> signed] \in Signatures
    BY <2>2 DEF Signatures
  <2>4. HeaderLen + AnnounceMin \in Nat
    BY DEF HeaderLen, AnnounceMin
  <2> DEFINE sig == [by |-> n, of |-> signed]
  <2>5. built' = [ours |-> TRUE, type |-> "announce", hops |-> hops, id |-> Fresh,
                  src |-> NodeIdFromKey(n), key |-> n, encrypt |-> n, random |-> Fresh,
                  sig |-> sig, size |-> HeaderLen + AnnounceMin, name |-> name]
    BY <1>1 DEF BuildAnnounce, signed
  <2> HIDE DEF sig
  <2>6. sig \in Signatures
    BY <2>3 DEF sig
  <2> QED
    BY <1>2, <1>3, <2>1, <2>4, <2>5, <2>6 DEF Packets
<1>5. built'.ours /\ built'.type = "announce" /\ Verifies(built')
  BY <1>1 DEF BuildAnnounce, Verifies
<1>6. [built' EXCEPT !.hops = built'.hops] = built'
  BY <1>4 DEF Packets
<1>7. UnalteredIsBuilt'
  BY <1>1, <1>6 DEF UnalteredIsBuilt
<1>8. Verifies(built)'
  BY <1>5 DEF Verifies
<1> QED
  BY <1>1, <1>2, <1>4, <1>5, <1>7, <1>8 DEF WireInduct, SignedByBuilder

LEMMA AlterSpares == WireInduct /\ Alter => WireInduct'
<1> SUFFICES ASSUME WireInduct, Alter PROVE WireInduct'
  OBVIOUS
<1>1. phase = "air" /\ altered' = TRUE /\ packet' \in Alterations(packet)
      /\ UNCHANGED <<phase, sender, got, built>>
  BY DEF Alter
<1>2. SignedByBuilder(packet)
  BY <1>1 DEF WireInduct
<1>3. SignedByBuilder([packet EXCEPT !.sig = [by |-> Junk, of |-> packet.sig.of]])
  <2> DEFINE forged == [by |-> Junk, of |-> packet.sig.of]
             p == [packet EXCEPT !.sig = forged]
  <2>1. packet \in Packets /\ packet.sig \in Signatures
    BY <1>2 DEF SignedByBuilder, Packets
  <2>2. forged.by = Junk /\ forged \in Signatures
    BY <2>1 DEF Signatures
  <2> HIDE DEF forged
  <2>3. p \in Packets /\ p.sig = forged
    BY <2>1, <2>2 DEF Packets
  <2>4. SignedByBuilder(p)
    BY <2>2, <2>3 DEF SignedByBuilder
  <2> QED
    BY <2>4 DEF forged
<1>4. ASSUME NEW size \in Nat
      PROVE  SignedByBuilder([packet EXCEPT !.size = size, !.name = <<>>])
  <2> DEFINE cut == [packet EXCEPT !.size = size]
  <2>1. SignedByBuilder(cut)
    BY <1>2, ChangesLeaveSignature
  <2>2. <<>> \in NamesOnAir
    BY DEF NamesOnAir
  <2>3. SignedByBuilder([cut EXCEPT !.name = <<>>])
    <3> HIDE DEF cut
    <3> QED
      BY <2>1, <2>2, ChangesLeaveSignature
  <2>4. [packet EXCEPT !.size = size, !.name = <<>>] = [cut EXCEPT !.name = <<>>]
    OBVIOUS
  <2> QED
    BY <2>3, <2>4
<1>5. SignedByBuilder(packet')
  <2>1. /\ SignedByBuilder([packet EXCEPT !.ours = FALSE])
        /\ SignedByBuilder([packet EXCEPT !.type = "data"])
        /\ \A v \in Nat : SignedByBuilder([packet EXCEPT !.hops = v])
        /\ SignedByBuilder([packet EXCEPT !.id = Junk])
        /\ \A v \in NodeIds : SignedByBuilder([packet EXCEPT !.src = v])
        /\ \A v \in Nodes : SignedByBuilder([packet EXCEPT !.key = v])
        /\ \A v \in Nodes : SignedByBuilder([packet EXCEPT !.encrypt = v])
        /\ SignedByBuilder([packet EXCEPT !.random = Junk])
        /\ \A v \in NamesOnAir : SignedByBuilder([packet EXCEPT !.name = v])
    BY <1>2, ChangesLeaveSignature
  <2>2. CASE packet' = [packet EXCEPT !.ours = FALSE]
    BY <2>1, <2>2
  <2>3. CASE packet' = [packet EXCEPT !.type = "data"]
    BY <2>1, <2>3
  <2>4. CASE packet' = [packet EXCEPT !.id = Junk]
    BY <2>1, <2>4
  <2>5. CASE packet' = [packet EXCEPT !.random = Junk]
    BY <2>1, <2>5
  <2>6. CASE packet' = [packet EXCEPT !.sig = [by |-> Junk, of |-> packet.sig.of]]
    BY <1>3, <2>6
  <2>7. CASE \E hops \in 0..MaxHops : packet' = [packet EXCEPT !.hops = hops]
    <3>1. \A hops \in 0..MaxHops : hops \in Nat
      BY WireAssumption
    <3> QED
      BY <2>1, <2>7, <3>1
  <2>8. CASE \E n \in Nodes : packet' = [packet EXCEPT !.src = NodeIdFromKey(n)]
    <3>1. \A n \in Nodes : NodeIdFromKey(n) \in NodeIds
      BY DEF NodeIds
    <3> QED
      BY <2>1, <2>8, <3>1
  <2>9. CASE \E n \in Nodes : packet' = [packet EXCEPT !.key = n]
    BY <2>1, <2>9
  <2>10. CASE \E n \in Nodes : packet' = [packet EXCEPT !.encrypt = n]
    BY <2>1, <2>10
  <2>11. CASE \E name \in Names : packet' = [packet EXCEPT !.name = name]
    BY <2>1, <2>11, NamesAreHeard
  <2>12. CASE \E size \in {HeaderLen - 1, HeaderLen + AnnounceMin - 1} :
               packet' = [packet EXCEPT !.size = size, !.name = <<>>]
    <3>1. HeaderLen - 1 \in Nat /\ HeaderLen + AnnounceMin - 1 \in Nat
      BY DEF HeaderLen, AnnounceMin
    <3> QED
      BY <1>4, <2>12, <3>1
  <2> QED
    BY <1>1, <2>2, <2>3, <2>4, <2>5, <2>6, <2>7, <2>8, <2>9, <2>10, <2>11, <2>12
    DEF Alterations
<1>6. Verifies(built)'
  BY <1>1 DEF WireInduct, Verifies
<1> QED
  BY <1>1, <1>5, <1>6 DEF WireInduct, SignedByBuilder, UnalteredIsBuilt

LEMMA HandUpHeard == WireInduct /\ HandUp => WireInduct'
<1> SUFFICES ASSUME WireInduct, HandUp PROVE WireInduct'
  OBVIOUS
<1>1. /\ phase = "air" /\ phase' = "heard" /\ heard' \in Headers
      /\ UNCHANGED <<packet, sender, got, built, altered>>
  BY DEF HandUp
<1>2. Verifies(built)'
  BY <1>1 DEF WireInduct, Verifies
<1> QED
  BY <1>1, <1>2 DEF WireInduct, SignedByBuilder, UnalteredIsBuilt

LEMMA ReceiveVerifies == WireInduct /\ Receive => WireInduct'
<1> SUFFICES ASSUME WireInduct, Receive PROVE WireInduct'
  OBVIOUS
<1>1. /\ phase = "heard" /\ phase' = "got" /\ got' = Received(heard)
      /\ UNCHANGED <<packet, sender, heard, built, altered>>
  BY DEF Receive
<1>2. SignedByBuilder(packet) /\ sender \in Nodes /\ heard \in Headers /\ Verifies(built)
  BY <1>1 DEF WireInduct
<1>3. ASSUME got' # Nothing
      PROVE  SignedByBuilder(got'.packet) /\ got'.info \in {Info(built), Nothing}
  <2>1. /\ SignedByBuilder(got'.packet)
        /\ got'.info = IF got'.packet.type = "announce" /\ Verifies(got'.packet)
                       THEN Info(got'.packet) ELSE Nothing
    BY <1>1, <1>2, <1>3, ReceivedIs
  <2>2. Verifies(got'.packet) => Info(got'.packet) = Info(built)
    BY <1>2, <2>1, VerifiedIsSigned
  <2> QED
    BY <2>1, <2>2
<1>4. LearnsTheSigned'
  BY <1>1, <1>3 DEF LearnsTheSigned, Info
<1>5. Verifies(built)' /\ Received(heard)' = Received(heard)
  BY <1>1, <1>2 DEF Verifies, Received, StripFcs
<1> QED
  BY <1>1, <1>2, <1>3, <1>4, <1>5 DEF WireInduct, SignedByBuilder, UnalteredIsBuilt

LEMMA RelaySpends == WireInduct /\ Relay => WireInduct'
<1> SUFFICES ASSUME WireInduct, Relay PROVE WireInduct'
  OBVIOUS
<1>1. /\ phase = "got" /\ phase' = "air" /\ got # Nothing /\ got.packet.hops > 0
      /\ packet' = [got.packet EXCEPT !.hops = @ - 1] /\ sender' \in Nodes
      /\ altered' = (altered \/ got.packet # packet)
      /\ built' = built
  BY DEF Relay, Relayed
<1>2. SignedByBuilder(got.packet) /\ built \in Packets
  BY <1>1 DEF WireInduct
<1>3. SignedByBuilder(packet')
  <2>1. got.packet.hops - 1 \in Nat
    BY <1>1, <1>2 DEF SignedByBuilder, Packets
  <2> QED
    BY <1>1, <1>2, <2>1, ChangesLeaveSignature
<1>4. ASSUME ~altered'
      PROVE  packet' = [built EXCEPT !.hops = packet'.hops]
  <2>1. packet = [built EXCEPT !.hops = packet.hops] /\ got.packet = packet
    BY <1>1, <1>4 DEF WireInduct, UnalteredIsBuilt
  <2> QED
    BY <1>1, <1>2, <2>1 DEF Packets
<1>5. Verifies(built)'
  BY <1>1 DEF WireInduct, Verifies
<1> QED
  BY <1>1, <1>2, <1>3, <1>4, <1>5 DEF WireInduct, SignedByBuilder, UnalteredIsBuilt

\* What identity.py's signature, frame.py's relayed() and link.py's recv() tie
\* down on the way.
THEOREM Inductive == Spec => []WireInduct
<1>1. Init => WireInduct
  BY DEF Init, WireInduct
<1>2. WireInduct /\ [Next]_vars => WireInduct'
  <2> SUFFICES ASSUME WireInduct, [Next]_vars PROVE WireInduct'
    OBVIOUS
  <2>1. CASE Vanish
    BY <2>1 DEF Vanish, WireInduct
  <2>2. CASE UNCHANGED vars
    <3>1. UNCHANGED <<phase, packet, sender, heard, got, built, altered>>
      BY <2>2 DEF vars
    <3>2. Verifies(built)' = Verifies(built) /\ Received(heard)' = Received(heard)
          /\ Info(built)' = Info(built)
      BY <3>1 DEF Verifies, Received, StripFcs, Info
    <3> QED
      BY <3>1, <3>2 DEF WireInduct, SignedByBuilder, LearnsTheSigned, UnalteredIsBuilt
  <2> QED
    BY <2>1, <2>2, BuildSigns, AlterSpares, HandUpHeard, ReceiveVerifies, RelaySpends DEF Next
<1> QED
  BY <1>1, <1>2, PTL DEF Spec

\* Behind any radiotap header with any of the seven fields that parse_radiotap
\* knows and any number of present words: recv() hands up what was sent, without
\* the checksum, and the signal.
THEOREM SentBytesAreReceived == Spec => []SentIsReceived
<1>1. WireInduct => SentIsReceived
  <2> SUFFICES ASSUME WireInduct, phase = "got" PROVE SentIsReceived
    BY DEF SentIsReceived
  <2>1. SignedByBuilder(packet) /\ sender \in Nodes /\ heard \in Headers /\ got = Received(heard)
    BY DEF WireInduct
  <2> QED
    BY <2>1, ReceivedIs DEF SentIsReceived
<1> QED
  BY <1>1, Inductive, PTL

\* For any nodes, names and headers, whatever part of an announce is changed
\* once on the way and however often it is relayed: parse_announce lets nothing
\* through but what was signed, and lets through what nobody changed.
THEOREM LearnedIsSigned == Spec => []LearnsWhatWasSigned
<1>1. WireInduct => LearnsWhatWasSigned
  <2> SUFFICES ASSUME WireInduct PROVE LearnsWhatWasSigned
    OBVIOUS
  <2>1. LearnsTheSigned
    BY DEF WireInduct, LearnsTheSigned
  <2>2. ASSUME phase = "got", ~altered, WellFormed(heard)
        PROVE  got # Nothing /\ got.info = Info(built)
    <3>1. /\ SignedByBuilder(packet) /\ sender \in Nodes /\ heard \in Headers
          /\ got = Received(heard) /\ built \in Packets /\ built.ours
          /\ built.type = "announce" /\ Verifies(built)
          /\ packet = [built EXCEPT !.hops = packet.hops]
      BY <2>2 DEF WireInduct, UnalteredIsBuilt
    <3>2. /\ packet.ours = built.ours /\ packet.type = built.type /\ packet.size = built.size
          /\ packet.src = built.src /\ packet.key = built.key /\ packet.sig = built.sig
          /\ packet.encrypt = built.encrypt /\ packet.random = built.random
          /\ packet.name = built.name
      BY <3>1 DEF Packets
    <3>3. packet.ours /\ packet.type = "announce" /\ packet.size >= HeaderLen
      BY <3>1, <3>2 DEF Verifies, HeaderLen, AnnounceMin
    <3>4. Verifies(packet) /\ Info(packet) = Info(built)
      BY <3>1, <3>2 DEF Verifies, Info
    <3>5. got # Nothing /\ got.packet = packet
      BY <2>2, <3>1, <3>3, ReceivedIs
    <3>6. got.info = IF got.packet.type = "announce" /\ Verifies(got.packet)
                     THEN Info(got.packet) ELSE Nothing
      BY <3>1, <3>5, ReceivedIs
    <3> QED
      BY <3>3, <3>4, <3>5, <3>6
  <2> QED
    BY <2>1, <2>2 DEF LearnsWhatWasSigned
<1> QED
  BY <1>1, Inductive, PTL
=============================================================================
