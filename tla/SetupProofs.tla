---------------------------- MODULE SetupProofs ----------------------------
(***************************************************************************)
(* Proofs about Setup: no interface name is pinned twice, and no service   *)
(* is left without an identity, wherever setups are cut and whatever is    *)
(* plugged in or out, for any number of adapters.                          *)
(***************************************************************************)
EXTENDS Setup, FiniteSetTheorems, TLAPS

(***************************************************************************)
(* allocate_name                                                           *)
(***************************************************************************)
\* There are at most as many names as there are adapters to hold them.
LEMMA FewNames ==
    ASSUME NEW S, NEW f \in [Macs -> S]
    PROVE  IsFiniteSet(Range(f) \ {None}) /\ Cardinality(Range(f) \ {None}) <= Cardinality(Macs)
<1>1. f \in Surjection(Macs, Range(f))
  <2>1. DOMAIN f = Macs
    OBVIOUS
  <2>2. f \in [Macs -> Range(f)]
    BY <2>1 DEF Range
  <2>3. \A x \in Range(f) : \E m \in Macs : f[m] = x
    BY <2>1 DEF Range
  <2> QED
    BY <2>2, <2>3 DEF Surjection
<1>2. IsFiniteSet(Range(f)) /\ Cardinality(Range(f)) <= Cardinality(Macs)
  BY <1>1, AdaptersAssumption, FS_Surjection
<1>3. /\ IsFiniteSet(Range(f) \ {None})
      /\ Cardinality(Range(f) \ {None}) <= Cardinality(Range(f))
  BY <1>2, FS_Subset
<1>4. /\ Cardinality(Range(f) \ {None}) \in Nat /\ Cardinality(Range(f)) \in Nat
      /\ Cardinality(Macs) \in Nat
  BY <1>2, <1>3, AdaptersAssumption, FS_CardinalityType
<1> QED
  BY <1>2, <1>3, <1>4

\* A set of numbers that is not empty has a smallest.
LEMMA Smallest ==
    ASSUME NEW T, T \subseteq Nat, T # {}
    PROVE  \E n \in T : \A k \in 0..(n - 1) : k \notin T
<1> DEFINE upTo == {0..n : n \in T}
           less == StrictSubsetOrdering(Nat)
<1>1. upTo \subseteq FiniteSubsetsOf(Nat)
  <2>1. \A n \in T : (0..n) \subseteq Nat /\ IsFiniteSet(0..n)
    BY FS_Interval
  <2> QED
    BY <2>1 DEF FiniteSubsetsOf
<1>2. upTo # {}
  OBVIOUS
<1>3. IsWellFoundedOn(less, FiniteSubsetsOf(Nat))
  BY FS_StrictSubsetOrderingWellFounded
<1>4. PICK x \in upTo : \A y \in upTo : <<y, x>> \notin less
  <2> HIDE DEF upTo, less
  <2> QED
    BY <1>1, <1>2, <1>3, WFMin
<1>5. PICK n \in T : x = 0..n
  OBVIOUS
<1>6. ASSUME NEW k \in 0..(n - 1), k \in T PROVE FALSE
  <2>1. n \in Nat /\ k \in Nat /\ k < n
    BY <1>6
  <2>2. (0..k) \subseteq (0..n) /\ n \in 0..n /\ n \notin 0..k
    BY <2>1
  <2>3. 0..k \in SUBSET Nat /\ 0..n \in SUBSET Nat /\ 0..k # 0..n
    BY <2>1, <2>2
  <2>4. <<0..k, 0..n>> \in less
    BY <2>2, <2>3 DEF StrictSubsetOrdering
  <2>5. 0..k \in upTo
    BY <1>6
  <2> QED
    BY <2>4, <2>5, <1>4, <1>5
<1> QED
  BY <1>6

\* allocate_name always finds a name, and it is held by no rule and no interface.
LEMMA NameIsFree ==
    ASSUME name \in [Macs -> Names \cup {None}], rules \in Rules
    PROVE  LowestFree \in Owned /\ LowestFree \notin Claimed \cup Live
<1> DEFINE taken == Claimed \cup Live
<1>1. IsFiniteSet(Live) /\ Cardinality(Live) <= Cardinality(Macs)
  BY FewNames DEF Live
<1>2. IsFiniteSet(Claimed) /\ Cardinality(Claimed) <= Cardinality(Macs)
  BY FewNames DEF Claimed, Rules
<1>3. /\ IsFiniteSet(taken)
      /\ Cardinality(taken) = Cardinality(Claimed) + Cardinality(Live)
                              - Cardinality(Claimed \cap Live)
  BY <1>1, <1>2, FS_Union
<1>4. Cardinality(Claimed \cap Live) \in Nat
  <2>1. IsFiniteSet(Claimed \cap Live)
    BY <1>1, FS_Subset
  <2> QED
    BY <2>1, FS_CardinalityType
<1>5. /\ Cardinality(Macs) \in Nat /\ Cardinality(Claimed) \in Nat
      /\ Cardinality(Live) \in Nat /\ Cardinality(taken) \in Nat
  BY <1>1, <1>2, <1>3, AdaptersAssumption, FS_CardinalityType
<1>6. Cardinality(Owned) = 2 * Cardinality(Macs) + 1
  <2> DEFINE last == 2 * Cardinality(Macs)
  <2>1. last \in Nat
    BY <1>5
  <2>2. Owned = 0..last
    BY DEF Owned
  <2> HIDE DEF last
  <2>3. Cardinality(0..last) = IF 0 > last THEN 0 ELSE last - 0 + 1
    BY <2>1, FS_Interval
  <2>4. Cardinality(0..last) = last + 1
    BY <2>1, <2>3
  <2> QED
    BY <2>2, <2>4 DEF last
<1>7. ~(Owned \subseteq taken)
  <2> SUFFICES ASSUME Owned \subseteq taken PROVE FALSE
    OBVIOUS
  <2>1. Cardinality(Owned) <= Cardinality(taken)
    BY <1>3, FS_Subset
  <2>2. Cardinality(taken) <= 2 * Cardinality(Macs)
    BY <1>1, <1>2, <1>3, <1>4, <1>5
  <2> QED
    BY <2>1, <2>2, <1>5, <1>6
<1> HIDE DEF taken
<1>8. PICK n \in Owned \ taken : \A k \in 0..(n - 1) : k \notin Owned \ taken
  <2>1. Owned \ taken # {} /\ Owned \ taken \subseteq Nat
    BY <1>5, <1>7 DEF Owned
  <2> QED
    BY <2>1, Smallest
<1>9. \A k \in 0..(n - 1) : k \in taken
  <2>1. \A k \in 0..(n - 1) : k \in Owned
    BY <1>5 DEF Owned
  <2> QED
    BY <2>1, <1>8
<1>10. LowestFree \in Owned \ taken
  BY <1>8, <1>9 DEF LowestFree, taken
<1> QED
  BY <1>10 DEF taken

LEMMA AllocatedName ==
    ASSUME name \in [Macs -> Names \cup {None}], rules \in Rules, NEW m \in Macs
    PROVE  /\ AllocateName(m) \in Owned
           /\ rules[m] = None => AllocateName(m) \notin Claimed
BY NameIsFree DEF AllocateName, Rules

(***************************************************************************)
(* Types                                                                   *)
(***************************************************************************)
LEMMA EmptyJob == NoJob \in Job /\ NoRules \in Rules
<1>1. (CHOOSE n \in KernelNames : TRUE) \in KernelNames
  BY AdaptersAssumption
<1>2. NoRules \in Rules
  BY DEF NoRules, Rules
<1> QED
  BY <1>1, <1>2 DEF NoJob, Job, Names

LEMMA BootNamesType ==
    ASSUME NEW f \in BootNames
    PROVE  f \in [Macs -> Names \cup {None}]
BY DEF BootNames

LEMMA InitType == Init => TypeOK
<1> SUFFICES ASSUME Init PROVE TypeOK
  OBVIOUS
<1>1. name \in [Macs -> Names \cup {None}]
  BY DEF Init, Names
<1>2. rules \in Rules /\ job \in Job
  BY EmptyJob DEF Init
<1>3. crashes \in 0..MaxCrashes /\ uninstalls \in 0..MaxUninstalls
  BY BoundsAssumption DEF Init
<1>4. /\ key \in {"none", "cut", "whole"} /\ unit \in Names \cup {None}
      /\ step \in {"idle", "save", "rename", "pin", "write", "install", "unit"}
      /\ target \in Macs \cup {None} /\ forced \in BOOLEAN
  BY DEF Init
<1> QED
  BY <1>1, <1>2, <1>3, <1>4 DEF TypeOK

LEMMA NextType == TypeOK /\ NewPinIsExclusive /\ [Next]_vars => TypeOK'
<1> SUFFICES ASSUME TypeOK, NewPinIsExclusive, [Next]_vars PROVE TypeOK'
  OBVIOUS
<1> USE DEF TypeOK, machine, history
<1>1. ASSUME NEW iface \in KernelNames \cup Live, NEW next \in {"rename", "save"},
             Begin(iface, next)
      PROVE  step' \in {"rename", "save"} /\ job' \in Job
  <2>1. iface \in Names
    BY <1>1 DEF Live, Range, Names
  <2> QED
    BY <1>1, <2>1, EmptyJob DEF Begin, Job
<1>2. ASSUME NEW iface \in KernelNames \cup Live, NEW force \in BOOLEAN, SetupIdentity(iface, force)
      PROVE  TypeOK'
  <2>1. CASE LoadFails
    BY <2>1 DEF LoadFails, vars
  <2>2. CASE LoadKey(iface)
    BY <2>2, <1>1 DEF LoadKey
  <2>3. CASE GenerateKey(iface, force)
    BY <2>3, <1>1 DEF GenerateKey
  <2> QED
    BY <1>2, <2>1, <2>2, <2>3 DEF SetupIdentity
<1>3. CASE SaveKey
  BY <1>3 DEF SaveKey
<1>4. CASE KeepName
  BY <1>4 DEF KeepName
<1>5. ASSUME NEW m \in Macs, RenameIface(m) PROVE TypeOK'
  <2>1. AllocateName(m) \in Names
    BY AllocatedName DEF Names
  <2>2. name' \in [Macs -> Names \cup {None}]
    BY <1>5, <2>1 DEF RenameIface
  <2>3. job' \in Job
    BY <1>5, <2>1 DEF RenameIface, Job
  <2> QED
    BY <1>5, <2>2, <2>3 DEF RenameIface
<1>6. ASSUME NEW m \in Macs, Plug(m) PROVE TypeOK'
  <2>1. rules[m] # None => rules[m] \in Names
    BY DEF Rules, Names
  <2>2. name' \in [Macs -> Names \cup {None}]
    BY <1>6, <2>1 DEF Plug, Pinned, Names
  <2> QED
    BY <1>6, <2>2 DEF Plug
<1>7. ASSUME NEW m \in Macs, Unplug(m) PROVE TypeOK'
  BY <1>7 DEF Unplug
<1>8. CASE OpenRules
  <2>1. [rules EXCEPT ![job.mac] = job.iface] \in Rules
    BY <1>8 DEF OpenRules, NewPinIsExclusive, Rules
  <2>2. job' \in Job
    BY <1>8, <2>1 DEF OpenRules, Job
  <2> QED
    BY <1>8, <2>2, EmptyJob DEF OpenRules
<1>9. CASE WriteRules
  BY <1>9 DEF WriteRules, Job
<1>10. CASE InstallService
  <2>1. job.iface \in Names /\ job.mac \in Macs \cup {None}
    BY DEF Job
  <2>2. target' \in Macs \cup {None}
    <3>1. CASE \E m \in Macs : name[m] = job.iface
      <4>1. (CHOOSE m \in Macs : name[m] = job.iface) \in Macs
        BY <3>1
      <4> QED
        BY <1>10, <3>1, <4>1 DEF InstallService
    <3>2. CASE ~\E m \in Macs : name[m] = job.iface
      BY <1>10, <3>2, <2>1 DEF InstallService
    <3> QED
      BY <3>1, <3>2
  <2> QED
    BY <1>10, <2>1, <2>2, EmptyJob DEF InstallService
<1>11. ASSUME NEW purge \in BOOLEAN, Uninstall(purge) PROVE TypeOK'
  <2>1. uninstalls' \in 0..MaxUninstalls
    BY <1>11, BoundsAssumption DEF Uninstall
  <2> QED
    BY <1>11, <2>1, EmptyJob DEF Uninstall
<1>12. CASE Reboot
  BY <1>12, BootNamesType DEF Reboot
<1>13. CASE PowerLoss \/ Abort
  <2>1. crashes' \in 0..MaxCrashes
    BY <1>13, BoundsAssumption DEF PowerLoss, Abort
  <2>2. name' \in [Macs -> Names \cup {None}]
    BY <1>13, BootNamesType DEF PowerLoss, Abort
  <2> QED
    BY <1>13, <2>1, <2>2, EmptyJob DEF PowerLoss, Abort
<1>14. CASE UNCHANGED vars
  BY <1>14 DEF vars
<1>15. CASE OpenUnit
  BY <1>15 DEF OpenUnit
<1> QED
  BY <1>2, <1>3, <1>4, <1>5, <1>6, <1>7, <1>8, <1>9, <1>10, <1>11, <1>12, <1>13, <1>14,
     <1>15 DEF Next

(***************************************************************************)
(* Pins                                                                    *)
(***************************************************************************)
LEMMA NoneIsNoName == None \notin Owned /\ None \notin KernelNames /\ KernelNames \cap Owned = {}
BY NoneAssumption, AdaptersAssumption DEF Names

LEMMA InitPins == Init => PinsInduct
BY DEF Init, NoRules, PinsInduct, NamesAreExclusive, PinsAreExclusive, NewPinIsExclusive,
       WrittenPinsAreExclusive

\* Names given at boot are the kernel's or what the rules say.
LEMMA BootKeepsPins ==
    ASSUME TypeOK, PinsAreExclusive, name' \in BootNames, UNCHANGED rules
    PROVE  NamesAreExclusive' /\ PinsAreExclusive'
<1>1. /\ \A m \in Macs : name'[m] = None \/ name'[m] \in KernelNames
                         \/ (rules[m] # None /\ name'[m] = rules[m])
      /\ \A m, n \in Macs : m # n /\ name'[m] # None => name'[m] # name'[n]
  BY DEF BootNames
<1>2. NamesAreExclusive'
  BY <1>1 DEF NamesAreExclusive
<1>3. ASSUME NEW m \in Macs, NEW n \in Macs, rules[m] # None, m # n
      PROVE  rules[n] # rules[m] /\ name'[n] # rules[m]
  <2>1. rules[n] # rules[m] /\ rules[m] \in Owned
    BY <1>3 DEF PinsAreExclusive, TypeOK, Rules
  <2> QED
    BY <1>1, <2>1, NoneIsNoName
<1> QED
  BY <1>2, <1>3 DEF PinsAreExclusive

LEMMA NextPins == TypeOK /\ TypeOK' /\ PinsInduct /\ [Next]_vars => PinsInduct'
<1> SUFFICES ASSUME TypeOK, TypeOK', [Next]_vars,
                    NamesAreExclusive, PinsAreExclusive, NewPinIsExclusive, WrittenPinsAreExclusive
             PROVE  NamesAreExclusive' /\ PinsAreExclusive' /\ NewPinIsExclusive'
                    /\ WrittenPinsAreExclusive'
  BY DEF PinsInduct
<1> DEFINE Goal == NamesAreExclusive' /\ PinsAreExclusive' /\ NewPinIsExclusive'
                   /\ WrittenPinsAreExclusive'
<1> USE DEF machine, history
<1>1. ASSUME UNCHANGED <<name, rules>> PROVE NamesAreExclusive' /\ PinsAreExclusive'
  BY <1>1 DEF NamesAreExclusive, PinsAreExclusive
<1>2. ASSUME step' \notin {"pin", "write"} PROVE NewPinIsExclusive' /\ WrittenPinsAreExclusive'
  BY <1>2 DEF NewPinIsExclusive, WrittenPinsAreExclusive
<1>3. ASSUME NEW iface, NEW force, SetupIdentity(iface, force) PROVE Goal
  <2>1. CASE LoadFails
    BY <2>1 DEF LoadFails, vars, NamesAreExclusive, PinsAreExclusive, NewPinIsExclusive,
                WrittenPinsAreExclusive
  <2>2. CASE LoadKey(iface) \/ GenerateKey(iface, force)
    BY <2>2, <1>1, <1>2 DEF LoadKey, GenerateKey, Begin
  <2> QED
    BY <1>3, <2>1, <2>2 DEF SetupIdentity
<1>4. CASE SaveKey \/ KeepName \/ OpenUnit \/ InstallService
  BY <1>4, <1>1, <1>2 DEF SaveKey, KeepName, OpenUnit, InstallService
<1>5. ASSUME NEW m \in Macs, RenameIface(m) PROVE Goal
  <2> DEFINE new == AllocateName(m)
  <2>1. /\ new \in Owned /\ new \notin Live
        /\ rules[m] = None => new \notin Claimed
        /\ rules[m] # None => new = rules[m]
    BY <1>5, AllocatedName DEF RenameIface, TypeOK, AllocateName
  <2>2. /\ name' = [name EXCEPT ![m] = new] /\ rules' = rules
        /\ step' = "pin" /\ job' = [job EXCEPT !.mac = m, !.iface = new]
    BY <1>5 DEF RenameIface
  <2> HIDE DEF new
  <2>3. \A n \in Macs : name[n] # new
    BY <2>1, NoneIsNoName DEF Live, Range, TypeOK
  <2>4. \A n \in Macs \ {m} : rules[n] # new
    <3>1. CASE rules[m] = None
      BY <3>1, <2>1, NoneIsNoName DEF Claimed, Range, TypeOK, Rules
    <3>2. CASE rules[m] # None
      BY <3>2, <2>1 DEF PinsAreExclusive
    <3> QED
      BY <3>1, <3>2
  <2>5. \A n \in Macs : name'[n] = IF n = m THEN new ELSE name[n]
    BY <2>2 DEF TypeOK
  <2>6. NamesAreExclusive'
    BY <2>3, <2>5 DEF NamesAreExclusive
  <2>7. PinsAreExclusive'
    BY <2>2, <2>4, <2>5 DEF PinsAreExclusive
  <2>8. NewPinIsExclusive'
    <3>1. job'.mac = m /\ job'.iface = new
      BY <2>2 DEF TypeOK, Job
    <3> QED
      BY <3>1, <2>1, <2>2, <2>3, <2>4, <2>5 DEF NewPinIsExclusive
  <2>9. WrittenPinsAreExclusive'
    BY <2>2 DEF WrittenPinsAreExclusive
  <2> QED
    BY <2>6, <2>7, <2>8, <2>9
<1>6. ASSUME NEW m \in Macs, Plug(m) PROVE Goal
  <2>1. PICK x : /\ name' = [name EXCEPT ![m] = x]
                 /\ \/ rules[m] # None /\ x = rules[m] /\ x \notin Live
                    \/ x \in KernelNames /\ x \notin Live
    BY <1>6 DEF Plug, Pinned
  <2>2. /\ \A n \in Macs : name'[n] = IF n = m THEN x ELSE name[n]
        /\ UNCHANGED <<rules, step, job>>
    BY <1>6, <2>1 DEF Plug, TypeOK
  <2>3. x # None /\ \A n \in Macs : name[n] # x
    BY <2>1, NoneIsNoName DEF Live, Range, TypeOK
  <2>4. NamesAreExclusive'
    BY <2>2, <2>3 DEF NamesAreExclusive
  <2>5. ASSUME NEW y \in Owned, rules[m] # y PROVE x # y
    BY <2>1, <2>5, NoneIsNoName
  <2>6. PinsAreExclusive'
    <3>1. ASSUME NEW j \in Macs, NEW n \in Macs, rules[j] # None, j # n
          PROVE  rules[n] # rules[j] /\ name'[n] # rules[j]
      <4>1. rules[n] # rules[j] /\ name[n] # rules[j] /\ rules[j] \in Owned
        BY <3>1 DEF PinsAreExclusive, TypeOK, Rules
      <4> QED
        BY <4>1, <2>2, <2>5
    <3> QED
      BY <3>1, <2>2 DEF PinsAreExclusive
  <2>7. NewPinIsExclusive'
    BY <2>2, <2>5 DEF NewPinIsExclusive
  <2>8. WrittenPinsAreExclusive'
    <3>1. ASSUME step = "write", NEW j \in Macs, NEW n \in Macs, job.pins[j] # None, j # n
          PROVE  job.pins[n] # job.pins[j] /\ name'[n] # job.pins[j]
      <4>1. job.pins[j] \in Owned /\ rules[m] = None
        BY <3>1 DEF WrittenPinsAreExclusive, NoRules, TypeOK, Job, Rules
      <4>2. job.pins[n] # job.pins[j] /\ name[n] # job.pins[j]
        BY <3>1 DEF WrittenPinsAreExclusive
      <4> QED
        BY <4>1, <4>2, <2>2, <2>5, NoneIsNoName
    <3> QED
      BY <3>1, <2>2 DEF WrittenPinsAreExclusive
  <2> QED
    BY <2>4, <2>6, <2>7, <2>8
<1>7. ASSUME NEW m \in Macs, Unplug(m) PROVE Goal
  <2>1. /\ \A n \in Macs : name'[n] = IF n = m THEN None ELSE name[n]
        /\ UNCHANGED <<rules, step, job>>
    BY <1>7 DEF Unplug, TypeOK
  <2>2. NamesAreExclusive'
    BY <2>1 DEF NamesAreExclusive
  <2>3. PinsAreExclusive'
    BY <2>1 DEF PinsAreExclusive
  <2>4. NewPinIsExclusive'
    BY <2>1, NoneIsNoName DEF NewPinIsExclusive
  <2>5. WrittenPinsAreExclusive'
    BY <2>1 DEF WrittenPinsAreExclusive
  <2> QED
    BY <2>2, <2>3, <2>4, <2>5
<1>8. CASE OpenRules
  <2>1. /\ step = "pin" /\ step' = "write" /\ rules' = NoRules /\ name' = name
        /\ job' = [job EXCEPT !.pins = [rules EXCEPT ![job.mac] = job.iface]]
    BY <1>8 DEF OpenRules
  <2>2. NamesAreExclusive' /\ PinsAreExclusive' /\ NewPinIsExclusive'
    BY <2>1 DEF NamesAreExclusive, PinsAreExclusive, NewPinIsExclusive, NoRules
  <2>3. /\ job.mac \in Macs
        /\ \A n \in Macs \ {job.mac} : rules[n] # job.iface /\ name[n] # job.iface
    BY <2>1 DEF NewPinIsExclusive
  <2>4. \A n \in Macs : job'.pins[n] = IF n = job.mac THEN job.iface ELSE rules[n]
    BY <2>1, <2>3 DEF TypeOK, Job, Rules
  <2>5. ASSUME NEW m \in Macs, NEW n \in Macs, job'.pins[m] # None, m # n
        PROVE  job'.pins[n] # job'.pins[m] /\ name[n] # job'.pins[m]
    <3>1. CASE m = job.mac
      BY <3>1, <2>3, <2>4, <2>5
    <3>2. CASE m # job.mac
      <4>1. job'.pins[m] = rules[m] /\ rules[n] # rules[m] /\ name[n] # rules[m]
        BY <3>2, <2>4, <2>5 DEF PinsAreExclusive
      <4> QED
        BY <4>1, <3>2, <2>3, <2>4
    <3> QED
      BY <3>1, <3>2
  <2>6. WrittenPinsAreExclusive'
    BY <2>1, <2>5 DEF WrittenPinsAreExclusive
  <2> QED
    BY <2>2, <2>6
<1>9. CASE WriteRules
  <2>1. /\ step = "write" /\ step' = "install" /\ rules' = job.pins /\ name' = name
    BY <1>9 DEF WriteRules
  <2>2. NamesAreExclusive' /\ PinsAreExclusive'
    BY <2>1 DEF NamesAreExclusive, PinsAreExclusive, WrittenPinsAreExclusive
  <2> QED
    BY <2>1, <2>2, <1>2
<1>10. ASSUME NEW purge, Uninstall(purge) PROVE Goal
  <2>1. step' = "idle" /\ rules' = NoRules /\ name' = name
    BY <1>10 DEF Uninstall
  <2>2. NamesAreExclusive' /\ PinsAreExclusive'
    BY <2>1 DEF NamesAreExclusive, PinsAreExclusive, NoRules
  <2> QED
    BY <2>1, <2>2, <1>2
<1>11. CASE Reboot \/ PowerLoss
  <2>1. step' = "idle" /\ name' \in BootNames /\ UNCHANGED rules
    BY <1>11 DEF Reboot, PowerLoss
  <2> QED
    BY <2>1, <1>2, BootKeepsPins
<1>12. CASE Abort
  BY <1>12, <1>1, <1>2 DEF Abort
<1>13. CASE UNCHANGED vars
  BY <1>13 DEF vars, NamesAreExclusive, PinsAreExclusive, NewPinIsExclusive,
               WrittenPinsAreExclusive
<1> QED
  BY <1>3, <1>4, <1>5, <1>6, <1>7, <1>8, <1>9, <1>10, <1>11, <1>12, <1>13 DEF Next

\* Every variable of a setup keeps its type, for any adapters and bounds.
THEOREM TypeCorrect == Spec => []TypeOK
<1>1. TypeOK /\ PinsInduct /\ [Next]_vars => TypeOK'
  BY NextType DEF PinsInduct
<1> QED
  BY <1>1, InitType, InitPins, NextPins, PTL DEF Spec

\* No interface name is pinned to two adapters or held by another than the one it
\* is pinned to, wherever setups are cut and whatever is plugged in meanwhile.
THEOREM PinsStayExclusive == Spec => []PinsAreExclusive
<1>1. TypeOK /\ PinsInduct /\ [Next]_vars => TypeOK'
  BY NextType DEF PinsInduct
<1>2. PinsInduct => PinsAreExclusive
  BY DEF PinsInduct
<1> QED
  BY <1>1, <1>2, InitType, InitPins, NextPins, PTL DEF Spec

(***************************************************************************)
(* Identity                                                                *)
(***************************************************************************)
LEMMA NextIdentity == TypeOK /\ IdentityInduct /\ [Next]_vars => IdentityInduct'
<1> SUFFICES ASSUME TypeOK, IdentityInduct, [Next]_vars PROVE IdentityInduct'
  OBVIOUS
<1> USE DEF IdentityInduct, ServiceHasIdentity, machine, history
<1>1. ASSUME NEW iface, NEW force, SetupIdentity(iface, force) PROVE IdentityInduct'
  <2>1. CASE LoadFails
    BY <2>1 DEF LoadFails, vars
  <2>2. CASE LoadKey(iface)
    BY <2>2 DEF LoadKey, Begin
  <2>3. CASE GenerateKey(iface, force)
    BY <2>3 DEF GenerateKey, Begin
  <2> QED
    BY <1>1, <2>1, <2>2, <2>3 DEF SetupIdentity
<1>2. CASE SaveKey
  BY <1>2 DEF SaveKey
<1>3. CASE KeepName \/ OpenRules \/ WriteRules \/ OpenUnit \/ InstallService
  BY <1>3 DEF KeepName, OpenRules, WriteRules, OpenUnit, InstallService
<1>4. ASSUME NEW m \in Macs, RenameIface(m) \/ Plug(m) \/ Unplug(m) PROVE IdentityInduct'
  BY <1>4 DEF RenameIface, Plug, Unplug
<1>5. ASSUME NEW purge, Uninstall(purge) PROVE IdentityInduct'
  BY <1>5 DEF Uninstall
<1>6. CASE Reboot \/ PowerLoss \/ Abort
  BY <1>6 DEF Reboot, PowerLoss, Abort
<1>7. CASE UNCHANGED vars
  BY <1>7 DEF vars
<1> QED
  BY <1>1, <1>2, <1>3, <1>4, <1>5, <1>6, <1>7 DEF Next

\* A service that is installed finds a key that loads, wherever setups are cut,
\* unless --force-keys was replacing the key.
THEOREM ServicesHaveIdentity == Spec => []ServiceHasIdentity
<1>1. Init => IdentityInduct
  BY DEF Init, IdentityInduct, ServiceHasIdentity
<1>2. IdentityInduct => ServiceHasIdentity
  BY DEF IdentityInduct
<1> QED
  BY <1>1, <1>2, NextIdentity, TypeCorrect, PTL DEF Spec

(***************************************************************************)
(* The first name survives reboots                                         *)
(***************************************************************************)
LEMMA InitNames == Init => NamesArePinned
<1> SUFFICES ASSUME Init PROVE NamesArePinned
  OBVIOUS
<1>1. \A m \in Macs : name[m] \notin Owned
  BY NoneIsNoName DEF Init
<1>2. unit \notin Owned /\ step = "idle" /\ job.mac = None
  BY NoneIsNoName DEF Init, NoJob
<1> QED
  BY <1>1, <1>2 DEF NamesArePinned

\* Cutting a setup short and uninstalling are counted.
LEMMA NotCut ==
    ASSUME TypeOK, [Next]_vars, crashes' = 0, uninstalls' = 0
    PROVE  /\ crashes = 0 /\ uninstalls = 0
           /\ ~PowerLoss /\ ~Abort /\ \A purge : ~Uninstall(purge)
<1>1. crashes \in Nat /\ uninstalls \in Nat
  BY BoundsAssumption DEF TypeOK
<1>2. ~PowerLoss /\ ~Abort /\ \A purge : ~Uninstall(purge)
  BY <1>1 DEF PowerLoss, Abort, Uninstall
<1>3. UNCHANGED <<crashes, uninstalls>>
  BY <1>2 DEF Next, SetupIdentity, LoadFails, LoadKey, GenerateKey, SaveKey, KeepName,
              RenameIface, Plug, Unplug, OpenRules, WriteRules, OpenUnit, InstallService,
              Reboot, vars, machine, history
<1> QED
  BY <1>2, <1>3

LEMMA NextNames ==
    TypeOK /\ PinsInduct /\ NamesArePinned /\ [Next]_vars => NamesArePinned'
<1> SUFFICES ASSUME TypeOK, PinsInduct, NamesArePinned, [Next]_vars,
                    crashes' = 0, uninstalls' = 0
             PROVE  /\ \A m \in Macs : name'[m] \in Owned => PinsToBe'[m] = name'[m]
                    /\ unit' \in Owned /\ target' # None => PinsToBe'[target'] = unit'
                    /\ step' = "pin" => rules'[job'.mac] \in {None, job'.iface}
                    /\ step' \in {"save", "rename"} => job'.mac = None
                    /\ step' \in {"pin", "write"} => job'.mac # None
                    /\ job'.mac # None => PinsToBe'[job'.mac] = job'.iface
  BY DEF NamesArePinned
<1> DEFINE Goal ==
      /\ \A m \in Macs : name'[m] \in Owned => PinsToBe'[m] = name'[m]
      /\ unit' \in Owned /\ target' # None => PinsToBe'[target'] = unit'
      /\ step' = "pin" => rules'[job'.mac] \in {None, job'.iface}
      /\ step' \in {"save", "rename"} => job'.mac = None
      /\ step' \in {"pin", "write"} => job'.mac # None
      /\ job'.mac # None => PinsToBe'[job'.mac] = job'.iface
<1> USE DEF machine, history
<1>1. /\ crashes = 0 /\ uninstalls = 0
      /\ ~PowerLoss /\ ~Abort /\ \A purge : ~Uninstall(purge)
  BY NotCut
<1>2. /\ \A m \in Macs : name[m] \in Owned => PinsToBe[m] = name[m]
      /\ unit \in Owned /\ target # None => PinsToBe[target] = unit
      /\ step = "pin" => rules[job.mac] \in {None, job.iface}
      /\ step \in {"save", "rename"} => job.mac = None
      /\ step \in {"pin", "write"} => job.mac # None
      /\ job.mac # None => PinsToBe[job.mac] = job.iface
  BY <1>1 DEF NamesArePinned
<1>3. /\ name \in [Macs -> Names \cup {None}] /\ rules \in [Macs -> Owned \cup {None}]
      /\ job \in Job /\ target \in Macs \cup {None}
  BY DEF TypeOK, Rules
<1>4. ASSUME step \notin {"pin", "write"} PROVE PinsToBe = rules
  BY <1>4 DEF PinsToBe
<1>5. ASSUME step' \notin {"pin", "write"} PROVE PinsToBe' = rules'
  BY <1>5 DEF PinsToBe
<1>6. ASSUME UNCHANGED <<rules, step, job>> PROVE PinsToBe' = PinsToBe
  BY <1>6 DEF PinsToBe
<1>7. ASSUME NEW iface, NEW next \in {"rename", "save"}, Begin(iface, next),
             UNCHANGED <<name, rules, unit, target>>
      PROVE  Goal
  <2>1. step = "idle" /\ step' = next /\ job' = [NoJob EXCEPT !.iface = iface]
    BY <1>7 DEF Begin
  <2>2. job'.mac = None
    BY <2>1 DEF NoJob
  <2>3. PinsToBe = rules /\ PinsToBe' = rules
    BY <2>1, <1>4, <1>5, <1>7
  <2> QED
    BY <2>1, <2>2, <2>3, <1>2, <1>7
<1>8. ASSUME NEW iface, NEW force, SetupIdentity(iface, force) PROVE Goal
  <2>1. CASE LoadFails
    BY <2>1, <1>2, <1>6 DEF LoadFails, vars
  <2>2. CASE LoadKey(iface)
    BY <2>2, <1>7 DEF LoadKey
  <2>3. CASE GenerateKey(iface, force)
    BY <2>3, <1>7 DEF GenerateKey
  <2> QED
    BY <1>8, <2>1, <2>2, <2>3 DEF SetupIdentity
<1>9. CASE SaveKey \/ KeepName
  <2>1. /\ step \in {"save", "rename"} /\ step' \in {"rename", "idle", "install"}
        /\ UNCHANGED <<name, rules, unit, target, job>>
    BY <1>9 DEF SaveKey, KeepName
  <2>2. PinsToBe = rules /\ PinsToBe' = rules
    BY <2>1, <1>4, <1>5
  <2> QED
    BY <2>1, <2>2, <1>2
<1>10. ASSUME NEW m \in Macs, RenameIface(m) PROVE Goal
  <2> DEFINE new == AllocateName(m)
  <2>1. new \in Owned /\ (rules[m] # None => new = rules[m])
    BY <1>3, AllocatedName DEF AllocateName, Rules
  <2>2. /\ name' = [name EXCEPT ![m] = new] /\ rules' = rules /\ unit' = unit
        /\ step = "rename" /\ step' = "pin" /\ target' = target
        /\ job' = [job EXCEPT !.mac = m, !.iface = new]
    BY <1>10 DEF RenameIface
  <2> HIDE DEF new
  <2>3. job'.mac = m /\ job'.iface = new
    BY <2>2, <1>3 DEF Job
  <2>4. PinsToBe = rules /\ PinsToBe' = [rules EXCEPT ![m] = new]
    BY <2>2, <2>3, <1>4 DEF PinsToBe
  <2>5. /\ \A n \in Macs : name'[n] = IF n = m THEN new ELSE name[n]
        /\ \A n \in Macs : PinsToBe'[n] = IF n = m THEN new ELSE rules[n]
    BY <2>2, <2>4, <1>3
  <2>6. \A n \in Macs : name'[n] \in Owned => PinsToBe'[n] = name'[n]
    BY <2>4, <2>5, <1>2
  <2>7. unit' \in Owned /\ target' # None => PinsToBe'[target'] = unit'
    BY <2>1, <2>2, <2>4, <2>5, <1>2, <1>3, NoneIsNoName
  <2>8. rules'[job'.mac] \in {None, job'.iface}
    BY <2>1, <2>2, <2>3
  <2>9. job'.mac # None /\ PinsToBe'[job'.mac] = job'.iface
    BY <2>3, <2>5, NoneAssumption
  <2> QED
    BY <2>2, <2>6, <2>7, <2>8, <2>9
<1>11. ASSUME NEW m \in Macs, Plug(m) \/ Unplug(m) PROVE Goal
  <2>1. PICK x : /\ name' = [name EXCEPT ![m] = x]
                 /\ x = None \/ x \in KernelNames \/ (rules[m] # None /\ x = rules[m])
    BY <1>11 DEF Plug, Unplug, Pinned
  <2>2. /\ \A n \in Macs : name'[n] = IF n = m THEN x ELSE name[n]
        /\ UNCHANGED <<rules, unit, step, job, target>>
    BY <1>11, <2>1, <1>3 DEF Plug, Unplug
  <2>3. PinsToBe' = PinsToBe
    BY <2>2, <1>6
  <2>4. ASSUME x \in Owned PROVE PinsToBe[m] = x
    <3>1. rules[m] # None /\ x = rules[m]
      BY <2>1, <2>4, NoneIsNoName
    <3>2. CASE step = "pin"
      <4>1. PinsToBe = [rules EXCEPT ![job.mac] = job.iface]
        BY <3>2 DEF PinsToBe
      <4> QED
        BY <4>1, <3>1, <3>2, <1>2, <1>3
    <3>3. CASE step = "write"
      BY <3>1, <3>3 DEF PinsInduct, WrittenPinsAreExclusive, NoRules
    <3> QED
      BY <3>1, <3>2, <3>3, <1>4
  <2> QED
    BY <2>2, <2>3, <2>4, <1>2
<1>12. CASE OpenRules \/ WriteRules
  <2>1. /\ PinsToBe' = PinsToBe /\ UNCHANGED <<name, unit, target>>
        /\ step \in {"pin", "write"} /\ step' \in {"write", "install"}
        /\ job'.mac = job.mac /\ job'.iface = job.iface
    <3>1. CASE OpenRules
      <4>1. job'.pins = [rules EXCEPT ![job.mac] = job.iface]
            /\ job'.mac = job.mac /\ job'.iface = job.iface
        BY <3>1, <1>3 DEF OpenRules, Job
      <4> QED
        BY <3>1, <4>1 DEF OpenRules, PinsToBe
    <3>2. CASE WriteRules
      BY <3>2 DEF WriteRules, PinsToBe
    <3> QED
      BY <1>12, <3>1, <3>2
  <2> QED
    BY <2>1, <1>2
<1>13. CASE InstallService
  <2>1. /\ step = "unit" /\ step' = "idle" /\ unit' = job.iface
        /\ job' = NoJob /\ UNCHANGED <<name, rules>>
        /\ target' = IF \E m \in Macs : name[m] = job.iface
                     THEN CHOOSE m \in Macs : name[m] = job.iface ELSE job.mac
    BY <1>13 DEF InstallService
  <2>2. PinsToBe = rules /\ PinsToBe' = rules /\ job'.mac = None
    BY <2>1, <1>4, <1>5 DEF NoJob
  <2>3. ASSUME unit' \in Owned, target' # None PROVE rules[target'] = unit'
    <3>1. CASE \E m \in Macs : name[m] = job.iface
      <4>1. target' \in Macs /\ name[target'] = job.iface
        BY <2>1, <3>1
      <4> QED
        BY <4>1, <2>1, <2>2, <2>3, <1>2
    <3>2. CASE ~\E m \in Macs : name[m] = job.iface
      BY <2>1, <2>2, <2>3, <3>2, <1>2
    <3> QED
      BY <3>1, <3>2
  <2> QED
    BY <2>1, <2>2, <2>3, <1>2
<1>14. CASE Reboot
  <2>1. /\ step = "idle" /\ name' \in BootNames
        /\ UNCHANGED <<rules, unit, step, job, target>>
    BY <1>14 DEF Reboot
  <2>2. PinsToBe = rules /\ PinsToBe' = rules
    BY <2>1, <1>4, <1>6
  <2>3. \A m \in Macs : name'[m] \in Owned => rules[m] = name'[m]
    BY <2>1, NoneIsNoName DEF BootNames
  <2> QED
    BY <2>1, <2>2, <2>3, <1>2
<1>15. CASE UNCHANGED vars
  BY <1>15, <1>2, <1>6 DEF vars
<1>16. CASE OpenUnit
  <2>1. PinsToBe' = PinsToBe /\ target' = None /\ step' = "unit" /\ UNCHANGED <<name, job>>
    BY <1>16 DEF OpenUnit, PinsToBe
  <2> QED
    BY <2>1, <1>2
<1> QED
  BY <1>1, <1>8, <1>9, <1>10, <1>11, <1>12, <1>13, <1>14, <1>15, <1>16 DEF Next

\* At a reboot an adapter that is there and has a rule comes up under its name.
LEMMA RebootKeepsName ==
    TypeOK /\ NamesArePinned => (crashes = 0 /\ uninstalls = 0 => ~RebootRenames)
<1> SUFFICES ASSUME TypeOK, NamesArePinned, crashes = 0, uninstalls = 0, RebootRenames
             PROVE  FALSE
  OBVIOUS
<1>1. /\ unit \in Owned /\ target \in Macs /\ name[target] # None /\ name'[target] # unit
      /\ step = "idle" /\ name' \in BootNames
  BY DEF RebootRenames, Reboot, TypeOK
<1>2. rules[target] = unit /\ rules[target] # None
  BY <1>1, NoneIsNoName, NoneAssumption DEF NamesArePinned, PinsToBe
<1>3. name'[target] = rules[target]
  BY <1>1, <1>2 DEF BootNames
<1> QED
  BY <1>1, <1>2, <1>3

\* A service that was installed for an adapter under a name of ours finds it by that
\* name after every reboot, as long as no setup was cut short and nothing uninstalled.
THEOREM NamesSurviveReboots == Spec => FirstNameSurvivesReboot
<1>1. TypeOK /\ PinsInduct /\ [Next]_vars => TypeOK'
  BY NextType DEF PinsInduct
<1>2. Spec => [](TypeOK /\ PinsInduct /\ NamesArePinned)
  BY <1>1, InitType, InitPins, InitNames, NextPins, NextNames, PTL DEF Spec
<1> QED
  BY <1>2, RebootKeepsName, PTL DEF Spec, FirstNameSurvivesReboot
=============================================================================
