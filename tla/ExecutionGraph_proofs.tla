----------------------- MODULE ExecutionGraph_proofs ------------------------
(***************************************************************************)
(* The runners and their budget are correct for every finite set of runs,  *)
(* every graph and every limit.                                            *)
(***************************************************************************)
EXTENDS ExecutionGraphInvariant, FiniteSetTheorems, SequenceTheorems,
        WellFoundedInduction, TLAPS

LEMMA UnitFinite == IsFiniteSet(Unit) /\ Unit \subseteq Nat
  BY FS_Interval, GraphAssumption DEF Unit, GraphAssumption

LEMMA SetOfUnits ==
  ASSUME NEW S \in SUBSET Unit
  PROVE  IsFiniteSet(S) /\ Cardinality(S) \in Nat
  BY UnitFinite, FS_Subset, FS_CardinalityType

LEMMA LeastUnit ==
  ASSUME NEW S \in SUBSET Unit, S # {}
  PROVE  \E u \in S : \A o \in S : u <= o
  <1> DEFINE R == {p \in Nat \X Nat : p[1] < p[2]}
  <1>1. R = OpToRel(<, Nat)
    BY DEF OpToRel
  <1>2. IsWellFoundedOn(R, Nat)
    BY <1>1, NatLessThanWellFounded
  <1>3. \A a, b \in Nat : <<a, b>> \in R <=> a < b
    OBVIOUS
  <1>4. S \subseteq Nat
    BY UnitFinite
  <1> HIDE DEF R
  <1>5. \E u \in S : \A o \in S : ~ (<<o, u>> \in R)
    BY <1>2, <1>4, WFMin
  <1>6. PICK u \in S : \A o \in S : ~ (<<o, u>> \in R)
    BY <1>5
  <1>7. \A o \in S : ~ (o < u)
    BY <1>3, <1>4, <1>6
  <1> QED
    BY <1>4, <1>7

(* A queue without its first element, and without its i-th.                *)
LEMMA DropFirst ==
  ASSUME NEW S, NEW s \in Seq(S), s # <<>>
  PROVE  /\ SubSeq(s, 2, Len(s)) \in Seq(S)
         /\ Len(SubSeq(s, 2, Len(s))) = Len(s) - 1
         /\ \A i \in 1..(Len(s) - 1) : SubSeq(s, 2, Len(s))[i] = s[i + 1]
  <1>1. SubSeq(s, 2, Len(s)) = Tail(s)
    BY TailIsSubSeq, Zenon
  <1>2. /\ Tail(s) \in Seq(S) /\ Len(Tail(s)) = Len(s) - 1
        /\ \A i \in 1..Len(Tail(s)) : Tail(s)[i] = s[i + 1]
    BY HeadTailProperties, Zenon
  <1> QED
    BY <1>1, <1>2, Zenon

LEMMA DropAt ==
  ASSUME NEW S, NEW s \in Seq(S), NEW i \in 1..Len(s)
  PROVE  LET q == SubSeq(s, 1, i - 1) \o SubSeq(s, i + 1, Len(s))
         IN
         /\ q \in Seq(S) /\ Len(q) = Len(s) - 1
         /\ \A k \in 1..(Len(s) - 1) : q[k] = IF k < i THEN s[k] ELSE s[k + 1]
  <1>1. Len(s) \in Nat /\ i \in Nat /\ i >= 1 /\ i <= Len(s) /\ \A k \in 1..Len(s) : s[k] \in S
    BY LenProperties, ElementOfSeq
  <1> DEFINE a == SubSeq(s, 1, i - 1)
             b == SubSeq(s, i + 1, Len(s))
             q == SubSeq(s, 1, i - 1) \o SubSeq(s, i + 1, Len(s))
  <1> HIDE DEF q
  <1>2. /\ a \in Seq(S)
        /\ Len(a) = IF 1 <= i - 1 THEN i - 1 - 1 + 1 ELSE 0
        /\ \A k \in 1..(i - 1 - 1 + 1) : a[k] = s[1 + k - 1]
    <2>1. 1 \in Int /\ i - 1 \in Int /\ \A k \in 1..(i - 1) : s[k] \in S
      BY <1>1
    <2> QED
      BY <2>1, SubSeqProperties
  <1>3. /\ b \in Seq(S)
        /\ Len(b) = IF i + 1 <= Len(s) THEN Len(s) - (i + 1) + 1 ELSE 0
        /\ \A k \in 1..(Len(s) - (i + 1) + 1) : b[k] = s[(i + 1) + k - 1]
    <2>1. i + 1 \in Int /\ Len(s) \in Int /\ \A k \in (i + 1)..Len(s) : s[k] \in S
      BY <1>1
    <2> QED
      BY <2>1, SubSeqProperties
  <1>4. Len(a) = i - 1 /\ Len(b) = Len(s) - i
    BY <1>1, <1>2, <1>3
  <1> HIDE DEF a, b
  <1>5. /\ q \in Seq(S)
        /\ Len(q) = Len(a) + Len(b)
        /\ \A k \in 1..(Len(a) + Len(b)) :
             q[k] = IF k <= Len(a) THEN a[k] ELSE b[k - Len(a)]
    <2>1. a \in Seq(S) /\ b \in Seq(S)
      BY <1>2, <1>3
    <2>2. /\ a \o b \in Seq(S)
          /\ Len(a \o b) = Len(a) + Len(b)
          /\ \A k \in 1..(Len(a) + Len(b)) :
               (a \o b)[k] = IF k <= Len(a) THEN a[k] ELSE b[k - Len(a)]
      BY <2>1, ConcatProperties, Zenon
    <2>3. q = a \o b
      BY Zenon DEF a, b, q
    <2> QED
      BY <2>2, <2>3, Zenon
  <1>6. Len(q) = Len(s) - 1
    BY <1>1, <1>4, <1>5
  <1>7. ASSUME NEW k \in 1..(Len(s) - 1)
        PROVE  q[k] = IF k < i THEN s[k] ELSE s[k + 1]
    <2>1. q[k] = IF k <= i - 1 THEN a[k] ELSE b[k - (i - 1)]
      BY <1>1, <1>4, <1>5, <1>7
    <2>2. CASE k < i
      <3>1. k \in 1..(i - 1 - 1 + 1) /\ 1 + k - 1 = k /\ k <= i - 1
        BY <1>1, <1>7, <2>2
      <3>2. a[k] = s[k]
        BY <1>2, <3>1
      <3> QED
        BY <2>1, <2>2, <3>1, <3>2
    <2>3. CASE ~(k < i)
      <3>1. /\ k - (i - 1) \in 1..(Len(s) - (i + 1) + 1)
            /\ (i + 1) + (k - (i - 1)) - 1 = k + 1 /\ ~(k <= i - 1)
        BY <1>1, <1>7, <2>3
      <3>2. b[k - (i - 1)] = s[k + 1]
        BY <1>3, <3>1
      <3> QED
        BY <2>1, <2>3, <3>1, <3>2
    <2> QED
      BY <2>2, <2>3
  <1> QED
    BY <1>5, <1>6, <1>7, Zenon DEF q

(* Release hands the slot to the oldest waiter, or frees it.               *)
LEMMA ReleaseEffect ==
  ASSUME TypeOK, BudgetAccounts, NEW unseen, Release(unseen), active > 0
  PROVE  \/ /\ waiters = <<>> /\ waiters' = <<>>
            /\ active' = active - 1 /\ granted' = unseen
         \/ /\ Len(waiters) > 0
            /\ active' = active /\ active = Limit
            /\ granted' = unseen \cup {waiters[1]}
            /\ waiters' \in Seq(Run)
            /\ Len(waiters') = Len(waiters) - 1
            /\ \A i \in 1..(Len(waiters) - 1) : waiters'[i] = waiters[i + 1]
  <1> USE BudgetAssumption DEF BudgetAssumption
  <1>1. active \in Nat /\ waiters \in Seq(Run) /\ active <= Limit /\ Len(waiters) \in Nat
    BY DEF TypeOK, BudgetAccounts
  <1>2. CASE waiters = <<>>
    <2>1. Len(waiters) = 0
      BY <1>2
    <2> DEFINE left == IF active > 0 THEN active - 1 ELSE 0
           n == IF Limit - left < Len(waiters) THEN Limit - left ELSE Len(waiters)
    <2>2. n = 0
      BY <1>1, <2>1
    <2>3. /\ active' = left + n
          /\ granted' = unseen \cup {waiters[i] : i \in 1..n}
          /\ waiters' = SubSeq(waiters, n + 1, Len(waiters))
      BY DEF Release
    <2>4. SubSeq(waiters, 1, 0) = <<>>
      BY <1>2
    <2> QED
      BY <1>1, <1>2, <2>1, <2>2, <2>3, <2>4
  <1>3. CASE waiters # <<>>
    <2>1. Len(waiters) > 0 /\ active = Limit
      BY <1>1, <1>3 DEF BudgetAccounts
    <2> DEFINE left == IF active > 0 THEN active - 1 ELSE 0
           n == IF Limit - left < Len(waiters) THEN Limit - left ELSE Len(waiters)
    <2>2. n = 1
      <3>1. left = Limit - 1 /\ Limit - left = 1
        BY <1>1, <2>1
      <3> HIDE DEF left
      <3> QED
        BY <1>1, <2>1, <3>1
    <2>3. /\ active' = left + n
          /\ granted' = unseen \cup {waiters[i] : i \in 1..n}
          /\ waiters' = SubSeq(waiters, n + 1, Len(waiters))
      BY DEF Release
    <2> HIDE DEF n
    <2>4. {waiters[i] : i \in 1..1} = {waiters[1]}
      OBVIOUS
    <2>5. /\ waiters' = SubSeq(waiters, 2, Len(waiters))
          /\ active' = active
          /\ granted' = unseen \cup {waiters[1]}
      BY <1>1, <2>1, <2>2, <2>3, <2>4
    <2>6. /\ waiters' \in Seq(Run)
          /\ Len(waiters') = Len(waiters) - 1
          /\ \A i \in 1..(Len(waiters) - 1) : waiters'[i] = waiters[i + 1]
      BY <1>1, <1>3, <2>5, DropFirst, Zenon
    <2> QED
      BY <2>1, <2>5, <2>6
  <1> QED
    BY <1>2, <1>3

LEMMA RemoveEffect ==
  ASSUME TypeOK, NEW r, RemoveWaiter(r)
  PROVE  /\ active' = active /\ granted' = granted
         /\ waiters' \in Seq(Run) /\ Len(waiters') = Len(waiters) - 1
         /\ \E i \in 1..Len(waiters) :
              /\ waiters[i] = r
              /\ \A k \in 1..(Len(waiters) - 1) :
                   waiters'[k] = IF k < i THEN waiters[k] ELSE waiters[k + 1]
  <1>1. waiters \in Seq(Run) /\ DOMAIN waiters = 1..Len(waiters)
    BY LenProperties DEF TypeOK
  <1>2. PICK i \in DOMAIN waiters :
          /\ waiters[i] = r
          /\ waiters' = SubSeq(waiters, 1, i - 1) \o SubSeq(waiters, i + 1, Len(waiters))
          /\ active' = active /\ granted' = granted
    BY Zenon DEF RemoveWaiter
  <1>3. i \in 1..Len(waiters)
    BY <1>1
  <1>4. /\ waiters' \in Seq(Run) /\ Len(waiters') = Len(waiters) - 1
        /\ \A k \in 1..(Len(waiters) - 1) :
             waiters'[k] = IF k < i THEN waiters[k] ELSE waiters[k + 1]
    BY <1>1, <1>2, <1>3, DropAt, Zenon
  <1> QED
    BY <1>2, <1>3, <1>4

(* What is known of a unit depends on its own run only.                    *)
LEMMA NodeFrame ==
  ASSUME NEW o \in Run, graph'[o] = graph[o], node'[o] = node[o]
  PROVE  /\ Reserved(o)' = Reserved(o) /\ Pending(o)' = Pending(o)
         /\ \A u \in Unit : /\ DependenciesSucceeded(o, u)' <=> DependenciesSucceeded(o, u)
                            /\ FailedDependencies(o, u)' = FailedDependencies(o, u)
                            /\ IsNext(o, u)' <=> IsNext(o, u)
  <1>1. Reserved(o)' = Reserved(o) /\ Pending(o)' = Pending(o)
    BY DEF Reserved, Pending, UnitsIn
  <1>2. \A u \in Unit : /\ DependenciesSucceeded(o, u)' <=> DependenciesSucceeded(o, u)
                        /\ FailedDependencies(o, u)' = FailedDependencies(o, u)
    BY DEF DependenciesSucceeded, FailedDependencies
  <1>3. \A u \in Unit : /\ ExclusionAllows(o, u)' <=> ExclusionAllows(o, u)
                        /\ ResourcesAvailable(o, u)' <=> ResourcesAvailable(o, u)
    BY <1>1 DEF ExclusionAllows, ResourcesAvailable
  <1>4. \A u \in Unit : ConnectionsAvailable(o, u)' <=> ConnectionsAvailable(o, u)
    <2>1. \A c : {v \in Reserved(o)' : c \in graph'[o].connections[v]}
                   = {v \in Reserved(o) : c \in graph[o].connections[v]}
      BY <1>1
    <2> QED
      BY <2>1 DEF ConnectionsAvailable
  <1>5. Runnable(o)' = Runnable(o)
    <2>1. Runnable(o)' \subseteq Unit /\ Runnable(o) \subseteq Unit
      BY DEF Runnable, Pending, UnitsIn
    <2>2. \A u \in Unit : u \in Runnable(o)' <=> u \in Runnable(o)
      BY <1>1, <1>2, <1>3, <1>4 DEF Runnable
    <2> QED
      BY <2>1, <2>2
  <1> QED
    BY <1>1, <1>2, <1>5 DEF IsNext

LEMMA RunFrame ==
  ASSUME NEW o \in Run, RunInv(o),
         graph'[o] = graph[o], node'[o] = node[o], pc'[o] = pc[o],
         phase'[o] = phase[o], errs'[o] = errs[o], unit'[o] = unit[o],
         handedOff'[o] = handedOff[o], runStatus'[o] = runStatus[o],
         o \in cancelled' <=> o \in cancelled
  PROVE  RunInv(o)'
  <1>1. /\ Reserved(o)' = Reserved(o) /\ Pending(o)' = Pending(o)
        /\ \A u \in Unit : /\ DependenciesSucceeded(o, u)' <=> DependenciesSucceeded(o, u)
                           /\ FailedDependencies(o, u)' = FailedDependencies(o, u)
    BY NodeFrame
  <1>2. Over(o)' <=> Over(o)
    BY DEF Over
  <1>3. PhaseInv(o)'
    BY <1>1, <1>2 DEF RunInv, PhaseInv
  <1>4. ReservationInv(o)'
    <2>1. \A c : {v \in Reserved(o)' : c \in graph'[o].connections[v]}
                   = {v \in Reserved(o) : c \in graph[o].connections[v]}
      BY <1>1
    <2> QED
      BY <1>1, <2>1 DEF RunInv, ReservationInv
  <1>5. DependencyInv(o)'
    BY <1>1 DEF RunInv, DependencyInv
  <1>6. RowInv(o)'
    BY <1>1 DEF RunInv, RowInv
  <1>7. SkipInv(o)'
    <2>1. \A u \in Pending(o) : u \in Unit
      BY DEF Pending, UnitsIn
    <2> QED
      BY <1>1, <1>2, <2>1 DEF RunInv, SkipInv
  <1>8. ProgressInv(o)'
    BY <1>1, <1>2 DEF RunInv, ProgressInv
  <1> QED
    BY <1>3, <1>4, <1>5, <1>6, <1>7, <1>8 DEF RunInv

(* The leases, one by one, before and after a step.                        *)
LEMMA LeaseMembers ==
  ASSUME TypeOK
  PROVE  /\ Leases \subseteq Run \X (0..UnitCount)
         /\ \A r \in Run : \A u \in Unit :
              <<r, u>> \in Leases <=> phase[r][u] \in {"starting", "operating"}
         /\ \A r \in Run : <<r, UnitCount>> \in Leases <=> r \in granted
  BY GraphAssumption DEF GraphAssumption, TypeOK, Leases, Executing, Unit

LEMMA LeaseMembersNext ==
  ASSUME TypeOK'
  PROVE  /\ Leases' \subseteq Run \X (0..UnitCount)
         /\ \A r \in Run : \A u \in Unit :
              <<r, u>> \in Leases' <=> phase'[r][u] \in {"starting", "operating"}
         /\ \A r \in Run : <<r, UnitCount>> \in Leases' <=> r \in granted'
  BY GraphAssumption DEF GraphAssumption, TypeOK, Leases, Executing, Unit

LEMMA PositionSplit == 0..UnitCount = Unit \cup {UnitCount} /\ UnitCount \notin Unit
  BY GraphAssumption DEF GraphAssumption, Unit

LEMMA HolderIsActive ==
  ASSUME TypeOK, BudgetAccounts, IsFiniteSet(Leases), Leases # {}
  PROVE  active > 0
  <1>1. Cardinality(Leases) # 0
    BY FS_EmptySet
  <1> QED
    BY <1>1 DEF BudgetAccounts, TypeOK

Distinct(s) == \A i, j \in DOMAIN s : s[i] = s[j] => i = j

(* A release takes nobody out of the queue but the one it grants.          *)
LEMMA ReleaseQueue ==
  ASSUME TypeOK, BudgetAccounts, Distinct(waiters), Waiting \cap granted = {},
         NEW unseen \in SUBSET granted, Release(unseen), active > 0
  PROVE  /\ Distinct(waiters') /\ Waiting' \cap granted' = {}
         /\ Waiting' \cup granted' = Waiting \cup unseen
         /\ active' \in Nat /\ waiters' \in Seq(Run) /\ granted' \subseteq Run
         /\ active' <= Limit /\ (waiters' # <<>> => active' = Limit)
         /\ \/ granted' = unseen /\ active' = active - 1
            \/ \E w \in Run \ granted : granted' = unseen \cup {w} /\ active' = active
  <1>1. /\ waiters \in Seq(Run) /\ active \in Nat /\ granted \subseteq Run
        /\ active <= Limit
        /\ Len(waiters) \in Nat /\ DOMAIN waiters = 1..Len(waiters)
        /\ \A i \in 1..Len(waiters) : waiters[i] \in Run
        /\ Limit \in Nat
    BY LenProperties, ElementOfSeq, BudgetAssumption DEF TypeOK, BudgetAccounts, BudgetAssumption
  <1>2. CASE /\ waiters = <<>> /\ waiters' = <<>>
             /\ active' = active - 1 /\ granted' = unseen
    BY <1>1, <1>2 DEF Distinct, Waiting
  <1>3. CASE /\ Len(waiters) > 0
             /\ active' = active /\ active = Limit
             /\ granted' = unseen \cup {waiters[1]}
             /\ waiters' \in Seq(Run)
             /\ Len(waiters') = Len(waiters) - 1
             /\ \A i \in 1..(Len(waiters) - 1) : waiters'[i] = waiters[i + 1]
    <2>1. DOMAIN waiters' = 1..(Len(waiters) - 1)
      BY <1>3, LenProperties
    <2>2. Distinct(waiters')
      <3> SUFFICES ASSUME NEW i \in 1..(Len(waiters) - 1), NEW j \in 1..(Len(waiters) - 1),
                          waiters'[i] = waiters'[j]
                   PROVE  i = j
        BY <2>1 DEF Distinct
      <3>1. i + 1 \in 1..Len(waiters) /\ j + 1 \in 1..Len(waiters)
        BY <1>1
      <3>2. waiters[i + 1] = waiters[j + 1]
        BY <1>3
      <3> QED
        BY <1>1, <3>1, <3>2 DEF Distinct
    <2>3. Waiting' = Waiting \ {waiters[1]} /\ waiters[1] \in Waiting
      <3>1. 1 \in 1..Len(waiters)
        BY <1>1, <1>3
      <3>2. \A i \in 1..(Len(waiters) - 1) : /\ i + 1 \in 1..Len(waiters) /\ i + 1 # 1
        BY <1>1
      <3>3. \A k \in 1..Len(waiters) : k # 1 => k - 1 \in 1..(Len(waiters) - 1) /\ (k - 1) + 1 = k
        BY <1>1
      <3>4. \A x : x \in Waiting' <=> \E i \in 1..(Len(waiters) - 1) : x = waiters[i + 1]
        BY <1>3, <2>1 DEF Waiting
      <3>5. \A x : x \in Waiting <=> \E k \in 1..Len(waiters) : x = waiters[k]
        BY <1>1 DEF Waiting
      <3>6. \A k \in 1..Len(waiters) : waiters[k] = waiters[1] => k = 1
        BY <1>1, <3>1 DEF Distinct
      <3>7. ASSUME NEW x \in Waiting' PROVE x \in Waiting /\ x # waiters[1]
        BY <3>2, <3>4, <3>5, <3>6
      <3>8. ASSUME NEW x \in Waiting, x # waiters[1] PROVE x \in Waiting'
        <4>1. PICK k \in 1..Len(waiters) : x = waiters[k]
          BY <3>5
        <4>2. k # 1
          BY <3>8, <4>1
        <4> QED
          BY <3>3, <3>4, <4>1, <4>2
      <3>9. waiters[1] \in Waiting
        BY <3>1, <3>5
      <3> QED
        BY <3>7, <3>8, <3>9
    <2>4. waiters[1] \in Run \ granted
      BY <1>1, <1>3, <2>3
    <2> QED
      BY <1>1, <1>3, <2>2, <2>3, <2>4
  <1> QED
    BY <1>2, <1>3, ReleaseEffect

(* A lease given back is a lease less, or the lease of the run it wakes.   *)
LEMMA LeaseReturned ==
  ASSUME TypeOK, TypeOK', BudgetAccounts, IsFiniteSet(Leases),
         Distinct(waiters), Waiting \cap granted = {},
         NEW unseen \in SUBSET granted, Release(unseen), NEW x \in Leases,
         \A l \in Run \X (0..UnitCount) :
           l \in Leases' <=> \/ l \in Leases /\ l # x
                             \/ \E w \in granted' \ granted : l = <<w, UnitCount>>
  PROVE  BudgetAccounts' /\ IsFiniteSet(Leases)'
  <1>1. active > 0
    BY HolderIsActive
  <1>2. /\ active' <= Limit /\ (waiters' # <<>> => active' = Limit)
        /\ \/ granted' = unseen /\ active' = active - 1
           \/ \E w \in Run \ granted : granted' = unseen \cup {w} /\ active' = active
    BY <1>1, ReleaseQueue
  <1>3. Leases \subseteq Run \X (0..UnitCount) /\ Leases' \subseteq Run \X (0..UnitCount)
    BY LeaseMembers, LeaseMembersNext
  <1>4. active = Cardinality(Leases) /\ active \in Nat
    BY DEF BudgetAccounts, TypeOK
  <1>5. IsFiniteSet(Leases \ {x}) /\ Cardinality(Leases \ {x}) = Cardinality(Leases) - 1
    BY FS_RemoveElement
  <1>6. CASE granted' = unseen /\ active' = active - 1
    <2>1. granted' \ granted = {}
      BY <1>6
    <2>2. Leases' = Leases \ {x}
      BY <1>3, <2>1
    <2> QED
      BY <1>2, <1>4, <1>5, <1>6, <2>2 DEF BudgetAccounts
  <1>7. ASSUME NEW w \in Run \ granted, granted' = unseen \cup {w}, active' = active
        PROVE  BudgetAccounts' /\ IsFiniteSet(Leases)'
    <2>1. granted' \ granted = {w}
      BY <1>7
    <2>2. <<w, UnitCount>> \in Run \X (0..UnitCount) /\ <<w, UnitCount>> \notin Leases
      BY <1>7, LeaseMembers, GraphAssumption DEF GraphAssumption
    <2>3. Leases' = (Leases \ {x}) \cup {<<w, UnitCount>>}
      BY <1>3, <2>1, <2>2
    <2>4. /\ IsFiniteSet((Leases \ {x}) \cup {<<w, UnitCount>>})
          /\ Cardinality((Leases \ {x}) \cup {<<w, UnitCount>>}) = Cardinality(Leases \ {x}) + 1
      BY <1>5, <2>2, FS_AddElement
    <2> QED
      BY <1>2, <1>4, <1>5, <1>7, <2>3, <2>4 DEF BudgetAccounts
  <1> QED
    BY <1>2, <1>6, <1>7

(* executeNode's deferred function. *)
LEMMA ResultSent ==
  ASSUME IInv, TypeOK', NEW r \in Run, NEW u \in Unit,
         phase[r][u] \in {"starting", "operating"}, NEW outcome \in Outcome,
         phase' = [phase EXCEPT ![r][u] = outcome], Release(granted),
         UNCHANGED <<graph, pc, node>>
  PROVE  BudgetAccounts' /\ IsFiniteSet(Leases)' /\ QueueInv'
  <1>1. /\ TypeOK /\ BudgetAccounts /\ IsFiniteSet(Leases)
        /\ Distinct(waiters) /\ Waiting \cap granted = {}
    BY DEF IInv, QueueInv, Distinct
  <1>2. <<r, u>> \in Leases
    BY <1>1, LeaseMembers
  <1>3. active > 0
    BY <1>1, <1>2, HolderIsActive
  <1>4. /\ Distinct(waiters') /\ Waiting' \cap granted' = {}
        /\ Waiting' \cup granted' = Waiting \cup granted
        /\ \/ granted' = granted /\ active' = active - 1
           \/ \E w \in Run \ granted : granted' = granted \cup {w} /\ active' = active
    BY <1>1, <1>3, ReleaseQueue
  <1>5. ASSUME NEW l \in Run \X (0..UnitCount)
        PROVE  l \in Leases' <=> \/ l \in Leases /\ l # <<r, u>>
                                 \/ \E w \in granted' \ granted : l = <<w, UnitCount>>
    <2>1. PICK o \in Run, v \in 0..UnitCount : l = <<o, v>>
      OBVIOUS
    <2>2. CASE v = UnitCount
      <3>1. l \in Leases <=> o \in granted
        BY <1>1, <2>1, <2>2, LeaseMembers
      <3>2. l \in Leases' <=> o \in granted'
        BY <1>1, <2>1, <2>2, LeaseMembersNext
      <3>3. granted \subseteq granted'
        BY <1>4
      <3>4. l # <<r, u>>
        BY <2>1, <2>2, PositionSplit
      <3>5. (\E w \in granted' \ granted : l = <<w, UnitCount>>) <=> o \in granted' \ granted
        BY <2>1, <2>2
      <3> QED
        BY <3>1, <3>2, <3>3, <3>4, <3>5
    <2>3. CASE v \in Unit
      <3>1. l \in Leases <=> phase[o][v] \in {"starting", "operating"}
        BY <1>1, <2>1, <2>3, LeaseMembers
      <3>2. l \in Leases' <=> phase'[o][v] \in {"starting", "operating"}
        BY <1>1, <2>1, <2>3, LeaseMembersNext
      <3>3. phase'[o][v] = IF o = r /\ v = u THEN outcome ELSE phase[o][v]
        BY <1>1, <2>1, <2>3 DEF TypeOK
      <3>4. outcome \notin {"starting", "operating"}
        BY DEF Outcome
      <3>5. ~ \E w \in granted' \ granted : l = <<w, UnitCount>>
        BY <2>1, <2>3, PositionSplit
      <3> QED
        BY <2>1, <3>1, <3>2, <3>3, <3>4, <3>5
    <2> QED
      BY <2>2, <2>3, PositionSplit
  <1>6. BudgetAccounts' /\ IsFiniteSet(Leases)'
    BY <1>1, <1>2, <1>5, LeaseReturned
  <1>7. QueueInv'
    <2>1. \A o \in Run : \A v \in Unit : IsNext(o, v)' <=> IsNext(o, v)
      BY NodeFrame
    <2> QED
      BY <1>4, <2>1 DEF IInv, QueueInv, Distinct
  <1> QED
    BY <1>6, <1>7

-----------------------------------------------------------------------------
(* Every step keeps the types. *)

LEMMA ReleaseTypes ==
  ASSUME IInv, NEW x \in Leases, NEW unseen \in SUBSET granted, Release(unseen)
  PROVE  active' \in Nat /\ waiters' \in Seq(Run) /\ granted' \subseteq Run
  <1>1. /\ TypeOK /\ BudgetAccounts /\ IsFiniteSet(Leases)
        /\ Distinct(waiters) /\ Waiting \cap granted = {}
    BY DEF IInv, QueueInv, Distinct
  <1> QED
    BY <1>1, HolderIsActive, ReleaseQueue

LEMMA RunnerTypes ==
  ASSUME IInv, NEW r \in Run, RunnerStep(r)
  PROVE  TypeOK'
  <1>1. TypeOK
    BY DEF IInv
  <1>0. /\ unit \in [Run -> [Unit -> UnitStatus]]
        /\ errs \in [Run -> SUBSET {"error", "canceled", "stalled"}]
    BY <1>1 DEF TypeOK
  <1> USE DEF Goto, NodeStatus, Phase, Outcome, UnitStatus, UnitOpen, runner, durable, budget
  <1>2. CASE Schedule(r)
    <2>1. node' \in [Run -> [Unit -> NodeStatus]]
      <3>1. \A S, s : s \in NodeStatus =>
              [u \in Unit |-> IF u \in S THEN s ELSE node[r][u]] \in [Unit -> NodeStatus]
        BY <1>1 DEF TypeOK
      <3>2. \E S, s : /\ s \in NodeStatus
                      /\ node' = [node EXCEPT ![r] =
                            [u \in Unit |-> IF u \in S THEN s ELSE node[r][u]]]
        <4>1. CASE CancelPending(r)
          <5> WITNESS Pending(r), "cancelled"
          <5> QED
            BY <4>1 DEF CancelPending
        <4>2. CASE SkipBlocked(r)
          <5> WITNESS Blocked(r), "skipped"
          <5> QED
            BY <4>2 DEF SkipBlocked
        <4> QED
          BY <1>2, <4>1, <4>2 DEF Schedule
      <3> QED
        BY <1>1, <3>1, <3>2 DEF TypeOK
    <2>2. /\ unit' \in [Run -> [Unit -> UnitStatus]]
          /\ errs' \in [Run -> SUBSET {"error", "canceled", "stalled"}]
      <3>1. CASE CancelPending(r)
        <4>1. unit' = unit /\ errs' = errs
          BY <3>1 DEF CancelPending
        <4> QED
          BY <1>0, <4>1
      <3>2. CASE SkipBlocked(r)
        <4>1. \A W : [u \in Unit |-> IF u \in W THEN "skipped" ELSE unit[r][u]]
                       \in [Unit -> UnitStatus]
          BY <1>1 DEF TypeOK
        <4>2. PICK W \in SUBSET Blocked(r) :
                unit' = [unit EXCEPT ![r] =
                           [u \in Unit |-> IF u \in W THEN "skipped" ELSE unit[r][u]]]
          BY <3>2 DEF SkipBlocked
        <4>3. unit' \in [Run -> [Unit -> UnitStatus]]
          BY <1>1, <4>1, <4>2 DEF TypeOK
        <4>4. errs' = errs \/ errs' = [errs EXCEPT ![r] = @ \cup {"error"}]
          BY <3>2 DEF SkipBlocked
        <4>5. errs' \in [Run -> SUBSET {"error", "canceled", "stalled"}]
          BY <1>0, <4>4
        <4> QED
          BY <4>3, <4>5
      <3> QED
        BY <1>2, <3>1, <3>2 DEF Schedule
    <2> QED
      BY <1>1, <1>2, <2>1, <2>2 DEF TypeOK, Schedule
  <1>3. CASE AcquireAtOnce(r)
    BY <1>1, <1>3 DEF TypeOK, AcquireAtOnce, LaunchUnit, AcquireSlot
  <1>4. CASE WaitForSlot(r)
    BY <1>1, <1>4, AppendProperties DEF TypeOK, WaitForSlot, JoinWaiters
  <1>5. CASE SlotGranted(r)
    BY <1>1, <1>5 DEF TypeOK, SlotGranted, LaunchUnit
  <1>6. CASE AbandonWait(r)
    <2>1. CASE r \in granted
      <3>1. <<r, UnitCount>> \in Leases
        BY <1>1, <2>1, LeaseMembers
      <3>2. active' \in Nat /\ waiters' \in Seq(Run) /\ granted' \subseteq Run
        BY <1>6, <2>1, <3>1, ReleaseTypes DEF AbandonWait
      <3> QED
        BY <1>1, <1>6, <3>2 DEF TypeOK, AbandonWait
    <2>2. CASE r \notin granted
      BY <1>1, <1>6, <2>2, RemoveEffect DEF TypeOK, AbandonWait
    <2> QED
      BY <2>1, <2>2
  <1>7. CASE LaunchDone(r)
    BY <1>1, <1>7 DEF TypeOK, LaunchDone
  <1>8. ASSUME NEW u \in Unit, Receive(r, u)
        PROVE  TypeOK'
    <2>1. Settled(r, u) \in NodeStatus
      BY DEF Settled
    <2>2. phase[r][u] # "ok" => phase[r][u] \in {"error", "canceled"}
      BY <1>8 DEF Receive
    <2> QED
      BY <1>1, <1>8, <2>1, <2>2 DEF TypeOK, Receive
  <1>9. CASE Return(r)
    BY <1>1, <1>9 DEF TypeOK, Return
  <1>10. CASE Finalize(r)
    <2>1. Closed(r) \in [Unit -> UnitStatus]
      BY <1>1 DEF TypeOK, Closed
    <2>2. FinalStatus(r) \in {"success", "cancelled", "failed"}
      BY DEF FinalStatus
    <2>3. unit' = unit \/ unit' = [unit EXCEPT ![r] = Closed(r)]
      BY <1>10 DEF Finalize
    <2>4. unit' \in [Run -> [Unit -> UnitStatus]]
      BY <1>1, <2>1, <2>3 DEF TypeOK
    <2> QED
      BY <1>1, <1>10, <2>2, <2>4 DEF TypeOK, Finalize
  <1> QED
    BY <1>2, <1>3, <1>4, <1>5, <1>6, <1>7, <1>8, <1>9, <1>10 DEF RunnerStep

LEMMA UnitTypes ==
  ASSUME IInv, NEW r \in Run, NEW u \in Unit, UnitStep(r, u)
  PROVE  TypeOK'
  <1>1. TypeOK
    BY DEF IInv
  <1>0. unit \in [Run -> [Unit -> UnitStatus]]
    BY <1>1 DEF TypeOK
  <1> USE DEF NodeStatus, Phase, Outcome, UnitStatus, UnitOpen, runner, durable, budget
  <1>2. CASE BeginUnit(r, u)
    BY <1>1, <1>2 DEF TypeOK, BeginUnit
  <1>3. ASSUME NEW outcome \in Outcome, SendResult(r, u, outcome),
               phase[r][u] \in {"starting", "operating"},
               unit' \in [Run -> [Unit -> UnitStatus]],
               handedOff' \in [Run -> SUBSET Unit]
        PROVE  TypeOK'
    <2>1. <<r, u>> \in Leases
      BY <1>1, <1>3, LeaseMembers
    <2>2. active' \in Nat /\ waiters' \in Seq(Run) /\ granted' \subseteq Run
      BY <1>3, <2>1, ReleaseTypes DEF SendResult
    <2> QED
      BY <1>1, <1>3, <2>2 DEF TypeOK, SendResult
  <1>4. CASE RefuseUnit(r, u)
    <2>1. unit' = unit \/ unit' = [unit EXCEPT ![r][u] = "running"]
      BY <1>4 DEF RefuseUnit
    <2>2. unit' \in [Run -> [Unit -> UnitStatus]]
      BY <1>0, <2>1
    <2>3. PICK outcome \in Outcome : SendResult(r, u, outcome)
      BY <1>4 DEF RefuseUnit
    <2>4. handedOff' \in [Run -> SUBSET Unit] /\ phase[r][u] \in {"starting", "operating"}
      BY <1>1, <1>4 DEF TypeOK, RefuseUnit
    <2> QED
      BY <1>3, <2>2, <2>3, <2>4
  <1>5. CASE FinishUnit(r, u)
    BY <1>1, <1>3, <1>5 DEF TypeOK, FinishUnit
  <1>6. CASE LoseCompletion(r, u)
    BY <1>1, <1>3, <1>6 DEF TypeOK, LoseCompletion
  <1>7. CASE FailUnit(r, u)
    <2>1. PICK outcome \in {"error", "canceled"} :
            /\ unit' = unit \/ \E s \in UnitStatus : unit' = [unit EXCEPT ![r][u] = s]
            /\ SendResult(r, u, outcome)
      BY <1>7 DEF FailUnit
    <2>2. unit' \in [Run -> [Unit -> UnitStatus]]
      BY <1>0, <2>1
    <2>3. handedOff' \in [Run -> SUBSET Unit] /\ phase[r][u] \in {"starting", "operating"}
      BY <1>1, <1>7 DEF TypeOK, FailUnit
    <2> QED
      BY <1>3, <2>1, <2>2, <2>3
  <1> QED
    BY <1>2, <1>4, <1>5, <1>6, <1>7 DEF UnitStep

-----------------------------------------------------------------------------
(* Frames: what a step that leaves something alone preserves.              *)

LEMMA GraphFacts ==
  ASSUME TypeOK, NEW r \in Run, NEW u \in Unit
  PROVE  /\ graph[r].deps[u] \subseteq Unit
         /\ \A d \in graph[r].deps[u] : d < u
         /\ \A c \in DOMAIN ConnectionLimit : ConnectionLimit[c] \in Nat \ {0}
  <1>1. /\ graph[r] \in Graph
        /\ Graph \subseteq [deps : [Unit -> SUBSET Unit],
                            connections : [Unit -> SUBSET Connection],
                            resources : [Unit -> SUBSET Resource],
                            exclusive : SUBSET Unit]
        /\ \A g \in Graph : \A v \in Unit : \A d \in g.deps[v] : d < v
        /\ \A c \in DOMAIN ConnectionLimit : ConnectionLimit[c] \in Nat \ {0}
    BY GraphAssumption DEF TypeOK, GraphAssumption
  <1>2. graph[r].deps \in [Unit -> SUBSET Unit]
    BY <1>1
  <1> QED
    BY <1>1, <1>2

(* A status other than pending and running is kept.                        *)
LEMMA StatusesStay ==
  ASSUME TypeOK, NEW r \in Run, graph'[r] = graph[r],
         \A v \in Unit : node[r][v] \notin {"pending", "running"} => node'[r][v] = node[r][v]
  PROVE  \A u \in Unit : /\ DependenciesSucceeded(r, u) => DependenciesSucceeded(r, u)'
                         /\ FailedDependencies(r, u) \subseteq FailedDependencies(r, u)'
  <1> SUFFICES ASSUME NEW u \in Unit
               PROVE  /\ DependenciesSucceeded(r, u) => DependenciesSucceeded(r, u)'
                      /\ FailedDependencies(r, u) \subseteq FailedDependencies(r, u)'
    OBVIOUS
  <1>1. \A d \in graph[r].deps[u] :
          node[r][d] \notin {"pending", "running"} => node'[r][d] = node[r][d]
    BY GraphFacts
  <1> QED
    BY <1>1 DEF DependenciesSucceeded, FailedDependencies

LEMMA BudgetFrame ==
  ASSUME TypeOK, TypeOK', BudgetAccounts, IsFiniteSet(Leases), UNCHANGED budget,
         \A o \in Run : \A v \in Unit :
           phase'[o][v] \in {"starting", "operating"} <=> phase[o][v] \in {"starting", "operating"}
  PROVE  BudgetAccounts' /\ IsFiniteSet(Leases)'
  <1>1. UNCHANGED <<active, waiters, granted>>
    BY DEF budget
  <1>2. Leases' = Leases
    <2>1. \A o \in Run : \A v \in 0..UnitCount : <<o, v>> \in Leases' <=> <<o, v>> \in Leases
      BY <1>1, LeaseMembers, LeaseMembersNext, PositionSplit
    <2>2. Leases \subseteq Run \X (0..UnitCount) /\ Leases' \subseteq Run \X (0..UnitCount)
      BY LeaseMembers, LeaseMembersNext
    <2> QED
      BY <2>1, <2>2
  <1> QED
    BY <1>1, <1>2 DEF BudgetAccounts

LEMMA QueueFrame ==
  ASSUME QueueInv, UNCHANGED <<waiters, granted, graph>>,
         \A o \in Run : /\ pc'[o] = "waiting" <=> pc[o] = "waiting"
                        /\ pc[o] = "waiting" => node'[o] = node[o]
  PROVE  QueueInv'
  <1>1. \A o \in Run : pc[o] = "waiting" => \A u \in Unit : IsNext(o, u)' <=> IsNext(o, u)
    BY NodeFrame
  <1> QED
    BY <1>1 DEF QueueInv, Waiting

LEMMA ReservationFrame ==
  ASSUME NEW r \in Run, ReservationInv(r), graph'[r] = graph[r], Reserved(r)' = Reserved(r)
  PROVE  ReservationInv(r)'
  <1>1. \A c : {v \in Reserved(r)' : c \in graph'[r].connections[v]}
                 = {v \in Reserved(r) : c \in graph[r].connections[v]}
    OBVIOUS
  <1> QED
    BY <1>1 DEF ReservationInv

(* The other runs do not see a step of run r.                              *)
LEMMA OneRun ==
  ASSUME IInv, TypeOK', NEW r \in Run, RunInv(r)',
         BudgetAccounts' /\ IsFiniteSet(Leases)' /\ QueueInv',
         UNCHANGED graph,
         \A o \in Run \ {r} :
           /\ node'[o] = node[o] /\ pc'[o] = pc[o] /\ phase'[o] = phase[o]
           /\ errs'[o] = errs[o] /\ unit'[o] = unit[o] /\ handedOff'[o] = handedOff[o]
           /\ runStatus'[o] = runStatus[o] /\ (o \in cancelled' <=> o \in cancelled)
  PROVE  IInv'
  <1>1. ASSUME NEW o \in Run \ {r} PROVE RunInv(o)'
    BY RunFrame DEF IInv
  <1> QED
    BY <1>1 DEF IInv

-----------------------------------------------------------------------------
(* Steps of the unit goroutines.                                           *)

(* A goroutine that is running belongs to a run that has not returned.     *)
LEMMA RunningUnit ==
  ASSUME IInv, NEW r \in Run, NEW u \in Unit, phase[r][u] # "none"
  PROVE  node[r][u] = "running" /\ ~Over(r) /\ pc[r] # "closed"
  BY DEF IInv, RunInv, PhaseInv, Reserved, UnitsIn, Over

LEMMA UnitRun ==
  ASSUME IInv, NEW r \in Run, NEW u \in Unit, NEW p \in Phase \ {"none"},
         phase[r][u] # "none", phase' = [phase EXCEPT ![r][u] = p],
         UNCHANGED <<graph, pc, node, errs, cancelled, runStatus>>,
         DependencyInv(r)', RowInv(r)'
  PROVE  RunInv(r)'
  <1>1. TypeOK /\ RunInv(r)
    BY DEF IInv
  <1>2. /\ Reserved(r)' = Reserved(r) /\ Pending(r)' = Pending(r)
        /\ \A v \in Unit : /\ DependenciesSucceeded(r, v)' <=> DependenciesSucceeded(r, v)
                           /\ FailedDependencies(r, v)' = FailedDependencies(r, v)
    BY NodeFrame
  <1>3. \A v \in Unit : phase'[r][v] # "none" <=> phase[r][v] # "none"
    BY <1>1 DEF TypeOK
  <1>4. PhaseInv(r)' /\ ReservationInv(r)'
    BY <1>1, <1>2, <1>3, ReservationFrame DEF RunInv, PhaseInv, Over
  <1>5. SkipInv(r)'
    <2>1. \A v \in Pending(r) : v \in Unit
      BY DEF Pending, UnitsIn
    <2> QED
      BY <1>1, <1>2, <2>1 DEF RunInv, SkipInv, Over
  <1>6. ProgressInv(r)'
    BY <1>1, <1>2 DEF RunInv, ProgressInv, Over
  <1> QED
    BY <1>4, <1>5, <1>6 DEF RunInv

(* What the rows and the completion records become.                        *)
LEMMA UnitRows ==
  ASSUME IInv, NEW r \in Run, NEW u \in Unit, NEW p \in Phase \ {"none"}, NEW s,
         phase[r][u] # "none", phase' = [phase EXCEPT ![r][u] = p],
         UNCHANGED <<graph, pc, node, errs, cancelled, runStatus>>,
         unit' = [unit EXCEPT ![r][u] = s],
         \/ handedOff' = handedOff /\ u \notin handedOff[r] /\ p # "ok"
         \/ handedOff' = [handedOff EXCEPT ![r] = @ \cup {u}] /\ s = "success",
         p = "starting" => s = "queued",
         p = "operating" => s = "running"
  PROVE  DependencyInv(r)' /\ RowInv(r)'
  <1>1. TypeOK /\ DependencyInv(r) /\ RowInv(r)
    BY DEF IInv, RunInv
  <1>2. \A v \in Unit : DependenciesSucceeded(r, v)' <=> DependenciesSucceeded(r, v)
    BY NodeFrame
  <1>3. node[r][u] = "running" /\ pc[r] # "closed"
    BY RunningUnit
  <1>4. \A v \in Unit : /\ phase'[r][v] = IF v = u THEN p ELSE phase[r][v]
                        /\ unit'[r][v] = IF v = u THEN s ELSE unit[r][v]
    BY <1>1 DEF TypeOK
  <1>5. \A v \in Unit : v # u => (v \in handedOff'[r] <=> v \in handedOff[r])
    BY <1>1 DEF TypeOK
  <1>6. u \in handedOff'[r] => s = "success"
    BY <1>1 DEF TypeOK
  <1>7. p = "ok" => u \in handedOff'[r]
    BY <1>1 DEF TypeOK
  <1>8. DependencyInv(r)'
    BY <1>1, <1>2, <1>3, <1>4, <1>5, <1>7 DEF DependencyInv
  <1>9. RowInv(r)'
    BY <1>1, <1>3, <1>4, <1>5, <1>6 DEF RowInv
  <1> QED
    BY <1>8, <1>9

LEMMA UnitStepInv ==
  ASSUME IInv, NEW r \in Run, NEW u \in Unit, UnitStep(r, u)
  PROVE  IInv'
  <1>1. TypeOK /\ TypeOK'
    BY UnitTypes DEF IInv
  <1>2. /\ phase[r][u] \in {"starting", "operating"}
        /\ node[r][u] = "running" /\ pc[r] # "closed"
    BY RunningUnit DEF UnitStep, BeginUnit, RefuseUnit, FinishUnit, LoseCompletion, FailUnit
  <1>3. /\ phase[r][u] = "starting" => unit[r][u] = "queued"
        /\ phase[r][u] = "operating" => unit[r][u] = "running"
        /\ u \notin handedOff[r]
    BY <1>2 DEF IInv, RunInv, RowInv
  <1>4. unit = [unit EXCEPT ![r][u] = unit[r][u]]
    BY <1>1 DEF TypeOK
  <1>5. ASSUME NEW p \in Phase \ {"none"}, NEW s, phase' = [phase EXCEPT ![r][u] = p],
               UNCHANGED <<graph, pc, node, errs, cancelled, runStatus>>,
               unit' = [unit EXCEPT ![r][u] = s],
               \/ handedOff' = handedOff /\ p # "ok"
               \/ handedOff' = [handedOff EXCEPT ![r] = @ \cup {u}] /\ s = "success",
               p # "starting", p = "operating" => s = "running",
               BudgetAccounts' /\ IsFiniteSet(Leases)' /\ QueueInv'
        PROVE  IInv'
    <2>1. RunInv(r)'
      BY <1>2, <1>3, <1>5, UnitRows, UnitRun
    <2>2. \A o \in Run \ {r} : /\ phase'[o] = phase[o] /\ unit'[o] = unit[o]
                               /\ handedOff'[o] = handedOff[o]
      BY <1>1, <1>5 DEF TypeOK
    <2> QED
      BY <1>1, <1>5, <2>1, <2>2, OneRun
  <1>6. ASSUME NEW outcome \in Outcome, SendResult(r, u, outcome)
        PROVE  BudgetAccounts' /\ IsFiniteSet(Leases)' /\ QueueInv'
    BY <1>1, <1>2, <1>6, ResultSent DEF SendResult
  <1>7. CASE BeginUnit(r, u)
    <2>1. BudgetAccounts' /\ IsFiniteSet(Leases)'
      <3>1. \A o \in Run : \A v \in Unit :
              phase'[o][v] \in {"starting", "operating"} <=> phase[o][v] \in {"starting", "operating"}
        BY <1>1, <1>2, <1>7 DEF TypeOK, BeginUnit
      <3> QED
        BY <1>1, <1>7, <3>1, BudgetFrame DEF IInv, BeginUnit
    <2>2. QueueInv'
      BY <1>7, QueueFrame DEF IInv, BeginUnit, budget
    <2>3. "operating" \in Phase \ {"none"}
      BY DEF Phase
    <2> QED
      BY <1>5, <1>7, <2>1, <2>2, <2>3 DEF BeginUnit
  <1>8. CASE RefuseUnit(r, u)
    <2>1. PICK outcome \in {"canceled", "error"} : SendResult(r, u, outcome)
      BY <1>8 DEF RefuseUnit
    <2>2. PICK s : unit' = [unit EXCEPT ![r][u] = s]
      BY <1>4, <1>8 DEF RefuseUnit
    <2>3. outcome \in Outcome /\ outcome \in Phase \ {"none"}
      BY DEF Outcome, Phase
    <2> QED
      BY <1>5, <1>6, <1>8, <2>1, <2>2, <2>3 DEF RefuseUnit, SendResult
  <1>9. CASE FinishUnit(r, u)
    <2>1. "ok" \in Outcome /\ "ok" \in Phase \ {"none"}
      BY DEF Outcome, Phase
    <2> QED
      BY <1>5, <1>6, <1>9, <2>1 DEF FinishUnit, SendResult
  <1>10. CASE LoseCompletion(r, u)
    <2>1. "error" \in Outcome /\ "error" \in Phase \ {"none"}
      BY DEF Outcome, Phase
    <2> QED
      BY <1>5, <1>6, <1>10, <2>1 DEF LoseCompletion, SendResult
  <1>11. CASE FailUnit(r, u)
    <2>1. PICK outcome \in {"error", "canceled"} :
            /\ SendResult(r, u, outcome)
            /\ \E s : unit' = [unit EXCEPT ![r][u] = s]
      BY <1>4, <1>11 DEF FailUnit
    <2>2. outcome \in Outcome /\ outcome \in Phase \ {"none"}
      BY DEF Outcome, Phase
    <2> QED
      BY <1>5, <1>6, <1>11, <2>1, <2>2 DEF FailUnit, SendResult
  <1> QED
    BY <1>7, <1>8, <1>9, <1>10, <1>11 DEF UnitStep

-----------------------------------------------------------------------------
(* Steps of the runner that leave the budget alone.                        *)

LEMMA CancelInv ==
  ASSUME IInv, NEW r \in Run, Cancel(r)
  PROVE  IInv'
  <1>1. /\ TypeOK /\ RunInv(r) /\ r \notin cancelled /\ pc[r] # "closed"
        /\ cancelled' = cancelled \cup {r}
        /\ UNCHANGED <<graph, pc, node, phase, errs, unit, handedOff, runStatus,
                       active, waiters, granted>>
    BY DEF IInv, Cancel, runner, durable, budget
  <1>2. TypeOK'
    BY <1>1 DEF TypeOK
  <1>3. /\ Reserved(r)' = Reserved(r) /\ Pending(r)' = Pending(r)
        /\ \A v \in Unit : /\ DependenciesSucceeded(r, v)' <=> DependenciesSucceeded(r, v)
                           /\ FailedDependencies(r, v)' = FailedDependencies(r, v)
    BY <1>1, NodeFrame
  <1>4. RunInv(r)'
    <2>1. PhaseInv(r)' /\ ReservationInv(r)'
      BY <1>1, <1>3, ReservationFrame DEF RunInv, PhaseInv, Over
    <2>2. DependencyInv(r)' /\ RowInv(r)'
      BY <1>1, <1>3 DEF RunInv, DependencyInv, RowInv
    <2>3. SkipInv(r)'
      BY <1>1, <1>3 DEF RunInv, SkipInv, Over
    <2>4. ProgressInv(r)'
      BY <1>1, <1>3 DEF RunInv, ProgressInv, DependencyInv, Over
    <2> QED
      BY <2>1, <2>2, <2>3, <2>4 DEF RunInv
  <1>5. BudgetAccounts' /\ IsFiniteSet(Leases)'
    BY <1>1, <1>2, BudgetFrame DEF IInv, budget
  <1>6. QueueInv'
    BY <1>1, QueueFrame DEF IInv
  <1> QED
    BY <1>1, <1>2, <1>4, <1>5, <1>6, OneRun

(* A result changes one unit, and at most one more error is known.         *)
LEMMA ReceiveInv ==
  ASSUME IInv, NEW r \in Run, NEW u \in Unit, Receive(r, u)
  PROVE  IInv'
  <1>1. /\ TypeOK /\ RunInv(r)
        /\ pc[r] = "collecting" /\ phase[r][u] \in Outcome /\ node[r][u] = "running"
        /\ node' = [node EXCEPT ![r][u] = Settled(r, u)]
        /\ phase' = [phase EXCEPT ![r][u] = "none"]
        /\ pc' = [pc EXCEPT ![r] = "scheduling"]
        /\ UNCHANGED <<graph, cancelled, unit, handedOff, runStatus, active, waiters, granted>>
    BY DEF IInv, Receive, Goto, Reserved, UnitsIn, durable, budget
  <1>2. TypeOK'
    BY RunnerTypes DEF RunnerStep
  <1>3. /\ \A v \in Unit : /\ node'[r][v] = IF v = u THEN Settled(r, u) ELSE node[r][v]
                           /\ phase'[r][v] = IF v = u THEN "none" ELSE phase[r][v]
        /\ pc'[r] = "scheduling" /\ ~Over(r)'
    BY <1>1 DEF TypeOK, Over
  <1>4. /\ errs[r] \subseteq errs'[r] /\ ("stalled" \in errs'[r] => "stalled" \in errs[r])
        /\ phase[r][u] # "ok" => errs'[r] # {}
    BY <1>1 DEF Receive, TypeOK, Outcome
  <1>5. /\ Settled(r, u) \in {"succeeded", "failed", "cancelled"}
        /\ Settled(r, u) = "succeeded" <=> phase[r][u] = "ok"
    BY DEF Settled
  <1>6. \A v \in Unit : node[r][v] \notin {"pending", "running"} => node'[r][v] = node[r][v]
    BY <1>1, <1>3
  <1>7. \A v \in Unit : /\ DependenciesSucceeded(r, v) => DependenciesSucceeded(r, v)'
                        /\ FailedDependencies(r, v) \subseteq FailedDependencies(r, v)'
    BY <1>1, <1>6, StatusesStay
  <1>8. Reserved(r)' = Reserved(r) \ {u}
    BY <1>3, <1>5 DEF Reserved, UnitsIn
  <1>9. RunInv(r)'
    <2>1. PhaseInv(r)'
      BY <1>1, <1>3, <1>5 DEF RunInv, PhaseInv
    <2>2. ReservationInv(r)'
      <3>1. ASSUME NEW S \in SUBSET Unit, NEW T \in SUBSET S
            PROVE  Cardinality(T) <= Cardinality(S)
        BY SetOfUnits, FS_Subset
      <3>2. Reserved(r) \in SUBSET Unit /\ Reserved(r)' \in SUBSET Reserved(r)
        BY <1>8 DEF Reserved, UnitsIn
      <3>3. Cardinality(Reserved(r)') <= MaxActive
        <4>1. Cardinality(Reserved(r)') <= Cardinality(Reserved(r))
          BY <3>1, <3>2
        <4>2. Cardinality(Reserved(r)) \in Nat /\ Cardinality(Reserved(r)') \in Nat
          BY <3>2, SetOfUnits
        <4> QED
          BY <1>1, <4>1, <4>2, GraphAssumption DEF RunInv, ReservationInv, GraphAssumption
      <3>4. ASSUME NEW c \in DOMAIN ConnectionLimit
            PROVE  Cardinality({v \in Reserved(r)' : c \in graph'[r].connections[v]})
                     <= ConnectionLimit[c]
        <4> DEFINE S == {v \in Reserved(r) : c \in graph[r].connections[v]}
                   T == {v \in Reserved(r)' : c \in graph'[r].connections[v]}
        <4>1. S \in SUBSET Unit /\ T \in SUBSET S
          BY <1>1, <3>2
        <4>2. Cardinality(S) <= ConnectionLimit[c]
          BY <1>1 DEF RunInv, ReservationInv
        <4> HIDE DEF S, T
        <4>3. Cardinality(T) <= Cardinality(S) /\ Cardinality(S) \in Nat /\ Cardinality(T) \in Nat
          BY <3>1, <4>1, SetOfUnits
        <4>4. Cardinality(T) <= ConnectionLimit[c]
          BY <4>2, <4>3, GraphFacts, <1>1
        <4> QED
          BY <4>4 DEF T
      <3>5. \A v, o \in Reserved(r)' :
              v # o => /\ graph'[r].resources[v] \cap graph'[r].resources[o] = {}
                       /\ v \notin graph'[r].exclusive
        BY <1>1, <3>2 DEF RunInv, ReservationInv
      <3> QED
        BY <3>3, <3>4, <3>5 DEF ReservationInv
    <2>3. DependencyInv(r)'
      BY <1>1, <1>3, <1>5, <1>7 DEF RunInv, DependencyInv
    <2>4. RowInv(r)'
      BY <1>1, <1>3, <1>5 DEF RunInv, RowInv
    <2>5. SkipInv(r)'
      BY <1>1, <1>3, <1>4, <1>5, <1>7 DEF RunInv, SkipInv
    <2>6. ProgressInv(r)'
      BY <1>1, <1>3, <1>4 DEF RunInv, ProgressInv
    <2> QED
      BY <2>1, <2>2, <2>3, <2>4, <2>5, <2>6 DEF RunInv
  <1>10. BudgetAccounts' /\ IsFiniteSet(Leases)'
    <2>1. \A o \in Run : \A v \in Unit :
            phase'[o][v] \in {"starting", "operating"} <=> phase[o][v] \in {"starting", "operating"}
      BY <1>1 DEF TypeOK, Outcome
    <2> QED
      BY <1>1, <1>2, <2>1, BudgetFrame DEF IInv, budget
  <1>11. QueueInv'
    <2>1. \A o \in Run : /\ pc'[o] = "waiting" <=> pc[o] = "waiting"
                         /\ pc[o] = "waiting" => node'[o] = node[o]
      BY <1>1 DEF TypeOK
    <2> QED
      BY <1>1, <2>1, QueueFrame DEF IInv
  <1>12. \A o \in Run \ {r} :
           /\ node'[o] = node[o] /\ pc'[o] = pc[o] /\ phase'[o] = phase[o] /\ errs'[o] = errs[o]
    BY <1>1 DEF TypeOK, Receive
  <1> QED
    BY <1>1, <1>2, <1>9, <1>10, <1>11, <1>12, OneRun

(* A run whose reservations are empty can launch a unit, unless none is    *)
(* left or one of them has a dependency that failed.                       *)
LEMMA NoStall ==
  ASSUME TypeOK, NEW r \in Run, Reserved(r) = {}, Pending(r) # {},
         \A u \in Pending(r) : FailedDependencies(r, u) = {}
  PROVE  \E u \in Unit : IsNext(r, u)
  <1>1. PICK u \in Pending(r) : \A o \in Pending(r) : u <= o
    <2>1. Pending(r) \in SUBSET Unit
      BY DEF Pending, UnitsIn
    <2> QED
      BY <2>1, LeastUnit
  <1>2. u \in Unit /\ Unit \subseteq Nat /\ Pending(r) \subseteq Unit
    BY <1>1, UnitFinite DEF Pending, UnitsIn
  <1>3. Cardinality({}) = 0 /\ MaxActive > 0
    BY FS_EmptySet, GraphAssumption DEF GraphAssumption
  <1>4. DependenciesSucceeded(r, u)
    <2> SUFFICES ASSUME NEW d \in graph[r].deps[u]
                 PROVE  node[r][d] = "succeeded"
      BY DEF DependenciesSucceeded
    <2>1. d \in Unit /\ d < u
      BY <1>2, GraphFacts
    <2>2. d \notin Pending(r) /\ d \notin Reserved(r)
      BY <1>1, <1>2, <2>1
    <2>3. node[r][d] \notin {"pending", "running"} /\ node[r][d] \in NodeStatus
      BY <2>1, <2>2 DEF Pending, Reserved, UnitsIn, TypeOK
    <2>4. node[r][d] \notin {"failed", "skipped", "cancelled"}
      BY <1>1 DEF FailedDependencies
    <2> QED
      BY <2>3, <2>4 DEF NodeStatus
  <1>5. ConnectionsAvailable(r, u)
    <2>1. \A c : {o \in Reserved(r) : c \in graph[r].connections[o]} = {}
      OBVIOUS
    <2>2. \A c \in DOMAIN ConnectionLimit : 0 < ConnectionLimit[c]
      BY GraphAssumption DEF GraphAssumption
    <2> QED
      BY <1>3, <2>1, <2>2 DEF ConnectionsAvailable
  <1>6. ExclusionAllows(r, u) /\ ResourcesAvailable(r, u)
    BY DEF ExclusionAllows, ResourcesAvailable
  <1>7. u \in Runnable(r)
    BY <1>1, <1>4, <1>5, <1>6 DEF Runnable
  <1>8. Runnable(r) \in SUBSET Unit
    BY <1>2 DEF Runnable
  <1>9. PICK v \in Runnable(r) : \A o \in Runnable(r) : v <= o
    BY <1>7, <1>8, LeastUnit
  <1>10. Cardinality(Reserved(r)) < MaxActive
    BY <1>3
  <1> QED
    BY <1>8, <1>9, <1>10 DEF IsNext

(* A step of the runner of r that only moves it.                           *)
LEMMA MoveRun ==
  ASSUME IInv, NEW r \in Run, NEW l, ~Over(r), pc' = [pc EXCEPT ![r] = l],
         l \in {"waiting", "collecting", "returned"},
         UNCHANGED <<graph, node, phase, cancelled, unit, handedOff, runStatus>>,
         pc[r] = "scheduling" => Pending(r) = {},
         errs[r] \subseteq errs'[r], "stalled" \notin errs'[r],
         l = "collecting" /\ r \notin cancelled => Reserved(r) # {} \/ Pending(r) = {},
         l = "returned" => /\ Reserved(r) = {}
                           /\ r \in cancelled => "canceled" \in errs'[r]
                           /\ r \notin cancelled => Pending(r) = {}
  PROVE  RunInv(r)'
  <1>1. /\ TypeOK /\ RunInv(r) /\ pc'[r] = l /\ pc[r] # "closed" /\ pc'[r] # "closed"
    BY DEF IInv, TypeOK, Over
  <1>2. /\ Reserved(r)' = Reserved(r) /\ Pending(r)' = Pending(r)
        /\ \A v \in Unit : /\ DependenciesSucceeded(r, v)' <=> DependenciesSucceeded(r, v)
                           /\ FailedDependencies(r, v)' = FailedDependencies(r, v)
    BY NodeFrame
  <1>3. Over(r)' <=> l = "returned"
    BY <1>1 DEF Over
  <1>4. PhaseInv(r)' /\ ReservationInv(r)'
    BY <1>1, <1>2, <1>3, ReservationFrame DEF RunInv, PhaseInv
  <1>5. DependencyInv(r)' /\ RowInv(r)'
    BY <1>1, <1>2 DEF RunInv, DependencyInv, RowInv
  <1>6. SkipInv(r)'
    <2>1. \A v \in Unit :
            /\ node'[r][v] = "skipped" => FailedDependencies(r, v)' # {}
            /\ node'[r][v] \in {"failed", "skipped"} => errs'[r] # {}
            /\ node'[r][v] = "cancelled" /\ errs'[r] = {} => r \in cancelled' /\ ~Over(r)'
      BY <1>1, <1>2, <1>3 DEF RunInv, SkipInv
    <2>2. pc[r] \in {"launching", "waiting", "collecting"} \/ Pending(r) = {}
      BY <1>1 DEF TypeOK, Over
    <2>3. r \notin cancelled => \A v \in Pending(r) : FailedDependencies(r, v) = {}
      BY <1>1, <2>2 DEF RunInv, SkipInv
    <2>4. \A v \in Pending(r) : v \in Unit
      BY DEF Pending, UnitsIn
    <2> QED
      BY <1>2, <2>1, <2>3, <2>4 DEF SkipInv
  <1>7. ProgressInv(r)'
    BY <1>1, <1>2, <1>3 DEF ProgressInv
  <1> QED
    BY <1>4, <1>5, <1>6, <1>7 DEF RunInv

LEMMA LaunchDoneInv ==
  ASSUME IInv, NEW r \in Run, LaunchDone(r)
  PROVE  IInv'
  <1>1. /\ TypeOK /\ RunInv(r) /\ TypeOK' /\ pc[r] = "launching"
        /\ pc' = [pc EXCEPT ![r] = "collecting"]
        /\ UNCHANGED <<graph, node, phase, errs, cancelled, unit, handedOff, runStatus,
                       active, waiters, granted>>
    BY RunnerTypes DEF IInv, RunnerStep, LaunchDone, Goto, durable, budget
  <1>2. r \notin cancelled => Reserved(r) # {} \/ Pending(r) = {}
    <2>1. SUFFICES ASSUME r \notin cancelled, Reserved(r) = {}, Pending(r) # {}
                   PROVE  FALSE
      OBVIOUS
    <2>2. \A u \in Pending(r) : FailedDependencies(r, u) = {}
      BY <1>1, <2>1 DEF RunInv, SkipInv
    <2>3. \E u \in Unit : IsNext(r, u)
      BY <1>1, <2>1, <2>2, NoStall
    <2> QED
      BY <2>1, <2>3 DEF LaunchDone
  <1>3. "stalled" \notin errs[r] /\ ~Over(r)
    BY <1>1 DEF RunInv, ProgressInv, Over
  <1>4. RunInv(r)'
    BY <1>1, <1>2, <1>3, MoveRun
  <1>5. BudgetAccounts' /\ IsFiniteSet(Leases)'
    BY <1>1, BudgetFrame DEF IInv, budget
  <1>6. QueueInv'
    <2>1. \A o \in Run : pc'[o] = "waiting" <=> pc[o] = "waiting"
      BY <1>1 DEF TypeOK
    <2> QED
      BY <1>1, <2>1, QueueFrame DEF IInv
  <1>7. \A o \in Run \ {r} : pc'[o] = pc[o]
    BY <1>1 DEF TypeOK
  <1> QED
    BY <1>1, <1>4, <1>5, <1>6, <1>7, OneRun

LEMMA ReturnInv ==
  ASSUME IInv, NEW r \in Run, Return(r)
  PROVE  IInv'
  <1>1. /\ TypeOK /\ RunInv(r) /\ TypeOK' /\ LoopOver(r)
        /\ pc' = [pc EXCEPT ![r] = "returned"]
        /\ errs' = [errs EXCEPT ![r] = @ \cup
             (IF r \in cancelled THEN {"canceled"}
              ELSE IF Pending(r) # {} THEN {"stalled"} ELSE {})]
        /\ UNCHANGED <<graph, node, phase, cancelled, unit, handedOff, runStatus,
                       active, waiters, granted>>
    BY RunnerTypes DEF IInv, RunnerStep, Return, Goto, durable, budget
  <1>2. ~Over(r) /\ pc[r] # "waiting"
    BY <1>1 DEF LoopOver, Over
  <1>3. /\ Reserved(r) = {}
        /\ pc[r] = "scheduling" => Pending(r) = {}
        /\ r \notin cancelled => Pending(r) = {}
    BY <1>1 DEF LoopOver, Remaining, RunInv, ProgressInv
  <1>4. errs'[r] = errs[r] \cup (IF r \in cancelled THEN {"canceled"} ELSE {})
    BY <1>1, <1>3 DEF TypeOK
  <1>5. /\ errs[r] \subseteq errs'[r] /\ "stalled" \notin errs'[r]
        /\ r \in cancelled => "canceled" \in errs'[r]
    BY <1>1, <1>4 DEF RunInv, ProgressInv
  <1>6. RunInv(r)'
    BY <1>1, <1>2, <1>3, <1>5, MoveRun
  <1>7. BudgetAccounts' /\ IsFiniteSet(Leases)'
    BY <1>1, BudgetFrame DEF IInv, budget
  <1>8. QueueInv'
    <2>1. \A o \in Run : pc'[o] = "waiting" <=> pc[o] = "waiting"
      BY <1>1, <1>2 DEF TypeOK
    <2> QED
      BY <1>1, <2>1, QueueFrame DEF IInv
  <1>9. \A o \in Run \ {r} : pc'[o] = pc[o] /\ errs'[o] = errs[o]
    BY <1>1 DEF TypeOK
  <1> QED
    BY <1>1, <1>6, <1>7, <1>8, <1>9, OneRun

LEMMA FinalizeInv ==
  ASSUME IInv, NEW r \in Run, Finalize(r)
  PROVE  IInv'
  <1>1. /\ TypeOK /\ RunInv(r) /\ TypeOK' /\ pc[r] = "returned"
        /\ pc' = [pc EXCEPT ![r] = "closed"]
        /\ runStatus' = [runStatus EXCEPT ![r] = FinalStatus(r)]
        /\ UNCHANGED <<graph, node, phase, errs, cancelled, handedOff,
                       active, waiters, granted>>
    BY RunnerTypes DEF IInv, RunnerStep, Finalize, Goto, budget
  <1>2. /\ pc'[r] = "closed" /\ runStatus'[r] = FinalStatus(r)
        /\ Over(r) /\ Over(r)'
    BY <1>1 DEF TypeOK, Over
  <1>3. \A v \in Unit : /\ unit'[r][v] \notin UnitOpen
                        /\ unit[r][v] = "success" => unit'[r][v] = "success"
    <2>1. CASE UNCHANGED unit /\ \A v \in Unit : unit[r][v] \notin UnitOpen
      BY <2>1
    <2>2. CASE unit' = [unit EXCEPT ![r] = Closed(r)]
      <3>1. \A v \in Unit : unit'[r][v] = Closed(r)[v]
        BY <1>1, <2>2 DEF TypeOK
      <3> QED
        BY <3>1 DEF Closed, UnitOpen
    <2> QED
      BY <2>1, <2>2 DEF Finalize
  <1>4. /\ Reserved(r)' = Reserved(r) /\ Pending(r)' = Pending(r)
        /\ \A v \in Unit : /\ DependenciesSucceeded(r, v)' <=> DependenciesSucceeded(r, v)
                           /\ FailedDependencies(r, v)' = FailedDependencies(r, v)
    BY <1>1, NodeFrame
  <1>5. RunInv(r)'
    <2>1. PhaseInv(r)' /\ ReservationInv(r)'
      BY <1>1, <1>2, <1>4, ReservationFrame DEF RunInv, PhaseInv
    <2>2. DependencyInv(r)'
      BY <1>1, <1>4 DEF RunInv, DependencyInv
    <2>3. RowInv(r)'
      BY <1>1, <1>2, <1>3 DEF RunInv, RowInv, FinalStatus
    <2>4. SkipInv(r)'
      BY <1>1, <1>2, <1>4 DEF RunInv, SkipInv
    <2>5. ProgressInv(r)'
      BY <1>1, <1>2, <1>4 DEF RunInv, ProgressInv
    <2> QED
      BY <2>1, <2>2, <2>3, <2>4, <2>5 DEF RunInv
  <1>6. BudgetAccounts' /\ IsFiniteSet(Leases)'
    BY <1>1, BudgetFrame DEF IInv, budget
  <1>7. QueueInv'
    <2>1. \A o \in Run : pc'[o] = "waiting" <=> pc[o] = "waiting"
      BY <1>1 DEF TypeOK
    <2> QED
      BY <1>1, <2>1, QueueFrame DEF IInv
  <1>8. \A o \in Run \ {r} : /\ pc'[o] = pc[o] /\ runStatus'[o] = runStatus[o]
                             /\ unit'[o] = unit[o]
    BY <1>1 DEF TypeOK, Finalize
  <1> QED
    BY <1>1, <1>5, <1>6, <1>7, <1>8, OneRun

-----------------------------------------------------------------------------
(* Steps of the runner at the budget.                                      *)

LEMMA RemoveQueue ==
  ASSUME TypeOK, Distinct(waiters), NEW r, RemoveWaiter(r)
  PROVE  /\ Distinct(waiters') /\ Waiting' = Waiting \ {r} /\ waiters # <<>>
         /\ waiters' \in Seq(Run) /\ active' = active /\ granted' = granted
  <1>1. /\ waiters \in Seq(Run) /\ Len(waiters) \in Nat /\ DOMAIN waiters = 1..Len(waiters)
    BY LenProperties DEF TypeOK
  <1>2. /\ waiters' \in Seq(Run) /\ Len(waiters') = Len(waiters) - 1
        /\ active' = active /\ granted' = granted
    BY RemoveEffect
  <1>3. PICK i \in 1..Len(waiters) :
          /\ waiters[i] = r
          /\ \A k \in 1..(Len(waiters) - 1) :
               waiters'[k] = IF k < i THEN waiters[k] ELSE waiters[k + 1]
    BY RemoveEffect
  <1>4. DOMAIN waiters' = 1..(Len(waiters) - 1)
    BY <1>2, LenProperties
  <1> DEFINE from(k) == IF k < i THEN k ELSE k + 1
  <1>5. \A k \in 1..(Len(waiters) - 1) : from(k) \in 1..Len(waiters) /\ from(k) # i
    BY <1>1, <1>3
  <1>6. \A j \in 1..Len(waiters) :
          j # i => \E k \in 1..(Len(waiters) - 1) : from(k) = j
    <2> SUFFICES ASSUME NEW j \in 1..Len(waiters), j # i
                 PROVE  \E k \in 1..(Len(waiters) - 1) : from(k) = j
      OBVIOUS
    <2>1. CASE j < i
      <3>1. j \in 1..(Len(waiters) - 1) /\ from(j) = j
        BY <1>1, <2>1
      <3> QED
        BY <3>1
    <2>2. CASE j > i
      <3>1. j - 1 \in 1..(Len(waiters) - 1) /\ from(j - 1) = j
        BY <1>1, <2>2
      <3> QED
        BY <3>1
    <2> QED
      BY <1>1, <2>1, <2>2
  <1>7. \A k, m \in 1..(Len(waiters) - 1) : from(k) = from(m) => k = m
    BY <1>1
  <1>8. \A k \in 1..(Len(waiters) - 1) : waiters'[k] = waiters[from(k)]
    BY <1>3
  <1> HIDE DEF from
  <1>9. Distinct(waiters')
    BY <1>1, <1>4, <1>5, <1>7, <1>8 DEF Distinct
  <1>10. \A x : x \in Waiting <=> \E j \in 1..Len(waiters) : x = waiters[j]
    BY <1>1 DEF Waiting
  <1>11. \A x : x \in Waiting' <=> \E k \in 1..(Len(waiters) - 1) : x = waiters[from(k)]
    BY <1>4, <1>8 DEF Waiting
  <1>12. \A j \in 1..Len(waiters) : waiters[j] = r <=> j = i
    BY <1>1, <1>3 DEF Distinct
  <1>13. Waiting' \subseteq Waiting \ {r}
    BY <1>5, <1>10, <1>11, <1>12
  <1>14. Waiting \ {r} \subseteq Waiting'
    BY <1>6, <1>10, <1>11, <1>12
  <1> QED
    BY <1>1, <1>2, <1>9, <1>13, <1>14

LEMMA WaitForSlotInv ==
  ASSUME IInv, NEW r \in Run, WaitForSlot(r)
  PROVE  IInv'
  <1>1. /\ TypeOK /\ RunInv(r) /\ TypeOK' /\ QueueInv /\ BudgetAccounts /\ IsFiniteSet(Leases)
        /\ pc[r] = "launching" /\ r \notin cancelled
        /\ pc' = [pc EXCEPT ![r] = "waiting"]
        /\ ~SlotFree /\ waiters' = Append(waiters, r)
        /\ UNCHANGED <<graph, node, phase, errs, cancelled, unit, handedOff, runStatus,
                       active, granted>>
    BY RunnerTypes DEF IInv, RunnerStep, WaitForSlot, JoinWaiters, Goto, durable
  <1>2. RunInv(r)'
    <2>1. "stalled" \notin errs[r] /\ ~Over(r)
      BY <1>1 DEF RunInv, ProgressInv, Over
    <2> QED
      BY <1>1, <2>1, MoveRun
  <1>3. BudgetAccounts' /\ IsFiniteSet(Leases)'
    <2>1. Leases' = Leases
      BY <1>1 DEF Leases, Executing
    <2>2. active \in Nat /\ active <= Limit /\ (waiters # <<>> => active = Limit) /\ Limit \in Nat
      BY <1>1, BudgetAssumption DEF TypeOK, BudgetAccounts, BudgetAssumption
    <2>3. active = Limit
      BY <1>1, <2>2 DEF SlotFree
    <2> QED
      BY <1>1, <2>1, <2>2, <2>3 DEF BudgetAccounts
  <1>4. QueueInv'
    <2>1. /\ Len(waiters) \in Nat /\ DOMAIN waiters = 1..Len(waiters)
          /\ DOMAIN waiters' = 1..(Len(waiters) + 1)
          /\ \A k \in 1..Len(waiters) : waiters'[k] = waiters[k]
          /\ waiters'[Len(waiters) + 1] = r
      BY <1>1, LenProperties, AppendProperties DEF TypeOK
    <2>2. r \notin Waiting \cup granted
      BY <1>1 DEF QueueInv
    <2>3. \A k \in 1..Len(waiters) : waiters[k] # r
      BY <2>1, <2>2 DEF Waiting
    <2>4. \A i, j \in DOMAIN waiters' : waiters'[i] = waiters'[j] => i = j
      BY <1>1, <2>1, <2>3 DEF QueueInv
    <2>5. Waiting' = Waiting \cup {r}
      <3>1. \A x : x \in Waiting <=> \E j \in 1..Len(waiters) : x = waiters[j]
        BY <2>1 DEF Waiting
      <3>2. \A x : x \in Waiting' <=> \E j \in 1..(Len(waiters) + 1) : x = waiters'[j]
        BY <2>1 DEF Waiting
      <3>3. \A j \in 1..(Len(waiters) + 1) : j \in 1..Len(waiters) \/ j = Len(waiters) + 1
        BY <2>1
      <3>4. 1..Len(waiters) \subseteq 1..(Len(waiters) + 1) /\ Len(waiters) + 1 \in 1..(Len(waiters) + 1)
        BY <2>1
      <3>5. \A x : x \in Waiting' <=> x \in Waiting \/ x = r
        BY <2>1, <3>1, <3>2, <3>3, <3>4
      <3> QED
        BY <3>5
    <2>6. \A o \in Run : pc'[o] = "waiting" <=> pc[o] = "waiting" \/ o = r
      BY <1>1 DEF TypeOK
    <2>7. \A o \in Run : \A u \in Unit : IsNext(o, u)' <=> IsNext(o, u)
      BY <1>1, NodeFrame
    <2>8. \E u \in Unit : IsNext(r, u)
      BY DEF WaitForSlot
    <2> QED
      BY <1>1, <2>2, <2>4, <2>5, <2>6, <2>7, <2>8 DEF QueueInv
  <1>5. \A o \in Run \ {r} : pc'[o] = pc[o]
    BY <1>1 DEF TypeOK
  <1> QED
    BY <1>1, <1>2, <1>3, <1>4, <1>5, OneRun

LEMMA AbandonWaitInv ==
  ASSUME IInv, NEW r \in Run, AbandonWait(r)
  PROVE  IInv'
  <1>1. /\ TypeOK /\ RunInv(r) /\ TypeOK' /\ QueueInv /\ BudgetAccounts /\ IsFiniteSet(Leases)
        /\ Distinct(waiters) /\ Waiting \cap granted = {}
        /\ pc[r] = "waiting" /\ r \in cancelled
        /\ pc' = [pc EXCEPT ![r] = "collecting"]
        /\ UNCHANGED <<graph, node, phase, errs, cancelled, unit, handedOff, runStatus>>
    BY RunnerTypes DEF IInv, RunnerStep, AbandonWait, Goto, durable, QueueInv, Distinct
  <1>2. RunInv(r)'
    <2>1. "stalled" \notin errs[r] /\ ~Over(r)
      BY <1>1 DEF RunInv, ProgressInv, Over
    <2> QED
      BY <1>1, <2>1, MoveRun
  <1>3. /\ BudgetAccounts' /\ IsFiniteSet(Leases)'
        /\ Distinct(waiters') /\ Waiting' \cap granted' = {}
        /\ Waiting' \cup granted' = (Waiting \cup granted) \ {r}
    <2>1. CASE r \in granted
      <3>1. Release(granted \ {r}) /\ <<r, UnitCount>> \in Leases
        BY <1>1, <2>1, LeaseMembers DEF AbandonWait
      <3>2. active > 0
        BY <1>1, <3>1, HolderIsActive
      <3>3. /\ Distinct(waiters') /\ Waiting' \cap granted' = {}
            /\ Waiting' \cup granted' = Waiting \cup (granted \ {r})
            /\ \/ granted' = granted \ {r}
               \/ \E w \in Run \ granted : granted' = (granted \ {r}) \cup {w}
        BY <1>1, <3>1, <3>2, ReleaseQueue
      <3>4. ASSUME NEW l \in Run \X (0..UnitCount)
            PROVE  l \in Leases' <=> \/ l \in Leases /\ l # <<r, UnitCount>>
                                     \/ \E w \in granted' \ granted : l = <<w, UnitCount>>
        <4>1. PICK o \in Run, v \in 0..UnitCount : l = <<o, v>>
          OBVIOUS
        <4>2. CASE v = UnitCount
          <5>1. (l \in Leases <=> o \in granted) /\ (l \in Leases' <=> o \in granted')
            BY <1>1, <4>1, <4>2, LeaseMembers, LeaseMembersNext
          <5>2. o \in granted' <=> (o \in granted /\ o # r) \/ o \in granted' \ granted
            BY <2>1, <3>3
          <5> QED
            BY <4>1, <4>2, <5>1, <5>2
        <4>3. CASE v \in Unit
          <5>1. l \in Leases <=> l \in Leases'
            BY <1>1, <4>1, <4>3, LeaseMembers, LeaseMembersNext
          <5>2. v # UnitCount
            BY <4>3, PositionSplit
          <5> QED
            BY <4>1, <5>1, <5>2
        <4> QED
          BY <4>2, <4>3, PositionSplit
      <3>5. BudgetAccounts' /\ IsFiniteSet(Leases)'
        BY <1>1, <3>1, <3>4, LeaseReturned
      <3> QED
        BY <1>1, <2>1, <3>3, <3>5
    <2>2. CASE r \notin granted
      <3>1. /\ Distinct(waiters') /\ Waiting' = Waiting \ {r} /\ waiters # <<>>
            /\ active' = active /\ granted' = granted
        BY <1>1, <2>2, RemoveQueue DEF AbandonWait
      <3>2. Leases' = Leases
        BY <1>1, <3>1 DEF Leases, Executing
      <3> QED
        BY <1>1, <2>2, <3>1, <3>2 DEF BudgetAccounts
    <2> QED
      BY <2>1, <2>2
  <1>4. QueueInv'
    <2>1. \A o \in Run : pc'[o] = "waiting" <=> pc[o] = "waiting" /\ o # r
      BY <1>1 DEF TypeOK
    <2>2. \A o \in Run : \A u \in Unit : IsNext(o, u)' <=> IsNext(o, u)
      BY <1>1, NodeFrame
    <2> QED
      BY <1>1, <1>3, <2>1, <2>2 DEF QueueInv, Distinct
  <1>5. \A o \in Run \ {r} : pc'[o] = pc[o]
    BY <1>1 DEF TypeOK
  <1> QED
    BY <1>1, <1>2, <1>3, <1>4, <1>5, OneRun

(* A unit that is launched fits what is reserved, and its dependencies are *)
(* done.                                                                   *)
LEMMA LaunchRun ==
  ASSUME IInv, NEW r \in Run, NEW u \in Unit, IsNext(r, u), LaunchUnit(r, u),
         r \notin cancelled, pc[r] \in {"launching", "waiting"}, pc'[r] = "launching"
  PROVE  RunInv(r)'
  <1>1. /\ TypeOK /\ RunInv(r) /\ ~Over(r) /\ ~Over(r)'
        /\ node' = [node EXCEPT ![r][u] = "running"]
        /\ phase' = [phase EXCEPT ![r][u] = "starting"]
        /\ UNCHANGED <<graph, errs, cancelled, unit, handedOff, runStatus>>
    BY DEF IInv, LaunchUnit, durable, Over
  <1>2. /\ node[r][u] = "pending" /\ DependenciesSucceeded(r, u)
        /\ ExclusionAllows(r, u) /\ ConnectionsAvailable(r, u) /\ ResourcesAvailable(r, u)
        /\ Cardinality(Reserved(r)) < MaxActive
    BY DEF IsNext, Runnable, Pending, UnitsIn
  <1>3. \A v \in Unit : /\ node'[r][v] = IF v = u THEN "running" ELSE node[r][v]
                        /\ phase'[r][v] = IF v = u THEN "starting" ELSE phase[r][v]
    BY <1>1 DEF TypeOK
  <1>4. \A v \in Unit : /\ DependenciesSucceeded(r, v) => DependenciesSucceeded(r, v)'
                        /\ FailedDependencies(r, v) \subseteq FailedDependencies(r, v)'
    BY <1>1, <1>2, <1>3, StatusesStay
  <1>5. \A v \in Unit : FailedDependencies(r, v)' = FailedDependencies(r, v)
    <2>1. \A v \in Unit : graph[r].deps[v] \subseteq Unit
      BY <1>1, GraphFacts
    <2> QED
      BY <1>1, <1>3, <1>4, <2>1 DEF FailedDependencies
  <1>6. /\ Reserved(r)' = Reserved(r) \cup {u} /\ u \notin Reserved(r)
        /\ Reserved(r) \in SUBSET Unit /\ Pending(r)' \subseteq Pending(r)
        /\ Pending(r) \subseteq Unit
    BY <1>2, <1>3 DEF Reserved, Pending, UnitsIn
  <1>7. PhaseInv(r)'
    BY <1>1, <1>3 DEF RunInv, PhaseInv
  <1>8. ReservationInv(r)'
    <2>1. ASSUME NEW S \in SUBSET Unit, u \notin S
          PROVE  Cardinality(S \cup {u}) = Cardinality(S) + 1 /\ Cardinality(S) \in Nat
      BY <2>1, SetOfUnits, FS_AddElement
    <2>2. Cardinality(Reserved(r)') <= MaxActive
      <3>1. Cardinality(Reserved(r) \cup {u}) = Cardinality(Reserved(r)) + 1
            /\ Cardinality(Reserved(r)) \in Nat
        BY <1>6, <2>1
      <3> QED
        BY <1>2, <1>6, <3>1, GraphAssumption DEF GraphAssumption
    <2>3. ASSUME NEW c \in DOMAIN ConnectionLimit
          PROVE  Cardinality({v \in Reserved(r)' : c \in graph'[r].connections[v]})
                   <= ConnectionLimit[c]
      <3> DEFINE S == {v \in Reserved(r) : c \in graph[r].connections[v]}
                 T == {v \in Reserved(r)' : c \in graph'[r].connections[v]}
      <3>1. S \in SUBSET Unit /\ u \notin S
        BY <1>6
      <3>2. Cardinality(S) <= ConnectionLimit[c] /\ ConnectionLimit[c] \in Nat
        BY <1>1, GraphFacts DEF RunInv, ReservationInv
      <3>3. CASE c \in graph[r].connections[u]
        <4>1. T = S \cup {u}
          BY <1>1, <1>6, <3>3
        <4>2. Cardinality(S) < ConnectionLimit[c]
          BY <1>2, <3>3 DEF ConnectionsAvailable
        <4> HIDE DEF S, T
        <4>3. Cardinality(T) = Cardinality(S) + 1 /\ Cardinality(S) \in Nat
          BY <2>1, <3>1, <4>1
        <4>4. Cardinality(T) <= ConnectionLimit[c]
          BY <3>2, <4>2, <4>3
        <4> QED
          BY <4>4 DEF T
      <3>4. CASE c \notin graph[r].connections[u]
        <4>1. T = S
          BY <1>1, <1>6, <3>4
        <4> QED
          BY <3>2, <4>1
      <3> QED
        BY <3>3, <3>4
    <2>4. \A v, o \in Reserved(r)' :
            v # o => /\ graph'[r].resources[v] \cap graph'[r].resources[o] = {}
                     /\ v \notin graph'[r].exclusive
      <3>1. \A v, o \in Reserved(r) :
              v # o => /\ graph[r].resources[v] \cap graph[r].resources[o] = {}
                       /\ v \notin graph[r].exclusive
        BY <1>1 DEF RunInv, ReservationInv
      <3>2. \A o \in Reserved(r) : /\ graph[r].resources[o] \cap graph[r].resources[u] = {}
                                   /\ u \notin graph[r].exclusive
                                   /\ o \notin graph[r].exclusive
        BY <1>2 DEF ResourcesAvailable, ExclusionAllows
      <3> QED
        BY <1>1, <1>6, <3>1, <3>2
    <2> QED
      BY <2>2, <2>3, <2>4 DEF ReservationInv
  <1>9. DependencyInv(r)'
    BY <1>1, <1>2, <1>3, <1>4 DEF RunInv, DependencyInv
  <1>10. RowInv(r)'
    BY <1>1, <1>2, <1>3 DEF RunInv, RowInv, Over
  <1>11. SkipInv(r)'
    BY <1>1, <1>3, <1>5, <1>6 DEF RunInv, SkipInv
  <1>12. ProgressInv(r)'
    BY <1>1 DEF RunInv, ProgressInv
  <1> QED
    BY <1>7, <1>8, <1>9, <1>10, <1>11, <1>12 DEF RunInv

LEMMA AcquireAtOnceInv ==
  ASSUME IInv, NEW r \in Run, AcquireAtOnce(r)
  PROVE  IInv'
  <1>1. /\ TypeOK /\ RunInv(r) /\ TypeOK' /\ QueueInv /\ BudgetAccounts /\ IsFiniteSet(Leases)
        /\ pc[r] = "launching" /\ r \notin cancelled
        /\ SlotFree /\ active' = active + 1
        /\ UNCHANGED <<pc, waiters, granted>>
    BY RunnerTypes DEF IInv, RunnerStep, AcquireAtOnce, AcquireSlot
  <1>2. PICK u \in Unit : IsNext(r, u) /\ LaunchUnit(r, u)
    BY DEF AcquireAtOnce
  <1>3. /\ node' = [node EXCEPT ![r][u] = "running"]
        /\ phase' = [phase EXCEPT ![r][u] = "starting"]
        /\ UNCHANGED <<graph, errs, cancelled, unit, handedOff, runStatus>>
    BY <1>2 DEF LaunchUnit, durable
  <1>4. RunInv(r)'
    BY <1>1, <1>2, LaunchRun
  <1>5. phase[r][u] = "none"
    BY <1>1, <1>2 DEF RunInv, PhaseInv, IsNext, Runnable, Pending, UnitsIn
  <1>6. BudgetAccounts' /\ IsFiniteSet(Leases)'
    <2>1. <<r, u>> \notin Leases /\ <<r, u>> \in Run \X (0..UnitCount)
      BY <1>1, <1>5, LeaseMembers, PositionSplit
    <2>2. ASSUME NEW o \in Run, NEW v \in 0..UnitCount
          PROVE  <<o, v>> \in Leases' <=> <<o, v>> \in Leases \/ (o = r /\ v = u)
      <3>1. CASE v = UnitCount
        BY <1>1, <3>1, LeaseMembers, LeaseMembersNext, PositionSplit
      <3>2. CASE v \in Unit
        <4>1. phase'[o][v] = IF o = r /\ v = u THEN "starting" ELSE phase[o][v]
          BY <1>1, <1>3, <3>2 DEF TypeOK
        <4> QED
          BY <1>1, <3>2, <4>1, LeaseMembers, LeaseMembersNext
      <3> QED
        BY <3>1, <3>2, PositionSplit
    <2>3. Leases' = Leases \cup {<<r, u>>}
      <3>1. Leases \subseteq Run \X (0..UnitCount) /\ Leases' \subseteq Run \X (0..UnitCount)
        BY <1>1, LeaseMembers, LeaseMembersNext
      <3> QED
        BY <2>1, <2>2, <3>1
    <2>4. /\ IsFiniteSet(Leases \cup {<<r, u>>})
          /\ Cardinality(Leases \cup {<<r, u>>}) = Cardinality(Leases) + 1
      BY <1>1, <2>1, FS_AddElement
    <2> QED
      BY <1>1, <2>3, <2>4, BudgetAssumption
        DEF BudgetAccounts, SlotFree, TypeOK, BudgetAssumption
  <1>7. QueueInv'
    <2>1. \A o \in Run : pc[o] = "waiting" => node'[o] = node[o]
      BY <1>1, <1>3 DEF TypeOK
    <2> QED
      BY <1>1, <1>3, <2>1, QueueFrame
  <1>8. \A o \in Run \ {r} : node'[o] = node[o] /\ phase'[o] = phase[o]
    BY <1>1, <1>3 DEF TypeOK
  <1> QED
    BY <1>1, <1>3, <1>4, <1>6, <1>7, <1>8, OneRun

LEMMA SlotGrantedInv ==
  ASSUME IInv, NEW r \in Run, SlotGranted(r)
  PROVE  IInv'
  <1>1. /\ TypeOK /\ RunInv(r) /\ TypeOK' /\ QueueInv /\ BudgetAccounts /\ IsFiniteSet(Leases)
        /\ pc[r] = "waiting" /\ r \notin cancelled /\ r \in granted
        /\ granted' = granted \ {r} /\ pc' = [pc EXCEPT ![r] = "launching"]
        /\ UNCHANGED <<active, waiters>>
    BY RunnerTypes DEF IInv, RunnerStep, SlotGranted, Goto
  <1>2. PICK u \in Unit : IsNext(r, u) /\ LaunchUnit(r, u)
    BY DEF SlotGranted
  <1>3. /\ node' = [node EXCEPT ![r][u] = "running"]
        /\ phase' = [phase EXCEPT ![r][u] = "starting"]
        /\ UNCHANGED <<graph, errs, cancelled, unit, handedOff, runStatus>>
    BY <1>2 DEF LaunchUnit, durable
  <1>4. RunInv(r)'
    <2>1. pc'[r] = "launching"
      BY <1>1 DEF TypeOK
    <2> QED
      BY <1>1, <1>2, <2>1, LaunchRun
  <1>5. phase[r][u] = "none"
    BY <1>1, <1>2 DEF RunInv, PhaseInv, IsNext, Runnable, Pending, UnitsIn
  <1>6. BudgetAccounts' /\ IsFiniteSet(Leases)'
    <2>1. <<r, u>> \notin Leases /\ <<r, UnitCount>> \in Leases /\ u # UnitCount
      BY <1>1, <1>5, LeaseMembers, PositionSplit
    <2>2. ASSUME NEW o \in Run, NEW v \in 0..UnitCount
          PROVE  <<o, v>> \in Leases' <=> \/ <<o, v>> \in Leases /\ ~(o = r /\ v = UnitCount)
                                          \/ o = r /\ v = u
      <3>1. CASE v = UnitCount
        BY <1>1, <3>1, LeaseMembers, LeaseMembersNext, PositionSplit
      <3>2. CASE v \in Unit
        <4>1. phase'[o][v] = IF o = r /\ v = u THEN "starting" ELSE phase[o][v]
          BY <1>1, <1>3, <3>2 DEF TypeOK
        <4> QED
          BY <1>1, <3>2, <4>1, LeaseMembers, LeaseMembersNext, PositionSplit
      <3> QED
        BY <3>1, <3>2, PositionSplit
    <2>3. Leases' = (Leases \ {<<r, UnitCount>>}) \cup {<<r, u>>}
      <3>1. Leases \subseteq Run \X (0..UnitCount) /\ Leases' \subseteq Run \X (0..UnitCount)
        BY <1>1, LeaseMembers, LeaseMembersNext
      <3>2. <<r, u>> \in Run \X (0..UnitCount)
        BY PositionSplit
      <3> QED
        BY <2>1, <2>2, <3>1, <3>2
    <2>4. /\ IsFiniteSet(Leases \ {<<r, UnitCount>>})
          /\ Cardinality(Leases \ {<<r, UnitCount>>}) = Cardinality(Leases) - 1
      BY <1>1, <2>1, FS_RemoveElement
    <2>5. /\ IsFiniteSet(Leases')
          /\ Cardinality(Leases') = Cardinality(Leases \ {<<r, UnitCount>>}) + 1
      BY <2>1, <2>3, <2>4, FS_AddElement
    <2> QED
      BY <1>1, <2>4, <2>5 DEF BudgetAccounts, TypeOK
  <1>7. QueueInv'
    <2>1. \A o \in Run : pc'[o] = "waiting" <=> pc[o] = "waiting" /\ o # r
      BY <1>1 DEF TypeOK
    <2>2. \A o \in Run \ {r} : \A v \in Unit : IsNext(o, v)' <=> IsNext(o, v)
      <3>1. \A o \in Run \ {r} : node'[o] = node[o]
        BY <1>1, <1>3 DEF TypeOK
      <3> QED
        BY <1>3, <3>1, NodeFrame
    <2>3. Waiting' = Waiting /\ r \notin Waiting
      BY <1>1 DEF Waiting, QueueInv
    <2> QED
      BY <1>1, <2>1, <2>2, <2>3 DEF QueueInv
  <1>8. \A o \in Run \ {r} : node'[o] = node[o] /\ phase'[o] = phase[o] /\ pc'[o] = pc[o]
    BY <1>1, <1>3 DEF TypeOK
  <1> QED
    BY <1>1, <1>3, <1>4, <1>6, <1>7, <1>8, OneRun

-----------------------------------------------------------------------------
(* The pass over the pending units.                                        *)

(* The blocked units are the least closed set.                             *)
LEMMA BlockedClosed ==
  ASSUME NEW r \in Run
  PROVE  Blocked(r) \subseteq Pending(r) /\ SkipClosed(r, Blocked(r))
  <1>1. Blocked(r) \subseteq Pending(r)
    BY DEF Blocked
  <1>2. ASSUME NEW u \in Pending(r),
               FailedDependencies(r, u) # {} \/ graph[r].deps[u] \cap Blocked(r) # {}
        PROVE  u \in Blocked(r)
    <2> SUFFICES ASSUME NEW S \in SUBSET Pending(r), SkipClosed(r, S)
                 PROVE  u \in S
      BY DEF Blocked
    <2>1. Blocked(r) \subseteq S
      BY DEF Blocked
    <2>2. FailedDependencies(r, u) # {} \/ graph[r].deps[u] \cap S # {}
      BY <1>2, <2>1
    <2> QED
      BY <2>2 DEF SkipClosed
  <1> QED
    BY <1>1, <1>2 DEF SkipClosed

LEMMA BlockedReason ==
  ASSUME NEW r \in Run, NEW u \in Blocked(r)
  PROVE  FailedDependencies(r, u) # {} \/ graph[r].deps[u] \cap Blocked(r) # {}
  <1> SUFFICES ASSUME FailedDependencies(r, u) = {}, graph[r].deps[u] \cap Blocked(r) = {}
               PROVE  FALSE
    OBVIOUS
  <1> DEFINE S == Blocked(r) \ {u}
  <1>1. S \in SUBSET Pending(r)
    BY BlockedClosed
  <1>2. SkipClosed(r, S)
    <2> SUFFICES ASSUME NEW v \in Pending(r),
                        FailedDependencies(r, v) # {} \/ graph[r].deps[v] \cap S # {}
                 PROVE  v \in S
      BY DEF SkipClosed
    <2>1. v \in Blocked(r)
      BY BlockedClosed DEF SkipClosed
    <2>2. v # u
      OBVIOUS
    <2> QED
      BY <2>1, <2>2
  <1>3. u \in S
    BY <1>1, <1>2 DEF Blocked
  <1> QED
    BY <1>3

LEMMA BlockedCause ==
  ASSUME NEW r \in Run, Blocked(r) # {}
  PROVE  \E u \in Pending(r) : FailedDependencies(r, u) # {}
  <1> SUFFICES ASSUME \A u \in Pending(r) : FailedDependencies(r, u) = {}
               PROVE  FALSE
    OBVIOUS
  <1>1. SkipClosed(r, {})
    BY DEF SkipClosed
  <1>2. Blocked(r) \subseteq {}
    BY <1>1 DEF Blocked
  <1> QED
    BY <1>2

LEMMA ScheduleInv ==
  ASSUME IInv, NEW r \in Run, Schedule(r)
  PROVE  IInv'
  <1>1. /\ TypeOK /\ RunInv(r) /\ TypeOK' /\ pc[r] = "scheduling"
        /\ pc' = [pc EXCEPT ![r] = "launching"]
        /\ UNCHANGED <<graph, phase, cancelled, handedOff, runStatus, active, waiters, granted>>
    BY RunnerTypes DEF IInv, RunnerStep, Schedule, Goto, budget
  <1>2. pc'[r] = "launching" /\ ~Over(r) /\ ~Over(r)'
    BY <1>1 DEF TypeOK, Over
  <1>3. Pending(r) = {u \in Unit : node[r][u] = "pending"}
    BY DEF Pending, UnitsIn
  <1>4. CASE CancelPending(r)
    <2>1. /\ r \in cancelled /\ UNCHANGED <<errs, unit>>
          /\ node' = [node EXCEPT ![r] =
                        [u \in Unit |-> IF u \in Pending(r) THEN "cancelled" ELSE node[r][u]]]
      BY <1>4 DEF CancelPending
    <2>2. \A u \in Unit :
            node'[r][u] = IF node[r][u] = "pending" THEN "cancelled" ELSE node[r][u]
      BY <1>1, <1>3, <2>1 DEF TypeOK
    <2>3. \A u \in Unit : /\ DependenciesSucceeded(r, u) => DependenciesSucceeded(r, u)'
                          /\ FailedDependencies(r, u) \subseteq FailedDependencies(r, u)'
      BY <1>1, <2>2, StatusesStay
    <2>4. Reserved(r)' = Reserved(r)
      BY <2>2 DEF Reserved, UnitsIn
    <2>5. PhaseInv(r)' /\ ReservationInv(r)'
      BY <1>1, <1>2, <2>2, <2>4, ReservationFrame DEF RunInv, PhaseInv
    <2>6. DependencyInv(r)' /\ RowInv(r)'
      BY <1>1, <1>2, <2>1, <2>2, <2>3 DEF RunInv, DependencyInv, RowInv
    <2>7. SkipInv(r)' /\ ProgressInv(r)'
      BY <1>1, <1>2, <2>1, <2>2, <2>3 DEF RunInv, SkipInv, ProgressInv
    <2> QED
      <3>1. RunInv(r)'
        BY <2>5, <2>6, <2>7 DEF RunInv
      <3>2. \A o \in Run : o # r => node'[o] = node[o] /\ pc'[o] = pc[o]
        BY <1>1, <2>1 DEF TypeOK
      <3>3. BudgetAccounts' /\ IsFiniteSet(Leases)'
        BY <1>1, BudgetFrame DEF IInv, budget
      <3>4. QueueInv'
        BY <1>1, <1>2, <3>2, QueueFrame DEF IInv
      <3> QED
        BY <1>1, <2>1, <3>1, <3>2, <3>3, <3>4, OneRun
  <1>5. CASE SkipBlocked(r)
    <2>1. PICK W \in SUBSET Blocked(r) :
            /\ r \notin cancelled
            /\ node' = [node EXCEPT ![r] =
                          [u \in Unit |-> IF u \in Blocked(r) THEN "skipped" ELSE node[r][u]]]
            /\ unit' = [unit EXCEPT ![r] =
                          [u \in Unit |-> IF u \in W THEN "skipped" ELSE unit[r][u]]]
            /\ errs' = errs \/ errs' = [errs EXCEPT ![r] = @ \cup {"error"}]
      BY <1>5 DEF SkipBlocked
    <2>2. /\ \A u \in Unit :
               /\ node'[r][u] = IF u \in Blocked(r) THEN "skipped" ELSE node[r][u]
               /\ unit'[r][u] = IF u \in W THEN "skipped" ELSE unit[r][u]
          /\ errs[r] \subseteq errs'[r]
          /\ "stalled" \in errs'[r] => "stalled" \in errs[r]
      BY <1>1, <2>1 DEF TypeOK
    <2>3. \A u \in Blocked(r) : u \in Unit /\ node[r][u] = "pending"
      BY <1>3, BlockedClosed
    <2>4. \A u \in Unit : /\ DependenciesSucceeded(r, u) => DependenciesSucceeded(r, u)'
                          /\ FailedDependencies(r, u) \subseteq FailedDependencies(r, u)'
      BY <1>1, <2>2, <2>3, StatusesStay
    <2>5. Reserved(r)' = Reserved(r)
      BY <2>2, <2>3 DEF Reserved, UnitsIn
    <2>6. PhaseInv(r)' /\ ReservationInv(r)'
      BY <1>1, <1>2, <2>2, <2>3, <2>5, ReservationFrame DEF RunInv, PhaseInv
    <2>7. DependencyInv(r)'
      BY <1>1, <2>2, <2>3, <2>4 DEF RunInv, DependencyInv
    <2>8. RowInv(r)'
      <3>1. \A u \in Blocked(r) : /\ unit[r][u] = "queued" /\ u \notin handedOff[r]
                                  /\ phase[r][u] = "none"
        BY <1>1, <2>3 DEF RunInv, RowInv, PhaseInv
      <3> QED
        BY <1>1, <1>2, <2>2, <2>3, <3>1 DEF RunInv, RowInv
    <2>9. SkipInv(r)'
      <3>1. \A u \in Unit : node'[r][u] = "skipped" => FailedDependencies(r, u)' # {}
        <4> SUFFICES ASSUME NEW u \in Unit, node'[r][u] = "skipped"
                     PROVE  FailedDependencies(r, u)' # {}
          OBVIOUS
        <4>1. CASE u \notin Blocked(r)
          BY <1>1, <2>2, <2>4, <4>1 DEF RunInv, SkipInv
        <4>2. CASE u \in Blocked(r)
          <5>1. CASE FailedDependencies(r, u) # {}
            BY <2>4, <5>1
          <5>2. CASE graph[r].deps[u] \cap Blocked(r) # {}
            <6>1. PICK d \in graph[r].deps[u] : d \in Blocked(r)
              BY <5>2
            <6>2. node'[r][d] = "skipped"
              BY <2>2, <2>3, <6>1
            <6> QED
              BY <1>1, <6>1, <6>2 DEF FailedDependencies
          <5> QED
            BY <4>2, <5>1, <5>2, BlockedReason
        <4> QED
          BY <4>1, <4>2
      <3>2. Blocked(r) # {} => errs[r] # {}
        <4> SUFFICES ASSUME Blocked(r) # {} PROVE errs[r] # {}
          OBVIOUS
        <4>1. PICK u \in Pending(r) : FailedDependencies(r, u) # {}
          BY BlockedCause
        <4>2. PICK d \in graph[r].deps[u] : node[r][d] \in {"failed", "skipped", "cancelled"}
          BY <4>1 DEF FailedDependencies
        <4>3. d \in Unit
          BY <1>1, <1>3, <4>1, <4>2, GraphFacts
        <4> QED
          BY <1>1, <2>1, <4>2, <4>3 DEF RunInv, SkipInv
      <3>3. \A u \in Unit : node'[r][u] \in {"failed", "skipped"} => errs'[r] # {}
        BY <1>1, <2>2, <3>2 DEF RunInv, SkipInv
      <3>4. \A u \in Unit : node'[r][u] = "cancelled" => errs'[r] # {}
        BY <1>1, <2>1, <2>2 DEF RunInv, SkipInv
      <3>5. \A u \in Pending(r)' : FailedDependencies(r, u)' = {}
        <4> SUFFICES ASSUME NEW u \in Pending(r)', NEW d \in FailedDependencies(r, u)'
                     PROVE  FALSE
          OBVIOUS
        <4>1. u \in Pending(r) /\ u \notin Blocked(r) /\ u \in Unit
          BY <1>3, <2>2 DEF Pending, UnitsIn
        <4>2. d \in graph[r].deps[u] /\ d \in Unit
          BY <1>1, <4>1, GraphFacts DEF FailedDependencies
        <4>3. d \in Blocked(r) \/ d \in FailedDependencies(r, u)
          BY <1>1, <2>2, <4>2 DEF FailedDependencies
        <4> QED
          BY <4>1, <4>2, <4>3, BlockedClosed DEF SkipClosed
      <3> QED
        BY <3>1, <3>3, <3>4, <3>5 DEF SkipInv
    <2>10. ProgressInv(r)'
      BY <1>1, <1>2, <2>2 DEF RunInv, ProgressInv
    <2> QED
      <3>1. RunInv(r)'
        BY <2>6, <2>7, <2>8, <2>9, <2>10 DEF RunInv
      <3>2. \A o \in Run : o # r => node'[o] = node[o] /\ pc'[o] = pc[o]
        BY <1>1, <2>1 DEF TypeOK
      <3>3. \A o \in Run \ {r} : unit'[o] = unit[o] /\ errs'[o] = errs[o]
        BY <1>1, <2>1 DEF TypeOK
      <3>4. BudgetAccounts' /\ IsFiniteSet(Leases)'
        BY <1>1, BudgetFrame DEF IInv, budget
      <3>5. QueueInv'
        BY <1>1, <1>2, <3>2, QueueFrame DEF IInv
      <3> QED
        BY <1>1, <3>1, <3>2, <3>3, <3>4, <3>5, OneRun
  <1> QED
    BY <1>4, <1>5 DEF Schedule

-----------------------------------------------------------------------------
LEMMA InitInv ==
  ASSUME Init
  PROVE  IInv
  <1> USE DEF Init, NewBudget
  <1>1. TypeOK
    BY DEF TypeOK, NodeStatus, Phase, UnitStatus, UnitOpen
  <1>2. Leases = {}
    BY DEF Leases, Executing
  <1>3. BudgetAccounts /\ IsFiniteSet(Leases)
    BY <1>2, FS_EmptySet, BudgetAssumption DEF BudgetAccounts, BudgetAssumption
  <1>4. QueueInv
    BY DEF QueueInv, Waiting
  <1>5. ASSUME NEW r \in Run PROVE RunInv(r)
    <2>1. Reserved(r) = {} /\ ~Over(r)
      BY DEF Reserved, UnitsIn, Over
    <2>2. PhaseInv(r) /\ DependencyInv(r) /\ RowInv(r) /\ SkipInv(r) /\ ProgressInv(r)
      BY <2>1 DEF PhaseInv, DependencyInv, RowInv, SkipInv, ProgressInv
    <2>3. ReservationInv(r)
      <3>1. \A c : {u \in Reserved(r) : c \in graph[r].connections[u]} = {}
        BY <2>1
      <3>2. MaxActive \in Nat /\ \A c \in DOMAIN ConnectionLimit : ConnectionLimit[c] \in Nat
        BY GraphAssumption DEF GraphAssumption
      <3> HIDE DEF Init
      <3> QED
        BY <2>1, <3>1, <3>2, FS_EmptySet DEF ReservationInv
    <2> QED
      BY <2>2, <2>3 DEF RunInv
  <1> QED
    BY <1>1, <1>3, <1>4, <1>5 DEF IInv

LEMMA StutterInv ==
  ASSUME IInv, UNCHANGED vars
  PROVE  IInv'
  <1>1. UNCHANGED <<graph, pc, node, phase, errs, cancelled, unit, handedOff, runStatus,
                    active, waiters, granted>>
    BY DEF vars, runner, durable, budget
  <1>2. TypeOK'
    BY <1>1 DEF IInv, TypeOK
  <1>3. BudgetAccounts' /\ IsFiniteSet(Leases)'
    BY <1>1, <1>2, BudgetFrame DEF IInv, budget
  <1>4. QueueInv'
    BY <1>1, QueueFrame DEF IInv
  <1>5. ASSUME NEW r \in Run PROVE RunInv(r)'
    BY <1>1, RunFrame DEF IInv
  <1> QED
    BY <1>2, <1>3, <1>4, <1>5 DEF IInv

(* The inductive invariant holds in every reachable state.                 *)
THEOREM Invariance == Spec => []IInv
  <1>1. Init => IInv
    BY InitInv
  <1>2. IInv /\ [Next]_vars => IInv'
    <2> SUFFICES ASSUME IInv, [Next]_vars PROVE IInv'
      OBVIOUS
    <2>1. ASSUME NEW r \in Run, RunnerStep(r) PROVE IInv'
      BY <2>1, ScheduleInv, AcquireAtOnceInv, WaitForSlotInv, SlotGrantedInv, AbandonWaitInv,
         LaunchDoneInv, ReceiveInv, ReturnInv, FinalizeInv DEF RunnerStep
    <2>2. ASSUME NEW r \in Run, Cancel(r) PROVE IInv'
      BY <2>2, CancelInv
    <2>3. ASSUME NEW r \in Run, NEW u \in Unit, UnitStep(r, u) PROVE IInv'
      BY <2>3, UnitStepInv
    <2>4. CASE UNCHANGED vars
      BY <2>4, StutterInv
    <2> QED
      BY <2>1, <2>2, <2>3, <2>4 DEF Next, AllClosed
  <1> QED
    BY <1>1, <1>2, PTL DEF Spec

-----------------------------------------------------------------------------
(* What follows.                                                           *)

(* Every variable keeps its type.                                          *)
THEOREM TypeCorrect == Spec => []TypeOK
  <1>1. IInv => TypeOK
    BY DEF IInv
  <1> QED
    BY <1>1, Invariance, PTL

(* budget.go, over all runs of the workspace: the counter is the number of *)
(* leases that are out, it stays within the limit, and no run waits beside *)
(* a free slot, whatever is cancelled at whatever moment.                  *)
THEOREM BudgetCorrect == Spec => []BudgetAccounts
  <1>1. IInv => BudgetAccounts
    BY DEF IInv
  <1> QED
    BY <1>1, Invariance, PTL

(* A unit that executes is reserved.                                       *)
LEMMA ExecutingReserved ==
  ASSUME IInv, NEW r \in Run
  PROVE  Executing(r) \subseteq Reserved(r) /\ Reserved(r) \subseteq Unit
  BY DEF IInv, RunInv, PhaseInv, Executing, Reserved, UnitsIn

(* runner.go: MaxActive, the limits of connections, exclusive resources    *)
(* and exclusive units are respected by what executes in a run.            *)
THEOREM LimitsCorrect == Spec => []LimitsRespected
  <1>1. IInv => LimitsRespected
    <2> SUFFICES ASSUME IInv, NEW r \in Run
                 PROVE  /\ Cardinality(Executing(r)) <= MaxActive
                        /\ \A c \in DOMAIN ConnectionLimit :
                             Cardinality({u \in Executing(r) : c \in graph[r].connections[u]})
                               <= ConnectionLimit[c]
                        /\ \A u, o \in Executing(r) :
                             u # o => /\ graph[r].resources[u] \cap graph[r].resources[o] = {}
                                      /\ u \notin graph[r].exclusive
      BY DEF LimitsRespected
    <2>1. TypeOK /\ ReservationInv(r)
      BY DEF IInv, RunInv
    <2>2. Executing(r) \subseteq Reserved(r) /\ Reserved(r) \subseteq Unit
      BY ExecutingReserved
    <2>3. ASSUME NEW S \in SUBSET Unit, NEW T \in SUBSET S, NEW n \in Nat, Cardinality(S) <= n
          PROVE  Cardinality(T) <= n
      <3>1. Cardinality(T) <= Cardinality(S) /\ Cardinality(S) \in Nat /\ Cardinality(T) \in Nat
        BY SetOfUnits, FS_Subset
      <3> QED
        BY <2>3, <3>1
    <2>4. Cardinality(Executing(r)) <= MaxActive
      BY <2>1, <2>2, <2>3, GraphAssumption DEF ReservationInv, GraphAssumption
    <2>5. ASSUME NEW c \in DOMAIN ConnectionLimit
          PROVE  Cardinality({u \in Executing(r) : c \in graph[r].connections[u]})
                   <= ConnectionLimit[c]
      <3> DEFINE S == {u \in Reserved(r) : c \in graph[r].connections[u]}
                 T == {u \in Executing(r) : c \in graph[r].connections[u]}
      <3>1. S \in SUBSET Unit /\ T \in SUBSET S
        BY <2>2
      <3>2. Cardinality(S) <= ConnectionLimit[c] /\ ConnectionLimit[c] \in Nat
        BY <2>1, GraphAssumption DEF ReservationInv, GraphAssumption
      <3> HIDE DEF S, T
      <3>3. Cardinality(T) <= ConnectionLimit[c]
        BY <2>3, <3>1, <3>2
      <3> QED
        BY <3>3 DEF T
    <2> QED
      BY <2>1, <2>2, <2>4, <2>5 DEF ReservationInv
  <1> QED
    BY <1>1, Invariance, PTL

(* A unit is started only over dependencies whose success and completion   *)
(* record are durable.                                                     *)
THEOREM HandOffCorrect == Spec => []DependenciesHandedOff
  <1>1. IInv => DependenciesHandedOff
    <2> SUFFICES ASSUME IInv, NEW r \in Run, NEW u \in Unit, phase[r][u] # "none",
                        NEW d \in graph[r].deps[u]
                 PROVE  d \in handedOff[r]
      BY DEF DependenciesHandedOff
    <2>1. node[r][u] = "running" /\ DependencyInv(r)
      BY RunningUnit DEF IInv, RunInv
    <2>2. d \in Unit /\ node[r][d] = "succeeded"
      BY <2>1, GraphFacts DEF IInv, DependencyInv, DependenciesSucceeded
    <2> QED
      BY <2>1, <2>2 DEF DependencyInv
  <1> QED
    BY <1>1, Invariance, PTL

(* Runner.Run leaves no goroutine, no unread result and no request for a   *)
(* slot behind.                                                            *)
THEOREM DrainCorrect == Spec => []ReturnsDrained
  <1>1. IInv => ReturnsDrained
    BY DEF IInv, QueueInv, RunInv, PhaseInv, Over, Reserved, UnitsIn, ReturnsDrained
  <1> QED
    BY <1>1, Invariance, PTL

(* Without a cancellation a run never stalls, and it leaves out exactly    *)
(* the units that depend on one that did not succeed.                      *)
THEOREM BranchesCorrect == Spec => []BranchesIndependent
  <1>1. IInv => BranchesIndependent
    <2> SUFFICES ASSUME IInv, NEW r \in Run, pc[r] \in {"returned", "closed"}
                 PROVE  /\ "stalled" \notin errs[r]
                        /\ ~(r \in cancelled /\ "canceled" \in errs[r]) =>
                             \A u \in Unit :
                               /\ node[r][u] \in {"succeeded", "failed", "skipped", "cancelled"}
                               /\ node[r][u] = "skipped" <=> FailedDependencies(r, u) # {}
      BY DEF BranchesIndependent
    <2>1. TypeOK /\ RunInv(r) /\ Over(r)
      BY DEF IInv, Over
    <2>2. "stalled" \notin errs[r]
      BY <2>1 DEF RunInv, ProgressInv
    <2>3. ASSUME ~(r \in cancelled /\ "canceled" \in errs[r]), NEW u \in Unit
          PROVE  /\ node[r][u] \in {"succeeded", "failed", "skipped", "cancelled"}
                 /\ node[r][u] = "skipped" <=> FailedDependencies(r, u) # {}
      <3>1. Reserved(r) = {} /\ Pending(r) = {}
        BY <2>1, <2>3 DEF RunInv, PhaseInv, ProgressInv
      <3>2. node[r][u] \notin {"pending", "running"} /\ node[r][u] \in NodeStatus
        BY <2>1, <3>1 DEF Reserved, Pending, UnitsIn, TypeOK
      <3>3. node[r][u] # "skipped" => DependenciesSucceeded(r, u)
        BY <2>1, <2>3, <3>2 DEF RunInv, DependencyInv, ProgressInv, NodeStatus
      <3>4. node[r][u] = "skipped" => FailedDependencies(r, u) # {}
        BY <2>1 DEF RunInv, SkipInv
      <3> QED
        BY <3>2, <3>3, <3>4 DEF NodeStatus, DependenciesSucceeded, FailedDependencies
    <2> QED
      BY <2>2, <2>3
  <1> QED
    BY <1>1, Invariance, PTL

(* A closed run has no open unit, and a run that closed as a success has   *)
(* executed and handed off every unit.                                     *)
THEOREM CompleteCorrect == Spec => []ClosedRunsAreComplete
  <1>1. IInv => ClosedRunsAreComplete
    <2> SUFFICES ASSUME IInv, NEW r \in Run, pc[r] = "closed"
                 PROVE  /\ \A u \in Unit : unit[r][u] \notin UnitOpen
                        /\ runStatus[r] = "success" =>
                             handedOff[r] = Unit /\ \A u \in Unit : unit[r][u] = "success"
      BY DEF ClosedRunsAreComplete
    <2>1. TypeOK /\ RunInv(r) /\ Over(r)
      BY DEF IInv, Over
    <2>2. \A u \in Unit : unit[r][u] \notin UnitOpen
      BY <2>1 DEF RunInv, RowInv
    <2>3. ASSUME runStatus[r] = "success", NEW u \in Unit
          PROVE  u \in handedOff[r] /\ unit[r][u] = "success"
      <3>1. errs[r] = {}
        BY <2>1, <2>3 DEF RunInv, RowInv
      <3>2. Reserved(r) = {} /\ Pending(r) = {}
        BY <2>1, <3>1 DEF RunInv, PhaseInv, ProgressInv
      <3>3. node[r][u] \notin {"pending", "running"} /\ node[r][u] \in NodeStatus
        BY <2>1, <3>2 DEF Reserved, Pending, UnitsIn, TypeOK
      <3>4. node[r][u] \notin {"failed", "skipped", "cancelled"}
        BY <2>1, <3>1 DEF RunInv, SkipInv
      <3>5. node[r][u] = "succeeded"
        BY <3>3, <3>4 DEF NodeStatus
      <3> QED
        BY <2>1, <3>5 DEF RunInv, DependencyInv, RowInv
    <2> QED
      BY <2>1, <2>2, <2>3 DEF TypeOK
  <1> QED
    BY <1>1, Invariance, PTL

(* The outcome of a unit, once written, is never replaced: not by a later  *)
(* event of the unit, not by a bypass, not by the end of the run.          *)
THEOREM OutcomeCorrect == Spec => UnitOutcomeIsFinal
  <1> DEFINE Kept == \A r \in Run : \A u \in Unit :
                       unit[r][u] \notin UnitOpen => unit'[r][u] = unit[r][u]
  <1>1. IInv /\ [Next]_vars => [Kept]_vars
    <2> SUFFICES ASSUME IInv, Next PROVE Kept
      OBVIOUS
    <2>1. TypeOK /\ \A r \in Run : RunInv(r)
      BY DEF IInv
    <2>2. unit \in [Run -> [Unit -> UnitStatus]]
      BY <2>1 DEF TypeOK
    <2>3. CASE UNCHANGED unit
      BY <2>3
    <2>4. ASSUME NEW r \in Run, NEW u \in Unit, UnitStep(r, u)
          PROVE  Kept
      <3>1. unit[r][u] \in UnitOpen
        <4>1. /\ phase[r][u] \in {"starting", "operating"} /\ pc[r] # "closed"
          BY <2>4, RunningUnit DEF UnitStep, BeginUnit, RefuseUnit, FinishUnit, LoseCompletion, FailUnit
        <4> QED
          BY <2>1, <4>1 DEF RunInv, RowInv, UnitOpen
      <3>2. unit' = unit \/ \E s : unit' = [unit EXCEPT ![r][u] = s]
        BY <2>4 DEF UnitStep, BeginUnit, RefuseUnit, FinishUnit, LoseCompletion, FailUnit
      <3> QED
        BY <2>2, <3>1, <3>2
    <2>5. ASSUME NEW r \in Run, Schedule(r)
          PROVE  Kept
      <3>1. CASE CancelPending(r)
        BY <2>3, <3>1 DEF CancelPending
      <3>2. CASE SkipBlocked(r)
        <4>1. PICK W \in SUBSET Blocked(r) :
                unit' = [unit EXCEPT ![r] =
                           [u \in Unit |-> IF u \in W THEN "skipped" ELSE unit[r][u]]]
          BY <3>2 DEF SkipBlocked
        <4>2. pc[r] # "closed" /\ \A u \in W : u \in Unit /\ node[r][u] = "pending"
          BY <2>5, <4>1, BlockedClosed DEF Schedule, Pending, UnitsIn
        <4>3. \A u \in W : unit[r][u] \in UnitOpen
          BY <2>1, <4>2 DEF RunInv, RowInv, UnitOpen
        <4> QED
          BY <2>2, <4>1, <4>3
      <3> QED
        BY <2>5, <3>1, <3>2 DEF Schedule
    <2>6. ASSUME NEW r \in Run, Finalize(r)
          PROVE  Kept
      <3>1. CASE unit' = [unit EXCEPT ![r] = Closed(r)]
        BY <2>2, <3>1 DEF Closed, UnitOpen
      <3> QED
        BY <2>3, <2>6, <3>1 DEF Finalize
    <2>7. ASSUME NEW r \in Run, RunnerStep(r) \/ Cancel(r)
          PROVE  UNCHANGED unit \/ Schedule(r) \/ Finalize(r)
      BY <2>7 DEF RunnerStep, Cancel, AcquireAtOnce, WaitForSlot, SlotGranted, LaunchUnit,
                  AbandonWait, LaunchDone, Receive, Return, durable
    <2>8. AllClosed => UNCHANGED unit
      BY DEF AllClosed, vars, durable
    <2> QED
      BY <2>3, <2>4, <2>5, <2>6, <2>7, <2>8 DEF Next
  <1>2. [][Kept]_vars => UnitOutcomeIsFinal
    <2>1. [Kept]_vars => [\A r \in Run : \A u \in Unit :
                            unit[r][u] \notin UnitOpen => unit'[r][u] = unit[r][u]]_vars
      OBVIOUS
    <2> QED
      BY <2>1, PTL DEF UnitOutcomeIsFinal
  <1> QED
    BY <1>1, <1>2, Invariance, PTL DEF Spec
-----------------------------------------------------------------------------
(* The budget is a FairBudget. *)

(* o queues before x in s. *)
Precedes(s, o, x) == \E k, i \in DOMAIN s : k < i /\ s[k] = o /\ s[i] = x

LEMMA AheadMembers ==
  ASSUME NEW x \in Run, NEW o
  PROVE  /\ o \in Ahead[x] <=> Precedes(waiters, o, x)
         /\ o \in Ahead'[x] <=> Precedes(waiters', o, x)
  BY DEF Ahead, Precedes

LEMMA AheadSame ==
  ASSUME UNCHANGED waiters
  PROVE  Ahead' = Ahead
  BY DEF Ahead

(* Whoever joins is behind all, and before nobody. *)
LEMMA JoinBehind ==
  ASSUME NEW s \in Seq(Run), NEW r \in Run, \A i \in DOMAIN s : s[i] # r, NEW o, NEW x
  PROVE  Precedes(Append(s, r), o, x) <=>
           IF x = r THEN \E k \in DOMAIN s : s[k] = o ELSE Precedes(s, o, x)
<1> DEFINE n == Len(s)  t == Append(s, r)
<1>1. /\ n \in Nat /\ DOMAIN s = 1..n /\ DOMAIN t = 1..(n + 1)
      /\ \A k \in 1..n : t[k] = s[k]
      /\ t[n + 1] = r
  BY LenProperties, AppendProperties
<1>2. \A k \in 1..n : s[k] # r
  BY <1>1
<1>3. n + 1 \in 1..(n + 1) /\ \A k \in 1..n : k \in 1..(n + 1) /\ k < n + 1
  BY <1>1
<1>4. \A k \in 1..(n + 1) : k \in 1..n \/ k = n + 1
  BY <1>1
<1>5. \A k, i \in 1..(n + 1) : k < i => k \in 1..n
  BY <1>1
<1> HIDE DEF n, t
<1>6. CASE x = r
  <2>1. \A i \in 1..(n + 1) : t[i] = r <=> i = n + 1
    BY <1>1, <1>2, <1>4
  <2>2. Precedes(t, o, r) <=> \E k \in 1..n : s[k] = o
    BY <1>1, <1>3, <1>5, <2>1 DEF Precedes
  <2>3. QED
    BY <1>1, <1>6, <2>2 DEF t
<1>7. CASE x # r
  <2>1. \A i \in 1..(n + 1) : t[i] = x <=> i \in 1..n /\ s[i] = x
    BY <1>1, <1>4, <1>7
  <2>2. Precedes(t, o, x) <=> Precedes(s, o, x)
    BY <1>1, <1>3, <1>5, <2>1 DEF Precedes
  <2>3. QED
    BY <1>7, <2>2 DEF t
<1>8. QED
  BY <1>6, <1>7

(* Whoever leaves is before nobody and behind nobody; the others keep      *)
(* their order.                                                            *)
LEMMA LeaveOrder ==
  ASSUME NEW s \in Seq(Run), NEW t \in Seq(Run), Distinct(s), NEW i \in 1..Len(s),
         Len(t) = Len(s) - 1,
         \A k \in 1..(Len(s) - 1) : t[k] = IF k < i THEN s[k] ELSE s[k + 1],
         NEW o, NEW x
  PROVE  Precedes(t, o, x) <=> Precedes(s, o, x) /\ o # s[i] /\ x # s[i]
<1> DEFINE n == Len(s)
           from(k) == IF k < i THEN k ELSE k + 1
           to(k) == IF k < i THEN k ELSE k - 1
<1>1. n \in Nat /\ n > 0 /\ DOMAIN s = 1..n /\ DOMAIN t = 1..(n - 1)
  BY LenProperties
<1>2. \A k \in 1..(n - 1) : from(k) \in 1..n /\ from(k) # i
  BY <1>1
<1>3. \A k \in 1..n : k # i => to(k) \in 1..(n - 1) /\ from(to(k)) = k
  BY <1>1
<1>4. \A k, m \in 1..(n - 1) : k < m => from(k) < from(m)
  BY <1>1
<1>5. \A k, m \in 1..n : k # i /\ m # i /\ k < m => to(k) < to(m)
  BY <1>1
<1>6. \A k \in 1..(n - 1) : t[k] = s[from(k)]
  OBVIOUS
<1>7. \A k \in 1..n : s[k] = s[i] <=> k = i
  BY <1>1 DEF Distinct
<1> HIDE DEF n, from, to
<1>8. ASSUME Precedes(t, o, x) PROVE Precedes(s, o, x) /\ o # s[i] /\ x # s[i]
  <2>1. PICK k, m \in 1..(n - 1) : k < m /\ t[k] = o /\ t[m] = x
    BY <1>1, <1>8 DEF Precedes
  <2>2. from(k) < from(m) /\ s[from(k)] = o /\ s[from(m)] = x
    BY <1>4, <1>6, <2>1
  <2>3. QED
    BY <1>1, <1>2, <1>7, <2>2 DEF Precedes
<1>9. ASSUME Precedes(s, o, x), o # s[i], x # s[i] PROVE Precedes(t, o, x)
  <2>1. PICK k, m \in 1..n : k < m /\ s[k] = o /\ s[m] = x
    BY <1>1, <1>9 DEF Precedes
  <2>2. k # i /\ m # i
    BY <1>9, <2>1
  <2>3. to(k) < to(m) /\ t[to(k)] = o /\ t[to(m)] = x
    BY <1>3, <1>5, <1>6, <2>1, <2>2
  <2>4. QED
    BY <1>1, <1>3, <2>2, <2>3 DEF Precedes
<1>10. QED
  BY <1>8, <1>9

(* Nobody is before the first. *)
LEMMA FirstIsNext ==
  ASSUME NEW s \in Seq(Run), Distinct(s), Len(s) > 0, NEW o
  PROVE  ~Precedes(s, o, s[1])
<1>1. Len(s) \in Nat /\ DOMAIN s = 1..Len(s) /\ 1 \in 1..Len(s)
  BY LenProperties
<1>2. \A i \in 1..Len(s) : s[i] = s[1] => i = 1
  BY <1>1 DEF Distinct
<1>3. QED
  BY <1>1, <1>2 DEF Precedes

(* A run of the queue leaves it. *)
LEMMA QueueLeft ==
  ASSUME TypeOK, TypeOK', Distinct(waiters), NEW i \in 1..Len(waiters),
         Len(waiters') = Len(waiters) - 1,
         \A k \in 1..(Len(waiters) - 1) :
           waiters'[k] = IF k < i THEN waiters[k] ELSE waiters[k + 1],
         Waiting' = Waiting \ {waiters[i]}
  PROVE  Fair!Leave(waiters[i])
<1> DEFINE w == waiters[i]
<1>1. waiters \in Seq(Run) /\ waiters' \in Seq(Run) /\ w \in Run
  BY ElementOfSeq DEF TypeOK
<1>2. \A o, x : Precedes(waiters', o, x) <=> Precedes(waiters, o, x) /\ o # w /\ x # w
  BY <1>1, LeaveOrder
<1> HIDE DEF w
<1>3. ASSUME NEW x \in Run PROVE Ahead'[x] = IF x = w THEN {} ELSE Ahead[x] \ {w}
  <2>1. \A o : o \in Ahead'[x] <=> o \in Ahead[x] /\ o # w /\ x # w
    BY <1>2, AheadMembers
  <2>2. QED
    BY <2>1
<1>4. Ahead' = [x \in Run |-> IF x = w THEN {} ELSE Ahead[x] \ {w}]
  <2>1. Ahead' = [x \in Run |-> Ahead'[x]]
    BY DEF Ahead
  <2>2. QED
    BY <1>3, <2>1
<1>5. QED
  BY <1>4 DEF Fair!Leave, w

Members(s) == {s[k] : k \in DOMAIN s}

(* Whoever leaves is no longer in the queue, and nobody else left.         *)
LEMMA WaitingLeft ==
  ASSUME NEW s \in Seq(Run), NEW t \in Seq(Run), Distinct(s), NEW i \in 1..Len(s),
         Len(t) = Len(s) - 1,
         \A k \in 1..(Len(s) - 1) : t[k] = IF k < i THEN s[k] ELSE s[k + 1]
  PROVE  Members(t) = Members(s) \ {s[i]}
<1> DEFINE n == Len(s)
           from(k) == IF k < i THEN k ELSE k + 1
           to(k) == IF k < i THEN k ELSE k - 1
<1>1. n \in Nat /\ n > 0 /\ DOMAIN s = 1..n /\ DOMAIN t = 1..(n - 1)
  BY LenProperties
<1>2. \A k \in 1..(n - 1) : from(k) \in 1..n /\ from(k) # i
  BY <1>1
<1>3. \A k \in 1..n : k # i => to(k) \in 1..(n - 1) /\ from(to(k)) = k
  BY <1>1
<1>4. \A k \in 1..(n - 1) : t[k] = s[from(k)]
  OBVIOUS
<1>5. \A k \in 1..n : s[k] = s[i] <=> k = i
  BY <1>1 DEF Distinct
<1> HIDE DEF n, from, to
<1>6. QED
  BY <1>1, <1>2, <1>3, <1>4, <1>5 DEF Members

(* What a run holds, from its executing units and its grant. *)
LEMMA HeldOf ==
  ASSUME NEW o \in Run
  PROVE  /\ Held[o] = Cardinality(Executing(o)) + (IF o \in granted THEN 1 ELSE 0)
         /\ Held'[o] = Cardinality(Executing(o)') + (IF o \in granted' THEN 1 ELSE 0)
         /\ IsFiniteSet(Executing(o)) /\ Cardinality(Executing(o)) \in Nat
<1>1. Executing(o) \in SUBSET Unit
  BY DEF Executing
<1>2. IsFiniteSet(Executing(o)) /\ Cardinality(Executing(o)) \in Nat
  BY <1>1, SetOfUnits
<1>3. QED
  BY <1>2 DEF Held

LEMMA HeldSame ==
  ASSUME UNCHANGED granted, \A o \in Run : Executing(o)' = Executing(o)
  PROVE  Held' = Held
  BY DEF Held

LEMMA HeldIs ==
  ASSUME NEW H, H = [o \in Run |-> H[o]], \A o \in Run : Held'[o] = H[o]
  PROVE  Held' = H
<1>1. Held' = [o \in Run |-> Held'[o]]
  BY DEF Held
<1>2. [o \in Run |-> Held'[o]] = [o \in Run |-> H[o]]
  OBVIOUS
<1>3. QED
  BY <1>1, <1>2

(* A slot that r gives up is free, or it is the slot of the oldest waiter. *)
LEMMA SlotGivenUp ==
  ASSUME TypeOK, TypeOK', BudgetAccounts, Distinct(waiters), Waiting \cap granted = {},
         NEW r \in Run, NEW unseen \in SUBSET granted, Release(unseen), active > 0,
         Held[r] > 0,
         \A o \in Run : Cardinality(Executing(o)') + (IF o \in unseen THEN 1 ELSE 0)
                          = IF o = r THEN Held[o] - 1 ELSE Held[o]
  PROVE  Fair!FairNext
<1> DEFINE left == [Held EXCEPT ![r] = @ - 1]
<1>1. /\ left = [o \in Run |-> IF o = r THEN Held[o] - 1 ELSE Held[o]]
      /\ \A o \in Run : Held[o] \in Nat
  <2>1. Held = [o \in Run |-> Held[o]]
    BY DEF Held
  <2>2. \A o \in Run : Held[o] \in Nat
    BY HeldOf
  <2>3. QED
    BY <2>1, <2>2
<1>2. active \in Nat /\ Limit \in Nat /\ active <= Limit /\ waiters \in Seq(Run)
  BY BudgetAssumption DEF BudgetAssumption, TypeOK, BudgetAccounts
<1> HIDE DEF left
<1>3. CASE /\ waiters = <<>> /\ waiters' = <<>>
           /\ active' = active - 1 /\ granted' = unseen
  <2>1. Limit - active' = (Limit - active) + 1
    BY <1>2, <1>3
  <2>2. \A o \in Run : Held'[o] = left[o]
    BY <1>1, <1>3, HeldOf
  <2>3. Held' = left
    BY <1>1, <2>2, HeldIs
  <2>4. Waiting' = Waiting /\ Ahead' = Ahead
    BY <1>3, AheadSame DEF Waiting
  <2>5. Fair!GiveBack(r)
    BY <2>1, <2>3, <2>4 DEF Fair!GiveBack, left
  <2>6. QED
    BY <2>5 DEF Fair!FairNext
<1>4. CASE /\ Len(waiters) > 0
           /\ active' = active /\ active = Limit
           /\ granted' = unseen \cup {waiters[1]}
           /\ waiters' \in Seq(Run)
           /\ Len(waiters') = Len(waiters) - 1
           /\ \A i \in 1..(Len(waiters) - 1) : waiters'[i] = waiters[i + 1]
  <2> DEFINE w == waiters[1]
  <2>1. /\ Len(waiters) \in Nat /\ 1 \in 1..Len(waiters) /\ DOMAIN waiters = 1..Len(waiters)
        /\ w \in Run /\ w \in Waiting
    BY <1>2, <1>4, LenProperties, ElementOfSeq DEF Waiting
  <2>2. \A k \in 1..(Len(waiters) - 1) :
          waiters'[k] = IF k < 1 THEN waiters[k] ELSE waiters[k + 1]
    BY <1>4, <2>1
  <2>3. Waiting' = Waiting \ {w}
    <3>1. Members(waiters') = Members(waiters) \ {waiters[1]}
      BY <1>2, <1>4, <2>1, <2>2, WaitingLeft
    <3>2. QED
      BY <3>1 DEF Members, Waiting
  <2>4. Fair!Leave(w)
    BY <1>4, <2>1, <2>2, <2>3, QueueLeft
  <2>5. Ahead[w] = {}
    <3>1. \A o : ~Precedes(waiters, o, w)
      BY <1>2, <1>4, FirstIsNext
    <3>2. \A o : o \notin Ahead[w]
      BY <2>1, <3>1, AheadMembers
    <3>3. QED
      BY <3>2
  <2>6. w \notin granted /\ w \notin unseen
    BY <2>1
  <2> HIDE DEF w
  <2>7. \A o \in Run : Held'[o] = IF o = w THEN left[o] + 1 ELSE left[o]
    <3> SUFFICES ASSUME NEW o \in Run PROVE Held'[o] = IF o = w THEN left[o] + 1 ELSE left[o]
      OBVIOUS
    <3>1. granted' = unseen \cup {w}
      BY <1>4 DEF w
    <3>2. Held'[o] = Cardinality(Executing(o)') + (IF o \in granted' THEN 1 ELSE 0)
      BY HeldOf
    <3>3. left[o] = Cardinality(Executing(o)') + (IF o \in unseen THEN 1 ELSE 0)
      BY <1>1
    <3>4. left[o] \in Int
      BY <1>1
    <3>5. CASE o = w
      <4>1. left[o] = Cardinality(Executing(o)') + 0 /\ Held'[o] = Cardinality(Executing(o)') + 1
        BY <2>6, <3>1, <3>2, <3>3, <3>5
      <4>2. Cardinality(Executing(o)') \in Nat
        <5>1. Executing(o)' \in SUBSET Unit
          BY DEF Executing
        <5>2. QED
          BY <5>1, SetOfUnits
      <4>3. QED
        BY <3>5, <4>1, <4>2
    <3>6. CASE o # w
      BY <3>1, <3>2, <3>3, <3>6
    <3>7. QED
      BY <3>5, <3>6
  <2>8. Held' = [left EXCEPT ![w] = @ + 1]
    <3>1. [left EXCEPT ![w] = @ + 1] = [o \in Run |-> IF o = w THEN left[o] + 1 ELSE left[o]]
      BY <1>1, <2>1
    <3>2. QED
      BY <2>7, <3>1, HeldIs
  <2>9. Limit - active' = Limit - active
    BY <1>4
  <2>10. Fair!HandOver(r, w)
    BY <2>1, <2>4, <2>5, <2>8, <2>9 DEF Fair!HandOver, left
  <2>11. QED
    BY <2>1, <2>10 DEF Fair!FairNext
<1>5. QED
  BY <1>3, <1>4, ReleaseEffect

(* The result of a unit gives its slot up. *)
LEMMA SentGivesUp ==
  ASSUME IInv, TypeOK', NEW r \in Run, NEW u \in Unit, phase[r][u] \in {"starting", "operating"},
         NEW outcome \in Outcome, SendResult(r, u, outcome)
  PROVE  Fair!FairNext
<1>1. /\ TypeOK /\ BudgetAccounts /\ IsFiniteSet(Leases)
      /\ Distinct(waiters) /\ Waiting \cap granted = {}
      /\ Release(granted) /\ phase' = [phase EXCEPT ![r][u] = outcome]
  BY DEF IInv, QueueInv, Distinct, SendResult
<1>2. <<r, u>> \in Leases
  BY <1>1, LeaseMembers
<1>3. active > 0
  BY <1>1, <1>2, HolderIsActive
<1>4. /\ u \in Executing(r) /\ Executing(r)' = Executing(r) \ {u}
      /\ \A o \in Run \ {r} : Executing(o)' = Executing(o)
  BY <1>1 DEF Executing, TypeOK, Outcome
<1>5. Cardinality(Executing(r)') = Cardinality(Executing(r)) - 1 /\ Cardinality(Executing(r)) > 0
  <2>1. IsFiniteSet(Executing(r)) /\ Cardinality(Executing(r)) \in Nat
    BY HeldOf
  <2>2. Cardinality(Executing(r) \ {u}) = Cardinality(Executing(r)) - 1
    BY <1>4, <2>1, FS_RemoveElement
  <2>3. Cardinality(Executing(r) \ {u}) \in Nat
    BY <2>1, FS_RemoveElement, FS_CardinalityType
  <2>4. QED
    BY <1>4, <2>1, <2>2, <2>3
<1>6. Held[r] > 0
  BY <1>5, HeldOf
<1>7. ASSUME NEW o \in Run
      PROVE  Cardinality(Executing(o)') + (IF o \in granted THEN 1 ELSE 0)
               = IF o = r THEN Held[o] - 1 ELSE Held[o]
  BY <1>4, <1>5, HeldOf
<1>8. QED
  BY <1>1, <1>3, <1>6, <1>7, SlotGivenUp

LEMMA UnitRefines ==
  ASSUME IInv, IInv', NEW r \in Run, NEW u \in Unit, UnitStep(r, u)
  PROVE  [Fair!FairNext]_(Fair!budgetVars)
<1>1. TypeOK /\ TypeOK'
  BY DEF IInv
<1>2. CASE BeginUnit(r, u)
  <2>1. \A o \in Run : Executing(o)' = Executing(o)
    BY <1>1, <1>2 DEF BeginUnit, Executing, TypeOK
  <2>2. UNCHANGED <<active, waiters, granted>>
    BY <1>2 DEF BeginUnit, budget
  <2>3. Held' = Held /\ Ahead' = Ahead /\ Waiting' = Waiting
    BY <2>1, <2>2, HeldSame, AheadSame DEF Waiting
  <2>4. QED
    BY <2>2, <2>3 DEF Fair!budgetVars
<1>3. CASE RefuseUnit(r, u)
  BY <1>1, <1>3, SentGivesUp DEF RefuseUnit, Outcome
<1>4. CASE FinishUnit(r, u)
  BY <1>1, <1>4, SentGivesUp DEF FinishUnit, Outcome
<1>5. CASE LoseCompletion(r, u)
  BY <1>1, <1>5, SentGivesUp DEF LoseCompletion, Outcome
<1>6. CASE FailUnit(r, u)
  BY <1>1, <1>6, SentGivesUp DEF FailUnit, Outcome
<1>7. QED
  BY <1>2, <1>3, <1>4, <1>5, <1>6 DEF UnitStep

LEMMA TakeRefines ==
  ASSUME IInv, IInv', NEW r \in Run, AcquireAtOnce(r)
  PROVE  Fair!FairNext
<1>1. PICK u \in Unit : IsNext(r, u) /\ LaunchUnit(r, u)
  BY DEF AcquireAtOnce
<1>2. /\ TypeOK /\ SlotFree /\ active' = active + 1
      /\ UNCHANGED <<waiters, granted>>
      /\ phase' = [phase EXCEPT ![r][u] = "starting"]
      /\ phase[r][u] = "none"
  <2>1. node[r][u] = "pending" /\ node[r][u] # "running"
    BY <1>1 DEF IsNext, Runnable, Pending, UnitsIn
  <2>2. QED
    BY <1>1, <2>1 DEF AcquireAtOnce, AcquireSlot, LaunchUnit, IInv, RunInv, PhaseInv
<1>3. /\ u \notin Executing(r) /\ Executing(r)' = Executing(r) \cup {u}
      /\ \A o \in Run \ {r} : Executing(o)' = Executing(o)
  BY <1>2 DEF Executing, TypeOK
<1>4. Cardinality(Executing(r)') = Cardinality(Executing(r)) + 1
  BY <1>3, HeldOf, FS_AddElement
<1>5. Held' = [Held EXCEPT ![r] = @ + 1]
  <2>1. [Held EXCEPT ![r] = @ + 1] = [o \in Run |-> IF o = r THEN Held[o] + 1 ELSE Held[o]]
    BY DEF Held
  <2>2. ASSUME NEW o \in Run PROVE Held'[o] = IF o = r THEN Held[o] + 1 ELSE Held[o]
    <3>1. CASE o = r
      BY <1>2, <1>4, <3>1, HeldOf
    <3>2. CASE o # r
      BY <1>2, <1>3, <3>2, HeldOf
    <3>3. QED
      BY <3>1, <3>2
  <2>3. QED
    BY <2>1, <2>2, HeldIs
<1>6. Limit - active > 0 /\ Limit - active' = (Limit - active) - 1 /\ Waiting = {}
  BY <1>2, BudgetAssumption DEF BudgetAssumption, SlotFree, Waiting, TypeOK
<1>7. Waiting' = Waiting /\ Ahead' = Ahead
  BY <1>2, AheadSame DEF Waiting
<1>8. Fair!Take(r)
  BY <1>5, <1>6, <1>7 DEF Fair!Take
<1>9. QED
  BY <1>8 DEF Fair!FairNext

LEMMA AskRefines ==
  ASSUME IInv, IInv', NEW r \in Run, WaitForSlot(r)
  PROVE  Fair!FairNext
<1>1. /\ TypeOK /\ QueueInv /\ QueueInv' /\ pc[r] = "launching"
      /\ waiters' = Append(waiters, r) /\ pc'[r] = "waiting"
      /\ UNCHANGED <<phase, active, granted>>
  BY DEF IInv, TypeOK, WaitForSlot, JoinWaiters, Goto
<1>2. waiters \in Seq(Run) /\ r \notin Waiting /\ r \notin granted
  BY <1>1 DEF QueueInv, TypeOK
<1>3. \A i \in DOMAIN waiters : waiters[i] # r
  BY <1>2 DEF Waiting
<1>4. Waiting' = Waiting \cup {r}
  <2>1. Len(waiters) \in Nat
    BY <1>2, LenProperties
  <2>2. /\ DOMAIN waiters = 1..Len(waiters)
        /\ DOMAIN waiters' = 1..(Len(waiters) + 1)
        /\ \A k \in 1..Len(waiters) : waiters'[k] = waiters[k]
        /\ waiters'[Len(waiters) + 1] = r
    BY <1>1, <1>2, LenProperties, AppendProperties
  <2>3. DOMAIN waiters' = DOMAIN waiters \cup {Len(waiters) + 1}
    BY <2>1, <2>2
  <2>4. QED
    BY <2>2, <2>3 DEF Waiting
<1>5. Ahead' = [Ahead EXCEPT ![r] = Waiting]
  <2>1. ASSUME NEW x \in Run PROVE Ahead'[x] = IF x = r THEN Waiting ELSE Ahead[x]
    <3>1. \A o : Precedes(waiters', o, x) <=>
                   IF x = r THEN \E k \in DOMAIN waiters : waiters[k] = o
                            ELSE Precedes(waiters, o, x)
      BY <1>1, <1>2, <1>3, JoinBehind
    <3>2. \A o : o \in Ahead'[x] <=> IF x = r THEN o \in Waiting ELSE o \in Ahead[x]
      BY <3>1, AheadMembers DEF Waiting
    <3>3. QED
      BY <3>2
  <2>2. Ahead' = [x \in Run |-> Ahead'[x]] /\ Ahead = [x \in Run |-> Ahead[x]]
    BY DEF Ahead
  <2>3. QED
    BY <2>1, <2>2
<1>6. Held' = Held
  BY <1>1, HeldSame DEF Executing
<1>7. Fair!Ask(r)
  BY <1>1, <1>2, <1>4, <1>5, <1>6 DEF Fair!Ask
<1>8. QED
  BY <1>7 DEF Fair!FairNext

LEMMA GrantedRefines ==
  ASSUME IInv, IInv', NEW r \in Run, SlotGranted(r)
  PROVE  UNCHANGED Fair!budgetVars
<1>1. PICK u \in Unit : IsNext(r, u) /\ LaunchUnit(r, u)
  BY DEF SlotGranted
<1>2. /\ TypeOK /\ r \in granted /\ granted' = granted \ {r}
      /\ UNCHANGED <<active, waiters>>
      /\ phase' = [phase EXCEPT ![r][u] = "starting"]
      /\ phase[r][u] = "none"
  <2>1. node[r][u] = "pending" /\ node[r][u] # "running"
    BY <1>1 DEF IsNext, Runnable, Pending, UnitsIn
  <2>2. QED
    BY <1>1, <2>1 DEF SlotGranted, LaunchUnit, IInv, RunInv, PhaseInv
<1>3. /\ u \notin Executing(r) /\ Executing(r)' = Executing(r) \cup {u}
      /\ \A o \in Run \ {r} : Executing(o)' = Executing(o)
  BY <1>2 DEF Executing, TypeOK
<1>4. Cardinality(Executing(r)') = Cardinality(Executing(r)) + 1
  BY <1>3, HeldOf, FS_AddElement
<1>5. Held' = Held
  <2>1. ASSUME NEW o \in Run PROVE Held'[o] = Held[o]
    <3>1. CASE o = r
      BY <1>2, <1>4, <3>1, HeldOf
    <3>2. CASE o # r
      BY <1>2, <1>3, <3>2, HeldOf
    <3>3. QED
      BY <3>1, <3>2
  <2>2. Held = [o \in Run |-> Held[o]]
    BY DEF Held
  <2>3. QED
    BY <2>1, <2>2, HeldIs
<1>6. Waiting' = Waiting /\ Ahead' = Ahead
  BY <1>2, AheadSame DEF Waiting
<1>7. QED
  BY <1>2, <1>5, <1>6 DEF Fair!budgetVars

LEMMA AbandonRefines ==
  ASSUME IInv, IInv', NEW r \in Run, AbandonWait(r)
  PROVE  Fair!FairNext
<1>1. /\ TypeOK /\ TypeOK' /\ BudgetAccounts /\ IsFiniteSet(Leases)
      /\ Distinct(waiters) /\ Waiting \cap granted = {} /\ QueueInv
      /\ UNCHANGED phase
  BY DEF IInv, QueueInv, Distinct, AbandonWait
<1>2. \A o \in Run : Executing(o)' = Executing(o)
  BY <1>1 DEF Executing
<1>3. CASE r \in granted
  <2>1. Release(granted \ {r}) /\ <<r, UnitCount>> \in Leases
    BY <1>1, <1>3, LeaseMembers DEF AbandonWait
  <2>2. active > 0
    BY <1>1, <2>1, HolderIsActive
  <2>3. Held[r] > 0
    BY <1>3, HeldOf
  <2>4. ASSUME NEW o \in Run
        PROVE  Cardinality(Executing(o)') + (IF o \in granted \ {r} THEN 1 ELSE 0)
                 = IF o = r THEN Held[o] - 1 ELSE Held[o]
    BY <1>2, <1>3, HeldOf
  <2>5. granted \ {r} \in SUBSET granted
    OBVIOUS
  <2>6. QED
    BY <1>1, <2>1, <2>2, <2>3, <2>4, <2>5, SlotGivenUp
<1>4. CASE r \notin granted
  <2>1. RemoveWaiter(r)
    BY <1>4 DEF AbandonWait
  <2>2. PICK i \in 1..Len(waiters) :
          /\ waiters[i] = r
          /\ \A k \in 1..(Len(waiters) - 1) :
               waiters'[k] = IF k < i THEN waiters[k] ELSE waiters[k + 1]
    BY <1>1, <2>1, RemoveEffect
  <2>3. /\ active' = active /\ granted' = granted
        /\ Len(waiters') = Len(waiters) - 1 /\ Waiting' = Waiting \ {r}
    BY <1>1, <2>1, RemoveEffect, RemoveQueue
  <2>4. Fair!Leave(r)
    BY <1>1, <2>2, <2>3, QueueLeft
  <2>5. Held' = Held
    BY <1>2, <2>3, HeldSame
  <2>6. r \in Waiting
    BY <1>1, <1>4 DEF QueueInv, AbandonWait
  <2>7. Fair!Withdraw(r)
    BY <2>3, <2>4, <2>5, <2>6 DEF Fair!Withdraw
  <2>8. QED
    BY <2>7 DEF Fair!FairNext
<1>5. QED
  BY <1>3, <1>4

(* What leaves the budget and the set of executing units alone. *)
LEMMA BudgetStutters ==
  ASSUME UNCHANGED <<active, waiters, granted>>, \A o \in Run : Executing(o)' = Executing(o)
  PROVE  UNCHANGED Fair!budgetVars
<1>1. Held' = Held /\ Ahead' = Ahead /\ Waiting' = Waiting
  BY HeldSame, AheadSame DEF Waiting
<1>2. QED
  BY <1>1 DEF Fair!budgetVars

LEMMA ReceiveStutters ==
  ASSUME IInv, NEW r \in Run, NEW u \in Unit, Receive(r, u)
  PROVE  UNCHANGED Fair!budgetVars
<1>1. \A o \in Run : Executing(o)' = Executing(o)
  BY DEF Receive, Executing, IInv, TypeOK, Outcome
<1>2. QED
  BY <1>1, BudgetStutters DEF Receive, budget

LEMMA RunnerRefines ==
  ASSUME IInv, IInv', NEW r \in Run, RunnerStep(r)
  PROVE  [Fair!FairNext]_(Fair!budgetVars)
<1>1. CASE Schedule(r) \/ LaunchDone(r) \/ Return(r) \/ Finalize(r)
  <2>1. UNCHANGED <<phase, active, waiters, granted>>
    BY <1>1 DEF Schedule, LaunchDone, Return, Finalize, budget
  <2>2. QED
    BY <2>1, BudgetStutters DEF Executing
<1>2. QED
  BY <1>1, TakeRefines, AskRefines, GrantedRefines, AbandonRefines, ReceiveStutters DEF RunnerStep

LEMMA InitRefines ==
  ASSUME Init
  PROVE  Fair!FairInit
<1>1. active = 0 /\ waiters = <<>> /\ granted = {} /\ \A o \in Run : Executing(o) = {}
  BY DEF Init, NewBudget, Executing
<1>2. Held = [o \in Run |-> 0]
  BY <1>1, FS_EmptySet DEF Held
<1>3. Ahead = [o \in Run |-> {}] /\ Waiting = {}
  BY <1>1 DEF Ahead, Waiting
<1>4. Limit - active = Limit
  BY <1>1, BudgetAssumption DEF BudgetAssumption
<1>5. QED
  BY <1>2, <1>3, <1>4 DEF Fair!FairInit

(* budget.go: for any number of runs and slots and whatever is cancelled,  *)
(* a slot that comes back goes to the run that waits longest, and none is  *)
(* taken past a run that waits.                                            *)
THEOREM Refinement == Spec => ImplementsFairBudget
<1>1. Init => Fair!FairInit
  BY InitRefines
<1>2. IInv /\ IInv' /\ [Next]_vars => [Fair!FairNext]_(Fair!budgetVars)
  <2> SUFFICES ASSUME IInv, IInv', [Next]_vars PROVE [Fair!FairNext]_(Fair!budgetVars)
    OBVIOUS
  <2>1. ASSUME NEW r \in Run, RunnerStep(r) PROVE [Fair!FairNext]_(Fair!budgetVars)
    BY <2>1, RunnerRefines
  <2>2. ASSUME NEW r \in Run, NEW u \in Unit, UnitStep(r, u)
        PROVE  [Fair!FairNext]_(Fair!budgetVars)
    BY <2>2, UnitRefines
  <2>3. CASE UNCHANGED vars \/ \E r \in Run : Cancel(r)
    <3>1. UNCHANGED <<phase, active, waiters, granted>>
      BY <2>3 DEF Cancel, vars, runner, budget
    <3>2. QED
      BY <3>1, BudgetStutters DEF Executing
  <2>4. QED
    BY <2>1, <2>2, <2>3 DEF Next, AllClosed
<1>3. QED
  BY <1>1, <1>2, Invariance, PTL DEF Spec, ImplementsFairBudget, Fair!FairSpec
=============================================================================
