----------------------- MODULE DuckCoordinator_proofs -----------------------
(***************************************************************************)
(* Proofs about the DuckDB coordinator, for any set of processes, callers  *)
(* and files.                                                              *)
(***************************************************************************)
EXTENDS DuckCoordinatorInvariant, FiniteSetTheorems, TLAPS

\* Everything but where a caller is in the walk.
walk == <<at, left, current, acquired, cancelled>>

LEMMA InitInvariant == Init => IInv
<1> SUFFICES ASSUME Init PROVE IInv
  OBVIOUS
<1> USE CoordinatorAssumption DEF CoordinatorAssumption
<1>1. TypeOK
  BY DEF Init, TypeOK, Where
<1>2. Positions /\ Referring /\ FileOwners /\ TokenOwners
  BY DEF Init, Positions, Referring, FileOwners, TokenOwners, HasToken, AtPath
<1>3. OneEntryPerFile /\ OnePlacePerEntry /\ RegistryIsTidy /\ Ascending
  BY DEF Init, OneEntryPerFile, OnePlacePerEntry, RegistryIsTidy, Ascending, Acquiring
<1>4. Counted
  <2> SUFFICES ASSUME NEW e \in Entry PROVE refs[e] = Cardinality(Referers(e))
    BY DEF Counted
  <2>1. Referers(e) = {}
    BY DEF Init, Referers
  <2>2. QED
    BY <2>1, FS_EmptySet DEF Init
<1>5. QED
  BY <1>1, <1>2, <1>3, <1>4 DEF IInv

(***************************************************************************)
(* Facts about a state of the invariant.                                   *)
(***************************************************************************)
LEMMA ReferersFinite ==
  ASSUME NEW e \in Entry
  PROVE  IsFiniteSet(Referers(e)) /\ Cardinality(Referers(e)) \in Nat
<1>1. IsFiniteSet(Caller) /\ Referers(e) \subseteq Caller
  BY CoordinatorAssumption DEF CoordinatorAssumption, Referers
<1>2. QED
  BY <1>1, FS_Subset, FS_CardinalityType

\* A caller at a path refers to its entry, and that is the registry's.
LEMMA AtEntry ==
  ASSUME IInv, NEW c \in Caller, at[c] \in AtPath
  PROVE  /\ current[c] \in Path
         /\ Entered(c) \in Entry
         /\ entries[Home[c]][current[c]] = Entered(c)
         /\ c \in Referers(Entered(c))
<1> USE CoordinatorAssumption DEF CoordinatorAssumption, IInv
<1>1. current[c] \in Path
  BY DEF Positions, TypeOK
<1>2. Entered(c) # NoEntry
  BY <1>1 DEF Referring, Entered
<1>3. Entered(c) \in Entry
  BY <1>1, <1>2 DEF TypeOK, Entered
<1>4. QED
  BY <1>1, <1>2, <1>3 DEF OneEntryPerFile, Entered, Referers

\* An entry stands for one file of one process.
LEMMA SameEntry ==
  ASSUME IInv, NEW c \in Caller, NEW d \in Caller, NEW p \in Path, NEW q \in Path,
         mine[c][p] = mine[d][q], mine[c][p] # NoEntry
  PROVE  Home[c] = Home[d] /\ p = q
<1>1. entries[Home[c]][p] = mine[c][p] /\ entries[Home[d]][q] = mine[d][q]
  BY DEF IInv, OneEntryPerFile
<1>2. Home[c] \in Process /\ Home[d] \in Process
  BY CoordinatorAssumption DEF CoordinatorAssumption
<1>3. QED
  BY <1>1, <1>2 DEF IInv, OnePlacePerEntry

(***************************************************************************)
(* Steps of the walk that leave the registry alone.                        *)
(***************************************************************************)
LEMMA RegistryKept ==
  ASSUME IInv, UNCHANGED registry
  PROVE  OneEntryPerFile' /\ OnePlacePerEntry' /\ Counted' /\ RegistryIsTidy'
<1>1. \A e : Referers(e)' = Referers(e)
  BY DEF Referers, registry
<1>2. OneEntryPerFile' /\ OnePlacePerEntry' /\ RegistryIsTidy'
  BY DEF IInv, OneEntryPerFile, OnePlacePerEntry, RegistryIsTidy, registry
<1>3. Counted'
  BY <1>1 DEF IInv, Counted, registry
<1>4. QED
  BY <1>2, <1>3

LEMMA AcquireStep ==
  ASSUME IInv, NEW c \in Caller, NEW names \in SUBSET Name, Acquire(c, names)
  PROVE  IInv'
<1> USE CoordinatorAssumption DEF CoordinatorAssumption, Acquire, Step
<1>1. Requested(names) \subseteq Path
  BY DEF Requested
<1>2. TypeOK'
  BY <1>1 DEF IInv, TypeOK, registry, Where
<1>3. at[c] = "idle" /\ at[c] \notin AtPath /\ at'[c] \notin AtPath /\ acquired[c] = {}
  BY DEF IInv, TypeOK, Positions, AtPath
<1>4. Positions' /\ Referring' /\ FileOwners'
  BY <1>3 DEF IInv, TypeOK, Positions, Referring, FileOwners, registry
<1>5. \A d \in Caller, p \in Path : HasToken(d, p)' <=> HasToken(d, p)
  BY <1>3 DEF IInv, TypeOK, HasToken
<1>6. TokenOwners'
  BY <1>5 DEF IInv, TokenOwners, registry
<1>7. Ascending'
  BY <1>3 DEF IInv, TypeOK, Ascending, Positions
<1>8. QED
  BY <1>2, <1>4, <1>6, <1>7, RegistryKept DEF IInv

LEMMA ReferenceStep ==
  ASSUME IInv, NEW c \in Caller, Reference(c)
  PROVE  IInv'
<1> USE CoordinatorAssumption DEF CoordinatorAssumption
<1> DEFINE h == Home[c]
<1>1. PICK p \in Path, e \in Entry :
        /\ Step(c, "refer", "token")
        /\ Least(p, left[c])
        /\ IF entries[h][p] = NoEntry THEN Fresh(e) ELSE e = entries[h][p]
        /\ entries' = [entries EXCEPT ![h][p] = e]
        /\ refs' = [refs EXCEPT ![e] = @ + 1]
        /\ mine' = [mine EXCEPT ![c][p] = e]
        /\ current' = [current EXCEPT ![c] = p]
        /\ left' = [left EXCEPT ![c] = @ \ {p}]
        /\ UNCHANGED <<token, flock, acquired, cancelled>>
  BY DEF Reference
<1>2. h \in Process
  OBVIOUS
<1>3. /\ at[c] = "refer" /\ at' = [at EXCEPT ![c] = "token"]
      /\ current[c] = NoPath
      /\ p \in left[c] /\ p \notin acquired[c]
  <2>1. at[c] = "refer" /\ at' = [at EXCEPT ![c] = "token"] /\ p \in left[c]
    BY <1>1 DEF Step, Least
  <2>2. current[c] = NoPath
    BY <2>1 DEF IInv, Positions, AtPath
  <2>3. ASSUME p \in acquired[c] PROVE FALSE
    <3>1. Rank[p] < Rank[p]
      BY <2>1, <2>3 DEF IInv, Ascending, Acquiring
    <3>2. QED
      BY <3>1
  <2>4. QED
    BY <2>1, <2>2, <2>3
<1>4. mine[c][p] = NoEntry
  BY <1>3 DEF IInv, Referring
<1>5. TypeOK'
  BY <1>1, <1>2, <1>3 DEF IInv, TypeOK, Where
<1>6. Positions'
  BY <1>1, <1>3 DEF IInv, TypeOK, Positions, AtPath
<1>7. Referring'
  BY <1>1, <1>3 DEF IInv, TypeOK, Referring
<1>8. FileOwners'
  BY <1>1 DEF IInv, FileOwners
<1>9. Ascending'
  <2>1. ASSUME NEW q \in left[c] \ {p} PROVE Rank[p] < Rank[q]
    <3>1. q \in Path /\ q # p /\ Rank[p] <= Rank[q]
      BY <1>1 DEF Least, IInv, TypeOK
    <3>2. Rank[p] \in Nat /\ Rank[q] \in Nat /\ Rank[p] # Rank[q]
      BY <3>1
    <3>3. QED
      BY <3>1, <3>2
  <2>2. QED
    BY <1>1, <1>3, <2>1 DEF IInv, TypeOK, Ascending, Acquiring
<1>10. \A g \in Process, q \in Path :
         entries'[g][q] = IF g = h /\ q = p THEN e ELSE entries[g][q]
  BY <1>1, <1>2 DEF IInv, TypeOK
<1>11. \A d \in Caller, q \in Path :
         mine'[d][q] = IF d = c /\ q = p THEN e ELSE mine[d][q]
  BY <1>1 DEF IInv, TypeOK
<1>12. OneEntryPerFile'
  BY <1>1, <1>10, <1>11 DEF IInv, OneEntryPerFile, Fresh
<1>13. OnePlacePerEntry'
  BY <1>1, <1>10 DEF IInv, OnePlacePerEntry, Fresh
<1>14. RegistryIsTidy'
  <2> SUFFICES ASSUME NEW g \in Process, NEW q \in Path, entries'[g][q] # NoEntry
               PROVE  \E d \in Caller : Home[d] = g /\ mine'[d][q] # NoEntry
    BY DEF RegistryIsTidy
  <2>1. CASE g = h /\ q = p
    BY <2>1, <1>11
  <2>2. CASE ~(g = h /\ q = p)
    <3>1. PICK d \in Caller : Home[d] = g /\ mine[d][q] # NoEntry
      BY <2>2, <1>10 DEF IInv, RegistryIsTidy
    <3>2. mine'[d][q] # NoEntry
      BY <3>1, <1>11
    <3>3. QED
      BY <3>1, <3>2
  <2>3. QED
    BY <2>1, <2>2
<1>15. c \notin Referers(e)
  BY <1>1, <1>2, <1>4 DEF Referers, IInv, OneEntryPerFile, OnePlacePerEntry, Fresh
<1>16. Counted'
  <2> SUFFICES ASSUME NEW f \in Entry PROVE refs'[f] = Cardinality(Referers(f)')
    BY DEF Counted
  <2>1. CASE f = e
    <3>1. Referers(f)' = Referers(e) \cup {c}
      BY <1>11, <2>1, <1>4 DEF Referers
    <3>2. Cardinality(Referers(f)') = Cardinality(Referers(e)) + 1
      BY <3>1, <1>15, ReferersFinite, FS_AddElement
    <3>3. QED
      BY <3>2, <2>1, <1>1 DEF IInv, Counted, TypeOK
  <2>2. CASE f # e
    <3>1. Referers(f)' = Referers(f)
      BY <1>11, <2>2, <1>4 DEF Referers
    <3>2. QED
      BY <3>1, <2>2, <1>1 DEF IInv, Counted, TypeOK
  <2>3. QED
    BY <2>1, <2>2
<1>17. TokenOwners'
  <2>1. \A d \in Caller, q \in Path :
          HasToken(d, q)' <=> HasToken(d, q)
    BY <1>1, <1>3 DEF HasToken, IInv, TypeOK
  <2>2. ~HasToken(c, p)
    BY <1>3 DEF HasToken
  <2>3. QED
    BY <1>1, <1>4, <1>11, <2>1, <2>2 DEF IInv, TokenOwners, TypeOK
<1>18. QED
  BY <1>5, <1>6, <1>7, <1>8, <1>9, <1>12, <1>13, <1>14, <1>16, <1>17 DEF IInv

LEMMA TakeTokenStep ==
  ASSUME IInv, NEW c \in Caller, TakeToken(c)
  PROVE  IInv'
<1> USE CoordinatorAssumption DEF CoordinatorAssumption, TakeToken, Step
<1> DEFINE p == current[c]
           e == Entered(c)
<1>1. at[c] = "token" /\ at[c] \in AtPath
  BY DEF AtPath
<1>2. p \in Path /\ e \in Entry /\ e = mine[c][p]
  BY <1>1, AtEntry DEF Entered
<1>3. TypeOK'
  BY <1>2 DEF IInv, TypeOK, Where
<1>4. Positions' /\ Referring' /\ FileOwners' /\ Ascending'
  BY <1>1 DEF IInv, TypeOK, Positions, Referring, FileOwners, Ascending, Acquiring, AtPath
<1>5. /\ OneEntryPerFile' /\ OnePlacePerEntry' /\ RegistryIsTidy'
  BY DEF IInv, OneEntryPerFile, OnePlacePerEntry, RegistryIsTidy
<1>6. Counted'
  <2>1. \A f : Referers(f)' = Referers(f)
    BY DEF Referers
  <2>2. QED
    BY <2>1 DEF IInv, Counted
<1>7. TokenOwners'
  <2>1. \A d \in Caller, q \in Path :
          HasToken(d, q)' <=> HasToken(d, q) \/ (d = c /\ q = p)
    <3> SUFFICES ASSUME NEW d \in Caller, NEW q \in Path
                 PROVE  HasToken(d, q)' <=> HasToken(d, q) \/ (d = c /\ q = p)
      OBVIOUS
    <3>1. at'[d] = IF d = c THEN "file" ELSE at[d]
      BY DEF IInv, TypeOK
    <3>2. QED
      BY <1>1, <3>1 DEF HasToken
  <2>2. ASSUME NEW d \in Caller, NEW q \in Path, HasToken(d, q)
        PROVE  token'[mine[d][q]] = d
    <3>1. token[mine[d][q]] = d
      BY <2>2 DEF IInv, TokenOwners
    <3>2. mine[d][q] # e
      BY <3>1
    <3>3. QED
      BY <3>1, <3>2, <1>2 DEF IInv, TypeOK
  <2>3. token'[e] = c
    BY <1>2 DEF IInv, TypeOK
  <2>4. ASSUME NEW d \in Caller, NEW f \in Entry, token'[f] = d
        PROVE  \E q \in Path : mine[d][q] = f /\ HasToken(d, q)'
    <3>1. CASE f = e
      BY <3>1, <2>1, <2>3, <2>4, <1>2
    <3>2. CASE f # e
      <4>1. token[f] = d
        BY <3>2, <2>4, <1>2 DEF IInv, TypeOK
      <4>2. PICK q \in Path : mine[d][q] = f /\ HasToken(d, q)
        BY <4>1 DEF IInv, TokenOwners
      <4>3. QED
        BY <4>2, <2>1
    <3>3. QED
      BY <3>1, <3>2
  <2>5. QED
    BY <2>1, <2>2, <2>3, <2>4, <1>2 DEF TokenOwners
<1>8. QED
  BY <1>3, <1>4, <1>5, <1>6, <1>7 DEF IInv

LEMMA AbandonTokenStep ==
  ASSUME IInv, NEW c \in Caller, AbandonToken(c)
  PROVE  IInv'
<1> USE CoordinatorAssumption DEF CoordinatorAssumption, AbandonToken, Step
<1>1. TypeOK'
  BY DEF IInv, TypeOK, Where, registry
<1>2. Positions' /\ Referring' /\ FileOwners' /\ Ascending'
  BY DEF IInv, TypeOK, Positions, Referring, FileOwners, Ascending, Acquiring, AtPath, registry
<1>3. \A d \in Caller, p \in Path : HasToken(d, p)' <=> HasToken(d, p)
  BY DEF IInv, TypeOK, HasToken
<1>4. TokenOwners'
  BY <1>3 DEF IInv, TokenOwners, registry
<1>5. QED
  BY <1>1, <1>2, <1>4, RegistryKept DEF IInv

LEMMA LockFileStep ==
  ASSUME IInv, NEW c \in Caller, LockFile(c)
  PROVE  IInv'
<1> USE CoordinatorAssumption DEF CoordinatorAssumption, LockFile, Step
<1> DEFINE p == current[c]
<1>1. at[c] = "file" /\ at[c] \in AtPath /\ at[c] \in Acquiring
  BY DEF AtPath, Acquiring
<1>2. p \in Path /\ at'[c] \in {"held", "refer"} /\ at'[c] \notin AtPath
  BY <1>1, AtEntry DEF AtPath, IInv, TypeOK
<1>3. TypeOK'
  BY <1>2 DEF IInv, TypeOK, Where, registry
<1>4. Positions'
  BY <1>1, <1>2 DEF IInv, TypeOK, Positions, AtPath, registry
<1>5. Referring' /\ FileOwners'
  BY <1>2 DEF IInv, TypeOK, Referring, FileOwners, registry
<1>6. Ascending'
  BY <1>1, <1>2 DEF IInv, TypeOK, Ascending
<1>7. \A d \in Caller, q \in Path : HasToken(d, q)' <=> HasToken(d, q)
  BY <1>1, <1>2 DEF IInv, TypeOK, HasToken
<1>8. TokenOwners'
  BY <1>7 DEF IInv, TokenOwners, registry
<1>9. QED
  BY <1>3, <1>4, <1>5, <1>6, <1>8, RegistryKept DEF IInv

LEMMA AbandonFileStep ==
  ASSUME IInv, NEW c \in Caller, AbandonFile(c)
  PROVE  IInv'
<1> USE CoordinatorAssumption DEF CoordinatorAssumption, AbandonFile, Step
<1>1. TypeOK'
  BY DEF IInv, TypeOK, Where, registry
<1>2. Positions' /\ Referring' /\ FileOwners' /\ Ascending'
  BY DEF IInv, TypeOK, Positions, Referring, FileOwners, Ascending, Acquiring, AtPath, registry
<1>3. \A d \in Caller, p \in Path : HasToken(d, p)' <=> HasToken(d, p)
  BY DEF IInv, TypeOK, HasToken
<1>4. TokenOwners'
  BY <1>3 DEF IInv, TokenOwners, registry
<1>5. QED
  BY <1>1, <1>2, <1>4, RegistryKept DEF IInv

LEMMA ReleaseStep ==
  ASSUME IInv, NEW c \in Caller, Release(c)
  PROVE  IInv'
<1> USE CoordinatorAssumption DEF CoordinatorAssumption, Release, Step
<1>1. TypeOK'
  BY DEF IInv, TypeOK, Where, registry
<1>2. Positions' /\ Referring' /\ FileOwners' /\ Ascending'
  BY DEF IInv, TypeOK, Positions, Referring, FileOwners, Ascending, Acquiring, AtPath, registry
<1>3. \A d \in Caller, p \in Path : HasToken(d, p)' <=> HasToken(d, p)
  BY DEF IInv, TypeOK, HasToken
<1>4. TokenOwners'
  BY <1>3 DEF IInv, TokenOwners, registry
<1>5. QED
  BY <1>1, <1>2, <1>4, RegistryKept DEF IInv

LEMMA ReturnStep ==
  ASSUME IInv, NEW c \in Caller, Return(c)
  PROVE  IInv'
<1> USE CoordinatorAssumption DEF CoordinatorAssumption, Return, Step
<1>1. TypeOK'
  BY DEF IInv, TypeOK, Where, registry
<1>2. Positions' /\ Referring' /\ FileOwners' /\ Ascending'
  BY DEF IInv, TypeOK, Positions, Referring, FileOwners, Ascending, Acquiring, AtPath, registry
<1>3. \A d \in Caller, p \in Path : HasToken(d, p)' <=> HasToken(d, p)
  BY DEF IInv, TypeOK, HasToken
<1>4. TokenOwners'
  BY <1>3 DEF IInv, TokenOwners, registry
<1>5. QED
  BY <1>1, <1>2, <1>4, RegistryKept DEF IInv

LEMMA CancelStep ==
  ASSUME IInv, NEW c \in Caller, Cancel(c)
  PROVE  IInv'
<1> USE CoordinatorAssumption DEF CoordinatorAssumption, Cancel, Step
<1>1. TypeOK'
  BY DEF IInv, TypeOK, Where, registry
<1>2. Positions' /\ Referring' /\ FileOwners' /\ Ascending'
  BY DEF IInv, TypeOK, Positions, Referring, FileOwners, Ascending, Acquiring, AtPath, registry
<1>3. \A d \in Caller, p \in Path : HasToken(d, p)' <=> HasToken(d, p)
  BY DEF IInv, TypeOK, HasToken
<1>4. TokenOwners'
  BY <1>3 DEF IInv, TokenOwners, registry
<1>5. QED
  BY <1>1, <1>2, <1>4, RegistryKept DEF IInv

LEMMA UnlockStep ==
  ASSUME IInv, NEW c \in Caller, Unlock(c)
  PROVE  IInv'
<1> USE CoordinatorAssumption DEF CoordinatorAssumption
<1>1. PICK p \in Path :
        /\ Step(c, "unwind", "untoken")
        /\ Greatest(p, acquired[c])
        /\ flock' = [flock EXCEPT ![p] = NoCaller]
        /\ acquired' = [acquired EXCEPT ![c] = @ \ {p}]
        /\ current' = [current EXCEPT ![c] = p]
        /\ UNCHANGED <<registry, left, cancelled>>
  BY DEF Unlock
<1>2. /\ at[c] = "unwind" /\ at' = [at EXCEPT ![c] = "untoken"]
      /\ p \in acquired[c] /\ current[c] = NoPath
  BY <1>1 DEF Step, Greatest, IInv, Positions, AtPath
<1>3. TypeOK'
  BY <1>1, <1>2 DEF IInv, TypeOK, Where, registry
<1>4. Positions' /\ Referring' /\ Ascending'
  BY <1>1, <1>2 DEF IInv, TypeOK, Positions, Referring, Ascending, Acquiring, AtPath, registry
<1>5. FileOwners'
  <2> SUFFICES ASSUME NEW d \in Caller, NEW q \in Path
               PROVE  flock'[q] = d <=> q \in acquired'[d]
    BY DEF FileOwners
  <2>1. flock[p] = c
    BY <1>2 DEF IInv, FileOwners
  <2>2. flock[q] = d <=> q \in acquired[d]
    BY DEF IInv, FileOwners
  <2>3. flock'[q] = IF q = p THEN NoCaller ELSE flock[q]
    BY <1>1 DEF IInv, TypeOK
  <2>4. acquired'[d] = IF d = c THEN acquired[c] \ {p} ELSE acquired[d]
    BY <1>1 DEF IInv, TypeOK
  <2>5. QED
    BY <2>1, <2>2, <2>3, <2>4
<1>6. \A d \in Caller, q \in Path : HasToken(d, q)' <=> HasToken(d, q)
  <2> SUFFICES ASSUME NEW d \in Caller, NEW q \in Path
               PROVE  HasToken(d, q)' <=> HasToken(d, q)
    OBVIOUS
  <2>1. CASE d = c
    BY <2>1, <1>1, <1>2 DEF IInv, TypeOK, HasToken
  <2>2. CASE d # c
    BY <2>2, <1>1, <1>2 DEF IInv, TypeOK, HasToken
  <2>3. QED
    BY <2>1, <2>2
<1>7. TokenOwners'
  BY <1>1, <1>6 DEF IInv, TokenOwners, registry
<1>8. QED
  BY <1>1, <1>3, <1>4, <1>5, <1>7, RegistryKept DEF IInv

LEMMA GiveTokenStep ==
  ASSUME IInv, NEW c \in Caller, GiveToken(c)
  PROVE  IInv'
<1> USE CoordinatorAssumption DEF CoordinatorAssumption, GiveToken, Step
<1> DEFINE p == current[c]
           e == Entered(c)
<1>1. at[c] = "untoken" /\ at[c] \in AtPath
  BY DEF AtPath
<1>2. p \in Path /\ e \in Entry /\ e = mine[c][p] /\ p \notin acquired[c]
  BY <1>1, AtEntry DEF Entered, IInv, Positions
<1>3. TypeOK'
  BY <1>2 DEF IInv, TypeOK, Where
<1>4. Positions' /\ Referring' /\ FileOwners' /\ Ascending'
  BY <1>1 DEF IInv, TypeOK, Positions, Referring, FileOwners, Ascending, Acquiring, AtPath
<1>5. OneEntryPerFile' /\ OnePlacePerEntry' /\ RegistryIsTidy'
  BY DEF IInv, OneEntryPerFile, OnePlacePerEntry, RegistryIsTidy
<1>6. Counted'
  <2>1. \A f : Referers(f)' = Referers(f)
    BY DEF Referers
  <2>2. QED
    BY <2>1 DEF IInv, Counted
<1>7. HasToken(c, p) /\ token[e] = c
  BY <1>1, <1>2 DEF HasToken, IInv, TokenOwners
<1>8. ASSUME NEW d \in Caller, NEW q \in Path
      PROVE  HasToken(d, q)' <=> HasToken(d, q) /\ ~(d = c /\ q = p)
  <2>1. at'[d] = IF d = c THEN "drop" ELSE at[d]
    BY DEF IInv, TypeOK
  <2>2. QED
    BY <1>1, <1>2, <2>1 DEF HasToken
<1>9. ASSUME NEW d \in Caller, NEW q \in Path, HasToken(d, q)'
      PROVE  token'[mine[d][q]] = d
  <2>1. HasToken(d, q) /\ ~(d = c /\ q = p)
    BY <1>8, <1>9
  <2>2. token[mine[d][q]] = d
    BY <2>1 DEF IInv, TokenOwners
  <2>3. mine[d][q] # e
    <3> SUFFICES ASSUME mine[d][q] = e PROVE FALSE
      OBVIOUS
    <3>1. d = c
      BY <2>2, <1>7
    <3>2. mine[c][p] = mine[d][q] /\ mine[c][p] # NoEntry
      BY <1>2
    <3>3. p = q
      BY <3>2, <1>2, SameEntry
    <3>4. QED
      BY <3>1, <3>3, <2>1
  <2>4. mine[d][q] \in Entry
    BY <2>1 DEF HasToken, IInv, Referring, TypeOK
  <2>5. QED
    BY <2>2, <2>3, <2>4 DEF IInv, TypeOK
<1>10. ASSUME NEW d \in Caller, NEW f \in Entry, token'[f] = d
       PROVE  \E q \in Path : mine[d][q] = f /\ HasToken(d, q)'
  <2>1. f # e /\ token[f] = d
    BY <1>2, <1>10 DEF IInv, TypeOK
  <2>2. PICK q \in Path : mine[d][q] = f /\ HasToken(d, q)
    BY <2>1 DEF IInv, TokenOwners
  <2>3. QED
    BY <2>1, <2>2, <1>2, <1>8
<1>11. TokenOwners'
  BY <1>9, <1>10 DEF TokenOwners
<1>12. QED
  BY <1>3, <1>4, <1>5, <1>6, <1>11 DEF IInv

LEMMA DropReferenceStep ==
  ASSUME IInv, NEW c \in Caller, DropReference(c)
  PROVE  IInv'
<1> USE CoordinatorAssumption DEF CoordinatorAssumption
<1> DEFINE p == current[c]
           e == Entered(c)
           h == Home[c]
           last == refs[e] = 1 /\ entries[h][p] = e
<1>1. /\ at[c] = "drop" /\ at' = [at EXCEPT ![c] = "unwind"]
      /\ refs' = [refs EXCEPT ![e] = @ - 1]
      /\ entries' = IF last THEN [entries EXCEPT ![h][p] = NoEntry] ELSE entries
      /\ mine' = [mine EXCEPT ![c][p] = NoEntry]
      /\ current' = [current EXCEPT ![c] = NoPath]
      /\ UNCHANGED <<token, flock, left, acquired, cancelled>>
  BY DEF DropReference, Step
<1>2. /\ p \in Path /\ e \in Entry /\ e = mine[c][p] /\ h \in Process
      /\ entries[h][p] = e /\ c \in Referers(e) /\ p \notin acquired[c]
  BY <1>1, AtEntry DEF Entered, IInv, Positions, AtPath
<1>3. refs[e] = Cardinality(Referers(e)) /\ refs[e] \in Nat
  BY <1>2 DEF IInv, Counted, TypeOK
<1>4. Cardinality(Referers(e) \ {c}) = Cardinality(Referers(e)) - 1
  BY <1>2, ReferersFinite, FS_RemoveElement
<1>5. IsFiniteSet(Referers(e) \ {c}) /\ Cardinality(Referers(e) \ {c}) \in Nat
  BY <1>2, ReferersFinite, FS_RemoveElement, FS_CardinalityType
<1>6. refs[e] - 1 \in Nat
  BY <1>3, <1>4, <1>5
<1>7. refs[e] = 1 <=> Referers(e) \ {c} = {}
  BY <1>3, <1>4, <1>5, FS_EmptySet
<1>8. \A d \in Caller, q \in Path :
        mine'[d][q] = IF d = c /\ q = p THEN NoEntry ELSE mine[d][q]
  BY <1>1, <1>2 DEF IInv, TypeOK
<1>9. \A g \in Process, q \in Path :
        entries'[g][q] = IF last /\ g = h /\ q = p THEN NoEntry ELSE entries[g][q]
  BY <1>1, <1>2 DEF IInv, TypeOK
<1>10. TypeOK'
  BY <1>1, <1>2, <1>6 DEF IInv, TypeOK, Where
<1>11. Positions' /\ Ascending' /\ FileOwners'
  BY <1>1, <1>2 DEF IInv, TypeOK, Positions, Ascending, Acquiring, AtPath, FileOwners
<1>12. Referring'
  <2> SUFFICES ASSUME NEW d \in Caller, NEW q \in Path
               PROVE  mine'[d][q] # NoEntry <=> q \in acquired'[d] \/ q = current'[d]
    BY DEF Referring
  <2>1. current'[d] = IF d = c THEN NoPath ELSE current[d]
    BY <1>1 DEF IInv, TypeOK
  <2>2. mine[d][q] # NoEntry <=> q \in acquired[d] \/ q = current[d]
    BY DEF IInv, Referring
  <2>3. QED
    BY <1>1, <1>2, <1>8, <2>1, <2>2
<1>13. OneEntryPerFile'
  <2> SUFFICES ASSUME NEW d \in Caller, NEW q \in Path, mine'[d][q] # NoEntry
               PROVE  entries'[Home[d]][q] = mine'[d][q]
    BY DEF OneEntryPerFile
  <2>1. /\ mine'[d][q] = mine[d][q] /\ mine[d][q] # NoEntry
        /\ ~(d = c /\ q = p) /\ Home[d] \in Process
    BY <1>8
  <2>2. entries[Home[d]][q] = mine[d][q]
    BY <2>1 DEF IInv, OneEntryPerFile
  <2>3. ASSUME last, Home[d] = h, q = p PROVE FALSE
    <3>1. d \in Referers(e)
      BY <2>2, <2>3, <1>2 DEF Referers
    <3>2. QED
      BY <3>1, <2>1, <2>3, <1>7
  <2>4. QED
    BY <2>1, <2>2, <2>3, <1>9
<1>14. OnePlacePerEntry'
  BY <1>9 DEF IInv, OnePlacePerEntry
<1>15. RegistryIsTidy'
  <2> SUFFICES ASSUME NEW g \in Process, NEW q \in Path, entries'[g][q] # NoEntry
               PROVE  \E d \in Caller : Home[d] = g /\ mine'[d][q] # NoEntry
    BY DEF RegistryIsTidy
  <2>1. entries[g][q] # NoEntry /\ ~(last /\ g = h /\ q = p)
    BY <1>9
  <2>2. CASE g = h /\ q = p
    <3>1. PICK d \in Referers(e) : d # c
      BY <1>2, <1>7, <2>1, <2>2
    <3>2. PICK r \in Path : mine[d][r] = e
      BY <3>1 DEF Referers
    <3>3. d \in Caller /\ mine[c][p] = mine[d][r] /\ mine[c][p] # NoEntry
      BY <3>1, <3>2, <1>2 DEF Referers
    <3>4. Home[d] = h /\ r = p
      BY <3>3, <1>2, SameEntry
    <3>5. QED
      BY <3>1, <3>3, <3>4, <2>2, <1>8
  <2>3. CASE ~(g = h /\ q = p)
    <3>1. PICK d \in Caller : Home[d] = g /\ mine[d][q] # NoEntry
      BY <2>1 DEF IInv, RegistryIsTidy
    <3>2. QED
      BY <3>1, <2>3, <1>8
  <2>4. QED
    BY <2>2, <2>3
<1>16. Counted'
  <2> SUFFICES ASSUME NEW f \in Entry PROVE refs'[f] = Cardinality(Referers(f)')
    BY DEF Counted
  <2>1. CASE f = e
    <3>1. ASSUME NEW q \in Path, mine'[c][q] = e PROVE FALSE
      <4>1. q # p /\ mine[c][q] = e
        BY <3>1, <1>8, <1>2
      <4>2. mine[c][p] = mine[c][q] /\ mine[c][p] # NoEntry
        BY <4>1, <1>2
      <4>3. p = q
        BY <4>2, <1>2, SameEntry
      <4>4. QED
        BY <4>1, <4>3
    <3>2. Referers(f)' = Referers(e) \ {c}
      BY <1>8, <2>1, <3>1 DEF Referers
    <3>3. QED
      BY <3>2, <2>1, <1>1, <1>2, <1>3, <1>4 DEF IInv, TypeOK
  <2>2. CASE f # e
    <3>1. Referers(f)' = Referers(f)
      BY <1>8, <2>2, <1>2 DEF Referers
    <3>2. QED
      BY <3>1, <2>2, <1>1 DEF IInv, Counted, TypeOK
  <2>3. QED
    BY <2>1, <2>2
<1>17. ASSUME NEW d \in Caller, NEW q \in Path
       PROVE  HasToken(d, q)' <=> HasToken(d, q)
  <2>1. /\ at'[d] = IF d = c THEN "unwind" ELSE at[d]
        /\ current'[d] = IF d = c THEN NoPath ELSE current[d]
    BY <1>1 DEF IInv, TypeOK
  <2>2. QED
    BY <1>1, <2>1 DEF HasToken
<1>18. ~HasToken(c, p)
  BY <1>1, <1>2 DEF HasToken
<1>19. TokenOwners'
  <2>1. ASSUME NEW d \in Caller, NEW q \in Path, HasToken(d, q)'
        PROVE  token'[mine'[d][q]] = d
    BY <2>1, <1>1, <1>8, <1>17, <1>18 DEF IInv, TokenOwners
  <2>2. ASSUME NEW d \in Caller, NEW f \in Entry, token'[f] = d
        PROVE  \E q \in Path : mine'[d][q] = f /\ HasToken(d, q)'
    <3>1. PICK q \in Path : mine[d][q] = f /\ HasToken(d, q)
      BY <2>2, <1>1 DEF IInv, TokenOwners
    <3>2. QED
      BY <3>1, <1>8, <1>17, <1>18
  <2>3. QED
    BY <2>1, <2>2 DEF TokenOwners
<1>20. QED
  BY <1>10, <1>11, <1>12, <1>13, <1>14, <1>15, <1>16, <1>19 DEF IInv

LEMMA CrashStep ==
  ASSUME IInv, NEW h \in Process, Crash(h)
  PROVE  IInv'
<1> USE CoordinatorAssumption DEF CoordinatorAssumption
<1> DEFINE gone == {entries[h][p] : p \in Path}
<1>1. \A d \in Caller : Home[d] = h =>
        /\ at'[d] = "idle" /\ left'[d] = {} /\ acquired'[d] = {}
        /\ current'[d] = NoPath
        /\ \A p \in Path : mine'[d][p] = NoEntry
  BY DEF Crash
<1>2. \A d \in Caller : Home[d] # h =>
        /\ at'[d] = at[d] /\ left'[d] = left[d] /\ acquired'[d] = acquired[d]
        /\ current'[d] = current[d] /\ mine'[d] = mine[d]
  BY DEF Crash
<1>3. \A e \in Entry :
        /\ refs'[e] = IF e \in gone THEN 0 ELSE refs[e]
        /\ token'[e] = IF e \in gone THEN NoCaller ELSE token[e]
  BY DEF Crash
<1>4. \A p \in Path : /\ flock[p] \in Caller /\ Home[flock[p]] = h
                         => flock'[p] = NoCaller
                      /\ ~(flock[p] \in Caller /\ Home[flock[p]] = h)
                         => flock'[p] = flock[p]
  BY DEF Crash
<1>5. \A g \in Process, p \in Path :
        entries'[g][p] = IF g = h THEN NoEntry ELSE entries[g][p]
  BY DEF Crash, IInv, TypeOK
<1>6. TypeOK'
  <2>1. entries' \in [Process -> [Path -> Entry \cup {NoEntry}]]
    BY DEF Crash, IInv, TypeOK
  <2>2. refs' \in [Entry -> Nat] /\ token' \in [Entry -> Caller \cup {NoCaller}]
    BY DEF Crash, IInv, TypeOK
  <2>3. flock' \in [Path -> Caller \cup {NoCaller}]
    BY DEF Crash, IInv, TypeOK
  <2>4. /\ at' \in [Caller -> Where] /\ left' \in [Caller -> SUBSET Path]
        /\ current' \in [Caller -> Path \cup {NoPath}]
    BY DEF Crash, IInv, TypeOK, Where
  <2>5. /\ mine' \in [Caller -> [Path -> Entry \cup {NoEntry}]]
        /\ acquired' \in [Caller -> SUBSET Path]
        /\ cancelled' \in [Caller -> BOOLEAN]
    BY DEF Crash, IInv, TypeOK
  <2>6. QED
    BY <2>1, <2>2, <2>3, <2>4, <2>5 DEF TypeOK
<1>7. Positions'
  BY <1>1, <1>2 DEF IInv, Positions, AtPath
<1>8. Referring'
  BY <1>1, <1>2 DEF IInv, Referring
<1>9. FileOwners'
  <2> SUFFICES ASSUME NEW d \in Caller, NEW p \in Path
               PROVE  flock'[p] = d <=> p \in acquired'[d]
    BY DEF FileOwners
  <2>1. flock[p] = d <=> p \in acquired[d]
    BY DEF IInv, FileOwners
  <2>2. CASE Home[d] = h
    BY <2>1, <2>2, <1>1, <1>4
  <2>3. CASE Home[d] # h
    BY <2>1, <2>3, <1>2, <1>4
  <2>4. QED
    BY <2>2, <2>3
<1>10. Ascending'
  BY <1>1, <1>2 DEF IInv, Ascending, Acquiring
<1>11. OneEntryPerFile'
  <2> SUFFICES ASSUME NEW d \in Caller, NEW p \in Path, mine'[d][p] # NoEntry
               PROVE  entries'[Home[d]][p] = mine'[d][p]
    BY DEF OneEntryPerFile
  <2>1. Home[d] # h /\ Home[d] \in Process
    BY <1>1
  <2>2. QED
    BY <2>1, <1>2, <1>5 DEF IInv, OneEntryPerFile
<1>12. OnePlacePerEntry'
  BY <1>5 DEF IInv, OnePlacePerEntry
<1>13. RegistryIsTidy'
  <2> SUFFICES ASSUME NEW g \in Process, NEW p \in Path, entries'[g][p] # NoEntry
               PROVE  \E d \in Caller : Home[d] = g /\ mine'[d][p] # NoEntry
    BY DEF RegistryIsTidy
  <2>1. g # h /\ entries[g][p] # NoEntry
    BY <1>5
  <2>2. PICK d \in Caller : Home[d] = g /\ mine[d][p] # NoEntry
    BY <2>1 DEF IInv, RegistryIsTidy
  <2>3. QED
    BY <2>1, <2>2, <1>2
\* The entries that are gone are those the dead callers referred to.
<1>14. ASSUME NEW d \in Caller, NEW p \in Path, NEW e \in Entry, mine[d][p] = e
       PROVE  e \in gone <=> Home[d] = h
  <2>1. Home[d] \in Process /\ entries[Home[d]][p] = e
    BY <1>14 DEF IInv, OneEntryPerFile
  <2>2. ASSUME NEW q \in Path, entries[h][q] = e PROVE Home[d] = h
    BY <2>1, <2>2 DEF IInv, OnePlacePerEntry
  <2>3. QED
    BY <2>1, <2>2
<1>15. Counted'
  <2> SUFFICES ASSUME NEW e \in Entry PROVE refs'[e] = Cardinality(Referers(e)')
    BY DEF Counted
  <2>1. CASE e \in gone
    <3>1. ASSUME NEW d \in Caller, NEW p \in Path, mine'[d][p] = e PROVE FALSE
      <4>1. Home[d] # h /\ mine[d][p] = e
        BY <3>1, <1>1, <1>2
      <4>2. QED
        BY <4>1, <2>1, <1>14
    <3>2. Referers(e)' = {}
      BY <3>1 DEF Referers
    <3>3. QED
      BY <3>2, <2>1, <1>3, FS_EmptySet
  <2>2. CASE e \notin gone
    <3>1. ASSUME NEW d \in Caller, NEW p \in Path
          PROVE  mine'[d][p] = e <=> mine[d][p] = e
      <4>1. CASE Home[d] = h
        BY <4>1, <2>2, <1>1, <1>14
      <4>2. CASE Home[d] # h
        BY <4>2, <1>2
      <4>3. QED
        BY <4>1, <4>2
    <3>2. Referers(e)' = Referers(e)
      BY <3>1 DEF Referers
    <3>3. QED
      BY <3>2, <2>2, <1>3 DEF IInv, Counted
  <2>3. QED
    BY <2>1, <2>2
<1>16. TokenOwners'
  <2>1. ASSUME NEW d \in Caller, NEW p \in Path, HasToken(d, p)'
        PROVE  token'[mine'[d][p]] = d
    <3>1. Home[d] # h /\ HasToken(d, p)
      BY <2>1, <1>1, <1>2 DEF HasToken
    <3>2. mine[d][p] \in Entry /\ token[mine[d][p]] = d
      BY <3>1 DEF HasToken, IInv, Referring, TypeOK, TokenOwners
    <3>3. QED
      BY <3>1, <3>2, <1>2, <1>3, <1>14
  <2>2. ASSUME NEW d \in Caller, NEW e \in Entry, token'[e] = d
        PROVE  \E p \in Path : mine'[d][p] = e /\ HasToken(d, p)'
    <3>1. token[e] = d /\ e \notin gone
      BY <2>2, <1>3
    <3>2. PICK p \in Path : mine[d][p] = e /\ HasToken(d, p)
      BY <3>1 DEF IInv, TokenOwners
    <3>3. Home[d] # h
      BY <3>1, <3>2, <1>14
    <3>4. QED
      BY <3>2, <3>3, <1>2 DEF HasToken
  <2>3. QED
    BY <2>1, <2>2 DEF TokenOwners
<1>17. QED
  BY <1>6, <1>7, <1>8, <1>9, <1>10, <1>11, <1>12, <1>13, <1>15, <1>16 DEF IInv

LEMMA StutterStep == IInv /\ UNCHANGED vars => IInv'
<1> SUFFICES ASSUME IInv, UNCHANGED vars PROVE IInv'
  OBVIOUS
<1>1. \A d, p : HasToken(d, p)' <=> HasToken(d, p)
  BY DEF vars, HasToken
<1>2. TokenOwners'
  BY <1>1 DEF IInv, TokenOwners, vars
<1>3. TypeOK' /\ Positions' /\ Referring' /\ FileOwners' /\ Ascending'
  BY DEF IInv, vars, TypeOK, Positions, Referring, FileOwners, Ascending
<1>4. UNCHANGED registry
  BY DEF vars, registry
<1>5. QED
  BY <1>2, <1>3, <1>4, RegistryKept DEF IInv

LEMMA StepInvariant == IInv /\ [Next]_vars => IInv'
<1> SUFFICES ASSUME IInv, [Next]_vars PROVE IInv'
  OBVIOUS
<1>1. ASSUME NEW c \in Caller, CallerNext(c) PROVE IInv'
  BY <1>1, AcquireStep, ReferenceStep, TakeTokenStep, AbandonTokenStep,
     LockFileStep, AbandonFileStep, ReleaseStep, UnlockStep, GiveTokenStep,
     DropReferenceStep, ReturnStep, CancelStep DEF CallerNext
<1>2. ASSUME NEW h \in Process, Crash(h) PROVE IInv'
  BY <1>2, CrashStep
<1>3. CASE UNCHANGED vars
  BY <1>3, StutterStep
<1>4. QED
  BY <1>1, <1>2, <1>3 DEF Next

(***************************************************************************)
(* The inductive invariant holds in every reachable state.                 *)
(***************************************************************************)
THEOREM Invariant == Spec => []IInv
<1>1. IInv /\ [Next]_vars => IInv'
  BY StepInvariant
<1>2. QED
  BY <1>1, InitInvariant, PTL DEF Spec

----------------------------------------------------------------------------
(***************************************************************************)
(* What the coordinator's state relies on, from the invariant.             *)
(***************************************************************************)
LEMMA Consequences ==
  IInv => TypeOK /\ OneEntryPerFile /\ RegistryIsTidy /\ NothingKept
          /\ WaitsAscend /\ TokenBeforeFile
<1> SUFFICES ASSUME IInv PROVE NothingKept /\ WaitsAscend /\ TokenBeforeFile
  BY DEF IInv
<1> USE CoordinatorAssumption DEF CoordinatorAssumption
<1>1. ASSUME NEW c \in Caller, at[c] = "idle"
      PROVE  /\ \A e \in Entry : token[e] # c
             /\ \A p \in Path : flock[p] # c /\ mine[c][p] = NoEntry
  <2>1. acquired[c] = {} /\ current[c] = NoPath
    BY <1>1 DEF IInv, Positions, AtPath
  <2>2. \A p \in Path : ~HasToken(c, p) /\ mine[c][p] = NoEntry
    BY <2>1 DEF HasToken, IInv, Referring
  <2>3. QED
    BY <2>1, <2>2 DEF IInv, TokenOwners, FileOwners
<1>2. ASSUME NEW c \in Caller, NEW p \in Path,
             at[c] \in {"token", "file"}, p \in acquired[c]
      PROVE  Rank[p] < Rank[current[c]]
  <2>1. current[c] # NoPath /\ at[c] \in Acquiring
    BY <1>2 DEF IInv, Positions, AtPath, Acquiring
  <2>2. QED
    BY <1>2, <2>1 DEF IInv, Ascending
<1>3. ASSUME NEW c \in Caller, NEW p \in Path, flock[p] = c
      PROVE  mine[c][p] # NoEntry /\ token[mine[c][p]] = c
  <2>1. p \in acquired[c]
    BY <1>3 DEF IInv, FileOwners
  <2>2. QED
    BY <2>1 DEF IInv, Referring, TokenOwners, HasToken
<1>4. QED
  BY <1>1, <1>2, <1>3 DEF NothingKept, WaitsAscend, TokenBeforeFile

(***************************************************************************)
(* Every variable keeps its type.                                          *)
(***************************************************************************)
THEOREM TypeCorrect == Spec => []TypeOK
BY Invariant, Consequences, PTL

(***************************************************************************)
(* Goroutines of a process at one path share one entry of the registry,    *)
(* whatever calls are cancelled meanwhile (acquire, dropReference).        *)
(***************************************************************************)
THEOREM EntriesAreShared == Spec => []OneEntryPerFile
BY Invariant, Consequences, PTL

(***************************************************************************)
(* A call that ended without a lease keeps nothing (the error paths of     *)
(* Acquire).                                                               *)
(***************************************************************************)
THEOREM FailuresKeepNothing == Spec => []NothingKept
BY Invariant, Consequences, PTL

(***************************************************************************)
(* Waits follow the order of paths, so that there is no cycle of them.     *)
(***************************************************************************)
THEOREM NoCircularWait == Spec => []WaitsAscend
BY Invariant, Consequences, PTL

----------------------------------------------------------------------------
(***************************************************************************)
(* The refinement: leases are granted whole, at the step that returns from *)
(* Acquire, and returned whole.                                            *)
(***************************************************************************)
LEMMA LeasedUnchanged ==
  ASSUME IInv, IInv', NEW c \in Caller,
         \A d \in Caller : d # c => at'[d] = at[d] /\ acquired'[d] = acquired[d],
         at[c] = "held" => acquired[c] = {},
         at'[c] = "held" => acquired'[c] = {}
  PROVE  UNCHANGED leased
<1>1. \A d \in Caller :
        (IF at[d] = "held" THEN acquired[d] ELSE {})
          = (IF at'[d] = "held" THEN acquired'[d] ELSE {})
  OBVIOUS
<1>2. QED
  BY <1>1 DEF leased

LEMMA GrantStep ==
  ASSUME IInv, NEW c \in Caller, LockFile(c)
  PROVE  [Lease!Next]_leased
<1> USE CoordinatorAssumption DEF CoordinatorAssumption
<1> DEFINE p == current[c]
           ps == acquired[c] \cup {p}
<1>1. /\ at[c] = "file" /\ flock[p] = NoCaller
      /\ at' = [at EXCEPT ![c] = IF left[c] = {} THEN "held" ELSE "refer"]
      /\ acquired' = [acquired EXCEPT ![c] = ps]
  BY DEF LockFile, Step
<1>2. p \in Path /\ ps \subseteq Path
  BY <1>1, AtEntry DEF AtPath, IInv, TypeOK
<1>3. \A d \in Caller : /\ d # c => at'[d] = at[d] /\ acquired'[d] = acquired[d]
                        /\ at'[c] = IF left[c] = {} THEN "held" ELSE "refer"
                        /\ acquired'[c] = ps
  BY <1>1 DEF IInv, TypeOK
<1>4. CASE left[c] = {}
  <2>1. leased[c] = {}
    BY <1>1 DEF leased
  <2>2. ASSUME NEW d \in Caller PROVE leased[d] \cap ps = {}
    <3>1. CASE d = c
      BY <3>1, <2>1
    <3>2. CASE d # c
      <4>1. ASSUME NEW q \in leased[d] PROVE q \in Path /\ q \in acquired[d]
        BY <4>1 DEF leased, IInv, TypeOK
      <4>2. ASSUME NEW q \in leased[d] PROVE flock[q] = d
        BY <4>1, <4>2 DEF IInv, FileOwners
      <4>3. \A q \in acquired[c] : flock[q] = c
        BY DEF IInv, FileOwners, TypeOK
      <4>4. QED
        BY <4>2, <4>3, <3>2, <1>1
    <3>3. QED
      BY <3>1, <3>2
  <2>3. leased' = [leased EXCEPT ![c] = ps]
    BY <1>3, <1>4 DEF leased
  <2>4. Lease!Grant(c, ps)
    BY <2>1, <2>2, <2>3 DEF Lease!Grant
  <2>5. QED
    BY <2>4, <1>2 DEF Lease!Next
<1>5. CASE left[c] # {}
  <2>1. at[c] # "held" /\ at'[c] # "held"
    BY <1>1, <1>3, <1>5
  <2>2. \A d \in Caller :
          (IF at[d] = "held" THEN acquired[d] ELSE {})
            = (IF at'[d] = "held" THEN acquired'[d] ELSE {})
    BY <2>1, <1>3
  <2>3. QED
    BY <2>2 DEF leased
<1>6. QED
  BY <1>4, <1>5

LEMMA ReturnLeaseStep ==
  ASSUME IInv, NEW c \in Caller, Release(c)
  PROVE  [Lease!Next]_leased
<1>1. /\ \A d \in Caller : at'[d] = IF d = c THEN "unwind" ELSE at[d]
      /\ acquired' = acquired
  BY DEF Release, Step, IInv, TypeOK
<1>2. leased' = [d \in Caller |-> IF d \in {c} THEN {} ELSE leased[d]]
  BY <1>1 DEF leased
<1>3. Lease!Return({c}) /\ {c} \in SUBSET Caller
  BY <1>2 DEF Lease!Return
<1>4. QED
  BY <1>3 DEF Lease!Next

LEMMA CrashLeaseStep ==
  ASSUME IInv, NEW h \in Process, Crash(h)
  PROVE  [Lease!Next]_leased
<1> DEFINE dead == {c \in Caller : Home[c] = h}
<1>1. \A d \in Caller :
        /\ at'[d] = IF d \in dead THEN "idle" ELSE at[d]
        /\ acquired'[d] = IF d \in dead THEN {} ELSE acquired[d]
  BY DEF Crash
<1>2. leased' = [d \in Caller |-> IF d \in dead THEN {} ELSE leased[d]]
  BY <1>1 DEF leased
<1>3. Lease!Return(dead) /\ dead \in SUBSET Caller
  BY <1>2 DEF Lease!Return
<1>4. QED
  BY <1>3 DEF Lease!Next

LEMMA OtherCallerStep ==
  ASSUME IInv, IInv', NEW c \in Caller, CallerNext(c), ~LockFile(c), ~Release(c)
  PROVE  UNCHANGED leased
<1>1. \A d \in Caller : d # c => at'[d] = at[d] /\ acquired'[d] = acquired[d]
  BY ZenonT(60) DEF CallerNext, Acquire, Reference, TakeToken, AbandonToken, AbandonFile,
         Unlock, GiveToken, DropReference, Return, Cancel, Step, IInv, TypeOK
<1>2. CASE \E names \in SUBSET Name : Acquire(c, names)
  <2>1. at[c] = "idle" /\ acquired' = acquired
    BY <1>2 DEF Acquire, Step
  <2>2. acquired[c] = {} /\ acquired'[c] = {}
    BY <2>1 DEF IInv, Positions
  <2>3. QED
    BY <1>1, <2>2, LeasedUnchanged
<1>3. CASE Cancel(c)
  <2>1. UNCHANGED <<at, acquired>>
    BY <1>3 DEF Cancel
  <2>2. QED
    BY <2>1 DEF leased
<1>4. CASE \/ Reference(c) \/ TakeToken(c) \/ AbandonToken(c) \/ AbandonFile(c)
           \/ Unlock(c) \/ GiveToken(c) \/ DropReference(c) \/ Return(c)
  <2>1. at[c] # "held" /\ at'[c] # "held"
    BY <1>4 DEF Reference, TakeToken, AbandonToken, AbandonFile, Unlock,
                GiveToken, DropReference, Return, Step, IInv, TypeOK
  <2>2. QED
    BY <1>1, <2>1, LeasedUnchanged
<1>5. QED
  BY <1>2, <1>3, <1>4 DEF CallerNext

(***************************************************************************)
(* The coordinator implements DuckLease: a caller gets all its files at    *)
(* once, files that nobody else has in any process, and a crash or a       *)
(* release returns them all.                                               *)
(***************************************************************************)
THEOREM Refinement == Spec => ImplementsLease
<1>1. Init => Lease!Init
  BY DEF Init, Lease!Init, leased
<1>2. IInv /\ IInv' /\ [Next]_vars => [Lease!Next]_leased
  <2> SUFFICES ASSUME IInv, IInv', [Next]_vars PROVE [Lease!Next]_leased
    OBVIOUS
  <2>1. ASSUME NEW c \in Caller, CallerNext(c) PROVE [Lease!Next]_leased
    BY <2>1, GrantStep, ReturnLeaseStep, OtherCallerStep
  <2>2. ASSUME NEW h \in Process, Crash(h) PROVE [Lease!Next]_leased
    BY <2>2, CrashLeaseStep
  <2>3. CASE UNCHANGED vars
    BY <2>3 DEF vars, leased
  <2>4. QED
    BY <2>1, <2>2, <2>3 DEF Next
<1>3. QED
  BY <1>1, <1>2, Invariant, PTL DEF Spec, ImplementsLease, Lease!Spec
=============================================================================
