------------------------- MODULE AssetWaits_proofs --------------------------
(***************************************************************************)
(* Proofs about AssetWaits: IInv is inductive and implies the properties   *)
(* of the registry and of the queries that wait on it.                     *)
(***************************************************************************)
EXTENDS AssetWaitsInvariant, TLAPS

LEMMA BeginRunKeeps ==
  ASSUME IInv, NEW r \in Run, BeginRun(r)
  PROVE  IInv'
<1> USE WaitsAssumption DEF IInv
<1>1. TypeOK'
  BY DEF TypeOK, BeginRun, AssetsOf, TasksOf, reader
<1>2. OutcomesFollow'
  BY DEF TypeOK, OutcomesFollow, BeginRun, AssetsOf, TasksOf, reader
<1>3. EntriesAreLatest'
  BY DEF TypeOK, EntriesAreLatest, AtWork, BeginRun, AssetsOf, TasksOf, reader
<1>4. LatestStays'
  BY DEF TypeOK, LatestStays, BeginRun, AssetsOf, TasksOf, reader
<1>5. OwnedIsLatest'
  BY DEF TypeOK, OwnedIsLatest, BegunInRun, AtWork, BeginRun, reader
<1>6. BegunInOrder'
  BY DEF TypeOK, BegunInOrder, BeginRun, AssetsOf, TasksOf, reader
<1>7. BegunInRun'
  BY DEF TypeOK, BegunInRun, BeginRun, AssetsOf, TasksOf, reader
<1>8. OpenRunsMayOverlap'
  BY ZenonT(60) DEF TypeOK, OpenRunsMayOverlap, BeginRun, AssetsOf, TasksOf, reader
<1>9. QueriesWait'
  BY DEF TypeOK, QueriesWait, AtWork, Closed, Idle, BeginRun, AssetsOf, TasksOf, reader
<1>10. SeenIsAwaited'
  BY DEF TypeOK, SeenIsAwaited, BeginRun, AssetsOf, TasksOf, reader
<1>11. LookedUpHasBegun'
<2> SUFFICES ASSUME NEW t \in Task, RunOf[t] \notin Planned,
                    NEW a \in query[t].refs \ query[t].left
             PROVE  state'[RunOf[t]][a] # "pending"
  BY DEF LookedUpHasBegun, BeginRun, reader
<2>1. query[t] # Idle /\ a \in Asset
  BY DEF Idle, TypeOK
<2>2. run[RunOf[t]] # "absent"
  BY <2>1 DEF QueriesWait, BegunInRun
<2>3. RunOf[t] # r
  BY <2>2 DEF BeginRun
<2> QED BY <2>3 DEF LookedUpHasBegun, BeginRun, TypeOK
<1> QED BY <1>1, <1>2, <1>3, <1>4, <1>5, <1>6, <1>7, <1>8, <1>9, <1>10, <1>11 DEF IInv

LEMMA CancelKeeps ==
  ASSUME IInv, NEW r \in Run, Cancel(r)
  PROVE  IInv'
<1> USE WaitsAssumption DEF IInv
<1>1. TypeOK'
  BY DEF TypeOK, Cancel, registry, reader
<1>2. OutcomesFollow'
  BY DEF TypeOK, OutcomesFollow, Cancel, registry, reader
<1>3. EntriesAreLatest'
  BY DEF TypeOK, EntriesAreLatest, AtWork, Cancel, registry, reader
<1>4. LatestStays'
  BY DEF TypeOK, LatestStays, Cancel, registry, reader
<1>5. OwnedIsLatest'
  BY DEF TypeOK, OwnedIsLatest, AtWork, Cancel, registry, reader
<1>6. BegunInOrder'
  BY DEF TypeOK, BegunInOrder, Cancel, registry, reader
<1>7. BegunInRun'
  BY DEF TypeOK, BegunInRun, Cancel, registry, reader
<1>8. OpenRunsMayOverlap'
  BY DEF TypeOK, OpenRunsMayOverlap, Cancel, registry, reader
<1>9. QueriesWait'
  BY DEF TypeOK, QueriesWait, AtWork, Closed, Idle, Cancel, registry, reader
<1>10. SeenIsAwaited'
  BY DEF TypeOK, SeenIsAwaited, Cancel, registry, reader
<1>11. LookedUpHasBegun'
  BY DEF TypeOK, LookedUpHasBegun, QueriesWait, Idle, Cancel, registry, reader
<1> QED BY <1>1, <1>2, <1>3, <1>4, <1>5, <1>6, <1>7, <1>8, <1>9, <1>10, <1>11 DEF IInv

LEMMA EndKeeps ==
  ASSUME IInv, NEW r \in Run, End(r)
  PROVE  IInv'
<1> USE WaitsAssumption DEF IInv
<1>a. /\ outcome' = [t \in Task |-> IF t \in Orphans(r) THEN "failed" ELSE outcome[t]]
      /\ inflight' = [a \in Asset |-> IF inflight[a] \in Orphans(r) THEN NoTask ELSE inflight[a]]
  <2>1. ASSUME NEW a \in Asset
        PROVE  (\E t \in TasksOf(r) : inflight[a] = t /\ state[r][a] = "running")
                 <=> inflight[a] \in Orphans(r)
    <3>1. inflight[a] # NoTask => AssetOf[inflight[a]] = a
      BY DEF EntriesAreLatest, LatestStays, TypeOK
    <3> QED BY <3>1 DEF Orphans, TasksOf, TypeOK
  <2> QED BY <2>1 DEF End
<1>b. /\ run' = [run EXCEPT ![r] = "ended"]
      /\ UNCHANGED <<state, task, cancelled, query, seen, queries, latest, panics>>
  BY DEF End, reader
<1>c. ASSUME NEW t \in Orphans(r)
      PROVE  t \in Task /\ RunOf[t] = r /\ inflight[AssetOf[t]] = t /\ AtWork(t)
  <2>1. t \in Task /\ RunOf[t] = r /\ inflight[AssetOf[t]] = t /\ AssetOf[t] \in Asset
    BY DEF Orphans, TasksOf
  <2> QED BY <2>1 DEF EntriesAreLatest
<1>d. ASSUME NEW t \in Orphans(r) PROVE task[t] = "lost"
  BY <1>c DEF AtWork, End, Drained, TasksOf
<1>1. TypeOK'
  BY <1>a, <1>b DEF TypeOK, Outcome
<1>2. OutcomesFollow'
  BY <1>a, <1>b, <1>d DEF OutcomesFollow
<1>3. EntriesAreLatest'
  BY <1>a, <1>b DEF EntriesAreLatest, AtWork, TypeOK
<1>4. LatestStays'
  BY DEF TypeOK, LatestStays, End, Orphans, Drained, TasksOf, reader
<1>5. OwnedIsLatest'
<2> SUFFICES ASSUME NEW t \in Task, AtWork(t)', AssetOf[t] \in Owned
             PROVE  /\ run'[RunOf[t]] = "open"
                    /\ state'[RunOf[t]][AssetOf[t]] = "running"
                    /\ latest'[AssetOf[t]] = t
  BY DEF OwnedIsLatest
<2>1. AtWork(t) /\ t \notin Orphans(r)
  BY <1>a, <1>b DEF AtWork
<2>2. /\ run[RunOf[t]] = "open"
      /\ state[RunOf[t]][AssetOf[t]] = "running"
      /\ latest[AssetOf[t]] = t
  BY <2>1 DEF OwnedIsLatest
<2>3. inflight[AssetOf[t]] = t
  BY <2>1, <2>2 DEF AtWork, LatestStays
<2>4. RunOf[t] # r
  BY <2>1, <2>2, <2>3 DEF Orphans, TasksOf
<2> QED BY <2>2, <2>4, <1>b DEF TypeOK
<1>6. BegunInOrder'
  BY DEF TypeOK, BegunInOrder, End, Orphans, Drained, TasksOf, reader
<1>7. BegunInRun'
  BY DEF TypeOK, BegunInRun, End, Orphans, Drained, TasksOf, reader
<1>8. OpenRunsMayOverlap'
  BY DEF TypeOK, OpenRunsMayOverlap, End, Orphans, Drained, TasksOf, reader
<1>9. QueriesWait'
  BY DEF TypeOK, QueriesWait, AtWork, Closed, Idle, End, Orphans, Drained, TasksOf, reader
<1>10. SeenIsAwaited'
<2>1. ASSUME NEW u \in Task, outcome[u] = "ok" PROVE outcome'[u] = "ok"
  BY <2>1, <1>a, <1>c DEF AtWork
<2> QED BY <2>1, <1>b DEF SeenIsAwaited, TypeOK
<1>11. LookedUpHasBegun'
  BY DEF TypeOK, LookedUpHasBegun, QueriesWait, Idle, End, Orphans, Drained, TasksOf, reader
<1> QED BY <1>1, <1>2, <1>3, <1>4, <1>5, <1>6, <1>7, <1>8, <1>9, <1>10, <1>11 DEF IInv

LEMMA BeginTaskKeeps ==
  ASSUME IInv, NEW t \in Task, BeginTask(t)
  PROVE  IInv'
<1> USE WaitsAssumption DEF IInv
<1>1. TypeOK'
  BY DEF TypeOK, BeginTask, Ready, Enter, reader
<1>2. OutcomesFollow'
  BY DEF TypeOK, OutcomesFollow, BeginTask, Ready, Enter, reader
<1>3. EntriesAreLatest'
<2> SUFFICES ASSUME NEW a \in Asset, inflight'[a] # NoTask
             PROVE  AtWork(inflight[a])' /\ latest'[a] = inflight'[a]
  BY DEF EntriesAreLatest
<2>1. CASE a = AssetOf[t]
  BY <2>1 DEF BeginTask, Enter, Ready, AtWork, OutcomesFollow, TypeOK
<2>2. CASE a # AssetOf[t]
  BY <2>2 DEF BeginTask, Enter, Ready, AtWork, EntriesAreLatest, TypeOK
<2> QED BY <2>1, <2>2
<1>4. LatestStays'
  BY DEF TypeOK, LatestStays, BeginTask, Ready, Enter, reader
<1>5. OwnedIsLatest'
<2> SUFFICES ASSUME NEW u \in Task, AtWork(u)', AssetOf[u] \in Owned
             PROVE  /\ run'[RunOf[u]] = "open"
                    /\ state'[RunOf[u]][AssetOf[u]] = "running"
                    /\ latest'[AssetOf[u]] = u
  BY DEF OwnedIsLatest
<2>1. CASE u = t
  BY <2>1 DEF BeginTask, Ready, TypeOK
<2>2. CASE u # t
  <3>1. AtWork(u)
    BY <2>2 DEF AtWork, BeginTask, TypeOK
  <3>2. /\ run[RunOf[u]] = "open"
        /\ state[RunOf[u]][AssetOf[u]] = "running"
        /\ latest[AssetOf[u]] = u
    BY <3>1 DEF OwnedIsLatest
  <3>3. AssetOf[u] # AssetOf[t]
    <4> SUFFICES ASSUME AssetOf[u] = AssetOf[t] PROVE FALSE
      OBVIOUS
    <4>1. CASE RunOf[u] = RunOf[t]
      <5>1. t \in After[u] \/ u \in After[t]
        BY <2>2, <4>1, WindowsInTurn
      <5>2. t \notin After[u]
        BY <3>1 DEF AtWork, BegunInOrder, BeginTask, Ready
      <5>3. u \notin After[t]
        BY <3>1 DEF AtWork, BeginTask, Ready
      <5> QED BY <5>1, <5>2, <5>3
    <4>2. CASE RunOf[u] # RunOf[t]
      <5>1. {RunOf[u], RunOf[t]} \in Excluded
        BY <4>2 DEF Owned
      <5>2. run[RunOf[t]] = "open"
        BY DEF BeginTask, Ready
      <5> QED BY <5>1, <5>2, <3>2, <4>2 DEF OpenRunsMayOverlap
    <4> QED BY <4>1, <4>2
  <3> QED BY <3>2, <3>3 DEF BeginTask, TypeOK
<2> QED BY <2>1, <2>2
<1>6. BegunInOrder'
  BY DEF TypeOK, BegunInOrder, BeginTask, Ready, Enter, reader
<1>7. BegunInRun'
  BY DEF TypeOK, BegunInRun, BeginTask, Ready, Enter, reader
<1>8. OpenRunsMayOverlap'
  BY DEF TypeOK, OpenRunsMayOverlap, BeginTask, Ready, Enter, reader
<1>9. QueriesWait'
  BY DEF TypeOK, QueriesWait, AtWork, Closed, Idle, BeginTask, Ready, Enter, reader
<1>10. SeenIsAwaited'
  BY DEF TypeOK, SeenIsAwaited, BeginTask, Ready, Enter, reader
<1>11. LookedUpHasBegun'
  BY DEF TypeOK, LookedUpHasBegun, QueriesWait, Idle, BeginTask, Ready, Enter, reader
<1> QED BY <1>1, <1>2, <1>3, <1>4, <1>5, <1>6, <1>7, <1>8, <1>9, <1>10, <1>11 DEF IInv

LEMMA TaskToKeeps ==
  ASSUME IInv, NEW t \in Task, Skip(t) \/ Check(t)
  PROVE  IInv'
<1> USE WaitsAssumption DEF IInv
<1>1. TypeOK'
  BY DEF TypeOK, Skip, Check, TaskTo, registry, reader, Ready
<1>2. OutcomesFollow'
  BY DEF TypeOK, OutcomesFollow, Skip, Check, TaskTo, registry, reader, Ready
<1>3. EntriesAreLatest'
  BY SMTT(60) DEF TypeOK, EntriesAreLatest, AtWork, Skip, Check, TaskTo, registry, reader, Ready
<1>4. LatestStays'
  BY DEF TypeOK, LatestStays, Skip, Check, TaskTo, registry, reader, Ready
<1>5. OwnedIsLatest'
  BY DEF TypeOK, OwnedIsLatest, AtWork, Skip, Check, TaskTo, registry
<1>6. BegunInOrder'
  BY SMTT(60) DEF TypeOK, BegunInOrder, Skip, Check, TaskTo, registry, reader, Ready
<1>7. BegunInRun'
  BY DEF TypeOK, BegunInRun, Skip, Check, TaskTo, registry, reader, Ready
<1>8. OpenRunsMayOverlap'
  BY DEF TypeOK, OpenRunsMayOverlap, Skip, Check, TaskTo, registry, reader, Ready
<1>9. QueriesWait'
<2>1. task[t] \in {"waiting", "checking"}
  BY DEF Skip, Check
<2>2. query[t] = Idle /\ ~AtWork(t)
  BY <2>1 DEF QueriesWait, AtWork
<2>3. ASSUME NEW u \in Task, u # t PROVE task'[u] = task[u]
  BY <2>3 DEF Skip, Check, TaskTo, TypeOK
<2>4. UNCHANGED <<query, outcome>>
  BY DEF Skip, Check, TaskTo, registry, reader
<2> QED BY ZenonT(60), <2>2, <2>3, <2>4 DEF QueriesWait, AtWork, Closed, TypeOK
<1>10. SeenIsAwaited'
  BY DEF TypeOK, SeenIsAwaited, Skip, Check, TaskTo, registry, reader, Ready
<1>11. LookedUpHasBegun'
  BY DEF TypeOK, LookedUpHasBegun, QueriesWait, Idle, Skip, Check, TaskTo, registry, reader, Ready
<1> QED BY <1>1, <1>2, <1>3, <1>4, <1>5, <1>6, <1>7, <1>8, <1>9, <1>10, <1>11 DEF IInv

LEMMA FinishKeeps ==
  ASSUME IInv, NEW t \in Task, NEW result \in Outcome, Finish(t, result)
  PROVE  IInv'
<1> USE WaitsAssumption DEF IInv
<1>1. TypeOK'
  BY DEF TypeOK, Finish, Leave, Outcome, reader
<1>2. OutcomesFollow'
  BY DEF TypeOK, OutcomesFollow, Finish, Leave, Outcome, reader
<1>3. EntriesAreLatest'
<2> SUFFICES ASSUME NEW a \in Asset, inflight'[a] # NoTask
             PROVE  AtWork(inflight[a])' /\ latest'[a] = inflight'[a]
  BY DEF EntriesAreLatest
<2>1. inflight'[a] = inflight[a]
  BY DEF Finish, Leave, TypeOK
<2>2. AtWork(inflight[a]) /\ latest[a] = inflight[a] /\ inflight[a] \in Task
  BY <2>1 DEF EntriesAreLatest, TypeOK
<2>3. inflight[a] # t
  <3>1. inflight[a] = t => AssetOf[t] = a
    BY <2>2 DEF LatestStays
  <3> QED BY <3>1, <2>1 DEF Finish, Leave, TypeOK
<2> QED BY <2>1, <2>2, <2>3 DEF AtWork, Finish, TypeOK
<1>4. LatestStays'
  BY DEF TypeOK, LatestStays, Finish, Leave, Outcome, reader
<1>5. OwnedIsLatest'
<2> SUFFICES ASSUME NEW u \in Task, AtWork(u)', AssetOf[u] \in Owned
             PROVE  /\ run'[RunOf[u]] = "open"
                    /\ state'[RunOf[u]][AssetOf[u]] = "running"
                    /\ latest'[AssetOf[u]] = u
  BY DEF OwnedIsLatest
<2>1. u # t /\ AtWork(u)
  BY DEF AtWork, Finish, TypeOK, Outcome
<2>2. AtWork(t)
  BY DEF AtWork, Finish, OutcomesFollow
<2>3. AssetOf[u] = AssetOf[t] => FALSE
  BY <2>1, <2>2 DEF OwnedIsLatest
<2> QED BY <2>1, <2>3 DEF OwnedIsLatest, Finish, TypeOK
<1>6. BegunInOrder'
  BY DEF TypeOK, BegunInOrder, Finish, Leave, Outcome, reader
<1>7. BegunInRun'
  BY DEF TypeOK, BegunInRun, Finish, Leave, Outcome, reader
<1>8. OpenRunsMayOverlap'
  BY DEF TypeOK, OpenRunsMayOverlap, Finish, Leave, Outcome, reader
<1>9. QueriesWait'
  BY DEF TypeOK, QueriesWait, AtWork, Closed, Idle, Finish, Leave, Outcome, reader
<1>10. SeenIsAwaited'
<2>1. ASSUME NEW u \in Task, outcome[u] = "ok" PROVE outcome'[u] = "ok"
  BY <2>1 DEF Finish, OutcomesFollow, TypeOK
<2> QED BY <2>1 DEF SeenIsAwaited, Finish, reader, TypeOK
<1>11. LookedUpHasBegun'
  BY DEF TypeOK, LookedUpHasBegun, QueriesWait, Idle, Finish, Leave, Outcome, reader
<1> QED BY <1>1, <1>2, <1>3, <1>4, <1>5, <1>6, <1>7, <1>8, <1>9, <1>10, <1>11 DEF IInv

LEMMA PanicKeeps ==
  ASSUME IInv, NEW t \in Task, Panic(t)
  PROVE  IInv'
<1> USE WaitsAssumption DEF IInv
<1>1. TypeOK'
  BY DEF TypeOK, Panic, registry, Idle
<1>2. OutcomesFollow'
  BY DEF TypeOK, OutcomesFollow, Panic, registry, Idle
<1>3. EntriesAreLatest'
  BY DEF TypeOK, EntriesAreLatest, AtWork, Panic, registry, Idle
<1>4. LatestStays'
  BY DEF TypeOK, LatestStays, Panic, registry, Idle
<1>5. OwnedIsLatest'
  BY DEF TypeOK, OwnedIsLatest, AtWork, Panic, registry
<1>6. BegunInOrder'
  BY DEF TypeOK, BegunInOrder, Panic, registry, Idle
<1>7. BegunInRun'
  BY DEF TypeOK, BegunInRun, Panic, registry, Idle
<1>8. OpenRunsMayOverlap'
  BY DEF TypeOK, OpenRunsMayOverlap, Panic, registry, Idle
<1>9. QueriesWait'
  BY DEF TypeOK, QueriesWait, AtWork, Closed, Idle, Panic, registry
<1>10. SeenIsAwaited'
  BY DEF TypeOK, SeenIsAwaited, Panic, registry, Idle
<1>11. LookedUpHasBegun'
  BY DEF TypeOK, LookedUpHasBegun, QueriesWait, Idle, Panic, registry
<1> QED BY <1>1, <1>2, <1>3, <1>4, <1>5, <1>6, <1>7, <1>8, <1>9, <1>10, <1>11 DEF IInv

LEMMA QueryKeeps ==
  ASSUME IInv, NEW t \in Task, NEW references \in SUBSET Asset, Query(t, references)
  PROVE  IInv'
<1> USE WaitsAssumption DEF IInv
<1>1. TypeOK'
  BY DEF TypeOK, Query, QueryTo, registry, Idle
<1>2. OutcomesFollow'
  BY DEF TypeOK, OutcomesFollow, Query, QueryTo, registry, Idle
<1>3. EntriesAreLatest'
  BY DEF TypeOK, EntriesAreLatest, AtWork, Query, QueryTo, registry, Idle
<1>4. LatestStays'
  BY DEF TypeOK, LatestStays, Query, QueryTo, registry, Idle
<1>5. OwnedIsLatest'
  BY DEF TypeOK, OwnedIsLatest, AtWork, Query, QueryTo, registry, Idle
<1>6. BegunInOrder'
  BY DEF TypeOK, BegunInOrder, Query, QueryTo, registry, Idle
<1>7. BegunInRun'
  BY DEF TypeOK, BegunInRun, Query, QueryTo, registry, Idle
<1>8. OpenRunsMayOverlap'
  BY DEF TypeOK, OpenRunsMayOverlap, Query, QueryTo, registry, Idle
<1>9. QueriesWait'
  BY DEF TypeOK, QueriesWait, AtWork, Closed, Idle, Query, QueryTo, registry
<1>10. SeenIsAwaited'
  BY DEF TypeOK, SeenIsAwaited, Query, QueryTo, registry, Idle
<1>11. LookedUpHasBegun'
  BY DEF TypeOK, LookedUpHasBegun, QueriesWait, Idle, Query, QueryTo, registry
<1> QED BY <1>1, <1>2, <1>3, <1>4, <1>5, <1>6, <1>7, <1>8, <1>9, <1>10, <1>11 DEF IInv

LEMMA AnswerKeeps ==
  ASSUME IInv, NEW t \in Task, Answer(t)
  PROVE  IInv'
<1> USE WaitsAssumption DEF IInv
<1>1. TypeOK'
  BY DEF TypeOK, Answer, QueryTo, registry, Idle
<1>2. OutcomesFollow'
  BY DEF TypeOK, OutcomesFollow, Answer, QueryTo, registry, Idle
<1>3. EntriesAreLatest'
  BY DEF TypeOK, EntriesAreLatest, AtWork, Answer, QueryTo, registry, Idle
<1>4. LatestStays'
  BY DEF TypeOK, LatestStays, Answer, QueryTo, registry, Idle
<1>5. OwnedIsLatest'
  BY DEF TypeOK, OwnedIsLatest, AtWork, Answer, QueryTo, registry, Idle
<1>6. BegunInOrder'
  BY DEF TypeOK, BegunInOrder, Answer, QueryTo, registry, Idle
<1>7. BegunInRun'
  BY DEF TypeOK, BegunInRun, Answer, QueryTo, registry, Idle
<1>8. OpenRunsMayOverlap'
  BY DEF TypeOK, OpenRunsMayOverlap, Answer, QueryTo, registry, Idle
<1>9. QueriesWait'
  BY DEF TypeOK, QueriesWait, AtWork, Closed, Idle, Answer, QueryTo, registry
<1>10. SeenIsAwaited'
  BY DEF TypeOK, SeenIsAwaited, Answer, QueryTo, registry, Idle
<1>11. LookedUpHasBegun'
  BY DEF TypeOK, LookedUpHasBegun, QueriesWait, Idle, Answer, QueryTo, registry
<1> QED BY <1>1, <1>2, <1>3, <1>4, <1>5, <1>6, <1>7, <1>8, <1>9, <1>10, <1>11 DEF IInv

LEMMA LookupKeeps ==
  ASSUME IInv, NEW t \in Task, NEW a \in Asset, Lookup(t, a), ~Refuses(t, a)
  PROVE  IInv'
<1> USE WaitsAssumption DEF IInv
<1>a. /\ query[t].at = "looking" /\ a \in query[t].left
      /\ seen' = [seen EXCEPT ![t] = @ \cup Builders(a)]
      /\ UNCHANGED <<run, state, inflight, outcome, task, cancelled, latest, queries, panics>>
  BY DEF Lookup, registry
<1>b. query[t] \in [at : {"none", "looking", "waiting", "reading"}, refs : SUBSET Asset,
                    left : SUBSET Asset, on : Task \cup {NoTask}]
  BY DEF TypeOK
<1>c. /\ query' \in [Task -> [at : {"none", "looking", "waiting", "reading"}, refs : SUBSET Asset,
                              left : SUBSET Asset, on : Task \cup {NoTask}]]
      /\ \A u \in Task : u # t => query'[u] = query[u]
      /\ query'[t].refs = query[t].refs /\ query'[t].left = query[t].left \ {a}
      /\ \/ inflight[a] = NoTask /\ query'[t].at = "looking" /\ query'[t].on = query[t].on
         \/ inflight[a] # NoTask /\ query'[t].at = "waiting" /\ query'[t].on = inflight[a]
  <2>1. inflight[a] \in Task \cup {NoTask}
    BY DEF TypeOK
  <2>2. CASE inflight[a] = NoTask
    <3>1. query' = [query EXCEPT ![t] = [query[t] EXCEPT !.left = @ \ {a}]]
      BY <2>2 DEF Lookup, QueryTo
    <3> QED BY <3>1, <2>2, <1>a, <1>b DEF TypeOK
  <2>3. CASE inflight[a] # NoTask
    <3>1. query' = [query EXCEPT ![t] = [query[t] EXCEPT !.at = "waiting", !.left = @ \ {a},
                                                         !.on = inflight[a]]]
      BY <2>3 DEF Lookup, QueryTo
    <3> QED BY <3>1, <2>1, <2>3, <1>a, <1>b DEF TypeOK
  <2> QED BY <2>2, <2>3
<1>d. query[t] # Idle /\ task[t] = "running"
  BY <1>a DEF QueriesWait, Idle
<1>1. TypeOK'
<2>1. Builders(a) \subseteq Task
  BY DEF Builders
<2> QED BY <1>a, <1>c, <2>1 DEF TypeOK
<1>2. OutcomesFollow'
  BY DEF TypeOK, OutcomesFollow, Lookup, QueryTo, registry, Idle
<1>3. EntriesAreLatest'
  BY DEF TypeOK, EntriesAreLatest, AtWork, Lookup, QueryTo, registry, Idle
<1>4. LatestStays'
  BY DEF TypeOK, LatestStays, Lookup, QueryTo, registry, Idle
<1>5. OwnedIsLatest'
  BY DEF OwnedIsLatest, AtWork, Lookup, registry
<1>6. BegunInOrder'
  BY DEF TypeOK, BegunInOrder, Lookup, QueryTo, registry, Idle
<1>7. BegunInRun'
  BY DEF TypeOK, BegunInRun, Lookup, QueryTo, registry, Idle
<1>8. OpenRunsMayOverlap'
  BY DEF TypeOK, OpenRunsMayOverlap, Lookup, QueryTo, registry, Idle
<1>9. QueriesWait'
<2> SUFFICES ASSUME NEW u \in Task
             PROVE  /\ query'[u] # Idle => task'[u] = "running"
                    /\ query'[u].on # NoTask => AtWork(query[u].on)' \/ Closed(query[u].on)'
                    /\ query'[u].at = "reading" => query'[u].left = {}
  BY DEF QueriesWait
<2>1. CASE u # t
  BY <2>1, <1>a, <1>c DEF QueriesWait, AtWork, Closed
<2>2. CASE u = t
  <3>1. query'[u].at # "reading" /\ task'[u] = "running"
    BY <2>2, <1>a, <1>c, <1>d
  <3>2. query'[u].on # NoTask => AtWork(query[u].on)' \/ Closed(query[u].on)'
    BY <2>2, <1>a, <1>c DEF QueriesWait, EntriesAreLatest, AtWork, Closed, TypeOK
  <3> QED BY <3>1, <3>2
<2> QED BY <2>1, <2>2
<1>10. SeenIsAwaited'
<2>1. ASSUME NEW u \in Builders(a) PROVE inflight[a] = u /\ u \in Task
  <3>1. u \in Task /\ AtWork(u) /\ AssetOf[u] = a /\ (a \in Owned \/ latest[a] = u)
    BY DEF Builders, AtWork
  <3>2. latest[a] = u
    BY <3>1 DEF OwnedIsLatest
  <3> QED BY <3>1, <3>2 DEF LatestStays, AtWork
<2> SUFFICES ASSUME NEW v \in Task, NEW u \in seen'[v]
             PROVE  outcome'[u] = "ok" \/ (query'[v].at = "waiting" /\ query'[v].on = u)
  BY DEF SeenIsAwaited
<2>2. CASE v # t
  BY <2>2, <1>a, <1>c DEF SeenIsAwaited, TypeOK
<2>3. CASE v = t
  <3>1. u \in seen[t] \/ u \in Builders(a)
    BY <2>3, <1>a DEF TypeOK
  <3>2. CASE u \in seen[t]
    BY <3>2, <1>a DEF SeenIsAwaited
  <3>3. CASE u \in Builders(a)
    BY <3>3, <2>1, <2>3, <1>c
  <3> QED BY <3>1, <3>2, <3>3
<2> QED BY <2>2, <2>3
<1>11. LookedUpHasBegun'
<2> SUFFICES ASSUME NEW u \in Task, RunOf[u] \notin Planned,
                    NEW x \in query'[u].refs \ query'[u].left
             PROVE  state[RunOf[u]][x] # "pending"
  BY <1>a DEF LookedUpHasBegun
<2>1. CASE u # t \/ x # a
  BY <2>1, <1>c DEF LookedUpHasBegun
<2>2. CASE u = t /\ x = a
  BY <2>2 DEF Refuses, PendingInRun
<2> QED BY <2>1, <2>2
<1> QED BY <1>1, <1>2, <1>3, <1>4, <1>5, <1>6, <1>7, <1>8, <1>9, <1>10, <1>11 DEF IInv

LEMMA WaitSucceedsKeeps ==
  ASSUME IInv, NEW t \in Task, WaitSucceeds(t)
  PROVE  IInv'
<1> USE WaitsAssumption DEF IInv
<1>a. /\ query[t].at = "waiting"
      /\ query' = [query EXCEPT ![t] = [query[t] EXCEPT !.at = "looking", !.on = NoTask]]
      /\ UNCHANGED <<run, state, inflight, outcome, task, cancelled, seen, latest, queries, panics>>
  BY DEF WaitSucceeds, QueryTo, registry
<1>b. query[t] \in [at : {"none", "looking", "waiting", "reading"}, refs : SUBSET Asset,
                    left : SUBSET Asset, on : Task \cup {NoTask}]
  BY DEF TypeOK
<1>c. /\ query' \in [Task -> [at : {"none", "looking", "waiting", "reading"}, refs : SUBSET Asset,
                              left : SUBSET Asset, on : Task \cup {NoTask}]]
      /\ \A u \in Task : u # t => query'[u] = query[u]
      /\ query'[t].refs = query[t].refs /\ query'[t].left = query[t].left
      /\ query'[t].at = "looking" /\ query'[t].on = NoTask
  BY <1>a, <1>b DEF TypeOK
<1>d. query[t] # Idle /\ task[t] = "running"
  BY <1>a DEF QueriesWait, Idle
<1>1. TypeOK'
  BY <1>a, <1>c DEF TypeOK
<1>2. OutcomesFollow'
  BY DEF TypeOK, OutcomesFollow, WaitSucceeds, QueryTo, registry, Idle, Finished
<1>3. EntriesAreLatest'
  BY DEF TypeOK, EntriesAreLatest, AtWork, WaitSucceeds, QueryTo, registry, Idle, Finished
<1>4. LatestStays'
  BY DEF TypeOK, LatestStays, WaitSucceeds, QueryTo, registry, Idle, Finished
<1>5. OwnedIsLatest'
  BY DEF TypeOK, OwnedIsLatest, AtWork, WaitSucceeds, QueryTo, registry, Idle, Finished
<1>6. BegunInOrder'
  BY DEF TypeOK, BegunInOrder, WaitSucceeds, QueryTo, registry, Idle, Finished
<1>7. BegunInRun'
  BY DEF TypeOK, BegunInRun, WaitSucceeds, QueryTo, registry, Idle, Finished
<1>8. OpenRunsMayOverlap'
  BY DEF TypeOK, OpenRunsMayOverlap, WaitSucceeds, QueryTo, registry, Idle, Finished
<1>9. QueriesWait'
<2> SUFFICES ASSUME NEW u \in Task
             PROVE  /\ query'[u] # Idle => task'[u] = "running"
                    /\ query'[u].on # NoTask => AtWork(query[u].on)' \/ Closed(query[u].on)'
                    /\ query'[u].at = "reading" => query'[u].left = {}
  BY DEF QueriesWait
<2>1. CASE u # t
  BY <2>1, <1>a, <1>c DEF QueriesWait, AtWork, Closed
<2>2. CASE u = t
  BY <2>2, <1>a, <1>c, <1>d DEF QueriesWait, AtWork, Closed, WaitSucceeds
<2> QED BY <2>1, <2>2
<1>10. SeenIsAwaited'
  BY DEF TypeOK, SeenIsAwaited, WaitSucceeds, QueryTo, registry, Idle, Finished
<1>11. LookedUpHasBegun'
  BY DEF TypeOK, LookedUpHasBegun, QueriesWait, Idle, WaitSucceeds, QueryTo, registry, Finished
<1> QED BY <1>1, <1>2, <1>3, <1>4, <1>5, <1>6, <1>7, <1>8, <1>9, <1>10, <1>11 DEF IInv

LEMMA ReadKeeps ==
  ASSUME IInv, NEW t \in Task, Read(t)
  PROVE  IInv'
<1> USE WaitsAssumption DEF IInv
<1>a. /\ query[t].at = "looking"
      /\ query' = [query EXCEPT ![t] = [query[t] EXCEPT !.at = "reading"]]
      /\ UNCHANGED <<run, state, inflight, outcome, task, cancelled, seen, latest, queries, panics>>
  BY DEF Read, QueryTo, registry
<1>b. query[t] \in [at : {"none", "looking", "waiting", "reading"}, refs : SUBSET Asset,
                    left : SUBSET Asset, on : Task \cup {NoTask}]
  BY DEF TypeOK
<1>c. /\ query' \in [Task -> [at : {"none", "looking", "waiting", "reading"}, refs : SUBSET Asset,
                              left : SUBSET Asset, on : Task \cup {NoTask}]]
      /\ \A u \in Task : u # t => query'[u] = query[u]
      /\ query'[t].refs = query[t].refs /\ query'[t].left = query[t].left
      /\ query'[t].at = "reading" /\ query'[t].on = query[t].on
  BY <1>a, <1>b DEF TypeOK
<1>d. query[t] # Idle /\ task[t] = "running"
  BY <1>a DEF QueriesWait, Idle
<1>1. TypeOK'
  BY <1>a, <1>c DEF TypeOK
<1>2. OutcomesFollow'
  BY DEF TypeOK, OutcomesFollow, Read, QueryTo, registry, Idle
<1>3. EntriesAreLatest'
  BY DEF TypeOK, EntriesAreLatest, AtWork, Read, QueryTo, registry, Idle
<1>4. LatestStays'
  BY DEF TypeOK, LatestStays, Read, QueryTo, registry, Idle
<1>5. OwnedIsLatest'
  BY DEF TypeOK, OwnedIsLatest, AtWork, Read, QueryTo, registry, Idle
<1>6. BegunInOrder'
  BY DEF TypeOK, BegunInOrder, Read, QueryTo, registry, Idle
<1>7. BegunInRun'
  BY DEF TypeOK, BegunInRun, Read, QueryTo, registry, Idle
<1>8. OpenRunsMayOverlap'
  BY DEF TypeOK, OpenRunsMayOverlap, Read, QueryTo, registry, Idle
<1>9. QueriesWait'
<2> SUFFICES ASSUME NEW u \in Task
             PROVE  /\ query'[u] # Idle => task'[u] = "running"
                    /\ query'[u].on # NoTask => AtWork(query[u].on)' \/ Closed(query[u].on)'
                    /\ query'[u].at = "reading" => query'[u].left = {}
  BY DEF QueriesWait
<2>1. CASE u # t
  BY <2>1, <1>a, <1>c DEF QueriesWait, AtWork, Closed
<2>2. CASE u = t
  BY <2>2, <1>a, <1>c, <1>d DEF QueriesWait, AtWork, Closed, Read
<2> QED BY <2>1, <2>2
<1>10. SeenIsAwaited'
  BY DEF TypeOK, SeenIsAwaited, Read, QueryTo, registry, Idle
<1>11. LookedUpHasBegun'
  BY DEF TypeOK, LookedUpHasBegun, QueriesWait, Idle, Read, QueryTo, registry
<1> QED BY <1>1, <1>2, <1>3, <1>4, <1>5, <1>6, <1>7, <1>8, <1>9, <1>10, <1>11 DEF IInv

LEMMA StutterKeeps ==
  ASSUME IInv, UNCHANGED vars
  PROVE  IInv'
<1> USE WaitsAssumption DEF IInv
<1>1. TypeOK'
  BY DEF TypeOK, vars, registry, reader
<1>2. OutcomesFollow'
  BY DEF TypeOK, OutcomesFollow, vars, registry, reader
<1>3. EntriesAreLatest'
  BY DEF TypeOK, EntriesAreLatest, AtWork, vars, registry, reader
<1>4. LatestStays'
  BY DEF TypeOK, LatestStays, vars, registry, reader
<1>5. OwnedIsLatest'
  BY DEF TypeOK, OwnedIsLatest, AtWork, vars, registry, reader
<1>6. BegunInOrder'
  BY DEF TypeOK, BegunInOrder, vars, registry, reader
<1>7. BegunInRun'
  BY DEF TypeOK, BegunInRun, vars, registry, reader
<1>8. OpenRunsMayOverlap'
  BY DEF TypeOK, OpenRunsMayOverlap, vars, registry, reader
<1>9. QueriesWait'
  BY DEF TypeOK, QueriesWait, AtWork, Closed, Idle, vars, registry, reader
<1>10. SeenIsAwaited'
  BY DEF TypeOK, SeenIsAwaited, vars, registry, reader
<1>11. LookedUpHasBegun'
  BY DEF TypeOK, LookedUpHasBegun, QueriesWait, Idle, vars, registry, reader
<1> QED BY <1>1, <1>2, <1>3, <1>4, <1>5, <1>6, <1>7, <1>8, <1>9, <1>10, <1>11 DEF IInv
-----------------------------------------------------------------------------
LEMMA InitHolds == Init => IInv
  BY WaitsAssumption DEF Init, IInv, TypeOK, OutcomesFollow, EntriesAreLatest, LatestStays,
     OwnedIsLatest, BegunInOrder, BegunInRun, OpenRunsMayOverlap, QueriesWait, SeenIsAwaited,
     LookedUpHasBegun, AtWork, Idle, Outcome

LEMMA StepKeeps == IInv /\ [Next]_vars => IInv'
<1> SUFFICES ASSUME IInv, [Next]_vars PROVE IInv'
  OBVIOUS
<1>1. ASSUME NEW t \in Task, QueryStep(t) PROVE IInv'
  <2>1. ASSUME NEW a \in Asset, Lookup(t, a) PROVE IInv'
    <3>1. CASE Refuses(t, a)
      BY <2>1, <3>1, AnswerKeeps DEF Lookup
    <3>2. CASE ~Refuses(t, a)
      BY <2>1, <3>2, LookupKeeps
    <3> QED BY <3>1, <3>2
  <2>2. CASE WaitFails(t) \/ WaitTimesOut(t) \/ ReadEnds(t)
    BY <2>2, AnswerKeeps DEF WaitFails, WaitTimesOut, ReadEnds
  <2> QED BY <1>1, <2>1, <2>2, WaitSucceedsKeeps, ReadKeeps DEF QueryStep
<1>2. ASSUME NEW t \in Task, Proceed(t) PROVE IInv'
  BY <1>1, <1>2, BeginTaskKeeps, TaskToKeeps, FinishKeeps DEF Proceed
<1>3. CASE \E r \in Run : BeginRun(r) \/ Cancel(r) \/ End(r)
  BY <1>3, BeginRunKeeps, CancelKeeps, EndKeeps
<1>4. CASE \E t \in Task : Proceed(t) \/ Panic(t)
  BY <1>4, <1>2, PanicKeeps
<1>5. CASE \E t \in Task, references \in SUBSET Asset : Query(t, references)
  BY <1>5, QueryKeeps
<1>6. CASE UNCHANGED vars
  BY <1>6, StutterKeeps
<1> QED BY <1>3, <1>4, <1>5, <1>6 DEF Next

(* The table, the tasks, the runs and the queries agree in every           *)
(* reachable state.                                                        *)
THEOREM Invariant == Spec => []IInv
  BY InitHolds, StepKeeps, PTL DEF Spec

THEOREM TypeCorrect == Spec => []TypeOK
<1>1. IInv => TypeOK
  BY DEF IInv
<1> QED BY <1>1, Invariant, PTL

(* However many runs materialize an asset, the task that began last is in  *)
(* the table until it is closed.                                           *)
THEOREM LatestCorrect == Spec => []LatestIsVisible
<1>1. IInv => LatestIsVisible
  BY WaitsAssumption DEF IInv, LatestIsVisible, LatestStays, EntriesAreLatest, AtWork, Closed
<1> QED BY <1>1, Invariant, PTL

(* No query executes before all that was at work on its references when it *)
(* looked has succeeded.                                                   *)
THEOREM ReadsCorrect == Spec => []ReadsAreAwaited
<1>1. IInv => ReadsAreAwaited
  BY DEF IInv, ReadsAreAwaited, SeenIsAwaited
<1> QED BY <1>1, Invariant, PTL

(* A query on an owned asset waits for a task that is closed, or whose run *)
(* is still there to close it.                                             *)
THEOREM WaitsCorrect == Spec => []WaitedRunIsOpen
<1>1. IInv => WaitedRunIsOpen
  BY WaitsAssumption DEF IInv, WaitedRunIsOpen, QueriesWait, OwnedIsLatest, TypeOK
<1> QED BY <1>1, Invariant, PTL

(* In a run without a plan no query reads what the run has yet to build.   *)
THEOREM LaterCorrect == Spec => []LaterIsRefused
<1>1. IInv => LaterIsRefused
  BY DEF IInv, LaterIsRefused, ReadsPending, QueriesWait, LookedUpHasBegun
<1> QED BY <1>1, Invariant, PTL
=============================================================================
