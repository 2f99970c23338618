------------------------- MODULE DuckSession_proofs -------------------------
(***************************************************************************)
(* Proofs about the shared DuckDB sessions, for any set of tasks, lessees, *)
(* files and schemas.                                                      *)
(***************************************************************************)
EXTENDS DuckSessionInvariant, FiniteSetTheorems, TLAPS

LEMMA NoTaskIsNone == NoTask \notin Task /\ NoPath \notin Path /\ NoSchema \notin Schema
BY SessionAssumption DEF SessionAssumption

LEMMA UsersFinite ==
  ASSUME NEW s PROVE IsFiniteSet(Users(s)) /\ Cardinality(Users(s)) \in Nat
<1>1. IsFiniteSet(Task) /\ Users(s) \subseteq Task
  BY SessionAssumption DEF SessionAssumption, Users
<1>2. QED
  BY <1>1, FS_Subset, FS_CardinalityType

LEMMA InitInvariant == Init => IInv
<1> SUFFICES ASSUME Init PROVE IInv
  OBVIOUS
<1> USE NoTaskIsNone
<1>1. /\ \A t \in Task : task[t] = NewTask /\ session[t] = NoSession
      /\ \A c \in Task \cup Lessee : lease[c] = {}
      /\ \A p \in Path : sessions[p] = NoTask
  BY DEF Init, Coordinator!Init
<1>2. \A s : Users(s) = {} /\ Closers(s) = {}
  BY <1>1 DEF Users, Closers, NewTask, Referencing, Connected, Ending
<1>3. TypeOK
  <2>1. NewTask \in TaskRow /\ NoSession \in SessionRow
    BY DEF NewTask, TaskRow, Where, Result, NoSession, SessionRow, InitError
  <2>2. QED
    BY <2>1 DEF Init, Coordinator!Init, TypeOK
<1>4. AtSession /\ Initializing /\ Mapped /\ ConnectedIsReady /\ WritesRemembered
  BY <1>1 DEF AtSession, Initializing, Mapped, ConnectedIsReady, WritesRemembered,
              NewTask, Connected
<1>5. Counted
  BY <1>1, <1>2, FS_EmptySet DEF Counted, NoSession
<1>6. SessionStates /\ SchemaLocks /\ RememberedSchemasExist
  BY <1>1, <1>2 DEF SessionStates, SchemaLocks, RememberedSchemasExist, NoSession, NewTask
<1>7. Closing /\ Coordinator!Exclusive
  BY <1>1, <1>2 DEF Closing, Coordinator!Exclusive, NoSession, NewTask, Ending
<1>8. QED
  BY <1>3, <1>4, <1>5, <1>6, <1>7 DEF IInv

(***************************************************************************)
(* The types of the parts, one by one.                                     *)
(***************************************************************************)
LEMMA TaskType ==
  ASSUME TypeOK, NEW t \in Task
  PROVE  /\ task[t] \in TaskRow
         /\ task[t].at \in Where
         /\ task[t].on \in Task \cup {NoTask}
         /\ task[t].schema \in Schema \cup {NoSchema}
         /\ task[t].attempt \in Nat
         /\ task[t].cancelled \in BOOLEAN
         /\ task[t].result \in Result
BY DEF TypeOK, TaskRow

LEMMA SessionType ==
  ASSUME TypeOK, NEW s \in Task
  PROVE  /\ session[s] \in SessionRow
         /\ session[s].path \in Path \cup {NoPath}
         /\ session[s].refs \in Nat
         /\ session[s].ready \in BOOLEAN
         /\ session[s].initErr \in InitError
         /\ session[s].db \in {"none", "open", "closed"}
         /\ session[s].schemas \in SUBSET Schema
         /\ session[s].schemaMu \in Task \cup {NoTask}
BY DEF TypeOK, SessionRow

\* Users and closers are a matter of what tasks are at, and where.
LEMMA SameUsers ==
  ASSUME \A u \in Task :
           /\ task'[u].on = task[u].on
           /\ task'[u].at \in Referencing <=> task[u].at \in Referencing
  PROVE  \A s : Users(s)' = Users(s)
BY DEF Users

LEMMA SameClosers ==
  ASSUME \A u \in Task :
           /\ task'[u].on = task[u].on
           /\ task'[u].at \in Ending <=> task[u].at \in Ending
  PROVE  \A s : Closers(s)' = Closers(s)
BY DEF Closers

\* A task with a reference is at a session that is not being closed.
LEMMA AtItsSession ==
  ASSUME IInv, NEW t \in Task, task[t].at \notin {"new", "done"}
  PROVE  /\ task[t].on \in Task
         /\ On(t) = session[task[t].on]
         /\ On(t).path \in Path
         /\ task[t].at \in Referencing => t \in Users(task[t].on)
BY DEF IInv, AtSession, On, Users

(***************************************************************************)
(* Moves of one task that keeps its reference, past the initialization of  *)
(* its session: what they preserve apart from schemas.                     *)
(***************************************************************************)
LEMMA Move ==
  ASSUME IInv, NEW t \in Task,
         \A u \in Task : u # t => task'[u] = task[u],
         task'[t].on = task[t].on,
         \/ task'[t].at = task[t].at
         \/ /\ task'[t].at \in Referencing \ {"initializing", "opening"}
            /\ task[t].at \in Referencing \ {"initializing", "opening"},
         task'[t].at \in Connected =>
           session[task[t].on].ready /\ session[task[t].on].initErr = "none",
         \A s \in Task :
           /\ session'[s].path = session[s].path
           /\ session'[s].refs = session[s].refs
           /\ session'[s].ready = session[s].ready
           /\ session'[s].initErr = session[s].initErr
           /\ session'[s].db = session[s].db
           /\ session[s].db = "none" => session'[s].schemas = {},
         UNCHANGED <<sessions, wants, lease>>
  PROVE  /\ AtSession' /\ Initializing' /\ Counted' /\ Mapped' /\ SessionStates'
         /\ Closing' /\ ConnectedIsReady' /\ Coordinator!Exclusive'
<1> USE NoTaskIsNone
<1>1. \A u \in Task :
        /\ task'[u].on = task[u].on
        /\ task'[u].at \in Referencing <=> task[u].at \in Referencing
        /\ task'[u].at \in Ending <=> task[u].at \in Ending
        /\ task'[u].at \in {"new", "done"} <=> task[u].at \in {"new", "done"}
        /\ task'[u].at = "new" <=> task[u].at = "new"
        /\ task'[u].at = "initializing" <=> task[u].at = "initializing"
        /\ task'[u].at = "opening" <=> task[u].at = "opening"
        /\ task'[u].at = "closing" <=> task[u].at = "closing"
        /\ task'[u].at = "unleasing" <=> task[u].at = "unleasing"
  BY DEF Referencing, Connected, Ending
<1>2. \A s : Users(s)' = Users(s) /\ Closers(s)' = Closers(s)
  BY <1>1, SameUsers, SameClosers
<1>3. AtSession' /\ Initializing'
  BY <1>1 DEF IInv, AtSession, Initializing, On
<1>4. Counted' /\ Mapped'
  BY <1>2 DEF IInv, Counted, Mapped, TypeOK
<1>5. SessionStates'
  BY <1>1, <1>2 DEF IInv, SessionStates
<1>6. Closing'
  <2>1. \A r \in Task : \A u \in Closers(r) : task'[u].at = "unleasing" <=> task[u].at = "unleasing"
    BY <1>1 DEF Closers
  <2>2. \A r \in Task : \A u \in Closers(r) : task'[u].at = "closing" <=> task[u].at = "closing"
    BY <1>1 DEF Closers
  <2>3. QED
    BY <1>2, <2>1, <2>2 DEF IInv, Closing
<1>7. ConnectedIsReady'
  <2>1. ASSUME NEW u \in Task, task'[u].at \in Connected
        PROVE  session'[task'[u].on].ready /\ session'[task'[u].on].initErr = "none"
    <3>1. task[u].on \in Task
      BY <1>1, <2>1 DEF IInv, AtSession, Connected
    <3>2. QED
      BY <1>1, <2>1, <3>1 DEF IInv, ConnectedIsReady, On
  <2>2. QED
    BY <2>1 DEF ConnectedIsReady, On
<1>8. Coordinator!Exclusive'
  BY DEF IInv, Coordinator!Exclusive
<1>9. QED
  BY <1>3, <1>4, <1>5, <1>6, <1>7, <1>8

(***************************************************************************)
(* Moves that leave the sessions alone.                                    *)
(***************************************************************************)
LEMMA LocalMove ==
  ASSUME IInv, NEW t \in Task, NEW row \in TaskRow,
         task' = [task EXCEPT ![t] = row],
         UNCHANGED <<sessions, session, wants, lease, catalog>>,
         row.on = task[t].on,
         row.schema = task[t].schema,
         \/ row.at = task[t].at
         \/ /\ row.at \in Referencing \ {"initializing", "opening", "creating"}
            /\ task[t].at \in Referencing \ {"initializing", "opening", "creating"},
         row.at \in Connected =>
           session[task[t].on].ready /\ session[task[t].on].initErr = "none",
         row.at \in {"schema", "creating"} => row.schema # NoSchema,
         row.at = "writing" /\ row.schema # NoSchema =>
           row.schema \in session[task[t].on].schemas
  PROVE  IInv'
<1> USE NoTaskIsNone
<1>1. \A u \in Task : task'[u] = IF u = t THEN row ELSE task[u]
  BY DEF IInv, TypeOK
<1>2. TypeOK'
  BY <1>1 DEF IInv, TypeOK
<1>3. \A s \in Task : session[s].db = "none" => session[s].schemas = {}
  BY DEF IInv, SessionStates
<1>4. /\ AtSession' /\ Initializing' /\ Counted' /\ Mapped' /\ SessionStates'
      /\ Closing' /\ ConnectedIsReady' /\ Coordinator!Exclusive'
  BY <1>1, <1>3, Move
<1>5. WritesRemembered'
  BY <1>1 DEF IInv, WritesRemembered, On
<1>6. SchemaLocks' /\ RememberedSchemasExist'
  BY <1>1 DEF IInv, SchemaLocks, RememberedSchemasExist, On
<1>7. QED
  BY <1>2, <1>4, <1>5, <1>6 DEF IInv

(***************************************************************************)
(* What a failing attempt makes of its task.                               *)
(***************************************************************************)
LEMMA AttemptEnds ==
  ASSUME TypeOK, NEW t \in Task, NEW err \in Result, AttemptFails(t, err)
  PROVE  \E row \in TaskRow :
           /\ task' = [task EXCEPT ![t] = row]
           /\ row.on = task[t].on /\ row.schema = task[t].schema
           /\ row.at \in {"retrying", "leaving"}
<1> USE TaskType
<1>1. CASE task' = [task EXCEPT ![t].at = "retrying"]
  <2> DEFINE row == [task[t] EXCEPT !.at = "retrying"]
  <2>1. row \in TaskRow /\ row.on = task[t].on /\ row.schema = task[t].schema
        /\ row.at = "retrying"
    BY DEF TaskRow, Where
  <2>2. task' = [task EXCEPT ![t] = row]
    BY <1>1
  <2>3. QED
    BY <2>1, <2>2
<1>2. CASE Fails(t, err)
  <2> DEFINE row == [task[t] EXCEPT !.at = "leaving", !.result = err]
  <2>1. row \in TaskRow /\ row.on = task[t].on /\ row.schema = task[t].schema
        /\ row.at = "leaving"
    BY DEF TaskRow, Where
  <2>2. task' = [task EXCEPT ![t] = row]
    BY <1>2 DEF Fails
  <2>3. QED
    BY <2>1, <2>2
<1>3. QED
  BY <1>1, <1>2 DEF AttemptFails

LEMMA LocalSteps ==
  ASSUME IInv, NEW t \in Task, NEW err \in Result,
         \/ Joined(t) \/ JoinFails(t, err)
         \/ Connect(t) \/ ConnectFails(t, err) \/ SchemaKnown(t)
         \/ Write(t) \/ WriteFails(t, err)
         \/ Retry(t) \/ RetryCancelled(t) \/ Cancel(t)
  PROVE  IInv'
<1> USE NoTaskIsNone
<1>1. /\ TypeOK /\ task[t] \in TaskRow /\ task[t].attempt \in Nat
      /\ task[t].on \in Task \cup {NoTask}
  BY TaskType DEF IInv
<1>2. task[t].at \in Connected =>
        session[task[t].on].ready /\ session[task[t].on].initErr = "none"
  BY DEF IInv, ConnectedIsReady, On
<1>3. CASE Joined(t)
  <2> DEFINE row == [task[t] EXCEPT !.at = "connecting"]
  <2>1. row \in TaskRow /\ task' = [task EXCEPT ![t] = row]
    BY <1>1, <1>3 DEF Joined, Goes, TaskRow, Where
  <2>2. /\ row.on = task[t].on /\ row.schema = task[t].schema
        /\ row.at = "connecting" /\ task[t].at = "joining"
        /\ session[task[t].on].ready /\ session[task[t].on].initErr = "none"
        /\ UNCHANGED <<sessions, session, wants, lease, catalog>>
    BY <1>1, <1>3 DEF Joined, Goes, TaskRow, On
  <2> HIDE DEF row
  <2>3. QED
    BY <2>1, <2>2, LocalMove DEF Referencing, Connected
<1>4. CASE JoinFails(t, err)
  <2> DEFINE row == [task[t] EXCEPT !.at = "leaving", !.result = err]
  <2>1. row \in TaskRow /\ task' = [task EXCEPT ![t] = row]
    BY <1>1, <1>4 DEF JoinFails, Fails, TaskRow, Where
  <2>2. /\ row.on = task[t].on /\ row.schema = task[t].schema
        /\ row.at = "leaving" /\ task[t].at = "joining"
        /\ UNCHANGED <<sessions, session, wants, lease, catalog>>
    BY <1>1, <1>4 DEF JoinFails, TaskRow
  <2> HIDE DEF row
  <2>3. QED
    BY <2>1, <2>2, LocalMove DEF Referencing, Connected
<1>5. CASE Connect(t)
  <2> DEFINE to == IF task[t].schema = NoSchema THEN "writing" ELSE "schema"
  <2> DEFINE row == [task[t] EXCEPT !.at = to]
  <2>1. row \in TaskRow /\ task' = [task EXCEPT ![t] = row]
    BY <1>1, <1>5 DEF Connect, Goes, TaskRow, Where
  <2>2. /\ row.on = task[t].on /\ row.schema = task[t].schema
        /\ row.at \in {"writing", "schema"} /\ task[t].at = "connecting"
        /\ row.at = "writing" <=> row.schema = NoSchema
        /\ UNCHANGED <<sessions, session, wants, lease, catalog>>
    BY <1>1, <1>5 DEF Connect, Goes, TaskRow
  <2> HIDE DEF row
  <2>3. QED
    BY <1>2, <2>1, <2>2, LocalMove DEF Referencing, Connected
<1>6. CASE ConnectFails(t, err)
  <2>1. AttemptFails(t, err) /\ task[t].at = "connecting"
        /\ UNCHANGED <<sessions, session, wants, lease, catalog>>
    BY <1>6 DEF ConnectFails
  <2>2. PICK row \in TaskRow :
           /\ task' = [task EXCEPT ![t] = row]
           /\ row.on = task[t].on /\ row.schema = task[t].schema
           /\ row.at \in {"retrying", "leaving"}
    BY <1>1, <2>1, AttemptEnds
  <2>3. QED
    BY <1>2, <2>1, <2>2, LocalMove DEF Referencing, Connected
<1>7. CASE SchemaKnown(t)
  <2> DEFINE row == [task[t] EXCEPT !.at = "writing"]
  <2>1. row \in TaskRow /\ task' = [task EXCEPT ![t] = row]
    BY <1>1, <1>7 DEF SchemaKnown, Goes, TaskRow, Where
  <2>2. /\ row.on = task[t].on /\ row.schema = task[t].schema
        /\ row.at = "writing" /\ task[t].at = "schema"
        /\ row.schema \in session[task[t].on].schemas
        /\ UNCHANGED <<sessions, session, wants, lease, catalog>>
    BY <1>1, <1>7 DEF SchemaKnown, Goes, TaskRow, On
  <2> HIDE DEF row
  <2>3. QED
    BY <1>2, <2>1, <2>2, LocalMove DEF Referencing, Connected
<1>8. CASE Write(t)
  <2> DEFINE row == [task[t] EXCEPT !.at = "leaving", !.result = "ok"]
  <2>1. row \in TaskRow /\ task' = [task EXCEPT ![t] = row]
    BY <1>1, <1>8 DEF Write, TaskRow, Where, Result
  <2>2. /\ row.on = task[t].on /\ row.schema = task[t].schema
        /\ row.at = "leaving" /\ task[t].at = "writing"
        /\ UNCHANGED <<sessions, session, wants, lease, catalog>>
    BY <1>1, <1>8 DEF Write, TaskRow
  <2> HIDE DEF row
  <2>3. QED
    BY <2>1, <2>2, LocalMove DEF Referencing, Connected
<1>9. CASE WriteFails(t, err)
  <2>1. AttemptFails(t, err) /\ task[t].at = "writing"
        /\ UNCHANGED <<sessions, session, wants, lease, catalog>>
    BY <1>9 DEF WriteFails
  <2>2. PICK row \in TaskRow :
           /\ task' = [task EXCEPT ![t] = row]
           /\ row.on = task[t].on /\ row.schema = task[t].schema
           /\ row.at \in {"retrying", "leaving"}
    BY <1>1, <2>1, AttemptEnds
  <2>3. QED
    BY <1>2, <2>1, <2>2, LocalMove DEF Referencing, Connected
<1>10. CASE Retry(t)
  <2> DEFINE row == [task[t] EXCEPT !.at = "connecting", !.attempt = @ + 1]
  <2>1. row \in TaskRow /\ task' = [task EXCEPT ![t] = row]
    <3>1. task[t].attempt + 1 \in Nat
      BY <1>1
    <3>2. row \in TaskRow
      BY <1>1, <3>1 DEF TaskRow, Where
    <3>3. QED
      BY <1>10, <3>2 DEF Retry
  <2>2. /\ row.on = task[t].on /\ row.schema = task[t].schema
        /\ row.at = "connecting" /\ task[t].at = "retrying"
        /\ UNCHANGED <<sessions, session, wants, lease, catalog>>
    BY <1>1, <1>10 DEF Retry, TaskRow
  <2> HIDE DEF row
  <2>3. QED
    BY <1>2, <2>1, <2>2, LocalMove DEF Referencing, Connected
<1>11. CASE RetryCancelled(t)
  <2> DEFINE row == [task[t] EXCEPT !.at = "leaving", !.result = "cancelled"]
  <2>1. row \in TaskRow /\ task' = [task EXCEPT ![t] = row]
    BY ZenonT(60), <1>1, <1>11 DEF RetryCancelled, Fails, TaskRow, Where, Result
  <2>2. /\ row.on = task[t].on /\ row.schema = task[t].schema
        /\ row.at = "leaving" /\ task[t].at = "retrying"
        /\ UNCHANGED <<sessions, session, wants, lease, catalog>>
    BY <1>1, <1>11 DEF RetryCancelled, TaskRow
  <2> HIDE DEF row
  <2>3. QED
    BY <2>1, <2>2, LocalMove DEF Referencing, Connected
<1>12. CASE Cancel(t)
  <2> DEFINE row == [task[t] EXCEPT !.cancelled = TRUE]
  <2>1. row \in TaskRow /\ task' = [task EXCEPT ![t] = row]
    BY <1>1, <1>12 DEF Cancel, TaskRow
  <2>2. /\ row.on = task[t].on /\ row.schema = task[t].schema
        /\ row.at = task[t].at
        /\ UNCHANGED <<sessions, session, wants, lease, catalog>>
    BY <1>1, <1>12 DEF Cancel, TaskRow
  <2>3. /\ row.at \in {"schema", "creating"} => row.schema # NoSchema
        /\ row.at = "writing" /\ row.schema # NoSchema =>
             row.schema \in session[task[t].on].schemas
    BY <2>2 DEF IInv, WritesRemembered, On
  <2> HIDE DEF row
  <2>4. QED
    BY <1>2, <2>1, <2>2, <2>3, LocalMove DEF Connected
<1>13. QED
  BY <1>3, <1>4, <1>5, <1>6, <1>7, <1>8, <1>9, <1>10, <1>11, <1>12

(***************************************************************************)
(* The statement that creates a schema, under schemaMu.                    *)
(***************************************************************************)
LEMMA SchemaMove ==
  ASSUME IInv, NEW t \in Task, NEW row \in TaskRow,
         NEW s \in Task, NEW srow \in SessionRow, task[t].on = s,
         task' = [task EXCEPT ![t] = row],
         session' = [session EXCEPT ![s] = srow],
         UNCHANGED <<sessions, wants, lease>>,
         catalog' \in [Path -> SUBSET Schema],
         \A p \in Path : catalog[p] \subseteq catalog'[p],
         row.on = s, row.schema = task[t].schema,
         task[t].at \in Connected,
         row.at \in {"creating", "writing", "retrying", "leaving"},
         row.at = "creating" => row.schema # NoSchema,
         srow.path = session[s].path, srow.refs = session[s].refs,
         srow.ready = session[s].ready, srow.initErr = session[s].initErr,
         srow.db = session[s].db,
         \/ srow.schemas = session[s].schemas
         \/ /\ srow.schemas = session[s].schemas \cup {row.schema}
            /\ row.schema \in catalog'[srow.path],
         row.at = "writing" /\ row.schema # NoSchema =>
           row.schema \in srow.schemas,
         \/ /\ row.at = "creating" /\ srow.schemaMu = t
            /\ session[s].schemaMu = NoTask
         \/ /\ task[t].at = "creating" /\ row.at # "creating"
            /\ srow.schemaMu = NoTask
  PROVE  IInv'
<1> USE NoTaskIsNone
<1>1. \A u \in Task : task'[u] = IF u = t THEN row ELSE task[u]
  BY DEF IInv, TypeOK
<1>2. \A r \in Task : session'[r] = IF r = s THEN srow ELSE session[r]
  BY DEF IInv, TypeOK
<1>3. TypeOK'
  BY DEF IInv, TypeOK
<1>4. session[s].ready /\ session[s].initErr = "none"
  BY DEF IInv, ConnectedIsReady, On
<1>5. session[s].db = "open"
  <2>1. t \in Users(s)
    BY DEF Users, Referencing
  <2>2. QED
    BY <1>4, <2>1 DEF IInv, SessionStates
<1>6. \A r \in Task :
        /\ session'[r].path = session[r].path
        /\ session'[r].refs = session[r].refs
        /\ session'[r].ready = session[r].ready
        /\ session'[r].initErr = session[r].initErr
        /\ session'[r].db = session[r].db
        /\ session[r].db = "none" => session'[r].schemas = {}
  BY <1>2, <1>5 DEF IInv, SessionStates
<1>7. /\ AtSession' /\ Initializing' /\ Counted' /\ Mapped' /\ SessionStates'
      /\ Closing' /\ ConnectedIsReady' /\ Coordinator!Exclusive'
  <2>1. /\ task'[t].on = task[t].on
        /\ task'[t].at \in Referencing \ {"initializing", "opening"}
        /\ task[t].at \in Referencing \ {"initializing", "opening"}
        /\ \A u \in Task : u # t => task'[u] = task[u]
    BY <1>1 DEF Referencing, Connected
  <2>2. QED
    BY <2>1, <1>4, <1>6, Move
<1>8. SchemaLocks'
  <2>1. ASSUME NEW r \in Task, NEW u \in Task, session'[r].schemaMu = u
        PROVE  task'[u].at = "creating" /\ task'[u].on = r
    <3>1. CASE r = s
      BY <1>1, <1>2, <2>1, <3>1
    <3>2. CASE r # s
      <4>1. task[u].at = "creating" /\ task[u].on = r
        BY <1>2, <2>1, <3>2 DEF IInv, SchemaLocks
      <4>2. QED
        BY <1>1, <3>2, <4>1
    <3>3. QED
      BY <3>1, <3>2
  <2>2. ASSUME NEW u \in Task, task'[u].at = "creating"
        PROVE  session'[task'[u].on].schemaMu = u
    <3>1. CASE u = t
      BY <1>1, <1>2, <2>2, <3>1
    <3>2. CASE u # t
      <4>1. task[u].at = "creating" /\ task'[u].on = task[u].on
            /\ session[task[u].on].schemaMu = u
        BY <1>1, <2>2, <3>2 DEF IInv, SchemaLocks, On
      <4>2. task[t].at = "creating" => session[s].schemaMu = t
        BY DEF IInv, SchemaLocks, On
      <4>3. task[u].on # s
        BY <3>2, <4>1, <4>2
      <4>4. task[u].on \in Task
        BY <4>1 DEF IInv, AtSession
      <4>5. QED
        BY <1>2, <4>1, <4>3, <4>4
    <3>3. QED
      BY <3>1, <3>2
  <2>3. QED
    BY <2>1, <2>2 DEF SchemaLocks, On
<1>9. WritesRemembered'
  <2>1. ASSUME NEW u \in Task, task'[u].at = "writing", task'[u].schema # NoSchema
        PROVE  task'[u].schema \in session'[task'[u].on].schemas
    <3>1. CASE u = t
      BY <1>1, <1>2, <2>1, <3>1
    <3>2. CASE u # t
      <4>1. task'[u] = task[u] /\ task[u].schema \in session[task[u].on].schemas
        BY <1>1, <2>1, <3>2 DEF IInv, WritesRemembered, On
      <4>2. task[u].on \in Task
        BY <2>1, <4>1 DEF IInv, AtSession
      <4>3. session[task[u].on].schemas \subseteq session'[task[u].on].schemas
        BY <1>2, <4>2
      <4>4. QED
        BY <4>1, <4>3
    <3>3. QED
      BY <3>1, <3>2
  <2>2. \A u \in Task : task'[u].at \in {"schema", "creating"} => task'[u].schema # NoSchema
    BY <1>1 DEF IInv, WritesRemembered
  <2>3. QED
    BY <2>1, <2>2 DEF WritesRemembered, On
<1>10. RememberedSchemasExist'
  <2>1. ASSUME NEW r \in Task, session'[r].db = "open"
        PROVE  session'[r].schemas \subseteq catalog'[session'[r].path]
    <3>1. session[r].db = "open" /\ session'[r].path = session[r].path
      BY <1>6, <2>1
    <3>2. session[r].path \in Path /\ session[r].schemas \subseteq catalog[session[r].path]
      BY <3>1 DEF IInv, SessionStates, RememberedSchemasExist
    <3>3. session[r].schemas \subseteq catalog'[session[r].path]
      BY <3>2
    <3>4. QED
      BY <1>2, <3>1, <3>3
  <2>2. QED
    BY <2>1 DEF RememberedSchemasExist
<1>11. QED
  BY <1>3, <1>7, <1>8, <1>9, <1>10 DEF IInv

LEMMA SchemaSteps ==
  ASSUME IInv, NEW t \in Task, NEW err \in Result,
         CreateSchema(t) \/ SchemaCreated(t) \/ SchemaFails(t, err)
  PROVE  IInv'
<1> USE NoTaskIsNone
<1> DEFINE s == task[t].on
<1>1. /\ TypeOK /\ task[t] \in TaskRow /\ task[t].at \in {"schema", "creating"}
  BY TaskType DEF IInv, CreateSchema, SchemaCreated, SchemaFails, Goes
<1>2. s \in Task /\ session[s].path \in Path /\ task[t].at \in Connected
  BY <1>1 DEF IInv, AtSession, On, Connected
<1>3. session[s] \in SessionRow
  BY <1>1, <1>2, SessionType
<1>4. task[t].schema # NoSchema /\ task[t].schema \in Schema
  BY <1>1 DEF TaskRow, IInv, WritesRemembered
<1>5. CASE CreateSchema(t)
  <2> DEFINE row == [task[t] EXCEPT !.at = "creating"]
  <2> DEFINE srow == [session[s] EXCEPT !.schemaMu = t]
  <2>1. row \in TaskRow /\ task' = [task EXCEPT ![t] = row]
    BY <1>1, <1>5 DEF CreateSchema, Goes, TaskRow, Where
  <2>2. srow \in SessionRow /\ session' = [session EXCEPT ![s] = srow]
    BY <1>3, <1>5 DEF CreateSchema, SessionRow
  <2>3. /\ row.on = s /\ row.schema = task[t].schema /\ row.at = "creating"
        /\ session[s].schemaMu = NoTask
        /\ UNCHANGED <<sessions, wants, lease, catalog>>
    BY <1>1, <1>5 DEF CreateSchema, TaskRow, On
  <2>4. /\ srow.path = session[s].path /\ srow.refs = session[s].refs
        /\ srow.ready = session[s].ready /\ srow.initErr = session[s].initErr
        /\ srow.db = session[s].db /\ srow.schemas = session[s].schemas
        /\ srow.schemaMu = t
    BY <1>3 DEF SessionRow
  <2>5. catalog' \in [Path -> SUBSET Schema]
    BY <1>1, <2>3 DEF TypeOK
  <2> HIDE DEF row, srow, s
  <2>6. QED
    BY <1>2, <1>4, <2>1, <2>2, <2>3, <2>4, <2>5, SchemaMove DEF s
<1>6. CASE SchemaCreated(t)
  <2> DEFINE row == [task[t] EXCEPT !.at = "writing"]
  <2> DEFINE srow == [session[s] EXCEPT !.schemas = @ \cup {task[t].schema},
                                        !.schemaMu = NoTask]
  <2>1. row \in TaskRow /\ task' = [task EXCEPT ![t] = row]
    BY <1>1, <1>6 DEF SchemaCreated, Goes, TaskRow, Where
  <2>2. srow \in SessionRow /\ session' = [session EXCEPT ![s] = srow]
    BY <1>3, <1>4, <1>6 DEF SchemaCreated, SessionRow
  <2>3. /\ row.on = s /\ row.schema = task[t].schema /\ row.at = "writing"
        /\ task[t].at = "creating"
        /\ UNCHANGED <<sessions, wants, lease>>
    BY <1>1, <1>6 DEF SchemaCreated, Goes, TaskRow
  <2>4. /\ srow.path = session[s].path /\ srow.refs = session[s].refs
        /\ srow.ready = session[s].ready /\ srow.initErr = session[s].initErr
        /\ srow.db = session[s].db
        /\ srow.schemas = session[s].schemas \cup {row.schema}
        /\ srow.schemaMu = NoTask
    BY <1>3, <2>3 DEF SessionRow
  <2>5. /\ catalog' \in [Path -> SUBSET Schema]
        /\ \A p \in Path : catalog[p] \subseteq catalog'[p]
        /\ row.schema \in catalog'[srow.path]
    BY <1>1, <1>2, <1>4, <1>6, <2>3, <2>4 DEF TypeOK, SchemaCreated, File, On
  <2> HIDE DEF row, srow, s
  <2>6. QED
    BY <1>2, <1>4, <2>1, <2>2, <2>3, <2>4, <2>5, SchemaMove DEF s
<1>7. CASE SchemaFails(t, err)
  <2> DEFINE srow == [session[s] EXCEPT !.schemaMu = NoTask]
  <2>1. PICK row \in TaskRow :
           /\ task' = [task EXCEPT ![t] = row]
           /\ row.on = task[t].on /\ row.schema = task[t].schema
           /\ row.at \in {"retrying", "leaving"}
    BY <1>1, <1>7, AttemptEnds DEF SchemaFails
  <2>2. srow \in SessionRow /\ session' = [session EXCEPT ![s] = srow]
    BY <1>3, <1>7 DEF SchemaFails, SessionRow
  <2>3. task[t].at = "creating" /\ UNCHANGED <<sessions, wants, lease>>
    BY <1>7 DEF SchemaFails
  <2>4. /\ srow.path = session[s].path /\ srow.refs = session[s].refs
        /\ srow.ready = session[s].ready /\ srow.initErr = session[s].initErr
        /\ srow.db = session[s].db /\ srow.schemas = session[s].schemas
        /\ srow.schemaMu = NoTask
    BY <1>3 DEF SessionRow
  <2>5. /\ catalog' \in [Path -> SUBSET Schema]
        /\ \A p \in Path : catalog[p] \subseteq catalog'[p]
    BY <1>1, <1>2, <1>4, <1>7 DEF TypeOK, SchemaFails, File, On
  <2> HIDE DEF srow, s
  <2>6. QED
    BY <1>2, <1>4, <2>1, <2>2, <2>3, <2>4, <2>5, SchemaMove DEF s
<1>8. QED
  BY <1>5, <1>6, <1>7

(***************************************************************************)
(* A step of one task does not concern the connected ones, as long as      *)
(* their sessions stay as they are.                                        *)
(***************************************************************************)
LEMMA Bystanders ==
  ASSUME IInv, NEW t \in Task,
         \A u \in Task : u # t => task'[u] = task[u],
         task[t].at \notin Connected,
         task'[t].at \in Connected =>
           /\ task'[t].at = "connecting"
           /\ session'[task'[t].on].ready
           /\ session'[task'[t].on].initErr = "none",
         \A u \in Task : task[u].at \in Connected =>
           /\ session'[task[u].on].ready = session[task[u].on].ready
           /\ session'[task[u].on].initErr = session[task[u].on].initErr
           /\ session'[task[u].on].schemas = session[task[u].on].schemas
           /\ session'[task[u].on].schemaMu = session[task[u].on].schemaMu,
         \A s \in Task : session'[s].schemaMu \in {session[s].schemaMu, NoTask}
  PROVE  ConnectedIsReady' /\ SchemaLocks' /\ WritesRemembered'
<1> USE NoTaskIsNone
<1>1. ConnectedIsReady'
  <2>1. ASSUME NEW u \in Task, task'[u].at \in Connected
        PROVE  session'[task'[u].on].ready /\ session'[task'[u].on].initErr = "none"
    BY <2>1 DEF IInv, ConnectedIsReady, On
  <2>2. QED
    BY <2>1 DEF ConnectedIsReady, On
<1>2. SchemaLocks'
  <2>1. ASSUME NEW r \in Task, NEW u \in Task, session'[r].schemaMu = u
        PROVE  task'[u].at = "creating" /\ task'[u].on = r
    <3>1. session[r].schemaMu = u
      BY <2>1
    <3>2. task[u].at = "creating" /\ task[u].on = r
      BY <3>1 DEF IInv, SchemaLocks
    <3>3. QED
      BY <3>2 DEF Connected
  <2>2. ASSUME NEW u \in Task, task'[u].at = "creating"
        PROVE  session'[task'[u].on].schemaMu = u
    <3>1. u # t
      BY <2>2 DEF Connected
    <3>2. task[u].at = "creating" /\ task'[u] = task[u]
      BY <2>2, <3>1
    <3>3. session[task[u].on].schemaMu = u
      BY <3>2 DEF IInv, SchemaLocks, On
    <3>4. QED
      BY <3>2, <3>3 DEF Connected
  <2>3. QED
    BY <2>1, <2>2 DEF SchemaLocks, On
<1>3. WritesRemembered'
  <2>1. ASSUME NEW u \in Task, task'[u].at \in {"schema", "creating", "writing"}
        PROVE  /\ task'[u].at \in {"schema", "creating"} => task'[u].schema # NoSchema
               /\ task'[u].at = "writing" /\ task'[u].schema # NoSchema =>
                    task'[u].schema \in session'[task'[u].on].schemas
    <3>1. u # t
      BY <2>1 DEF Connected
    <3>2. task'[u] = task[u] /\ task[u].at \in Connected
      BY <2>1, <3>1 DEF Connected
    <3>3. QED
      BY <3>2 DEF IInv, WritesRemembered, On
  <2>2. QED
    BY <2>1 DEF WritesRemembered, On
<1>4. QED
  BY <1>1, <1>2, <1>3

\* A task that has not begun is at no session, and its own is not in use.
LEMMA NotBegun ==
  ASSUME IInv, NEW t \in Task, task[t].at = "new"
  PROVE  /\ task[t].on = NoTask
         /\ \A u \in Task : task[u].on # t
         /\ Users(t) = {} /\ Closers(t) = {}
         /\ lease[t] = {} /\ session[t].db # "open"
         /\ \A p \in Path : sessions[p] # t
<1> USE NoTaskIsNone
<1>1. task[t].on = NoTask
  BY DEF IInv, AtSession
<1>2. \A u \in Task : task[u].on # t
  BY DEF IInv, AtSession
<1>3. Users(t) = {} /\ Closers(t) = {}
  BY <1>2 DEF Users, Closers
<1>4. lease[t] = {} /\ session[t].db # "open"
  BY <1>3 DEF IInv, Closing
<1>5. \A p \in Path : sessions[p] # t
  BY <1>3 DEF IInv, Mapped
<1>6. QED
  BY <1>1, <1>2, <1>3, <1>4, <1>5

LEMMA JoinStep ==
  ASSUME IInv, NEW t \in Task, NEW p \in Path, NEW sc \in Schema \cup {NoSchema},
         Join(t, p, sc)
  PROVE  IInv'
<1> USE NoTaskIsNone
<1> DEFINE s == sessions[p]
<1> DEFINE row == [task[t] EXCEPT !.at = "joining", !.on = s, !.schema = sc]
<1> DEFINE srow == [session[s] EXCEPT !.refs = @ + 1]
<1>1. /\ TypeOK /\ task[t] \in TaskRow /\ task[t].at = "new" /\ s \in Task
      /\ UNCHANGED <<sessions, wants, lease, catalog>>
  BY TaskType DEF IInv, Join, TypeOK
<1>2. session[s].path = p /\ Users(s) # {} /\ session[s] \in SessionRow
      /\ session[s].refs \in Nat
  BY <1>1, SessionType DEF IInv, Mapped
<1>3. /\ row \in TaskRow /\ row.at = "joining" /\ row.on = s
      /\ task' = [task EXCEPT ![t] = row]
  BY <1>1 DEF Join, TaskRow, Where
<1>4. /\ srow \in SessionRow /\ srow.refs = session[s].refs + 1
      /\ srow.path = p /\ srow.ready = session[s].ready
      /\ srow.initErr = session[s].initErr /\ srow.db = session[s].db
      /\ srow.schemas = session[s].schemas /\ srow.schemaMu = session[s].schemaMu
      /\ session' = [session EXCEPT ![s] = srow]
  <2>1. session[s].refs + 1 \in Nat
    BY <1>2
  <2>2. session' = [session EXCEPT ![s] = srow]
    BY DEF Join
  <2>3. QED
    BY <1>2, <2>1, <2>2 DEF SessionRow
<1> HIDE DEF row, srow
<1>5. \A u \in Task : task'[u] = IF u = t THEN row ELSE task[u]
  BY <1>1, <1>3 DEF TypeOK
<1>6. \A r \in Task : session'[r] = IF r = s THEN srow ELSE session[r]
  BY <1>1, <1>4 DEF TypeOK
<1>7. \A r \in Task :
        /\ session'[r].path = session[r].path
        /\ session'[r].ready = session[r].ready
        /\ session'[r].initErr = session[r].initErr
        /\ session'[r].db = session[r].db
        /\ session'[r].schemas = session[r].schemas
        /\ session'[r].schemaMu = session[r].schemaMu
  BY <1>2, <1>4, <1>6
<1>8. /\ task[t].on = NoTask /\ t \notin Users(s) /\ s # t /\ task[s].at # "new"
      /\ lease[t] = {}
  <2>1. PICK u \in Task : task[u].on = s /\ task[u].at \in Referencing
    BY <1>2 DEF Users
  <2>2. task[s].at # "new"
    BY <2>1 DEF IInv, AtSession, Referencing, Connected
  <2>3. QED
    BY <1>1, <2>2, NotBegun DEF Users
<1>9. \A r : /\ Users(r)' = IF r = s THEN Users(s) \cup {t} ELSE Users(r)
             /\ Closers(r)' = Closers(r)
  BY <1>1, <1>3, <1>5, <1>8 DEF Users, Closers, Referencing, Connected, Ending
<1>10. TypeOK'
  BY <1>1, <1>3, <1>4 DEF TypeOK
<1>11. AtSession'
  <2>1. ASSUME NEW u \in Task
        PROVE  IF task'[u].at \in {"new", "done"}
               THEN task'[u].on = NoTask
               ELSE /\ task'[u].on \in Task
                    /\ session'[task'[u].on].path \in Path
                    /\ task'[task'[u].on].at # "new"
    <3>1. CASE u = t
      BY <1>1, <1>2, <1>3, <1>5, <1>7, <1>8, <3>1
    <3>2. CASE u # t
      BY <1>3, <1>5, <1>7, <3>2 DEF IInv, AtSession, On
    <3>3. QED
      BY <3>1, <3>2
  <2>2. QED
    BY <2>1 DEF AtSession, On
<1>12. Initializing'
  BY <1>1, <1>3, <1>5, <1>7 DEF IInv, Initializing
<1>13. Counted'
  <2>1. ASSUME NEW r \in Task
        PROVE  session'[r].refs = Cardinality(Users(r)')
    <3>1. session[r].refs = Cardinality(Users(r)) /\ IsFiniteSet(Users(r))
      BY UsersFinite DEF IInv, Counted
    <3>2. CASE r = s
      <4>1. Cardinality(Users(s) \cup {t}) = Cardinality(Users(s)) + 1
        BY <1>8, <3>1, <3>2, FS_AddElement
      <4>2. QED
        BY <1>4, <1>6, <1>9, <3>1, <3>2, <4>1
    <3>3. CASE r # s
      BY <1>6, <1>9, <3>1, <3>3
    <3>4. QED
      BY <3>2, <3>3
  <2>2. QED
    BY <2>1 DEF Counted
<1>14. Mapped'
  BY <1>1, <1>7, <1>9 DEF IInv, Mapped
<1>15. SessionStates'
  <2>1. ASSUME NEW r \in Task
        PROVE  /\ ~session'[r].ready =>
                    session'[r].db = "none" /\ session'[r].initErr = "none"
               /\ session'[r].initErr # "none" => session'[r].db = "none"
               /\ session'[r].db = "none" =>
                    /\ session'[r].schemas = {}
                    /\ lease[r] # {} => task'[r].at = "opening"
               /\ session'[r].db = "open" => session'[r].path \in Path
               /\ session'[r].db = "open" => lease[r] = {session'[r].path}
               /\ session'[r].ready /\ session'[r].initErr = "none" /\ Users(r)' # {} =>
                    session'[r].db = "open"
    <3>1. lease[r] # {} => task'[r] = task[r]
      BY <1>5, <1>8
    <3>2. Users(r)' # {} => Users(r) # {}
      BY <1>2, <1>9
    <3>3. QED
      BY <1>7, <3>1, <3>2 DEF IInv, SessionStates
  <2>2. QED
    BY <1>1, <2>1 DEF SessionStates
<1>16. Closing'
  <2>1. \A r \in Task : Users(r) # {} => Users(r)' # {}
    BY <1>9
  <2>2. \A r \in Task : \A u \in Closers(r) : task'[u] = task[u]
    BY <1>1, <1>5 DEF Closers, Ending
  <2>3. \A u \in Closers(s) : FALSE
    BY <1>1, <1>2 DEF IInv, Closing
  <2>4. QED
    BY <1>1, <1>2, <1>7, <1>9, <2>1, <2>2, <2>3 DEF IInv, Closing
<1>17. ConnectedIsReady' /\ SchemaLocks' /\ WritesRemembered'
  <2>1. \A u \in Task : task[u].at \in Connected => task[u].on \in Task
    BY DEF IInv, AtSession, Connected
  <2>2. \A u \in Task : task[u].at \in Connected =>
          /\ session'[task[u].on].ready = session[task[u].on].ready
          /\ session'[task[u].on].initErr = session[task[u].on].initErr
          /\ session'[task[u].on].schemas = session[task[u].on].schemas
          /\ session'[task[u].on].schemaMu = session[task[u].on].schemaMu
    BY <1>7, <2>1
  <2>3. task[t].at \notin Connected /\ task'[t].at \notin Connected
    BY <1>1, <1>3, <1>5 DEF Connected
  <2>4. QED
    BY <1>5, <1>7, <2>2, <2>3, Bystanders
<1>18. RememberedSchemasExist' /\ Coordinator!Exclusive'
  BY <1>1, <1>7 DEF IInv, RememberedSchemasExist, Coordinator!Exclusive
<1>19. QED
  BY <1>10, <1>11, <1>12, <1>13, <1>14, <1>15, <1>16, <1>17, <1>18 DEF IInv

(***************************************************************************)
(* The task that makes a session, until its session is ready.              *)
(***************************************************************************)
LEMMA OwnerMove ==
  ASSUME IInv, NEW t \in Task, NEW row \in TaskRow, NEW srow \in SessionRow,
         task[t].at \in {"initializing", "opening"},
         task' = [task EXCEPT ![t] = row],
         session' = [session EXCEPT ![t] = srow],
         lease' \in [Task \cup Lessee -> SUBSET Path],
         \A c \in Task : c # t => lease'[c] = lease[c],
         Coordinator!Exclusive',
         UNCHANGED <<sessions, wants, catalog>>,
         row.on = t, row.at \in {"opening", "leaving", "connecting"},
         srow.path = session[t].path, srow.refs = session[t].refs,
         srow.schemas = session[t].schemas, srow.schemaMu = session[t].schemaMu,
         row.at = "opening" =>
           /\ ~srow.ready /\ srow.initErr = "none" /\ srow.db = "none"
           /\ lease'[t] = {session[t].path},
         row.at = "leaving" =>
           /\ srow.ready /\ srow.initErr # "none" /\ srow.db = "none"
           /\ lease'[t] = {},
         row.at = "connecting" =>
           /\ srow.ready /\ srow.initErr = "none" /\ srow.db = "open"
           /\ lease'[t] = {session[t].path}
  PROVE  IInv'
<1> USE NoTaskIsNone
<1>1. \A u \in Task : task'[u] = IF u = t THEN row ELSE task[u]
  BY DEF IInv, TypeOK
<1>2. \A r \in Task : session'[r] = IF r = t THEN srow ELSE session[r]
  BY DEF IInv, TypeOK
<1>3. /\ task[t].on = t /\ ~session[t].ready /\ session[t].db = "none"
      /\ session[t].initErr = "none" /\ session[t].schemas = {}
      /\ session[t].path \in Path
  BY DEF IInv, Initializing, SessionStates, AtSession, On
<1>4. \A r : Users(r)' = Users(r) /\ Closers(r)' = Closers(r)
  <2>1. \A u \in Task : /\ task'[u].on = task[u].on
                        /\ task'[u].at \in Referencing <=> task[u].at \in Referencing
                        /\ task'[u].at \in Ending <=> task[u].at \in Ending
    BY <1>1, <1>3 DEF Referencing, Connected, Ending
  <2>2. QED
    BY <2>1, SameUsers, SameClosers
<1>5. t \in Users(t)
  BY <1>3 DEF Users, Referencing
<1>6. TypeOK'
  BY DEF IInv, TypeOK
<1>7. AtSession'
  <2>1. \A u \in Task :
          /\ task'[u].on = task[u].on
          /\ task'[u].at \in {"new", "done"} <=> task[u].at \in {"new", "done"}
          /\ task'[u].at = "new" <=> task[u].at = "new"
          /\ session'[u].path = session[u].path
    BY <1>1, <1>2, <1>3
  <2>2. QED
    BY <2>1 DEF IInv, AtSession, On
<1>8. Initializing'
  BY <1>1, <1>2, <1>3 DEF IInv, Initializing
<1>9. Counted' /\ Mapped'
  BY <1>2, <1>4 DEF IInv, Counted, Mapped
<1>10. SessionStates'
  <2>1. ASSUME NEW r \in Task
        PROVE  /\ ~session'[r].ready =>
                    session'[r].db = "none" /\ session'[r].initErr = "none"
               /\ session'[r].initErr # "none" => session'[r].db = "none"
               /\ session'[r].db = "none" =>
                    /\ session'[r].schemas = {}
                    /\ lease'[r] # {} => task'[r].at = "opening"
               /\ session'[r].db = "open" => session'[r].path \in Path
               /\ session'[r].db = "open" => lease'[r] = {session'[r].path}
               /\ session'[r].ready /\ session'[r].initErr = "none" /\ Users(r)' # {} =>
                    session'[r].db = "open"
    <3>1. CASE r = t
      BY <1>1, <1>2, <1>3, <3>1
    <3>2. CASE r # t
      BY <1>1, <1>2, <1>4, <3>2 DEF IInv, SessionStates
    <3>3. QED
      BY <3>1, <3>2
  <2>2. QED
    BY <2>1 DEF SessionStates
<1>11. Closing'
  <2>1. \A r \in Task : \A u \in Closers(r) : task'[u] = task[u] /\ r # t
    BY <1>1, <1>5 DEF Closers, Ending, IInv, Closing
  <2>2. QED
    BY <1>2, <1>4, <1>5, <2>1 DEF IInv, Closing
<1>12. ConnectedIsReady' /\ SchemaLocks' /\ WritesRemembered'
  <2>1. \A u \in Task : task[u].at \in Connected => task[u].on \in Task /\ task[u].on # t
    BY <1>3 DEF IInv, AtSession, Connected, ConnectedIsReady, On
  <2>2. task[t].at \notin Connected
        /\ (task'[t].at \in Connected =>
              /\ task'[t].at = "connecting"
              /\ session'[task'[t].on].ready
              /\ session'[task'[t].on].initErr = "none")
    BY <1>1, <1>2 DEF Connected
  <2>3. \A r \in Task : session'[r].schemaMu = session[r].schemaMu
    BY <1>2
  <2>4. QED
    BY <1>1, <1>2, <2>1, <2>2, <2>3, Bystanders
<1>13. RememberedSchemasExist'
  BY <1>2, <1>3 DEF IInv, RememberedSchemasExist
<1>14. QED
  BY <1>6, <1>7, <1>8, <1>9, <1>10, <1>11, <1>12, <1>13 DEF IInv

LEMMA OwnerSteps ==
  ASSUME IInv, NEW t \in Task, NEW err \in Result,
         LeaseGranted(t) \/ InitFails(t, err) \/ Opened(t)
  PROVE  IInv'
<1> USE NoTaskIsNone
<1>1. /\ TypeOK /\ task[t] \in TaskRow /\ session[t] \in SessionRow
      /\ task[t].at \in {"initializing", "opening"}
  BY TaskType, SessionType DEF IInv, LeaseGranted, InitFails, Opened, Goes
<1>2. /\ task[t].on = t /\ ~session[t].ready /\ session[t].db = "none"
      /\ session[t].initErr = "none" /\ session[t].path \in Path
      /\ task[t].at = "opening" => lease[t] = {session[t].path}
  BY <1>1 DEF IInv, Initializing, SessionStates, AtSession, On
<1>3. /\ lease \in [Task \cup Lessee -> SUBSET Path] /\ Coordinator!Exclusive
  BY DEF IInv, TypeOK
<1>4. CASE LeaseGranted(t)
  <2> DEFINE row == [task[t] EXCEPT !.at = "opening"]
  <2> DEFINE srow == session[t]
  <2>1. row \in TaskRow /\ task' = [task EXCEPT ![t] = row] /\ row.on = t
        /\ row.at = "opening"
    BY <1>1, <1>2, <1>4 DEF LeaseGranted, Goes, TaskRow, Where
  <2>2. session' = [session EXCEPT ![t] = srow]
        /\ UNCHANGED <<sessions, wants, catalog>>
    BY <1>1, <1>4 DEF LeaseGranted, TypeOK
  <2>3. /\ lease' = [lease EXCEPT ![t] = {session[t].path}]
        /\ \A d \in Task \cup Lessee : lease[d] \cap {session[t].path} = {}
    BY <1>2, <1>4 DEF LeaseGranted, Coordinator!Grant, File, On
  <2>4. /\ lease' \in [Task \cup Lessee -> SUBSET Path]
        /\ \A c \in Task : c # t => lease'[c] = lease[c]
        /\ lease'[t] = {session[t].path}
    BY <1>2, <1>3, <2>3
  <2>5. Coordinator!Exclusive'
    BY <1>3, <2>3 DEF Coordinator!Exclusive
  <2> HIDE DEF row
  <2>6. QED
    BY <1>1, <1>2, <2>1, <2>2, <2>4, <2>5, OwnerMove
<1>5. CASE InitFails(t, err)
  <2> DEFINE row == [task[t] EXCEPT !.at = "leaving", !.result = err]
  <2> DEFINE srow == [session[t] EXCEPT !.initErr = err, !.ready = TRUE]
  <2>1. row \in TaskRow /\ task' = [task EXCEPT ![t] = row] /\ row.on = t
        /\ row.at = "leaving"
    BY <1>1, <1>2, <1>5 DEF InitFails, Fails, TaskRow, Where
  <2>2. err \in {"failed", "cancelled"}
    BY <1>5 DEF InitFails, MayReport
  <2>3. /\ srow \in SessionRow /\ session' = [session EXCEPT ![t] = srow]
        /\ srow.path = session[t].path /\ srow.refs = session[t].refs
        /\ srow.schemas = session[t].schemas /\ srow.schemaMu = session[t].schemaMu
        /\ srow.ready /\ srow.initErr # "none" /\ srow.db = "none"
        /\ UNCHANGED <<sessions, wants, catalog>>
    BY <1>1, <1>2, <1>5, <2>2 DEF InitFails, SessionRow, InitError
  <2>4. \A c \in Task \cup Lessee : lease'[c] = IF c = t THEN {} ELSE lease[c]
    BY <1>5 DEF InitFails, Coordinator!Return
  <2>5. lease' \in [Task \cup Lessee -> SUBSET Path]
    BY <1>3, <1>5 DEF InitFails, Coordinator!Return
  <2>6. Coordinator!Exclusive'
    BY <1>3, <2>4 DEF Coordinator!Exclusive
  <2> HIDE DEF row, srow
  <2>7. QED
    BY ZenonT(60), <1>1, <1>2, <2>1, <2>3, <2>4, <2>5, <2>6, OwnerMove
<1>6. CASE Opened(t)
  <2> DEFINE row == [task[t] EXCEPT !.at = "connecting"]
  <2> DEFINE srow == [session[t] EXCEPT !.db = "open", !.ready = TRUE]
  <2>1. row \in TaskRow /\ task' = [task EXCEPT ![t] = row] /\ row.on = t
        /\ row.at = "connecting" /\ task[t].at = "opening"
    BY <1>1, <1>2, <1>6 DEF Opened, Goes, TaskRow, Where
  <2>2. /\ srow \in SessionRow /\ session' = [session EXCEPT ![t] = srow]
        /\ srow.path = session[t].path /\ srow.refs = session[t].refs
        /\ srow.schemas = session[t].schemas /\ srow.schemaMu = session[t].schemaMu
        /\ srow.ready /\ srow.initErr = "none" /\ srow.db = "open"
        /\ UNCHANGED <<sessions, wants, lease, catalog>>
    BY <1>1, <1>2, <1>6 DEF Opened, SessionRow
  <2>3. Coordinator!Exclusive'
    BY <1>3, <2>2 DEF Coordinator!Exclusive
  <2> HIDE DEF row, srow
  <2>4. QED
    BY <1>1, <1>2, <1>3, <2>1, <2>2, <2>3, OwnerMove
<1>7. QED
  BY <1>4, <1>5, <1>6

LEMMA StartStep ==
  ASSUME IInv, NEW t \in Task, NEW p \in Path, NEW sc \in Schema \cup {NoSchema},
         Start(t, p, sc)
  PROVE  IInv'
<1> USE NoTaskIsNone
<1> DEFINE row == [task[t] EXCEPT !.at = "initializing", !.on = t, !.schema = sc]
<1> DEFINE srow == [NoSession EXCEPT !.path = p, !.refs = 1]
<1>1. /\ TypeOK /\ task[t] \in TaskRow /\ task[t].at = "new"
      /\ sessions[p] = NoTask /\ sessions' = [sessions EXCEPT ![p] = t]
      /\ UNCHANGED <<wants, lease, catalog>>
  BY TaskType DEF IInv, Start
<1>2. /\ row \in TaskRow /\ row.at = "initializing" /\ row.on = t
      /\ task' = [task EXCEPT ![t] = row]
  BY <1>1 DEF Start, TaskRow, Where
<1>3. /\ srow \in SessionRow /\ srow.path = p /\ srow.refs = 1 /\ ~srow.ready
      /\ srow.initErr = "none" /\ srow.db = "none" /\ srow.schemas = {}
      /\ srow.schemaMu = NoTask
      /\ session' = [session EXCEPT ![t] = srow]
  BY DEF Start, SessionRow, NoSession, InitError
<1> HIDE DEF row, srow
<1>4. \A u \in Task : task'[u] = IF u = t THEN row ELSE task[u]
  BY <1>1, <1>2 DEF TypeOK
<1>5. \A r \in Task : session'[r] = IF r = t THEN srow ELSE session[r]
  BY <1>1, <1>3 DEF TypeOK
<1>6. \A q \in Path : sessions'[q] = IF q = p THEN t ELSE sessions[q]
  BY <1>1 DEF TypeOK
<1>7. /\ task[t].on = NoTask /\ \A u \in Task : task[u].on # t
      /\ Users(t) = {} /\ Closers(t) = {} /\ lease[t] = {}
      /\ \A q \in Path : sessions[q] # t
  BY <1>1, NotBegun
<1>8. \A r : /\ Users(r)' = IF r = t THEN {t} ELSE Users(r)
             /\ Closers(r)' = Closers(r)
  BY <1>1, <1>2, <1>4, <1>7 DEF Users, Closers, Referencing, Connected, Ending
<1>9. TypeOK'
  BY <1>1, <1>2, <1>3 DEF TypeOK
<1>10. AtSession'
  <2>1. ASSUME NEW u \in Task
        PROVE  IF task'[u].at \in {"new", "done"}
               THEN task'[u].on = NoTask
               ELSE /\ task'[u].on \in Task
                    /\ session'[task'[u].on].path \in Path
                    /\ task'[task'[u].on].at # "new"
    <3>1. CASE u = t
      BY <1>2, <1>3, <1>4, <1>5, <3>1
    <3>2. CASE u # t
      BY <1>4, <1>5, <1>7, <3>2 DEF IInv, AtSession, On
    <3>3. QED
      BY <3>1, <3>2
  <2>2. QED
    BY <2>1 DEF AtSession, On
<1>11. Initializing'
  BY <1>1, <1>2, <1>3, <1>4, <1>5, <1>7 DEF IInv, Initializing
<1>12. Counted'
  <2>1. Cardinality({t}) = 1
    BY FS_Singleton
  <2>2. QED
    BY <1>3, <1>5, <1>8, <2>1 DEF IInv, Counted
<1>13. Mapped'
  BY <1>3, <1>5, <1>6, <1>7, <1>8 DEF IInv, Mapped
<1>14. SessionStates'
  BY <1>1, <1>3, <1>4, <1>5, <1>7, <1>8 DEF IInv, SessionStates
<1>15. Closing'
  <2>1. \A r \in Task : \A u \in Closers(r) : task'[u] = task[u] /\ r # t
    BY <1>1, <1>4, <1>7 DEF Closers, Ending
  <2>2. QED
    BY <1>1, <1>5, <1>7, <1>8, <2>1 DEF IInv, Closing
<1>16. ConnectedIsReady' /\ SchemaLocks' /\ WritesRemembered'
  <2>1. \A u \in Task : task[u].at \in Connected => task[u].on \in Task /\ task[u].on # t
    BY <1>7 DEF IInv, AtSession, Connected
  <2>2. task[t].at \notin Connected /\ task'[t].at \notin Connected
    BY <1>1, <1>2, <1>4 DEF Connected
  <2>3. \A r \in Task : session'[r].schemaMu \in {session[r].schemaMu, NoTask}
    BY <1>3, <1>5
  <2>4. QED
    BY <1>4, <1>5, <2>1, <2>2, <2>3, Bystanders
<1>17. RememberedSchemasExist' /\ Coordinator!Exclusive'
  BY <1>1, <1>3, <1>5 DEF IInv, RememberedSchemasExist, Coordinator!Exclusive
<1>18. QED
  BY <1>9, <1>10, <1>11, <1>12, <1>13, <1>14, <1>15, <1>16, <1>17 DEF IInv

(***************************************************************************)
(* The critical section of release: the reference is given back, and the   *)
(* last one turns to closing.                                              *)
(***************************************************************************)
LEMMA ReturnedRow ==
  ASSUME NEW row \in TaskRow
  PROVE  /\ Returned(row) \in TaskRow
         /\ Returned(row).at = "done" /\ Returned(row).on = NoTask
BY DEF Returned, NewTask, TaskRow, Where

LEMMA LeaveStep ==
  ASSUME IInv, NEW t \in Task, Leave(t)
  PROVE  IInv'
<1> USE NoTaskIsNone
<1> DEFINE s == task[t].on
<1> DEFINE last == session[s].refs = 1
<1> DEFINE row == IF last THEN [task[t] EXCEPT !.at = "closing"] ELSE Returned(task[t])
<1> DEFINE srow == [session[s] EXCEPT !.refs = @ - 1]
<1>1. /\ TypeOK /\ task[t] \in TaskRow /\ task[t].at = "leaving"
      /\ UNCHANGED <<wants, lease, catalog>>
  BY TaskType DEF IInv, Leave
<1>2. /\ s \in Task /\ session[s].path \in Path /\ t \in Users(s)
      /\ task[s].at # "new"
  BY <1>1 DEF IInv, AtSession, On, Users, Referencing
<1>3. /\ session[s] \in SessionRow /\ session[s].refs \in Nat
      /\ session[s].refs = Cardinality(Users(s)) /\ IsFiniteSet(Users(s))
  BY <1>1, <1>2, SessionType, UsersFinite DEF IInv, Counted
<1>4. /\ last <=> Users(s) = {t}
      /\ Cardinality(Users(s) \ {t}) = session[s].refs - 1
      /\ session[s].refs - 1 \in Nat
  <2>1. last <=> \E x : Users(s) = {x}
    BY <1>3, FS_Singleton
  <2>2. Cardinality(Users(s) \ {t}) = session[s].refs - 1
    BY <1>2, <1>3, FS_RemoveElement
  <2>3. Cardinality(Users(s) \ {t}) \in Nat
    BY <1>3, FS_RemoveElement, FS_CardinalityType
  <2>4. QED
    BY <1>2, <2>1, <2>2, <2>3
<1>5. /\ row \in TaskRow
      /\ last => row.at = "closing" /\ row.on = s
      /\ ~last => row.at = "done" /\ row.on = NoTask
      /\ task' = [task EXCEPT ![t] = row]
  <2>1. task' = [task EXCEPT ![t] = row]
    BY <1>1 DEF Leave
  <2>2. CASE last
    BY <1>1, <2>1, <2>2 DEF TaskRow, Where
  <2>3. CASE ~last
    BY <1>1, <2>1, <2>3, ReturnedRow
  <2>4. QED
    BY <2>2, <2>3
<1>6. /\ srow \in SessionRow /\ srow.refs = session[s].refs - 1
      /\ srow.path = session[s].path /\ srow.ready = session[s].ready
      /\ srow.initErr = session[s].initErr /\ srow.db = session[s].db
      /\ srow.schemas = session[s].schemas /\ srow.schemaMu = session[s].schemaMu
      /\ session' = [session EXCEPT ![s] = srow]
  <2>1. session' = [session EXCEPT ![s] = srow]
    BY DEF Leave
  <2>2. QED
    BY <1>3, <1>4, <2>1 DEF SessionRow
<1>7. sessions' = IF last /\ sessions[session[s].path] = s
                  THEN [sessions EXCEPT ![session[s].path] = NoTask] ELSE sessions
  BY DEF Leave, File, On
<1> HIDE DEF row, srow, last
<1>8. \A u \in Task : task'[u] = IF u = t THEN row ELSE task[u]
  BY <1>1, <1>5 DEF TypeOK
<1>9. \A r \in Task : session'[r] = IF r = s THEN srow ELSE session[r]
  BY <1>1, <1>2, <1>6 DEF TypeOK
<1>10. \A r \in Task :
         /\ session'[r].path = session[r].path
         /\ session'[r].ready = session[r].ready
         /\ session'[r].initErr = session[r].initErr
         /\ session'[r].db = session[r].db
         /\ session'[r].schemas = session[r].schemas
         /\ session'[r].schemaMu = session[r].schemaMu
  BY <1>6, <1>9
<1>11. \A r \in Task :
         /\ Users(r)' = IF r = s THEN Users(s) \ {t} ELSE Users(r)
         /\ Closers(r)' = IF r = s /\ last THEN {t} ELSE Closers(r)
         /\ Closers(s) = {}
  <2>1. Closers(s) = {}
    BY <1>2 DEF IInv, Closing
  <2>2. ASSUME NEW r \in Task
        PROVE  Users(r)' = IF r = s THEN Users(s) \ {t} ELSE Users(r)
    BY <1>1, <1>5, <1>8 DEF Users, Referencing, Connected
  <2>3. ASSUME NEW r \in Task
        PROVE  Closers(r)' = IF r = s /\ last THEN {t} ELSE Closers(r)
    <3>1. \A u \in Task : (u \in Closers(r))' <=>
            IF u = t THEN last /\ r = s ELSE u \in Closers(r)
      BY <1>1, <1>5, <1>8 DEF Closers, Ending
    <3>2. t \notin Closers(r)
      BY <1>1 DEF Closers, Ending
    <3>3. Closers(r) \subseteq Task /\ Closers(r)' \subseteq Task
      BY DEF Closers
    <3>4. QED
      BY <2>1, <3>1, <3>2, <3>3
  <2>4. QED
    BY <2>1, <2>2, <2>3
<1>12. TypeOK'
  BY <1>1, <1>5, <1>6, <1>7 DEF TypeOK
<1>13. AtSession'
  <2>1. ASSUME NEW u \in Task
        PROVE  IF task'[u].at \in {"new", "done"}
               THEN task'[u].on = NoTask
               ELSE /\ task'[u].on \in Task
                    /\ session'[task'[u].on].path \in Path
                    /\ task'[task'[u].on].at # "new"
    <3>1. CASE u = t
      BY <1>2, <1>5, <1>8, <1>10, <3>1
    <3>2. CASE u # t
      BY <1>5, <1>8, <1>10, <3>2 DEF IInv, AtSession, On
    <3>3. QED
      BY <3>1, <3>2
  <2>2. QED
    BY <2>1 DEF AtSession, On
<1>14. Initializing'
  BY <1>1, <1>5, <1>8, <1>10 DEF IInv, Initializing
<1>15. Counted'
  <2>1. ASSUME NEW r \in Task
        PROVE  session'[r].refs = Cardinality(Users(r)')
    <3>1. CASE r = s
      <4>1. session'[r].refs = session[s].refs - 1
        BY <1>6, <1>9, <3>1
      <4>2. Users(r)' = Users(s) \ {t}
        BY <1>11, <3>1
      <4>3. QED
        BY <1>4, <4>1, <4>2
    <3>2. CASE r # s
      <4>1. session'[r].refs = session[r].refs /\ Users(r)' = Users(r)
        BY <1>9, <1>11, <3>2
      <4>2. session[r].refs = Cardinality(Users(r))
        BY DEF IInv, Counted
      <4>3. QED
        BY <4>1, <4>2
    <3>3. QED
      BY <3>1, <3>2
  <2>2. QED
    BY <2>1 DEF Counted
<1>16. Mapped'
  <2>1. ASSUME NEW q \in Path, NEW r \in Task, sessions'[q] = r
        PROVE  session'[r].path = q /\ Users(r)' # {}
    <3>1. sessions[q] = r
      BY <1>1, <1>7, <2>1 DEF TypeOK
    <3>2. session[r].path = q /\ Users(r) # {}
      BY <3>1 DEF IInv, Mapped
    <3>3. ~(r = s /\ last)
      BY <1>1, <1>7, <2>1, <3>1, <3>2 DEF TypeOK
    <3>4. QED
      BY <1>2, <1>4, <1>10, <1>11, <3>2, <3>3
  <2>2. QED
    BY <2>1 DEF Mapped
<1>17. SessionStates'
  <2>1. ASSUME NEW r \in Task
        PROVE  /\ ~session'[r].ready =>
                    session'[r].db = "none" /\ session'[r].initErr = "none"
               /\ session'[r].initErr # "none" => session'[r].db = "none"
               /\ session'[r].db = "none" =>
                    /\ session'[r].schemas = {}
                    /\ lease'[r] # {} => task'[r].at = "opening"
               /\ session'[r].db = "open" => session'[r].path \in Path
               /\ session'[r].db = "open" => lease'[r] = {session'[r].path}
               /\ session'[r].ready /\ session'[r].initErr = "none" /\ Users(r)' # {} =>
                    session'[r].db = "open"
    <3>1. task[r].at = "opening" => task'[r] = task[r]
      BY <1>1, <1>8
    <3>2. Users(r)' # {} => Users(r) # {}
      BY <1>11
    <3>3. QED
      BY <1>1, <1>10, <3>1, <3>2 DEF IInv, SessionStates
  <2>2. QED
    BY <2>1 DEF SessionStates
<1>18. Closing'
  <2>1. ASSUME NEW r \in Task, NEW u \in Closers(r)'
        PROVE  /\ Users(r)' = {}
               /\ task'[u].at = "unleasing" => session'[r].db # "open"
               /\ \A v \in Closers(r)' : u = v
    <3>1. CASE r = s /\ last
      BY <1>4, <1>5, <1>8, <1>11, <2>1, <3>1
    <3>2. CASE ~(r = s /\ last)
      <4>1. u \in Closers(r) /\ Closers(r)' = Closers(r) /\ r # s
        BY <1>11, <2>1, <3>2
      <4>2. u # t
        BY <1>1, <4>1 DEF Closers, Ending
      <4>3. u \in Task
        BY <4>1 DEF Closers
      <4>4. QED
        BY <1>8, <1>10, <1>11, <4>1, <4>2, <4>3 DEF IInv, Closing
    <3>3. QED
      BY <3>1, <3>2
  <2>2. ASSUME NEW r \in Task, Users(r)' = {}
        PROVE  /\ session'[r].db = "open" =>
                    \E u \in Closers(r)' : task'[u].at = "closing"
               /\ lease'[r] # {} => Closers(r)' # {}
    <3>1. CASE r = s
      <4>1. last
        BY <1>2, <1>4, <1>11, <2>2, <3>1
      <4>2. t \in Closers(r)' /\ task'[t].at = "closing"
        BY <1>5, <1>8, <1>11, <3>1, <4>1
      <4>3. QED
        BY <4>2
    <3>2. CASE r # s
      <4>1. Users(r) = {} /\ Closers(r)' = Closers(r)
        BY <1>11, <2>2, <3>2
      <4>2. \A u \in Closers(r) : task'[u] = task[u]
        BY <1>1, <1>8 DEF Closers, Ending
      <4>3. QED
        BY <1>1, <1>10, <4>1, <4>2 DEF IInv, Closing
    <3>3. QED
      BY <3>1, <3>2
  <2>3. QED
    BY <2>1, <2>2 DEF Closing
<1>19. ConnectedIsReady' /\ SchemaLocks' /\ WritesRemembered'
  <2>1. \A u \in Task : task[u].at \in Connected => task[u].on \in Task
    BY DEF IInv, AtSession, Connected
  <2>2. task[t].at \notin Connected /\ task'[t].at \notin Connected
    BY <1>1, <1>5, <1>8 DEF Connected
  <2>3. QED
    BY <1>8, <1>10, <2>1, <2>2, Bystanders
<1>20. RememberedSchemasExist' /\ Coordinator!Exclusive'
  BY <1>1, <1>10 DEF IInv, RememberedSchemasExist, Coordinator!Exclusive
<1>21. QED
  BY <1>12, <1>13, <1>14, <1>15, <1>16, <1>17, <1>18, <1>19, <1>20 DEF IInv

(***************************************************************************)
(* The last user closes the database and releases the lease.               *)
(***************************************************************************)
LEMMA CloseStep ==
  ASSUME IInv, NEW t \in Task, NEW fine \in BOOLEAN, CloseDatabase(t, fine)
  PROVE  IInv'
<1> USE NoTaskIsNone
<1> DEFINE s == task[t].on
<1> DEFINE opened == session[s].db = "open"
<1> DEFINE res == IF opened /\ ~fine /\ task[t].result = "ok" THEN "failed"
                  ELSE task[t].result
<1> DEFINE row == [task[t] EXCEPT !.at = "unleasing", !.result = res]
<1> DEFINE srow == IF opened THEN [session[s] EXCEPT !.db = "closed"] ELSE session[s]
<1>1. /\ TypeOK /\ task[t] \in TaskRow /\ task[t].at = "closing"
      /\ UNCHANGED <<sessions, wants, lease, catalog>>
  BY TaskType DEF IInv, CloseDatabase
<1>2. /\ s \in Task /\ t \in Closers(s) /\ Users(s) = {}
  BY <1>1 DEF IInv, AtSession, Closing, Closers, Ending
<1>3. /\ row \in TaskRow /\ row.at = "unleasing" /\ row.on = s
      /\ task' = [task EXCEPT ![t] = row]
  <2>1. res \in Result
    BY <1>1 DEF TaskRow, Result
  <2>2. row \in TaskRow /\ row.at = "unleasing" /\ row.on = s
    BY <1>1, <2>1 DEF TaskRow, Where
  <2>3. task' = [task EXCEPT ![t] = row]
    BY DEF CloseDatabase
  <2>4. QED
    BY <2>2, <2>3
<1>4. session[s] \in SessionRow
  BY <1>1, <1>2, SessionType
<1>5. /\ srow \in SessionRow /\ srow.refs = session[s].refs
      /\ srow.path = session[s].path /\ srow.ready = session[s].ready
      /\ srow.initErr = session[s].initErr
      /\ srow.db = IF opened THEN "closed" ELSE session[s].db
      /\ srow.schemas = session[s].schemas /\ srow.schemaMu = session[s].schemaMu
  BY <1>4 DEF SessionRow
<1>6. session' = [session EXCEPT ![s] = srow]
  <2>1. CASE opened
    BY <2>1 DEF CloseDatabase
  <2>2. CASE ~opened
    BY <1>1, <1>2, <2>2 DEF CloseDatabase, TypeOK
  <2>3. QED
    BY <2>1, <2>2
<1> HIDE DEF row, srow, res
<1>7. \A u \in Task : task'[u] = IF u = t THEN row ELSE task[u]
  BY <1>1, <1>3 DEF TypeOK
<1>8. \A r \in Task : session'[r] = IF r = s THEN srow ELSE session[r]
  BY <1>1, <1>2, <1>6 DEF TypeOK
<1>9. \A r \in Task :
        /\ session'[r].path = session[r].path
        /\ session'[r].refs = session[r].refs
        /\ session'[r].ready = session[r].ready
        /\ session'[r].initErr = session[r].initErr
        /\ session'[r].schemas = session[r].schemas
        /\ session'[r].schemaMu = session[r].schemaMu
        /\ session'[r].db = "open" <=> session[r].db = "open" /\ r # s
        /\ session'[r].db = "none" <=> session[r].db = "none"
  BY <1>5, <1>8
<1>10. \A r : Users(r)' = Users(r) /\ Closers(r)' = Closers(r)
  <2>1. \A u \in Task : /\ task'[u].on = task[u].on
                        /\ task'[u].at \in Referencing <=> task[u].at \in Referencing
                        /\ task'[u].at \in Ending <=> task[u].at \in Ending
    BY <1>1, <1>3, <1>7 DEF Referencing, Connected, Ending
  <2>2. QED
    BY <2>1, SameUsers, SameClosers
<1>11. TypeOK'
  BY <1>1, <1>3, <1>5, <1>6 DEF TypeOK
<1>12. AtSession'
  <2>1. \A u \in Task :
          /\ task'[u].on = task[u].on
          /\ task'[u].at \in {"new", "done"} <=> task[u].at \in {"new", "done"}
          /\ task'[u].at = "new" <=> task[u].at = "new"
    BY <1>1, <1>3, <1>7
  <2>2. QED
    BY <1>9, <2>1 DEF IInv, AtSession, On
<1>13. Initializing'
  BY <1>1, <1>3, <1>7, <1>9 DEF IInv, Initializing
<1>14. Counted' /\ Mapped'
  BY <1>1, <1>9, <1>10 DEF IInv, Counted, Mapped
<1>15. SessionStates'
  <2>1. ASSUME NEW r \in Task
        PROVE  /\ ~session'[r].ready =>
                    session'[r].db = "none" /\ session'[r].initErr = "none"
               /\ session'[r].initErr # "none" => session'[r].db = "none"
               /\ session'[r].db = "none" =>
                    /\ session'[r].schemas = {}
                    /\ lease'[r] # {} => task'[r].at = "opening"
               /\ session'[r].db = "open" => session'[r].path \in Path
               /\ session'[r].db = "open" => lease'[r] = {session'[r].path}
               /\ session'[r].ready /\ session'[r].initErr = "none" /\ Users(r)' # {} =>
                    session'[r].db = "open"
    <3>1. task[r].at = "opening" => task'[r] = task[r]
      BY <1>1, <1>7
    <3>2. Users(r)' # {} => Users(r) # {} /\ r # s
      BY <1>2, <1>10
    <3>3. QED
      BY <1>1, <1>9, <3>1, <3>2 DEF IInv, SessionStates
  <2>2. QED
    BY <2>1 DEF SessionStates
<1>16. Closing'
  <2>1. ASSUME NEW r \in Task, NEW u \in Closers(r)
        PROVE  /\ Users(r)' = {}
               /\ task'[u].at = "unleasing" => session'[r].db # "open"
               /\ \A v \in Closers(r) : u = v
               /\ r # s => task'[u] = task[u]
    <3>1. u \in Task /\ task[u].on = r
      BY DEF Closers
    <3>2. /\ Users(r) = {} /\ (task[u].at = "unleasing" => session[r].db # "open")
          /\ \A v \in Closers(r) : u = v
      BY DEF IInv, Closing
    <3>3. CASE u = t
      BY <1>9, <1>10, <3>1, <3>2, <3>3
    <3>4. CASE u # t
      BY <1>7, <1>9, <1>10, <3>1, <3>2, <3>4
    <3>5. QED
      BY <3>3, <3>4
  <2>2. ASSUME NEW r \in Task, Users(r)' = {}
        PROVE  /\ session'[r].db = "open" =>
                    \E u \in Closers(r) : task'[u].at = "closing"
               /\ lease'[r] # {} => Closers(r) # {}
    <3>1. Users(r) = {}
      BY <1>10, <2>2
    <3>2. /\ session[r].db = "open" => \E u \in Closers(r) : task[u].at = "closing"
          /\ lease[r] # {} => Closers(r) # {}
      BY <3>1 DEF IInv, Closing
    <3>3. QED
      BY <1>1, <1>9, <2>1, <3>2
  <2>3. QED
    BY <1>10, <2>1, <2>2 DEF Closing
<1>17. ConnectedIsReady' /\ SchemaLocks' /\ WritesRemembered'
  <2>1. \A u \in Task : task[u].at \in Connected => task[u].on \in Task
    BY DEF IInv, AtSession, Connected
  <2>2. task[t].at \notin Connected /\ task'[t].at \notin Connected
    BY <1>1, <1>3, <1>7 DEF Connected
  <2>3. QED
    BY <1>7, <1>9, <2>1, <2>2, Bystanders
<1>18. RememberedSchemasExist' /\ Coordinator!Exclusive'
  BY <1>1, <1>9 DEF IInv, RememberedSchemasExist, Coordinator!Exclusive
<1>19. QED
  BY <1>11, <1>12, <1>13, <1>14, <1>15, <1>16, <1>17, <1>18 DEF IInv

LEMMA ReleaseStep ==
  ASSUME IInv, NEW t \in Task, ReleaseLease(t)
  PROVE  IInv'
<1> USE NoTaskIsNone
<1> DEFINE s == task[t].on
<1> DEFINE row == Returned(task[t])
<1>1. /\ TypeOK /\ task[t] \in TaskRow /\ task[t].at = "unleasing"
      /\ UNCHANGED <<sessions, session, wants, catalog>>
      /\ lease \in [Task \cup Lessee -> SUBSET Path]
  BY TaskType DEF IInv, ReleaseLease, TypeOK
<1>2. /\ s \in Task /\ t \in Closers(s) /\ Users(s) = {}
      /\ session[s].db # "open" /\ \A u \in Closers(s) : u = t
  BY <1>1 DEF IInv, AtSession, Closing, Closers, Ending
<1>3. /\ row \in TaskRow /\ row.at = "done" /\ row.on = NoTask
      /\ task' = [task EXCEPT ![t] = row]
  BY <1>1, ReturnedRow DEF ReleaseLease
<1> HIDE DEF row
<1>4. \A u \in Task : task'[u] = IF u = t THEN row ELSE task[u]
  BY <1>1, <1>3 DEF TypeOK
<1>5. session[s].db = "none" => lease[s] = {}
  <2>1. ASSUME session[s].db = "none", lease[s] # {}
        PROVE  FALSE
    <3>1. task[s].at = "opening"
      BY <1>2, <2>1 DEF IInv, SessionStates
    <3>2. task[s].on = s
      BY <1>2, <3>1 DEF IInv, Initializing
    <3>3. s \in Users(s)
      BY <1>2, <3>1, <3>2 DEF Users, Referencing
    <3>4. QED
      BY <1>2, <3>3
  <2>2. QED
    BY <2>1
<1>6. \A c \in Task \cup Lessee : lease'[c] = IF c = s THEN {} ELSE lease[c]
  <2>1. CASE session[s].db = "none"
    <3>1. \A c \in Task \cup Lessee : lease'[c] = lease[c]
      BY <2>1 DEF ReleaseLease, Coordinator!Return, On
    <3>2. QED
      BY <1>5, <2>1, <3>1
  <2>2. CASE session[s].db # "none"
    BY <2>2 DEF ReleaseLease, Coordinator!Return, On
  <2>3. QED
    BY <2>1, <2>2
<1>7. TypeOK'
  <2>1. lease' \in [Task \cup Lessee -> SUBSET Path]
    BY <1>1 DEF ReleaseLease, Coordinator!Return
  <2>2. QED
    BY <1>1, <1>3, <2>1 DEF TypeOK
<1>8. \A r \in Task : /\ Users(r)' = Users(r)
                      /\ Closers(r)' = IF r = s THEN {} ELSE Closers(r)
  <2>1. ASSUME NEW r \in Task
        PROVE  Users(r)' = Users(r)
    BY <1>1, <1>3, <1>4 DEF Users, Referencing, Connected
  <2>2. ASSUME NEW r \in Task
        PROVE  Closers(r)' = IF r = s THEN {} ELSE Closers(r)
    <3>1. \A u \in Task : (u \in Closers(r))' <=> u \in Closers(r) /\ u # t
      BY <1>1, <1>3, <1>4 DEF Closers, Ending
    <3>2. t \in Closers(r) <=> r = s
      BY <1>2 DEF Closers
    <3>3. Closers(r) \subseteq Task /\ Closers(r)' \subseteq Task
      BY DEF Closers
    <3>4. QED
      BY <1>2, <3>1, <3>2, <3>3
  <2>3. QED
    BY <2>1, <2>2
<1>9. AtSession'
  <2>1. ASSUME NEW u \in Task
        PROVE  IF task'[u].at \in {"new", "done"}
               THEN task'[u].on = NoTask
               ELSE /\ task'[u].on \in Task
                    /\ session'[task'[u].on].path \in Path
                    /\ task'[task'[u].on].at # "new"
    <3>1. CASE u = t
      BY <1>3, <1>4, <3>1
    <3>2. CASE u # t
      BY <1>1, <1>3, <1>4, <3>2 DEF IInv, AtSession, On
    <3>3. QED
      BY <3>1, <3>2
  <2>2. QED
    BY <2>1 DEF AtSession, On
<1>10. Initializing'
  <2>1. ASSUME NEW u \in Task, task'[u].at \in {"initializing", "opening"}
        PROVE  u # t /\ u # s /\ task'[u] = task[u] /\ lease'[u] = lease[u]
    <3>1. u # t /\ task'[u] = task[u]
      BY <1>3, <1>4, <2>1
    <3>2. task[u].on = u
      BY <2>1, <3>1 DEF IInv, Initializing
    <3>3. u \in Users(u)
      BY <2>1, <3>1, <3>2 DEF Users, Referencing
    <3>4. QED
      BY <1>2, <1>6, <3>1, <3>3
  <2>2. QED
    BY <1>1, <2>1 DEF IInv, Initializing
<1>11. Counted' /\ Mapped'
  BY <1>1, <1>8 DEF IInv, Counted, Mapped
<1>12. SessionStates'
  <2>1. ASSUME NEW r \in Task
        PROVE  /\ ~session[r].ready =>
                    session[r].db = "none" /\ session[r].initErr = "none"
               /\ session[r].initErr # "none" => session[r].db = "none"
               /\ session[r].db = "none" =>
                    /\ session[r].schemas = {}
                    /\ lease'[r] # {} => task'[r].at = "opening"
               /\ session[r].db = "open" => session[r].path \in Path
               /\ session[r].db = "open" => lease'[r] = {session[r].path}
               /\ session[r].ready /\ session[r].initErr = "none" /\ Users(r)' # {} =>
                    session[r].db = "open"
    <3>1. task[r].at = "opening" => task'[r] = task[r]
      BY <1>1, <1>4
    <3>2. lease'[r] = IF r = s THEN {} ELSE lease[r]
      BY <1>6
    <3>3. QED
      BY <1>2, <1>8, <3>1, <3>2 DEF IInv, SessionStates
  <2>2. QED
    BY <1>1, <2>1 DEF SessionStates
<1>13. Closing'
  <2>1. ASSUME NEW r \in Task, NEW u \in Closers(r)'
        PROVE  /\ Users(r)' = {}
               /\ task'[u].at = "unleasing" => session'[r].db # "open"
               /\ \A v \in Closers(r)' : u = v
    <3>1. r # s /\ u \in Closers(r) /\ Closers(r)' = Closers(r)
      BY <1>8, <2>1
    <3>2. u # t /\ u \in Task
      BY <3>1 DEF Closers
    <3>3. QED
      BY <1>1, <1>4, <1>8, <3>1, <3>2 DEF IInv, Closing
  <2>2. ASSUME NEW r \in Task, Users(r)' = {}
        PROVE  /\ session'[r].db = "open" =>
                    \E u \in Closers(r)' : task'[u].at = "closing"
               /\ lease'[r] # {} => Closers(r)' # {}
    <3>1. CASE r = s
      BY <1>1, <1>2, <1>6, <3>1
    <3>2. CASE r # s
      <4>1. Users(r) = {} /\ Closers(r)' = Closers(r) /\ lease'[r] = lease[r]
        BY <1>6, <1>8, <2>2, <3>2
      <4>2. \A u \in Closers(r) : task'[u] = task[u]
        BY <1>4, <3>2 DEF Closers
      <4>3. QED
        BY <1>1, <4>1, <4>2 DEF IInv, Closing
    <3>3. QED
      BY <3>1, <3>2
  <2>3. QED
    BY <2>1, <2>2 DEF Closing
<1>14. ConnectedIsReady' /\ SchemaLocks' /\ WritesRemembered'
  <2>1. task[t].at \notin Connected /\ task'[t].at \notin Connected
    BY <1>1, <1>3, <1>4 DEF Connected
  <2>2. QED
    BY <1>1, <1>4, <2>1, Bystanders
<1>15. RememberedSchemasExist' /\ Coordinator!Exclusive'
  BY <1>1, <1>6 DEF IInv, RememberedSchemasExist, Coordinator!Exclusive
<1>16. QED
  BY <1>7, <1>9, <1>10, <1>11, <1>12, <1>13, <1>14, <1>15 DEF IInv

(***************************************************************************)
(* The other writers, and the end of the server.                           *)
(***************************************************************************)
LEMMA LesseeMove ==
  ASSUME IInv, UNCHANGED <<sessions, session, task>>,
         wants' \in [Lessee -> SUBSET Path],
         lease' \in [Task \cup Lessee -> SUBSET Path],
         catalog' \in [Path -> SUBSET Schema],
         \A s \in Task : lease'[s] = lease[s],
         Coordinator!Exclusive', RememberedSchemasExist'
  PROVE  IInv'
<1>1. TypeOK'
  BY DEF IInv, TypeOK
<1>2. \A s : Users(s)' = Users(s) /\ Closers(s)' = Closers(s)
  BY SameUsers, SameClosers
<1>3. AtSession' /\ Initializing' /\ ConnectedIsReady' /\ SchemaLocks' /\ WritesRemembered'
  BY DEF IInv, AtSession, Initializing, ConnectedIsReady, SchemaLocks,
         WritesRemembered, On
<1>4. Counted' /\ Mapped' /\ SessionStates' /\ Closing'
  BY <1>2 DEF IInv, Counted, Mapped, SessionStates, Closing
<1>5. QED
  BY <1>1, <1>3, <1>4 DEF IInv

LEMMA LesseeSteps ==
  ASSUME IInv, NEW l \in Lessee, LesseeNext(l)
  PROVE  IInv'
<1> USE NoTaskIsNone
<1>1. /\ TypeOK /\ l \notin Task /\ Coordinator!Exclusive /\ RememberedSchemasExist
      /\ wants \in [Lessee -> SUBSET Path]
      /\ lease \in [Task \cup Lessee -> SUBSET Path]
      /\ catalog \in [Path -> SUBSET Schema]
  BY SessionAssumption DEF SessionAssumption, IInv, TypeOK
<1>2. ASSUME NEW ps \in SUBSET Path, Ask(l, ps)
      PROVE  IInv'
  BY <1>1, <1>2, LesseeMove DEF Ask, Coordinator!Exclusive, RememberedSchemasExist
<1>3. CASE Granted(l)
  <2>1. /\ UNCHANGED <<sessions, session, task, wants, catalog>>
        /\ lease' = [lease EXCEPT ![l] = wants[l]]
        /\ \A d \in Task \cup Lessee : lease[d] \cap wants[l] = {}
    BY <1>3 DEF Granted, Coordinator!Grant
  <2>2. /\ lease' \in [Task \cup Lessee -> SUBSET Path]
        /\ \A s \in Task : lease'[s] = lease[s]
    BY <1>1, <2>1
  <2>3. Coordinator!Exclusive'
    BY <1>1, <2>1 DEF Coordinator!Exclusive
  <2>4. RememberedSchemasExist'
    BY <1>1, <2>1 DEF RememberedSchemasExist
  <2>5. QED
    BY <1>1, <2>1, <2>2, <2>3, <2>4, LesseeMove
<1>4. CASE GivesBack(l)
  <2>1. /\ UNCHANGED <<sessions, session, task, catalog>>
        /\ wants' \in [Lessee -> SUBSET Path]
    BY <1>1, <1>4 DEF GivesBack
  <2>2. \A c \in Task \cup Lessee : lease'[c] = IF c = l THEN {} ELSE lease[c]
    BY <1>4 DEF GivesBack, Coordinator!Return
  <2>3. /\ lease' \in [Task \cup Lessee -> SUBSET Path]
        /\ \A s \in Task : lease'[s] = lease[s]
    <3>1. lease' \in [Task \cup Lessee -> SUBSET Path]
      BY <1>1, <1>4 DEF GivesBack, Coordinator!Return
    <3>2. QED
      BY <1>1, <2>2, <3>1
  <2>4. Coordinator!Exclusive'
    BY <1>1, <2>2 DEF Coordinator!Exclusive
  <2>5. RememberedSchemasExist'
    BY <1>1, <2>1 DEF RememberedSchemasExist
  <2>6. QED
    BY <1>1, <2>1, <2>3, <2>4, <2>5, LesseeMove
<1>5. ASSUME NEW p \in Path, NEW sc \in Schema, DropSchema(l, p, sc)
      PROVE  IInv'
  <2>1. /\ UNCHANGED <<sessions, session, task, wants, lease>> /\ p \in lease[l]
        /\ catalog' = [catalog EXCEPT ![p] = @ \ {sc}]
    BY <1>5 DEF DropSchema
  <2>2. RememberedSchemasExist'
    <3>1. ASSUME NEW s \in Task, session[s].db = "open"
          PROVE  session[s].schemas \subseteq catalog'[session[s].path]
      <4>1. session[s].path \in Path /\ lease[s] = {session[s].path}
        BY <3>1 DEF IInv, SessionStates
      <4>2. session[s].path # p
        BY <1>1, <2>1, <4>1 DEF Coordinator!Exclusive
      <4>3. catalog'[session[s].path] = catalog[session[s].path]
        BY <1>1, <2>1, <4>1, <4>2
      <4>4. QED
        BY <1>1, <3>1, <4>3 DEF RememberedSchemasExist
    <3>2. QED
      BY <2>1, <3>1 DEF RememberedSchemasExist
  <2>3. catalog' \in [Path -> SUBSET Schema]
    BY <1>1, <2>1
  <2>4. Coordinator!Exclusive'
    BY <1>1, <2>1 DEF Coordinator!Exclusive
  <2>5. QED
    BY <1>1, <2>1, <2>2, <2>3, <2>4, LesseeMove
<1>6. QED
  BY <1>2, <1>3, <1>4, <1>5 DEF LesseeNext

LEMMA CrashStep == IInv /\ Crash => IInv'
<1> SUFFICES ASSUME IInv, Crash PROVE IInv'
  OBVIOUS
<1> USE NoTaskIsNone
<1> DEFINE gone == [NewTask EXCEPT !.at = "done"]
<1>1. /\ \A t \in Task : task'[t] = IF task[t].at = "new" THEN task[t] ELSE gone
      /\ \A t \in Task : session'[t] = NoSession
      /\ \A p \in Path : sessions'[p] = NoTask
      /\ UNCHANGED <<wants, catalog>>
  BY DEF Crash
<1>2. /\ gone \in TaskRow /\ gone.at = "done" /\ gone.on = NoTask
      /\ NoSession \in SessionRow
  BY DEF NewTask, TaskRow, Where, Result, NoSession, SessionRow, InitError
<1>3. \A c \in Task \cup Lessee : lease'[c] = IF c \in Task THEN {} ELSE lease[c]
  BY DEF Crash, Coordinator!Return
<1>4. TypeOK'
  <2>1. lease' \in [Task \cup Lessee -> SUBSET Path]
    BY DEF Crash, Coordinator!Return, IInv, TypeOK
  <2>2. task' \in [Task -> TaskRow]
    BY <1>2 DEF Crash, IInv, TypeOK
  <2>3. QED
    BY <1>1, <1>2, <2>1, <2>2 DEF Crash, IInv, TypeOK
<1> HIDE DEF gone
<1>5. \A t \in Task : task'[t].on = NoTask /\ task'[t].at \in {"new", "done"}
  BY <1>1, <1>2 DEF IInv, AtSession
<1>6. \A s \in Task : Users(s)' = {} /\ Closers(s)' = {}
  BY <1>5 DEF Users, Closers
<1>7. AtSession' /\ Initializing' /\ Mapped' /\ ConnectedIsReady' /\ WritesRemembered'
  BY <1>1, <1>5 DEF AtSession, Initializing, Mapped, ConnectedIsReady,
                    WritesRemembered, Connected
<1>8. Counted'
  BY SMTT(60), <1>1, <1>6, FS_EmptySet DEF Counted, NoSession
<1>9. SessionStates' /\ SchemaLocks' /\ RememberedSchemasExist'
  BY <1>1, <1>3, <1>5, <1>6
     DEF SessionStates, SchemaLocks, RememberedSchemasExist, NoSession
<1>10. Closing' /\ Coordinator!Exclusive'
  BY <1>1, <1>3, <1>6 DEF Closing, Coordinator!Exclusive, NoSession, IInv
<1>11. QED
  BY <1>4, <1>7, <1>8, <1>9, <1>10 DEF IInv

----------------------------------------------------------------------------
LEMMA TaskSteps ==
  ASSUME IInv, NEW t \in Task, TaskNext(t)
  PROVE  IInv'
<1>1. CASE Begin(t)
  BY <1>1, JoinStep, StartStep DEF Begin
<1>2. "none" \in Result
  BY DEF Result
<1>3. CASE Enter(t)
  BY <1>2, <1>3, OwnerSteps, LocalSteps DEF Enter
<1>4. CASE Attempt(t)
  BY <1>2, <1>4, SchemaSteps, LocalSteps DEF Attempt
<1>5. CASE Exit(t)
  BY <1>5, LeaveStep, CloseStep, ReleaseStep DEF Exit
<1>6. CASE Cancel(t)
  BY <1>2, <1>6, LocalSteps
<1>7. QED
  BY <1>1, <1>3, <1>4, <1>5, <1>6 DEF TaskNext

LEMMA StepInvariant == IInv /\ [Next]_vars => IInv'
<1> SUFFICES ASSUME IInv, [Next]_vars PROVE IInv'
  OBVIOUS
<1>1. CASE Next
  BY <1>1, TaskSteps, LesseeSteps, CrashStep DEF Next
<1>2. CASE UNCHANGED vars
  <2>1. UNCHANGED <<sessions, session, task, wants, lease, catalog>>
    BY <1>2 DEF vars
  <2>2. QED
    BY <2>1, LesseeMove DEF IInv, TypeOK, Coordinator!Exclusive, RememberedSchemasExist
<1>3. QED
  BY <1>1, <1>2

(***************************************************************************)
(* The invariant holds for any tasks, lessees, files and schemas, however  *)
(* initializations, statements and closes end and whenever the server dies *)
(* (Manager.Execute).                                                      *)
(***************************************************************************)
THEOREM Invariant == Spec => []IInv
<1>1. QED
  BY InitInvariant, StepInvariant, PTL DEF Spec

(***************************************************************************)
(* The types of the sessions and the calls; reference counts never go      *)
(* below zero (session.refs in Manager.release).                           *)
(***************************************************************************)
THEOREM TypeCorrect == Spec => []TypeOK
<1>1. IInv => TypeOK
  BY DEF IInv
<1>2. QED
  BY <1>1, Invariant, PTL

(***************************************************************************)
(* A file is open once: in one session, or with one lessee                 *)
(* (Manager.initialize, Manager.release).                                  *)
(***************************************************************************)
THEOREM OneHandle == Spec => []OneHandlePerFile
<1>1. ASSUME IInv PROVE OneHandlePerFile
  <2>1. ASSUME NEW p \in Path, NEW s \in OpenSessions(p)
        PROVE  s \in Task /\ lease[s] = {p}
    BY <1>1, <2>1 DEF OpenSessions, IInv, SessionStates
  <2>2. Coordinator!Exclusive /\ Task \cap Lessee = {}
    BY <1>1, SessionAssumption DEF SessionAssumption, IInv
  <2>3. ASSUME NEW p \in Path
        PROVE  /\ \A s, r \in OpenSessions(p) : s = r
               /\ \A l, k \in OpenLessees(p) : l = k
               /\ OpenSessions(p) = {} \/ OpenLessees(p) = {}
    <3>1. \A s, r \in OpenSessions(p) : s = r
      BY <2>1, <2>2 DEF Coordinator!Exclusive
    <3>2. \A l, k \in OpenLessees(p) : l = k
      BY <2>2 DEF Coordinator!Exclusive, OpenLessees
    <3>3. ASSUME NEW s \in OpenSessions(p), NEW l \in OpenLessees(p)
          PROVE  FALSE
      BY <2>1, <2>2 DEF Coordinator!Exclusive, OpenLessees
    <3>4. QED
      BY <3>1, <3>2, <3>3
  <2>4. QED
    BY <2>3 DEF OneHandlePerFile
<1>2. QED
  BY <1>1, Invariant, PTL

\* The session of a connected task is open, under a lease of its file.
LEMMA ConnectedIsOpen ==
  ASSUME IInv, NEW t \in Task, task[t].at \in Connected
  PROVE  /\ task[t].on \in Task /\ session[task[t].on].db = "open"
         /\ lease[task[t].on] = {session[task[t].on].path}
<1>1. task[t].on \in Task /\ t \in Users(task[t].on)
  BY DEF IInv, AtSession, Connected, Users, Referencing
<1>2. session[task[t].on].ready /\ session[task[t].on].initErr = "none"
  BY DEF IInv, ConnectedIsReady, On
<1>3. QED
  BY <1>1, <1>2 DEF IInv, SessionStates

(***************************************************************************)
(* No connection is made on a session that failed or is closed             *)
(* (Manager.executeAttempt after Manager.acquire).                         *)
(***************************************************************************)
THEOREM ConnectedCorrect == Spec => []ConnectedToOpenDatabase
<1>1. IInv => ConnectedToOpenDatabase
  BY ConnectedIsOpen DEF ConnectedToOpenDatabase, On, File
<1>2. QED
  BY <1>1, Invariant, PTL

(***************************************************************************)
(* What a session remembers exists, although other writers may drop it     *)
(* when they have the file (session.ensureSchema).                         *)
(***************************************************************************)
THEOREM MemoryCorrect == Spec => []RememberedSchemasExist
<1>1. IInv => RememberedSchemasExist
  BY DEF IInv
<1>2. QED
  BY <1>1, Invariant, PTL

(***************************************************************************)
(* An asset writes into a schema that exists (Manager.executeAttempt).     *)
(***************************************************************************)
THEOREM WritesCorrect == Spec => []SchemaBeforeWrite
<1>1. ASSUME IInv PROVE SchemaBeforeWrite
  <2>1. ASSUME NEW t \in Task, task[t].at = "writing", task[t].schema # NoSchema
        PROVE  task[t].schema \in catalog[session[task[t].on].path]
    <3>1. task[t].on \in Task /\ session[task[t].on].db = "open"
      BY <1>1, <2>1, ConnectedIsOpen DEF Connected
    <3>2. task[t].schema \in session[task[t].on].schemas
      BY <1>1, <2>1 DEF IInv, WritesRemembered, On
    <3>3. QED
      BY <1>1, <3>1, <3>2 DEF IInv, RememberedSchemasExist
  <2>2. QED
    BY <2>1 DEF SchemaBeforeWrite, File, On
<1>2. QED
  BY <1>1, Invariant, PTL

(***************************************************************************)
(* After its last user, a session keeps no database, no lease and no place *)
(* in the map (Manager.release).                                           *)
(***************************************************************************)
THEOREM NothingLeft == Spec => []NothingLeftBehind
<1>1. ASSUME IInv PROVE NothingLeftBehind
  <2>1. ASSUME NEW s \in Task, Using(s) = {}
        PROVE  /\ session[s].db # "open" /\ lease[s] = {}
               /\ \A p \in Path : sessions[p] # s
    <3>1. Users(s) = {} /\ Closers(s) = {}
      BY <2>1 DEF Using, Users, Closers, Referencing, Connected, Ending
    <3>2. QED
      BY <1>1, <3>1 DEF IInv, Closing, Mapped
  <2>2. QED
    BY <2>1 DEF NothingLeftBehind
<1>2. QED
  BY <1>1, Invariant, PTL
=============================================================================
