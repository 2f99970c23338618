---------------------------- MODULE DuckSession ----------------------------
(***************************************************************************)
(* Shared sessions on DuckDB files (internal/web/duckdbsession), composed  *)
(* with the coordinator's leases (DuckLease).                              *)
(*                                                                         *)
(* Native tasks call Manager.Execute once each.  The first task at a path  *)
(* makes a session object and initializes it: it leases the file and opens *)
(* the database, while tasks that come later wait on the session's ready   *)
(* channel.  The last one to leave closes the database and releases the    *)
(* lease.  A session is named by the task that made it.                    *)
(* Every other writer of the files (loads, hooks, child processes, other   *)
(* Renart servers) is a lessee: it leases all its files at once and uses   *)
(* handles of its own.                                                     *)
(***************************************************************************)
EXTENDS Naturals, FiniteSets

CONSTANTS
  Task,          \* calls of Manager.Execute
  Lessee,        \* direct callers of Coordinator.Acquire
  Path,          \* canonical database files
  Schema,        \* database schemas
  NoTask, NoPath, NoSchema,
  Retries        \* len(retryDelays)

ASSUME SessionAssumption ==
  /\ IsFiniteSet(Task)
  /\ NoTask \notin Task /\ NoPath \notin Path /\ NoSchema \notin Schema
  /\ Task \cap Lessee = {}
  /\ Retries \in Nat

VARIABLES
  sessions,      \* Manager.sessions
  session,       \* the session objects
  task,          \* the calls of Execute
  wants,         \* the files each lessee asked for and has not given back
  lease,         \* the coordinator's leases, of sessions and lessees
  catalog        \* the schemas stored in each database file

vars == <<sessions, session, task, wants, lease, catalog>>

Coordinator == INSTANCE DuckLease WITH Caller <- Task \cup Lessee

InitError == {"none", "cancelled", "failed"}
SessionRow ==
  [path : Path \cup {NoPath}, refs : Nat, ready : BOOLEAN,
   initErr : InitError, db : {"none", "open", "closed"},
   schemas : SUBSET Schema, schemaMu : Task \cup {NoTask}]

Where == {"new", "initializing", "opening", "joining", "connecting",
          "schema", "creating", "writing", "retrying", "leaving", "closing",
          "unleasing", "done"}
Result == {"none", "ok", "conflict", "failed", "cancelled"}
TaskRow ==
  [at : Where, on : Task \cup {NoTask}, schema : Schema \cup {NoSchema},
   attempt : Nat, cancelled : BOOLEAN, result : Result]

TypeOK ==
  /\ sessions \in [Path -> Task \cup {NoTask}]
  /\ session \in [Task -> SessionRow]
  /\ task \in [Task -> TaskRow]
  /\ wants \in [Lessee -> SUBSET Path]
  /\ lease \in [Task \cup Lessee -> SUBSET Path]
  /\ catalog \in [Path -> SUBSET Schema]

NoSession == [path |-> NoPath, refs |-> 0, ready |-> FALSE,
              initErr |-> "none", db |-> "none", schemas |-> {},
              schemaMu |-> NoTask]
NewTask == [at |-> "new", on |-> NoTask, schema |-> NoSchema, attempt |-> 0,
            cancelled |-> FALSE, result |-> "none"]

Init ==
  /\ sessions = [p \in Path |-> NoTask]
  /\ session = [s \in Task |-> NoSession]
  /\ task = [t \in Task |-> NewTask]
  /\ wants = [l \in Lessee |-> {}]
  /\ Coordinator!Init
  /\ catalog = [p \in Path |-> {}]

----------------------------------------------------------------------------
\* The session a task uses and its file.
On(t) == session[task[t].on]
File(t) == On(t).path

Goes(t, from, to) ==
  /\ task[t].at = from
  /\ task' = [task EXCEPT ![t].at = to]

\* The call returns: what is left of it is its result.
Returned(row) ==
  [NewTask EXCEPT !.at = "done", !.result = row.result,
                  !.cancelled = row.cancelled]

Fails(t, err) ==
  task' = [task EXCEPT ![t].at = "leaving", ![t].result = err]

\* A call that observes its context may find it ended, and may fail besides.
MayReport(t, err) ==
  \/ err = "failed"
  \/ err = "cancelled" /\ task[t].cancelled

(***************************************************************************)
(* Execute: the critical section at the head of Manager.acquire, with an   *)
(* object in the map or without.                                           *)
(***************************************************************************)
Join(t, p, sc) ==
  LET s == sessions[p] IN
  /\ task[t].at = "new"
  /\ s # NoTask
  /\ session' = [session EXCEPT ![s].refs = @ + 1]
  /\ task' = [task EXCEPT ![t].at = "joining", ![t].on = s, ![t].schema = sc]
  /\ UNCHANGED <<sessions, wants, lease, catalog>>

Start(t, p, sc) ==
  /\ task[t].at = "new"
  /\ sessions[p] = NoTask
  /\ sessions' = [sessions EXCEPT ![p] = t]
  /\ session' = [session EXCEPT ![t] =
                   [NoSession EXCEPT !.path = p, !.refs = 1]]
  /\ task' = [task EXCEPT ![t].at = "initializing", ![t].on = t,
                          ![t].schema = sc]
  /\ UNCHANGED <<wants, lease, catalog>>

\* Coordinator.Acquire in initialize.
LeaseGranted(t) ==
  /\ Goes(t, "initializing", "opening")
  /\ Coordinator!Grant(t, {File(t)})
  /\ UNCHANGED <<sessions, session, wants, catalog>>

(* Mutant: the lease is kept when the database cannot be opened.          *)
InitFailsKeepsLease(t, err) ==
  /\ task[t].at \in {"initializing", "opening"}
  /\ MayReport(t, err)
  /\ session' = [session EXCEPT ![t].initErr = err, ![t].ready = TRUE]
  /\ Fails(t, err)
  /\ UNCHANGED <<sessions, wants, lease, catalog>>

(* Mutant: ready is closed only on success.                               *)
InitFailsSilently(t, err) ==
  /\ task[t].at \in {"initializing", "opening"}
  /\ MayReport(t, err)
  /\ Coordinator!Return({t})
  /\ session' = [session EXCEPT ![t].initErr = err]
  /\ Fails(t, err)
  /\ UNCHANGED <<sessions, wants, catalog>>

(***************************************************************************)
(* initialize fails, at the lease or at openDuckDBDatabase, which gives    *)
(* the lease back.  acquire stores the error, closes ready and goes on to  *)
(* release; nobody reads the error before ready is closed.                 *)
(***************************************************************************)
InitFails(t, err) ==
  /\ task[t].at \in {"initializing", "opening"}
  /\ MayReport(t, err)
  /\ Coordinator!Return({t})
  /\ session' = [session EXCEPT ![t].initErr = err, ![t].ready = TRUE]
  /\ Fails(t, err)
  /\ UNCHANGED <<sessions, wants, catalog>>

Opened(t) ==
  /\ Goes(t, "opening", "connecting")
  /\ session' = [session EXCEPT ![t].db = "open", ![t].ready = TRUE]
  /\ UNCHANGED <<sessions, wants, lease, catalog>>

(* Mutant: initErr is not looked at.                                      *)
JoinedUnchecked(t) ==
  /\ Goes(t, "joining", "connecting")
  /\ On(t).ready
  /\ UNCHANGED <<sessions, session, wants, lease, catalog>>

\* The wait of a task that joined: ready, or the end of its own context.
Joined(t) ==
  /\ Goes(t, "joining", "connecting")
  /\ On(t).ready /\ On(t).initErr = "none"
  /\ UNCHANGED <<sessions, session, wants, lease, catalog>>

(* Mutant: the reference is given back here and by release again.         *)
JoinFailsDropsTwice(t, err) ==
  /\ task[t].at = "joining"
  /\ \/ On(t).ready /\ On(t).initErr # "none" /\ err = On(t).initErr
     \/ task[t].cancelled /\ err = "cancelled"
  /\ Fails(t, err)
  /\ session' = [session EXCEPT ![task[t].on].refs = @ - 1]
  /\ UNCHANGED <<sessions, wants, lease, catalog>>

JoinFails(t, err) ==
  /\ task[t].at = "joining"
  /\ \/ On(t).ready /\ On(t).initErr # "none" /\ err = On(t).initErr
     \/ task[t].cancelled /\ err = "cancelled"
  /\ Fails(t, err)
  /\ UNCHANGED <<sessions, session, wants, lease, catalog>>

----------------------------------------------------------------------------
\* The end of executeAttempt with an error: another attempt, if the error is
\* a conflict and there is one left, or release.
AttemptFails(t, err) ==
  /\ err = "conflict" \/ MayReport(t, err)
  /\ IF err = "conflict" /\ task[t].attempt < Retries
     THEN task' = [task EXCEPT ![t].at = "retrying"]
     ELSE Fails(t, err)

\* A connection of the task's own, and its settings.
Connect(t) ==
  /\ Goes(t, "connecting",
          IF task[t].schema = NoSchema THEN "writing" ELSE "schema")
  /\ UNCHANGED <<sessions, session, wants, lease, catalog>>

ConnectFails(t, err) ==
  /\ task[t].at = "connecting"
  /\ AttemptFails(t, err)
  /\ UNCHANGED <<sessions, session, wants, lease, catalog>>

\* ensureSchema takes schemaMu; a schema it has seen needs no statement.
SchemaKnown(t) ==
  /\ Goes(t, "schema", "writing")
  /\ On(t).schemaMu = NoTask
  /\ task[t].schema \in On(t).schemas
  /\ UNCHANGED <<sessions, session, wants, lease, catalog>>

(* Mutant: schemaMu is not held while the statement runs.                 *)
CreateSchemaUnlocked(t) ==
  /\ Goes(t, "schema", "creating")
  /\ task[t].schema \notin On(t).schemas
  /\ UNCHANGED <<sessions, session, wants, lease, catalog>>

(* Mutant: the schema is remembered before the statement has run.         *)
CreateSchemaRemembersFirst(t) ==
  /\ Goes(t, "schema", "creating")
  /\ On(t).schemaMu = NoTask
  /\ task[t].schema \notin On(t).schemas
  /\ session' = [session EXCEPT
                   ![task[t].on].schemas = @ \cup {task[t].schema},
                   ![task[t].on].schemaMu = t]
  /\ UNCHANGED <<sessions, wants, lease, catalog>>

CreateSchema(t) ==
  /\ Goes(t, "schema", "creating")
  /\ On(t).schemaMu = NoTask
  /\ task[t].schema \notin On(t).schemas
  /\ session' = [session EXCEPT ![task[t].on].schemaMu = t]
  /\ UNCHANGED <<sessions, wants, lease, catalog>>

\* CREATE SCHEMA IF NOT EXISTS succeeds; the session remembers it.
SchemaCreated(t) ==
  /\ Goes(t, "creating", "writing")
  /\ catalog' = [catalog EXCEPT ![File(t)] = @ \cup {task[t].schema}]
  /\ session' = [session EXCEPT
                   ![task[t].on].schemas = @ \cup {task[t].schema},
                   ![task[t].on].schemaMu = NoTask]
  /\ UNCHANGED <<sessions, wants, lease>>

(* Mutant: a failed statement is remembered like a success.               *)
SchemaFailsRemembers(t, err) ==
  /\ task[t].at = "creating"
  /\ AttemptFails(t, err)
  /\ session' = [session EXCEPT
                   ![task[t].on].schemas = @ \cup {task[t].schema},
                   ![task[t].on].schemaMu = NoTask]
  /\ UNCHANGED <<sessions, wants, lease, catalog>>

\* It fails, or its success is not known; only the session must not count
\* on it.
SchemaFails(t, err) ==
  /\ task[t].at = "creating"
  /\ AttemptFails(t, err)
  /\ \/ UNCHANGED catalog
     \/ catalog' = [catalog EXCEPT ![File(t)] = @ \cup {task[t].schema}]
  /\ session' = [session EXCEPT ![task[t].on].schemaMu = NoTask]
  /\ UNCHANGED <<sessions, wants, lease>>

\* The statement of the asset, which creates a table or a view: assets with
\* DDL or hooks are run by a lessee.
Write(t) ==
  /\ task[t].at = "writing"
  /\ task' = [task EXCEPT ![t].at = "leaving", ![t].result = "ok"]
  /\ UNCHANGED <<sessions, session, wants, lease, catalog>>

WriteFails(t, err) ==
  /\ task[t].at = "writing"
  /\ AttemptFails(t, err)
  /\ UNCHANGED <<sessions, session, wants, lease, catalog>>

\* waitForRetry.
Retry(t) ==
  /\ task[t].at = "retrying"
  /\ task' = [task EXCEPT ![t].at = "connecting", ![t].attempt = @ + 1]
  /\ UNCHANGED <<sessions, session, wants, lease, catalog>>

RetryCancelled(t) ==
  /\ task[t].at = "retrying"
  /\ task[t].cancelled
  /\ Fails(t, "cancelled")
  /\ UNCHANGED <<sessions, session, wants, lease, catalog>>

----------------------------------------------------------------------------
(* Mutant: the lease is released before the database is closed.           *)
LeaveReleasesFirst(t) ==
  LET s == task[t].on IN
  /\ task[t].at = "leaving"
  /\ task' = [task EXCEPT ![t] = IF session[s].refs = 1
                                 THEN [@ EXCEPT !.at = "closing"]
                                 ELSE Returned(@)]
  /\ session' = [session EXCEPT ![s].refs = @ - 1]
  /\ sessions' = IF session[s].refs = 1 /\ sessions[File(t)] = s
                 THEN [sessions EXCEPT ![File(t)] = NoTask] ELSE sessions
  /\ Coordinator!Return(IF session[s].refs = 1 THEN {s} ELSE {})
  /\ UNCHANGED <<wants, catalog>>

\* The critical section of Manager.release.
Leave(t) ==
  LET s == task[t].on IN
  /\ task[t].at = "leaving"
  /\ task' = [task EXCEPT ![t] = IF session[s].refs = 1
                                 THEN [@ EXCEPT !.at = "closing"]
                                 ELSE Returned(@)]
  /\ session' = [session EXCEPT ![s].refs = @ - 1]
  /\ sessions' = IF session[s].refs = 1 /\ sessions[File(t)] = s
                 THEN [sessions EXCEPT ![File(t)] = NoTask] ELSE sessions
  /\ UNCHANGED <<wants, lease, catalog>>

(* Mutant: an error of Close skips the release of the lease.              *)
CloseDatabaseGivesUp(t, fine) ==
  LET s == task[t].on
      opened == session[s].db = "open"
  IN
  /\ task[t].at = "closing"
  /\ session' = IF opened THEN [session EXCEPT ![s].db = "closed"]
                ELSE session
  /\ task' = [task EXCEPT ![t] = IF opened /\ ~fine THEN Returned(@)
                                 ELSE [@ EXCEPT !.at = "unleasing"]]
  /\ UNCHANGED <<sessions, wants, lease, catalog>>

\* database.Close; an error becomes the result of a call that had none.
CloseDatabase(t, fine) ==
  LET s == task[t].on
      opened == session[s].db = "open"
  IN
  /\ task[t].at = "closing"
  /\ session' = IF opened THEN [session EXCEPT ![s].db = "closed"]
                ELSE session
  /\ task' = [task EXCEPT
                ![t].at = "unleasing",
                ![t].result = IF opened /\ ~fine /\ @ = "ok" THEN "failed"
                              ELSE @]
  /\ UNCHANGED <<sessions, wants, lease, catalog>>

\* active.lease is set with active.db, when initialize succeeds.
ReleaseLease(t) ==
  /\ task[t].at = "unleasing"
  /\ task' = [task EXCEPT ![t] = Returned(@)]
  /\ Coordinator!Return(IF On(t).db = "none" THEN {} ELSE {task[t].on})
  /\ UNCHANGED <<sessions, session, wants, catalog>>

Cancel(t) ==
  /\ task[t].at \notin {"new", "done"}
  /\ ~task[t].cancelled
  /\ task' = [task EXCEPT ![t].cancelled = TRUE]
  /\ UNCHANGED <<sessions, session, wants, lease, catalog>>

----------------------------------------------------------------------------
\* A lessee asks for its files, gets them all or gives up, and releases them.
Ask(l, ps) ==
  /\ wants[l] = {} /\ ps # {}
  /\ wants' = [wants EXCEPT ![l] = ps]
  /\ UNCHANGED <<sessions, session, task, lease, catalog>>

Granted(l) ==
  /\ Coordinator!Grant(l, wants[l])
  /\ UNCHANGED <<sessions, session, task, wants, catalog>>

\* Its own SQL, a hook or a child process drops a schema of its files.
DropSchema(l, p, sc) ==
  /\ p \in lease[l]
  /\ catalog' = [catalog EXCEPT ![p] = @ \ {sc}]
  /\ UNCHANGED <<sessions, session, task, wants, lease>>

GivesBack(l) ==
  /\ wants[l] # {}
  /\ wants' = [wants EXCEPT ![l] = {}]
  /\ Coordinator!Return({l})
  /\ UNCHANGED <<sessions, session, task, catalog>>

(***************************************************************************)
(* The server with the sessions is killed.  Its calls never return; the    *)
(* databases keep what was committed.  Calls still to come are made of the *)
(* server that is started next.                                            *)
(***************************************************************************)
Crash ==
  /\ sessions' = [p \in Path |-> NoTask]
  /\ session' = [s \in Task |-> NoSession]
  /\ task' = [t \in Task |-> IF task[t].at = "new" THEN task[t]
                             ELSE [NewTask EXCEPT !.at = "done"]]
  /\ Coordinator!Return(Task)
  /\ UNCHANGED <<wants, catalog>>

Begin(t) ==
  \E p \in Path, sc \in Schema \cup {NoSchema} : Join(t, p, sc) \/ Start(t, p, sc)

Attempt(t) ==
  \/ Connect(t) \/ SchemaKnown(t) \/ CreateSchema(t) \/ SchemaCreated(t)
  \/ Write(t) \/ Retry(t) \/ RetryCancelled(t)
  \/ \E err \in Result : \/ ConnectFails(t, err) \/ SchemaFails(t, err)
                         \/ WriteFails(t, err)

Enter(t) ==
  \/ LeaseGranted(t) \/ Opened(t) \/ Joined(t)
  \/ \E err \in Result : InitFails(t, err) \/ JoinFails(t, err)

Exit(t) ==
  \/ Leave(t) \/ ReleaseLease(t)
  \/ \E fine \in BOOLEAN : CloseDatabase(t, fine)

TaskNext(t) == Begin(t) \/ Enter(t) \/ Attempt(t) \/ Exit(t) \/ Cancel(t)

LesseeNext(l) ==
  \/ \E ps \in SUBSET Path : Ask(l, ps)
  \/ Granted(l) \/ GivesBack(l)
  \/ \E p \in Path, sc \in Schema : DropSchema(l, p, sc)

Next ==
  \/ \E t \in Task : TaskNext(t)
  \/ \E l \in Lessee : LesseeNext(l)
  \/ Crash

Spec == Init /\ [][Next]_vars

(***************************************************************************)
(* Goroutines run and statements end.  The coordinator serves callers of   *)
(* one process in turn, so a lease that is free again and again comes to   *)
(* whoever waits for it; lessees give their files back.                    *)
(***************************************************************************)
Fairness ==
  /\ \A t \in Task :
       /\ WF_vars(Opened(t) \/ Joined(t) \/ \E err \in Result : JoinFails(t, err))
       /\ SF_vars(LeaseGranted(t))
       /\ WF_vars(Connect(t)) /\ WF_vars(SchemaCreated(t))
       /\ SF_vars(SchemaKnown(t) \/ CreateSchema(t))
       /\ WF_vars(Write(t)) /\ WF_vars(Retry(t)) /\ WF_vars(Exit(t))
  /\ \A l \in Lessee :
       SF_vars(Granted(l)) /\ WF_vars(GivesBack(l) /\ lease[l] # {})

FairSpec == Init /\ [][Next]_vars /\ Fairness

----------------------------------------------------------------------------
Connected == {"connecting", "schema", "creating", "writing", "retrying"}

\* Handles on a file: those of sessions, and those of whoever leases it.
OpenSessions(p) ==
  {s \in Task : session[s].db = "open" /\ session[s].path = p}
OpenLessees(p) == {l \in Lessee : p \in lease[l]}

(***************************************************************************)
(* A file has at most one open database: one shared by a session's tasks,  *)
(* or a lessee's.  A session that closes and the next one of the same file *)
(* never overlap, although the second is in the map before the first has   *)
(* closed (the package comment; release).                                  *)
(***************************************************************************)
OneHandlePerFile ==
  \A p \in Path :
    /\ \A s, r \in OpenSessions(p) : s = r
    /\ \A l, k \in OpenLessees(p) : l = k
    /\ OpenSessions(p) = {} \/ OpenLessees(p) = {}

(***************************************************************************)
(* Whoever is between acquire and release has an open database under a     *)
(* lease: no connection is opened on a session that failed to initialize   *)
(* or that another task has closed.                                        *)
(***************************************************************************)
ConnectedToOpenDatabase ==
  \A t \in Task : task[t].at \in Connected =>
    On(t).db = "open" /\ lease[task[t].on] = {File(t)}

(***************************************************************************)
(* A schema that a session remembers is in its database: nobody else can   *)
(* drop it while the session holds the file, and the next session starts   *)
(* with an empty memory (ensureSchema).                                    *)
(***************************************************************************)
RememberedSchemasExist ==
  \A s \in Task : session[s].db = "open" =>
    session[s].schemas \subseteq catalog[session[s].path]

(***************************************************************************)
(* An asset writes only into a schema that exists.                         *)
(***************************************************************************)
SchemaBeforeWrite ==
  \A t \in Task : task[t].at = "writing" /\ task[t].schema # NoSchema =>
    task[t].schema \in catalog[File(t)]

\* The tasks of a session do not create schemas at the same time.
OneCreatorPerSession ==
  \A t, u \in Task :
    task[t].at = "creating" /\ task[u].at = "creating"
      /\ task[t].on = task[u].on => t = u

(***************************************************************************)
(* When the last user of a session has left, its database is closed, its   *)
(* lease is released and the map has forgotten it, on every path through   *)
(* failures and cancellations (Manager.release).                           *)
(***************************************************************************)
Using(s) == {t \in Task : task[t].on = s /\ task[t].at # "done"}

NothingLeftBehind ==
  \A s \in Task : Using(s) = {} =>
    /\ session[s].db # "open" /\ lease[s] = {}
    /\ \A p \in Path : sessions[p] # s

(***************************************************************************)
(* A request fails with a cancellation only if its own context has ended.  *)
(* Requests are said to be independent of each other (the comment of       *)
(* Request); the code lets every task that has joined a session fail with  *)
(* the error of the one that initializes it.                               *)
(***************************************************************************)
OwnCancellation ==
  \A t \in Task : task[t].result = "cancelled" => task[t].cancelled

\* Every call of Execute returns.
RequestsEnd ==
  \A t \in Task : task[t].at # "new" ~> task[t].at = "done"

\* A lessee that waits while sessions drain gets its files or gives up.
LesseesAreServed ==
  \A l \in Lessee : wants[l] # {} ~> wants[l] = {} \/ lease[l] # {}
=============================================================================
