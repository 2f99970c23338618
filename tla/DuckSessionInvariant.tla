------------------------ MODULE DuckSessionInvariant ------------------------
(***************************************************************************)
(* The inductive invariant of the shared DuckDB sessions: who counts as a  *)
(* user of a session, and what a session holds in each of its states.      *)
(***************************************************************************)
EXTENDS DuckSession

\* Between acquire's reference and release's critical section.
Referencing == {"initializing", "opening", "joining", "leaving"} \cup Connected

\* Past it, the last user.
Ending == {"closing", "unleasing"}

Users(s) == {t \in Task : task[t].on = s /\ task[t].at \in Referencing}
Closers(s) == {t \in Task : task[t].on = s /\ task[t].at \in Ending}

\* A call in progress is at a session, made by a call that has begun.
AtSession ==
  \A t \in Task :
    IF task[t].at \in {"new", "done"}
    THEN task[t].on = NoTask
    ELSE /\ task[t].on \in Task
         /\ On(t).path \in Path
         /\ task[task[t].on].at # "new"

\* The task that makes a session is alone to touch it until it is ready.
Initializing ==
  \A t \in Task :
    /\ task[t].at \in {"initializing", "opening"} =>
         task[t].on = t /\ ~session[t].ready
    /\ task[t].at = "initializing" => lease[t] = {}
    /\ task[t].at = "opening" => lease[t] = {session[t].path}

Counted == \A s \in Task : session[s].refs = Cardinality(Users(s))

\* The map holds sessions in use, under their path.
Mapped ==
  \A p \in Path, s \in Task : sessions[p] = s =>
    session[s].path = p /\ Users(s) # {}

\* What a session has become says what it holds.
SessionStates ==
  \A s \in Task :
    /\ ~session[s].ready =>
         session[s].db = "none" /\ session[s].initErr = "none"
    /\ session[s].initErr # "none" => session[s].db = "none"
    /\ session[s].db = "none" =>
         /\ session[s].schemas = {}
         /\ lease[s] # {} => task[s].at = "opening"
    /\ session[s].db = "open" => session[s].path \in Path
    /\ session[s].db = "open" => lease[s] = {session[s].path}
    /\ session[s].ready /\ session[s].initErr = "none" /\ Users(s) # {} =>
         session[s].db = "open"

\* Closing a session is the last thing done to it, by one task.
Closing ==
  /\ \A s \in Task : \A t \in Closers(s) :
       /\ Users(s) = {}
       /\ task[t].at = "unleasing" => session[s].db # "open"
  /\ \A s \in Task : \A t, u \in Closers(s) : t = u
  /\ \A s \in Task : Users(s) = {} =>
       /\ session[s].db = "open" => \E t \in Closers(s) : task[t].at = "closing"
       /\ lease[s] # {} => Closers(s) # {}

ConnectedIsReady ==
  \A t \in Task : task[t].at \in Connected =>
    On(t).ready /\ On(t).initErr = "none"

SchemaLocks ==
  /\ \A s, t \in Task : session[s].schemaMu = t =>
       task[t].at = "creating" /\ task[t].on = s
  /\ \A t \in Task : task[t].at = "creating" => On(t).schemaMu = t

\* ensureSchema is called for a schema, and what it returned is remembered.
WritesRemembered ==
  \A t \in Task :
    /\ task[t].at \in {"schema", "creating"} => task[t].schema # NoSchema
    /\ task[t].at = "writing" /\ task[t].schema # NoSchema =>
         task[t].schema \in On(t).schemas

(***************************************************************************)
(* The inductive invariant.  Exclusive leases make RememberedSchemasExist  *)
(* hold; Counted and Closing, that nobody uses a session that is closed.   *)
(***************************************************************************)
IInv ==
  /\ TypeOK
  /\ AtSession /\ Initializing /\ Counted /\ Mapped
  /\ SessionStates /\ Closing /\ ConnectedIsReady
  /\ SchemaLocks /\ WritesRemembered /\ RememberedSchemasExist
  /\ Coordinator!Exclusive
=============================================================================
