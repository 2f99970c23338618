------------------------ MODULE MaterializationLog ------------------------
(***************************************************************************)
(* Write claims, materialization facts and the completion outbox           *)
(* (internal/web/matlog, internal/web/completion) with the executions that *)
(* claim, write and complete (service/execution.go) and with the replay of *)
(* completions after a failure or a crash (cmd/).                          *)
(*                                                                         *)
(* A write is one attempted unit of a run: an asset, a window and a        *)
(* physical target.  Processes (the server, CLI invocations) share the     *)
(* SQLite database; each transaction is a step.  The tables themselves are *)
(* ghost state: held and content say what was done to them.                *)
(* A planned run completes each unit by itself, with the completion id of  *)
(* the unit but the run id of the run.                                     *)
(***************************************************************************)
EXTENDS Naturals, SequencesExt

CONSTANTS
  Write, Target, Window,
  Proc,          \* processes that execute; Server is the one that recovers
  Server,
  NoWrite,
  TargetOf, WindowOf,
  VariantOf,  \* asset, environment, fingerprint and variables of a write
  FactKeyOf,  \* asset, environment and run id: the unique key of a fact
  ProcOf,
  Replaces,   \* a full refresh or a table written as a whole
  Reported,   \* TargetWriteEvidenceRequired: the loader claims
  MaxClock, MaxCrashes, MaxFaults      \* bounds of the instance

ASSUME LogAssumption ==
  /\ NoWrite \notin Write /\ Server \in Proc
  /\ \A w \in Write : /\ TargetOf[w] \in Target
                      /\ WindowOf[w] \in Window
                      /\ ProcOf[w] \in Proc
                      /\ Replaces[w] \in BOOLEAN
                      /\ Reported[w] \in BOOLEAN
  /\ MaxClock \in Nat /\ MaxCrashes \in Nat /\ MaxFaults \in Nat

VARIABLES
  phase,      \* how far each execution is
  finished,   \* FinishedAt of a physical success
  claim,      \* renart_target_write_claims, by completion
  sequence,   \* the last claim_sequence
  facts,      \* renart_materializations, by completion
  writer,     \* renart_latest_successful_writers
  coverage,   \* renart_coverage: rows of a target
  outbox,     \* renart_completion_outbox, in order of sequence
  recover,    \* writes of interrupted runs that startup replays
  pending,    \* what a DispatchPending has listed and not yet dispatched
  handled,    \* its head was handled and not yet acknowledged
  up,         \* the processes that live
  held,       \* ghost: who touched a table last, and whether it got through
  content,    \* ghost: whose output each window of a table holds
  torn,       \* ghost: windows of the generation whose rewrite was only
              \* known from a dirty claim that a success elsewhere resolved
  clock, crashes, faults

execution == <<phase, finished>>
log == <<claim, sequence, facts, writer, coverage>>
delivery == <<outbox, recover, pending, handled>>
tables == <<held, content>>
environment == <<up, clock, crashes, faults>>
vars == <<execution, log, delivery, tables, torn, environment>>

Phase == {"new", "running", "claimed", "writing", "written", "broken",
          "done", "reported", "failed", "lost"}
ClaimState == {"none", "active", "dirty"}
WriterRow == [by : Write \cup {NoWrite}, gen : Nat, ambiguous : BOOLEAN]
Row == [gen : Nat, variant : {VariantOf[w] : w \in Write}, window : Window]

TypeOK ==
  /\ phase \in [Write -> Phase]
  /\ finished \in [Write -> Nat]
  /\ claim \in [Write -> [state : ClaimState, seq : Nat]]
  /\ sequence \in Nat
  /\ facts \in SUBSET Write
  /\ writer \in [Target -> WriterRow]
  /\ coverage \in [Target -> SUBSET Row]
  /\ outbox \in Seq(Write) /\ recover \in SUBSET Write
  /\ pending \in [Proc -> Seq(Write)] /\ handled \in [Proc -> BOOLEAN]
  /\ up \in SUBSET Proc
  /\ held \in [Target -> [by : Write \cup {NoWrite}, whole : BOOLEAN]]
  /\ content \in [Target -> [Window -> Write \cup {NoWrite}]]
  /\ torn \in [Target -> SUBSET Window]
  /\ clock \in Nat \ {0} /\ crashes \in Nat /\ faults \in Nat

NoClaim == [state |-> "none", seq |-> 0]
NoWriter == [by |-> NoWrite, gen |-> 0, ambiguous |-> FALSE]

Init ==
  /\ phase = [w \in Write |-> "new"]
  /\ finished = [w \in Write |-> 0]
  /\ claim = [w \in Write |-> NoClaim]
  /\ sequence = 0
  /\ facts = {}
  /\ writer = [t \in Target |-> NoWriter]
  /\ coverage = [t \in Target |-> {}]
  /\ outbox = <<>> /\ recover = {}
  /\ pending = [p \in Proc |-> <<>>]
  /\ handled = [p \in Proc |-> FALSE]
  /\ up = {}
  /\ held = [t \in Target |-> [by |-> NoWrite, whole |-> FALSE]]
  /\ content = [t \in Target |-> [x \in Window |-> NoWrite]]
  /\ torn = [t \in Target |-> {}]
  /\ clock = 1 /\ crashes = 0 /\ faults = 0

Claims(t) == {w \in Write : TargetOf[w] = t /\ claim[w].state # "none"}
Queued(q) == {q[i] : i \in DOMAIN q}
Without(q, w) ==
  IF w \in Queued(q) THEN RemoveAt(q, CHOOSE i \in DOMAIN q : q[i] = w) ELSE q

----------------------------------------------------------------------------
(* An execution.  It holds the execution lease of the workspace shared.    *)
Executing == {"running", "claimed", "writing", "written", "broken", "done"}
Leased == {p \in Proc : \E w \in Write : ProcOf[w] = p /\ phase[w] \in Executing}

Moves(w, from, to) ==
  /\ ProcOf[w] \in up
  /\ phase[w] = from
  /\ phase' = [phase EXCEPT ![w] = to]

\* A completion that cannot even be written down, or a step that cannot.
Fault == faults < MaxFaults /\ faults' = faults + 1

\* The running step is durable.  Units of one asset in a run come in turn.
Start(w) ==
  /\ \A v \in Write : FactKeyOf[v] = FactKeyOf[w] => phase[v] \notin Executing
  /\ Moves(w, "new", "running")
  /\ UNCHANGED <<finished, log, delivery, tables, torn, environment>>

\* Mutant: a claim looks at nobody else's.
ClaimUnchecked(w) ==
  /\ Moves(w, "running", "claimed")
  /\ sequence' = sequence + 1
  /\ claim' = [claim EXCEPT ![w] = [state |-> "active", seq |-> sequence + 1]]
  /\ UNCHANGED <<finished, facts, writer, coverage, delivery, tables, torn,
                 environment>>

(* ClaimTargetWrite: the claim of this completion that a crash made dirty  *)
(* is replaced; dirty claims of others do not block, active ones do.       *)
ClaimTargetWrite(w) ==
  /\ Moves(w, "running", "claimed")
  /\ \A v \in Claims(TargetOf[w]) : claim[v].state # "active"
  /\ sequence' = sequence + 1
  /\ claim' = [claim EXCEPT ![w] = [state |-> "active", seq |-> sequence + 1]]
  /\ UNCHANGED <<finished, facts, writer, coverage, delivery, tables, torn,
                 environment>>

\* ErrTargetWriteClaimActive, or an operator that fails before it claims.
RunFails(w) ==
  /\ \/ Reported[w]
     \/ \E v \in Claims(TargetOf[w]) : claim[v].state = "active"
  /\ Moves(w, "running", "failed")
  /\ UNCHANGED <<finished, log, delivery, tables, torn, environment>>

Touched(w) ==
  IF Replaces[w] THEN Window ELSE {WindowOf[w]}

BeginWrite(w) ==
  LET t == TargetOf[w] IN
  /\ Moves(w, "claimed", "writing")
  /\ held' = [held EXCEPT ![t] = [by |-> w, whole |-> FALSE]]
  /\ content' = [content EXCEPT ![t] =
                   [x \in Window |-> IF x \in Touched(w) THEN NoWrite ELSE @[x]]]
  /\ UNCHANGED <<finished, log, delivery, torn, environment>>

\* The clock does not go back; two writes may end at the same instant.
EndWrite(w) ==
  LET t == TargetOf[w] IN
  /\ Moves(w, "writing", "written")
  /\ held' = [held EXCEPT ![t] = [by |-> w, whole |-> TRUE]]
  /\ content' = [content EXCEPT ![t][WindowOf[w]] = w]
  /\ clock' \in {clock, clock + 1} /\ clock' <= MaxClock
  /\ finished' = [finished EXCEPT ![w] = clock']
  /\ torn' = [torn EXCEPT ![t] = @ \ Touched(w)]
  /\ UNCHANGED <<log, delivery, up, crashes, faults>>

WriteFails(w) ==
  /\ Moves(w, "claimed", "broken") \/ Moves(w, "writing", "broken")
  /\ UNCHANGED <<finished, log, delivery, tables, torn, environment>>

(* A loader that got no data reports success without having claimed.       *)
NothingToWrite(w) ==
  /\ Reported[w]
  /\ Moves(w, "running", "done")
  /\ UNCHANGED <<finished, log, delivery, tables, torn, environment>>

\* The successful step and unit are durable, or could not be stored.
PersistUnit(w) ==
  /\ Moves(w, "written", "done")
  /\ UNCHANGED <<finished, log, delivery, tables, torn, environment>>

PersistFails(w) ==
  /\ Fault
  /\ Moves(w, "written", "broken")
  /\ UNCHANGED <<finished, log, delivery, tables, torn, up, clock, crashes>>

(* MarkTargetWriteClaimDirty comes before the failed step; an error of it  *)
(* leaves the claim active.                                                *)
MarkDirty(w) ==
  /\ Moves(w, "broken", "failed")
  /\ claim' = IF claim[w].state = "none" THEN claim
              ELSE [claim EXCEPT ![w].state = "dirty"]
  /\ UNCHANGED <<finished, sequence, facts, writer, coverage, delivery, tables,
                 torn, environment>>

MarkDirtyFails(w) ==
  /\ Fault
  /\ Moves(w, "broken", "failed")
  /\ UNCHANGED <<finished, log, delivery, tables, torn, up, clock, crashes>>

----------------------------------------------------------------------------
(* The outbox.  completionMu: one dispatch per process at a time.          *)
Idle(p) == p \in up /\ pending[p] = <<>>

(* dispatchRunCompletion: the completion is stored before any subscriber   *)
(* sees it; then everything that is pending is dispatched.                 *)
Enqueue(w) ==
  LET p == ProcOf[w] IN
  /\ Idle(p)
  /\ Moves(w, "done", "reported")
  /\ outbox' = IF w \in Queued(outbox) THEN outbox ELSE Append(outbox, w)
  /\ pending' = [pending EXCEPT ![p] = outbox']
  /\ UNCHANGED <<finished, log, recover, handled, tables, torn, environment>>

EnqueueFails(w) ==
  /\ Idle(ProcOf[w])
  /\ Fault
  /\ Moves(w, "done", "broken")
  /\ UNCHANGED <<finished, log, delivery, tables, torn, up, clock, crashes>>

\* Housekeeping lists the outbox.
ReplayPending(p) ==
  /\ Idle(p)
  /\ p = Server
  /\ pending' = [pending EXCEPT ![p] = outbox]
  /\ UNCHANGED <<execution, log, outbox, recover, handled, tables, torn,
                 environment>>

----------------------------------------------------------------------------
(* Store.Record of one completion, one transaction.                        *)
HasEvidence(w) == Reported[w] => claim[w].state # "none" \/ w \in facts

\* validateRecordedMaterializationReplay: another fact has the key.
Conflicts(w) == \E v \in facts : v # w /\ FactKeyOf[v] = FactKeyOf[w]
Rejected(w) == HasEvidence(w) /\ w \notin facts /\ Conflicts(w)

\* Mutant: a success resolves every dirty claim of its target.
ResolvedAll(w) ==
  IF claim[w].state = "none" THEN {}
  ELSE {w} \cup {v \in Claims(TargetOf[w]) : claim[v].state = "dirty"}

\* clearResolvedTargetWriteClaims
Resolved(w) ==
  IF claim[w].state = "none" THEN {}
  ELSE {w} \cup {v \in Claims(TargetOf[w]) :
                   claim[v].state = "dirty" /\ claim[v].seq < claim[w].seq}

\* Windows that a resolved write changed and w did not.
Unrepaired(w) ==
  LET others == Resolved(w) \ {w} IN
  {x \in (UNION {Touched(v) : v \in others}) \ Touched(w) :
     content[TargetOf[w]][x] \in others \cup {NoWrite}}

\* A new generation starts without covered windows.
Clear(w, fresh) ==
  /\ claim' = [v \in Write |-> IF v \in Resolved(w) THEN NoClaim ELSE claim[v]]
  /\ torn' = [torn EXCEPT ![TargetOf[w]] = IF fresh THEN {} ELSE @ \cup Unrepaired(w)]

\* resolveTargetWrite
Previous(w) == writer[TargetOf[w]]

\* Mutant: completions are taken as they come.
OlderNever(w) == Previous(w).by = w

Older(w) ==
  /\ Previous(w).by # NoWrite
  /\ \/ Previous(w).by = w
     \/ finished[w] < finished[Previous(w).by]
Ties(w) ==
  /\ Previous(w).by \notin {NoWrite, w}
  /\ finished[w] = finished[Previous(w).by]

\* The output of this write is added to what the table holds.
Continues(w) ==
  LET old == Previous(w) IN
  /\ old.by # NoWrite
  /\ ~old.ambiguous
  /\ VariantOf[old.by] = VariantOf[w]

\* Mutant: only a change of the variant starts a generation.
GenerationOfVariant(w) ==
  LET old == Previous(w) IN
  IF old.by = NoWrite \/ VariantOf[old.by] # VariantOf[w] THEN old.gen + 1
  ELSE old.gen

Generation(w) == IF Continues(w) THEN Previous(w).gen ELSE Previous(w).gen + 1

\* The recorder leaves out a success that has no evidence of a write.
Unproven(w) ==
  /\ ~HasEvidence(w)
  /\ UNCHANGED <<log, torn>>

Replayed(w) ==
  /\ HasEvidence(w) /\ w \in facts
  /\ Clear(w, FALSE)
  /\ UNCHANGED <<sequence, facts, writer, coverage>>

New(w) == HasEvidence(w) /\ w \notin facts /\ ~Conflicts(w)

Superseded(w) ==
  /\ New(w) /\ Older(w)
  /\ Clear(w, FALSE)
  /\ UNCHANGED <<sequence, facts, writer, coverage>>

\* Mutant: of two writes at one instant the later to be recorded wins.
AmbiguousAccepted(w) ==
  /\ New(w) /\ Ties(w)
  /\ writer' = [writer EXCEPT ![TargetOf[w]] =
                  [by |-> w, gen |-> Generation(w), ambiguous |-> FALSE]]
  /\ facts' = facts \cup {w}
  /\ Clear(w, FALSE)
  /\ UNCHANGED <<sequence, coverage>>

Ambiguous(w) ==
  /\ New(w) /\ Ties(w)
  /\ writer' = [writer EXCEPT ![TargetOf[w]].ambiguous = TRUE]
  /\ claim' = IF claim[w].state = "none" THEN claim
              ELSE [claim EXCEPT ![w].state = "dirty"]
  /\ UNCHANGED <<sequence, facts, coverage, torn>>

Accepted(w) ==
  LET t == TargetOf[w]
      gen == Generation(w)
      row == [gen |-> gen, variant |-> VariantOf[w], window |-> WindowOf[w]]
      replaced == {r \in coverage[t] : /\ r.gen = gen
                                       /\ r.variant = VariantOf[w]
                                       /\ Replaces[w]}
  IN
  /\ New(w) /\ ~Older(w) /\ ~Ties(w)
  /\ facts' = facts \cup {w}
  /\ writer' = [writer EXCEPT ![t] = [by |-> w, gen |-> gen, ambiguous |-> FALSE]]
  /\ coverage' = [coverage EXCEPT ![t] = (@ \ replaced) \cup {row}]
  /\ Clear(w, ~Continues(w))
  /\ UNCHANGED sequence

Record(w) ==
  Unproven(w) \/ Replayed(w) \/ Superseded(w) \/ Ambiguous(w) \/ Accepted(w)

----------------------------------------------------------------------------
\* Mutant: the newest completion is dispatched first.
DispatchNewest(p) ==
  /\ p \in up /\ pending[p] # <<>> /\ ~handled[p]
  /\ Record(pending[p][Len(pending[p])])
  /\ handled' = [handled EXCEPT ![p] = TRUE]
  /\ UNCHANGED <<execution, outbox, recover, pending, tables, environment>>

(* DispatchPending: the recorder's transaction for the oldest completion,  *)
(* the other subscribers, the acknowledgement.  It stops at the first      *)
(* failure: a conflict, or one of the database or a later subscriber.      *)
Dispatch(p) ==
  /\ p \in up /\ pending[p] # <<>> /\ ~handled[p]
  /\ Record(Head(pending[p]))
  /\ handled' = [handled EXCEPT ![p] = TRUE]
  /\ UNCHANGED <<execution, outbox, recover, pending, tables, environment>>

DispatchStops(p) ==
  /\ p \in up /\ pending[p] # <<>>
  /\ IF ~handled[p] /\ Rejected(Head(pending[p])) THEN faults' = faults ELSE Fault
  /\ pending' = [pending EXCEPT ![p] = <<>>]
  /\ handled' = [handled EXCEPT ![p] = FALSE]
  /\ UNCHANGED <<execution, log, outbox, recover, tables, torn, up, clock, crashes>>

\* Mutant: the row of a dispatched completion stays.
AcknowledgeKeeps(p) ==
  /\ p \in up /\ handled[p]
  /\ pending' = [pending EXCEPT ![p] = Tail(@)]
  /\ handled' = [handled EXCEPT ![p] = FALSE]
  /\ UNCHANGED <<execution, log, outbox, recover, tables, torn, environment>>

\* Acknowledge; another process may have removed the row.
Acknowledge(p) ==
  LET w == Head(pending[p]) IN
  /\ p \in up /\ handled[p]
  /\ outbox' = Without(outbox, w)
  /\ pending' = [pending EXCEPT ![p] = Tail(@)]
  /\ handled' = [handled EXCEPT ![p] = FALSE]
  /\ UNCHANGED <<execution, log, recover, tables, torn, environment>>

----------------------------------------------------------------------------
(* A process dies, at any point, and its locks are dropped.  Its           *)
(* unfinished writes are lost; the units that are durable belong to a run  *)
(* that startup finds interrupted, unless the run had ended.               *)
Crash(p) ==
  /\ p \in up
  /\ crashes < MaxCrashes
  /\ crashes' = crashes + 1
  /\ up' = up \ {p}
  /\ pending' = [pending EXCEPT ![p] = <<>>]
  /\ handled' = [handled EXCEPT ![p] = FALSE]
  /\ phase' = [w \in Write |->
                 IF ProcOf[w] = p /\ phase[w] \in Executing \ {"done"} THEN "lost"
                 ELSE IF ProcOf[w] = p /\ phase[w] = "done" THEN "reported"
                 ELSE phase[w]]
  /\ \E ended \in SUBSET {w \in Write : ProcOf[w] = p /\ phase[w] = "reported"} :
       recover' = recover \cup
         ({w \in Write : ProcOf[w] = p /\ phase[w] \in {"done", "reported"}} \ ended)
  /\ UNCHANGED <<finished, log, outbox, tables, torn, clock, faults>>

\* Mutant: the claims of running executions are made dirty too.
StartProcessUnfenced(p) ==
  /\ p \notin up
  /\ up' = up \cup {p}
  /\ claim' = [w \in Write |-> IF claim[w].state = "active"
                               THEN [claim[w] EXCEPT !.state = "dirty"]
                               ELSE claim[w]]
  /\ pending' = [pending EXCEPT ![p] = IF p = Server THEN outbox ELSE <<>>]
  /\ UNCHANGED <<execution, sequence, facts, writer, coverage, outbox, recover,
                 handled, tables, torn, clock, crashes, faults>>

(* The start of a process: with the execution lease held exclusively,      *)
(* which the server waits for and a CLI only tries to get, claims left     *)
(* active become dirty.  Then the server replays the outbox.               *)
StartProcess(p) ==
  /\ p \notin up
  /\ p = Server => Leased = {}
  /\ up' = up \cup {p}
  /\ claim' = IF Leased # {} THEN claim
              ELSE [w \in Write |-> IF claim[w].state = "active"
                                    THEN [claim[w] EXCEPT !.state = "dirty"]
                                    ELSE claim[w]]
  /\ pending' = [pending EXCEPT ![p] = IF p = Server THEN outbox ELSE <<>>]
  /\ UNCHANGED <<execution, sequence, facts, writer, coverage, outbox, recover,
                 handled, tables, torn, clock, crashes, faults>>

(* replayRecoveredRun, at startup: straight to the subscribers, beside the *)
(* outbox; the run is marked replayed when all of them are done.           *)
Recover(w) ==
  /\ Idle(Server) /\ Server \notin Leased
  /\ w \in recover
  /\ Record(w)
  /\ recover' \in {recover, recover \ {w}}
  /\ UNCHANGED <<execution, outbox, pending, handled, tables, environment>>

----------------------------------------------------------------------------
Execute(w) ==
  \/ Start(w) \/ ClaimTargetWrite(w) \/ RunFails(w) \/ BeginWrite(w)
  \/ EndWrite(w) \/ WriteFails(w) \/ NothingToWrite(w) \/ PersistUnit(w)
  \/ PersistFails(w) \/ MarkDirty(w) \/ MarkDirtyFails(w)
  \/ Enqueue(w) \/ EnqueueFails(w)

Deliver(p) ==
  Dispatch(p) \/ DispatchStops(p) \/ Acknowledge(p)

Next ==
  \/ \E w \in Write : Execute(w) \/ Recover(w)
  \/ \E p \in Proc : \/ Deliver(p) \/ ReplayPending(p)
                     \/ Crash(p) \/ StartProcess(p)

Spec == Init /\ [][Next]_vars

(* A dispatch runs to its end, housekeeping comes back, executions return  *)
(* and the server is started again.                                        *)
FairSpec ==
  /\ Spec
  /\ \A p \in Proc : WF_vars(Deliver(p))
  /\ \A w \in Write : WF_vars(Execute(w) /\ phase[w] # "new")
  /\ WF_vars(ReplayPending(Server))
  /\ WF_vars(StartProcess(Server))

----------------------------------------------------------------------------
(* What readers see.                                                       *)

\* LatestWriters
Named(t) ==
  IF writer[t].by = NoWrite \/ writer[t].ambiguous \/ Claims(t) # {} THEN NoWrite
  ELSE writer[t].by

\* CurrentTargetCoverage
Covered(t) ==
  IF Named(t) = NoWrite THEN {}
  ELSE {r.window : r \in {x \in coverage[t] :
                            /\ x.gen = writer[t].gen
                            /\ x.variant = VariantOf[writer[t].by]}}

(***************************************************************************)
(* A writer is named only if the table still holds its whole output and no *)
(* write has touched it since, in whatever order completions and replays   *)
(* of several processes arrive.                                            *)
(***************************************************************************)
NamedWroteLast ==
  \A t \in Target : Named(t) # NoWrite =>
    held[t] = [by |-> Named(t), whole |-> TRUE]

(***************************************************************************)
(* The windows that readers are told to be covered are in the table, as    *)
(* written by the variant that is named.                                   *)
(***************************************************************************)
CoverageIsPhysical ==
  \A t \in Target : \A x \in Covered(t) :
    /\ content[t][x] # NoWrite
    /\ VariantOf[content[t][x]] = VariantOf[Named(t)]

(***************************************************************************)
(* ... but for the windows of the generation that were rewritten by a      *)
(* write known only from its dirty claim, which a success in another       *)
(* window of the table has resolved.                                       *)
(***************************************************************************)
UntornCoverageIsPhysical ==
  \A t \in Target : \A x \in Covered(t) \ torn[t] :
    /\ content[t][x] # NoWrite
    /\ VariantOf[content[t][x]] = VariantOf[Named(t)]

\* The writer is no older than this write.
Overtaken(w) ==
  /\ writer[TargetOf[w]].by # NoWrite
  /\ finished[w] <= finished[writer[TargetOf[w]].by]

Settled(w) ==
  w \in facts \/ (Reported[w] /\ claim[w].state = "none") \/ Overtaken(w)

(***************************************************************************)
(* A completion leaves the outbox only when it is settled: its fact is     *)
(* recorded, or a write that ended no earlier is, or it wrote nothing.     *)
(***************************************************************************)
AcknowledgedIsSettled ==
  \A w \in Write :
    (phase[w] = "reported" /\ w \notin Queued(outbox) \cup recover) => Settled(w)

OneActiveClaim ==
  \A v, w \in Write :
    (TargetOf[v] = TargetOf[w] /\ claim[v].state = "active"
      /\ claim[w].state = "active") => v = w

Freshness == INSTANCE TargetFreshness WITH
  named <- [t \in Target |-> Named(t)]

ImplementsFreshness == Freshness!Spec

(***************************************************************************)
(* The outbox is emptied again and again, although subscribers fail, the   *)
(* server dies and CLI processes come and go: no completion stays in it.   *)
(***************************************************************************)
CompletionsAreAcknowledged == (outbox # <<>>) ~> (outbox = <<>>)
=============================================================================
