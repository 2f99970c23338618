-------------------- MODULE MaterializationLogInvariant --------------------
(***************************************************************************)
(* The inductive invariant of MaterializationLog.  A claim is older than   *)
(* another exactly when its write is, because a claim is active from       *)
(* before the first touch of a table until the write is over, and becomes  *)
(* dirty only then.  So the write that touched a table last loses its      *)
(* claim only to its own record, which makes it the writer.                *)
(***************************************************************************)
EXTENDS MaterializationLog

Claimed(w) == claim[w].state # "none"
SameTarget(v, w) == TargetOf[v] = TargetOf[w]

\* What the phase of an execution says of its claim and its table.
AtPhase(w) ==
  /\ phase[w] \in {"new", "running"} => ~Claimed(w)
  /\ phase[w] \in {"claimed", "writing", "written"} => claim[w].state = "active"
  /\ claim[w].state = "dirty" => phase[w] \in {"reported", "failed", "lost"}
  /\ phase[w] = "writing" => held[TargetOf[w]] = [by |-> w, whole |-> FALSE]
  /\ phase[w] = "written" => held[TargetOf[w]] = [by |-> w, whole |-> TRUE]
  /\ phase[w] \in {"new", "running", "claimed", "writing"} => finished[w] = 0
  /\ (phase[w] \in {"done", "reported"} /\ (Claimed(w) \/ ~Reported[w])) =>
       finished[w] > 0
  /\ finished[w] <= clock

ActiveIsNewest ==
  \A v, w \in Write :
    (v # w /\ SameTarget(v, w) /\ Claimed(v) /\ claim[w].state = "active") =>
      claim[v].state = "dirty" /\ claim[v].seq < claim[w].seq

Sequenced == \A w \in Write : claim[w].seq <= sequence

\* The holder of a table is its newest successful claim, or its writer.
Holder(t) ==
  LET h == held[t].by IN
  IF h = NoWrite
  THEN /\ ~held[t].whole
       /\ writer[t].by = NoWrite
       /\ \A v \in Write : TargetOf[v] = t => finished[v] = 0
  ELSE /\ TargetOf[h] = t
       /\ phase[h] \notin {"new", "running", "claimed"}
       /\ ~held[t].whole => phase[h] \in {"writing", "broken", "failed", "lost"}
       /\ held[t].whole => /\ finished[h] > 0
                           /\ \A v \in Write : TargetOf[v] = t =>
                                finished[v] <= finished[h]
       /\ ~Claimed(h) => held[t].whole /\ writer[t].by = h
       /\ Claimed(h) => \A v \in Write :
            (v # h /\ TargetOf[v] = t /\ Claimed(v)
              /\ phase[v] \in {"written", "done", "reported"}) =>
            claim[v].seq < claim[h].seq

WriterIsFact(t) ==
  writer[t].by # NoWrite => writer[t].by \in facts /\ TargetOf[writer[t].by] = t

FactsAreDone ==
  \A w \in facts : /\ phase[w] = "reported"
                   /\ ~Claimed(w)
                   /\ finished[w] > 0
                   /\ Overtaken(w)

Delivered ==
  /\ Queued(outbox) \cup recover \subseteq {w \in Write : phase[w] = "reported"}
  /\ \A p \in Proc : /\ Queued(pending[p]) \subseteq {w \in Write : phase[w] = "reported"}
                     /\ handled[p] => pending[p] # <<>>
                     /\ p \notin up => pending[p] = <<>>

HandledIsSettled ==
  \A p \in Proc : handled[p] => Settled(Head(pending[p]))

IInv ==
  /\ TypeOK
  /\ \A w \in Write : AtPhase(w)
  /\ ActiveIsNewest /\ Sequenced
  /\ \A t \in Target : Holder(t) /\ WriterIsFact(t)
  /\ FactsAreDone
  /\ Delivered /\ HandledIsSettled
  /\ AcknowledgedIsSettled

----------------------------------------------------------------------------
(***************************************************************************)
(* What the tables hold.  Claims keep the order in which their writes      *)
(* ended, so only the success that becomes the writer resolves a claim,    *)
(* and it answers for every window that an older claim has touched: the    *)
(* window is its own, torn, or still under a newer claim.                  *)
(***************************************************************************)
ClaimOrder ==
  \A v, w \in Write :
    /\ SameTarget(v, w) /\ Claimed(v) /\ Claimed(w)
    /\ finished[v] > 0 /\ finished[w] > 0
    /\ claim[v].seq <= claim[w].seq
    => finished[v] <= finished[w]

ClaimIsCurrent ==
  \A w \in Write :
    /\ Claimed(w) /\ finished[w] > 0
    /\ writer[TargetOf[w]].by # NoWrite
    => finished[writer[TargetOf[w]].by] <= finished[w]

ForgottenIsSettled ==
  \A w \in Write : finished[w] > 0 /\ ~Claimed(w) => w \in facts \/ Overtaken(w)

\* A write whose claim stands has touched the window last.
Disturbs(v, x) ==
  Claimed(v) /\ x \in Touched(v) /\ content[TargetOf[v]][x] \in {v, NoWrite}

\* A table under the hands of a write.
Emptied ==
  \A w \in Write : phase[w] = "writing" =>
    \A x \in Touched(w) : content[TargetOf[w]][x] = NoWrite

OutputStays ==
  \A w \in Write : Claimed(w) /\ finished[w] > 0 =>
    \/ content[TargetOf[w]][WindowOf[w]] = w
    \/ \E v \in Write : /\ SameTarget(v, w) /\ claim[w].seq < claim[v].seq
                        /\ Disturbs(v, WindowOf[w])

\* The rows of the generation and variant that the writer's target has.
InGeneration(t, r) ==
  /\ r.gen = writer[t].gen
  /\ r.variant = VariantOf[writer[t].by]

GenerationIsLast ==
  \A t \in Target : \A r \in coverage[t] : r.gen <= writer[t].gen

RowsArePhysical ==
  \A t \in Target : writer[t].by # NoWrite /\ ~writer[t].ambiguous =>
    \A r \in coverage[t] : InGeneration(t, r) /\ r.window \notin torn[t] =>
      \/ /\ content[t][r.window] # NoWrite
         /\ VariantOf[content[t][r.window]] = VariantOf[writer[t].by]
      \/ \E v \in Write : TargetOf[v] = t /\ Disturbs(v, r.window)

ContentInv ==
  /\ ClaimOrder /\ ClaimIsCurrent /\ ForgottenIsSettled
  /\ Emptied /\ OutputStays
  /\ GenerationIsLast /\ RowsArePhysical
=============================================================================
