---------------------- MODULE MaterializationLog_proofs ----------------------
(***************************************************************************)
(* Proofs about the materialization log, for any writes, targets, windows  *)
(* and processes.                                                          *)
(***************************************************************************)
EXTENDS MaterializationLogInvariant, SequenceTheorems, TLAPS

----------------------------------------------------------------------------
(* The outbox as a sequence. *)
LEMMA QueuedAppend ==
  ASSUME NEW q \in Seq(Write), NEW w \in Write
  PROVE  /\ Append(q, w) \in Seq(Write)
         /\ Queued(Append(q, w)) = Queued(q) \cup {w}
<1>1. /\ Append(q, w) \in Seq(Write)
      /\ Len(Append(q, w)) = Len(q) + 1
      /\ \A i \in 1..Len(q) : Append(q, w)[i] = q[i]
      /\ Append(q, w)[Len(q) + 1] = w
  BY AppendProperties
<1>2. DOMAIN Append(q, w) = 1..(Len(q) + 1) /\ DOMAIN q = 1..Len(q) /\ Len(q) \in Nat
  BY <1>1
<1>3. DOMAIN Append(q, w) = DOMAIN q \cup {Len(q) + 1}
  BY <1>2
<1>4. QED
  BY <1>1, <1>2, <1>3 DEF Queued

LEMMA QueuedTail ==
  ASSUME NEW q \in Seq(Write), q # <<>>
  PROVE  /\ Head(q) \in Write /\ Head(q) \in Queued(q)
         /\ Tail(q) \in Seq(Write)
         /\ Queued(Tail(q)) \subseteq Queued(q)
  BY DEF Queued

LEMMA QueuedWithout ==
  ASSUME NEW q \in Seq(Write), NEW w \in Write
  PROVE  /\ Without(q, w) \in Seq(Write)
         /\ Queued(Without(q, w)) \subseteq Queued(q)
         /\ Queued(q) \ {w} \subseteq Queued(Without(q, w))
<1>1. CASE w \notin Queued(q)
  BY <1>1 DEF Without
<1>2. CASE w \in Queued(q)
  <2> DEFINE k == CHOOSE i \in DOMAIN q : q[i] = w
             a == SubSeq(q, 1, k - 1)
             b == SubSeq(q, k + 1, Len(q))
  <2>1. k \in 1..Len(q) /\ q[k] = w
    BY <1>2 DEF Queued
  <2> HIDE DEF k
  <2>2. a \in Seq(Write) /\ Len(a) = k - 1 /\ \A i \in 1..(k - 1) : a[i] = q[i]
    BY <2>1, SubSeqProperties
  <2>3. b \in Seq(Write) /\ Len(b) = Len(q) - k /\ \A i \in 1..(Len(q) - k) : b[i] = q[k + i]
    BY <2>1, SubSeqProperties
  <2>4. Without(q, w) = a \o b
    BY <1>2 DEF Without, RemoveAt, k
  <2> HIDE DEF a, b
  <2>5. /\ a \o b \in Seq(Write) /\ Len(a \o b) = Len(q) - 1
        /\ \A i \in 1..(Len(q) - 1) : (a \o b)[i] = IF i < k THEN q[i] ELSE q[i + 1]
    <3> HIDE DEF a, b
    <3>1. /\ a \o b \in Seq(Write) /\ Len(a \o b) = (k - 1) + (Len(q) - k)
          /\ \A i \in 1..Len(a \o b) :
               (a \o b)[i] = IF i <= k - 1 THEN a[i] ELSE b[i - (k - 1)]
      BY <2>2, <2>3, ConcatProperties
    <3>2. k \in Int /\ Len(q) \in Nat /\ k <= Len(q) /\ k >= 1
      BY <2>1
    <3>3. Len(a \o b) = Len(q) - 1
      BY <3>1, <3>2
    <3>4. ASSUME NEW i \in 1..(Len(q) - 1)
          PROVE  (a \o b)[i] = IF i < k THEN q[i] ELSE q[i + 1]
      <4>0. i \in 1..Len(a \o b) /\ i \in Int
        BY <3>3
      <4>1. CASE i < k
        <5>1. i \in 1..(k - 1) /\ i <= k - 1
          BY <3>2, <4>1
        <5>2. (a \o b)[i] = a[i] /\ a[i] = q[i]
          BY <2>2, <3>1, <4>0, <5>1
        <5>3. QED
          BY <4>1, <5>2
      <4>2. CASE i >= k
        <5>1. i - (k - 1) \in 1..(Len(q) - k) /\ k + (i - (k - 1)) = i + 1
          BY <3>2, <4>2
        <5>2. b[i - (k - 1)] = q[i + 1]
          BY <2>3, <5>1
        <5>3. (a \o b)[i] = b[i - (k - 1)]
          BY <3>1, <3>2, <4>0, <4>2
        <5>4. QED
          BY <3>2, <4>0, <4>2, <5>2, <5>3
      <4>3. QED
        BY <3>2, <4>0, <4>1, <4>2
    <3>5. QED
      BY <3>1, <3>3, <3>4
  <2> DEFINE r == a \o b
  <2> HIDE DEF a, b, r
  <2>6. r \in Seq(Write) /\ DOMAIN r = 1..(Len(q) - 1) /\ DOMAIN q = 1..Len(q)
    BY <2>5 DEF r
  <2>7. Queued(r) \subseteq Queued(q)
    <3>1. ASSUME NEW i \in DOMAIN r PROVE \E j \in DOMAIN q : q[j] = r[i]
      <4>1. i \in DOMAIN q /\ i + 1 \in DOMAIN q
        BY <2>6
      <4>2. r[i] = q[i] \/ r[i] = q[i + 1]
        BY <2>5, <2>6 DEF r
      <4>3. QED
        BY <4>1, <4>2
    <3>2. QED
      BY <3>1 DEF Queued
  <2>8. ASSUME NEW i \in DOMAIN q, i # k
        PROVE  \E j \in DOMAIN r : r[j] = q[i]
    <3>1. CASE i < k
      <4>1. i \in DOMAIN r
        BY <2>1, <2>6, <3>1
      <4>2. QED
        BY <2>5, <2>6, <3>1, <4>1 DEF r
    <3>2. CASE i > k
      <4>1. i - 1 \in DOMAIN r /\ ~(i - 1 < k) /\ (i - 1) + 1 = i
        BY <2>1, <2>6, <3>2
      <4>2. QED
        BY <2>5, <2>6, <4>1 DEF r
    <3>3. QED
      BY <2>1, <2>6, <2>8, <3>1, <3>2
  <2>9. Queued(q) \ {w} \subseteq Queued(r)
    BY <2>1, <2>8 DEF Queued
  <2>10. QED
    BY <2>4, <2>6, <2>7, <2>9 DEF r
<1>3. QED
  BY <1>1, <1>2

LEMMA QueuedEmpty == <<>> \in Seq(Write) /\ Queued(<<>>) = {}
  BY DEF Queued

----------------------------------------------------------------------------
LEMMA InitInvariant == Init => IInv
<1> SUFFICES ASSUME Init PROVE IInv
  OBVIOUS
<1> USE LogAssumption DEF LogAssumption
<1>1. TypeOK
  BY DEF Init, TypeOK, Phase, ClaimState, WriterRow, NoClaim, NoWriter
<1>2. ASSUME NEW w \in Write PROVE AtPhase(w)
  BY DEF Init, AtPhase, Claimed, NoClaim
<1>3. ActiveIsNewest /\ Sequenced
  BY DEF Init, ActiveIsNewest, Sequenced, Claimed, NoClaim
<1>4. ASSUME NEW t \in Target PROVE Holder(t) /\ WriterIsFact(t)
  BY DEF Init, Holder, WriterIsFact, NoWriter
<1>5. FactsAreDone /\ HandledIsSettled
  BY DEF Init, FactsAreDone, HandledIsSettled
<1>6. Delivered
  BY QueuedEmpty DEF Init, Delivered
<1>7. AcknowledgedIsSettled
  BY DEF Init, AcknowledgedIsSettled
<1>8. QED
  BY <1>1, <1>2, <1>3, <1>4, <1>5, <1>6, <1>7 DEF IInv

(***************************************************************************)
(* Steps that change only how far one execution is.                        *)
(***************************************************************************)
Advance(w, from, to) ==
  /\ phase[w] = from
  /\ phase' = [phase EXCEPT ![w] = to]
  /\ UNCHANGED <<finished, log, delivery, tables, torn, up, clock, crashes>>
  /\ faults' \in Nat
  /\ \/ from = "new" /\ to = "running"
     \/ from = "running" /\ to = "failed"
     \/ from = "running" /\ to = "done" /\ Reported[w]
     \/ from \in {"claimed", "writing"} /\ to = "broken"
     \/ from = "written" /\ to \in {"done", "broken"}
     \/ from = "broken" /\ to = "failed"
     \/ from = "done" /\ to = "broken"

LEMMA AdvanceStep ==
  ASSUME IInv, NEW w \in Write, NEW from, NEW to, Advance(w, from, to)
  PROVE  IInv'
<1> USE LogAssumption DEF LogAssumption, IInv, log, delivery, tables
<1>0. /\ TypeOK
      /\ phase[w] = from /\ phase'[w] = to
      /\ \A v \in Write \ {w} : phase'[v] = phase[v]
      /\ phase \in [Write -> Phase]
  BY DEF Advance, TypeOK
<1>1. TypeOK'
  BY <1>0 DEF Advance, TypeOK, Phase
<1>2. ASSUME NEW v \in Write PROVE AtPhase(v)'
  <2>1. CASE v # w
    BY <1>0, <2>1 DEF AtPhase, Claimed, Advance
  <2>2. AtPhase(w)'
    <3>1. AtPhase(w) /\ Holder(TargetOf[w])
      OBVIOUS
    <3>2. phase[w] = "written" => finished[w] > 0
      BY <3>1 DEF AtPhase, Holder
    <3>3. QED
      BY <1>0, <3>1, <3>2 DEF AtPhase, Claimed, Advance
  <2>3. QED
    BY <2>1, <2>2
<1>3. ActiveIsNewest' /\ Sequenced'
  BY DEF Advance, ActiveIsNewest, Sequenced, SameTarget, Claimed
<1>4. ASSUME NEW t \in Target PROVE Holder(t)' /\ WriterIsFact(t)'
  <2>1. AtPhase(w)
    OBVIOUS
  <2>2. Holder(t)'
    BY <1>0, <2>1 DEF Advance, Holder, Claimed, AtPhase
  <2>3. QED
    BY <2>2 DEF Advance, WriterIsFact
<1>5. FactsAreDone'
  BY <1>0 DEF Advance, FactsAreDone, Claimed, Overtaken
<1>6. Delivered'
  BY <1>0 DEF Advance, Delivered, Queued
<1>7. HandledIsSettled'
  BY DEF Advance, HandledIsSettled, Settled, Overtaken
<1>8. AcknowledgedIsSettled'
  BY <1>0 DEF Advance, AcknowledgedIsSettled, Settled, Overtaken, Queued
<1>9. QED
  BY <1>1, <1>2, <1>3, <1>4, <1>5, <1>6, <1>7, <1>8

(***************************************************************************)
(* A claim, the touch of a table, and the end of a write.                  *)
(***************************************************************************)
LEMMA ClaimStep ==
  ASSUME IInv, NEW w \in Write, ClaimTargetWrite(w)
  PROVE  IInv'
<1> USE LogAssumption DEF LogAssumption, IInv, delivery, tables, environment
<1>0. /\ TypeOK
      /\ phase[w] = "running" /\ phase'[w] = "claimed"
      /\ \A v \in Write \ {w} : phase'[v] = phase[v] /\ claim'[v] = claim[v]
      /\ claim'[w] = [state |-> "active", seq |-> sequence + 1]
      /\ sequence' = sequence + 1 /\ sequence \in Nat
      /\ \A v \in Write : SameTarget(v, w) => claim[v].state # "active"
      /\ \A v \in Write : claim[v].state \in ClaimState /\ claim[v].seq \in Nat
      /\ UNCHANGED <<finished, facts, writer, coverage, delivery, tables, torn,
                     environment>>
  BY DEF ClaimTargetWrite, Moves, TypeOK, SameTarget, Claims
<1>1. TypeOK'
  BY <1>0 DEF ClaimTargetWrite, Moves, TypeOK, Phase, ClaimState
<1>2. ASSUME NEW v \in Write PROVE AtPhase(v)'
  <2>1. AtPhase(v)
    OBVIOUS
  <2>2. QED
    BY <1>0, <2>1 DEF AtPhase, Claimed
<1>3. Sequenced'
  BY <1>0 DEF Sequenced
<1>4. ActiveIsNewest'
  <2> SUFFICES ASSUME NEW v \in Write, NEW u \in Write, v # u, SameTarget(v, u),
                      Claimed(v)', claim'[u].state = "active"
               PROVE  claim'[v].state = "dirty" /\ claim'[v].seq < claim'[u].seq
    BY DEF ActiveIsNewest, SameTarget
  <2>1. CASE u = w
    BY <1>0, <2>1 DEF Sequenced, Claimed, ClaimState
  <2>2. CASE v = w
    BY <1>0, <2>2 DEF SameTarget
  <2>3. CASE u # w /\ v # w
    BY <1>0, <2>3 DEF ActiveIsNewest, Claimed
  <2>4. QED
    BY <2>1, <2>2, <2>3
<1>5. ASSUME NEW t \in Target PROVE Holder(t)' /\ WriterIsFact(t)'
  <2>1. Holder(t) /\ WriterIsFact(t)
    OBVIOUS
  <2>2. held[t].by # w
    BY <1>0, <2>1 DEF Holder
  <2>3. CASE held[t].by = NoWrite
    BY <1>0, <2>1, <2>3 DEF Holder, WriterIsFact
  <2>4. CASE held[t].by # NoWrite
    <3>1. held[t].by \in Write \ {w}
      BY <1>0, <2>2, <2>4 DEF TypeOK
    <3>2. QED
      BY <1>0, <2>1, <3>1 DEF Holder, WriterIsFact, Claimed
  <2>5. QED
    BY <2>3, <2>4
<1>6. FactsAreDone'
  BY <1>0 DEF FactsAreDone, Claimed, Overtaken, TypeOK
<1>7. Delivered'
  BY <1>0 DEF Delivered, Queued
<1>8. HandledIsSettled'
  <2> SUFFICES ASSUME NEW p \in Proc, handled[p] PROVE Settled(Head(pending[p]))'
    BY <1>0 DEF HandledIsSettled
  <2>1. Head(pending[p]) \in Queued(pending[p]) /\ Head(pending[p]) \in Write
    BY QueuedTail DEF Delivered, TypeOK
  <2>2. Head(pending[p]) # w
    BY <1>0, <2>1 DEF Delivered
  <2>3. QED
    BY <1>0, <2>1, <2>2 DEF HandledIsSettled, Settled, Overtaken
<1>9. AcknowledgedIsSettled'
  BY <1>0 DEF AcknowledgedIsSettled, Settled, Overtaken, Queued
<1>10. QED
  BY <1>1, <1>2, <1>3, <1>4, <1>5, <1>6, <1>7, <1>8, <1>9

LEMMA BeginStep ==
  ASSUME IInv, NEW w \in Write, BeginWrite(w)
  PROVE  IInv'
<1> USE LogAssumption DEF LogAssumption, IInv, log, delivery, environment
<1> DEFINE t == TargetOf[w]
<1>0. /\ TypeOK
      /\ phase[w] = "claimed" /\ phase'[w] = "writing"
      /\ \A v \in Write \ {w} : phase'[v] = phase[v]
      /\ t \in Target /\ held'[t] = [by |-> w, whole |-> FALSE]
      /\ \A u \in Target \ {t} : held'[u] = held[u]
      /\ claim[w].state = "active" /\ finished[w] = 0
      /\ UNCHANGED <<finished, log, delivery, torn, environment>>
  <2>1. AtPhase(w)
    OBVIOUS
  <2>2. QED
    BY <2>1 DEF BeginWrite, Moves, TypeOK, AtPhase
<1>1. TypeOK'
  BY <1>0 DEF BeginWrite, Moves, TypeOK, Phase
<1>2. ASSUME NEW v \in Write, v # w, TargetOf[v] = t
      PROVE  phase[v] \notin {"claimed", "writing", "written"}
  <2>1. AtPhase(v) /\ claim[v].state # "active"
    BY <1>0, <1>2 DEF ActiveIsNewest, SameTarget, Claimed
  <2>2. QED
    BY <2>1 DEF AtPhase
<1>3. ASSUME NEW v \in Write PROVE AtPhase(v)'
  <2>1. AtPhase(v) /\ TargetOf[v] \in Target
    OBVIOUS
  <2>2. CASE v = w
    BY <1>0, <2>1, <2>2 DEF AtPhase, Claimed
  <2>3. CASE v # w
    BY <1>0, <1>2, <2>1, <2>3 DEF AtPhase, Claimed
  <2>4. QED
    BY <2>2, <2>3
<1>4. ActiveIsNewest' /\ Sequenced'
  BY <1>0 DEF ActiveIsNewest, Sequenced, SameTarget, Claimed
<1>5. ASSUME NEW u \in Target PROVE Holder(u)' /\ WriterIsFact(u)'
  <2>1. Holder(u) /\ WriterIsFact(u)
    OBVIOUS
  <2>2. CASE u # t
    <3>1. held[u].by # w
      BY <1>0, <2>1, <2>2 DEF Holder
    <3>2. held[u].by # NoWrite => held[u].by \in Write \ {w}
      BY <1>0, <3>1 DEF TypeOK, WriterRow
    <3>3. \A v \in Write : TargetOf[v] = u => v # w
      BY <2>2
    <3>4. CASE held[u].by = NoWrite
      BY <1>0, <2>1, <2>2, <3>4 DEF Holder, WriterIsFact
    <3>5. CASE held[u].by # NoWrite
      BY <1>0, <2>1, <2>2, <3>2, <3>3, <3>5 DEF Holder, WriterIsFact, Claimed
    <3>6. QED
      BY <3>4, <3>5
  <2>3. CASE u = t
    <3>1. \A v \in Write : (v # w /\ TargetOf[v] = t /\ Claimed(v)) =>
            claim[v].seq < claim[w].seq
      BY <1>0 DEF ActiveIsNewest, SameTarget
    <3>2. w # NoWrite /\ held'[t].by = w /\ ~held'[t].whole /\ Claimed(w)'
      BY <1>0 DEF Claimed
    <3>3. QED
      BY <1>0, <2>1, <2>3, <3>1, <3>2 DEF Holder, WriterIsFact, Claimed
  <2>4. QED
    BY <2>2, <2>3
<1>6. FactsAreDone'
  <2>1. \A v \in facts : v \in Write /\ v # w
    BY <1>0 DEF FactsAreDone, TypeOK
  <2>2. QED
    BY <1>0, <2>1 DEF FactsAreDone, Claimed, Overtaken
<1>7. Delivered'
  BY <1>0 DEF Delivered, Queued
<1>8. HandledIsSettled'
  BY <1>0 DEF HandledIsSettled, Settled, Overtaken
<1>9. AcknowledgedIsSettled'
  BY <1>0 DEF AcknowledgedIsSettled, Settled, Overtaken, Queued
<1>10. QED
  BY <1>1, <1>3, <1>4, <1>5, <1>6, <1>7, <1>8, <1>9

LEMMA EndStep ==
  ASSUME IInv, NEW w \in Write, EndWrite(w)
  PROVE  IInv'
<1> USE LogAssumption DEF LogAssumption, IInv, log, delivery
<1> DEFINE t == TargetOf[w]
<1>0. /\ TypeOK
      /\ phase[w] = "writing" /\ phase'[w] = "written"
      /\ \A v \in Write \ {w} : phase'[v] = phase[v] /\ finished'[v] = finished[v]
      /\ t \in Target /\ held[t] = [by |-> w, whole |-> FALSE]
      /\ held'[t] = [by |-> w, whole |-> TRUE]
      /\ \A u \in Target \ {t} : held'[u] = held[u]
      /\ claim[w].state = "active" /\ finished[w] = 0
      /\ clock \in Nat /\ clock' \in Nat /\ clock <= clock'
      /\ finished'[w] = clock'
      /\ \A v \in Write : finished[v] \in Nat /\ finished[v] <= clock
      /\ UNCHANGED <<log, delivery, up, crashes, faults>>
  <2>1. AtPhase(w) /\ \A v \in Write : AtPhase(v)
    OBVIOUS
  <2>2. /\ held[t] = [by |-> w, whole |-> FALSE]
        /\ claim[w].state = "active" /\ finished[w] = 0
        /\ \A v \in Write : finished[v] \in Nat /\ finished[v] <= clock
    BY <2>1 DEF EndWrite, Moves, TypeOK, AtPhase
  <2>3. clock \in Nat /\ clock' \in Nat /\ clock <= clock'
    BY DEF EndWrite, TypeOK
  <2>4. /\ held'[t] = [by |-> w, whole |-> TRUE]
        /\ \A u \in Target \ {t} : held'[u] = held[u]
    BY DEF EndWrite, TypeOK
  <2>5. QED
    BY <2>2, <2>3, <2>4 DEF EndWrite, Moves, TypeOK
<1>a. clock' > 0
  BY <1>0 DEF TypeOK
<1>1. TypeOK'
  BY <1>0 DEF EndWrite, Moves, TypeOK, Phase, Touched
<1>2. ASSUME NEW v \in Write, v # w, TargetOf[v] = t
      PROVE  phase[v] \notin {"claimed", "writing", "written"}
  <2>1. AtPhase(v) /\ claim[v].state # "active"
    BY <1>0, <1>2 DEF ActiveIsNewest, SameTarget, Claimed
  <2>2. QED
    BY <2>1 DEF AtPhase
<1>3. ASSUME NEW v \in Write PROVE AtPhase(v)'
  <2>1. AtPhase(v) /\ TargetOf[v] \in Target
    OBVIOUS
  <2>2. CASE v = w
    BY <1>0, <2>1, <2>2 DEF AtPhase, Claimed
  <2>3. CASE v # w
    BY <1>0, <1>2, <2>1, <2>3 DEF AtPhase, Claimed
  <2>4. QED
    BY <2>2, <2>3
<1>4. ActiveIsNewest' /\ Sequenced'
  BY <1>0 DEF ActiveIsNewest, Sequenced, SameTarget, Claimed
<1>b. ASSUME NEW u \in Target, writer[u].by # NoWrite
      PROVE  finished'[writer[u].by] = finished[writer[u].by]
  BY <1>0, <1>b DEF WriterIsFact, FactsAreDone, TypeOK
<1>5. ASSUME NEW u \in Target PROVE Holder(u)' /\ WriterIsFact(u)'
  <2>1. Holder(u) /\ WriterIsFact(u)
    OBVIOUS
  <2>2. CASE u # t
    <3>1. held[u].by # w
      BY <1>0, <2>1, <2>2 DEF Holder
    <3>2. \A v \in Write : TargetOf[v] = u => v # w
      BY <2>2
    <3>3. held[u].by # NoWrite => finished'[held[u].by] = finished[held[u].by]
      BY <1>0, <3>1 DEF TypeOK
    <3>4. held[u].by # NoWrite => held[u].by \in Write \ {w}
      BY <1>0, <3>1 DEF TypeOK
    <3>5. CASE held[u].by = NoWrite
      BY <1>0, <2>1, <2>2, <3>2, <3>5 DEF Holder, WriterIsFact
    <3>6. CASE held[u].by # NoWrite
      BY <1>0, <2>1, <2>2, <3>2, <3>3, <3>4, <3>6 DEF Holder, WriterIsFact, Claimed
    <3>7. QED
      BY <3>5, <3>6
  <2>3. CASE u = t
    <3>1. \A v \in Write : (v # w /\ TargetOf[v] = t /\ Claimed(v)) =>
            claim[v].seq < claim[w].seq
      BY <1>0 DEF ActiveIsNewest, SameTarget
    <3>2. \A v \in Write : finished'[v] <= finished'[w]
      BY <1>0
    <3>3. w # NoWrite /\ held'[t].by = w /\ held'[t].whole /\ Claimed(w)'
      BY <1>0 DEF Claimed
    <3>4. QED
      BY <1>0, <1>a, <2>1, <2>3, <3>1, <3>2, <3>3 DEF Holder, WriterIsFact, Claimed
  <2>4. QED
    BY <2>2, <2>3
<1>6. ASSUME NEW v \in Write, v # w, Overtaken(v) PROVE Overtaken(v)'
  BY <1>0, <1>b, <1>6 DEF Overtaken
<1>7. FactsAreDone'
  BY <1>0, <1>6 DEF FactsAreDone, Claimed, TypeOK
<1>8. Delivered'
  BY <1>0 DEF Delivered, Queued
<1>9. HandledIsSettled'
  <2> SUFFICES ASSUME NEW p \in Proc, handled[p] PROVE Settled(Head(pending[p]))'
    BY <1>0 DEF HandledIsSettled
  <2>1. Head(pending[p]) \in Queued(pending[p]) /\ Head(pending[p]) \in Write
    BY QueuedTail DEF Delivered, TypeOK
  <2>2. Head(pending[p]) # w
    BY <1>0, <2>1 DEF Delivered
  <2>3. QED
    BY <1>0, <1>6, <2>1, <2>2 DEF HandledIsSettled, Settled
<1>10. AcknowledgedIsSettled'
  BY <1>0, <1>6 DEF AcknowledgedIsSettled, Settled, Queued
<1>11. QED
  BY <1>1, <1>3, <1>4, <1>5, <1>7, <1>8, <1>9, <1>10

(***************************************************************************)
(* Claims become dirty.                                                    *)
(***************************************************************************)
LEMMA MarkDirtyStep ==
  ASSUME IInv, NEW w \in Write, MarkDirty(w)
  PROVE  IInv'
<1> USE LogAssumption DEF LogAssumption, IInv, delivery, tables, environment
<1>0. /\ TypeOK
      /\ phase[w] = "broken" /\ phase'[w] = "failed"
      /\ \A v \in Write \ {w} : phase'[v] = phase[v] /\ claim'[v] = claim[v]
      /\ \A v \in Write : claim'[v].seq = claim[v].seq
      /\ claim[w].state # "none" => claim'[w].state = "dirty"
      /\ claim[w].state = "none" => claim'[w].state = "none"
      /\ UNCHANGED <<finished, sequence, facts, writer, coverage, delivery, tables,
                     torn, environment>>
  BY DEF MarkDirty, Moves, TypeOK
<1>a. \A v \in Write : Claimed(v)' <=> Claimed(v)
  BY <1>0 DEF Claimed
<1>1. TypeOK'
  BY <1>0 DEF MarkDirty, Moves, TypeOK, Phase, ClaimState
<1>2. ASSUME NEW v \in Write PROVE AtPhase(v)'
  <2>1. AtPhase(v)
    OBVIOUS
  <2>2. QED
    BY <1>0, <1>a, <2>1 DEF AtPhase
<1>3. Sequenced'
  BY <1>0 DEF Sequenced
<1>4. ActiveIsNewest'
  <2> SUFFICES ASSUME NEW v \in Write, NEW u \in Write, v # u, SameTarget(v, u),
                      Claimed(v)', claim'[u].state = "active"
               PROVE  claim'[v].state = "dirty" /\ claim'[v].seq < claim'[u].seq
    BY DEF ActiveIsNewest, SameTarget
  <2>1. claim[u].state = "active" /\ Claimed(v)
    BY <1>0, <1>a DEF ClaimState, TypeOK
  <2>2. claim[v].state = "dirty" /\ claim[v].seq < claim[u].seq
    BY <2>1 DEF ActiveIsNewest
  <2>3. QED
    BY <1>0, <2>2
<1>5. ASSUME NEW t \in Target PROVE Holder(t)' /\ WriterIsFact(t)'
  <2>1. Holder(t) /\ WriterIsFact(t)
    OBVIOUS
  <2>2. CASE held[t].by = NoWrite
    BY <1>0, <2>1, <2>2 DEF Holder, WriterIsFact
  <2>3. CASE held[t].by # NoWrite
    <3>1. held[t].by \in Write
      BY <1>0, <2>3 DEF TypeOK
    <3>2. QED
      BY <1>0, <1>a, <2>1, <2>3, <3>1 DEF Holder, WriterIsFact
  <2>4. QED
    BY <2>2, <2>3
<1>6. FactsAreDone'
  BY <1>0, <1>a DEF FactsAreDone, Overtaken, TypeOK
<1>7. Delivered'
  BY <1>0 DEF Delivered, Queued
<1>8. HandledIsSettled'
  <2> SUFFICES ASSUME NEW p \in Proc, handled[p] PROVE Settled(Head(pending[p]))'
    BY <1>0 DEF HandledIsSettled
  <2>1. Head(pending[p]) \in Queued(pending[p]) /\ Head(pending[p]) \in Write
    BY QueuedTail DEF Delivered, TypeOK
  <2>2. Head(pending[p]) # w
    BY <1>0, <2>1 DEF Delivered
  <2>3. QED
    BY <1>0, <2>1, <2>2 DEF HandledIsSettled, Settled, Overtaken
<1>9. AcknowledgedIsSettled'
  BY <1>0 DEF AcknowledgedIsSettled, Settled, Overtaken, Queued
<1>10. QED
  BY <1>1, <1>2, <1>3, <1>4, <1>5, <1>6, <1>7, <1>8, <1>9

LEMMA StartProcessStep ==
  ASSUME IInv, NEW p \in Proc, StartProcess(p)
  PROVE  IInv'
<1> USE LogAssumption DEF LogAssumption, IInv, execution, tables
<1>0. /\ TypeOK
      /\ \A v \in Write : claim'[v].seq = claim[v].seq
      /\ \A v \in Write : \/ claim'[v].state = claim[v].state
                          \/ /\ Leased = {}
                             /\ claim[v].state = "active"
                             /\ claim'[v].state = "dirty"
      /\ UNCHANGED <<execution, sequence, facts, writer, coverage, outbox, recover,
                     handled, tables, torn, clock, crashes, faults>>
  BY SMTT(60) DEF StartProcess, TypeOK
<1>c. /\ sequence' = sequence /\ facts' = facts /\ writer' = writer
      /\ phase' = phase /\ finished' = finished /\ held' = held /\ clock' = clock
      /\ outbox' = outbox /\ recover' = recover /\ handled' = handled
  BY <1>0
<1>d. \A v \in Write : claim'[v].seq = claim[v].seq
  BY <1>0
<1>a. \A v \in Write : Claimed(v)' <=> Claimed(v)
  BY <1>0 DEF Claimed
<1>b. /\ pending' \in [Proc -> Seq(Write)]
      /\ Queued(pending'[p]) \subseteq Queued(outbox)
      /\ \A q \in Proc \ {p} : pending'[q] = pending[q]
      /\ ~handled[p]
  BY <1>0, QueuedEmpty DEF StartProcess, TypeOK, Delivered
<1>1. TypeOK'
  <2>1. claim' \in [Write -> [state : ClaimState, seq : Nat]]
    BY <1>0 DEF StartProcess, TypeOK, ClaimState
  <2>2. up' \in SUBSET Proc
    BY <1>0 DEF StartProcess, TypeOK
  <2>3. QED
    BY <1>0, <1>b, <2>1, <2>2 DEF TypeOK
<1>2. ASSUME NEW v \in Write PROVE AtPhase(v)'
  <2>1. AtPhase(v) /\ phase[v] \in Phase /\ ProcOf[v] \in Proc
    BY <1>0 DEF TypeOK
  <2>2. CASE claim'[v].state = claim[v].state
    BY <1>0, <1>a, <2>1, <2>2 DEF AtPhase
  <2>3. CASE claim'[v].state # claim[v].state
    <3>1. phase[v] \notin Executing
      BY <1>0, <2>1, <2>3 DEF Leased
    <3>2. phase[v] \in {"reported", "failed", "lost"}
      BY <1>0, <2>1, <2>3, <3>1 DEF AtPhase, Executing, Phase, Claimed
    <3>3. QED
      BY <1>0, <1>a, <2>1, <2>3, <3>2 DEF AtPhase
  <2>4. QED
    BY <2>2, <2>3
<1>3. Sequenced'
  BY <1>c, <1>d DEF Sequenced
<1>4. ActiveIsNewest'
  <2> SUFFICES ASSUME NEW v \in Write, NEW u \in Write, v # u, SameTarget(v, u),
                      Claimed(v)', claim'[u].state = "active"
               PROVE  claim'[v].state = "dirty" /\ claim'[v].seq < claim'[u].seq
    BY DEF ActiveIsNewest, SameTarget
  <2>1. claim[u].state = "active" /\ Claimed(v)
    BY <1>0, <1>a
  <2>2. claim[v].state = "dirty" /\ claim[v].seq < claim[u].seq
    BY <2>1 DEF ActiveIsNewest
  <2>3. QED
    BY <1>0, <2>2
<1>5. ASSUME NEW t \in Target PROVE Holder(t)' /\ WriterIsFact(t)'
  <2>1. Holder(t) /\ WriterIsFact(t)
    OBVIOUS
  <2>2. CASE held[t].by = NoWrite
    BY <1>0, <2>1, <2>2 DEF Holder, WriterIsFact
  <2>3. CASE held[t].by # NoWrite
    <3>1. held[t].by \in Write
      BY <1>0, <2>3 DEF TypeOK
    <3>2. QED
      BY <1>a, <1>c, <1>d, <2>1, <2>3, <3>1 DEF Holder, WriterIsFact
  <2>4. QED
    BY <2>2, <2>3
<1>6. FactsAreDone'
  BY <1>0, <1>a DEF FactsAreDone, Overtaken, TypeOK
<1>7. Delivered'
  <2>1. up' = up \cup {p}
    BY DEF StartProcess
  <2>2. QED
    BY <1>0, <1>b, <2>1 DEF Delivered
<1>8. ASSUME NEW v \in Write, Settled(v) PROVE Settled(v)'
  BY <1>0, <1>a, <1>8 DEF Settled, Overtaken, Claimed
<1>9. HandledIsSettled'
  <2> SUFFICES ASSUME NEW q \in Proc, handled[q] PROVE Settled(Head(pending[q]))'
    BY <1>0 DEF HandledIsSettled
  <2>1. pending'[q] = pending[q]
    BY <1>b
  <2>2. Head(pending[q]) \in Write /\ Settled(Head(pending[q]))
    BY QueuedTail DEF Delivered, TypeOK, HandledIsSettled
  <2>3. QED
    BY <1>8, <2>1, <2>2
<1>10. AcknowledgedIsSettled'
  BY <1>0, <1>8 DEF AcknowledgedIsSettled
<1>11. QED
  BY <1>1, <1>2, <1>3, <1>4, <1>5, <1>6, <1>7, <1>9, <1>10

(***************************************************************************)
(* Steps of the outbox that record nothing.                                *)
(***************************************************************************)
LEMMA DeliveryFrame ==
  ASSUME IInv, UNCHANGED <<execution, log, tables, torn, clock>>,
         outbox' \in Seq(Write), recover' \in SUBSET Write,
         pending' \in [Proc -> Seq(Write)], handled' \in [Proc -> BOOLEAN],
         up' \in SUBSET Proc, crashes' \in Nat, faults' \in Nat,
         Delivered', HandledIsSettled', AcknowledgedIsSettled'
  PROVE  IInv'
<1> USE DEF IInv, execution, log, tables
<1>1. TypeOK'
  BY DEF TypeOK
<1>2. \A w \in Write : AtPhase(w)'
  BY DEF AtPhase, Claimed
<1>3. ActiveIsNewest' /\ Sequenced'
  BY DEF ActiveIsNewest, Sequenced, SameTarget, Claimed
<1>4. \A t \in Target : Holder(t)' /\ WriterIsFact(t)'
  BY DEF Holder, WriterIsFact, Claimed
<1>5. FactsAreDone'
  BY DEF FactsAreDone, Claimed, Overtaken
<1>6. QED
  BY <1>1, <1>2, <1>3, <1>4, <1>5

LEMMA SettledFrame ==
  ASSUME UNCHANGED <<finished, log>>, NEW w \in Write
  PROVE  Settled(w)' <=> Settled(w)
  BY DEF log, Settled, Overtaken

LEMMA ReplayPendingStep ==
  ASSUME IInv, NEW p \in Proc, ReplayPending(p)
  PROVE  IInv'
<1> USE DEF IInv, execution, log, tables, environment
<1>1. /\ TypeOK
      /\ pending' = [pending EXCEPT ![p] = outbox]
      /\ ~handled[p] /\ p \in up
      /\ UNCHANGED <<execution, log, outbox, recover, handled, tables, torn, environment>>
  BY DEF ReplayPending, Idle, Delivered
<1>2. pending' \in [Proc -> Seq(Write)]
  BY <1>1 DEF TypeOK
<1>3. Delivered'
  BY <1>1 DEF Delivered, TypeOK
<1>4. HandledIsSettled'
  BY <1>1 DEF HandledIsSettled, Settled, Overtaken, TypeOK
<1>5. AcknowledgedIsSettled'
  BY <1>1 DEF AcknowledgedIsSettled, Settled, Overtaken
<1>6. QED
  BY <1>1, <1>2, <1>3, <1>4, <1>5, DeliveryFrame DEF TypeOK

LEMMA DispatchStopsStep ==
  ASSUME IInv, NEW p \in Proc, DispatchStops(p)
  PROVE  IInv'
<1> USE DEF IInv, execution, log, tables
<1>1. /\ TypeOK
      /\ pending' = [pending EXCEPT ![p] = <<>>]
      /\ handled' = [handled EXCEPT ![p] = FALSE]
      /\ faults' \in Nat
      /\ UNCHANGED <<execution, log, outbox, recover, tables, torn, up, clock, crashes>>
  BY DEF DispatchStops, Fault, TypeOK
<1>2. pending' \in [Proc -> Seq(Write)] /\ handled' \in [Proc -> BOOLEAN]
  BY <1>1, QueuedEmpty DEF TypeOK
<1>3. Delivered'
  BY <1>1, QueuedEmpty DEF Delivered, TypeOK
<1>4. HandledIsSettled'
  BY <1>1 DEF HandledIsSettled, Settled, Overtaken, TypeOK
<1>5. AcknowledgedIsSettled'
  BY <1>1 DEF AcknowledgedIsSettled, Settled, Overtaken
<1>6. QED
  BY <1>1, <1>2, <1>3, <1>4, <1>5, DeliveryFrame DEF TypeOK

LEMMA AcknowledgeStep ==
  ASSUME IInv, NEW p \in Proc, Acknowledge(p)
  PROVE  IInv'
<1> USE DEF IInv, execution, log, tables, environment
<1> DEFINE w == Head(pending[p])
<1>1. /\ TypeOK
      /\ handled[p]
      /\ outbox' = Without(outbox, w)
      /\ pending' = [pending EXCEPT ![p] = Tail(pending[p])]
      /\ handled' = [handled EXCEPT ![p] = FALSE]
      /\ UNCHANGED <<execution, log, recover, tables, torn, environment>>
  BY DEF Acknowledge
<1>2. /\ w \in Write
      /\ Tail(pending[p]) \in Seq(Write)
      /\ Queued(Tail(pending[p])) \subseteq Queued(pending[p])
      /\ pending[p] # <<>>
  BY <1>1, QueuedTail DEF Delivered, TypeOK
<1>3. /\ outbox' \in Seq(Write)
      /\ Queued(outbox') \subseteq Queued(outbox)
      /\ Queued(outbox) \ {w} \subseteq Queued(outbox')
  BY <1>1, <1>2, QueuedWithout DEF TypeOK
<1>4. pending' \in [Proc -> Seq(Write)] /\ handled' \in [Proc -> BOOLEAN]
  BY <1>1, <1>2 DEF TypeOK
<1>5. Delivered'
  BY <1>1, <1>2, <1>3 DEF Delivered, TypeOK, Acknowledge
<1>6. HandledIsSettled'
  BY <1>1 DEF HandledIsSettled, Settled, Overtaken, TypeOK
<1>7. AcknowledgedIsSettled'
  <2> SUFFICES ASSUME NEW v \in Write, phase[v] = "reported",
                      v \notin Queued(outbox') \cup recover
               PROVE  Settled(v)'
    BY <1>1 DEF AcknowledgedIsSettled
  <2>1. CASE v = w
    BY <1>1, <1>2, <2>1, SettledFrame DEF HandledIsSettled
  <2>2. CASE v # w
    BY <1>1, <1>3, <2>2, SettledFrame DEF AcknowledgedIsSettled
  <2>3. QED
    BY <2>1, <2>2
<1>8. QED
  BY <1>1, <1>3, <1>4, <1>5, <1>6, <1>7, DeliveryFrame DEF TypeOK

LEMMA EnqueueStep ==
  ASSUME IInv, NEW w \in Write, Enqueue(w)
  PROVE  IInv'
<1> USE LogAssumption DEF LogAssumption, IInv, log, tables, environment
<1> DEFINE p == ProcOf[w]
<1>0. /\ TypeOK /\ p \in Proc
      /\ phase[w] = "done" /\ phase'[w] = "reported"
      /\ \A v \in Write \ {w} : phase'[v] = phase[v]
      /\ pending[p] = <<>> /\ p \in up
      /\ pending' = [pending EXCEPT ![p] = outbox']
      /\ UNCHANGED <<finished, log, recover, handled, tables, torn, environment>>
  BY DEF Enqueue, Moves, Idle, TypeOK
<1>1. outbox' \in Seq(Write) /\ Queued(outbox') = Queued(outbox) \cup {w}
  BY <1>0, QueuedAppend DEF Enqueue, TypeOK
<1>2. TypeOK'
  BY <1>0, <1>1 DEF Enqueue, Moves, TypeOK, Phase
<1>3. ASSUME NEW v \in Write PROVE AtPhase(v)'
  <2>1. AtPhase(v)
    OBVIOUS
  <2>2. QED
    BY <1>0, <2>1 DEF AtPhase, Claimed
<1>4. ActiveIsNewest' /\ Sequenced'
  BY <1>0 DEF ActiveIsNewest, Sequenced, SameTarget, Claimed
<1>5. ASSUME NEW t \in Target PROVE Holder(t)' /\ WriterIsFact(t)'
  <2>1. Holder(t) /\ WriterIsFact(t)
    OBVIOUS
  <2>2. CASE held[t].by = NoWrite
    BY <1>0, <2>1, <2>2 DEF Holder, WriterIsFact
  <2>3. CASE held[t].by # NoWrite
    <3>1. held[t].by \in Write
      BY <1>0, <2>3 DEF TypeOK
    <3>2. QED
      BY <1>0, <2>1, <2>3, <3>1 DEF Holder, WriterIsFact, Claimed
  <2>4. QED
    BY <2>2, <2>3
<1>6. FactsAreDone'
  BY <1>0 DEF FactsAreDone, Claimed, Overtaken, TypeOK
<1>7. Delivered'
  <2>1. Queued(outbox') \cup recover \subseteq {v \in Write : phase'[v] = "reported"}
    BY <1>0, <1>1 DEF Delivered
  <2>2. pending'[p] = outbox' /\ \A q \in Proc \ {p} : pending'[q] = pending[q]
    BY <1>0 DEF TypeOK
  <2>3. \A q \in Proc : Queued(pending'[q]) \subseteq {v \in Write : phase'[v] = "reported"}
    BY <1>0, <2>1, <2>2 DEF Delivered
  <2>4. \A q \in Proc : /\ handled[q] => pending'[q] # <<>>
                        /\ q \notin up => pending'[q] = <<>>
    BY <1>0, <2>2 DEF Delivered
  <2>5. QED
    BY <1>0, <2>1, <2>3, <2>4 DEF Delivered
<1>8. HandledIsSettled'
  <2> SUFFICES ASSUME NEW q \in Proc, handled[q] PROVE Settled(Head(pending[q]))'
    BY <1>0 DEF HandledIsSettled
  <2>1. q # p /\ pending'[q] = pending[q]
    BY <1>0 DEF Delivered, TypeOK
  <2>2. QED
    BY <1>0, <2>1 DEF HandledIsSettled, Settled, Overtaken
<1>9. AcknowledgedIsSettled'
  BY <1>0, <1>1 DEF AcknowledgedIsSettled, Settled, Overtaken
<1>10. QED
  BY <1>2, <1>3, <1>4, <1>5, <1>6, <1>7, <1>8, <1>9

LEMMA CrashStep ==
  ASSUME IInv, NEW p \in Proc, Crash(p)
  PROVE  IInv'
<1> USE LogAssumption DEF LogAssumption, IInv, log, tables
<1>0. /\ TypeOK
      /\ phase' \in [Write -> Phase]
      /\ \A v \in Write : \/ phase'[v] = phase[v]
                          \/ phase[v] \in Executing \ {"done"} /\ phase'[v] = "lost"
                          \/ phase[v] = "done" /\ phase'[v] = "reported" /\ v \in recover'
      /\ recover \subseteq recover'
      /\ \A v \in recover' : v \in Write /\ (v \in recover \/ phase[v] \in {"done", "reported"})
      /\ pending' = [pending EXCEPT ![p] = <<>>]
      /\ handled' = [handled EXCEPT ![p] = FALSE]
      /\ up' = up \ {p} /\ crashes' = crashes + 1
      /\ UNCHANGED <<finished, log, outbox, tables, torn, clock, faults>>
  BY DEF Crash, TypeOK, Executing, Phase
<1>a. \A v \in Write : phase[v] = "reported" => phase'[v] = "reported"
  BY <1>0 DEF Executing
<1>b. \A v \in Write : phase[v] = "done" => phase'[v] \in {"reported", "done"}
  BY <1>0 DEF Executing
<1>1. TypeOK'
  <2>1. pending' \in [Proc -> Seq(Write)] /\ handled' \in [Proc -> BOOLEAN]
    BY <1>0, QueuedEmpty DEF TypeOK
  <2>2. QED
    BY <1>0, <2>1 DEF TypeOK
<1>2. ASSUME NEW v \in Write PROVE AtPhase(v)'
  <2>1. AtPhase(v)
    OBVIOUS
  <2>2. QED
    BY <1>0, <2>1 DEF AtPhase, Claimed, Executing
<1>3. ActiveIsNewest' /\ Sequenced'
  BY <1>0 DEF ActiveIsNewest, Sequenced, SameTarget, Claimed
<1>4. ASSUME NEW t \in Target PROVE Holder(t)' /\ WriterIsFact(t)'
  <2>1. Holder(t) /\ WriterIsFact(t)
    OBVIOUS
  <2>2. CASE held[t].by = NoWrite
    BY <1>0, <2>1, <2>2 DEF Holder, WriterIsFact
  <2>3. CASE held[t].by # NoWrite
    <3>1. held[t].by \in Write
      BY <1>0, <2>3 DEF TypeOK
    <3>2. \A v \in Write : phase'[v] \in {"written", "done", "reported"} =>
                             phase[v] \in {"written", "done", "reported"}
      BY <1>0
    <3>3. phase[held[t].by] \notin {"new", "running", "claimed"} =>
            phase'[held[t].by] \notin {"new", "running", "claimed"}
      BY <1>0, <3>1
    <3>4. phase[held[t].by] \in {"writing", "broken", "failed", "lost"} =>
            phase'[held[t].by] \in {"writing", "broken", "failed", "lost"}
      BY <1>0, <3>1
    <3>5. QED
      BY <1>0, <2>1, <2>3, <3>1, <3>2, <3>3, <3>4 DEF Holder, WriterIsFact, Claimed
  <2>4. QED
    BY <2>2, <2>3
<1>5. FactsAreDone'
  BY <1>0, <1>a DEF FactsAreDone, Claimed, Overtaken, TypeOK
<1>6. Delivered'
  <2>1. Queued(outbox') \cup recover' \subseteq {v \in Write : phase'[v] = "reported"}
    <3>1. \A v \in recover' : phase'[v] = "reported"
      BY <1>0, <1>a DEF Delivered, Crash
    <3>2. QED
      BY <1>0, <1>a, <3>1 DEF Delivered
  <2>2. pending'[p] = <<>> /\ \A q \in Proc \ {p} : pending'[q] = pending[q]
    BY <1>0 DEF TypeOK
  <2>3. \A q \in Proc : Queued(pending'[q]) \subseteq {v \in Write : phase'[v] = "reported"}
    BY <1>a, <2>2, QueuedEmpty DEF Delivered
  <2>4. \A q \in Proc : /\ handled'[q] => pending'[q] # <<>>
                        /\ q \notin up' => pending'[q] = <<>>
    BY <1>0, <2>2 DEF Delivered, TypeOK
  <2>5. QED
    BY <2>1, <2>3, <2>4 DEF Delivered
<1>7. HandledIsSettled'
  <2> SUFFICES ASSUME NEW q \in Proc, handled'[q] PROVE Settled(Head(pending[q]))'
    BY DEF HandledIsSettled
  <2>1. q # p /\ pending'[q] = pending[q] /\ handled[q]
    BY <1>0 DEF TypeOK
  <2>2. QED
    BY <1>0, <2>1 DEF HandledIsSettled, Settled, Overtaken
<1>8. AcknowledgedIsSettled'
  BY <1>0 DEF AcknowledgedIsSettled, Settled, Overtaken
<1>9. QED
  BY <1>1, <1>2, <1>3, <1>4, <1>5, <1>6, <1>7, <1>8

(***************************************************************************)
(* One record of a completion that was reported.                           *)
(***************************************************************************)

\* A record of w resolves no claim of the table's holder but its own.
LEMMA ResolvedClaims ==
  ASSUME IInv, NEW w \in Write, phase[w] = "reported"
  PROVE  /\ Resolved(w) \subseteq {v \in Write : SameTarget(v, w) /\ Claimed(v)}
         /\ \A v \in Resolved(w) : phase[v] \in {"reported", "failed", "lost"}
         /\ held[TargetOf[w]].by \in Resolved(w) => held[TargetOf[w]].by = w
         /\ Claimed(w) => w \in Resolved(w)
<1> USE LogAssumption DEF LogAssumption, IInv
<1>1. Resolved(w) \subseteq {v \in Write : SameTarget(v, w) /\ Claimed(v)}
  BY DEF Resolved, Claims, SameTarget, Claimed
<1>2. ASSUME NEW v \in Resolved(w), v # w
      PROVE  claim[v].state = "dirty" /\ claim[v].seq < claim[w].seq /\ Claimed(w)
  BY <1>2 DEF Resolved, Claimed
<1>3. \A v \in Resolved(w) : phase[v] \in {"reported", "failed", "lost"}
  <2> SUFFICES ASSUME NEW v \in Resolved(w), v # w
               PROVE  phase[v] \in {"reported", "failed", "lost"}
    OBVIOUS
  <2>1. AtPhase(v)
    BY <1>1
  <2>2. QED
    BY <1>2, <2>1 DEF AtPhase
<1>4. held[TargetOf[w]].by \in Resolved(w) => held[TargetOf[w]].by = w
  <2> DEFINE t == TargetOf[w]
             h == held[t].by
  <2> SUFFICES ASSUME h \in Resolved(w), h # w PROVE FALSE
    OBVIOUS
  <2>1. h \in Write /\ Claimed(h) /\ Claimed(w) /\ t \in Target
    BY <1>1, <1>2
  <2>2. claim[w].seq < claim[h].seq
    BY <2>1 DEF Holder
  <2>3. claim[h].seq < claim[w].seq
    BY <1>2
  <2>4. claim[h].seq \in Nat /\ claim[w].seq \in Nat
    BY <2>1 DEF TypeOK
  <2>5. QED
    BY <2>2, <2>3, <2>4
<1>5. Claimed(w) => w \in Resolved(w)
  BY DEF Resolved, Claimed
<1>6. QED
  BY <1>1, <1>3, <1>4, <1>5

\* What a record may do to the claims.
Forgets(w) ==
  claim' = [v \in Write |-> IF v \in Resolved(w) THEN NoClaim ELSE claim[v]]

LEMMA ForgetsClaims ==
  ASSUME IInv, NEW w \in Write, phase[w] = "reported", Forgets(w),
         UNCHANGED <<execution, sequence, tables, clock>>
  PROVE  /\ claim' \in [Write -> [state : ClaimState, seq : Nat]]
         /\ \A v \in Write : \/ claim'[v] = claim[v] /\ v \notin Resolved(w)
                             \/ ~Claimed(v)' /\ v \in Resolved(w)
         /\ \A v \in Write : AtPhase(v)'
         /\ ActiveIsNewest' /\ Sequenced'
<1> USE LogAssumption DEF LogAssumption, IInv, execution, tables, Forgets
<1>1. TypeOK
  OBVIOUS
<1>2. claim' \in [Write -> [state : ClaimState, seq : Nat]]
  BY <1>1 DEF TypeOK, NoClaim, ClaimState
<1>3. \A v \in Write : \/ claim'[v] = claim[v] /\ v \notin Resolved(w)
                       \/ claim'[v] = NoClaim /\ v \in Resolved(w)
  BY <1>1 DEF TypeOK
<1>4. \A v \in Write : Claimed(v)' => Claimed(v) /\ claim'[v] = claim[v]
  BY <1>3 DEF Claimed, NoClaim
<1>5. \A v \in Write : claim'[v].state = "active" => claim'[v] = claim[v]
  BY <1>3 DEF NoClaim
<1>6. ASSUME NEW v \in Write PROVE AtPhase(v)'
  <2>1. AtPhase(v)
    OBVIOUS
  <2>2. CASE claim'[v] = claim[v]
    BY <2>1, <2>2 DEF AtPhase, Claimed
  <2>3. CASE v \in Resolved(w) /\ claim'[v] = NoClaim
    <3>1. phase[v] \in {"reported", "failed", "lost"}
      BY <2>3, ResolvedClaims
    <3>2. ~Claimed(v)' /\ claim'[v].state = "none"
      BY <2>3 DEF Claimed, NoClaim
    <3>3. QED
      BY <2>1, <3>1, <3>2 DEF AtPhase, Claimed
  <2>4. QED
    BY <1>3, <2>2, <2>3
<1>7. ActiveIsNewest'
  BY <1>4, <1>5 DEF ActiveIsNewest, SameTarget
<1>8. Sequenced'
  BY <1>1, <1>3 DEF Sequenced, NoClaim, TypeOK
<1>9. \A v \in Write : claim'[v] = NoClaim => ~Claimed(v)'
  BY DEF Claimed, NoClaim
<1>10. QED
  BY <1>2, <1>3, <1>6, <1>7, <1>8, <1>9

\* A write with evidence has finished.
LEMMA EvidenceFinished ==
  ASSUME IInv, NEW w \in Write, phase[w] = "reported", HasEvidence(w)
  PROVE  /\ finished[w] > 0
         /\ held[TargetOf[w]].by \in Write
         /\ TargetOf[held[TargetOf[w]].by] = TargetOf[w]
         /\ held[TargetOf[w]].by = w => held[TargetOf[w]].whole
<1> USE LogAssumption DEF LogAssumption, IInv
<1>1. AtPhase(w) /\ Holder(TargetOf[w]) /\ TypeOK
  OBVIOUS
<1>2. finished[w] > 0
  BY <1>1 DEF HasEvidence, AtPhase, Claimed, FactsAreDone
<1>3. finished[w] # 0
  BY <1>1, <1>2 DEF TypeOK
<1>4. held[TargetOf[w]].by # NoWrite
  BY <1>1, <1>3 DEF Holder
<1>5. QED
  BY <1>1, <1>2, <1>4 DEF Holder, TypeOK

\* The writer of a table without an open claim is its holder, and no other
\* completion is newer.
LEMMA HolderNotOvertaken ==
  ASSUME IInv, NEW w \in Write, phase[w] = "reported", New(w), ~Older(w), ~Ties(w)
  PROVE  LET h == held[TargetOf[w]].by IN Claimed(h)
<1> USE LogAssumption DEF LogAssumption, IInv
<1> DEFINE t == TargetOf[w]
           h == held[t].by
<1> SUFFICES ASSUME ~Claimed(h) PROVE FALSE
  OBVIOUS
<1>1. h \in Write /\ h # NoWrite /\ Holder(t) /\ t \in Target
  BY EvidenceFinished DEF New
<1>2. held[t].whole /\ writer[t].by = h
  BY <1>1 DEF Holder
<1>3. finished[w] <= finished[h]
  BY <1>1, <1>2 DEF Holder
<1>4. finished[w] \in Nat /\ finished[h] \in Nat
  BY <1>1 DEF TypeOK
<1>5. Older(w) \/ Ties(w)
  BY <1>1, <1>2, <1>3, <1>4 DEF Older, Ties, Previous
<1>6. QED
  BY <1>5

\* A record that drops the claim of the holder makes it the writer.
LEMMA OlderIsNotHolder ==
  ASSUME IInv, NEW w \in Write, phase[w] = "reported", New(w), Older(w)
  PROVE  held[TargetOf[w]].by # w
<1> USE LogAssumption DEF LogAssumption, IInv
<1> DEFINE t == TargetOf[w]
           p == writer[t].by
<1> SUFFICES ASSUME held[t].by = w PROVE FALSE
  OBVIOUS
<1>1. held[t].whole /\ Holder(t) /\ WriterIsFact(t) /\ t \in Target /\ w # NoWrite
  BY EvidenceFinished DEF New
<1>2. p # NoWrite /\ (p = w \/ finished[w] < finished[p])
  BY DEF Older, Previous
<1>3. p \in facts /\ TargetOf[p] = t /\ p \in Write
  BY <1>1, <1>2 DEF WriterIsFact, TypeOK
<1>4. finished[p] <= finished[w]
  BY <1>1, <1>3 DEF Holder
<1>5. p # w
  BY <1>3 DEF New
<1>6. finished[p] \in Nat /\ finished[w] \in Nat
  BY <1>3 DEF TypeOK
<1>7. QED
  BY <1>2, <1>4, <1>5, <1>6

LogType ==
  /\ claim \in [Write -> [state : ClaimState, seq : Nat]]
  /\ sequence \in Nat
  /\ facts \in SUBSET Write
  /\ writer \in [Target -> WriterRow]
  /\ coverage \in [Target -> SUBSET Row]
  /\ torn \in [Target -> SUBSET Window]

\* What every record leaves true.
Recorded(w) ==
  /\ LogType'
  /\ \A v \in Write : AtPhase(v)'
  /\ ActiveIsNewest' /\ Sequenced'
  /\ \A t \in Target : Holder(t)' /\ WriterIsFact(t)'
  /\ FactsAreDone'
  /\ Settled(w)'
  /\ \A v \in Write : Settled(v) => Settled(v)'

LEMMA TornType ==
  ASSUME IInv, NEW w \in Write, NEW fresh, Clear(w, fresh)
  PROVE  Forgets(w) /\ torn' \in [Target -> SUBSET Window]
<1>1. Unrepaired(w) \subseteq Window
  BY LogAssumption DEF LogAssumption, Unrepaired, Touched, Resolved, Claims
<1>2. QED
  BY <1>1 DEF Clear, Forgets, IInv, TypeOK

LEMMA UnprovenStep ==
  ASSUME IInv, NEW w \in Write, phase[w] = "reported", Unproven(w),
         UNCHANGED <<execution, tables, clock>>
  PROVE  Recorded(w)
<1> USE DEF IInv, execution, tables, log
<1>1. UNCHANGED <<log, torn>>
  BY DEF Unproven
<1>2. LogType'
  BY <1>1 DEF LogType, TypeOK
<1>3. \A v \in Write : AtPhase(v)'
  BY <1>1 DEF AtPhase, Claimed
<1>4. ActiveIsNewest' /\ Sequenced'
  BY <1>1 DEF ActiveIsNewest, Sequenced, SameTarget, Claimed
<1>5. \A t \in Target : Holder(t)' /\ WriterIsFact(t)'
  BY <1>1 DEF Holder, WriterIsFact, Claimed
<1>6. FactsAreDone'
  BY <1>1 DEF FactsAreDone, Claimed, Overtaken
<1>7. Reported[w] /\ claim[w].state = "none"
  BY LogAssumption DEF Unproven, HasEvidence, LogAssumption
<1>8. Settled(w)' /\ \A v \in Write : Settled(v) => Settled(v)'
  BY <1>1, <1>7 DEF Settled, Overtaken
<1>9. QED
  BY <1>2, <1>3, <1>4, <1>5, <1>6, <1>8 DEF Recorded

\* The holder of the table after a record that leaves the writer.
LEMMA HolderKept ==
  ASSUME IInv, NEW w \in Write, phase[w] = "reported", Forgets(w),
         held[TargetOf[w]].by \notin Resolved(w),
         UNCHANGED <<execution, sequence, facts, tables, clock>>,
         UNCHANGED writer
  PROVE  /\ \A t \in Target : Holder(t)' /\ WriterIsFact(t)'
         /\ FactsAreDone'
         /\ \A v \in Write : Settled(v) => Settled(v)'
<1> USE LogAssumption DEF LogAssumption, IInv, execution, tables
<1>1. \A v \in Write : \/ claim'[v] = claim[v] /\ v \notin Resolved(w)
                       \/ ~Claimed(v)' /\ v \in Resolved(w)
  BY ForgetsClaims
<1>2. \A v \in Write : Claimed(v)' => Claimed(v) /\ claim'[v] = claim[v]
  BY <1>1 DEF Claimed
<1>3. \A v \in Resolved(w) : TargetOf[v] = TargetOf[w]
  BY ResolvedClaims DEF SameTarget
<1>4. ASSUME NEW t \in Target PROVE Holder(t)' /\ WriterIsFact(t)'
  <2>1. Holder(t) /\ WriterIsFact(t)
    OBVIOUS
  <2>2. CASE held[t].by = NoWrite
    BY <2>1, <2>2 DEF Holder, WriterIsFact
  <2>3. CASE held[t].by # NoWrite
    <3>1. held[t].by \in Write /\ TargetOf[held[t].by] = t
      BY <2>1, <2>3 DEF TypeOK, Holder
    <3>2. held[t].by \notin Resolved(w)
      BY <1>3, <3>1
    <3>3. claim'[held[t].by] = claim[held[t].by]
      BY <1>1, <3>1, <3>2
    <3>4. Claimed(held[t].by)' <=> Claimed(held[t].by)
      BY <3>3 DEF Claimed
    <3>5. QED
      BY <1>2, <2>1, <2>3, <3>1, <3>3, <3>4 DEF Holder, WriterIsFact
  <2>4. QED
    BY <2>2, <2>3
<1>5. FactsAreDone'
  BY <1>2 DEF FactsAreDone, Overtaken, TypeOK
<1>6. \A v \in Write : Settled(v) => Settled(v)'
  BY <1>2 DEF Settled, Overtaken, Claimed
<1>7. QED
  BY <1>4, <1>5, <1>6

LEMMA ReplayedStep ==
  ASSUME IInv, NEW w \in Write, phase[w] = "reported", Replayed(w),
         UNCHANGED <<execution, tables, clock>>
  PROVE  Recorded(w)
<1>1. /\ Forgets(w) /\ torn' \in [Target -> SUBSET Window] /\ w \in facts
      /\ UNCHANGED <<sequence, facts, writer, coverage>>
  BY TornType DEF Replayed
<1>2. Resolved(w) = {}
  BY <1>1 DEF IInv, FactsAreDone, Resolved, Claimed
<1>3. /\ \A t \in Target : Holder(t)' /\ WriterIsFact(t)'
      /\ FactsAreDone'
      /\ \A v \in Write : Settled(v) => Settled(v)'
  BY <1>1, <1>2, HolderKept
<1>4. /\ claim' \in [Write -> [state : ClaimState, seq : Nat]]
      /\ \A v \in Write : AtPhase(v)'
      /\ ActiveIsNewest' /\ Sequenced'
  BY <1>1, ForgetsClaims
<1>5. LogType'
  BY <1>1, <1>4 DEF LogType, IInv, TypeOK
<1>6. Settled(w)'
  BY <1>1 DEF Settled
<1>7. QED
  BY <1>3, <1>4, <1>5, <1>6 DEF Recorded

LEMMA SupersededStep ==
  ASSUME IInv, NEW w \in Write, phase[w] = "reported", Superseded(w),
         UNCHANGED <<execution, tables, clock>>
  PROVE  Recorded(w)
<1>1. /\ Forgets(w) /\ torn' \in [Target -> SUBSET Window] /\ New(w) /\ Older(w)
      /\ UNCHANGED <<sequence, facts, writer, coverage>>
  BY TornType DEF Superseded
<1>2. held[TargetOf[w]].by \notin Resolved(w)
  BY <1>1, ResolvedClaims, OlderIsNotHolder
<1>3. /\ \A t \in Target : Holder(t)' /\ WriterIsFact(t)'
      /\ FactsAreDone'
      /\ \A v \in Write : Settled(v) => Settled(v)'
  BY <1>1, <1>2, HolderKept
<1>4. /\ claim' \in [Write -> [state : ClaimState, seq : Nat]]
      /\ \A v \in Write : AtPhase(v)'
      /\ ActiveIsNewest' /\ Sequenced'
  BY <1>1, ForgetsClaims
<1>5. LogType'
  BY <1>1, <1>4 DEF LogType, IInv, TypeOK
<1>6. Settled(w)'
  <2>1. Overtaken(w)
    <3>1. writer[TargetOf[w]].by \in Write
      BY <1>1, LogAssumption DEF Older, Previous, IInv, TypeOK, WriterRow, LogAssumption
    <3>2. finished[w] \in Nat /\ finished[writer[TargetOf[w]].by] \in Nat
      BY <3>1 DEF IInv, TypeOK
    <3>3. QED
      BY <1>1, <3>2 DEF Older, Previous, Overtaken
  <2>2. QED
    BY <1>3, <2>1 DEF Settled
<1>7. QED
  BY <1>3, <1>4, <1>5, <1>6 DEF Recorded

LEMMA AmbiguousStep ==
  ASSUME IInv, NEW w \in Write, phase[w] = "reported", Ambiguous(w),
         UNCHANGED <<execution, tables, clock>>
  PROVE  Recorded(w)
<1> USE LogAssumption DEF LogAssumption, IInv, execution, tables
<1> DEFINE t == TargetOf[w]
<1>0. /\ TypeOK /\ t \in Target
      /\ \A v \in Write : claim'[v].seq = claim[v].seq
      /\ \A v \in Write \ {w} : claim'[v] = claim[v]
      /\ claim[w].state # "none" => claim'[w].state = "dirty"
      /\ claim[w].state = "none" => claim'[w].state = "none"
      /\ writer' = [writer EXCEPT ![t].ambiguous = TRUE]
      /\ UNCHANGED <<sequence, facts, coverage, torn, phase, finished, held, content, clock>>
  BY DEF Ambiguous, TypeOK
<1>1. \A u \in Target : writer'[u].by = writer[u].by /\ writer'[u].gen = writer[u].gen
  BY <1>0 DEF TypeOK, WriterRow
<1>2. \A v \in Write : Claimed(v)' <=> Claimed(v)
  BY <1>0 DEF Claimed
<1>3. LogType'
  <2>1. claim' \in [Write -> [state : ClaimState, seq : Nat]]
    BY <1>0 DEF Ambiguous, TypeOK, ClaimState
  <2>2. writer' \in [Target -> WriterRow]
    <3>1. writer[t] \in WriterRow
      BY <1>0 DEF TypeOK
    <3>2. [writer[t] EXCEPT !.ambiguous = TRUE] \in WriterRow
      BY <3>1 DEF WriterRow
    <3>3. QED
      BY <1>0, <3>2 DEF TypeOK
  <2>3. QED
    BY <1>0, <2>1, <2>2 DEF LogType, TypeOK
<1>4. ASSUME NEW v \in Write PROVE AtPhase(v)'
  <2>1. AtPhase(v)
    OBVIOUS
  <2>2. QED
    BY <1>0, <1>2, <2>1 DEF AtPhase
<1>5. Sequenced'
  BY <1>0 DEF Sequenced
<1>6. ActiveIsNewest'
  <2> SUFFICES ASSUME NEW v \in Write, NEW u \in Write, v # u, SameTarget(v, u),
                      Claimed(v)', claim'[u].state = "active"
               PROVE  claim'[v].state = "dirty" /\ claim'[v].seq < claim'[u].seq
    BY DEF ActiveIsNewest, SameTarget
  <2>1. claim[u].state = "active" /\ Claimed(v)
    BY <1>0, <1>2 DEF ClaimState, TypeOK
  <2>2. claim[v].state = "dirty" /\ claim[v].seq < claim[u].seq
    BY <2>1 DEF ActiveIsNewest
  <2>3. QED
    BY <1>0, <2>2
<1>7. ASSUME NEW u \in Target PROVE Holder(u)' /\ WriterIsFact(u)'
  <2>1. Holder(u) /\ WriterIsFact(u)
    OBVIOUS
  <2>2. CASE held[u].by = NoWrite
    BY <1>0, <1>1, <2>1, <2>2 DEF Holder, WriterIsFact
  <2>3. CASE held[u].by # NoWrite
    <3>1. held[u].by \in Write
      BY <1>0, <2>3 DEF TypeOK
    <3>2. QED
      BY <1>0, <1>1, <1>2, <2>1, <2>3, <3>1 DEF Holder, WriterIsFact
  <2>4. QED
    BY <2>2, <2>3
<1>8. \A v \in Write : Overtaken(v)' <=> Overtaken(v)
  BY <1>0, <1>1 DEF Overtaken
<1>9. FactsAreDone'
  BY <1>0, <1>2, <1>8 DEF FactsAreDone, TypeOK
<1>10. \A v \in Write : Settled(v) => Settled(v)'
  BY <1>0, <1>2, <1>8 DEF Settled, Claimed
<1>11. Settled(w)'
  <2>1. Overtaken(w)
    BY <1>0 DEF Ambiguous, Ties, Previous, Overtaken, TypeOK
  <2>2. QED
    BY <1>8, <2>1 DEF Settled
<1>12. QED
  BY <1>3, <1>4, <1>5, <1>6, <1>7, <1>9, <1>10, <1>11 DEF Recorded

LEMMA AcceptedStep ==
  ASSUME IInv, NEW w \in Write, phase[w] = "reported", Accepted(w),
         UNCHANGED <<execution, tables, clock>>
  PROVE  Recorded(w)
<1> USE LogAssumption DEF LogAssumption, IInv, execution, tables
<1> DEFINE t == TargetOf[w]
           h == held[t].by
<1>0. /\ TypeOK /\ t \in Target
      /\ New(w) /\ ~Older(w) /\ ~Ties(w) /\ w \notin facts
      /\ facts' = facts \cup {w}
      /\ writer' = [writer EXCEPT ![t] =
                      [by |-> w, gen |-> Generation(w), ambiguous |-> FALSE]]
      /\ Clear(w, ~Continues(w))
      /\ UNCHANGED <<sequence, phase, finished, held, content, clock>>
  BY DEF Accepted, New
<1>1. Forgets(w) /\ torn' \in [Target -> SUBSET Window]
  BY <1>0, TornType
<1>2. /\ claim' \in [Write -> [state : ClaimState, seq : Nat]]
      /\ \A v \in Write : AtPhase(v)'
      /\ ActiveIsNewest' /\ Sequenced'
  BY <1>0, <1>1, ForgetsClaims
<1>3. \A v \in Write : \/ claim'[v] = claim[v] /\ v \notin Resolved(w)
                       \/ ~Claimed(v)' /\ v \in Resolved(w)
  BY <1>0, <1>1, ForgetsClaims
<1>4. \A v \in Write : Claimed(v)' => Claimed(v) /\ claim'[v] = claim[v]
  BY <1>3 DEF Claimed
<1>5. Generation(w) \in Nat
  BY <1>0 DEF Generation, Previous, TypeOK, WriterRow
<1>6. LogType'
  <2>1. writer' \in [Target -> WriterRow]
    BY <1>0, <1>5 DEF TypeOK, WriterRow
  <2>2. coverage' \in [Target -> SUBSET Row]
    BY <1>0, <1>5 DEF Accepted, TypeOK, Row
  <2>3. QED
    BY <1>0, <1>1, <1>2, <2>1, <2>2 DEF LogType, TypeOK
<1>7. /\ writer'[t].by = w
      /\ \A u \in Target \ {t} : writer'[u] = writer[u]
  BY <1>0 DEF TypeOK
<1>8. /\ finished[w] > 0 /\ h \in Write /\ TargetOf[h] = t /\ Claimed(h)
      /\ h = w => held[t].whole
  BY <1>0, EvidenceFinished, HolderNotOvertaken DEF New
<1>9. ASSUME NEW u \in Target PROVE Holder(u)' /\ WriterIsFact(u)'
  <2>1. Holder(u) /\ WriterIsFact(u)
    OBVIOUS
  <2>2. CASE u # t
    <3>1. CASE held[u].by = NoWrite
      BY <1>0, <1>7, <2>1, <2>2, <3>1 DEF Holder, WriterIsFact
    <3>2. CASE held[u].by # NoWrite
      <4>1. held[u].by \in Write /\ TargetOf[held[u].by] = u
        BY <2>1, <3>2 DEF TypeOK, Holder
      <4>2. held[u].by \notin Resolved(w)
        BY <2>2, <4>1, ResolvedClaims DEF SameTarget
      <4>3. claim'[held[u].by] = claim[held[u].by]
        BY <1>3, <4>1, <4>2
      <4>4. Claimed(held[u].by)' <=> Claimed(held[u].by)
        BY <4>3 DEF Claimed
      <4>5. QED
        BY <1>0, <1>4, <1>7, <2>1, <2>2, <3>2, <4>1, <4>3, <4>4 DEF Holder, WriterIsFact
    <3>3. QED
      BY <3>1, <3>2
  <2>3. CASE u = t
    <3>1. WriterIsFact(t)'
      BY <1>0, <1>7 DEF WriterIsFact
    <3>2. h # NoWrite /\ Holder(t)
      BY <1>8
    <3>3. CASE h = w
      BY SMTT(60), <1>0, <1>4, <1>7, <1>8, <3>1, <3>2, <2>3, <3>3 DEF Holder
    <3>4. CASE h # w
      <4>1. h \notin Resolved(w)
        BY <3>4, ResolvedClaims
      <4>2. claim'[h] = claim[h] /\ Claimed(h)'
        BY <1>3, <1>8, <4>1 DEF Claimed
      <4>3. QED
        BY SMTT(60), <1>0, <1>4, <1>7, <1>8, <3>1, <3>2, <2>3, <4>2 DEF Holder
    <3>5. QED
      BY <3>3, <3>4
  <2>4. QED
    BY <2>2, <2>3
<1>10. ASSUME NEW v \in Write, Overtaken(v) PROVE Overtaken(v)'
  <2>1. CASE TargetOf[v] # t
    BY <1>0, <1>7, <1>10, <2>1 DEF Overtaken
  <2>2. CASE TargetOf[v] = t
    <3>1. writer[t].by \in Write /\ finished[v] <= finished[writer[t].by]
      BY <1>0, <1>10, <2>2 DEF Overtaken, TypeOK, WriterRow
    <3>2. finished[writer[t].by] <= finished[w]
      BY <1>0, <3>1 DEF Older, Previous, TypeOK
    <3>3. finished[v] <= finished[w]
      BY <1>0, <3>1, <3>2 DEF TypeOK
    <3>4. QED
      BY <1>0, <1>7, <2>2, <3>3 DEF Overtaken
  <2>3. QED
    BY <2>1, <2>2
<1>11. Overtaken(w)'
  BY <1>0, <1>7 DEF Overtaken, TypeOK
<1>12. FactsAreDone'
  <2>1. ~Claimed(w)'
    BY <1>3, ResolvedClaims DEF Claimed
  <2>2. QED
    BY <1>0, <1>4, <1>8, <1>10, <1>11, <2>1 DEF FactsAreDone, TypeOK
<1>13. Settled(w)' /\ \A v \in Write : Settled(v) => Settled(v)'
  BY <1>0, <1>4, <1>10 DEF Settled, Claimed
<1>14. QED
  BY <1>2, <1>6, <1>9, <1>12, <1>13 DEF Recorded

LEMMA RecordStep ==
  ASSUME IInv, NEW w \in Write, phase[w] = "reported", Record(w),
         UNCHANGED <<execution, tables, clock>>
  PROVE  Recorded(w)
  BY UnprovenStep, ReplayedStep, SupersededStep, AmbiguousStep, AcceptedStep DEF Record

LEMMA DispatchStep ==
  ASSUME IInv, NEW p \in Proc, Dispatch(p)
  PROVE  IInv'
<1> USE DEF IInv, execution, tables, environment
<1> DEFINE w == Head(pending[p])
<1>0. /\ TypeOK
      /\ p \in up /\ pending[p] # <<>> /\ ~handled[p]
      /\ Record(w)
      /\ handled' = [handled EXCEPT ![p] = TRUE]
      /\ UNCHANGED <<execution, outbox, recover, pending, tables, environment>>
  BY DEF Dispatch
<1>1. w \in Write /\ phase[w] = "reported"
  BY <1>0, QueuedTail DEF TypeOK, Delivered
<1>2. Recorded(w)
  BY <1>0, <1>1, RecordStep
<1>3. handled' \in [Proc -> BOOLEAN]
  BY <1>0 DEF TypeOK
<1>4. TypeOK'
  BY <1>0, <1>2, <1>3 DEF Recorded, LogType, TypeOK
<1>5. Delivered'
  BY <1>0 DEF Delivered, TypeOK
<1>6. HandledIsSettled'
  <2> SUFFICES ASSUME NEW q \in Proc, handled'[q] PROVE Settled(Head(pending[q]))'
    BY <1>0 DEF HandledIsSettled
  <2>1. CASE q = p
    BY <1>0, <1>2, <2>1 DEF Recorded
  <2>2. CASE q # p
    <3>1. handled[q] /\ Settled(Head(pending[q])) /\ pending[q] # <<>>
      BY <1>0, <2>2 DEF HandledIsSettled, Delivered, TypeOK
    <3>2. Head(pending[q]) \in Write
      BY <3>1, QueuedTail DEF TypeOK
    <3>3. QED
      BY <1>0, <1>2, <3>1, <3>2 DEF Recorded
  <2>3. QED
    BY <2>1, <2>2
<1>7. AcknowledgedIsSettled'
  BY <1>0, <1>2 DEF AcknowledgedIsSettled, Recorded
<1>8. QED
  BY <1>2, <1>4, <1>5, <1>6, <1>7 DEF Recorded

LEMMA RecoverStep ==
  ASSUME IInv, NEW w \in Write, Recover(w)
  PROVE  IInv'
<1> USE DEF IInv, execution, tables, environment
<1>0. /\ TypeOK
      /\ w \in recover /\ Record(w)
      /\ recover' \in {recover, recover \ {w}}
      /\ UNCHANGED <<execution, outbox, pending, handled, tables, environment>>
  BY DEF Recover
<1>1. phase[w] = "reported"
  BY <1>0 DEF Delivered
<1>2. Recorded(w)
  BY <1>0, <1>1, RecordStep
<1>3. TypeOK'
  BY <1>0, <1>2 DEF Recorded, LogType, TypeOK
<1>4. Delivered'
  BY <1>0 DEF Delivered
<1>5. HandledIsSettled'
  <2> SUFFICES ASSUME NEW q \in Proc, handled[q] PROVE Settled(Head(pending[q]))'
    BY <1>0 DEF HandledIsSettled
  <2>1. Settled(Head(pending[q])) /\ pending[q] # <<>>
    BY DEF HandledIsSettled, Delivered
  <2>2. Head(pending[q]) \in Write
    BY <1>0, <2>1, QueuedTail DEF TypeOK
  <2>3. QED
    BY <1>0, <1>2, <2>1, <2>2 DEF Recorded
<1>6. AcknowledgedIsSettled'
  <2> SUFFICES ASSUME NEW v \in Write, phase[v] = "reported",
                      v \notin Queued(outbox) \cup recover'
               PROVE  Settled(v)'
    BY <1>0 DEF AcknowledgedIsSettled
  <2>1. CASE v = w
    BY <1>2, <2>1 DEF Recorded
  <2>2. CASE v # w
    BY <1>0, <1>2, <2>2 DEF AcknowledgedIsSettled, Recorded
  <2>3. QED
    BY <2>1, <2>2
<1>7. QED
  BY <1>2, <1>3, <1>4, <1>5, <1>6 DEF Recorded

----------------------------------------------------------------------------
LEMMA StutterStep == IInv /\ UNCHANGED vars => IInv'
<1> SUFFICES ASSUME IInv, UNCHANGED vars PROVE IInv'
  OBVIOUS
<1> USE DEF vars, execution, log, delivery, tables, environment
<1>1. TypeOK /\ Delivered /\ HandledIsSettled /\ AcknowledgedIsSettled
  BY DEF IInv
<1>2. TypeOK'
  BY <1>1 DEF TypeOK
<1>3. Delivered' /\ HandledIsSettled' /\ AcknowledgedIsSettled'
  BY <1>1 DEF Delivered, Queued, HandledIsSettled, AcknowledgedIsSettled, Settled,
     Overtaken
<1>4. QED
  BY <1>1, <1>2, <1>3, DeliveryFrame DEF TypeOK

\* The steps of an execution that only move it on.
LEMMA AdvanceSteps ==
  ASSUME IInv, NEW w \in Write,
         Start(w) \/ RunFails(w) \/ WriteFails(w) \/ NothingToWrite(w)
           \/ PersistUnit(w) \/ PersistFails(w) \/ MarkDirtyFails(w) \/ EnqueueFails(w)
  PROVE  \E from, to : Advance(w, from, to)
<1> USE DEF Moves, environment
<1>1. CASE Start(w)
  <2>1. Advance(w, "new", "running")
    BY <1>1 DEF Start, Advance, IInv, TypeOK
  <2>2. QED
    BY <2>1
<1>2. CASE RunFails(w)
  <2>1. Advance(w, "running", "failed")
    BY <1>2 DEF RunFails, Advance, IInv, TypeOK
  <2>2. QED
    BY <2>1
<1>3. CASE WriteFails(w)
  <2>1. Advance(w, "claimed", "broken") \/ Advance(w, "writing", "broken")
    BY <1>3 DEF WriteFails, Advance, IInv, TypeOK
  <2>2. QED
    BY <2>1
<1>4. CASE NothingToWrite(w)
  <2>1. Advance(w, "running", "done")
    BY <1>4 DEF NothingToWrite, Advance, IInv, TypeOK
  <2>2. QED
    BY <2>1
<1>5. CASE PersistUnit(w)
  <2>1. Advance(w, "written", "done")
    BY <1>5 DEF PersistUnit, Advance, IInv, TypeOK
  <2>2. QED
    BY <2>1
<1>6. CASE PersistFails(w) \/ MarkDirtyFails(w) \/ EnqueueFails(w)
  <2>1. faults' \in Nat
    BY <1>6 DEF PersistFails, MarkDirtyFails, EnqueueFails, Fault, IInv, TypeOK
  <2>2. \/ Advance(w, "written", "broken")
        \/ Advance(w, "broken", "failed")
        \/ Advance(w, "done", "broken")
    BY <1>6, <2>1 DEF PersistFails, MarkDirtyFails, EnqueueFails, Advance
  <2>3. QED
    BY <2>2
<1>7. QED
  BY <1>1, <1>2, <1>3, <1>4, <1>5, <1>6

LEMMA NextInvariant == IInv /\ [Next]_vars => IInv'
<1> SUFFICES ASSUME IInv, [Next]_vars PROVE IInv'
  OBVIOUS
<1>1. ASSUME NEW w \in Write, Execute(w) PROVE IInv'
  <2>1. CASE ClaimTargetWrite(w)
    BY <2>1, ClaimStep
  <2>2. CASE BeginWrite(w)
    BY <2>2, BeginStep
  <2>3. CASE EndWrite(w)
    BY <2>3, EndStep
  <2>4. CASE MarkDirty(w)
    BY <2>4, MarkDirtyStep
  <2>5. CASE Enqueue(w)
    BY <2>5, EnqueueStep
  <2>6. CASE Start(w) \/ RunFails(w) \/ WriteFails(w) \/ NothingToWrite(w)
               \/ PersistUnit(w) \/ PersistFails(w) \/ MarkDirtyFails(w)
               \/ EnqueueFails(w)
    BY <2>6, AdvanceSteps, AdvanceStep
  <2>7. QED
    BY <1>1, <2>1, <2>2, <2>3, <2>4, <2>5, <2>6 DEF Execute
<1>2. ASSUME NEW w \in Write, Recover(w) PROVE IInv'
  BY <1>2, RecoverStep
<1>3. ASSUME NEW p \in Proc, Deliver(p) PROVE IInv'
  BY <1>3, DispatchStep, DispatchStopsStep, AcknowledgeStep DEF Deliver
<1>4. ASSUME NEW p \in Proc, ReplayPending(p) \/ Crash(p) \/ StartProcess(p) PROVE IInv'
  BY <1>4, ReplayPendingStep, CrashStep, StartProcessStep
<1>5. CASE UNCHANGED vars
  BY <1>5, StutterStep
<1>6. QED
  BY <1>1, <1>2, <1>3, <1>4, <1>5 DEF Next

(***************************************************************************)
(* The invariant holds: in whatever order executions, dispatches, replays  *)
(* and deaths of processes come, the last write of a table loses its claim *)
(* only to its own record.                                                 *)
(***************************************************************************)
THEOREM Invariant == Spec => []IInv
  BY InitInvariant, NextInvariant, PTL DEF Spec

(***************************************************************************)
(* The tables of the log and the outbox keep their types.                  *)
(***************************************************************************)
THEOREM TypeCorrect == Spec => []TypeOK
<1>1. IInv => TypeOK
  BY DEF IInv
<1>2. QED
  BY <1>1, Invariant, PTL

LEMMA NamedIsHolder == IInv => NamedWroteLast
<1> SUFFICES ASSUME IInv, NEW t \in Target, Named(t) # NoWrite
             PROVE  held[t] = [by |-> Named(t), whole |-> TRUE]
  BY DEF NamedWroteLast
<1> USE LogAssumption DEF LogAssumption, IInv
<1> DEFINE h == held[t].by
<1>1. Named(t) = writer[t].by /\ Claims(t) = {} /\ writer[t].by # NoWrite
  BY DEF Named
<1>2. Holder(t) /\ TypeOK
  OBVIOUS
<1>3. h # NoWrite
  BY <1>1, <1>2 DEF Holder
<1>4. h \in Write /\ TargetOf[h] = t
  BY <1>2, <1>3 DEF Holder, TypeOK
<1>5. ~Claimed(h)
  BY <1>1, <1>4 DEF Claims, Claimed
<1>6. held[t].whole /\ writer[t].by = h
  BY <1>2, <1>3, <1>5 DEF Holder
<1>7. held[t] \in [by : Write \cup {NoWrite}, whole : BOOLEAN]
  BY <1>2 DEF TypeOK
<1>8. QED
  BY <1>1, <1>6, <1>7

(***************************************************************************)
(* A writer is named only while the table holds its whole output.          *)
(***************************************************************************)
THEOREM NamedCorrect == Spec => []NamedWroteLast
  BY NamedIsHolder, Invariant, PTL

(***************************************************************************)
(* No two executions hold an active claim of one table.                    *)
(***************************************************************************)
THEOREM ClaimsExclude == Spec => []OneActiveClaim
<1>1. IInv => OneActiveClaim
  BY DEF IInv, ActiveIsNewest, OneActiveClaim, SameTarget, Claimed
<1>2. QED
  BY <1>1, Invariant, PTL

(***************************************************************************)
(* No completion leaves the outbox or the recovery before it is settled.   *)
(***************************************************************************)
THEOREM AcknowledgedCorrect == Spec => []AcknowledgedIsSettled
<1>1. IInv => AcknowledgedIsSettled
  BY DEF IInv
<1>2. QED
  BY <1>1, Invariant, PTL

----------------------------------------------------------------------------
(* The refinement.  What readers are told is the mapped variable.          *)
told == <<[t \in Target |-> Named(t)], held>>

\* A step that leaves what readers are told.
LEMMA SameTold ==
  ASSUME UNCHANGED held, \A t \in Target : Named(t)' = Named(t)
  PROVE  UNCHANGED told
  BY DEF told

\* A step of the tables' owners by which targets only lose their writer.
LEMMA LoseTrust ==
  ASSUME UNCHANGED held, \A t \in Target : Named(t)' \in {Named(t), NoWrite}
  PROVE  Freshness!Next
<1> DEFINE ts == {t \in Target : Named(t)' = NoWrite}
<1>1. [t \in Target |-> Named(t)]' =
        [t \in Target |-> IF t \in ts THEN NoWrite ELSE [u \in Target |-> Named(u)][t]]
  OBVIOUS
<1>2. Freshness!Withdraw(ts)
  BY <1>1 DEF Freshness!Withdraw
<1>3. QED
  BY <1>2 DEF Freshness!Next

\* A step that concerns the log of one target.
LEMMA GainTrust ==
  ASSUME IInv, IInv', UNCHANGED held, NEW t \in Target,
         \A u \in Target \ {t} : Named(u)' = Named(u)
  PROVE  [Freshness!Next]_told
<1>1. CASE Named(t)' \in {Named(t), NoWrite}
  BY <1>1, LoseTrust
<1>2. CASE Named(t)' \notin {Named(t), NoWrite}
  <2>1. /\ Named(t)' # NoWrite
        /\ held[t] = [by |-> Named(t)', whole |-> TRUE]
    <3>1. NamedWroteLast'
      BY NamedIsHolder, PTL
    <3>2. QED
      BY <3>1, <1>2 DEF NamedWroteLast
  <2>2. Named(t) = NoWrite
    <3>1. held[t].by = Named(t)'
      BY <2>1
    <3>2. Named(t) # NoWrite => held[t].by = Named(t)
      <4>1. NamedWroteLast
        BY NamedIsHolder
      <4>2. Named(t) # NoWrite => held[t] = [by |-> Named(t), whole |-> TRUE]
        BY <4>1 DEF NamedWroteLast
      <4>3. QED
        BY <4>2
    <3>3. QED
      BY <1>2, <3>1, <3>2
  <2>3. [u \in Target |-> Named(u)]' =
          [[u \in Target |-> Named(u)] EXCEPT ![t] = held[t].by]
    <3>1. held[t].by = Named(t)'
      BY <2>1
    <3>2. QED
      BY <3>1
  <2>4. Freshness!Trust(t)
    BY <2>1, <2>2, <2>3 DEF Freshness!Trust
  <2>5. QED
    BY <2>4 DEF Freshness!Next
<1>3. QED
  BY <1>1, <1>2

\* The steps that do not reach the log.
LEMMA LogKept ==
  ASSUME UNCHANGED <<log, held>>
  PROVE  UNCHANGED told
<1>1. \A t \in Target : Named(t)' = Named(t)
  BY DEF log, Named, Claims
<1>2. QED
  BY <1>1, SameTold

\* The steps that only claim, or make a claim dirty.
LEMMA ClaimsKept ==
  ASSUME UNCHANGED <<writer, held>>, \A t \in Target : Claims(t) \subseteq Claims(t)'
  PROVE  Freshness!Next
<1>1. \A t \in Target : Named(t)' \in {Named(t), NoWrite}
  BY DEF Named
<1>2. QED
  BY <1>1, LoseTrust

LEMMA ClaimRefines ==
  ASSUME IInv, NEW w \in Write, ClaimTargetWrite(w) \/ MarkDirty(w)
  PROVE  Freshness!Next
<1>1. claim \in [Write -> [state : ClaimState, seq : Nat]]
  BY DEF IInv, TypeOK
<1>2. UNCHANGED <<writer, held>>
  BY DEF ClaimTargetWrite, MarkDirty, tables
<1>3. \A v \in Write : claim[v].state # "none" => claim'[v].state # "none"
  BY <1>1 DEF ClaimTargetWrite, MarkDirty
<1>4. QED
  BY <1>2, <1>3, ClaimsKept DEF Claims

LEMMA StartProcessRefines ==
  ASSUME IInv, NEW p \in Proc, StartProcess(p)
  PROVE  Freshness!Next
<1>1. claim \in [Write -> [state : ClaimState, seq : Nat]]
  BY DEF IInv, TypeOK
<1>2. UNCHANGED <<writer, held>>
  BY DEF StartProcess, tables
<1>3. \A v \in Write : claim[v].state # "none" => claim'[v].state # "none"
  BY <1>1 DEF StartProcess
<1>4. QED
  BY <1>2, <1>3, ClaimsKept DEF Claims

LEMMA BeginRefines ==
  ASSUME IInv, NEW w \in Write, BeginWrite(w)
  PROVE  Freshness!Next
<1> USE LogAssumption DEF LogAssumption
<1> DEFINE t == TargetOf[w]
<1>1. phase[w] = "claimed" /\ UNCHANGED log
  BY DEF BeginWrite, Moves
<1>2. claim[w].state # "none"
  BY <1>1 DEF IInv, AtPhase
<1>3. Named(t) = NoWrite
  BY <1>2 DEF Named, Claims
<1>4. \A u \in Target : Named(u)' = Named(u)
  BY <1>1 DEF log, Named, Claims
<1>5. Freshness!Touch(w)
  BY <1>3, <1>4 DEF BeginWrite, Freshness!Touch
<1>6. QED
  BY <1>5 DEF Freshness!Next

LEMMA EndRefines ==
  ASSUME IInv, NEW w \in Write, EndWrite(w)
  PROVE  Freshness!Next
<1> USE LogAssumption DEF LogAssumption
<1> DEFINE t == TargetOf[w]
<1>1. phase[w] = "writing" /\ UNCHANGED log
  BY DEF EndWrite, Moves
<1>2. held[t] = [by |-> w, whole |-> FALSE]
  BY <1>1 DEF IInv, AtPhase
<1>3. held' = [held EXCEPT ![t] = [by |-> w, whole |-> TRUE]]
  BY DEF EndWrite
<1>4. \A u \in Target : Named(u)' = Named(u)
  BY <1>1 DEF log, Named, Claims
<1>5. Freshness!Complete(w)
  BY <1>2, <1>3, <1>4 DEF Freshness!Complete
<1>6. QED
  BY <1>5 DEF Freshness!Next

LEMMA RecordRefines ==
  ASSUME IInv, IInv', NEW w \in Write, phase[w] = "reported", Record(w),
         UNCHANGED <<execution, tables>>
  PROVE  [Freshness!Next]_told
<1> USE LogAssumption DEF LogAssumption
<1>1. /\ writer \in [Target -> WriterRow]
      /\ claim \in [Write -> [state : ClaimState, seq : Nat]]
  BY DEF IInv, TypeOK
<1>2. \A u \in Target \ {TargetOf[w]} : writer'[u] = writer[u]
  BY <1>1 DEF Record, Unproven, Replayed, Superseded, Ambiguous, Accepted, log
<1>3. \A v \in Write : TargetOf[v] # TargetOf[w] => claim'[v] = claim[v]
  <2>1. \A v \in Resolved(w) : TargetOf[v] = TargetOf[w]
    BY ResolvedClaims DEF SameTarget
  <2>2. QED
    BY <1>1, <2>1
    DEF Record, Unproven, Replayed, Superseded, Ambiguous, Accepted, Clear, log
<1>4. ASSUME NEW u \in Target \ {TargetOf[w]} PROVE Named(u)' = Named(u)
  <2>1. Claims(u)' = Claims(u)
    BY <1>3 DEF Claims
  <2>2. QED
    BY <1>2, <2>1 DEF Named
<1>5. UNCHANGED held
  BY DEF tables
<1>6. QED
  BY <1>4, <1>5, GainTrust

LEMMA NextRefines ==
  ASSUME IInv, IInv', [Next]_vars
  PROVE  [Freshness!Next]_told
<1>1. ASSUME NEW w \in Write, Execute(w) PROVE [Freshness!Next]_told
  <2>1. CASE ClaimTargetWrite(w) \/ MarkDirty(w)
    BY <2>1, ClaimRefines
  <2>2. CASE BeginWrite(w)
    BY <2>2, BeginRefines
  <2>3. CASE EndWrite(w)
    BY <2>3, EndRefines
  <2>4. CASE Start(w) \/ RunFails(w) \/ WriteFails(w) \/ NothingToWrite(w)
               \/ PersistUnit(w) \/ PersistFails(w) \/ MarkDirtyFails(w)
               \/ EnqueueFails(w) \/ Enqueue(w)
    BY <2>4, LogKept
    DEF Start, RunFails, WriteFails, NothingToWrite, PersistUnit, PersistFails,
        MarkDirtyFails, EnqueueFails, Enqueue, tables
  <2>5. QED
    BY <1>1, <2>1, <2>2, <2>3, <2>4 DEF Execute
<1>2. ASSUME NEW w \in Write, Recover(w) PROVE [Freshness!Next]_told
  <2>1. phase[w] = "reported"
    BY <1>2 DEF Recover, IInv, Delivered
  <2>2. QED
    BY <1>2, <2>1, RecordRefines DEF Recover
<1>3. ASSUME NEW p \in Proc, Dispatch(p) PROVE [Freshness!Next]_told
  <2> DEFINE w == Head(pending[p])
  <2>1. w \in Write /\ phase[w] = "reported"
    <3>1. pending[p] \in Seq(Write) /\ pending[p] # <<>>
      BY <1>3 DEF Dispatch, IInv, TypeOK
    <3>2. QED
      BY <3>1, QueuedTail DEF IInv, Delivered
  <2>2. QED
    BY <1>3, <2>1, RecordRefines DEF Dispatch
<1>4. ASSUME NEW p \in Proc, StartProcess(p) PROVE [Freshness!Next]_told
  BY <1>4, StartProcessRefines
<1>5. ASSUME NEW p \in Proc,
             DispatchStops(p) \/ Acknowledge(p) \/ ReplayPending(p) \/ Crash(p)
      PROVE  [Freshness!Next]_told
  BY <1>5, LogKept DEF DispatchStops, Acknowledge, ReplayPending, Crash, tables
<1>6. CASE UNCHANGED vars
  BY <1>6, LogKept DEF vars, tables
<1>7. QED
  BY <1>1, <1>2, <1>3, <1>4, <1>5, <1>6 DEF Next, Deliver

(***************************************************************************)
(* Readers are told of a writer only while the table holds its output,     *)
(* step by step: the log implements the abstract freshness of its targets. *)
(***************************************************************************)
THEOREM Refinement == Spec => ImplementsFreshness
<1>1. Init => Freshness!Init
  BY DEF Init, Freshness!Init, Named, NoWriter
<1>2. IInv /\ IInv' /\ [Next]_vars => [Freshness!Next]_told
  BY NextRefines
<1>3. QED
  BY <1>1, <1>2, Invariant, PTL DEF Spec, ImplementsFreshness, Freshness!Spec, told

----------------------------------------------------------------------------
(* What the tables hold. *)

LEMMA InitContent == Init => ContentInv
<1> SUFFICES ASSUME Init PROVE ContentInv
  OBVIOUS
<1> USE LogAssumption DEF LogAssumption
<1>1. /\ \A w \in Write : finished[w] = 0 /\ phase[w] = "new"
      /\ \A t \in Target : coverage[t] = {} /\ writer[t].by = NoWrite
  BY DEF Init, NoWriter
<1>2. ClaimOrder /\ ClaimIsCurrent /\ ForgottenIsSettled /\ OutputStays
  BY <1>1 DEF ClaimOrder, ClaimIsCurrent, ForgottenIsSettled, OutputStays
<1>3. Emptied /\ GenerationIsLast /\ RowsArePhysical
  BY <1>1 DEF Emptied, GenerationIsLast, RowsArePhysical
<1>4. QED
  BY <1>2, <1>3 DEF ContentInv

\* A step that neither forgets nor adds a claim, touches no table and makes
\* no writer; a writer may become ambiguous.
LEMMA ContentFrame ==
  ASSUME IInv, ContentInv,
         \A v \in Write : /\ Claimed(v)' <=> Claimed(v)
                          /\ claim'[v].seq = claim[v].seq
                          /\ phase'[v] = "writing" => phase[v] = "writing",
         UNCHANGED <<finished, facts, coverage, content, torn>>,
         \A t \in Target : /\ writer'[t].by = writer[t].by
                           /\ writer'[t].gen = writer[t].gen
                           /\ ~writer'[t].ambiguous => ~writer[t].ambiguous
  PROVE  ContentInv'
<1> USE LogAssumption DEF LogAssumption
<1>1. \A v \in Write : \A x : Disturbs(v, x)' <=> Disturbs(v, x)
  BY DEF Disturbs, Touched
<1>2. ClaimOrder' /\ ClaimIsCurrent'
  BY DEF ContentInv, ClaimOrder, ClaimIsCurrent, SameTarget
<1>3. ForgottenIsSettled'
  BY DEF ContentInv, ForgottenIsSettled, Overtaken
<1>4. Emptied'
  BY DEF ContentInv, Emptied, Touched
<1>5. OutputStays'
  BY <1>1 DEF ContentInv, OutputStays, SameTarget
<1>6. GenerationIsLast'
  BY DEF ContentInv, GenerationIsLast
<1>7. RowsArePhysical'
  BY <1>1 DEF ContentInv, RowsArePhysical, InGeneration
<1>8. QED
  BY <1>2, <1>3, <1>4, <1>5, <1>6, <1>7 DEF ContentInv

\* A new claim is the newest, and of a write that has not finished.
LEMMA ClaimContent ==
  ASSUME IInv, ContentInv, NEW w \in Write, ClaimTargetWrite(w)
  PROVE  ContentInv'
<1> USE LogAssumption DEF LogAssumption
<1>1. /\ claim \in [Write -> [state : ClaimState, seq : Nat]]
      /\ phase \in [Write -> Phase] /\ finished[w] = 0 /\ ~Claimed(w)
      /\ AtPhase(w)
  BY DEF IInv, TypeOK, ClaimTargetWrite, Moves, AtPhase
<1>2. /\ \A v \in Write \ {w} : claim'[v] = claim[v] /\ (Claimed(v)' <=> Claimed(v))
      /\ \A v \in Write : phase'[v] = "writing" => phase[v] = "writing"
      /\ UNCHANGED <<finished, facts, writer, coverage, content, torn>>
  BY <1>1 DEF ClaimTargetWrite, Moves, Claimed, tables
<1>3. \A v \in Write : \A x : Disturbs(v, x) => v # w /\ Disturbs(v, x)'
  BY <1>1, <1>2 DEF Disturbs, Touched
<1>4. ClaimOrder' /\ ClaimIsCurrent' /\ ForgottenIsSettled'
  BY <1>1, <1>2
     DEF ContentInv, ClaimOrder, ClaimIsCurrent, ForgottenIsSettled, SameTarget,
         Overtaken
<1>5. Emptied'
  BY <1>2 DEF ContentInv, Emptied, Touched
<1>6. OutputStays'
  BY <1>1, <1>2, <1>3 DEF ContentInv, OutputStays, SameTarget
<1>7. GenerationIsLast' /\ RowsArePhysical'
  BY <1>2, <1>3 DEF ContentInv, GenerationIsLast, RowsArePhysical, InGeneration
<1>8. QED
  BY <1>4, <1>5, <1>6, <1>7 DEF ContentInv

\* The write under an active claim is the only one in its table, and newer
\* than every other claim.
LEMMA ActiveAlone ==
  ASSUME IInv, NEW w \in Write, phase[w] \in {"claimed", "writing"}
  PROVE  /\ Claimed(w) /\ finished[w] = 0
         /\ \A v \in Write \ {w} : SameTarget(v, w) =>
              /\ Claimed(v) => claim[v].seq < claim[w].seq
              /\ phase[v] \notin {"claimed", "writing", "written"}
<1>1. claim[w].state = "active" /\ Claimed(w) /\ finished[w] = 0
  BY DEF IInv, AtPhase, Claimed
<1>2. ASSUME NEW v \in Write \ {w}, SameTarget(v, w)
      PROVE  claim[v].state # "active" /\ (Claimed(v) => claim[v].seq < claim[w].seq)
  BY <1>1, <1>2 DEF IInv, ActiveIsNewest, Claimed
<1>3. ASSUME NEW v \in Write \ {w}, SameTarget(v, w)
      PROVE  phase[v] \notin {"claimed", "writing", "written"}
  BY <1>2, <1>3 DEF IInv, AtPhase
<1>4. QED
  BY <1>1, <1>2, <1>3

\* The windows a write touches are its own to answer for.
LEMMA BeginContent ==
  ASSUME IInv, ContentInv, NEW w \in Write, BeginWrite(w)
  PROVE  ContentInv'
<1> USE LogAssumption DEF LogAssumption
<1> DEFINE t == TargetOf[w]
<1>1. /\ TypeOK /\ t \in Target /\ phase[w] = "claimed"
      /\ phase' = [phase EXCEPT ![w] = "writing"]
      /\ content' = [content EXCEPT ![t] =
                       [x \in Window |-> IF x \in Touched(w) THEN NoWrite ELSE content[t][x]]]
      /\ UNCHANGED <<finished, claim, facts, writer, coverage, torn>>
  BY DEF BeginWrite, Moves, IInv, log
<1>2. /\ Claimed(w) /\ finished[w] = 0
      /\ \A v \in Write \ {w} : SameTarget(v, w) /\ Claimed(v) =>
           claim[v].seq < claim[w].seq
  BY <1>1, ActiveAlone
<1>3. /\ \A u \in Target \ {t} : content'[u] = content[u]
      /\ \A x \in Window : x \in Touched(w) => content'[t][x] = NoWrite
      /\ \A x \in Window : x \notin Touched(w) => content'[t][x] = content[t][x]
  BY <1>1 DEF TypeOK
<1>4. \A v \in Write : /\ Claimed(v)' <=> Claimed(v)
                       /\ Touched(v) \subseteq Window
  BY <1>1 DEF Claimed, Touched
<1>5. ASSUME NEW x \in Window, x \in Touched(w) PROVE Disturbs(w, x)'
  BY <1>1, <1>2, <1>3, <1>5 DEF Disturbs, Claimed, Touched
<1>6. ASSUME NEW v \in Write, NEW x \in Window, Disturbs(v, x)
      PROVE  Disturbs(v, x)'
  <2>1. content'[TargetOf[v]][x] \in {content[TargetOf[v]][x], NoWrite}
    BY <1>3
  <2>2. QED
    BY <1>4, <1>6, <2>1 DEF Disturbs, Touched
<1>7. ClaimOrder' /\ ClaimIsCurrent' /\ ForgottenIsSettled'
  BY <1>1, <1>4
     DEF ContentInv, ClaimOrder, ClaimIsCurrent, ForgottenIsSettled, SameTarget,
         Overtaken
<1>8. Emptied'
  <2> SUFFICES ASSUME NEW v \in Write, phase'[v] = "writing", NEW x \in Touched(v)
               PROVE  content'[TargetOf[v]][x] = NoWrite
    BY DEF Emptied, Touched
  <2>1. x \in Window
    BY <1>4
  <2>2. CASE v = w
    BY <1>3, <2>1, <2>2
  <2>3. CASE v # w
    <3>1. content[TargetOf[v]][x] = NoWrite /\ TargetOf[v] \in Target
      BY <1>1, <2>3 DEF ContentInv, Emptied, TypeOK
    <3>2. QED
      BY <1>3, <2>1, <3>1
  <2>4. QED
    BY <2>2, <2>3
<1>9. OutputStays'
  <2> SUFFICES ASSUME NEW u \in Write, Claimed(u), finished[u] > 0
               PROVE  \/ content'[TargetOf[u]][WindowOf[u]] = u
                      \/ \E v \in Write : /\ SameTarget(v, u)
                                          /\ claim[u].seq < claim[v].seq
                                          /\ Disturbs(v, WindowOf[u])'
    BY <1>1, <1>4 DEF OutputStays, SameTarget
  <2>1. u # w /\ WindowOf[u] \in Window /\ TargetOf[u] \in Target
    BY <1>2
  <2>2. CASE TargetOf[u] = t /\ WindowOf[u] \in Touched(w)
    BY <1>2, <1>5, <2>1, <2>2 DEF SameTarget
  <2>3. CASE ~(TargetOf[u] = t /\ WindowOf[u] \in Touched(w))
    <3>1. content'[TargetOf[u]][WindowOf[u]] = content[TargetOf[u]][WindowOf[u]]
      BY <1>3, <2>1, <2>3
    <3>2. QED
      BY <1>6, <2>1, <3>1 DEF ContentInv, OutputStays
  <2>4. QED
    BY <2>2, <2>3
<1>10. GenerationIsLast'
  BY <1>1 DEF ContentInv, GenerationIsLast
<1>11. RowsArePhysical'
  <2> SUFFICES ASSUME NEW u \in Target, writer[u].by # NoWrite, ~writer[u].ambiguous,
                      NEW r \in coverage[u], InGeneration(u, r), r.window \notin torn[u]
               PROVE  \/ /\ content'[u][r.window] # NoWrite
                         /\ VariantOf[content'[u][r.window]] = VariantOf[writer[u].by]
                      \/ \E v \in Write : TargetOf[v] = u /\ Disturbs(v, r.window)'
    BY <1>1 DEF RowsArePhysical, InGeneration
  <2>1. r.window \in Window
    BY <1>1 DEF TypeOK, Row
  <2>2. CASE u = t /\ r.window \in Touched(w)
    BY <1>5, <2>1, <2>2
  <2>3. CASE ~(u = t /\ r.window \in Touched(w))
    <3>1. content'[u][r.window] = content[u][r.window]
      BY <1>3, <2>1, <2>3
    <3>2. QED
      BY <1>6, <2>1, <3>1 DEF ContentInv, RowsArePhysical
  <2>4. QED
    BY <2>2, <2>3
<1>12. QED
  BY <1>7, <1>8, <1>9, <1>10, <1>11 DEF ContentInv

LEMMA EndContent ==
  ASSUME IInv, ContentInv, NEW w \in Write, EndWrite(w)
  PROVE  ContentInv'
<1> USE LogAssumption DEF LogAssumption
<1> DEFINE t == TargetOf[w]
<1>1. /\ TypeOK /\ t \in Target /\ phase[w] = "writing"
      /\ phase' = [phase EXCEPT ![w] = "written"]
      /\ content' = [content EXCEPT ![t][WindowOf[w]] = w]
      /\ torn' = [torn EXCEPT ![t] = torn[t] \ Touched(w)]
      /\ UNCHANGED <<claim, facts, writer, coverage>>
  BY DEF EndWrite, Moves, IInv, log
<1>2. /\ Claimed(w) /\ finished[w] = 0 /\ claim[w].seq \in Nat
      /\ \A v \in Write \ {w} : SameTarget(v, w) =>
           /\ Claimed(v) => claim[v].seq < claim[w].seq
           /\ phase[v] \notin {"claimed", "writing", "written"}
  BY <1>1, ActiveAlone DEF TypeOK
<1>3. /\ \A u \in Target \ {t} : content'[u] = content[u]
      /\ content'[t][WindowOf[w]] = w
      /\ \A x \in Window \ {WindowOf[w]} : content'[t][x] = content[t][x]
      /\ WindowOf[w] \in Window
  BY <1>1 DEF TypeOK
<1>4. \A v \in Write : /\ Claimed(v)' <=> Claimed(v)
                       /\ Touched(v) \subseteq Window
                       /\ WindowOf[v] \in Touched(v)
  BY <1>1 DEF Claimed, Touched
<1>5. /\ \A v \in Write \ {w} : finished'[v] = finished[v]
      /\ finished'[w] = clock' /\ clock' \in Nat /\ clock \in Nat /\ clock <= clock'
      /\ \A v \in Write : finished[v] \in Nat /\ finished[v] <= clock
  <2>1. \A v \in Write : AtPhase(v)
    BY DEF IInv
  <2>2. clock' \in Nat /\ clock \in Nat /\ clock <= clock'
    BY <1>1 DEF EndWrite, TypeOK
  <2>3. QED
    BY <1>1, <2>1, <2>2 DEF EndWrite, TypeOK, AtPhase
<1>6. \A v \in Write : finished[v] <= finished'[w] /\ finished'[v] <= finished'[w]
  BY <1>5
<1>7. \A v \in facts : v # w /\ v \in Write
  BY <1>1 DEF IInv, FactsAreDone, TypeOK
<1>8. ASSUME NEW u \in Target, writer[u].by # NoWrite
      PROVE  writer[u].by \in Write \ {w}
  BY <1>7, <1>8 DEF IInv, WriterIsFact
<1>9. ASSUME NEW x \in Window, x \in Touched(w) PROVE Disturbs(w, x)'
  <2>1. content[t][x] = NoWrite
    BY <1>1, <1>9 DEF ContentInv, Emptied
  <2>2. content'[t][x] \in {w, NoWrite}
    BY <1>3, <2>1
  <2>3. QED
    BY <1>2, <1>4, <1>9, <2>2 DEF Disturbs, Touched
<1>10. ASSUME NEW v \in Write, NEW x \in Window, Disturbs(v, x),
              ~(TargetOf[v] = t /\ x = WindowOf[w])
       PROVE  Disturbs(v, x)'
  <2>1. content'[TargetOf[v]][x] = content[TargetOf[v]][x]
    BY <1>3, <1>10
  <2>2. QED
    BY <1>4, <1>10, <2>1 DEF Disturbs, Touched
<1>11. ClaimOrder'
  <2> SUFFICES ASSUME NEW v \in Write, NEW u \in Write, SameTarget(v, u),
                      Claimed(v), Claimed(u), finished'[v] > 0, finished'[u] > 0,
                      claim[v].seq <= claim[u].seq
               PROVE  finished'[v] <= finished'[u]
    BY <1>1, <1>4 DEF ClaimOrder, SameTarget
  <2>1. CASE u = w
    BY <1>6, <2>1
  <2>2. CASE v = w /\ u # w
    <3>1. claim[u].seq < claim[w].seq
      BY <1>2, <2>2 DEF SameTarget
    <3>2. claim[u].seq \in Nat
      BY <1>1 DEF TypeOK
    <3>3. QED
      BY <1>2, <2>2, <3>1, <3>2
  <2>3. CASE v # w /\ u # w
    BY <1>5, <2>3 DEF ContentInv, ClaimOrder
  <2>4. QED
    BY <2>1, <2>2, <2>3
<1>12. ClaimIsCurrent'
  <2> SUFFICES ASSUME NEW u \in Write, Claimed(u), finished'[u] > 0,
                      writer[TargetOf[u]].by # NoWrite
               PROVE  finished'[writer[TargetOf[u]].by] <= finished'[u]
    BY <1>1, <1>4 DEF ClaimIsCurrent
  <2>1. writer[TargetOf[u]].by \in Write \ {w}
    BY <1>8
  <2>2. CASE u = w
    BY <1>6, <2>1, <2>2
  <2>3. CASE u # w
    BY <1>5, <2>1, <2>3 DEF ContentInv, ClaimIsCurrent
  <2>4. QED
    BY <2>2, <2>3
<1>13. ForgottenIsSettled'
  <2> SUFFICES ASSUME NEW u \in Write, finished'[u] > 0, ~Claimed(u)
               PROVE  u \in facts \/ Overtaken(u)'
    BY <1>1, <1>4 DEF ForgottenIsSettled
  <2>1. u # w /\ finished'[u] = finished[u]
    BY <1>2, <1>5
  <2>2. u \in facts \/ Overtaken(u)
    BY <2>1 DEF ContentInv, ForgottenIsSettled
  <2>3. Overtaken(u) => Overtaken(u)'
    BY <1>1, <1>5, <1>8, <2>1 DEF Overtaken
  <2>4. QED
    BY <2>2, <2>3
<1>14. Emptied'
  <2> SUFFICES ASSUME NEW v \in Write, phase'[v] = "writing", NEW x \in Touched(v)
               PROVE  content'[TargetOf[v]][x] = NoWrite
    BY DEF Emptied, Touched
  <2>1. v # w /\ phase[v] = "writing" /\ TargetOf[v] \in Target /\ x \in Window
    BY <1>1, <1>4 DEF TypeOK
  <2>2. TargetOf[v] # t
    BY <1>2, <2>1 DEF SameTarget
  <2>3. QED
    BY <1>3, <2>1, <2>2 DEF ContentInv, Emptied
<1>15. OutputStays'
  <2> SUFFICES ASSUME NEW u \in Write, Claimed(u), finished'[u] > 0
               PROVE  \/ content'[TargetOf[u]][WindowOf[u]] = u
                      \/ \E v \in Write : /\ SameTarget(v, u)
                                          /\ claim[u].seq < claim[v].seq
                                          /\ Disturbs(v, WindowOf[u])'
    BY <1>1, <1>4 DEF OutputStays, SameTarget
  <2>1. WindowOf[u] \in Window /\ TargetOf[u] \in Target
    OBVIOUS
  <2>2. CASE u = w
    BY <1>3, <2>2
  <2>3. CASE u # w /\ TargetOf[u] = t /\ WindowOf[u] = WindowOf[w]
    BY <1>2, <1>4, <1>9, <2>1, <2>3 DEF SameTarget
  <2>4. CASE u # w /\ ~(TargetOf[u] = t /\ WindowOf[u] = WindowOf[w])
    <3>1. content'[TargetOf[u]][WindowOf[u]] = content[TargetOf[u]][WindowOf[u]]
      BY <1>3, <2>1, <2>4
    <3>2. finished[u] > 0
      BY <1>5, <2>4
    <3>3. QED
      BY <1>10, <2>1, <2>4, <3>1, <3>2 DEF ContentInv, OutputStays, SameTarget
  <2>5. QED
    BY <2>2, <2>3, <2>4
<1>16. GenerationIsLast'
  BY <1>1 DEF ContentInv, GenerationIsLast
<1>17. RowsArePhysical'
  <2> SUFFICES ASSUME NEW u \in Target, writer[u].by # NoWrite, ~writer[u].ambiguous,
                      NEW r \in coverage[u], InGeneration(u, r), r.window \notin torn'[u]
               PROVE  \/ /\ content'[u][r.window] # NoWrite
                         /\ VariantOf[content'[u][r.window]] = VariantOf[writer[u].by]
                      \/ \E v \in Write : TargetOf[v] = u /\ Disturbs(v, r.window)'
    BY <1>1 DEF RowsArePhysical, InGeneration
  <2>1. r.window \in Window
    BY <1>1 DEF TypeOK, Row
  <2>2. CASE u = t /\ r.window \in Touched(w)
    BY <1>9, <2>1, <2>2
  <2>3. CASE ~(u = t /\ r.window \in Touched(w))
    <3>1. r.window \notin torn[u]
      BY <1>1, <2>3 DEF TypeOK
    <3>2. ~(u = t /\ r.window = WindowOf[w])
      BY <1>4, <2>3
    <3>3. content'[u][r.window] = content[u][r.window]
      BY <1>3, <2>1, <3>2
    <3>4. QED
      BY <1>10, <2>1, <3>1, <3>2, <3>3 DEF ContentInv, RowsArePhysical
  <2>4. QED
    BY <2>2, <2>3
<1>18. QED
  BY <1>11, <1>12, <1>13, <1>14, <1>15, <1>16, <1>17 DEF ContentInv

\* A claimed completion ended no earlier than the writer of its table.
LEMMA ClaimedIsNotOlder ==
  ASSUME IInv, ContentInv, NEW w \in Write, phase[w] = "reported", New(w), Older(w)
  PROVE  ~Claimed(w)
<1> USE LogAssumption DEF LogAssumption
<1> DEFINE p == writer[TargetOf[w]].by
<1> SUFFICES ASSUME Claimed(w) PROVE FALSE
  OBVIOUS
<1>1. p # NoWrite /\ (p = w \/ finished[w] < finished[p])
  BY DEF Older, Previous
<1>2. finished[w] > 0
  BY EvidenceFinished DEF New
<1>3. p \in facts /\ p \in Write
  BY <1>1 DEF IInv, WriterIsFact, TypeOK
<1>4. p # w
  BY <1>3 DEF New
<1>5. finished[p] <= finished[w]
  BY <1>1, <1>2 DEF ContentInv, ClaimIsCurrent
<1>6. finished[p] \in Nat /\ finished[w] \in Nat
  BY <1>3 DEF IInv, TypeOK
<1>7. QED
  BY <1>1, <1>4, <1>5, <1>6

\* A completion without a claim resolves nothing.
LEMMA NothingResolved ==
  ASSUME IInv, NEW w \in Write, ~Claimed(w), Clear(w, FALSE)
  PROVE  UNCHANGED <<claim, torn>>
<1>1. Resolved(w) = {}
  BY DEF Resolved, Claimed
<1>2. Unrepaired(w) = {}
  BY <1>1 DEF Unrepaired
<1>3. claim \in [Write -> [state : ClaimState, seq : Nat]] /\ torn \in [Target -> SUBSET Window]
  BY DEF IInv, TypeOK
<1>4. torn' = torn
  BY <1>2, <1>3 DEF Clear
<1>5. claim' = claim
  BY <1>1, <1>3 DEF Clear
<1>6. QED
  BY <1>4, <1>5

\* Only the record of a success that becomes the writer changes more.
LEMMA OtherRecordsContent ==
  ASSUME IInv, ContentInv, NEW w \in Write, phase[w] = "reported",
         Unproven(w) \/ Replayed(w) \/ Superseded(w) \/ Ambiguous(w),
         UNCHANGED <<execution, tables>>
  PROVE  ContentInv'
<1> USE LogAssumption DEF LogAssumption, execution, tables
<1>1. UNCHANGED <<phase, finished, content>> /\ writer \in [Target -> WriterRow]
  BY DEF IInv, TypeOK
<1>2. CASE Unproven(w)
  BY <1>1, <1>2, ContentFrame DEF Unproven, log, Claimed
<1>3. CASE Replayed(w)
  <2>1. ~Claimed(w)
    BY <1>3 DEF Replayed, IInv, FactsAreDone
  <2>2. UNCHANGED <<claim, torn, facts, writer, coverage>>
    BY <1>3, <2>1, NothingResolved DEF Replayed
  <2>3. QED
    BY <1>1, <2>2, ContentFrame DEF Claimed
<1>4. CASE Superseded(w)
  <2>1. ~Claimed(w)
    BY <1>4, ClaimedIsNotOlder DEF Superseded
  <2>2. UNCHANGED <<claim, torn, facts, writer, coverage>>
    BY <1>4, <2>1, NothingResolved DEF Superseded
  <2>3. QED
    BY <1>1, <2>2, ContentFrame DEF Claimed
<1>5. CASE Ambiguous(w)
  <2>1. /\ UNCHANGED <<facts, coverage, torn>>
        /\ writer' = [writer EXCEPT ![TargetOf[w]].ambiguous = TRUE]
    BY <1>5 DEF Ambiguous
  <2>2. \A t \in Target : /\ writer'[t].by = writer[t].by
                          /\ writer'[t].gen = writer[t].gen
                          /\ ~writer'[t].ambiguous => ~writer[t].ambiguous
    BY <1>1, <2>1 DEF WriterRow
  <2>3. \A v \in Write : (Claimed(v)' <=> Claimed(v)) /\ claim'[v].seq = claim[v].seq
    <3>1. claim \in [Write -> [state : ClaimState, seq : Nat]]
      BY DEF IInv, TypeOK
    <3>2. QED
      BY <1>5, <3>1 DEF Ambiguous, Claimed
  <2>4. QED
    BY <1>1, <2>1, <2>2, <2>3, ContentFrame
<1>6. QED
  BY <1>2, <1>3, <1>4, <1>5

\* The success that becomes the writer has its claim, resolves every claim
\* that is older and leaves every claim that is newer.
LEMMA AcceptedFacts ==
  ASSUME IInv, ContentInv, NEW w \in Write, phase[w] = "reported", Accepted(w),
         UNCHANGED <<execution, tables>>
  PROVE  /\ Claimed(w) /\ finished[w] > 0 /\ ~Claimed(w)'
         /\ \A v \in Write : Claimed(v)' => /\ Claimed(v) /\ claim'[v] = claim[v]
                                            /\ v \notin Resolved(w)
         /\ \A v \in Write : Claimed(v) /\ ~Claimed(v)' =>
              v \in Resolved(w) /\ SameTarget(v, w)
         /\ \A v \in Write : SameTarget(v, w) /\ Claimed(v)' =>
              claim[w].seq <= claim[v].seq
         /\ \A v \in Resolved(w) \ {w} : /\ claim[v].seq < claim[w].seq
                                         /\ claim[v].state = "dirty"
<1> USE LogAssumption DEF LogAssumption
<1>1. /\ New(w) /\ ~Older(w) /\ ~Ties(w) /\ Clear(w, ~Continues(w))
      /\ claim \in [Write -> [state : ClaimState, seq : Nat]]
      /\ finished \in [Write -> Nat]
  BY DEF Accepted, IInv, TypeOK
<1>2. finished[w] > 0
  BY <1>1, EvidenceFinished DEF New
<1>3. Claimed(w)
  <2>1. ~Overtaken(w)
    BY <1>1 DEF Older, Ties, Previous, Overtaken, IInv, TypeOK, WriterRow
  <2>2. QED
    BY <1>1, <1>2, <2>1 DEF New, ContentInv, ForgottenIsSettled
<1>4. \A v \in Write : /\ v \in Resolved(w) => claim'[v] = NoClaim
                       /\ v \notin Resolved(w) => claim'[v] = claim[v]
  BY <1>1 DEF Clear
<1>5. /\ w \in Resolved(w)
      /\ Resolved(w) \subseteq {v \in Write : SameTarget(v, w) /\ Claimed(v)}
  BY <1>3, ResolvedClaims
<1>6. \A v \in Write : /\ Claimed(v)' => Claimed(v) /\ claim'[v] = claim[v] /\ v \notin Resolved(w)
                       /\ Claimed(v) /\ ~Claimed(v)' => v \in Resolved(w)
  BY <1>4 DEF Claimed, NoClaim
<1>7. ASSUME NEW v \in Write, SameTarget(v, w), Claimed(v)'
      PROVE  claim[w].seq <= claim[v].seq
  <2>1. v \notin Resolved(w) /\ Claimed(v) /\ v # w
    BY <1>5, <1>6, <1>7
  <2>2. claim[v].state \in {"active", "dirty"}
    BY <1>1, <2>1 DEF Claimed, ClaimState
  <2>3. claim[v].seq \in Nat /\ claim[w].seq \in Nat
    BY <1>1
  <2>4. CASE claim[v].state = "active"
    <3>1. claim[w].seq < claim[v].seq
      BY <1>3, <1>7, <2>1, <2>4 DEF IInv, ActiveIsNewest, SameTarget
    <3>2. QED
      BY <2>3, <3>1
  <2>5. CASE claim[v].state = "dirty"
    <3>1. ~(claim[v].seq < claim[w].seq)
      BY <1>3, <1>7, <2>1, <2>5 DEF Resolved, Claims, SameTarget, Claimed
    <3>2. QED
      BY <2>3, <3>1
  <2>6. QED
    BY <2>2, <2>4, <2>5
<1>8. \A v \in Resolved(w) \ {w} : claim[v].seq < claim[w].seq /\ claim[v].state = "dirty"
  BY DEF Resolved
<1>9. QED
  BY <1>2, <1>3, <1>5, <1>6, <1>7, <1>8

\* The claims and the times that are left.
LEMMA AcceptedClaims ==
  ASSUME IInv, ContentInv, NEW w \in Write, phase[w] = "reported", Accepted(w),
         UNCHANGED <<execution, tables>>
  PROVE  ClaimOrder' /\ ClaimIsCurrent' /\ ForgottenIsSettled'
<1> USE LogAssumption DEF LogAssumption
<1> DEFINE t == TargetOf[w]
<1>1. /\ writer \in [Target -> WriterRow] /\ t \in Target
      /\ finished \in [Write -> Nat] /\ finished' = finished
      /\ claim \in [Write -> [state : ClaimState, seq : Nat]]
      /\ facts' = facts \cup {w} /\ ~Older(w) /\ ~Ties(w)
      /\ writer' = [writer EXCEPT ![t] = [by |-> w, gen |-> Generation(w), ambiguous |-> FALSE]]
  BY DEF Accepted, IInv, TypeOK, execution
<1>2. /\ Claimed(w) /\ finished[w] > 0 /\ ~Claimed(w)'
      /\ \A v \in Write : Claimed(v)' => Claimed(v) /\ claim'[v] = claim[v]
      /\ \A v \in Write : Claimed(v) /\ ~Claimed(v)' =>
           v \in Resolved(w) /\ SameTarget(v, w)
      /\ \A v \in Write : SameTarget(v, w) /\ Claimed(v)' =>
           claim[w].seq <= claim[v].seq
      /\ \A v \in Resolved(w) \ {w} : claim[v].seq < claim[w].seq
  BY AcceptedFacts
<1>3. writer'[t].by = w /\ \A u \in Target \ {t} : writer'[u] = writer[u]
  BY <1>1
<1>4. ClaimOrder'
  BY <1>1, <1>2 DEF ContentInv, ClaimOrder, SameTarget
<1>5. ClaimIsCurrent'
  <2> SUFFICES ASSUME NEW v \in Write, Claimed(v)', finished[v] > 0,
                      writer'[TargetOf[v]].by # NoWrite
               PROVE  finished[writer'[TargetOf[v]].by] <= finished[v]
    BY <1>1 DEF ClaimIsCurrent
  <2>1. CASE TargetOf[v] # t
    BY <1>2, <1>3, <2>1 DEF ContentInv, ClaimIsCurrent
  <2>2. CASE TargetOf[v] = t
    <3>1. claim[w].seq <= claim[v].seq /\ Claimed(v)
      BY <1>2, <2>2 DEF SameTarget
    <3>2. QED
      BY <1>2, <1>3, <2>2, <3>1 DEF ContentInv, ClaimOrder, SameTarget
  <2>3. QED
    BY <2>1, <2>2
<1>6. ForgottenIsSettled'
  <2> SUFFICES ASSUME NEW v \in Write, finished[v] > 0, ~Claimed(v)'
               PROVE  v \in facts \cup {w} \/ Overtaken(v)'
    BY <1>1 DEF ForgottenIsSettled
  <2>1. CASE Claimed(v) /\ v # w
    <3>1. v \in Resolved(w) /\ SameTarget(v, w) /\ claim[v].seq < claim[w].seq
      BY <1>2, <2>1
    <3>2. claim[v].seq <= claim[w].seq
      BY <1>1, <3>1
    <3>3. finished[v] <= finished[w]
      BY <1>2, <2>1, <3>1, <3>2 DEF ContentInv, ClaimOrder
    <3>4. QED
      BY <1>1, <1>3, <3>1, <3>3 DEF Overtaken, SameTarget
  <2>2. CASE ~Claimed(v) /\ v \notin facts
    <3>1. Overtaken(v)
      BY <2>2 DEF ContentInv, ForgottenIsSettled
    <3>2. CASE TargetOf[v] # t
      BY <1>1, <1>3, <3>1, <3>2 DEF Overtaken
    <3>3. CASE TargetOf[v] = t
      <4>1. /\ writer[t].by \in Write /\ finished[v] <= finished[writer[t].by]
            /\ finished[writer[t].by] <= finished[w]
        BY <1>1, <3>1, <3>3 DEF Overtaken, WriterRow, Older, Previous
      <4>2. finished[v] <= finished[w]
        BY <1>1, <4>1
      <4>3. QED
        BY <1>1, <1>3, <3>3, <4>2 DEF Overtaken
    <3>4. QED
      BY <3>2, <3>3
  <2>3. QED
    BY <2>1, <2>2
<1>7. QED
  BY <1>4, <1>5, <1>6

\* The row of a generation is on the windows the writer filled, or on those
\* that it continues.
LEMMA AcceptedContent ==
  ASSUME IInv, ContentInv, NEW w \in Write, phase[w] = "reported", Accepted(w),
         UNCHANGED <<execution, tables>>
  PROVE  OutputStays' /\ GenerationIsLast' /\ RowsArePhysical'
<1> USE LogAssumption DEF LogAssumption
<1> DEFINE t == TargetOf[w]
           row == [gen |-> Generation(w), variant |-> VariantOf[w], window |-> WindowOf[w]]
<1>1. /\ TypeOK /\ t \in Target
      /\ UNCHANGED <<finished, content>>
      /\ writer' = [writer EXCEPT ![t] = [by |-> w, gen |-> Generation(w), ambiguous |-> FALSE]]
      /\ torn' = [torn EXCEPT ![t] = IF ~Continues(w) THEN {} ELSE torn[t] \cup Unrepaired(w)]
  BY DEF Accepted, Clear, IInv, execution, tables
<1>2. /\ Claimed(w) /\ finished[w] > 0
      /\ \A v \in Write : Claimed(v)' => Claimed(v) /\ claim'[v] = claim[v]
      /\ \A v \in Write : Claimed(v) /\ ~Claimed(v)' =>
           v \in Resolved(w) /\ SameTarget(v, w)
      /\ \A v \in Write : SameTarget(v, w) /\ Claimed(v)' =>
           claim[w].seq <= claim[v].seq
      /\ \A v \in Resolved(w) \ {w} : claim[v].seq < claim[w].seq
      /\ \A v \in Write : claim[v].seq \in Nat
  BY <1>1, AcceptedFacts DEF TypeOK
<1>3. /\ writer'[t].by = w /\ writer'[t].gen = Generation(w)
      /\ \A u \in Target \ {t} : writer'[u] = writer[u] /\ torn'[u] = torn[u]
      /\ torn'[t] = (IF ~Continues(w) THEN {} ELSE torn[t] \cup Unrepaired(w))
  BY <1>1 DEF TypeOK
<1>4. \A v \in Write : \A x : Disturbs(v, x)' <=> Disturbs(v, x) /\ Claimed(v)'
  BY <1>1, <1>2 DEF Disturbs, Touched
<1>5. /\ \A u \in Target \ {t} : coverage'[u] = coverage[u]
      /\ \A r \in coverage'[t] :
           \/ r = row
           \/ /\ r \in coverage[t]
              /\ ~(r.gen = Generation(w) /\ r.variant = VariantOf[w] /\ Replaces[w])
  BY <1>1 DEF Accepted, TypeOK
<1>6. OutputStays'
  <2> SUFFICES ASSUME NEW u \in Write, Claimed(u)', finished[u] > 0
               PROVE  \/ content[TargetOf[u]][WindowOf[u]] = u
                      \/ \E v \in Write : /\ SameTarget(v, u)
                                          /\ claim'[u].seq < claim'[v].seq
                                          /\ Disturbs(v, WindowOf[u])'
    BY <1>1 DEF OutputStays, SameTarget
  <2>1. SUFFICES ASSUME NEW v \in Write, SameTarget(v, u),
                        claim[u].seq < claim[v].seq, Disturbs(v, WindowOf[u])
                 PROVE  Claimed(v)'
    BY <1>2, <1>4 DEF ContentInv, OutputStays
  <2>2. SUFFICES ASSUME ~Claimed(v)' PROVE FALSE
    OBVIOUS
  <2>3. v \in Resolved(w) /\ SameTarget(v, w)
    BY <1>2, <2>1, <2>2 DEF Disturbs
  <2>4. claim[w].seq <= claim[u].seq
    BY <1>2, <2>1, <2>3 DEF SameTarget
  <2>5. v = w \/ claim[v].seq < claim[w].seq
    BY <1>2, <2>3
  <2>6. QED
    BY <1>2, <2>1, <2>4, <2>5
<1>7. /\ writer[t].gen \in Nat
      /\ Continues(w) => Generation(w) = writer[t].gen
      /\ ~Continues(w) => Generation(w) = writer[t].gen + 1
      /\ \A r \in coverage[t] : r.gen \in Nat /\ r.gen <= writer[t].gen /\ r.window \in Window
      /\ row.gen = Generation(w) /\ row.variant = VariantOf[w] /\ row.window = WindowOf[w]
  BY <1>1 DEF Generation, Previous, TypeOK, WriterRow, Row, ContentInv, GenerationIsLast
<1>8. GenerationIsLast'
  <2> SUFFICES ASSUME NEW u \in Target, NEW r \in coverage'[u] PROVE r.gen <= writer'[u].gen
    BY DEF GenerationIsLast
  <2>1. CASE u # t
    BY <1>3, <1>5, <2>1 DEF ContentInv, GenerationIsLast
  <2>2. CASE u = t
    BY <1>3, <1>5, <1>7, <2>2
  <2>3. QED
    BY <2>1, <2>2
<1>9. ASSUME NEW u \in Target, writer'[u].by # NoWrite, ~writer'[u].ambiguous,
             NEW r \in coverage'[u], r.gen = writer'[u].gen,
             r.variant = VariantOf[writer'[u].by], r.window \notin torn'[u]
      PROVE  \/ /\ content[u][r.window] # NoWrite
                /\ VariantOf[content[u][r.window]] = VariantOf[writer'[u].by]
             \/ \E v \in Write : TargetOf[v] = u /\ Disturbs(v, r.window)'
  <2>1. CASE u # t
    <3>1. PICK v \in Write : TRUE
      OBVIOUS
    <3>2. \/ /\ content[u][r.window] # NoWrite
             /\ VariantOf[content[u][r.window]] = VariantOf[writer[u].by]
          \/ \E q \in Write : TargetOf[q] = u /\ Disturbs(q, r.window)
      BY <1>3, <1>5, <1>9, <2>1 DEF ContentInv, RowsArePhysical, InGeneration
    <3>3. \A q \in Write : TargetOf[q] = u /\ Claimed(q) => Claimed(q)'
      BY <1>2, <2>1 DEF SameTarget
    <3>4. QED
      BY <1>3, <1>4, <2>1, <3>2, <3>3 DEF Disturbs
  <2>2. CASE u = t /\ r = row
    <3>1. \/ content[t][WindowOf[w]] = w
          \/ \E v \in Write : /\ SameTarget(v, w) /\ claim[w].seq < claim[v].seq
                              /\ Disturbs(v, WindowOf[w])
      BY <1>2 DEF ContentInv, OutputStays
    <3>2. CASE content[t][WindowOf[w]] = w
      BY <1>3, <1>7, <2>2, <3>2
    <3>3. ASSUME NEW v \in Write, SameTarget(v, w), claim[w].seq < claim[v].seq,
                 Disturbs(v, WindowOf[w])
          PROVE  Disturbs(v, r.window)'
      <4>1. v # w /\ ~(claim[v].seq < claim[w].seq)
        BY <1>2, <3>3
      <4>2. Claimed(v)'
        BY <1>2, <3>3, <4>1 DEF Disturbs
      <4>3. QED
        BY <1>4, <1>7, <2>2, <3>3, <4>2
    <3>4. QED
      BY <2>2, <3>1, <3>2, <3>3 DEF SameTarget
  <2>3. CASE u = t /\ r # row
    <3>1. /\ r \in coverage[t] /\ r.gen = Generation(w) /\ r.variant = VariantOf[w]
          /\ ~Replaces[w]
      BY <1>3, <1>5, <1>9, <2>3
    <3>2. Continues(w)
      BY <1>7, <3>1
    <3>3. r.window # WindowOf[w] /\ r.window \notin Touched(w)
      <4>1. r.window # WindowOf[w]
        BY <1>1, <1>7, <2>3, <3>1 DEF TypeOK, Row
      <4>2. QED
        BY <3>1, <4>1 DEF Touched
    <3>4. /\ r.window \notin torn[t] /\ r.window \notin Unrepaired(w)
      BY <1>3, <1>9, <2>3, <3>2
    <3>5. /\ writer[t].by # NoWrite /\ ~writer[t].ambiguous
          /\ VariantOf[writer[t].by] = VariantOf[w]
      BY <3>2 DEF Continues, Previous
    <3>6. \/ /\ content[t][r.window] # NoWrite
             /\ VariantOf[content[t][r.window]] = VariantOf[w]
          \/ \E v \in Write : TargetOf[v] = t /\ Disturbs(v, r.window)
      BY <1>1, <1>7, <3>1, <3>2, <3>4, <3>5 DEF ContentInv, RowsArePhysical, InGeneration
    <3>7. ASSUME NEW v \in Write, TargetOf[v] = t, Disturbs(v, r.window)
          PROVE  Claimed(v)'
      <4>1. SUFFICES ASSUME v \in Resolved(w) PROVE FALSE
        BY <1>2, <3>7 DEF Disturbs
      <4>2. v # w
        BY <3>3, <3>7 DEF Disturbs
      <4>3. r.window \in Unrepaired(w)
        <5> DEFINE x == r.window
                   others == Resolved(w) \ {w}
        <5>1. /\ v \in others /\ x \in Touched(v)
              /\ content[t][x] \in others \cup {NoWrite}
          BY <3>7, <4>1, <4>2 DEF Disturbs
        <5>2. x \in (UNION {Touched(q) : q \in others}) \ Touched(w)
          BY <3>3, <5>1
        <5>3. QED
          BY <5>1, <5>2 DEF Unrepaired
      <4>4. QED
        BY <3>4, <4>3
    <3>8. QED
      BY <1>3, <1>4, <2>3, <3>6, <3>7
  <2>4. QED
    BY <2>1, <2>2, <2>3
<1>10. RowsArePhysical'
  BY <1>1, <1>9 DEF RowsArePhysical, InGeneration
<1>11. QED
  BY <1>6, <1>8, <1>10

LEMMA RecordContent ==
  ASSUME IInv, ContentInv, NEW w \in Write, phase[w] = "reported", Record(w),
         UNCHANGED <<execution, tables>>
  PROVE  ContentInv'
<1>1. CASE Accepted(w)
  <2>1. Emptied'
    BY DEF ContentInv, Emptied, Touched, execution, tables
  <2>2. QED
    BY <1>1, <2>1, AcceptedClaims, AcceptedContent DEF ContentInv
<1>2. CASE ~Accepted(w)
  BY <1>2, OtherRecordsContent DEF Record
<1>3. QED
  BY <1>1, <1>2

LEMMA NextContent == IInv /\ ContentInv /\ [Next]_vars => ContentInv'
<1> SUFFICES ASSUME IInv, ContentInv, [Next]_vars PROVE ContentInv'
  OBVIOUS
<1>1. ASSUME UNCHANGED <<claim, finished, facts, writer, coverage, content, torn>>,
             \A v \in Write : phase'[v] = "writing" => phase[v] = "writing"
      PROVE  ContentInv'
  BY <1>1, ContentFrame DEF Claimed
<1>2. ASSUME \A v \in Write : (Claimed(v)' <=> Claimed(v)) /\ claim'[v].seq = claim[v].seq,
             UNCHANGED <<finished, facts, writer, coverage, content, torn>>,
             \A v \in Write : phase'[v] = "writing" => phase[v] = "writing"
      PROVE  ContentInv'
  BY <1>2, ContentFrame
<1>3. claim \in [Write -> [state : ClaimState, seq : Nat]] /\ phase \in [Write -> Phase]
  BY DEF IInv, TypeOK
<1>4. ASSUME NEW w \in Write, Execute(w) PROVE ContentInv'
  <2>1. CASE ClaimTargetWrite(w)
    BY <2>1, ClaimContent
  <2>2. CASE BeginWrite(w)
    BY <2>2, BeginContent
  <2>3. CASE EndWrite(w)
    BY <2>3, EndContent
  <2>4. CASE MarkDirty(w)
    <3>1. \A v \in Write : (Claimed(v)' <=> Claimed(v)) /\ claim'[v].seq = claim[v].seq
      BY <1>3, <2>4 DEF MarkDirty, Claimed
    <3>2. /\ UNCHANGED <<finished, facts, writer, coverage, content, torn>>
          /\ \A v \in Write : phase'[v] = "writing" => phase[v] = "writing"
      BY <1>3, <2>4 DEF MarkDirty, Moves, tables
    <3>3. QED
      BY <1>2, <3>1, <3>2
  <2>5. CASE Start(w) \/ RunFails(w) \/ WriteFails(w) \/ NothingToWrite(w)
               \/ PersistUnit(w) \/ PersistFails(w) \/ MarkDirtyFails(w)
               \/ EnqueueFails(w) \/ Enqueue(w)
    <3>1. /\ UNCHANGED <<claim, finished, facts, writer, coverage, content, torn>>
          /\ \A v \in Write : phase'[v] = "writing" => phase[v] = "writing"
      BY <1>3, <2>5
      DEF Start, RunFails, WriteFails, NothingToWrite, PersistUnit, PersistFails,
          MarkDirtyFails, EnqueueFails, Enqueue, Moves, tables, log
    <3>2. QED
      BY <1>1, <3>1
  <2>6. QED
    BY <1>4, <2>1, <2>2, <2>3, <2>4, <2>5 DEF Execute
<1>5. ASSUME NEW w \in Write, Recover(w) PROVE ContentInv'
  <2>1. phase[w] = "reported"
    BY <1>5 DEF Recover, IInv, Delivered
  <2>2. QED
    BY <1>5, <2>1, RecordContent DEF Recover
<1>6. ASSUME NEW p \in Proc, Dispatch(p) PROVE ContentInv'
  <2> DEFINE w == Head(pending[p])
  <2>1. w \in Write /\ phase[w] = "reported"
    <3>1. pending[p] \in Seq(Write) /\ pending[p] # <<>>
      BY <1>6 DEF Dispatch, IInv, TypeOK
    <3>2. QED
      BY <3>1, QueuedTail DEF IInv, Delivered
  <2>2. QED
    BY <1>6, <2>1, RecordContent DEF Dispatch
<1>7. ASSUME NEW p \in Proc, StartProcess(p) PROVE ContentInv'
  <2>1. \A v \in Write : (Claimed(v)' <=> Claimed(v)) /\ claim'[v].seq = claim[v].seq
    BY <1>3, <1>7 DEF StartProcess, Claimed
  <2>2. UNCHANGED <<finished, facts, writer, coverage, content, torn, phase>>
    BY <1>7 DEF StartProcess, execution, tables
  <2>3. QED
    BY <1>2, <2>1, <2>2
<1>8. ASSUME NEW p \in Proc,
             DispatchStops(p) \/ Acknowledge(p) \/ ReplayPending(p) \/ Crash(p)
      PROVE  ContentInv'
  <2>1. /\ UNCHANGED <<claim, finished, facts, writer, coverage, content, torn>>
        /\ \A v \in Write : phase'[v] = "writing" => phase[v] = "writing"
    BY <1>3, <1>8
    DEF DispatchStops, Acknowledge, ReplayPending, Crash, tables, log, execution
  <2>2. QED
    BY <1>1, <2>1
<1>9. CASE UNCHANGED vars
  BY <1>1, <1>9 DEF vars, execution, log, tables
<1>10. QED
  BY <1>4, <1>5, <1>6, <1>7, <1>8, <1>9 DEF Next, Deliver

(***************************************************************************)
(* Whatever the log says of a window, the table holds it, or a claim still *)
(* stands for the write that changed it, or the window is torn.            *)
(***************************************************************************)
THEOREM ContentCorrect == Spec => []ContentInv
  BY InitContent, NextContent, Invariant, PTL DEF Spec

(***************************************************************************)
(* CurrentTargetCoverage: a covered window that is not torn is in the      *)
(* table as the variant that is named wrote it.                            *)
(***************************************************************************)
THEOREM CoverageCorrect == Spec => []UntornCoverageIsPhysical
<1>1. IInv /\ ContentInv => UntornCoverageIsPhysical
  <2> SUFFICES ASSUME ContentInv, NEW t \in Target, NEW x \in Covered(t) \ torn[t]
               PROVE  /\ content[t][x] # NoWrite
                      /\ VariantOf[content[t][x]] = VariantOf[Named(t)]
    BY DEF UntornCoverageIsPhysical
  <2>1. Named(t) # NoWrite
    BY DEF Covered
  <2>2. /\ writer[t].by # NoWrite /\ ~writer[t].ambiguous
        /\ Claims(t) = {} /\ Named(t) = writer[t].by
    BY <2>1 DEF Named
  <2>3. PICK r \in coverage[t] : InGeneration(t, r) /\ r.window = x
    BY <2>1 DEF Covered, InGeneration
  <2>4. \A v \in Write : TargetOf[v] = t => ~Claimed(v)
    BY <2>2 DEF Claims, Claimed
  <2>5. QED
    BY <2>2, <2>3, <2>4 DEF ContentInv, RowsArePhysical, Disturbs
<1>2. QED
  BY <1>1, Invariant, ContentCorrect, PTL
=============================================================================
