----------------------- MODULE LiveSessionStoreProofs -----------------------
(***************************************************************************)
(* Proofs about LiveSessionStore, for any number of segments, keys, events *)
(* and finalizers and any integer widths.                                  *)
(*                                                                         *)
(* The record is split into groups of fields, and the inductive invariant  *)
(* IInv into one part per group (LifeInv, KeysInv, MeterInv, HealthInv,    *)
(* QueueInv, CursorInv) and one per relation between groups.  It adds to   *)
(* the checked properties what they need to be inductive: the usage of a   *)
(* queued event never exceeds the billed total, and what a finalizer read  *)
(* stays true until the session is terminal (SnapshotInv).                 *)
(***************************************************************************)
EXTENDS LiveSessionStore, SequenceTheorems, TLAPS

\* The queue p of a record with these event and usage cursors.
Queue(p, last, usage) ==
    /\ p \in Seq(Event)
    /\ \A i \in 1..Len(p) :
         /\ ValidateEvent(p[i])
         /\ p[i].seq <= last
         /\ HasUsage(p[i]) => p[i].usage <= usage
    /\ \A i, j \in 1..Len(p) : i < j =>
         /\ p[i].seq < p[j].seq
         /\ HasUsage(p[i]) /\ HasUsage(p[j]) => p[i].usage <= p[j].usage
    /\ Len(p) > 0 =>
         /\ p[Len(p)].seq = last
         /\ HasUsage(p[Len(p)]) => p[Len(p)].usage = usage

\* Only the last event of the queue may be terminal, and then it agrees with
\* the state, reason and usage given.
Closing(p, state, reason, usage) ==
    \A i \in 1..Len(p) :
        IsTerminal(p[i]) => /\ i = Len(p)
                            /\ p[i].type = state
                            /\ p[i].reason = reason
                            /\ p[i].usage = usage

\* Appending the next event keeps a queue in order.
LEMMA QueueAppend ==
    ASSUME NEW p, NEW last \in 0..MaxSequence, NEW usage \in Nat,
           Queue(p, last, usage),
           NEW e \in Event, ValidateEvent(e), e.seq > last,
           NEW usage2 \in Nat, usage <= usage2,
           HasUsage(e) => e.usage = usage2,
           ~HasUsage(e) => usage2 = usage
    PROVE  Queue(Append(p, e), e.seq, usage2)
<1> DEFINE q == Append(p, e)
<1>0. p \in Seq(Event) /\ Len(p) \in Nat
  BY LenProperties DEF Queue
<1>1. /\ q \in Seq(Event)
      /\ Len(q) = Len(p) + 1
      /\ \A i \in 1..Len(p) : q[i] = p[i]
      /\ q[Len(p) + 1] = e
  BY <1>0, AppendProperties
<1>2. \A i \in 1..Len(p) : p[i] \in Event
  BY <1>0, ElementOfSeq
<1> HIDE DEF q
<1>3. \A i \in 1..Len(q) :
         /\ ValidateEvent(q[i])
         /\ q[i].seq <= e.seq
         /\ HasUsage(q[i]) => q[i].usage <= usage2
  <2> SUFFICES ASSUME NEW i \in 1..Len(q)
               PROVE  /\ ValidateEvent(q[i])
                      /\ q[i].seq <= e.seq
                      /\ HasUsage(q[i]) => q[i].usage <= usage2
    OBVIOUS
  <2>1. CASE i = Len(p) + 1
    BY <2>1, <1>1, WidthAssumption DEF Event
  <2>2. CASE i # Len(p) + 1
    <3>1. i \in 1..Len(p)
      BY <2>2, <1>0, <1>1
    <3>0. p[i] \in Event
      BY <3>1, <1>2
    <3>a. p[i].seq \in Int /\ p[i].usage \in Nat
      BY <3>0 DEF Event
    <3>b. /\ ValidateEvent(p[i]) /\ p[i].seq <= last
          /\ HasUsage(p[i]) => p[i].usage <= usage
      BY <3>1 DEF Queue
    <3>2. /\ ValidateEvent(p[i])
          /\ p[i].seq <= last
          /\ HasUsage(p[i]) => p[i].usage <= usage
          /\ p[i].seq \in Int /\ p[i].usage \in Nat
      BY <3>a, <3>b
    <3>3. e.seq \in Int
      BY DEF Event
    <3>4. q[i] = p[i]
      BY <3>1, <1>1
    <3>5. p[i].seq <= e.seq
      BY <3>2, <3>3
    <3>6. HasUsage(p[i]) => p[i].usage <= usage2
      BY <3>2
    <3> QED BY <3>2, <3>4, <3>5, <3>6
  <2> QED BY <2>1, <2>2
<1>4. \A i, j \in 1..Len(q) : i < j =>
         /\ q[i].seq < q[j].seq
         /\ HasUsage(q[i]) /\ HasUsage(q[j]) => q[i].usage <= q[j].usage
  <2> SUFFICES ASSUME NEW i \in 1..Len(q), NEW j \in 1..Len(q), i < j
               PROVE  /\ q[i].seq < q[j].seq
                      /\ HasUsage(q[i]) /\ HasUsage(q[j]) => q[i].usage <= q[j].usage
    OBVIOUS
  <2>0. i \in 1..Len(p) /\ q[i] = p[i]
    BY <1>0, <1>1
  <2>1. CASE j = Len(p) + 1
    <3>0. p[i] \in Event
      BY <2>0, <1>2
    <3>a. p[i].seq \in Int /\ p[i].usage \in Nat
      BY <3>0 DEF Event
    <3>b. p[i].seq <= last /\ (HasUsage(p[i]) => p[i].usage <= usage)
      BY <2>0 DEF Queue
    <3>1. /\ p[i].seq <= last
          /\ HasUsage(p[i]) => p[i].usage <= usage
          /\ p[i].seq \in Int /\ p[i].usage \in Nat
      BY <3>a, <3>b
    <3>2. e.seq \in Int /\ q[j] = e
      BY <1>1, <2>1 DEF Event
    <3>3. p[i].seq < e.seq
      BY <3>1, <3>2
    <3>4. HasUsage(p[i]) /\ HasUsage(e) => p[i].usage <= e.usage
      BY <3>1
    <3> QED BY <3>2, <3>3, <3>4, <2>0
  <2>2. CASE j # Len(p) + 1
    <3>1. j \in 1..Len(p) /\ q[j] = p[j]
      BY <2>2, <1>0, <1>1
    <3>2. /\ p[i].seq < p[j].seq
          /\ HasUsage(p[i]) /\ HasUsage(p[j]) => p[i].usage <= p[j].usage
      BY <3>1, <2>0 DEF Queue
    <3> QED BY <3>1, <3>2, <2>0
  <2> QED BY <2>1, <2>2
<1>5. q[Len(q)] = e
  BY <1>1
<1> QED BY <1>1, <1>3, <1>4, <1>5 DEF Queue, q

\* Removing the head keeps a queue in order.
LEMMA QueueTail ==
    ASSUME NEW p, NEW last \in 0..MaxSequence, NEW usage \in Nat,
           Queue(p, last, usage), p # <<>>
    PROVE  Queue(Tail(p), last, usage)
<1> DEFINE q == Tail(p)
<1>1. p \in Seq(Event) /\ Len(p) \in Nat /\ Len(p) > 0
  BY LenProperties, EmptySeq DEF Queue
<1>2. /\ q \in Seq(Event)
      /\ Len(q) = Len(p) - 1
      /\ \A i \in 1..Len(q) : q[i] = p[i + 1]
  BY <1>1, HeadTailProperties
<1> HIDE DEF q
<1>3. \A i \in 1..Len(q) : i + 1 \in 1..Len(p)
  BY <1>1, <1>2
<1>4. \A i \in 1..Len(q) :
         /\ ValidateEvent(q[i])
         /\ q[i].seq <= last
         /\ HasUsage(q[i]) => q[i].usage <= usage
  BY ZenonT(60), <1>2, <1>3 DEF Queue
<1>5. \A i, j \in 1..Len(q) : i < j =>
         /\ q[i].seq < q[j].seq
         /\ HasUsage(q[i]) /\ HasUsage(q[j]) => q[i].usage <= q[j].usage
  <2> TAKE i, j \in 1..Len(q)
  <2> HAVE i < j
  <2>1. i + 1 \in 1..Len(p) /\ j + 1 \in 1..Len(p) /\ i + 1 < j + 1
    BY <1>3
  <2>2. /\ p[i + 1].seq < p[j + 1].seq
        /\ HasUsage(p[i + 1]) /\ HasUsage(p[j + 1])
             => p[i + 1].usage <= p[j + 1].usage
    BY <2>1 DEF Queue
  <2>3. q[i] = p[i + 1] /\ q[j] = p[j + 1]
    BY <1>2
  <2> QED BY <2>2, <2>3
<1>6. Len(q) > 0 => q[Len(q)] = p[Len(p)]
  BY <1>1, <1>2
<1> QED BY <1>1, <1>2, <1>4, <1>5, <1>6 DEF Queue, q

-----------------------------------------------------------------------------
(* The inductive invariant.                                                *)

LifeInv ==
    /\ life \in LifeType
    /\ validTerminalState
    /\ validStoppingState
    /\ life.stopping => life.state = "active"

KeysInv ==
    /\ keys \in KeysType
    /\ validSecretEnvelope
    /\ validKeyActivation
    /\ validateSessionSecrets
    /\ life.state = "none" =>
         /\ ~keys.sealed
         /\ keys.current = None
         /\ keys.issued = {}
         /\ keys.pendingActivation = None

MeterInv == meter \in MeterType /\ MeteredOnce

HealthInv == health \in HealthType /\ validOutputHealth

CursorInv ==
    /\ outbox \in OutboxType
    /\ outbox.lastEventAt # 0 => outbox.lastSequence # 0
    /\ validDeliveryCursor
    /\ validDeadLetters

QueueInv == Queue(outbox.pending, outbox.lastSequence, meter.usageTotal)

BilledInv == meter.usageTotal > 0 => outbox.lastSequence # 0

ClosingInv ==
    Closing(outbox.pending, life.state, life.closeReason, meter.usageTotal)

\* What a finalizer reads at this moment.
Snapshot == [seq |-> NextSequence(outbox.lastSequence), usage |-> meter.usageTotal,
             reason |-> life.pendingReason, target |-> life.pendingTerminal]

SnapshotInv ==
    /\ final \in [Finalizers -> SnapshotType]
    /\ \A f \in Finalizers : final[f] # NoSnapshot =>
         life.state \in TerminalStates \/ (life.stopping /\ final[f] = Snapshot)

IInv ==
    /\ LifeInv
    /\ KeysInv
    /\ MeterInv
    /\ HealthInv
    /\ CursorInv
    /\ QueueInv
    /\ BilledInv
    /\ SecretsOutliveEvents
    /\ ClosingInv
    /\ SnapshotInv

\* The empty store satisfies the invariant.
LEMMA InitInv == Init => IInv
<1> SUFFICES ASSUME Init PROVE IInv
  OBVIOUS
<1> USE WidthAssumption, NoneAssumption
<1>1. LifeInv
  BY DEF Init, LifeInv, LifeType, validTerminalState, validStoppingState, TerminalStates
<1>2. KeysInv
  BY DEF Init, KeysInv, KeysType, validSecretEnvelope, validKeyActivation,
         validateSessionSecrets
<1>3. MeterInv
  <2>1. DurationOf[{}] = 0
    BY DurationAssumption
  <2>2. WholeSeconds(0) = 0
    BY DEF WholeSeconds
  <2> QED BY <2>1, <2>2 DEF Init, MeterInv, MeterType, MeteredOnce
<1>4. HealthInv
  BY DEF Init, HealthInv, HealthType, validOutputHealth, OutputStates
<1>5. outbox.pending = <<>> /\ outbox.dead = <<>>
  BY DEF Init
<1>6. Len(<<>>) = 0 /\ <<>> \in Seq(Event) /\ <<>> \in Seq(Letter)
  BY EmptySeq
<1>7. CursorInv
  BY <1>5, <1>6 DEF Init, CursorInv, OutboxType, DeliveryType, NoDelivery,
     validDeliveryCursor, validDeadLetters
<1>8. QueueInv /\ ClosingInv
  BY <1>5, <1>6 DEF QueueInv, Queue, ClosingInv, Closing
<1>9. BilledInv /\ SecretsOutliveEvents
  BY <1>5 DEF Init, BilledInv, SecretsOutliveEvents
<1>10. SnapshotInv
  BY DEF Init, SnapshotInv, SnapshotType, NoSnapshot
<1> QED BY <1>1, <1>2, <1>3, <1>4, <1>7, <1>8, <1>9, <1>10 DEF IInv

\* The invariant implies everything loadLocked validates.
LEMMA InvLoads == IInv => RecordLoads
<1> SUFFICES ASSUME IInv, life.state # "none" PROVE loadLocked
  BY DEF RecordLoads
<1>1. outbox.pending \in Seq(Event) /\ DOMAIN outbox.pending = 1..Len(outbox.pending)
  BY LenProperties DEF IInv, QueueInv, Queue
<1>2. outbox.pending # <<>> => Len(outbox.pending) > 0
  BY <1>1, EmptySeq
<1>3. validOutbox
  BY <1>1 DEF IInv, QueueInv, Queue, validOutbox
<1>4. validEventCursor
  BY <1>1, <1>2 DEF IInv, QueueInv, Queue, CursorInv, validEventCursor
<1>5. validMeteringCursor
  BY DurationAssumption
  DEF IInv, MeterInv, MeterType, MeteredOnce, BilledInv, validMeteringCursor
<1> QED
  BY <1>3, <1>4, <1>5
  DEF IInv, LifeInv, KeysInv, HealthInv, CursorInv, loadLocked, validateSessionRecord

-----------------------------------------------------------------------------
(* Steps on the outbox that several actions share.                         *)

\* A mutator that appends an event keeps the outbox in order.
LEMMA Enqueued ==
    ASSUME IInv, NEW e \in Event, NEW t \in Times,
           ValidateEvent(e), e.seq > outbox.lastSequence, Enqueue(e, t),
           meter'.usageTotal \in Nat, meter.usageTotal <= meter'.usageTotal,
           HasUsage(e) => e.usage = meter'.usageTotal,
           ~HasUsage(e) => meter'.usageTotal = meter.usageTotal
    PROVE  /\ CursorInv' /\ QueueInv' /\ BilledInv'
           /\ outbox'.lastSequence = e.seq
           /\ outbox'.pending = Append(outbox.pending, e)
           /\ outbox'.pending # <<>>
<1>1. /\ outbox \in OutboxType /\ meter.usageTotal \in Nat
      /\ Queue(outbox.pending, outbox.lastSequence, meter.usageTotal)
  BY DEF IInv, CursorInv, QueueInv, MeterInv, MeterType
<1>2. e.seq \in 1..MaxSequence /\ t # 0
  BY TimeAssumption DEF Event
<1>3. /\ outbox' \in OutboxType
      /\ outbox'.lastSequence = e.seq
      /\ outbox'.lastEventAt = t
      /\ outbox'.pending = Append(outbox.pending, e)
      /\ outbox'.delivery = outbox.delivery
      /\ outbox'.dead = outbox.dead
      /\ outbox'.rejected = outbox.rejected
  <2>1. Append(outbox.pending, e) \in Seq(Event)
    BY <1>1, AppendProperties DEF OutboxType
  <2>2. outbox' = [outbox EXCEPT !.lastSequence = e.seq, !.lastEventAt = t,
                                 !.pending = Append(outbox.pending, e)]
    BY <1>1 DEF Enqueue, OutboxType
  <2>3. e.seq \in 0..MaxSequence /\ t \in Times \cup {0}
    BY <1>2
  <2> QED BY ZenonT(60), <1>1, <2>1, <2>2, <2>3 DEF OutboxType
<1>4. QueueInv'
  <2>1. Queue(Append(outbox.pending, e), e.seq, meter'.usageTotal)
    BY <1>1, QueueAppend DEF OutboxType
  <2> QED BY <2>1, <1>3 DEF QueueInv
<1>5. outbox'.pending # <<>>
  <2>1. outbox.pending \in Seq(Event)
    BY <1>1 DEF OutboxType
  <2>2. Append(outbox.pending, e) # <<>>
    BY <2>1, AppendProperties
  <2> QED BY <2>2, <1>3
<1>6. validDeliveryCursor'
  <2> SUFFICES ASSUME outbox.delivery # NoDelivery
               PROVE  /\ outbox.delivery.event = Head(outbox'.pending).seq
                      /\ outbox.delivery.attempts > 0
    BY <1>3, <1>5 DEF validDeliveryCursor, NoDelivery
  <2>1. /\ outbox.pending # <<>>
        /\ outbox.delivery.event = Head(outbox.pending).seq
        /\ outbox.delivery.attempts > 0
    BY DEF IInv, CursorInv, validDeliveryCursor
  <2>2. Head(outbox'.pending) = Head(outbox.pending)
    BY <1>1, <1>3, <2>1, HeadTailAppend DEF OutboxType
  <2> QED BY <2>1, <2>2
<1>7. validDeadLetters'
  <2>1. validDeadLetters /\ outbox.dead \in Seq(Letter)
    BY <1>1 DEF IInv, CursorInv, OutboxType
  <2>2. \A i \in DOMAIN outbox.dead : outbox.dead[i].event \in Int
    <3>1. \A i \in DOMAIN outbox.dead : outbox.dead[i] \in Letter
      BY <2>1, LenProperties, ElementOfSeq
    <3> QED BY <3>1 DEF Letter
  <2> QED BY <2>1, <2>2, <1>1, <1>2, <1>3 DEF validDeadLetters, OutboxType
<1>8. CursorInv'
  BY <1>2, <1>3, <1>6, <1>7 DEF CursorInv
<1> QED BY <1>2, <1>3, <1>4, <1>5, <1>8 DEF BilledInv

\* An active session has no terminal event queued.
LEMMA ActiveHasNoTerminal ==
    ASSUME IInv, life.state = "active"
    PROVE  \A i \in 1..Len(outbox.pending) : ~IsTerminal(outbox.pending[i])
BY DEF IInv, ClosingInv, Closing, IsTerminal, TerminalStates

\* Appending an event e to the queue of an active session: e is then the only
\* event that may be terminal.
LEMMA ClosingAppend ==
    ASSUME IInv, life.state = "active", NEW e \in Event,
           outbox'.pending = Append(outbox.pending, e),
           IsTerminal(e) => /\ e.type = life'.state
                            /\ e.reason = life'.closeReason
                            /\ e.usage = meter'.usageTotal
    PROVE  ClosingInv'
<1> DEFINE p == outbox.pending
           q == Append(p, e)
<1>1. p \in Seq(Event) /\ Len(p) \in Nat
  BY LenProperties DEF IInv, QueueInv, Queue
<1>2. /\ Len(q) = Len(p) + 1
      /\ \A i \in 1..Len(p) : q[i] = p[i]
      /\ q[Len(p) + 1] = e
  BY <1>1, AppendProperties
<1>3. \A i \in 1..Len(q) : i # Len(p) + 1 => ~IsTerminal(q[i])
  BY <1>1, <1>2, ActiveHasNoTerminal
<1> HIDE DEF p, q
<1>4. Closing(q, life'.state, life'.closeReason, meter'.usageTotal)
  BY <1>2, <1>3 DEF Closing
<1> QED BY <1>4 DEF ClosingInv, p, q

-----------------------------------------------------------------------------
(* One lemma per group of actions.                                         *)

\* Whole seconds grow with the metered time.
LEMMA WholeSecondsMonotonic ==
    ASSUME NEW m \in Nat, NEW n \in Nat, m <= n
    PROVE  WholeSeconds(m) \in Nat /\ WholeSeconds(m) <= WholeSeconds(n)
BY DEF WholeSeconds

\* No finalizer holds a snapshot of a session that is not stopping.
LEMMA ActiveHasNoSnapshot ==
    ASSUME IInv, life.state \notin TerminalStates, ~life.stopping
    PROVE  final = [f \in Finalizers |-> NoSnapshot]
BY DEF IInv, SnapshotInv

\* A mutator of an active session that emits one nonterminal event.
LEMMA Emitted ==
    ASSUME IInv, life.state = "active", ~life.stopping,
           NEW type \in EventTypes \ TerminalStates, NEW usage \in Nat,
           NEW t \in Times, EmitActive(type, usage, t),
           UNCHANGED <<life, keys, final>>, MeterInv', HealthInv',
           meter.usageTotal <= meter'.usageTotal,
           type \in {"heartbeat", "usage.tick"} => usage = meter'.usageTotal,
           type \notin {"heartbeat", "usage.tick"} => meter'.usageTotal = meter.usageTotal
    PROVE  IInv'
<1> DEFINE e == [seq |-> outbox.lastSequence + 1, type |-> type,
                 usage |-> usage, reason |-> None]
<1>1. outbox.lastSequence \in 0..MaxSequence /\ outbox.lastSequence # MaxSequence
  BY DEF IInv, CursorInv, OutboxType, EmitActive
<1>2. e \in Event
  <2>1. outbox.lastSequence + 1 \in 1..MaxSequence
    BY <1>1, WidthAssumption
  <2> QED BY <2>1 DEF Event
<1>3. ValidateEvent(e) /\ ~IsTerminal(e) /\ e.seq > outbox.lastSequence
  BY <1>1 DEF ValidateEvent, IsTerminal
<1>4. HasUsage(e) <=> type \in {"heartbeat", "usage.tick"}
  BY DEF HasUsage, EventTypes, TerminalStates
<1>5. Enqueue(e, t)
  BY DEF EmitActive
<1>6. meter'.usageTotal \in Nat
  BY DEF MeterInv, MeterType
<1>7. e.usage = usage
  OBVIOUS
<1> HIDE DEF e
<1>8. /\ CursorInv' /\ QueueInv' /\ BilledInv'
      /\ outbox'.pending = Append(outbox.pending, e)
  BY <1>2, <1>3, <1>4, <1>5, <1>6, <1>7, Enqueued
<1>9. ClosingInv'
  BY <1>2, <1>3, <1>8, ClosingAppend
<1>10. LifeInv' /\ KeysInv'
  BY ZenonT(60) DEF IInv, LifeInv, KeysInv, validTerminalState, validStoppingState,
         validSecretEnvelope, validKeyActivation, validateSessionSecrets
<1>11. SecretsOutliveEvents'
  BY DEF IInv, KeysInv, validSecretEnvelope, SecretsOutliveEvents
<1>12. SnapshotInv'
  <2>1. final' = [f \in Finalizers |-> NoSnapshot] /\ final' = final
    BY ActiveHasNoSnapshot DEF TerminalStates
  <2> QED BY <2>1 DEF IInv, SnapshotInv
<1> QED BY <1>8, <1>9, <1>10, <1>11, <1>12 DEF IInv

\* A step that leaves usage and outbox alone keeps the invariant if it keeps
\* the parts about the lifecycle, the keys, health and snapshots.
LEMMA Unqueued ==
    ASSUME IInv, outbox' = outbox, meter' = meter,
           LifeInv', KeysInv', HealthInv', SnapshotInv',
           outbox.pending # <<>> => keys'.sealed,
           life'.state = life.state, life'.closeReason = life.closeReason
    PROVE  IInv'
<1>1. MeterInv'
  BY DEF IInv, MeterInv, MeteredOnce
<1>2. CursorInv'
  BY DEF IInv, CursorInv, validDeliveryCursor, validDeadLetters
<1>3. QueueInv' /\ BilledInv' /\ ClosingInv'
  BY DEF IInv, QueueInv, BilledInv, ClosingInv
<1>4. SecretsOutliveEvents'
  BY DEF SecretsOutliveEvents
<1> QED BY <1>1, <1>2, <1>3, <1>4 DEF IInv

\* Creating the record.
LEMMA CreateInv == IInv /\ CreateOrReplay => IInv'
<1> SUFFICES ASSUME IInv, CreateOrReplay PROVE IInv'
  OBVIOUS
<1> USE NoneAssumption
<1>1. life \in LifeType /\ keys \in KeysType /\ life.state = "none"
  BY DEF IInv, LifeInv, KeysInv, CreateOrReplay
<1>2. /\ life' \in LifeType
      /\ life'.state = "active"
      /\ life'.stopping = life.stopping
      /\ life'.pendingReason = life.pendingReason
      /\ life'.pendingTerminal = life.pendingTerminal
      /\ life'.closeReason = life.closeReason
  BY <1>1 DEF CreateOrReplay, LifeType
<1>3. /\ keys' \in KeysType
      /\ keys'.sealed
      /\ keys'.current = keys.current
      /\ keys'.issued = keys.issued
      /\ keys'.pendingActivation = keys.pendingActivation
  BY ZenonT(60), <1>1 DEF CreateOrReplay, KeysType
<1>4. LifeInv'
  BY <1>1, <1>2 DEF IInv, LifeInv, validTerminalState, validStoppingState, TerminalStates
<1>5. KeysInv'
  BY <1>1, <1>2, <1>3
  DEF IInv, KeysInv, validSecretEnvelope, validKeyActivation, validateSessionSecrets
<1>6. MeterInv' /\ HealthInv' /\ CursorInv' /\ QueueInv' /\ BilledInv'
  BY DEF CreateOrReplay, IInv, MeterInv, MeteredOnce, HealthInv, validOutputHealth,
         CursorInv, validDeliveryCursor, validDeadLetters, QueueInv, BilledInv
<1>7. SecretsOutliveEvents'
  BY <1>3 DEF SecretsOutliveEvents
<1>8. ClosingInv'
  BY <1>1, <1>2
  DEF CreateOrReplay, IInv, ClosingInv, Closing, IsTerminal, TerminalStates
<1>9. SnapshotInv'
  <2>1. ~life.stopping
    BY <1>1 DEF IInv, LifeInv
  <2>2. final' = final /\ final' = [f \in Finalizers |-> NoSnapshot]
    BY <1>1, <2>1, ActiveHasNoSnapshot DEF CreateOrReplay, TerminalStates
  <2> QED BY <2>2 DEF IInv, SnapshotInv
<1> QED BY <1>4, <1>5, <1>6, <1>7, <1>8, <1>9 DEF IInv

\* The first event of a session.
LEMMA StartedInv == \A t \in Times : IInv /\ SessionStarted(t) => IInv'
<1> SUFFICES ASSUME NEW t \in Times, IInv, SessionStarted(t) PROVE IInv'
  OBVIOUS
<1> DEFINE e == [seq |-> 1, type |-> "started", usage |-> 0, reason |-> None]
<1>1. Advance(e, t) /\ final' = final
  BY DEF SessionStarted
<1>2. ~IsTerminal(e) /\ ~HasUsage(e)
  BY DEF IsTerminal, TerminalStates, HasUsage
<1>3. /\ life.state = "active" /\ ~life.stopping
      /\ 1 > outbox.lastSequence
      /\ Enqueue(e, t)
      /\ UNCHANGED <<life, keys, meter, health>>
  BY <1>1, <1>2 DEF Advance, CanAdvance, Accept
<1>4. outbox.lastSequence = 0 /\ meter.usageTotal \in Nat
  BY <1>3 DEF IInv, CursorInv, OutboxType, MeterInv, MeterType
<1>5. EmitActive("started", 0, t)
  BY <1>3, <1>4, WidthAssumption DEF EmitActive
<1>6. MeterInv' /\ HealthInv'
  BY <1>3 DEF IInv, MeterInv, MeteredOnce, HealthInv, validOutputHealth
<1>7. "started" \in EventTypes \ TerminalStates
  BY DEF EventTypes, TerminalStates
<1> QED BY <1>1, <1>3, <1>4, <1>5, <1>6, <1>7, Emitted

\* Recording the intent to stop.
LEMMA BeginTerminalInv ==
    \A reason \in CloseReasons, target \in TerminalStates :
        IInv /\ beginTerminal(reason, target) => IInv'
<1> SUFFICES ASSUME NEW reason \in CloseReasons, NEW target \in TerminalStates,
                    IInv, beginTerminal(reason, target)
             PROVE  IInv'
  OBVIOUS
<1> USE NoneAssumption
<1>1. /\ life \in LifeType /\ keys \in KeysType
      /\ life.state = "active" /\ ~life.stopping
      /\ target # None /\ reason # None
  BY DEF IInv, LifeInv, KeysInv, beginTerminal, loadActive, TerminalStates
<1>2. /\ life' \in LifeType
      /\ life'.state = "active"
      /\ life'.stopping
      /\ life'.pendingReason = reason
      /\ life'.pendingTerminal = target
      /\ life'.closeReason = life.closeReason
  BY ZenonT(60), <1>1 DEF beginTerminal, LifeType
<1>3. /\ keys' \in KeysType
      /\ keys'.sealed = keys.sealed
      /\ keys'.current = keys.current
      /\ keys'.issued = keys.issued
      /\ keys'.readable = keys.readable
      /\ keys'.pendingActivation = None
  BY <1>1 DEF beginTerminal, KeysType
<1>4. LifeInv'
  BY ZenonT(60), <1>1, <1>2 DEF IInv, LifeInv, validTerminalState, validStoppingState, TerminalStates
<1>5. KeysInv'
  BY <1>1, <1>2, <1>3
  DEF IInv, KeysInv, validSecretEnvelope, validKeyActivation, validateSessionSecrets
<1>6. HealthInv' /\ outbox' = outbox /\ meter' = meter
  BY DEF beginTerminal, IInv, HealthInv, validOutputHealth
<1>7. SnapshotInv'
  <2>1. final' = final /\ final' = [f \in Finalizers |-> NoSnapshot]
    BY <1>1, ActiveHasNoSnapshot DEF beginTerminal, TerminalStates
  <2> QED BY <2>1 DEF IInv, SnapshotInv
<1>8. keys'.sealed
  BY <1>1, <1>3 DEF IInv, KeysInv, validSecretEnvelope
<1> QED BY <1>1, <1>2, <1>4, <1>5, <1>6, <1>7, <1>8, Unqueued

\* A finalizer reads the record.
LEMMA FinalizeLoadInv == \A f \in Finalizers : IInv /\ FinalizeLoad(f) => IInv'
<1> SUFFICES ASSUME NEW f \in Finalizers, IInv, FinalizeLoad(f) PROVE IInv'
  OBVIOUS
<1>1. /\ UNCHANGED <<life, keys, meter, health, outbox>>
      /\ final' = [final EXCEPT ![f] = Snapshot]
      /\ life.stopping
  BY DEF FinalizeLoad, Snapshot
<1>2. Snapshot \in SnapshotType
  <2>1. NextSequence(outbox.lastSequence) \in 0..MaxSequence
    <3>1. outbox.lastSequence \in 0..MaxSequence
      BY ZenonT(60) DEF IInv, CursorInv, OutboxType
    <3> QED BY <3>1, WidthAssumption DEF NextSequence
  <2> QED
    BY <2>1 DEF IInv, LifeInv, LifeType, MeterInv, MeterType, Snapshot, SnapshotType
<1>3. LifeInv' /\ KeysInv' /\ HealthInv'
  BY <1>1 DEF IInv, LifeInv, KeysInv, HealthInv, validTerminalState, validStoppingState,
     validSecretEnvelope, validKeyActivation, validateSessionSecrets, validOutputHealth
<1>4. Snapshot' = Snapshot
  BY <1>1 DEF Snapshot
<1>5. SnapshotInv'
  BY ZenonT(60), <1>1, <1>2, <1>4 DEF IInv, SnapshotInv
<1>6. outbox.pending # <<>> => keys'.sealed
  BY <1>1 DEF IInv, SecretsOutliveEvents
<1> QED BY <1>1, <1>3, <1>5, <1>6, Unqueued

\* A finalizer that was too late, or that a crash ended.
LEMMA ForgetInv ==
    ASSUME IInv, UNCHANGED <<life, keys, meter, health, outbox>>,
           final' \in [Finalizers -> SnapshotType],
           \A f \in Finalizers : final'[f] \in {NoSnapshot, final[f]}
    PROVE  IInv'
<1>1. LifeInv' /\ KeysInv' /\ HealthInv'
  BY DEF IInv, LifeInv, KeysInv, HealthInv, validTerminalState, validStoppingState,
     validSecretEnvelope, validKeyActivation, validateSessionSecrets, validOutputHealth
<1>2. Snapshot' = Snapshot
  BY DEF Snapshot
<1>3. SnapshotInv'
  BY <1>2 DEF IInv, SnapshotInv
<1>4. outbox.pending # <<>> => keys'.sealed
  BY DEF IInv, SecretsOutliveEvents
<1> QED BY ZenonT(60), <1>1, <1>3, <1>4, Unqueued

\* A finalizer appends the terminal event it built.
LEMMA FinalizeAdvanceInv ==
    \A f \in Finalizers, t \in Times : IInv /\ FinalizeAdvance(f, t) => IInv'
<1> SUFFICES ASSUME NEW f \in Finalizers, NEW t \in Times, IInv, FinalizeAdvance(f, t)
             PROVE  IInv'
  OBVIOUS
<1> USE NoneAssumption
<1> DEFINE e == TerminalEvent(final[f])
<1>1. /\ final[f] # NoSnapshot /\ Advance(e, t)
      /\ final' = [final EXCEPT ![f] = NoSnapshot]
  BY DEF FinalizeAdvance
<1>2. life.state = "active" /\ Accept(e) /\ Enqueue(e, t) /\ UNCHANGED health
  BY <1>1 DEF Advance, CanAdvance
<1>3. life.stopping /\ final[f] = Snapshot
  BY <1>1, <1>2 DEF IInv, SnapshotInv, TerminalStates
<1>4. /\ life \in LifeType /\ keys \in KeysType /\ meter \in MeterType
      /\ outbox.lastSequence \in 0..MaxSequence
      /\ life.pendingTerminal \in TerminalStates
      /\ life.pendingReason \in CloseReasons
  BY ZenonT(60), <1>3 DEF IInv, LifeInv, KeysInv, MeterInv, CursorInv, OutboxType, validStoppingState
<1>5. /\ e = [seq |-> NextSequence(outbox.lastSequence), type |-> life.pendingTerminal,
              usage |-> meter.usageTotal, reason |-> life.pendingReason]
      /\ e.seq = NextSequence(outbox.lastSequence)
      /\ e.type = life.pendingTerminal
      /\ e.usage = meter.usageTotal
      /\ e.reason = life.pendingReason
  BY <1>3 DEF TerminalEvent, Snapshot
<1>6. ValidateEvent(e) /\ e.seq # 0 /\ e.seq > outbox.lastSequence
  BY <1>2 DEF Accept, ValidateEvent
<1>7. NextSequence(outbox.lastSequence) \in 1..MaxSequence
  BY SMTT(60), ZenonT(60), <1>4, <1>5, <1>6, WidthAssumption DEF NextSequence
<1>8. IsTerminal(e) /\ HasUsage(e) /\ e \in Event
  BY <1>4, <1>5, <1>7 DEF IsTerminal, HasUsage, TerminalStates, Event, EventTypes,
     MeterType
<1> HIDE DEF e
<1>9. /\ meter' = [meter EXCEPT !.usageTotal = e.usage]
      /\ life' = [state |-> e.type, stopping |-> FALSE, pendingReason |-> None,
                  pendingTerminal |-> None, closeReason |-> e.reason]
      /\ keys' = [keys EXCEPT !.pendingActivation = None]
  BY <1>1, <1>8 DEF Advance
<1>10. meter' = meter
  BY SMTT(60), ZenonT(60), <1>4, <1>5, <1>9 DEF MeterType
<1>11. /\ CursorInv' /\ QueueInv' /\ BilledInv'
       /\ outbox'.pending = Append(outbox.pending, e)
  <2>1. meter.usageTotal \in Nat /\ meter'.usageTotal = meter.usageTotal
    BY <1>4, <1>10 DEF MeterType
  <2>2. meter'.usageTotal \in Nat /\ meter.usageTotal <= meter'.usageTotal
    BY <2>1
  <2>3. HasUsage(e) => e.usage = meter'.usageTotal
    BY <1>5, <2>1
  <2> QED BY ZenonT(60), <2>1, <2>2, <2>3, <1>2, <1>6, <1>8, Enqueued
<1>12. /\ life' \in LifeType /\ life'.state = life.pendingTerminal
       /\ ~life'.stopping /\ life'.pendingReason = None
       /\ life'.pendingTerminal = None /\ life'.closeReason = life.pendingReason
  BY SMTT(60), ZenonT(60), <1>4, <1>5, <1>9 DEF LifeType, TerminalStates
<1>13. ClosingInv'
  BY ZenonT(60), <1>2, <1>5, <1>8, <1>10, <1>11, <1>12, ClosingAppend
<1>14. LifeInv'
  BY <1>4, <1>12 DEF LifeInv, validTerminalState, validStoppingState
<1>15. /\ keys' \in KeysType /\ keys'.sealed = keys.sealed
       /\ keys'.current = keys.current /\ keys'.issued = keys.issued
       /\ keys'.readable = keys.readable /\ keys'.pendingActivation = None
  BY SMTT(60), ZenonT(60), <1>4, <1>9 DEF KeysType
<1>16. KeysInv' /\ keys'.sealed
  BY ZenonT(60), <1>2, <1>4, <1>12, <1>15 DEF IInv, KeysInv, validSecretEnvelope, validKeyActivation,
     validateSessionSecrets, TerminalStates
<1>17. MeterInv' /\ HealthInv' /\ SecretsOutliveEvents'
  BY ZenonT(60), <1>2, <1>10, <1>16 DEF IInv, MeterInv, MeteredOnce, HealthInv, validOutputHealth,
     SecretsOutliveEvents
<1>18. SnapshotInv'
  <2>1. NoSnapshot \in SnapshotType
    BY WidthAssumption DEF SnapshotType, NoSnapshot
  <2>2. final' \in [Finalizers -> SnapshotType]
    BY <1>1, <2>1 DEF IInv, SnapshotInv
  <2> QED BY <2>2, <1>4, <1>12 DEF SnapshotInv
<1> QED BY <1>11, <1>13, <1>14, <1>16, <1>17, <1>18 DEF IInv

\* Issuing and activating stream keys.
LEMMA KeyInv ==
    \A id \in RequestIDs :
        IInv /\ (RecordKeyIssue(id) \/ CompleteKeyActivation(id)) => IInv'
<1> SUFFICES ASSUME NEW id \in RequestIDs, IInv,
                    RecordKeyIssue(id) \/ CompleteKeyActivation(id)
             PROVE  IInv'
  OBVIOUS
<1> USE NoneAssumption
<1>1. /\ UNCHANGED <<life, meter, health, outbox, final>>
      /\ life.state = "active" /\ ~life.stopping
  BY DEF RecordKeyIssue, CompleteKeyActivation, loadActive
<1>2. keys \in KeysType /\ keys.sealed
  BY <1>1 DEF IInv, KeysInv, validSecretEnvelope
<1>3. /\ keys' \in KeysType /\ keys'.sealed
      /\ validKeyActivation' /\ validateSessionSecrets'
  <2>1. CASE RecordKeyIssue(id)
    <3>1. /\ keys' \in KeysType
          /\ keys'.sealed = keys.sealed
          /\ keys'.pendingActivation \in {id, None}
          /\ keys'.issued = keys.issued \cup {id}
          /\ keys'.readable = {id}
          /\ keys'.current = id
      BY ZenonT(60), <2>1, <1>2 DEF RecordKeyIssue, KeysType
    <3> QED BY <3>1, <1>1, <1>2 DEF validKeyActivation, validateSessionSecrets
  <2>2. CASE CompleteKeyActivation(id)
    <3>1. /\ keys' \in KeysType
          /\ keys'.sealed = keys.sealed
          /\ keys'.pendingActivation = None
          /\ keys'.issued = keys.issued
          /\ keys'.readable = keys.readable
          /\ keys'.current = keys.current
      BY ZenonT(60), <2>2, <1>2 DEF CompleteKeyActivation, KeysType
    <3> QED
      BY <3>1, <1>1, <1>2 DEF IInv, KeysInv, validKeyActivation, validateSessionSecrets
  <2> QED BY <2>1, <2>2
<1>4. KeysInv'
  BY ZenonT(60), <1>1, <1>3 DEF KeysInv, validSecretEnvelope
<1>5. LifeInv' /\ HealthInv' /\ SnapshotInv'
  BY <1>1 DEF IInv, LifeInv, HealthInv, validTerminalState, validStoppingState,
     validOutputHealth, SnapshotInv, Snapshot
<1> QED BY <1>1, <1>3, <1>4, <1>5, Unqueued

\* Metering a playlist.
LEMMA SegmentsInv ==
    \A playlist \in SUBSET Segments, t \in Times :
        IInv /\ RecordFinalizedSegments(playlist, t) => IInv'
<1> SUFFICES ASSUME NEW playlist \in SUBSET Segments, NEW t \in Times, IInv,
                    RecordFinalizedSegments(playlist, t)
             PROVE  IInv'
  OBVIOUS
<1> DEFINE new == playlist \ meter.segments
           total == meter.micros + DurationOf[new]
           emitted == WholeSeconds(total) > meter.usageTotal
<1>1. /\ life.state = "active" /\ ~life.stopping
      /\ total <= MaxMicroseconds
      /\ IF emitted THEN EmitActive("usage.tick", WholeSeconds(total), t)
                    ELSE UNCHANGED outbox
      /\ meter' = [usageTotal |-> IF emitted THEN WholeSeconds(total)
                                             ELSE meter.usageTotal,
                   micros |-> total, segments |-> meter.segments \cup new]
      /\ health' = [health EXCEPT !.finalizedAt = t, !.output = "producing",
                                  !.windowAt = 0, !.failures = 0]
      /\ UNCHANGED <<life, keys, final>>
  BY ZenonT(60) DEF RecordFinalizedSegments, loadActive
<1>2. /\ meter.usageTotal \in Nat /\ meter.micros \in Nat
      /\ meter.segments \in SUBSET Segments
      /\ meter.micros = DurationOf[meter.segments]
      /\ meter.usageTotal = WholeSeconds(meter.micros)
  BY WidthAssumption DEF IInv, MeterInv, MeterType, MeteredOnce
<1>3. DurationOf[new] \in Nat /\ DurationOf[meter.segments \cup new] = total
  <2>1. new \in SUBSET Segments /\ meter.segments \cap new = {}
    OBVIOUS
  <2> HIDE DEF new
  <2> QED BY <1>2, <2>1, DurationAssumption
<1>4. meter.segments \cup new \in SUBSET Segments
  BY <1>2
<1>5. /\ total \in 0..MaxMicroseconds
      /\ WholeSeconds(total) \in Nat
      /\ meter.usageTotal <= WholeSeconds(total)
  <2>1. total \in Nat /\ meter.micros <= total
    BY <1>2, <1>3
  <2> HIDE DEF total
  <2>2. WholeSeconds(total) \in Nat
    BY <2>1, WholeSecondsMonotonic
  <2>3. meter.usageTotal <= WholeSeconds(total)
    BY <1>2, <2>1, WholeSecondsMonotonic
  <2> QED BY <1>1, <2>1, <2>2, <2>3, WidthAssumption
<1> HIDE DEF new, total
<1>6. meter'.usageTotal = WholeSeconds(total)
  BY <1>1, <1>2, <1>5
<1>7. MeterInv'
  BY <1>1, <1>3, <1>4, <1>5, <1>6 DEF MeterInv, MeterType, MeteredOnce
<1>8. HealthInv'
  <2>1. health \in HealthType
    BY DEF IInv, HealthInv
  <2>2. "producing" \in OutputStates /\ 0 \in 0..MaxCount /\ t \in Times \cup {0}
    BY WidthAssumption DEF OutputStates
  <2>3. /\ health' \in HealthType /\ health'.output = "producing"
        /\ health'.windowAt = 0 /\ health'.failures = 0
    BY ZenonT(60), <1>1, <2>1, <2>2 DEF HealthType
  <2> QED BY <2>2, <2>3 DEF HealthInv, validOutputHealth
<1>9. CASE emitted
  <2>1. EmitActive("usage.tick", WholeSeconds(total), t)
    BY <1>1, <1>9
  <2>2. "usage.tick" \in EventTypes \ TerminalStates
    BY DEF EventTypes, TerminalStates
  <2> QED BY <1>1, <1>2, <1>5, <1>6, <1>7, <1>8, <2>1, <2>2, Emitted
<1>10. CASE ~emitted
  <2>1. outbox' = outbox /\ meter'.usageTotal = meter.usageTotal
    BY <1>1, <1>10
  <2>2. LifeInv' /\ KeysInv'
    BY <1>1 DEF IInv, LifeInv, KeysInv, validTerminalState, validStoppingState,
       validSecretEnvelope, validKeyActivation, validateSessionSecrets
  <2>3. CursorInv' /\ QueueInv' /\ BilledInv' /\ ClosingInv' /\ SecretsOutliveEvents'
    BY <1>1, <2>1 DEF IInv, CursorInv, validDeliveryCursor, validDeadLetters, QueueInv,
       BilledInv, ClosingInv, SecretsOutliveEvents
  <2>4. SnapshotInv'
    BY <1>1, <2>1 DEF IInv, SnapshotInv, Snapshot
  <2> QED BY <1>7, <1>8, <2>2, <2>3, <2>4 DEF IInv
<1> QED BY <1>9, <1>10

\* Heartbeats, ladder restarts and stalls: events without new usage.
LEMMA LivenessEventInv ==
    \A t \in Times :
        /\ IInv /\ RecordHeartbeat(t) => IInv'
        /\ IInv /\ RecordLadderRestart(t) => IInv'
        /\ IInv /\ EvaluateOutputHealth(t) => IInv'
        /\ IInv /\ RecordOutputStalled(t) => IInv'
<1> TAKE t \in Times
<1>0. {"heartbeat", "ladder.restart", "output.stalled"} \subseteq EventTypes \ TerminalStates
  BY DEF EventTypes, TerminalStates
<1>1. ASSUME IInv, RecordHeartbeat(t) PROVE IInv'
  <2>1. /\ life.state = "active" /\ ~life.stopping /\ meter' = meter
        /\ EmitActive("heartbeat", meter.usageTotal, t)
        /\ UNCHANGED <<life, keys, health, final>>
    BY <1>1 DEF RecordHeartbeat, loadActive
  <2>2. MeterInv' /\ HealthInv' /\ meter.usageTotal \in Nat
    BY <1>1, <2>1 DEF IInv, MeterInv, MeterType, MeteredOnce, HealthInv, validOutputHealth
  <2> QED BY <1>0, <1>1, <2>1, <2>2, Emitted
<1>2. ASSUME IInv, RecordLadderRestart(t) PROVE IInv'
  <2>1. /\ life.state = "active" /\ ~life.stopping /\ meter' = meter
        /\ EmitActive("ladder.restart", 0, t)
        /\ UNCHANGED <<life, keys, final>>
    BY <1>2 DEF RecordLadderRestart, loadActive
  <2>2. MeterInv' /\ meter.usageTotal \in Nat
    BY <1>2, <2>1 DEF IInv, MeterInv, MeterType, MeteredOnce
  <2>3. health \in HealthType
    BY <1>2 DEF IInv, HealthInv
  <2> DEFINE fresh == health.windowAt = 0 \/ t - health.windowAt > FailureWindow
             count == IF fresh THEN 0 ELSE health.failures
  <2>4. count \in 0..MaxCount /\ count # MaxCount
    BY <1>2, <2>3, WidthAssumption DEF RecordLadderRestart, HealthType
  <2>5. health' = [health EXCEPT !.windowAt = IF fresh THEN t ELSE health.windowAt,
                                 !.failures = count + 1]
    BY <1>2, <2>3 DEF RecordLadderRestart, HealthType
  <2>6. fresh \/ health.windowAt # 0
    OBVIOUS
  <2>7. count + 1 \in 0..MaxCount /\ count + 1 > 0
    BY <2>4, WidthAssumption
  <2>8. t # 0 /\ t \in Times \cup {0}
    BY TimeAssumption
  <2> HIDE DEF fresh, count
  <2>9. HealthInv'
    BY ZenonT(60), <2>3, <2>5, <2>6, <2>7, <2>8 DEF HealthInv, HealthType, validOutputHealth
  <2> QED BY <1>0, <1>2, <2>1, <2>2, <2>9, Emitted
<1>3. ASSUME IInv, loadActive, recordOutputStalledLocked(t) PROVE IInv'
  <2>1. /\ life.state = "active" /\ ~life.stopping /\ meter' = meter
        /\ EmitActive("output.stalled", 0, t)
        /\ health' = [health EXCEPT !.output = "stalled"]
        /\ UNCHANGED <<life, keys, final>>
    BY <1>3 DEF recordOutputStalledLocked, loadActive
  <2>2. MeterInv' /\ meter.usageTotal \in Nat
    BY <1>3, <2>1 DEF IInv, MeterInv, MeterType, MeteredOnce
  <2>3. HealthInv'
    BY <1>3, <2>1 DEF IInv, HealthInv, HealthType, validOutputHealth, OutputStates
  <2> QED BY <1>0, <1>3, <2>1, <2>2, <2>3, Emitted
<1> QED BY <1>1, <1>2, <1>3 DEF EvaluateOutputHealth, RecordOutputStalled

\* Publisher presence.
LEMMA PresenceInv ==
    \A online \in BOOLEAN, t \in Times : IInv /\ RecordIngestPresence(online, t) => IInv'
<1> SUFFICES ASSUME NEW online \in BOOLEAN, NEW t \in Times, IInv,
                    RecordIngestPresence(online, t)
             PROVE  IInv'
  OBVIOUS
<1>1. /\ UNCHANGED <<life, keys, meter, outbox, final>>
      /\ health' \in {[health EXCEPT !.onlineAt = t, !.output = "waiting"],
                      [health EXCEPT !.onlineAt = 0, !.output = "waiting",
                                     !.windowAt = 0, !.failures = 0]}
  BY DEF RecordIngestPresence
<1>2. HealthInv'
  <2>1. health \in HealthType /\ validOutputHealth
    BY DEF IInv, HealthInv
  <2>2. "waiting" \in OutputStates /\ 0 \in 0..MaxCount /\ t \in Times \cup {0}
    BY WidthAssumption DEF OutputStates
  <2>3. CASE health' = [health EXCEPT !.onlineAt = t, !.output = "waiting"]
    <3>1. health' \in HealthType
      BY ZenonT(60), <2>1, <2>2, <2>3 DEF HealthType
    <3>2. validOutputHealth'
      BY <2>1, <2>2, <2>3 DEF HealthType, validOutputHealth
    <3> QED BY <3>1, <3>2 DEF HealthInv
  <2>4. CASE health' = [health EXCEPT !.onlineAt = 0, !.output = "waiting",
                                      !.windowAt = 0, !.failures = 0]
    <3>1. health' \in HealthType
      BY ZenonT(60), <2>1, <2>2, <2>4 DEF HealthType
    <3>2. validOutputHealth'
      BY <2>1, <2>2, <2>4 DEF HealthType, validOutputHealth
    <3> QED BY <3>1, <3>2 DEF HealthInv
  <2> QED BY <1>1, <2>3, <2>4
<1>3. LifeInv' /\ KeysInv' /\ SnapshotInv'
  BY <1>1 DEF IInv, LifeInv, KeysInv, validTerminalState, validStoppingState,
     validSecretEnvelope, validKeyActivation, validateSessionSecrets, SnapshotInv, Snapshot
<1>4. outbox.pending # <<>> => keys'.sealed
  BY <1>1 DEF IInv, SecretsOutliveEvents
<1> QED BY <1>1, <1>2, <1>3, <1>4, Unqueued

-----------------------------------------------------------------------------
(* Steps of the callback worker.                                           *)

\* A step on the callback cursor alone, or one that drops the head of the
\* queue and the cursor with it.
LEMMA CursorStep ==
    ASSUME IInv, UNCHANGED <<life, keys, meter, health, final>>,
           outbox' \in OutboxType,
           outbox'.lastSequence = outbox.lastSequence,
           outbox'.lastEventAt = outbox.lastEventAt,
           \/ /\ outbox'.pending = outbox.pending
              /\ validDeliveryCursor'
           \/ /\ outbox.pending # <<>>
              /\ outbox'.pending = Tail(outbox.pending)
              /\ outbox'.delivery = NoDelivery,
           validDeadLetters'
    PROVE  IInv'
<1>1. /\ outbox \in OutboxType /\ meter.usageTotal \in Nat
      /\ outbox.pending \in Seq(Event)
      /\ Queue(outbox.pending, outbox.lastSequence, meter.usageTotal)
  BY ZenonT(60) DEF IInv, CursorInv, QueueInv, MeterInv, MeterType, OutboxType
<1>2. LifeInv' /\ KeysInv' /\ MeterInv' /\ HealthInv'
  BY ZenonT(60) DEF IInv, LifeInv, KeysInv, validTerminalState, validStoppingState,
     validSecretEnvelope, validKeyActivation, validateSessionSecrets, MeterInv,
     MeteredOnce, HealthInv, validOutputHealth
<1>3. BilledInv' /\ SnapshotInv'
  BY DEF IInv, BilledInv, SnapshotInv, Snapshot
<1>4. CASE /\ outbox'.pending = outbox.pending
           /\ validDeliveryCursor'
  <2>1. CursorInv'
    BY ZenonT(60), <1>4 DEF IInv, CursorInv
  <2>2. QueueInv' /\ ClosingInv' /\ SecretsOutliveEvents'
    BY <1>4 DEF IInv, QueueInv, ClosingInv, SecretsOutliveEvents
  <2> QED BY <1>2, <1>3, <2>1, <2>2 DEF IInv
<1>5. CASE /\ outbox.pending # <<>>
           /\ outbox'.pending = Tail(outbox.pending)
           /\ outbox'.delivery = NoDelivery
  <2>1. CursorInv'
    BY ZenonT(60), <1>5 DEF IInv, CursorInv, validDeliveryCursor
  <2>2. QueueInv'
    <3>1. Queue(Tail(outbox.pending), outbox.lastSequence, meter.usageTotal)
      BY ZenonT(60), <1>1, <1>5, QueueTail DEF OutboxType
    <3> QED BY <1>5, <3>1 DEF QueueInv
  <2>3. SecretsOutliveEvents'
    BY <1>5 DEF IInv, SecretsOutliveEvents
  <2>4. ClosingInv'
    <3>1. /\ Len(outbox.pending) \in Nat
          /\ Len(outbox'.pending) = Len(outbox.pending) - 1
          /\ \A i \in 1..Len(outbox'.pending) : outbox'.pending[i] = outbox.pending[i + 1]
      BY <1>1, <1>5, HeadTailProperties, LenProperties
    <3>2. \A i \in 1..Len(outbox'.pending) : i + 1 \in 1..Len(outbox.pending)
      BY <3>1
    <3> QED BY SMTT(60), ZenonT(60), <3>1, <3>2 DEF IInv, ClosingInv, Closing
  <2> QED BY <1>2, <1>3, <2>1, <2>2, <2>3, <2>4 DEF IInv
<1> QED BY ZenonT(60), <1>4, <1>5

\* Keeping the newest letters keeps letters, and no more than the limit.
LEMMA KeptLetters ==
    ASSUME NEW letters \in Seq(Letter)
    PROVE  /\ KeepNewest(letters) \in Seq(Letter)
           /\ Len(KeepNewest(letters)) <= MaxDeadLetters
           /\ Len(KeepNewest(letters)) <= Len(letters)
           /\ \A i \in 1..Len(KeepNewest(letters)) :
                \E j \in 1..Len(letters) : KeepNewest(letters)[i] = letters[j]
<1>1. Len(letters) \in Nat /\ MaxDeadLetters \in Nat
  BY LenProperties, WidthAssumption
<1>2. CASE Len(letters) > MaxDeadLetters
  <2> DEFINE m == Len(letters) - MaxDeadLetters + 1
             kept == SubSeq(letters, m, Len(letters))
  <2>1. m \in 1..(Len(letters) + 1) /\ Len(letters) \in (m - 1)..Len(letters)
    BY <1>1, <1>2
  <2>2. /\ kept \in Seq(Letter)
        /\ Len(kept) = Len(letters) - m + 1
        /\ \A i \in 1..(Len(letters) - m + 1) : kept[i] = letters[m + i - 1]
    BY <2>1, SubSeqProperties
  <2>3. KeepNewest(letters) = kept
    BY ZenonT(60), <1>2 DEF KeepNewest
  <2>4. Len(kept) = MaxDeadLetters
    BY <1>1, <2>2
  <2>5. \A i \in 1..Len(kept) : m + i - 1 \in 1..Len(letters)
    BY <1>1, <1>2, <2>4
  <2>6. \A i \in 1..Len(kept) : \E j \in 1..Len(letters) : kept[i] = letters[j]
    BY ZenonT(60), <2>2, <2>5
  <2>7. Len(kept) <= MaxDeadLetters /\ Len(kept) <= Len(letters)
    BY <1>1, <1>2, <2>4
  <2>8. kept \in Seq(Letter)
    BY <2>2
  <2> HIDE DEF kept
  <2> QED BY <2>3, <2>6, <2>7, <2>8
<1>3. CASE ~(Len(letters) > MaxDeadLetters)
  BY <1>1, <1>3 DEF KeepNewest
<1> QED BY <1>2, <1>3

\* What the worker does to the outbox, and the end of a session's secrets.
LEMMA CallbackInv == IInv /\ CallbackStep => IInv'
<1> SUFFICES ASSUME IInv, CallbackStep PROVE IInv'
  OBVIOUS
<1>1. /\ outbox \in OutboxType /\ outbox.delivery \in DeliveryType
      /\ outbox.pending \in Seq(Event) /\ outbox.dead \in Seq(Letter)
      /\ outbox.rejected \in 0..MaxSequence /\ validDeadLetters
      /\ validDeliveryCursor
  BY DEF IInv, CursorInv, OutboxType
<1>2. ASSUME NEW seq \in 1..MaxSequence, NEW t \in Times, NEW delay \in Delays,
             ReserveCallbackAttempt(seq, t, delay)
      PROVE  IInv'
  <2> DEFINE d == [event |-> seq, attempts |-> outbox.delivery.attempts + 1,
                   nextAt |-> t + delay, error |-> FALSE]
  <2>1. /\ outbox' = [outbox EXCEPT !.delivery = d]
        /\ UNCHANGED <<life, keys, meter, health, final>>
        /\ outbox.pending # <<>> /\ Head(outbox.pending).seq = seq
    BY <1>1, <1>2 DEF ReserveCallbackAttempt, isHead, OutboxType
  <2>2. outbox.delivery.attempts # MaxCount /\ outbox.delivery.attempts \in 0..MaxCount
    BY SMTT(60), ZenonT(60), <1>1, <1>2, WidthAssumption DEF ReserveCallbackAttempt, NoDelivery, DeliveryType
  <2>3. d \in DeliveryType /\ d.attempts > 0 /\ d.event = seq
    <3>1. t + delay \in Nat
      BY TimeAssumption
    <3>2. outbox.delivery.attempts + 1 \in 1..MaxCount
      BY <2>2, WidthAssumption
    <3> QED BY <3>1, <3>2, WidthAssumption DEF DeliveryType
  <2> HIDE DEF d
  <2>4. outbox' \in OutboxType
    BY <1>1, <2>1, <2>3 DEF OutboxType
  <2>5. /\ outbox'.pending = outbox.pending /\ outbox'.delivery = d
        /\ outbox'.dead = outbox.dead /\ outbox'.rejected = outbox.rejected
        /\ outbox'.lastSequence = outbox.lastSequence
        /\ outbox'.lastEventAt = outbox.lastEventAt
    BY <1>1, <2>1 DEF OutboxType
  <2>6. validDeliveryCursor' /\ validDeadLetters'
    BY <1>1, <2>1, <2>3, <2>5 DEF validDeliveryCursor, validDeadLetters
  <2> QED BY <2>1, <2>4, <2>5, <2>6, CursorStep
<1>3. ASSUME NEW seq \in 1..MaxSequence, RecordCallbackRetryFailure(seq) PROVE IInv'
  <2> DEFINE d == [outbox.delivery EXCEPT !.error = TRUE]
  <2>1. /\ outbox' = [outbox EXCEPT !.delivery = d]
        /\ UNCHANGED <<life, keys, meter, health, final>>
        /\ outbox.pending # <<>> /\ Head(outbox.pending).seq = seq
        /\ outbox.delivery.event = seq
    BY <1>1, <1>3 DEF RecordCallbackRetryFailure, isReserved, isHead, OutboxType
  <2>2. outbox.delivery # NoDelivery
    BY <2>1 DEF NoDelivery
  <2>3. /\ d \in DeliveryType /\ d.event = outbox.delivery.event
        /\ d.attempts = outbox.delivery.attempts
    BY ZenonT(60), <1>1 DEF DeliveryType
  <2> HIDE DEF d
  <2>4. outbox' \in OutboxType
    BY ZenonT(60), <1>1, <2>1, <2>3 DEF OutboxType
  <2>5. /\ outbox'.pending = outbox.pending /\ outbox'.delivery = d
        /\ outbox'.dead = outbox.dead /\ outbox'.rejected = outbox.rejected
        /\ outbox'.lastSequence = outbox.lastSequence
        /\ outbox'.lastEventAt = outbox.lastEventAt
    BY <1>1, <2>1 DEF OutboxType
  <2>6. validDeliveryCursor' /\ validDeadLetters'
    BY <1>1, <2>1, <2>2, <2>3, <2>5 DEF validDeliveryCursor, validDeadLetters
  <2> QED BY <2>1, <2>4, <2>5, <2>6, CursorStep
<1>4. NoDelivery \in DeliveryType
  BY WidthAssumption DEF NoDelivery, DeliveryType
<1>5. ASSUME NEW seq \in 1..MaxSequence, AcknowledgeEvent(seq) PROVE IInv'
  <2>1. /\ outbox' = [outbox EXCEPT !.pending = Tail(outbox.pending), !.delivery = NoDelivery]
        /\ UNCHANGED <<life, keys, meter, health, final>>
        /\ outbox.pending # <<>>
    BY <1>1, <1>5 DEF AcknowledgeEvent, isHead, OutboxType
  <2>2. Tail(outbox.pending) \in Seq(Event)
    BY <1>1, <2>1, HeadTailProperties
  <2>3. /\ outbox' \in OutboxType
        /\ outbox'.pending = Tail(outbox.pending) /\ outbox'.delivery = NoDelivery
        /\ outbox'.dead = outbox.dead /\ outbox'.rejected = outbox.rejected
        /\ outbox'.lastSequence = outbox.lastSequence
        /\ outbox'.lastEventAt = outbox.lastEventAt
    BY ZenonT(60), <1>1, <1>4, <2>1, <2>2 DEF OutboxType
  <2>4. validDeadLetters'
    BY <1>1, <2>3 DEF validDeadLetters
  <2> QED BY <2>1, <2>3, <2>4, CursorStep
<1>6. ASSUME NEW seq \in 1..MaxSequence, ParkCallbackRejection(seq) PROVE IInv'
  <2> DEFINE letter == [event |-> seq, attempts |-> outbox.delivery.attempts]
             letters == Append(outbox.dead, letter)
             kept == KeepNewest(letters)
  <2>1. /\ outbox' = [outbox EXCEPT !.pending = Tail(outbox.pending), !.delivery = NoDelivery,
                                    !.rejected = outbox.rejected + 1, !.dead = kept]
        /\ UNCHANGED <<life, keys, meter, health, final>>
        /\ outbox.pending # <<>> /\ Head(outbox.pending).seq = seq
        /\ outbox.delivery.event = seq /\ outbox.rejected # MaxSequence
    BY <1>1, <1>6 DEF ParkCallbackRejection, isReserved, isHead, OutboxType
  <2>2. Tail(outbox.pending) \in Seq(Event)
    BY <1>1, <2>1, HeadTailProperties
  <2>3. letter \in Letter
    <3>1. outbox.delivery # NoDelivery
      BY <2>1 DEF NoDelivery
    <3>2. outbox.delivery.attempts \in 1..MaxCount
      BY <1>1, <3>1 DEF validDeliveryCursor, DeliveryType
    <3> QED BY <3>2 DEF Letter
  <2>4. seq <= outbox.lastSequence
    <3>1. Len(outbox.pending) > 0 /\ Head(outbox.pending) = outbox.pending[1]
      BY <1>1, <2>1, EmptySeq, LenProperties, HeadTailProperties
    <3>2. 1 \in 1..Len(outbox.pending)
      BY <3>1, <1>1, LenProperties
    <3> QED BY <3>1, <3>2, <2>1 DEF IInv, QueueInv, Queue
  <2>5. /\ letters \in Seq(Letter) /\ Len(letters) = Len(outbox.dead) + 1
        /\ \A i \in 1..Len(outbox.dead) : letters[i] = outbox.dead[i]
        /\ letters[Len(outbox.dead) + 1] = letter
    <3>1. outbox.dead \in Seq(Letter)
      BY ZenonT(60), <1>1 DEF OutboxType
    <3> HIDE DEF letter
    <3> QED BY <2>3, <3>1, AppendProperties
  <2>6. \A i \in 1..Len(letters) :
           /\ letters[i].event <= outbox.lastSequence
           /\ letters[i].attempts > 0
    <3> SUFFICES ASSUME NEW i \in 1..Len(letters)
                 PROVE  /\ letters[i].event <= outbox.lastSequence
                        /\ letters[i].attempts > 0
      OBVIOUS
    <3>1. letters[i] \in Letter
      BY <2>5, ElementOfSeq
    <3>2. letters[i].attempts > 0
      BY <3>1 DEF Letter
    <3>3. Len(outbox.dead) \in Nat /\ DOMAIN outbox.dead = 1..Len(outbox.dead)
      BY <1>1, LenProperties
    <3>4. CASE i = Len(outbox.dead) + 1
      <4>1. letter.event = seq
        BY ZenonT(60)
      <4> HIDE DEF letter, letters
      <4> QED BY ZenonT(60), <2>4, <2>5, <3>2, <3>4, <4>1
    <3>5. CASE i # Len(outbox.dead) + 1
      <4>1. i \in 1..Len(outbox.dead)
        <5> HIDE DEF letter, letters
        <5> QED BY <2>5, <3>3, <3>5
      <4> QED BY ZenonT(60), <1>1, <2>5, <3>2, <3>3, <4>1 DEF validDeadLetters
    <3> QED BY <3>4, <3>5
  <2> HIDE DEF letter, letters
  <2>7. /\ kept \in Seq(Letter) /\ Len(kept) <= MaxDeadLetters
        /\ Len(kept) <= Len(letters)
        /\ \A i \in 1..Len(kept) : \E j \in 1..Len(letters) : kept[i] = letters[j]
    BY <2>5, KeptLetters
  <2> HIDE DEF kept
  <2>8. outbox.rejected + 1 \in 0..MaxSequence
    <3>1. outbox.rejected \in 0..MaxSequence /\ outbox.rejected # MaxSequence
      BY ZenonT(60), <1>1, <2>1 DEF OutboxType
    <3> QED BY <3>1, WidthAssumption
  <2>9. /\ outbox' \in OutboxType
        /\ outbox'.pending = Tail(outbox.pending) /\ outbox'.delivery = NoDelivery
        /\ outbox'.dead = kept /\ outbox'.rejected = outbox.rejected + 1
        /\ outbox'.lastSequence = outbox.lastSequence
        /\ outbox'.lastEventAt = outbox.lastEventAt
    BY ZenonT(60), <1>1, <1>4, <2>1, <2>2, <2>7, <2>8 DEF OutboxType
  <2>10. validDeadLetters'
    <3>1. DOMAIN kept = 1..Len(kept) /\ Len(kept) \in Nat /\ Len(outbox.dead) \in Nat
      BY <1>1, <2>7, LenProperties
    <3>2. \A i \in DOMAIN kept : kept[i].event <= outbox.lastSequence /\ kept[i].attempts > 0
      BY <2>6, <2>7, <3>1
    <3>3. Len(kept) <= outbox.rejected + 1
      BY SMTT(60), ZenonT(60), <1>1, <2>5, <2>7, <3>1 DEF validDeadLetters
    <3> QED BY <2>7, <2>9, <3>2, <3>3 DEF validDeadLetters
  <2> QED BY <2>1, <2>9, <2>10, CursorStep
<1>7. ASSUME ClearTerminalSecrets PROVE IInv'
  <2>1. /\ life.state \notin {"none", "active"} /\ outbox.pending = <<>>
        /\ keys' = [sealed |-> FALSE, current |-> None, issued |-> {},
                    readable |-> {}, pendingActivation |-> keys.pendingActivation]
        /\ UNCHANGED <<life, meter, health, outbox, final>>
    BY ZenonT(60), <1>7 DEF ClearTerminalSecrets, loadLocked
  <2>2. KeysInv'
    BY SMTT(60), ZenonT(60), <2>1 DEF IInv, KeysInv, KeysType, validSecretEnvelope, validKeyActivation,
       validateSessionSecrets
  <2>3. LifeInv' /\ HealthInv' /\ SnapshotInv'
    BY ZenonT(60), <2>1 DEF IInv, LifeInv, validTerminalState, validStoppingState,
       HealthInv, validOutputHealth, SnapshotInv, Snapshot
  <2> QED BY ZenonT(60), <2>1, <2>2, <2>3, Unqueued
<1> QED BY <1>2, <1>3, <1>5, <1>6, <1>7 DEF CallbackStep

-----------------------------------------------------------------------------
(* The theorems.                                                           *)

\* Every step keeps the invariant.
LEMMA NextInv == IInv /\ [Next]_vars => IInv'
<1> SUFFICES ASSUME IInv, [Next]_vars PROVE IInv'
  OBVIOUS
<1>1. NoSnapshot \in SnapshotType
  BY WidthAssumption DEF NoSnapshot, SnapshotType
<1>2. final \in [Finalizers -> SnapshotType]
  BY DEF IInv, SnapshotInv
<1>3. ASSUME NEW f \in Finalizers, FinalizeRefused(f) PROVE IInv'
  <2>1. /\ final' = [final EXCEPT ![f] = NoSnapshot]
        /\ UNCHANGED <<life, keys, meter, health, outbox>>
    BY <1>3 DEF FinalizeRefused
  <2> QED BY <1>1, <1>2, <2>1, ForgetInv
<1>4. ASSUME Crash PROVE IInv'
  BY <1>1, <1>4, ForgetInv DEF Crash
<1>5. ASSUME UNCHANGED vars PROVE IInv'
  BY ZenonT(60), <1>2, <1>5, ForgetInv DEF vars
<1>6. ASSUME SessionStep PROVE IInv'
  BY <1>3, <1>6, CreateInv, StartedInv, BeginTerminalInv, FinalizeLoadInv,
     FinalizeAdvanceInv, KeyInv, SegmentsInv, LivenessEventInv, PresenceInv
  DEF SessionStep
<1> QED BY <1>4, <1>5, <1>6, CallbackInv DEF Next

\* The invariant holds in every reachable state.
THEOREM Invariance == Spec => []IInv
BY InitInv, NextInv, PTL DEF Spec

\* Every store operation leaves the fields of the record well typed.
THEOREM TypeCorrect == Spec => []TypeOK
<1>1. IInv => TypeOK
  BY ZenonT(60) DEF IInv, LifeInv, KeysInv, MeterInv, HealthInv, CursorInv, SnapshotInv,
     TypeOK
<1> QED BY <1>1, Invariance, PTL

\* The record every store operation writes passes the validation of loadLocked:
\* no sequence of operations makes a session unloadable.
THEOREM RecordAlwaysLoads == Spec => []RecordLoads
BY InvLoads, Invariance, PTL

\* RecordFinalizedSegments bills every distinct segment exactly once.
THEOREM MeteringExact == Spec => []MeteredOnce
<1>1. IInv => MeteredOnce
  BY DEF IInv, MeterInv
<1> QED BY <1>1, Invariance, PTL

\* Undelivered events keep the credentials that deliver them.
THEOREM SecretsKept == Spec => []SecretsOutliveEvents
<1>1. IInv => SecretsOutliveEvents
  BY SMTT(60), ZenonT(60) DEF IInv
<1> QED BY <1>1, Invariance, PTL

\* The terminal event that FinalizeLiveTerminationV1 builds from a record read
\* earlier agrees with the record it closes.
THEOREM TerminalEventExact == Spec => []TerminalEventAgrees
<1>1. IInv => TerminalEventAgrees
  <2> SUFFICES ASSUME IInv PROVE TerminalEventAgrees
    BY ZenonT(60)
  <2>1. DOMAIN outbox.pending = 1..Len(outbox.pending)
    BY ZenonT(60), LenProperties DEF IInv, QueueInv, Queue
  <2> QED BY ZenonT(60), <2>1 DEF IInv, ClosingInv, Closing, TerminalEventAgrees
<1> QED BY <1>1, Invariance, PTL

\* Once a stop is pending, only the finalization of that stop changes the
\* record's state, and nothing changes its usage.
THEOREM FirstReasonKept == Spec => FirstReasonWins
<1> DEFINE A == life.stopping =>
              /\ meter' = meter
              /\ IF outbox'.lastSequence = outbox.lastSequence
                 THEN life' = life
                 ELSE /\ outbox'.lastSequence = outbox.lastSequence + 1
                      /\ life'.state = life.pendingTerminal
                      /\ life'.closeReason = life.pendingReason
<1>1. ASSUME IInv, [Next]_vars PROVE [A]_vars
  <2> SUFFICES ASSUME Next, life.stopping PROVE A
    BY <1>1
  <2>1. /\ life.state = "active" /\ outbox \in OutboxType /\ meter \in MeterType
        /\ final \in [Finalizers -> SnapshotType]
    BY <1>1 DEF IInv, LifeInv, CursorInv, MeterInv, SnapshotInv
  <2>2. ASSUME NEW f \in Finalizers, NEW t \in Times, FinalizeAdvance(f, t) PROVE A
    <3> DEFINE e == TerminalEvent(final[f])
    <3>1. final[f] # NoSnapshot /\ Advance(e, t)
      BY <2>2 DEF FinalizeAdvance
    <3>2. final[f] = Snapshot
      BY ZenonT(60), <1>1, <2>1, <3>1 DEF IInv, SnapshotInv, TerminalStates
    <3>3. /\ e.seq = NextSequence(outbox.lastSequence) /\ e.usage = meter.usageTotal
          /\ e.reason = life.pendingReason /\ e.type = life.pendingTerminal
      BY SMTT(60), ZenonT(60), <3>2 DEF TerminalEvent, Snapshot
    <3>4. CanAdvance(e) /\ Enqueue(e, t)
      BY SMTT(60), ZenonT(60), <3>1 DEF Advance
    <3>5. IsTerminal(e) /\ e.seq > outbox.lastSequence
      BY ZenonT(60), <2>1, <3>4 DEF CanAdvance, Accept
    <3>6. HasUsage(e)
      BY <3>5 DEF IsTerminal, TerminalStates, HasUsage
    <3> HIDE DEF e
    <3>7. /\ meter' = [meter EXCEPT !.usageTotal = e.usage]
          /\ life'.state = e.type /\ life'.closeReason = e.reason
      BY <3>1, <3>5, <3>6 DEF Advance
    <3>8. meter' = meter
      BY <2>1, <3>3, <3>7 DEF MeterType
    <3>9. e.seq = outbox.lastSequence + 1
      BY <2>1, <3>3, <3>5 DEF NextSequence, OutboxType
    <3>10. outbox'.lastSequence = e.seq
      BY <2>1, <3>4 DEF Enqueue, OutboxType
    <3> QED BY <2>1, <3>3, <3>7, <3>8, <3>9, <3>10 DEF OutboxType
  <2>3. ASSUME NEW t \in Times, SessionStarted(t) PROVE FALSE
    BY <2>3 DEF SessionStarted, Advance, CanAdvance, IsTerminal, TerminalStates
  <2>4. ~loadActive /\ ~CreateOrReplay
    BY SMTT(60), ZenonT(60), <2>1 DEF loadActive, CreateOrReplay
  <2>5. ASSUME SessionStep PROVE A
    <3>1. ASSUME NEW f \in Finalizers, FinalizeLoad(f) \/ FinalizeRefused(f) PROVE A
      BY ZenonT(60), <3>1 DEF FinalizeLoad, FinalizeRefused
    <3> QED
      BY ZenonT(60), <2>2, <2>3, <2>4, <2>5, <3>1
      DEF SessionStep, beginTerminal, RecordKeyIssue, CompleteKeyActivation,
          RecordFinalizedSegments, RecordHeartbeat, RecordIngestPresence,
          RecordLadderRestart, EvaluateOutputHealth, RecordOutputStalled
  <2>6. ASSUME CallbackStep PROVE A
    <3>1. life' = life /\ meter' = meter /\ outbox'.lastSequence = outbox.lastSequence
      BY ZenonT(60), <2>1, <2>6
      DEF CallbackStep, ReserveCallbackAttempt, RecordCallbackRetryFailure,
          AcknowledgeEvent, ParkCallbackRejection, ClearTerminalSecrets, OutboxType
    <3> QED BY SMTT(60), ZenonT(60), <3>1
  <2>7. ASSUME Crash PROVE A
    BY <2>7 DEF Crash
  <2> QED BY <2>5, <2>6, <2>7 DEF Next
<1> QED BY <1>1, Invariance, PTL DEF Spec, FirstReasonWins

\* A terminal record keeps its state, reason, usage and event sequence.
THEOREM TerminalStays == Spec => TerminalIsFinal
<1> DEFINE A == life.state \in TerminalStates =>
              /\ life' = life /\ meter' = meter
              /\ outbox'.lastSequence = outbox.lastSequence
<1>1. ASSUME IInv, [Next]_vars PROVE [A]_vars
  <2> SUFFICES ASSUME Next, life.state \in TerminalStates PROVE A
    BY <1>1
  <2>1. life.state \notin {"none", "active"} /\ outbox \in OutboxType
    BY <1>1 DEF IInv, CursorInv, TerminalStates
  <2>2. ~loadActive /\ ~CreateOrReplay /\ \A e : ~CanAdvance(e)
    BY SMTT(60), ZenonT(60), <2>1 DEF loadActive, CreateOrReplay, CanAdvance
  <2>3. ASSUME SessionStep PROVE A
    <3>1. ASSUME NEW f \in Finalizers, FinalizeLoad(f) \/ FinalizeRefused(f) PROVE A
      BY <3>1 DEF FinalizeLoad, FinalizeRefused
    <3>2. ASSUME NEW t \in Times, SessionStarted(t) \/ \E f \in Finalizers : FinalizeAdvance(f, t)
          PROVE FALSE
      BY ZenonT(60), <2>2, <3>2 DEF SessionStarted, FinalizeAdvance, Advance
    <3> QED
      BY ZenonT(60), <2>2, <2>3, <3>1, <3>2
      DEF SessionStep, beginTerminal, RecordKeyIssue, CompleteKeyActivation,
          RecordFinalizedSegments, RecordHeartbeat, RecordIngestPresence,
          RecordLadderRestart, EvaluateOutputHealth, RecordOutputStalled
  <2>4. ASSUME CallbackStep PROVE A
    <3>1. life' = life /\ meter' = meter /\ outbox'.lastSequence = outbox.lastSequence
      BY ZenonT(60), <2>1, <2>4
      DEF CallbackStep, ReserveCallbackAttempt, RecordCallbackRetryFailure,
          AcknowledgeEvent, ParkCallbackRejection, ClearTerminalSecrets, OutboxType
    <3> QED BY SMTT(60), ZenonT(60), <3>1
  <2>5. ASSUME Crash PROVE A
    BY <2>5 DEF Crash
  <2> QED BY <2>3, <2>4, <2>5 DEF Next
<1> QED BY <1>1, Invariance, PTL DEF Spec, TerminalIsFinal

\* RecordKeyIssue and CompleteKeyActivation rotate keys in order.
THEOREM KeysRotateInOrder == Spec => KeyRotationOrdered
<1> DEFINE A == /\ \A id \in keys.issued \ keys.readable : id \notin keys'.readable
                /\ keys.pendingActivation # None /\ keys'.sealed =>
                     keys'.current = keys.current
<1>1. ASSUME IInv, [Next]_vars PROVE [A]_vars
  <2> SUFFICES ASSUME Next PROVE A
    BY <1>1
  <2>1. keys \in KeysType
    BY <1>1 DEF IInv, KeysInv
  <2>2. ASSUME NEW id \in RequestIDs, RecordKeyIssue(id) PROVE A
    BY <2>1, <2>2 DEF RecordKeyIssue, KeysType
  <2>3. ASSUME keys'.current = keys.current, keys'.readable = keys.readable PROVE A
    BY <2>3
  <2>4. ASSUME NEW id \in RequestIDs, CompleteKeyActivation(id) PROVE A
    BY <2>1, <2>3, <2>4 DEF CompleteKeyActivation, KeysType
  <2>5. ASSUME CreateOrReplay PROVE A
    BY <2>1, <2>3, <2>5 DEF CreateOrReplay, KeysType
  <2>6. ASSUME NEW reason \in CloseReasons, NEW target \in TerminalStates,
               beginTerminal(reason, target)
        PROVE  A
    BY <2>1, <2>3, <2>6 DEF beginTerminal, KeysType
  <2>7. ASSUME NEW e, NEW t \in Times, Advance(e, t) PROVE A
    BY ZenonT(60), <2>1, <2>3, <2>7 DEF Advance, KeysType
  <2>8. ASSUME ClearTerminalSecrets PROVE A
    BY SMTT(60), ZenonT(60), <2>8 DEF ClearTerminalSecrets
  <2>9. ASSUME SessionStep PROVE A
    <3>1. ASSUME keys' = keys PROVE A
      BY SMTT(60), ZenonT(60), <2>3, <3>1
    <3> QED
      BY ZenonT(60), <2>2, <2>4, <2>5, <2>6, <2>7, <2>9, <3>1
      DEF SessionStep, SessionStarted, FinalizeLoad, FinalizeAdvance, FinalizeRefused,
          RecordFinalizedSegments, RecordHeartbeat, RecordIngestPresence,
          RecordLadderRestart, EvaluateOutputHealth, RecordOutputStalled,
          recordOutputStalledLocked
  <2>10. ASSUME CallbackStep PROVE A
    <3>1. ASSUME keys' = keys PROVE A
      BY <2>3, <3>1
    <3> QED
      BY ZenonT(60), <2>8, <2>10, <3>1
      DEF CallbackStep, ReserveCallbackAttempt, RecordCallbackRetryFailure,
          AcknowledgeEvent, ParkCallbackRejection
  <2>11. ASSUME Crash PROVE A
    BY <2>3, <2>11 DEF Crash
  <2> QED BY <2>9, <2>10, <2>11 DEF Next
<1> QED BY <1>1, Invariance, PTL DEF Spec, KeyRotationOrdered
=============================================================================
