-------------------------- MODULE LiveSessionStore --------------------------
(***************************************************************************)
(* The durable record of one live session, live-runner/store.go.           *)
(*                                                                         *)
(* EncryptedFileSessionStoreV1 keeps one file per session.  Each exported  *)
(* method takes the store mutex, loads and validates the file, changes the *)
(* record and replaces the file with one rename, so each method is one     *)
(* action here.  Its callers (the HTTP handlers, the run goroutine, the    *)
(* output meter, the callback worker, startup recovery) run concurrently,  *)
(* and the record survives a crash, so any action may follow any other and *)
(* a crash changes nothing in this module but the finalizers' snapshots.   *)
(*                                                                         *)
(* Time stamps are the caller's wall clock as an argument, in no           *)
(* particular order: the code stores RFC 3339 wall time across restarts.   *)
(* The empty string of the code is None for reasons and keys, 0 for times. *)
(***************************************************************************)
EXTENDS Integers, Sequences, FiniteSets

CONSTANTS
    CloseReasons,      \* closeReasonsV1
    RequestIDs,        \* stream-key request identities
    Segments,          \* identities (URI digests) of HLS media segments
    DurationOf,        \* total duration, in microseconds, of a set of segments
    Times,             \* wall-clock readings a caller may pass
    Delays,            \* values callbackRetryDelayV1 may return
    HeartbeatInterval, \* minimumInterval of RecordHeartbeat
    StallAfter,        \* stallAfter and failAfter of EvaluateOutputHealth
    FailAfter,
    FailureWindow,     \* window of RecordLadderRestart
    MaxDeadLetters,    \* maxCallbackDeadLettersV1
    MaxSequence,       \* largest uint64, for sequences and the rejection count
    MaxMicroseconds,   \* largest uint64, for the metered timeline
    MaxCount,          \* largest uint32, for attempts and ladder failures
    Finalizers,        \* callers of FinalizeLiveTerminationV1
    None

\* A duration is a measure on sets of segments: it adds up over disjoint sets,
\* and no segment has duration zero (RecordFinalizedSegments refuses those).
ASSUME DurationAssumption ==
    /\ DurationOf \in [SUBSET Segments -> Nat]
    /\ \A S, T \in SUBSET Segments :
         S \cap T = {} => DurationOf[S \cup T] = DurationOf[S] + DurationOf[T]
    /\ \A S \in SUBSET Segments : DurationOf[S] = 0 <=> S = {}

ASSUME TimeAssumption ==
    /\ Times \subseteq Nat \ {0}
    /\ Delays \subseteq Nat
    /\ HeartbeatInterval \in Nat \ {0}
    /\ StallAfter \in Nat \ {0}
    /\ FailAfter \in Nat
    /\ StallAfter < FailAfter
    /\ FailureWindow \in Nat \ {0}

ASSUME WidthAssumption ==
    /\ MaxDeadLetters \in Nat
    /\ MaxSequence \in Nat \ {0}
    /\ MaxMicroseconds \in Nat
    /\ MaxCount \in Nat \ {0}

ASSUME NoneAssumption ==
    None \notin CloseReasons \cup RequestIDs \cup {"ended", "failed"}

VARIABLES
    life,    \* State, Stopping and the close reasons
    keys,    \* the sealed secrets: stream keys and the pending activation
    meter,   \* the exactly-once segment cursor and the billed usage
    health,  \* publisher epoch, output state, ladder failures
    outbox,  \* event sequence, undelivered events, callback cursor
    final    \* what each finalizer read before it appends the terminal event

vars == <<life, keys, meter, health, outbox, final>>

-----------------------------------------------------------------------------
(* The record.                                                             *)

TerminalStates == {"ended", "failed"}
OutputStates == {"waiting", "producing", "stalled"}

\* RunnerEventV1.  Details and time are left out; the identity of an event is
\* its sequence, because the code derives EventID from it.
EventTypes == {"started", "heartbeat", "ladder.restart", "output.stalled",
               "usage.tick", "ended", "failed"}
HasUsage(e) == e.type \in {"heartbeat", "usage.tick", "ended", "failed"}
Event == [seq : 1..MaxSequence, type : EventTypes, usage : Nat,
          reason : CloseReasons \cup {None}]

WholeSeconds(micros) == micros \div 1000000

NoDelivery == [event |-> 0, attempts |-> 0, nextAt |-> 0, error |-> FALSE]
NoSnapshot == [seq |-> 0, usage |-> 0, reason |-> None, target |-> None]

Init ==
    /\ life = [state |-> "none", stopping |-> FALSE, pendingReason |-> None,
               pendingTerminal |-> None, closeReason |-> None]
    /\ keys = [sealed |-> FALSE, current |-> None, issued |-> {},
               readable |-> {}, pendingActivation |-> None]
    /\ meter = [usageTotal |-> 0, micros |-> 0, segments |-> {}]
    /\ health = [onlineAt |-> 0, finalizedAt |-> 0,
                 output |-> "waiting", windowAt |-> 0, failures |-> 0]
    /\ outbox = [lastSequence |-> 0, lastEventAt |-> 0, pending |-> <<>>,
                 delivery |-> NoDelivery, dead |-> <<>>, rejected |-> 0]
    /\ final = [f \in Finalizers |-> NoSnapshot]

-----------------------------------------------------------------------------
(* Validation.  loadLocked runs it on the file before every operation, so a *)
(* record that fails it is lost to every later operation and to recovery.   *)

IsTerminal(e) == e.type \in TerminalStates

ValidateEvent(e) ==
    /\ e.seq # 0
    /\ e.type \in EventTypes
    /\ IsTerminal(e) => e.reason \in CloseReasons

validSecretEnvelope == life.state = "active" => keys.sealed

validOutputHealth ==
    /\ health.output \in OutputStates
    /\ health.failures > 0 <=> health.windowAt # 0

validTerminalState ==
    /\ life.state \in TerminalStates <=> life.closeReason # None
    /\ life.closeReason # None => life.closeReason \in CloseReasons

validStoppingState ==
    /\ life.stopping <=> life.pendingReason # None
    /\ life.stopping <=> life.pendingTerminal # None
    /\ life.pendingTerminal # None => life.pendingTerminal \in TerminalStates
    /\ life.pendingReason # None => life.pendingReason \in CloseReasons
    /\ life.state \in TerminalStates => ~life.stopping

validKeyActivation ==
    keys.pendingActivation # None =>
        /\ keys.pendingActivation \in RequestIDs
        /\ life.state = "active"
        /\ ~life.stopping

validOutbox ==
    LET p == outbox.pending IN
    /\ \A i \in DOMAIN p : /\ ValidateEvent(p[i])
                           /\ p[i].seq <= outbox.lastSequence
    /\ \A i, j \in DOMAIN p : i < j =>
         /\ p[i].seq < p[j].seq
         /\ HasUsage(p[i]) /\ HasUsage(p[j]) => p[i].usage <= p[j].usage

validDeliveryCursor ==
    outbox.delivery # NoDelivery =>
        /\ outbox.pending # <<>>
        /\ outbox.delivery.event = Head(outbox.pending).seq
        /\ outbox.delivery.attempts > 0

validDeadLetters ==
    /\ Len(outbox.dead) <= MaxDeadLetters
    /\ Len(outbox.dead) <= outbox.rejected
    /\ \A i \in DOMAIN outbox.dead :
         /\ outbox.dead[i].event <= outbox.lastSequence
         /\ outbox.dead[i].attempts > 0

hasMeteringCursor == meter.micros > 0 \/ meter.segments # {}

validMeteringCursor ==
    /\ meter.usageTotal > 0 => outbox.lastSequence # 0
    /\ hasMeteringCursor => WholeSeconds(meter.micros) = meter.usageTotal
    /\ meter.segments # {} => meter.micros # 0

validEventCursor ==
    /\ outbox.lastEventAt # 0 => outbox.lastSequence # 0
    /\ outbox.pending # <<>> =>
         LET last == outbox.pending[Len(outbox.pending)] IN
         /\ last.seq = outbox.lastSequence
         /\ HasUsage(last) => last.usage = meter.usageTotal

validateSessionRecord ==
    /\ validSecretEnvelope
    /\ validOutputHealth
    /\ validTerminalState
    /\ validStoppingState
    /\ validKeyActivation
    /\ validOutbox
    /\ validDeliveryCursor
    /\ validDeadLetters
    /\ validMeteringCursor
    /\ validEventCursor

\* Superseded keys are blanked; only the current one can be replayed.
validateSessionSecrets ==
    keys.sealed =>
        /\ keys.current # None => keys.current \in keys.issued
        /\ keys.pendingActivation # None => keys.current = keys.pendingActivation
        /\ \A id \in keys.issued : id \in keys.readable <=> id = keys.current

loadLocked ==
    /\ life.state # "none"
    /\ validateSessionRecord
    /\ validateSessionSecrets

\* The guard shared by the mutators of a running session.
loadActive ==
    /\ life.state = "active"
    /\ ~life.stopping
    /\ loadLocked

-----------------------------------------------------------------------------
(* Session lifecycle.                                                      *)

\* CreateOrReplay of an unknown session.  The replay of a known one, and the
\* refusal of a different request under its identity, change nothing.
CreateOrReplay ==
    /\ life.state = "none"
    /\ life' = [life EXCEPT !.state = "active"]
    /\ keys' = [keys EXCEPT !.sealed = TRUE]
    /\ UNCHANGED <<meter, health, outbox, final>>

\* The sequence after n, in uint64 arithmetic.
NextSequence(n) == IF n = MaxSequence THEN 0 ELSE n + 1

\* Every mutator that emits an event assigns these fields together.
Enqueue(e, t) ==
    outbox' = [outbox EXCEPT !.lastSequence = e.seq, !.lastEventAt = t,
                             !.pending = Append(@, e)]

\* The event the mutators other than Advance append, with their overflow check.
EmitActive(type, usage, t) ==
    /\ outbox.lastSequence # MaxSequence
    /\ Enqueue([seq |-> outbox.lastSequence + 1, type |-> type,
                usage |-> usage, reason |-> None], t)

\* EventCursorV1.Accept, with the cursor Advance builds from the record.
Accept(e) ==
    /\ ValidateEvent(e)
    /\ e.seq > outbox.lastSequence
    /\ \A i \in DOMAIN outbox.pending : outbox.pending[i].seq # e.seq
    /\ HasUsage(e) /\ outbox.lastSequence > 0 => e.usage >= meter.usageTotal

CanAdvance(e) ==
    /\ life.state = "active"
    /\ life.stopping => IsTerminal(e) /\ e.reason = life.pendingReason
    /\ hasMeteringCursor /\ HasUsage(e) => e.usage = WholeSeconds(meter.micros)
    /\ Accept(e)
    /\ loadLocked

\* Mutant: every terminal event is recorded as a regular end.
Advance_alwaysEnded(e, t) ==
    /\ CanAdvance(e)
    /\ Enqueue(e, t)
    /\ life' = IF IsTerminal(e)
               THEN [state |-> "ended", stopping |-> FALSE, pendingReason |-> None,
                     pendingTerminal |-> None, closeReason |-> e.reason]
               ELSE life
    /\ UNCHANGED <<keys, meter, health>>

Advance(e, t) ==
    /\ CanAdvance(e)
    /\ Enqueue(e, t)
    /\ meter' = IF HasUsage(e) THEN [meter EXCEPT !.usageTotal = e.usage] ELSE meter
    /\ IF IsTerminal(e)
       THEN /\ life' = [state |-> e.type, stopping |-> FALSE,
                        pendingReason |-> None, pendingTerminal |-> None,
                        closeReason |-> e.reason]
            /\ keys' = [keys EXCEPT !.pendingActivation = None]
       ELSE UNCHANGED <<life, keys>>
    /\ UNCHANGED health

\* EnsureSession appends the first event of a session.
SessionStarted(t) ==
    /\ Advance([seq |-> 1, type |-> "started", usage |-> 0, reason |-> None], t)
    /\ UNCHANGED final

\* Mutant: the last reason wins.
beginTerminal_lastWins(reason, target) ==
    /\ loadLocked
    /\ life.state = "active"
    /\ life' = [life EXCEPT !.stopping = TRUE, !.pendingReason = reason,
                            !.pendingTerminal = target]
    /\ keys' = [keys EXCEPT !.pendingActivation = None]
    /\ UNCHANGED <<meter, health, outbox, final>>

\* BeginTermination ("ended") and BeginFailure ("failed"): the first one wins.
beginTerminal(reason, target) ==
    /\ loadActive
    /\ life' = [life EXCEPT !.stopping = TRUE, !.pendingReason = reason,
                            !.pendingTerminal = target]
    /\ keys' = [keys EXCEPT !.pendingActivation = None]
    /\ UNCHANGED <<meter, health, outbox, final>>

\* FinalizeLiveTerminationV1 loads the record and builds the terminal event
\* from what it read ...
FinalizeLoad(f) ==
    /\ final[f] = NoSnapshot
    /\ life.state = "active"
    /\ life.stopping
    /\ loadLocked
    /\ final' = [final EXCEPT ![f] =
                    [seq |-> NextSequence(outbox.lastSequence),
                     usage |-> meter.usageTotal,
                     reason |-> life.pendingReason,
                     target |-> life.pendingTerminal]]
    /\ UNCHANGED <<life, keys, meter, health, outbox>>

\* ... and appends it in a second store operation, which may find that another
\* finalizer was first.
TerminalEvent(s) ==
    [seq |-> s.seq, type |-> s.target, usage |-> s.usage, reason |-> s.reason]

FinalizeAdvance(f, t) ==
    /\ final[f] # NoSnapshot
    /\ Advance(TerminalEvent(final[f]), t)
    /\ final' = [final EXCEPT ![f] = NoSnapshot]

FinalizeRefused(f) ==
    /\ final[f] # NoSnapshot
    /\ ~CanAdvance(TerminalEvent(final[f]))
    /\ final' = [final EXCEPT ![f] = NoSnapshot]
    /\ UNCHANGED <<life, keys, meter, health, outbox>>

\* A crash of the runner loses what the finalizers read, and nothing else.
Crash ==
    /\ final' = [f \in Finalizers |-> NoSnapshot]
    /\ UNCHANGED <<life, keys, meter, health, outbox>>

-----------------------------------------------------------------------------
(* Stream keys.                                                            *)

\* A new request blanks the previous keys; all but the first one must be
\* activated before the next is accepted.  A replay changes nothing.
RecordKeyIssue(id) ==
    /\ id \notin keys.issued
    /\ keys.pendingActivation = None
    /\ loadActive
    /\ keys' = [keys EXCEPT
                  !.pendingActivation = IF keys.current # None THEN id ELSE None,
                  !.issued = @ \cup {id}, !.readable = {id}, !.current = id]
    /\ UNCHANGED <<life, meter, health, outbox, final>>

CompleteKeyActivation(id) ==
    /\ keys.pendingActivation = id
    /\ keys.current = id
    /\ loadActive
    /\ keys' = [keys EXCEPT !.pendingActivation = None]
    /\ UNCHANGED <<life, meter, health, outbox, final>>

-----------------------------------------------------------------------------
(* Metering, liveness and output health.                                   *)

\* Mutant: segments of an earlier poll are counted again.
RecordFinalizedSegments_recount(playlist, t) ==
    /\ loadActive
    /\ outbox.lastSequence # 0
    /\ playlist # {}
    /\ LET total == meter.micros + DurationOf[playlist]
           emitted == WholeSeconds(total) > meter.usageTotal
       IN /\ total <= MaxMicroseconds
          /\ IF emitted THEN EmitActive("usage.tick", WholeSeconds(total), t)
                        ELSE UNCHANGED outbox
          /\ meter' = [usageTotal |-> IF emitted THEN WholeSeconds(total)
                                                 ELSE meter.usageTotal,
                       micros |-> total,
                       segments |-> meter.segments \cup playlist]
    /\ UNCHANGED <<life, keys, health, final>>

\* The finalized segments of one playlist.  Segments already counted are
\* skipped; the cursor, the duration and the usage event are one file replace.
RecordFinalizedSegments(playlist, t) ==
    /\ loadActive
    /\ outbox.lastSequence # 0
    /\ LET new == playlist \ meter.segments
           total == meter.micros + DurationOf[new]
           emitted == WholeSeconds(total) > meter.usageTotal
       IN /\ new # {}
          /\ total <= MaxMicroseconds
          /\ IF emitted THEN EmitActive("usage.tick", WholeSeconds(total), t)
                        ELSE UNCHANGED outbox
          /\ meter' = [usageTotal |-> IF emitted THEN WholeSeconds(total)
                                                 ELSE meter.usageTotal,
                       micros |-> total,
                       segments |-> meter.segments \cup new]
    /\ health' = [health EXCEPT !.finalizedAt = t, !.output = "producing",
                                !.windowAt = 0, !.failures = 0]
    /\ UNCHANGED <<life, keys, final>>

RecordHeartbeat(t) ==
    /\ outbox.lastSequence # 0
    /\ outbox.lastEventAt # 0 => t >= outbox.lastEventAt + HeartbeatInterval
    /\ loadActive
    /\ EmitActive("heartbeat", meter.usageTotal, t)
    /\ UNCHANGED <<life, keys, meter, health, final>>

\* A publisher epoch begins and ends; either way the output state starts over.
RecordIngestPresence(online, t) ==
    /\ loadActive
    /\ \/ /\ online
          /\ health.onlineAt = 0
          /\ health' = [health EXCEPT !.onlineAt = t, !.output = "waiting"]
       \/ /\ ~online
          /\ health.onlineAt # 0
          /\ health' = [health EXCEPT !.onlineAt = 0, !.output = "waiting",
                                      !.windowAt = 0, !.failures = 0]
    /\ UNCHANGED <<life, keys, meter, outbox, final>>

RecordLadderRestart(t) ==
    /\ loadActive
    /\ LET fresh == health.windowAt = 0 \/ t - health.windowAt > FailureWindow
           count == IF fresh THEN 0 ELSE health.failures
       IN /\ count # MaxCount
          /\ health' = [health EXCEPT !.windowAt = IF fresh THEN t ELSE @,
                                      !.failures = count + 1]
    /\ EmitActive("ladder.restart", 0, t)
    /\ UNCHANGED <<life, keys, meter, final>>

recordOutputStalledLocked(t) ==
    /\ health' = [health EXCEPT !.output = "stalled"]
    /\ EmitActive("output.stalled", 0, t)
    /\ UNCHANGED <<life, keys, meter, final>>

\* At or past FailAfter the method only reports the failure to its caller.
EvaluateOutputHealth(t) ==
    /\ loadActive
    /\ health.onlineAt # 0
    /\ LET base == IF health.finalizedAt > health.onlineAt
                   THEN health.finalizedAt ELSE health.onlineAt
       IN t - base >= StallAfter /\ t - base < FailAfter
    /\ health.output # "stalled"
    /\ recordOutputStalledLocked(t)

RecordOutputStalled(t) ==
    /\ loadActive
    /\ health.output # "stalled"
    /\ recordOutputStalledLocked(t)

-----------------------------------------------------------------------------
(* The callback cursor.  Only the callback worker calls these.             *)

isHead(seq) == outbox.pending # <<>> /\ Head(outbox.pending).seq = seq

ReserveCallbackAttempt(seq, t, delay) ==
    /\ isHead(seq)
    /\ loadLocked
    /\ outbox.delivery # NoDelivery =>
         /\ outbox.delivery.event = seq
         /\ outbox.delivery.attempts # MaxCount
         /\ t >= outbox.delivery.nextAt
    /\ outbox' = [outbox EXCEPT !.delivery =
                    [event |-> seq, attempts |-> @.attempts + 1,
                     nextAt |-> t + delay, error |-> FALSE]]
    /\ UNCHANGED <<life, keys, meter, health, final>>

\* The head and the attempt reserved for it belong to event seq.
isReserved(seq) == isHead(seq) /\ outbox.delivery.event = seq

RecordCallbackRetryFailure(seq) ==
    /\ isReserved(seq)
    /\ loadLocked
    /\ outbox' = [outbox EXCEPT !.delivery.error = TRUE]
    /\ UNCHANGED <<life, keys, meter, health, final>>

\* Mutant: the cursor of the acknowledged event is kept.
AcknowledgeEvent_keepsCursor(seq) ==
    /\ isHead(seq)
    /\ loadLocked
    /\ outbox' = [outbox EXCEPT !.pending = Tail(@)]
    /\ UNCHANGED <<life, keys, meter, health, final>>

AcknowledgeEvent(seq) ==
    /\ isHead(seq)
    /\ loadLocked
    /\ outbox' = [outbox EXCEPT !.pending = Tail(@), !.delivery = NoDelivery]
    /\ UNCHANGED <<life, keys, meter, health, final>>

\* The newest MaxDeadLetters entries are kept.
KeepNewest(letters) ==
    IF Len(letters) > MaxDeadLetters
    THEN SubSeq(letters, Len(letters) - MaxDeadLetters + 1, Len(letters))
    ELSE letters

ParkCallbackRejection(seq) ==
    /\ isReserved(seq)
    /\ loadLocked
    /\ outbox.rejected # MaxSequence
    /\ outbox' = [outbox EXCEPT
                    !.pending = Tail(@), !.delivery = NoDelivery,
                    !.rejected = @ + 1,
                    !.dead = KeepNewest(Append(@,
                       [event |-> seq, attempts |-> outbox.delivery.attempts]))]
    /\ UNCHANGED <<life, keys, meter, health, final>>

ClearTerminalSecrets ==
    /\ loadLocked
    /\ life.state # "active"
    /\ outbox.pending = <<>>
    /\ keys' = [sealed |-> FALSE, current |-> None, issued |-> {},
                readable |-> {}, pendingActivation |-> keys.pendingActivation]
    /\ UNCHANGED <<life, meter, health, outbox, final>>

\* The files startup recovery and the callback sweep visit.
Recoverable == life.state = "active" \/ outbox.pending # <<>> \/ keys.sealed

-----------------------------------------------------------------------------

\* What handlers, run, meter and recovery do to the record.
SessionStep ==
    \/ CreateOrReplay
    \/ \E t \in Times : SessionStarted(t)
    \/ \E reason \in CloseReasons, target \in TerminalStates :
         beginTerminal(reason, target)
    \/ \E f \in Finalizers : FinalizeLoad(f)
    \/ \E f \in Finalizers, t \in Times : FinalizeAdvance(f, t)
    \/ \E f \in Finalizers : FinalizeRefused(f)
    \/ \E id \in RequestIDs : RecordKeyIssue(id)
    \/ \E id \in RequestIDs : CompleteKeyActivation(id)
    \/ \E playlist \in SUBSET Segments, t \in Times :
         RecordFinalizedSegments(playlist, t)
    \/ \E t \in Times : RecordHeartbeat(t)
    \/ \E online \in BOOLEAN, t \in Times : RecordIngestPresence(online, t)
    \/ \E t \in Times : RecordLadderRestart(t)
    \/ \E t \in Times : EvaluateOutputHealth(t)
    \/ \E t \in Times : RecordOutputStalled(t)

CallbackStep ==
    \/ \E seq \in 1..MaxSequence, t \in Times, delay \in Delays :
         ReserveCallbackAttempt(seq, t, delay)
    \/ \E seq \in 1..MaxSequence : RecordCallbackRetryFailure(seq)
    \/ \E seq \in 1..MaxSequence : AcknowledgeEvent(seq)
    \/ \E seq \in 1..MaxSequence : ParkCallbackRejection(seq)
    \/ ClearTerminalSecrets

Next == SessionStep \/ CallbackStep \/ Crash

Spec == Init /\ [][Next]_vars

-----------------------------------------------------------------------------
(* Properties.                                                             *)

LifeType == [state : {"none", "active"} \cup TerminalStates,
             stopping : BOOLEAN, pendingReason : CloseReasons \cup {None},
             pendingTerminal : TerminalStates \cup {None},
             closeReason : CloseReasons \cup {None}]
KeysType == [sealed : BOOLEAN, current : RequestIDs \cup {None},
             issued : SUBSET RequestIDs, readable : SUBSET RequestIDs,
             pendingActivation : RequestIDs \cup {None}]
MeterType == [usageTotal : Nat, micros : 0..MaxMicroseconds,
              segments : SUBSET Segments]
HealthType == [onlineAt : Times \cup {0}, finalizedAt : Times \cup {0},
               output : OutputStates, windowAt : Times \cup {0},
               failures : 0..MaxCount]
DeliveryType == [event : 0..MaxSequence, attempts : 0..MaxCount,
                 nextAt : Nat, error : BOOLEAN]
Letter == [event : 1..MaxSequence, attempts : 1..MaxCount]
OutboxType == [lastSequence : 0..MaxSequence, lastEventAt : Times \cup {0},
               pending : Seq(Event), delivery : DeliveryType,
               dead : Seq(Letter), rejected : 0..MaxSequence]
SnapshotType == [seq : 0..MaxSequence, usage : Nat,
                 reason : CloseReasons \cup {None},
                 target : TerminalStates \cup {None}]

\* Every field of the record keeps its type, whatever operation ran last.
TypeOK ==
    /\ life \in LifeType
    /\ keys \in KeysType
    /\ meter \in MeterType
    /\ health \in HealthType
    /\ outbox \in OutboxType
    /\ final \in [Finalizers -> SnapshotType]

\* Whatever sequence of store operations ran, the file they left passes the
\* validation of loadLocked (validateSessionRecordV1, validateSessionSecretsV1).
\* Otherwise the session could be neither metered, terminated nor recovered,
\* and startup recovery, which stops at the first bad file, would fail.
RecordLoads == life.state # "none" => loadLocked

\* RecordFinalizedSegments bills each segment once, however often a playlist
\* is polled: the metered time is the duration of the distinct segments, and
\* the billed total is its whole seconds, never ahead of it nor behind it.
MeteredOnce ==
    /\ meter.micros = DurationOf[meter.segments]
    /\ meter.usageTotal = WholeSeconds(meter.micros)

\* An undelivered event always has the callback credentials to deliver it
\* with: ClearTerminalSecrets never runs ahead of the outbox.
SecretsOutliveEvents == outbox.pending # <<>> => keys.sealed

\* A terminal event is the last event of its session, agrees with the record's
\* state and close reason and carries the final usage, although finalizers
\* build it from a record they loaded in an earlier store operation.
TerminalEventAgrees ==
    \A i \in DOMAIN outbox.pending :
        LET e == outbox.pending[i] IN
        IsTerminal(e) => /\ i = Len(outbox.pending)
                         /\ e.type = life.state
                         /\ e.reason = life.closeReason
                         /\ e.usage = meter.usageTotal

\* While a stop is pending, usage is frozen and the only event that can still
\* be appended is the terminal one, with the state and reason recorded by the
\* first beginTerminalV1: later terminations and failures cannot change them.
FirstReasonWins ==
    [][life.stopping =>
         /\ meter' = meter
         /\ IF outbox'.lastSequence = outbox.lastSequence
            THEN life' = life
            ELSE /\ outbox'.lastSequence = outbox.lastSequence + 1
                 /\ life'.state = life.pendingTerminal
                 /\ life'.closeReason = life.pendingReason]_vars

\* A terminal record never changes state, reason, usage or event sequence
\* again, so the session emits exactly one terminal event.
TerminalIsFinal ==
    [][life.state \in TerminalStates =>
         /\ life' = life
         /\ meter' = meter
         /\ outbox'.lastSequence = outbox.lastSequence]_vars

\* A key that RecordKeyIssue has superseded is never readable again, and the
\* current key does not change while its activation is pending.
KeyRotationOrdered ==
    [][/\ \A id \in keys.issued \ keys.readable : id \notin keys'.readable
       /\ keys.pendingActivation # None /\ keys'.sealed =>
            keys'.current = keys.current]_vars
=============================================================================
