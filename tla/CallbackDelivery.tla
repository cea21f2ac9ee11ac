-------------------------- MODULE CallbackDelivery --------------------------
(***************************************************************************)
(* The callback worker of the live runner (callback.go) between the event   *)
(* outboxes of its sessions and the broker.                                 *)
(*                                                                          *)
(* Events leave an outbox from its head only, so the outbox of s is the     *)
(* interval done[s]+1 .. emitted[s].  LiveSessionStore has the records and  *)
(* their cursors in full.  A POST may be lost, answered late or processed   *)
(* by the broker after the runner has given up on it or has died.           *)
(***************************************************************************)
EXTENDS Integers

CONSTANTS
    Sessions,
    Healthy,    \* sessions whose broker answers if it is asked often enough
    MaxEvents,  \* bound on the events of each session, the terminal one included
    MaxCrashes  \* bound on the ends of the runner, crashes or a worker's error

ASSUME DeliveryAssumption ==
    /\ Sessions # {} /\ Healthy \subseteq Sessions
    /\ MaxEvents \in [Sessions -> Nat]
    /\ MaxCrashes \in Nat

VARIABLES
    emitted,  \* sequence of the last event
    state,    \* "active" or "terminal"
    done,     \* events acknowledged or parked
    cursor,   \* CallbackDelivery: no attempt, one whose retry is not due, or due
    sealed,   \* the record still has its secrets
    parked,   \* events in the dead-letter audit
    taken,    \* events the broker has processed
    posts,    \* events in requests that the broker may still process
    worker,   \* SweepOnce and DeliverNext
    crashes

deliveryVars == <<emitted, state, done, cursor, sealed, parked, taken, posts, worker, crashes>>
records == <<emitted, state, done, cursor, sealed, parked>>

Idle == [pc |-> "idle", todo |-> {}, snap |-> [s \in Sessions |-> 0],
         at |-> CHOOSE s \in Sessions : TRUE, event |-> 0]

DeliveryInit ==
    /\ emitted = [s \in Sessions |-> 0]
    /\ state = [s \in Sessions |-> "active"]
    /\ done = [s \in Sessions |-> 0]
    /\ cursor = [s \in Sessions |-> "none"]
    /\ sealed = [s \in Sessions |-> TRUE]
    /\ parked = [s \in Sessions |-> {}]
    /\ taken = [s \in Sessions |-> {}]
    /\ posts = [s \in Sessions |-> {}]
    /\ worker = Idle
    /\ crashes = 0

Pending(s) == emitted[s] - done[s]

-----------------------------------------------------------------------------
(* The session's own goroutines append events; the last is the terminal one. *)

Emit(s) ==
    /\ state[s] = "active"
    /\ emitted[s] < MaxEvents[s]
    /\ emitted' = [emitted EXCEPT ![s] = @ + 1]
    /\ state' \in {state, [state EXCEPT ![s] = "terminal"]}
    /\ UNCHANGED <<done, cursor, sealed, parked, taken, posts, worker, crashes>>

\* The retry delay of the last attempt passes.
Elapse(s) ==
    /\ cursor[s] = "waiting"
    /\ cursor' = [cursor EXCEPT ![s] = "due"]
    /\ UNCHANGED <<emitted, state, done, sealed, parked, taken, posts, worker, crashes>>

-----------------------------------------------------------------------------
(* SweepOnce.                                                                *)

\* Mutant: only sessions with undelivered events are visited.
Recoverable_pendingOnly(s) == Pending(s) > 0

Recoverable(s) == state[s] = "active" \/ Pending(s) > 0 \/ sealed[s]

Sweep ==
    /\ worker.pc = "idle"
    /\ worker' = [worker EXCEPT !.pc = "next",
                                !.todo = {s \in Sessions : Recoverable(s)},
                                !.snap = [s \in Sessions |-> Pending(s)]]
    /\ UNCHANGED <<records, taken, posts, crashes>>

NextSession(s) ==
    /\ worker.pc = "next"
    /\ s \in worker.todo
    /\ worker' = [worker EXCEPT !.pc = "deliver", !.at = s, !.todo = @ \ {s}]
    /\ UNCHANGED <<records, taken, posts, crashes>>

SweepDone ==
    /\ worker.pc = "next"
    /\ worker.todo = {}
    /\ worker' = Idle
    /\ UNCHANGED <<records, taken, posts, crashes>>

\* One iteration per event of the snapshot, until nothing is pending or due.
CanDeliver ==
    /\ worker.snap[worker.at] > 0
    /\ Pending(worker.at) > 0
    /\ cursor[worker.at] # "waiting"

Drained ==
    /\ worker.pc = "deliver"
    /\ ~CanDeliver
    /\ worker' = [worker EXCEPT !.pc = "clear"]
    /\ UNCHANGED <<records, taken, posts, crashes>>

\* Mutant: the outbox is not looked at.
Clear_early ==
    /\ worker.pc = "clear"
    /\ sealed' = IF state[worker.at] = "terminal"
                 THEN [sealed EXCEPT ![worker.at] = FALSE] ELSE sealed
    /\ worker' = [worker EXCEPT !.pc = "next", !.snap[worker.at] = 0, !.at = Idle.at]
    /\ UNCHANGED <<emitted, state, done, cursor, parked, taken, posts, crashes>>

\* The secrets of a terminal session go once its outbox is empty.
Clear ==
    /\ worker.pc = "clear"
    /\ sealed' = IF state[worker.at] = "terminal" /\ Pending(worker.at) = 0
                 THEN [sealed EXCEPT ![worker.at] = FALSE] ELSE sealed
    /\ worker' = [worker EXCEPT !.pc = "next", !.snap[worker.at] = 0, !.at = Idle.at]
    /\ UNCHANGED <<emitted, state, done, cursor, parked, taken, posts, crashes>>

-----------------------------------------------------------------------------
(* DeliverNext.                                                              *)

\* The attempt is recorded before the request is sent.
ReserveCallbackAttempt ==
    /\ worker.pc = "deliver"
    /\ CanDeliver
    /\ sealed[worker.at]
    /\ cursor' = [cursor EXCEPT ![worker.at] = "waiting"]
    /\ worker' = [worker EXCEPT !.pc = "post", !.event = done[worker.at] + 1]
    /\ UNCHANGED <<emitted, state, done, sealed, parked, taken, posts, crashes>>

Post ==
    /\ worker.pc = "post"
    /\ posts' = [posts EXCEPT ![worker.at] = @ \cup {worker.event}]
    /\ worker' = [worker EXCEPT !.pc = "await"]
    /\ UNCHANGED <<records, taken, crashes>>

\* The broker processes the request and its 2xx arrives.
Accepted ==
    /\ worker.pc = "await"
    /\ worker.event \in posts[worker.at]
    /\ taken' = [taken EXCEPT ![worker.at] = @ \cup {worker.event}]
    /\ posts' = [posts EXCEPT ![worker.at] = @ \ {worker.event}]
    /\ worker' = [worker EXCEPT !.pc = "ack"]
    /\ UNCHANGED <<records, crashes>>

\* Neither 2xx nor retryable.  A status outside 100..599 is permanent too, but no
\* dead letter can hold it; the end of the runner it leads to is counted here.
Rejected ==
    /\ worker.pc = "await"
    /\ worker.event \in posts[worker.at]
    /\ posts' = [posts EXCEPT ![worker.at] = @ \ {worker.event}]
    /\ \/ /\ worker' = [worker EXCEPT !.pc = "park"]
          /\ UNCHANGED crashes
       \/ /\ crashes < MaxCrashes
          /\ worker' = [worker EXCEPT !.pc = "misfit"]
          /\ crashes' = crashes + 1
    /\ UNCHANGED <<records, taken>>

\* A transport error, a timeout, 408, 429 or 5xx: the request may be under way.
Unanswered ==
    /\ worker.pc = "await"
    /\ worker' = [worker EXCEPT !.pc = "retry"]
    /\ UNCHANGED <<records, taken, posts, crashes>>

\* The head leaves the outbox and its cursor is cleared.
Advance(pc) ==
    /\ done' = [done EXCEPT ![worker.at] = worker.event]
    /\ cursor' = [cursor EXCEPT ![worker.at] = "none"]
    /\ worker' = [worker EXCEPT !.pc = pc, !.event = 0,
                                !.snap[worker.at] = @ - 1]

AcknowledgeEvent ==
    /\ worker.pc = "ack"
    /\ Advance("deliver")
    /\ UNCHANGED <<emitted, state, sealed, parked, taken, posts, crashes>>

\* A refusal by validCallbackFailureV1 is no delivery error: SweepOnce returns it,
\* Run ends, the runner shuts down and is started again; the head stays.
ParkCallbackRejection ==
    \/ /\ worker.pc = "park"
       /\ Advance("deliver")
       /\ parked' = [parked EXCEPT ![worker.at] = @ \cup {worker.event}]
       /\ UNCHANGED <<emitted, state, sealed, taken, posts, crashes>>
    \/ /\ worker.pc = "misfit"
       /\ worker' = Idle
       /\ UNCHANGED <<records, taken, posts, crashes>>

\* Mutants: a failure that is retryable skips the event, or ends the sweep.
RecordCallbackRetryFailure_skips ==
    /\ worker.pc = "retry"
    /\ Advance("clear")
    /\ UNCHANGED <<emitted, state, sealed, parked, taken, posts, crashes>>

RecordCallbackRetryFailure_endsSweep ==
    /\ worker.pc = "retry"
    /\ worker' = Idle
    /\ UNCHANGED <<records, taken, posts, crashes>>

\* The head stays, and the sweep goes on with the next session.
RecordCallbackRetryFailure ==
    /\ worker.pc = "retry"
    /\ worker' = [worker EXCEPT !.pc = "clear", !.event = 0]
    /\ UNCHANGED <<records, taken, posts, crashes>>

-----------------------------------------------------------------------------
(* The network and the process.                                              *)

\* The broker processes a request whose answer nobody receives.  One that is
\* lost stays in posts and this never happens to it.
TakenLate(s, e) ==
    /\ taken' = [taken EXCEPT ![s] = @ \cup {e}]
    /\ posts' = [posts EXCEPT ![s] = @ \ {e}]
    /\ UNCHANGED <<records, worker, crashes>>

RunnerCrash ==
    /\ crashes < MaxCrashes
    /\ crashes' = crashes + 1
    /\ worker' = Idle
    /\ UNCHANGED <<records, taken, posts>>

WorkerStep ==
    \/ Sweep
    \/ \E s \in Sessions : NextSession(s)
    \/ SweepDone
    \/ Drained
    \/ Clear
    \/ ReserveCallbackAttempt
    \/ Post
    \/ Accepted
    \/ Rejected
    \/ Unanswered
    \/ AcknowledgeEvent
    \/ ParkCallbackRejection
    \/ RecordCallbackRetryFailure

DeliveryNext ==
    \/ \E s \in Sessions : Emit(s) \/ Elapse(s)
    \/ WorkerStep
    \/ \E s \in Sessions : \E e \in posts[s] : TakenLate(s, e)
    \/ RunnerCrash

DeliverySpec == DeliveryInit /\ [][DeliveryNext]_deliveryVars

\* Run sweeps for ever and time passes; the client's timeout ends every wait.  A
\* healthy session's broker answers one of infinitely many requests.
FairSpec ==
    /\ DeliverySpec
    /\ WF_deliveryVars(WorkerStep)
    /\ \A s \in Sessions : WF_deliveryVars(Elapse(s))
    /\ \A s \in Healthy : SF_deliveryVars(worker.at = s /\ (Accepted \/ Rejected))

-----------------------------------------------------------------------------
(* Properties.                                                               *)

Pcs == {"idle", "next", "deliver", "post", "await", "ack", "park", "misfit", "retry", "clear"}

\* The variables keep their types.
DeliveryTypeOK ==
    /\ emitted \in [Sessions -> Nat] /\ done \in [Sessions -> Nat]
    /\ state \in [Sessions -> {"active", "terminal"}]
    /\ cursor \in [Sessions -> {"none", "waiting", "due"}]
    /\ sealed \in [Sessions -> BOOLEAN]
    /\ parked \in [Sessions -> SUBSET Nat] /\ taken \in [Sessions -> SUBSET Nat]
    /\ posts \in [Sessions -> SUBSET Nat]
    /\ worker \in [pc : Pcs, todo : SUBSET Sessions, snap : [Sessions -> Nat],
                   at : Sessions, event : Nat]
    /\ crashes \in Nat

\* What AcknowledgeEvent, ParkCallbackRejection and RecordCallbackRetryFailure ask
\* of the record holds whenever DeliverNext calls them, through lost answers and
\* restarts: the event is still the head of the outbox, its attempt is recorded,
\* and an undelivered event has its credentials.  So no record makes the store
\* refuse, which would end the worker and the runner; only an answer can, whose
\* status the store does not record.
HeadReserved ==
    /\ worker.pc \in {"post", "await", "ack", "park", "misfit", "retry"} =>
         /\ worker.event = done[worker.at] + 1
         /\ worker.event <= emitted[worker.at]
         /\ cursor[worker.at] # "none"
    /\ \A s \in Sessions : Pending(s) > 0 => sealed[s]

\* "Callbacks are delivered from the durable outbox in sequence order": through
\* lost answers, late requests and restarts the broker sees a session's events
\* in order, except those it refused for good.
Delivery == INSTANCE OrderedDelivery
ImplementsDelivery == Delivery!Spec

\* A session whose broker never answers does not keep another one's events from
\* their broker, given that only finitely many answers end the runner.
NoStarvation ==
    \A s \in Healthy : \A e \in 1..MaxEvents[s] : emitted[s] >= e ~> done[s] >= e

\* "erases a terminal session's encrypted credentials only after every final
\* event has been durably acknowledged or parked", and does erase them, whatever
\* the crash between the last acknowledgement and the erasure.
CredentialsErased ==
    \A s \in Healthy : state[s] = "terminal" ~> ~sealed[s]
=============================================================================
