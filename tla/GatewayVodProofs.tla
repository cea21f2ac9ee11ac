-------------------------- MODULE GatewayVodProofs --------------------------
(***************************************************************************)
(* That an asset is paid for once, that what LOC and the broker hold can be *)
(* found again, and that LOC settles what the broker ends with, for any     *)
(* number of submits, any tiers that share a rendition and any faults.      *)
(*                                                                          *)
(* None of the three is inductive.  The rendition every tier shares is the  *)
(* lock: the one task that inserted its row (Has) is the only one that may  *)
(* come to have an operation.  The rest says what the place a task is at    *)
(* lets it rely on (TaskOK), for the submit's own task and the recovery.    *)
(*                                                                          *)
(* A fourth result is that the terminal transaction leaves an asset whole   *)
(* or untouched.  It rests on the three: the broker's result was validated  *)
(* before the transaction is reached (Validated) and cannot change any more *)
(* (Fixed).                                                                 *)
(***************************************************************************)
EXTENDS GatewayVod, TLAPS

\* A rendition of every tier.
Common == CHOOSE r \in Resolutions : \A s \in Submits : r \in Names(s)

Executing == {"open", "post", "stream", "exchange", "poll", "settle", "zero",
              "progress", "retry", "terminal"}
Opened == {"post", "stream", "exchange", "poll", "settle", "zero", "terminal"}
Settled == {"settled", "refused"}

\* Variables are functions to records with the fields the actions write.
TaskShape ==
    /\ task = [t \in Tasks |-> task[t]]
    /\ \A t \in Tasks : DOMAIN task[t] = {"pc", "sub", "rows", "verify", "result"}
RowShape ==
    /\ rend = [r \in Resolutions |-> rend[r]]
    /\ op = [s \in Submits |-> op[s]]
    /\ loc = [s \in Submits |-> loc[s]]
    /\ broker = [s \in Submits |-> broker[s]]
    /\ \A s \in Submits :
          /\ DOMAIN op[s] = {"status", "fresh", "due", "secrets", "terminal", "claimed"}
          /\ DOMAIN loc[s] = {"at", "estimated", "actual"}
          /\ DOMAIN broker[s] = {"at", "units", "body"}

\* What a task may rely on where it is.
TaskOK(t) ==
    LET s == task[t].sub
        pc == task[t].pc
    IN /\ pc \notin {"idle", "over"} => s \in Submits /\ (t \in Submits => s = t)
       /\ pc \in {"job", "operation"} /\ t \in Submits => task[t].rows = Names(t)
       /\ pc \in Executing \union {"read"} => op[s].status # None
       /\ pc \in Opened => loc[s].at # None
       /\ pc = "settle" => broker[s].at \in Settled
       /\ pc = "zero" => broker[s].at = "refused"
       /\ pc = "terminal" => loc[s].at = "settled"
       /\ pc \in {"progress", "retry"} => task[t].result # None

\* How the records of one request id agree.
RecordsOK(s) ==
    /\ loc[s].at \in {None, "open", "settled"}
    /\ loc[s].at # None => op[s].status # None
    /\ broker[s].at # None => loc[s].at # None
    /\ op[s].status # None => op[s].secrets \/ op[s].terminal
    /\ op[s].terminal => loc[s].at = "settled"
    /\ loc[s].at = "settled" =>
          broker[s].at \in Settled /\ loc[s].actual = broker[s].units

\* The submit has inserted the row of the common rendition, or gone beyond.
Has(s) == Common \in task[s].rows \/ op[s].status # None

Reserved ==
    /\ \A s \in Submits : Has(s) => rend[Common] # None
    /\ \A s, u \in Submits : Has(s) /\ Has(u) => s = u

IInv ==
    /\ TaskShape /\ RowShape
    /\ \A t \in Tasks : TaskOK(t)
    /\ \A s \in Submits : RecordsOK(s)
    /\ Reserved

-----------------------------------------------------------------------------
\* Where a task goes: on, with what it knows, or to its end.
Moves(t, pc, result) ==
    /\ TaskShape'
    /\ \A u \in Tasks \ {t} : task'[u] = task[u]
    /\ task'[t].pc = pc /\ task'[t].sub = task[t].sub
    /\ task'[t].rows = task[t].rows /\ task'[t].result = result
Stops(t) ==
    /\ TaskShape'
    /\ \A u \in Tasks \ {t} : task'[u] = task[u]
    /\ task'[t].pc \in {"idle", "over"} /\ task'[t].rows = {}

\* What was recorded stays recorded.
Grow ==
    \A s \in Submits :
       /\ op[s].status # None => op'[s].status # None
       /\ loc[s].at # None => loc'[s].at # None
       /\ loc[s].at = "settled" => loc'[s].at = "settled"
       /\ broker[s].at \in Settled => broker'[s].at = broker[s].at

\* The tiers share a rendition (PRESETS).
LEMMA CommonRow == Common \in Resolutions /\ \A s \in Submits : Common \in Names(s)
  BY VodAssumption DEF Common

\* Going on to a next place moves only the task.
LEMMA GoesMoves ==
  ASSUME TaskShape, NEW t \in Tasks, NEW pc, Goes(t, pc)
  PROVE  Moves(t, pc, task[t].result)
  BY DEF Goes, Moves, TaskShape

\* So does starting to wait for an answer,
LEMMA AwaitsMoves ==
  ASSUME TaskShape, NEW t \in Tasks, NEW pc, NEW v, Awaits(t, pc, v)
  PROVE  Moves(t, pc, task[t].result)
  BY DEF Awaits, Moves, TaskShape

\* and giving up on one.
LEMMA UnresolvedMoves ==
  ASSUME TaskShape, NEW t \in Tasks, NEW kind, Unresolved(t, kind)
  PROVE  Moves(t, "progress", kind)
  BY ZenonT(30) DEF Unresolved, Moves, TaskShape

\* A task that ends stops.
LEMMA EndsStops == ASSUME TaskShape, NEW t \in Tasks, Ends(t) PROVE Stops(t)
<1> DEFINE end == [Start EXCEPT !.pc = IF t = Rec THEN "idle" ELSE "over"]
<1>1. /\ end.pc \in {"idle", "over"} /\ end.rows = {}
      /\ DOMAIN end = {"pc", "sub", "rows", "verify", "result"}
  BY DEF Start
<1>2. task' = [task EXCEPT ![t] = end]
  BY DEF Ends
<1> HIDE DEF end
<1> QED
  BY <1>1, <1>2 DEF Stops, TaskShape

\* So does one that throws.
LEMMA ThrowsStops ==
  ASSUME TaskShape, NEW t \in Tasks, Throws(t)
  PROVE  Stops(t) \/ Moves(t, "retry", "failed")
<1>1. CASE t = Rec
  <2>1. task' = [task EXCEPT ![t].pc = "retry", ![t].result = "failed"]
    BY <1>1 DEF Throws
  <2>2. Moves(t, "retry", "failed")
    BY ZenonT(30), <2>1 DEF Moves, TaskShape
  <2> QED
    BY <2>2
<1>2. CASE t # Rec
  BY <1>2, EndsStops DEF Throws
<1> QED
  BY <1>1, <1>2

\* A task that stands still keeps what it relies on.
LEMMA OthersKeep ==
  ASSUME IInv, Grow, NEW t \in Tasks, task'[t] = task[t] PROVE TaskOK(t)'
  BY DEF IInv, Grow, TaskOK, Executing, Opened, Settled, None

\* A task that has ended relies on nothing.
LEMMA StoppedOK == ASSUME NEW t \in Tasks, Stops(t) PROVE TaskOK(t)'
  BY DEF Stops, TaskOK, Executing, Opened

\* A step of task t that inserts neither a rendition nor an operation.
LEMMA StepKeeps ==
  ASSUME IInv, NEW t \in Tasks, TaskShape', RowShape', Grow,
         \A u \in Tasks \ {t} : task'[u] = task[u],
         TaskOK(t)', \A s \in Submits : RecordsOK(s)',
         t \in Submits => (Common \in task'[t].rows => Common \in task[t].rows),
         \A s \in Submits : op'[s].status # None => op[s].status # None,
         rend[Common] # None => rend'[Common] # None
  PROVE  IInv'
<1>1. \A u \in Tasks : TaskOK(u)'
  BY OthersKeep
<1>2. \A s \in Submits : Has(s)' => Has(s)
  BY DEF Has, Tasks
<1>3. Reserved'
  BY <1>2 DEF IInv, Reserved
<1> QED
  BY <1>1, <1>3 DEF IInv

\* Before the first upload the invariant holds.
LEMMA InitIInv == Init => IInv
  BY DEF Init, IInv, TaskShape, RowShape, TaskOK, RecordsOK, Reserved, Has, Start,
         Executing, Opened, Settled, None, Tasks

-----------------------------------------------------------------------------
(* The steps of paidJobClient.execute.                                       *)

\* A call that changes neither an operation nor a rendition.
LEMMA CallKeeps ==
  ASSUME IInv, NEW t \in Tasks, UNCHANGED <<op, rend>>, RowShape', Grow,
         \A s \in Submits : RecordsOK(s)',
         \/ Stops(t)
         \/ \E pc, result : Moves(t, pc, result) /\ TaskOK(t)'
  PROVE  IInv'
<1>1. /\ TaskShape' /\ \A u \in Tasks \ {t} : task'[u] = task[u]
      /\ Common \in task'[t].rows => Common \in task[t].rows
  BY DEF Stops, Moves
<1>2. TaskOK(t)'
  BY StoppedOK
<1> QED
  BY <1>1, <1>2, StepKeeps

\* The submit a task works for.
LEMMA Sub ==
  ASSUME IInv, NEW t \in Tasks, task[t].pc \notin {"idle", "over"}
  PROVE  task[t].sub \in Submits /\ (t \in Submits => task[t].sub = t)
  BY DEF IInv, TaskOK

\* A call that throws changes at most what it called.
LEMMA ThrowKeeps ==
  ASSUME IInv, NEW t \in Tasks, task[t].pc \in Executing, Throws(t),
         UNCHANGED <<op, rend>>, RowShape', Grow,
         \A s \in Submits : RecordsOK(s)'
  PROVE  IInv'
<1>1. ASSUME Moves(t, "retry", "failed") PROVE TaskOK(t)'
  BY <1>1 DEF Moves, TaskOK, IInv, Executing, Opened, None, Grow
<1> QED
  BY ZenonT(60), <1>1, ThrowsStops, CallKeeps DEF IInv

\* A call that only moves its task.
LEMMA MoveKeeps ==
  ASSUME IInv, NEW t \in Tasks, UNCHANGED <<op, rend, loc, broker>>,
         NEW pc, NEW result, Moves(t, pc, result), TaskOK(t)'
  PROVE  IInv'
<1>1. RowShape' /\ \A s \in Submits : RecordsOK(s)'
  BY DEF IInv, RowShape, RecordsOK
<1>2. Grow
  BY DEF Grow
<1> QED
  BY <1>1, <1>2, CallKeeps

\* Opening the job at LOC.
LEMMA OpenStep == ASSUME IInv, NEW t \in Tasks, openJob(t) PROVE IInv'
<1> DEFINE s == task[t].sub
<1> USE DEF None
<1>1. s \in Submits /\ (t \in Submits => s = t) /\ op[s].status # None
  BY SMTT(30), Sub DEF openJob, IInv, TaskOK, Executing
<1>2. PICK a \in Answers(OpenFields) :
         /\ LocOpens(s, EstimateSent(t)) \/ (a = {} /\ UNCHANGED loc)
         /\ IF LocReplays(s, EstimateSent(t)) /\ mapJobOpen(a)
            THEN Goes(t, "post") ELSE Throws(t)
  BY SMTT(30) DEF openJob
<1>3. UNCHANGED <<op, rend, broker>> /\ task[t].pc = "open"
  BY ZenonT(60) DEF openJob, product
<1> DEFINE n == EstimateSent(t)
<1> HIDE DEF n
<1>4. /\ RowShape'
      /\ \A u \in Submits : \/ loc'[u] = loc[u]
                            \/ u = s /\ loc[u].at = None /\ loc'[u].at = "open"
      /\ LocOpens(s, n) => loc'[s].at # None
  <2>1. \/ loc[s].at = None /\ loc' = [loc EXCEPT ![s].at = "open", ![s].estimated = n]
        \/ UNCHANGED loc /\ (LocOpens(s, n) => loc[s].at # None)
    <3>1. LocOpens(s, n) \/ (UNCHANGED loc /\ ~LocOpens(s, n))
      BY ZenonT(60), <1>2 DEF n
    <3> QED
      BY ZenonT(60), <3>1 DEF LocOpens
  <2>2. RowShape
    BY DEF IInv
  <2>3. CASE loc[s].at = None /\ loc' = [loc EXCEPT ![s].at = "open", ![s].estimated = n]
    <3>1. RowShape'
      BY ZenonT(60), <1>1, <1>3, <2>2, <2>3 DEF RowShape
    <3>2. loc'[s].at = "open" /\ \A u \in Submits \ {s} : loc'[u] = loc[u]
      BY ZenonT(60), <1>1, <2>2, <2>3 DEF RowShape
    <3> QED
      BY ZenonT(60), <2>3, <3>1, <3>2
  <2>4. CASE UNCHANGED loc /\ (LocOpens(s, n) => loc[s].at # None)
    <3>1. RowShape'
      BY SMTT(60), ZenonT(60), <1>3, <2>2, <2>4 DEF RowShape
    <3> QED
      BY ZenonT(60), <2>4, <3>1
  <2> QED
    BY ZenonT(60), <2>1, <2>3, <2>4
<1>5. Grow
  BY <1>3, <1>4 DEF Grow
<1>6. \A u \in Submits : RecordsOK(u)'
  BY <1>1, <1>3, <1>4 DEF IInv, RecordsOK
<1>7. CASE Throws(t)
  BY <1>3, <1>4, <1>5, <1>6, <1>7, ThrowKeeps DEF Executing
<1>8. CASE Goes(t, "post") /\ mapJobOpen(a)
  <2>1. Moves(t, "post", task[t].result)
    BY <1>8, GoesMoves DEF IInv
  <2>2. loc'[s].at # None
    BY <1>2, <1>4, <1>8 DEF mapJobOpen, n
  <2>3. TaskOK(t)'
    BY <1>1, <1>3, <2>1, <2>2 DEF Moves, TaskOK, Executing, Opened
  <2> QED
    BY <1>3, <1>4, <1>5, <1>6, <2>1, <2>3, CallKeeps
<1> QED
  BY ZenonT(60), <1>2, <1>7, <1>8

\* Posting the job to the broker.
LEMMA PostStep == ASSUME IInv, NEW t \in Tasks, postJob(t) PROVE IInv'
<1> DEFINE s == task[t].sub
<1> USE DEF None
<1>1. /\ s \in Submits /\ (t \in Submits => s = t)
      /\ op[s].status # None /\ loc[s].at # None
  BY ZenonT(30), Sub DEF postJob, IInv, TaskOK, Executing, Opened
<1>2. UNCHANGED <<op, rend, loc>> /\ task[t].pc = "post"
  BY SMTT(30) DEF postJob, product
<1>3. /\ RowShape'
      /\ \A u \in Submits : \/ broker'[u] = broker[u]
                            \/ u = s /\ broker[u].at = None /\ loc'[u] = loc[u]
  BY ZenonT(30), <1>1, <1>2 DEF postJob, IInv, RowShape
<1>4. Grow
  BY <1>2, <1>3 DEF Grow, Settled
<1>5. \A u \in Submits : RecordsOK(u)'
  BY <1>1, <1>2, <1>3 DEF IInv, RecordsOK, Settled
<1>6. \/ Throws(t)
      \/ \E pc \in {"stream", "exchange"}, v \in BOOLEAN : Awaits(t, pc, v)
      \/ Awaits(t, "zero", FALSE) /\ broker'[s].at = "refused"
      \/ Awaits(t, "settle", TRUE) /\ broker'[s].at = "settled"
  BY ZenonT(30), <1>1 DEF postJob, IInv, RowShape
<1>7. CASE Throws(t)
  BY <1>2, <1>3, <1>4, <1>5, <1>7, ThrowKeeps DEF Executing
<1>8. ASSUME NEW pc \in {"stream", "exchange", "zero", "settle"}, NEW v, Awaits(t, pc, v),
             pc = "zero" => broker'[s].at = "refused",
             pc = "settle" => broker'[s].at = "settled"
      PROVE  IInv'
  <2>1. Moves(t, pc, task[t].result)
    BY <1>8, AwaitsMoves DEF IInv
  <2>2. TaskOK(t)'
    BY <1>1, <1>2, <1>8, <2>1 DEF Moves, TaskOK, Executing, Opened, Settled
  <2> QED
    BY <1>2, <1>3, <1>4, <1>5, <2>1, <2>2, CallKeeps
<1> QED
  BY ZenonT(30), <1>6, <1>7, <1>8

\* Reading a stream, an exchange or a poll decides only where the task goes.
LEMMA ReadStep ==
  ASSUME IInv, NEW t \in Tasks, streamEnds(t) \/ recoverExchange(t) \/ pollSettlement(t)
  PROVE  IInv'
<1> DEFINE s == task[t].sub
<1> USE DEF None
<1>1. /\ s \in Submits /\ (t \in Submits => s = t)
      /\ op[s].status # None /\ loc[s].at # None
      /\ task[t].pc \in {"stream", "exchange", "poll"}
      /\ UNCHANGED <<op, rend, loc, broker>>
  BY ZenonT(30), Sub DEF streamEnds, recoverExchange, pollSettlement, IInv, TaskOK, Executing,
     Opened, product
<1>2. \/ Throws(t) \/ Unresolved(t, "unresolved")
      \/ \E pc \in {"exchange", "poll", "settle"} :
            /\ Goes(t, pc) \/ \E v \in BOOLEAN : Awaits(t, pc, v)
            /\ pc = "settle" => broker[s].at \in Settled
  BY ZenonT(30) DEF streamEnds, recoverExchange, pollSettlement, Settled
<1>3. CASE Throws(t)
  <2>1. RowShape' /\ Grow /\ \A u \in Submits : RecordsOK(u)'
    BY <1>1 DEF IInv, RowShape, RecordsOK, Grow
  <2> QED
    BY <1>1, <1>3, <2>1, ThrowKeeps DEF Executing
<1>4. CASE Unresolved(t, "unresolved")
  <2>1. Moves(t, "progress", "unresolved")
    BY <1>4, UnresolvedMoves DEF IInv
  <2>2. TaskOK(t)'
    BY <1>1, <2>1 DEF Moves, TaskOK, Executing, Opened
  <2> QED
    BY <1>1, <2>1, <2>2, MoveKeeps
<1>5. ASSUME NEW pc \in {"exchange", "poll", "settle"},
             Goes(t, pc) \/ \E v \in BOOLEAN : Awaits(t, pc, v),
             pc = "settle" => broker[s].at \in Settled
      PROVE  IInv'
  <2>1. Moves(t, pc, task[t].result)
    BY ZenonT(60), <1>5, GoesMoves, AwaitsMoves DEF IInv
  <2>2. TaskOK(t)'
    BY <1>1, <1>5, <2>1 DEF Moves, TaskOK, Executing, Opened
  <2> QED
    BY <1>1, <2>1, <2>2, MoveKeeps
<1> QED
  BY <1>2, <1>3, <1>4, <1>5

\* What LOC is told is what the broker holds, and it holds it for good.
LEMMA LocSettlesOK ==
  ASSUME IInv, NEW s \in Submits,
         loc[s].at # None, broker[s].at \in Settled,
         UNCHANGED <<op, rend, broker>>, LocSettles(s) \/ UNCHANGED loc
  PROVE  /\ RowShape' /\ Grow /\ \A u \in Submits : RecordsOK(u)'
         /\ LocSettles(s) => loc'[s].at = "settled"
<1> USE DEF None
<1>1. /\ RowShape'
      /\ \A u \in Submits :
            \/ loc'[u] = loc[u]
            \/ /\ u = s /\ loc[u].at = "open" /\ loc'[u].at = "settled"
               /\ loc'[u].actual = broker[u].units
      /\ LocSettles(s) => loc'[s].at = "settled"
  <2>1. CASE UNCHANGED loc
    <3>1. RowShape'
      BY <2>1 DEF IInv, RowShape
    <3> QED
      BY <2>1, <3>1 DEF LocSettles, IInv, RecordsOK, RowShape
  <2>2. CASE /\ loc[s].at = "open"
             /\ loc' = [loc EXCEPT ![s].at = "settled", ![s].actual = broker[s].units]
    <3>1. RowShape'
      BY <2>2 DEF IInv, RowShape
    <3> QED
      BY <2>2, <3>1 DEF IInv, RowShape
  <2> QED
    BY <2>1, <2>2 DEF LocSettles
<1> QED
  BY <1>1 DEF IInv, Grow, RecordsOK

\* Settling the signed units.
LEMMA SettleStep == ASSUME IInv, NEW t \in Tasks, settle(t) PROVE IInv'
<1> DEFINE s == task[t].sub
<1> USE DEF None
<1>1. /\ s \in Submits /\ (t \in Submits => s = t) /\ op[s].status # None
      /\ loc[s].at # None /\ broker[s].at \in Settled
      /\ task[t].pc = "settle" /\ UNCHANGED <<op, rend, broker>>
  BY Sub DEF settle, IInv, TaskOK, Executing, Opened, product
<1>2. PICK claim \in Answers(ClaimFields), a \in Answers(SettleFields) :
         IF validateSettlement(claim) /\ (task[t].verify => validateAbrTerminal(s))
         THEN /\ LocSettles(s) \/ (a = {} /\ UNCHANGED loc)
              /\ CASE ~mapJobSettlement(a) -> Throws(t)
                   [] mapJobSettlement(a) /\ task[t].verify -> Goes(t, "terminal")
                   [] mapJobSettlement(a) /\ ~task[t].verify -> Unresolved(t, "settled")
         ELSE Throws(t) /\ UNCHANGED loc
  BY ZenonT(30) DEF settle
<1> DEFINE valid == validateSettlement(claim) /\ (task[t].verify => validateAbrTerminal(s))
<1> HIDE DEF valid
<1>4. mapJobSettlement(a) => a # {}
  BY DEF mapJobSettlement, SettleFields
<1>5. /\ RowShape' /\ Grow /\ \A u \in Submits : RecordsOK(u)'
      /\ valid /\ LocSettles(s) => loc'[s].at = "settled"
  <2>1. CASE valid
    <3>1. LocSettles(s) \/ UNCHANGED loc
      BY ZenonT(30), <1>2, <2>1 DEF valid
    <3> QED
      BY <1>1, <2>1, <3>1, LocSettlesOK
  <2>2. CASE ~valid
    <3>1. UNCHANGED loc
      BY ZenonT(30), <1>2, <2>2 DEF valid
    <3> QED
      BY <1>1, <2>2, <3>1 DEF IInv, RowShape, RecordsOK, Grow
  <2> QED
    BY <2>1, <2>2
<1>6. \/ Throws(t)
      \/ Goes(t, "terminal") /\ valid /\ LocSettles(s)
      \/ Unresolved(t, "settled")
  <2>1. CASE ~valid
    BY ZenonT(30), <1>2, <2>1 DEF valid
  <2>2. CASE valid /\ ~mapJobSettlement(a)
    BY ZenonT(30), <1>2, <2>2 DEF valid
  <2>3. CASE valid /\ mapJobSettlement(a)
    BY ZenonT(30), <1>2, <1>4, <2>3 DEF valid
  <2> QED
    BY <2>1, <2>2, <2>3
<1>7. CASE Throws(t)
  BY <1>1, <1>5, <1>7, ThrowKeeps DEF Executing
<1>8. CASE Goes(t, "terminal") /\ valid /\ LocSettles(s)
  <2>1. Moves(t, "terminal", task[t].result) /\ loc'[s].at = "settled"
    BY ZenonT(60), <1>5, <1>8, GoesMoves DEF IInv
  <2>2. TaskOK(t)'
    BY ZenonT(60), <1>1, <2>1 DEF Moves, TaskOK, Executing, Opened
  <2> QED
    BY ZenonT(60), <1>1, <1>5, <2>1, <2>2, CallKeeps
<1>9. CASE Unresolved(t, "settled")
  <2>1. Moves(t, "progress", "settled")
    BY <1>9, UnresolvedMoves DEF IInv
  <2>2. TaskOK(t)'
    BY <1>1, <2>1 DEF Moves, TaskOK, Executing, Opened
  <2> QED
    BY <1>1, <1>5, <2>1, <2>2, CallKeeps
<1> QED
  BY ZenonT(60), <1>6, <1>7, <1>8, <1>9

\* Settling nothing for a job that failed.
LEMMA ZeroStep == ASSUME IInv, NEW t \in Tasks, settleZero(t) PROVE IInv'
<1> DEFINE s == task[t].sub
<1> USE DEF None
<1>1. /\ s \in Submits /\ loc[s].at # None /\ broker[s].at \in Settled
      /\ task[t].pc = "zero" /\ UNCHANGED <<op, rend, broker>>
  BY Sub DEF settleZero, IInv, TaskOK, Executing, Opened, Settled, product
<1>2. LocSettles(s) \/ UNCHANGED loc
  BY ZenonT(60) DEF settleZero
<1>3. RowShape' /\ Grow /\ \A u \in Submits : RecordsOK(u)'
  BY <1>1, <1>2, LocSettlesOK
<1> QED
  BY ZenonT(60), <1>1, <1>3, ThrowKeeps DEF settleZero, Executing

-----------------------------------------------------------------------------
(* What the tasks record.                                                    *)

\* A record of an operation that exists.
LEMMA RecordKeeps ==
  ASSUME IInv, NEW t \in Tasks, UNCHANGED <<loc, broker>>, RowShape',
         NEW s \in Submits, op[s].status # None, op'[s].status # None,
         op'[s].secrets = op[s].secrets, op'[s].terminal = op[s].terminal,
         \A u \in Submits \ {s} : op'[u] = op[u], UNCHANGED rend,
         \/ Stops(t)
         \/ \E pc, result : Moves(t, pc, result) /\ TaskOK(t)'
  PROVE  IInv'
<1> USE DEF None
<1>1. Grow
  BY DEF Grow
<1>2. \A u \in Submits : RecordsOK(u)'
  BY DEF IInv, RecordsOK
<1>3. /\ TaskShape' /\ \A u \in Tasks \ {t} : task'[u] = task[u]
      /\ Common \in task'[t].rows => Common \in task[t].rows
  BY DEF Stops, Moves
<1>4. TaskOK(t)'
  BY StoppedOK
<1> QED
  BY ZenonT(60), <1>1, <1>2, <1>3, <1>4, StepKeeps

\* A task that ends and changes no row.
LEMMA EndKeeps ==
  ASSUME IInv, NEW t \in Tasks, Ends(t), UNCHANGED <<op, rend, loc, broker>>
  PROVE  IInv'
<1>1. RowShape' /\ Grow /\ \A s \in Submits : RecordsOK(s)'
  BY DEF IInv, RowShape, RecordsOK, Grow
<1>2. Stops(t)
  BY EndsStops DEF IInv
<1> QED
  BY <1>1, <1>2, CallKeeps

\* Recording what is still running.
LEMMA ProgressStep == ASSUME IInv, NEW t \in Tasks, recordProgress(t) PROVE IInv'
<1> DEFINE s == task[t].sub
<1> USE DEF None
<1>1. /\ s \in Submits /\ (t \in Submits => s = t) /\ op[s].status # None
      /\ task[t].result # None /\ UNCHANGED <<rend, loc, broker>>
  BY Sub DEF recordProgress, IInv, TaskOK, Executing, product
<1>2. CASE Ends(t) /\ UNCHANGED op
  BY ZenonT(60), <1>1, <1>2, EndKeeps
<1>3. CASE /\ op' = [op EXCEPT ![s].status = task[t].result, ![s].due = TRUE]
           /\ Goes(t, "retry")
  <2>1. /\ RowShape' /\ op'[s].status # None
        /\ op'[s].secrets = op[s].secrets /\ op'[s].terminal = op[s].terminal
        /\ \A u \in Submits \ {s} : op'[u] = op[u]
    BY ZenonT(60), <1>1, <1>3 DEF IInv, RowShape
  <2>2. Moves(t, "retry", task[t].result)
    BY <1>3, GoesMoves DEF IInv
  <2>3. TaskOK(t)'
    BY <1>1, <2>1, <2>2 DEF Moves, TaskOK, Executing, Opened
  <2> QED
    BY SMTT(60), ZenonT(60), <1>1, <2>1, <2>2, <2>3, RecordKeeps
<1> QED
  BY ZenonT(60), <1>2, <1>3 DEF recordProgress

\* Recording a failure for a later retry.
LEMMA RetryStep == ASSUME IInv, NEW t \in Tasks, recordRetry(t) PROVE IInv'
<1> DEFINE s == task[t].sub
<1> USE DEF None
<1>1. /\ s \in Submits /\ op[s].status # None
      /\ task[t].result # None /\ UNCHANGED <<rend, loc, broker>> /\ Ends(t)
  BY Sub DEF recordRetry, IInv, TaskOK, Executing, product
<1>2. CASE UNCHANGED op
  BY ZenonT(60), <1>1, <1>2, EndKeeps
<1>3. CASE op' = [op EXCEPT ![s].status = task[t].result, ![s].due = FALSE]
  <2>1. /\ RowShape' /\ op'[s].status # None
        /\ op'[s].secrets = op[s].secrets /\ op'[s].terminal = op[s].terminal
        /\ \A u \in Submits \ {s} : op'[u] = op[u]
    BY ZenonT(60), <1>1, <1>3 DEF IInv, RowShape
  <2>2. Stops(t)
    BY <1>1, EndsStops DEF IInv
  <2> QED
    BY SMTT(60), ZenonT(60), <1>1, <2>1, <2>2, RecordKeeps
<1> QED
  BY ZenonT(60), <1>2, <1>3 DEF recordRetry

\* The terminal transaction comes after the settlement with LOC.
LEMMA TerminalStep == ASSUME IInv, NEW t \in Tasks, recordVodTerminal(t) PROVE IInv'
<1> DEFINE s == task[t].sub
<1> USE DEF None
<1>1. /\ s \in Submits /\ op[s].status # None /\ loc[s].at = "settled"
      /\ UNCHANGED <<loc, broker>> /\ Ends(t)
  BY Sub DEF recordVodTerminal, IInv, TaskOK, Executing
<1>2. CASE UNCHANGED <<op, rend>>
  BY <1>1, <1>2, EndKeeps
<1>3. CASE /\ op' = [op EXCEPT ![s] = [@ EXCEPT !.status = "settled", !.fresh = FALSE,
                        !.due = TRUE, !.secrets = FALSE, !.terminal = TRUE,
                        !.claimed = broker[s].units]]
           /\ rend' = [r \in Resolutions |->
                          IF r \in Names(s) THEN "completed" ELSE rend[r]]
  <2>1. /\ op' = [u \in Submits |-> op'[u]]
        /\ op'[s].status = "settled" /\ op'[s].terminal
        /\ DOMAIN op'[s] = {"status", "fresh", "due", "secrets", "terminal", "claimed"}
        /\ \A u \in Submits \ {s} : op'[u] = op[u]
    BY ZenonT(60), <1>1, <1>3 DEF IInv, RowShape
  <2>2. RowShape' /\ (rend[Common] # None => rend'[Common] # None)
    BY ZenonT(60), <1>1, <1>3, <2>1, CommonRow DEF IInv, RowShape
  <2>3. Grow /\ \A u \in Submits : op'[u].status # None => op[u].status # None
    BY ZenonT(60), <1>1, <2>1 DEF Grow
  <2>4. \A u \in Submits : RecordsOK(u)'
    BY <1>1, <2>1 DEF IInv, RecordsOK
  <2>5. Stops(t)
    BY <1>1, EndsStops DEF IInv
  <2>6. /\ TaskShape' /\ \A u \in Tasks \ {t} : task'[u] = task[u]
        /\ Common \notin task'[t].rows
    BY <2>5 DEF Stops
  <2>7. TaskOK(t)'
    BY <2>5, StoppedOK
  <2> QED
    BY SMTT(60), ZenonT(60), <2>2, <2>3, <2>4, <2>6, <2>7, StepKeeps
<1> QED
  BY <1>2, <1>3 DEF recordVodTerminal

-----------------------------------------------------------------------------
(* The steps of a submit, and of the recovery before it executes.            *)

\* A submit up to the row of its encoding job.
LEMMA PrepareStep ==
  ASSUME IInv, NEW s \in Submits,
         Submit(s) \/ SelectWorker(s) \/ Prepare(s) \/ InsertJob(s)
  PROVE  IInv'
<1> USE DEF None
<1>1. UNCHANGED <<op, rend, loc, broker>> /\ s \in Tasks
  BY DEF Submit, SelectWorker, Prepare, InsertJob, product, Tasks
<1>2. CASE Ends(s)
  BY ZenonT(60), <1>1, <1>2, EndKeeps
<1>3. CASE Submit(s)
  <2>1. task' = [task EXCEPT ![s].pc = "route", ![s].sub = s]
    BY <1>3 DEF Submit
  <2>2. /\ TaskShape' /\ \A u \in Tasks \ {s} : task'[u] = task[u]
        /\ task'[s].pc = "route" /\ task'[s].sub = s /\ task'[s].rows = task[s].rows
    BY ZenonT(60), <1>1, <2>1 DEF IInv, TaskShape
  <2>3. TaskOK(s)'
    BY <2>2 DEF TaskOK, Executing, Opened
  <2>4. RowShape' /\ Grow /\ \A u \in Submits : RecordsOK(u)'
    BY ZenonT(60), <1>1 DEF IInv, RowShape, RecordsOK, Grow
  <2> QED
    BY <1>1, <2>2, <2>3, <2>4, StepKeeps
<1>4. ASSUME NEW pc \in {"prepare", "rows", "operation"}, Goes(s, pc),
             task[s].pc \notin {"idle", "over"},
             pc = "operation" => task[s].pc = "job"
      PROVE  IInv'
  <2>1. Moves(s, pc, task[s].result) /\ task[s].sub = s
    BY ZenonT(60), <1>1, <1>4, GoesMoves, Sub DEF IInv
  <2>2. TaskOK(s)'
    BY <1>1, <1>4, <2>1 DEF IInv, Moves, TaskOK, Executing, Opened
  <2> QED
    BY <1>1, <2>1, <2>2, MoveKeeps
<1> QED
  BY <1>2, <1>3, <1>4 DEF SelectWorker, Prepare, InsertJob

\* Whoever inserts the common row finds it absent, so nobody has it.
LEMMA RenditionStep == ASSUME IInv, NEW s \in Submits, InsertRendition(s) PROVE IInv'
<1> USE DEF None
<1> DEFINE r == Ladder[s][Cardinality(task[s].rows) + 1]
           rows == task[s].rows \union {r}
<1>1. /\ UNCHANGED <<op, loc, broker>> /\ s \in Tasks
      /\ task[s].pc = "rows" /\ task[s].sub = s
  BY Sub DEF InsertRendition, Tasks
<1>2. CASE Ends(s) /\ UNCHANGED rend
  BY <1>1, <1>2, EndKeeps
<1>3. CASE /\ rend[r] = None /\ rend' = [rend EXCEPT ![r] = "queued"]
           /\ task' = [task EXCEPT ![s].rows = rows,
                          ![s].pc = IF rows = Names(s) THEN "job" ELSE "rows"]
  <2> HIDE DEF r
  <2>1. /\ TaskShape' /\ \A u \in Tasks \ {s} : task'[u] = task[u]
        /\ task'[s].sub = s /\ task'[s].rows = rows
        /\ \/ task'[s].pc = "job" /\ rows = Names(s)
           \/ task'[s].pc = "rows"
    BY ZenonT(60), <1>1, <1>3 DEF IInv, TaskShape
  <2>2. /\ RowShape' /\ Grow /\ \A u \in Submits : RecordsOK(u)'
        /\ rend[Common] # None => rend'[Common] # None
        /\ r = Common => rend'[Common] # None
    BY ZenonT(60), <1>1, <1>3, CommonRow DEF IInv, RowShape, RecordsOK, Grow
  <2>3. TaskOK(s)'
    BY <2>1 DEF TaskOK, Executing, Opened
  <2>4. \A u \in Tasks : TaskOK(u)'
    BY <2>1, <2>2, <2>3, OthersKeep
  <2>5. \A u \in Submits : Has(u)' => Has(u) \/ (u = s /\ r = Common)
    BY <1>1, <2>1 DEF Has, Tasks
  <2>6. r = Common => \A u \in Submits : ~Has(u)
    BY <1>3 DEF IInv, Reserved
  <2>7. Reserved'
    BY <2>2, <2>5, <2>6 DEF IInv, Reserved
  <2> QED
    BY SMTT(60), ZenonT(60), <2>1, <2>2, <2>4, <2>7 DEF IInv
<1> QED
  BY ZenonT(60), <1>2, <1>3 DEF InsertRendition

\* An operation is inserted by the submit that has the common row.
LEMMA InsertStep == ASSUME IInv, NEW s \in Submits, insertWithSecrets(s) PROVE IInv'
<1> USE DEF None
<1>1. /\ UNCHANGED <<rend, loc, broker>> /\ s \in Tasks
      /\ task[s].pc = "operation" /\ task[s].sub = s /\ Has(s)
      /\ op' = [op EXCEPT ![s] = insertStatement(TRUE)]
  BY Sub, CommonRow DEF insertWithSecrets, product, Tasks, IInv, TaskOK, Has
<1>2. /\ RowShape' /\ op'[s] = insertStatement(TRUE)
      /\ \A u \in Submits \ {s} : op'[u] = op[u]
  BY ZenonT(60), <1>1 DEF IInv, RowShape, insertStatement
<1>3. Moves(s, "open", task[s].result)
  BY ZenonT(60), <1>1, GoesMoves DEF insertWithSecrets, IInv
<1>4. op'[s].status # None /\ op'[s].secrets /\ ~op'[s].terminal
  BY <1>2 DEF insertStatement
<1>5. Grow
  BY ZenonT(60), <1>1, <1>2, <1>4 DEF Grow
<1>6. \A u \in Submits : RecordsOK(u)'
  BY ZenonT(60), <1>1, <1>2, <1>4 DEF IInv, RecordsOK
<1>7. TaskOK(s)'
  BY ZenonT(60), <1>1, <1>3, <1>4 DEF Moves, TaskOK, Executing, Opened
<1>8. \A u \in Tasks : TaskOK(u)'
  BY <1>3, <1>5, <1>7, OthersKeep DEF Moves
<1>9. \A u \in Submits : Has(u)' => Has(u)
  BY ZenonT(60), <1>1, <1>2, <1>3 DEF Has, Moves, Tasks
<1>10. Reserved'
  BY <1>1, <1>9 DEF IInv, Reserved
<1> QED
  BY ZenonT(60), <1>2, <1>3, <1>6, <1>8, <1>10 DEF IInv, Moves

\* The recovery claims an operation that is due.
LEMMA ClaimStep ==
  ASSUME IInv, recoverOne \/ \E s \in Submits : claimRecoverable(s) PROVE IInv'
<1> USE DEF None
<1>1. Rec \in Tasks /\ Rec \notin Submits
  BY VodAssumption DEF Tasks
<1>2. ASSUME NEW s \in Submits, claimRecoverable(s) PROVE IInv'
  <2>1. /\ UNCHANGED <<rend, loc, broker>> /\ op[s].status # None
        /\ op' = [op EXCEPT ![s].fresh = TRUE]
        /\ task' = [task EXCEPT ![Rec] = [Start EXCEPT !.pc = "read", !.sub = s]]
    BY ZenonT(60), <1>2 DEF claimRecoverable, Recoverable, product
  <2>2. /\ TaskShape' /\ \A u \in Tasks \ {Rec} : task'[u] = task[u]
        /\ task'[Rec].pc = "read" /\ task'[Rec].sub = s
    BY ZenonT(60), <1>1, <2>1 DEF IInv, TaskShape, Start
  <2>3. /\ RowShape'
        /\ \A u \in Submits : /\ op'[u].status = op[u].status
                              /\ op'[u].secrets = op[u].secrets
                              /\ op'[u].terminal = op[u].terminal
    BY ZenonT(60), <2>1 DEF IInv, RowShape
  <2>4. Grow /\ \A u \in Submits : RecordsOK(u)'
    BY <2>1, <2>3 DEF IInv, Grow, RecordsOK
  <2>5. TaskOK(Rec)'
    BY <1>1, <2>1, <2>2, <2>3 DEF TaskOK, Executing, Opened
  <2> QED
    BY <1>1, <2>1, <2>2, <2>3, <2>4, <2>5, StepKeeps
<1>3. CASE recoverOne
  <2>1. UNCHANGED <<op, rend, loc, broker>> /\ task[Rec].pc = "read"
    BY <1>3 DEF recoverOne, product
  <2>2. CASE Ends(Rec)
    BY <1>1, <2>1, <2>2, EndKeeps
  <2>3. ASSUME NEW found, task' = [task EXCEPT ![Rec].pc = "open", ![Rec].rows = found]
        PROVE  IInv'
    <3>1. /\ TaskShape' /\ \A u \in Tasks \ {Rec} : task'[u] = task[u]
          /\ task'[Rec].pc = "open" /\ task'[Rec].sub = task[Rec].sub
      BY ZenonT(60), <1>1, <2>3 DEF IInv, TaskShape
    <3>2. RowShape' /\ Grow /\ \A u \in Submits : RecordsOK(u)'
      BY ZenonT(60), <2>1 DEF IInv, RowShape, RecordsOK, Grow
    <3>3. TaskOK(Rec)'
      BY ZenonT(60), <1>1, <2>1, <3>1 DEF IInv, TaskOK, Executing, Opened
    <3> QED
      BY <1>1, <2>1, <3>1, <3>2, <3>3, StepKeeps
  <2> QED
    BY <1>3, <2>2, <2>3 DEF recoverOne
<1> QED
  BY <1>2, <1>3

-----------------------------------------------------------------------------
(* The steps of nobody's task.                                               *)

\* Where no task moves, what was recorded has to stay.
LEMMA AmbientKeeps ==
  ASSUME IInv, UNCHANGED <<task, rend>>, RowShape', Grow,
         \A s \in Submits : op'[s].status = op[s].status,
         \A s \in Submits : RecordsOK(s)'
  PROVE  IInv'
<1>1. \A t \in Tasks : TaskOK(t)'
  BY OthersKeep
<1>2. TaskShape' /\ Reserved'
  BY DEF IInv, TaskShape, Reserved, Has
<1> QED
  BY ZenonT(60), <1>1, <1>2 DEF IInv

\* Leases and retry times are not among what the tasks rely on.
LEMMA TimeStep ==
  ASSUME IInv, NEW s \in Submits, LeaseExpires(s) \/ LeaseOutlived(s) \/ RetryDue(s)
  PROVE  IInv'
<1>1. /\ UNCHANGED <<task, rend, loc, broker>>
      /\ \/ op' = [op EXCEPT ![s].fresh = FALSE]
         \/ op' = [op EXCEPT ![s].due = TRUE]
  BY DEF LeaseExpires, LeaseOutlived, Expires, RetryDue, product
<1>2. /\ RowShape'
      /\ \A u \in Submits : /\ op'[u].status = op[u].status
                            /\ op'[u].secrets = op[u].secrets
                            /\ op'[u].terminal = op[u].terminal
  <2>1. CASE op' = [op EXCEPT ![s].fresh = FALSE]
    BY ZenonT(60), <1>1, <2>1 DEF IInv, RowShape
  <2>2. CASE op' = [op EXCEPT ![s].due = TRUE]
    BY ZenonT(60), <1>1, <2>2 DEF IInv, RowShape
  <2> QED
    BY <1>1, <2>1, <2>2
<1>3. Grow /\ \A u \in Submits : RecordsOK(u)'
  BY <1>1, <1>2 DEF IInv, Grow, RecordsOK
<1> QED
  BY <1>1, <1>2, <1>3, AmbientKeeps

\* A job that was accounted for is not accounted for again.
LEMMA BrokerStep == ASSUME IInv, NEW s \in Submits, BrokerWorks(s) PROVE IInv'
<1> USE DEF None
<1>1. UNCHANGED <<task, rend, op, loc>>
  BY DEF BrokerWorks, product
<1>2. \/ /\ broker[s].at = "running"
         /\ \E units, body : broker' = [broker EXCEPT ![s] =
               [at |-> "accounting", units |-> units, body |-> body]]
      \/ /\ broker[s].at = "accounting"
         /\ broker' = [broker EXCEPT ![s].at = "settled"]
  BY ZenonT(30) DEF BrokerWorks
<1>3. /\ RowShape'
      /\ broker[s].at \in {"running", "accounting"}
      /\ \A u \in Submits \ {s} : broker'[u] = broker[u]
  <2>1. CASE broker[s].at = "accounting" /\ broker' = [broker EXCEPT ![s].at = "settled"]
    BY ZenonT(60), <1>1, <2>1 DEF IInv, RowShape
  <2>2. ASSUME NEW units, NEW body, broker[s].at = "running",
               broker' = [broker EXCEPT ![s] =
                  [at |-> "accounting", units |-> units, body |-> body]]
        PROVE  <1>3
    BY ZenonT(60), <1>1, <2>2 DEF IInv, RowShape
  <2> QED
    BY <1>2, <2>1, <2>2
<1>4. Grow
  BY SMTT(60), ZenonT(60), <1>1, <1>3 DEF Grow, Settled
<1>5. \A u \in Submits : RecordsOK(u)'
  <2>1. loc[s].at # "settled" /\ loc[s].at # None
    BY <1>3 DEF IInv, RecordsOK, Settled
  <2> QED
    BY ZenonT(60), <1>1, <1>3, <2>1 DEF IInv, RecordsOK
<1> QED
  BY <1>1, <1>3, <1>4, <1>5, AmbientKeeps

\* A crash takes the tasks and leaves the rows.
LEMMA CrashStep == ASSUME IInv, Crash PROVE IInv'
<1> USE DEF None
<1>1. UNCHANGED <<rend, op, loc, broker>>
  BY DEF Crash, product
<1> DEFINE end == [Start EXCEPT !.pc = "over"]
<1>2. /\ DOMAIN Start = {"pc", "sub", "rows", "verify", "result"}
      /\ DOMAIN end = {"pc", "sub", "rows", "verify", "result"}
      /\ Start.pc = "idle" /\ end.pc = "over" /\ Start.rows = {} /\ end.rows = {}
  BY DEF Start
<1>3. task' = [t \in Tasks |-> IF t = Rec \/ task[t].pc = "idle" THEN Start ELSE end]
  BY DEF Crash
<1> HIDE DEF end
<1>4. /\ TaskShape'
      /\ \A t \in Tasks : task'[t].pc \in {"idle", "over"} /\ task'[t].rows = {}
  BY ZenonT(60), <1>2, <1>3 DEF TaskShape
<1>5. \A t \in Tasks : TaskOK(t)'
  BY <1>4 DEF TaskOK, Executing, Opened
<1>6. RowShape' /\ \A s \in Submits : RecordsOK(s)'
  BY ZenonT(60), <1>1 DEF IInv, RowShape, RecordsOK
<1>7. Reserved'
  BY <1>1, <1>4 DEF IInv, Reserved, Has, Tasks
<1> QED
  BY <1>4, <1>5, <1>6, <1>7 DEF IInv

\* The asset's own rows are nothing the invariant is about.
LEMMA AssetStep ==
  ASSUME IInv, \/ CreateUpload \/ CompleteUpload \/ InsertAsset \/ DeleteAsset
               \/ UNCHANGED vars
  PROVE  IInv'
<1>1. UNCHANGED <<task, rend, op, loc, broker>>
  BY ZenonT(60) DEF CreateUpload, CompleteUpload, InsertAsset, DeleteAsset, vars
<1>2. RowShape' /\ Grow /\ \A s \in Submits : RecordsOK(s)'
  BY <1>1 DEF IInv, RowShape, RecordsOK, Grow
<1> QED
  BY <1>1, <1>2, AmbientKeeps

\* Every step keeps the invariant.
LEMMA NextIInv == IInv /\ [Next]_vars => IInv'
<1> SUFFICES ASSUME IInv, Next \/ UNCHANGED vars PROVE IInv'
  OBVIOUS
<1>1. CASE CreateUpload \/ CompleteUpload \/ InsertAsset \/ DeleteAsset \/ UNCHANGED vars
  BY <1>1, AssetStep
<1>2. ASSUME NEW s \in Submits, Submit(s) \/ SubmitStep(s) PROVE IInv'
  BY <1>2, PrepareStep, RenditionStep, InsertStep DEF SubmitStep
<1>3. CASE recoverOne \/ \E s \in Submits : claimRecoverable(s)
  BY <1>3, ClaimStep
<1>4. ASSUME NEW t \in Tasks, ExecuteStep(t) PROVE IInv'
  BY <1>4, OpenStep, PostStep, ReadStep, SettleStep, ZeroStep, ProgressStep, RetryStep,
     TerminalStep DEF ExecuteStep
<1>5. ASSUME NEW s \in Submits,
             LeaseExpires(s) \/ LeaseOutlived(s) \/ RetryDue(s) \/ BrokerWorks(s)
      PROVE  IInv'
  BY ZenonT(60), <1>5, TimeStep, BrokerStep
<1> QED
  BY <1>1, <1>2, <1>3, <1>4, <1>5, CrashStep DEF Next

\* The invariant gives three of the properties.
LEMMA IInvImplies == IInv => OneJob /\ NeverForgotten /\ SettledWhenFinal
<1> SUFFICES ASSUME IInv PROVE OneJob /\ NeverForgotten /\ SettledWhenFinal
  OBVIOUS
<1>1. \A s \in Submits : Touched(s) => Has(s)
  BY DEF Touched, Has, IInv, RecordsOK
<1> QED
  BY <1>1 DEF IInv, OneJob, NeverForgotten, SettledWhenFinal, Reserved, RecordsOK, Settled

\* Whatever submits race for an asset, LOC and the broker see one job.
THEOREM OneJobHolds == Spec => []OneJob
  BY InitIInv, NextIInv, IInvImplies, PTL DEF Spec

\* What LOC or the broker holds has its operation row and its intent.
THEOREM NeverForgottenHolds == Spec => []NeverForgotten
  BY InitIInv, NextIInv, IInvImplies, PTL DEF Spec

\* LOC is settled after the broker and at the units the broker ends with, on
\* every path to a settlement (headers, poll, exchange, replay, refusal).
THEOREM SettledWhenFinalHolds == Spec => []SettledWhenFinal
  BY InitIInv, NextIInv, IInvImplies, PTL DEF Spec

-----------------------------------------------------------------------------
(* The terminal transaction.                                                 *)

Preparing == {"idle", "route", "prepare", "rows", "job", "operation"}

ProductShape ==
    /\ DOMAIN asset = {"status", "source", "probed", "deleted"}
    /\ job = [s \in Submits |-> job[s]]

\* A submit that still prepares has no operation: what it inserts is new.
Unopened == \A s \in Submits : task[s].pc \in Preparing => op[s].status = None

\* The terminal transaction of a submit finds a validated body.
Validated(s) == broker[s].body = "result" /\ broker[s].units <= maxTotalUnits(s)

WholeInv ==
    /\ ProductShape
    /\ Unopened
    /\ \A s \in Submits : broker[s].body \in Bodies \union {None}
    /\ \A t \in Tasks, s \in Submits :
          task[t].pc = "terminal" /\ task[t].sub = s => Validated(s)
    /\ AllOrNothing

\* What LOC settled and what the broker accounted for stay as they are.
Fixed ==
    \A s \in Submits :
       /\ loc[s].at = "settled" => loc'[s] = loc[s]
       /\ broker[s].at \in Settled => broker'[s] = broker[s]
       /\ broker'[s].body \in Bodies \union {None}

\* A task about to finish an operation finds it settled, with a valid body.
LEMMA TerminalValid ==
  ASSUME IInv, WholeInv, NEW t \in Tasks, NEW s \in Submits,
         task[t].pc = "terminal", task[t].sub = s
  PROVE  Validated(s) /\ broker[s].at \in Settled
<1>1. Validated(s)
  BY ZenonT(60) DEF WholeInv
<1>2. TaskOK(t) /\ RecordsOK(s)
  BY ZenonT(60) DEF IInv
<1>3. loc[s].at = "settled"
  BY ZenonT(60), <1>2 DEF TaskOK
<1> QED
  BY ZenonT(60), <1>1, <1>2, <1>3 DEF RecordsOK

\* Before the first upload nothing is validated and nothing terminal.
LEMMA InitWholeInv == Init => WholeInv
  BY SMTT(60), ZenonT(60) DEF Init, WholeInv, ProductShape, Unopened, Validated, AllOrNothing, Start, None,
         Tasks, Preparing

\* A body is accepted only when it is the requested result, within its funding.
LEMMA ValidatedBody ==
  ASSUME NEW s \in Submits, broker[s].body \in Bodies \union {None}, validateAbrTerminal(s)
  PROVE  Validated(s)
<1> USE DEF None
<1>1. PICK observed \in terminalJsonFromSse(s) :
         broker[s].units = observed /\ broker[s].units <= maxTotalUnits(s)
  BY ZenonT(60) DEF validateAbrTerminal, reconcileAbrUsage
<1>2. broker[s].body \in {"result", "miscounted", "error", None}
  BY DEF validateAbrTerminal, validateOutputCoordinates, Bodies
<1>3. CASE broker[s].body = "miscounted"
  <2>1. terminalJsonFromSse(s) = (0 .. broker[s].units + 1) \ {broker[s].units}
    BY <1>3 DEF terminalJsonFromSse
  <2> QED
    BY <1>1, <2>1
<1>4. CASE broker[s].body \in {"error", None}
  <2>1. terminalJsonFromSse(s) = {}
    BY <1>4 DEF terminalJsonFromSse
  <2> QED
    BY <1>1, <2>1
<1> QED
  BY ZenonT(60), <1>1, <1>2, <1>3, <1>4 DEF Validated

\* No step changes what is settled at LOC or accounted for at the broker.
LEMMA FixedStep == ASSUME IInv, WholeInv, Next \/ UNCHANGED vars PROVE Fixed
<1> USE DEF None
<1>0. RowShape /\ \A s \in Submits : broker[s].body \in Bodies \union {None}
  BY SMTT(60), ZenonT(60) DEF IInv, WholeInv
<1>1. CASE UNCHANGED <<loc, broker>>
  BY ZenonT(60), <1>0, <1>1 DEF Fixed
<1>2. ASSUME NEW t \in Tasks, openJob(t) PROVE Fixed
  <2>1. UNCHANGED broker /\ (UNCHANGED loc \/ LocOpens(task[t].sub, EstimateSent(t)))
    BY SMTT(30), <1>2 DEF openJob
  <2> QED
    BY ZenonT(60), <1>0, <2>1 DEF LocOpens, Fixed, RowShape
<1>3. ASSUME NEW t \in Tasks, postJob(t) PROVE Fixed
  <2>1. /\ UNCHANGED loc
        /\ \/ UNCHANGED broker
           \/ /\ broker[task[t].sub].at = None
              /\ \E at : broker' = [broker EXCEPT ![task[t].sub].at = at]
    BY ZenonT(30), <1>3 DEF postJob
  <2>2. CASE UNCHANGED broker
    BY <1>1, <2>1, <2>2
  <2>3. ASSUME NEW at, broker[task[t].sub].at = None,
               broker' = [broker EXCEPT ![task[t].sub].at = at]
        PROVE  Fixed
    BY ZenonT(60), <1>0, <2>1, <2>3 DEF Fixed, RowShape, Settled
  <2> QED
    BY ZenonT(30), <2>1, <2>2, <2>3
<1>4. ASSUME NEW t \in Tasks, settle(t) \/ settleZero(t) PROVE Fixed
  <2>1. UNCHANGED broker /\ (UNCHANGED loc \/ LocSettles(task[t].sub))
    BY ZenonT(30), <1>4 DEF settle, settleZero
  <2>2. UNCHANGED loc \/ \E n : /\ loc[task[t].sub].at = "open"
             /\ loc' = [loc EXCEPT ![task[t].sub].at = "settled", ![task[t].sub].actual = n]
    BY ZenonT(30), <2>1 DEF LocSettles
  <2> QED
    BY ZenonT(60), <1>0, <2>1, <2>2 DEF Fixed, RowShape
<1>5. ASSUME NEW s \in Submits, BrokerWorks(s) PROVE Fixed
  <2>1. /\ UNCHANGED loc
        /\ \/ /\ broker[s].at = "running"
              /\ \E body \in Bodies : \E units : broker' = [broker EXCEPT ![s] =
                    [at |-> "accounting", units |-> units, body |-> body]]
           \/ /\ broker[s].at = "accounting"
              /\ broker' = [broker EXCEPT ![s].at = "settled"]
    BY ZenonT(30), <1>5 DEF BrokerWorks
  <2> QED
    BY <1>0, <2>1 DEF Fixed, RowShape, Settled
<1>6. ASSUME NEW t \in Tasks, ExecuteStep(t) PROVE Fixed
  BY ZenonT(30), <1>1, <1>2, <1>3, <1>4, <1>6 DEF ExecuteStep, streamEnds, recoverExchange,
     pollSettlement, recordProgress, recordRetry, recordVodTerminal
<1>7. ASSUME NEW s \in Submits,
             Submit(s) \/ SubmitStep(s) \/ claimRecoverable(s) \/ LeaseExpires(s)
             \/ LeaseOutlived(s) \/ RetryDue(s)
      PROVE  Fixed
  BY ZenonT(30), <1>1, <1>7 DEF Submit, SubmitStep, SelectWorker, Prepare, InsertRendition, InsertJob,
     insertWithSecrets, claimRecoverable, LeaseExpires, LeaseOutlived, Expires, RetryDue
<1>8. CASE CreateUpload \/ CompleteUpload \/ InsertAsset \/ DeleteAsset \/ recoverOne
           \/ Crash \/ UNCHANGED vars
  BY <1>1, <1>8 DEF CreateUpload, CompleteUpload, InsertAsset, DeleteAsset, recoverOne,
     Crash, vars
<1> QED
  BY <1>5, <1>6, <1>7, <1>8 DEF Next

\* Where the step of a task leads, for what WholeInv says of tasks.
Lands(t) ==
    /\ \A u \in Tasks \ {t} : task'[u] = task[u]
    /\ t \in Submits => task'[t].pc \notin Preparing
    /\ task'[t].pc # "terminal"

\* A task that only moves lands where it moved to.
LEMMA MovesLands ==
  ASSUME NEW t \in Tasks, NEW pc \in Executing \ {"terminal"}, NEW result,
         Moves(t, pc, result)
  PROVE  Lands(t)
  BY DEF Moves, Lands, Executing, Preparing

\* A task that ends lands.
LEMMA EndsLands == ASSUME TaskShape, NEW t \in Tasks, Ends(t) PROVE Lands(t)
<1> DEFINE end == [Start EXCEPT !.pc = IF t = Rec THEN "idle" ELSE "over"]
<1>1. end.pc # "terminal" /\ (t \in Submits => end.pc = "over")
  BY VodAssumption DEF Start
<1>2. task' = [task EXCEPT ![t] = end]
  BY DEF Ends
<1> HIDE DEF end
<1> QED
  BY <1>1, <1>2 DEF Lands, TaskShape, Preparing

\* So does one that throws.
LEMMA ThrowsLands == ASSUME TaskShape, NEW t \in Tasks, Throws(t) PROVE Lands(t)
<1>1. CASE t = Rec
  <2>1. task' = [task EXCEPT ![t].pc = "retry", ![t].result = "failed"]
    BY <1>1 DEF Throws
  <2>2. Moves(t, "retry", "failed")
    BY ZenonT(30), <2>1 DEF Moves, TaskShape
  <2> QED
    BY <2>2, MovesLands DEF Executing
<1>2. CASE t # Rec
  BY ZenonT(60), <1>2, EndsLands DEF Throws
<1> QED
  BY <1>1, <1>2

\* What the customer sees stays as it is.
LEMMA ViewKeeps ==
  ASSUME IInv, WholeInv, Fixed,
         \A s \in Submits :
            /\ op'[s].terminal <=> op[s].terminal
            /\ op[s].terminal => /\ op'[s].secrets = op[s].secrets
                                 /\ op'[s].claimed = op[s].claimed
                                 /\ job'[s] = job[s],
         \A r \in Resolutions : rend'[r] = "completed" <=> rend[r] = "completed",
         playback' = playback,
         asset'.status = "ready" => asset.status = "ready"
  PROVE  AllOrNothing'
<1>1. \A s \in Submits : op[s].terminal =>
         loc'[s] = loc[s] /\ broker'[s] = broker[s]
  BY DEF IInv, RecordsOK, Fixed
<1>2. \A s \in Submits : \A r \in Names(s) : r \in Resolutions
  BY DEF Resolutions
<1> DEFINE done == {s \in Submits : op[s].terminal}
           after == {s \in Submits : op'[s].terminal}
<1>3. after = done
  BY ZenonT(60)
<1>4. ASSUME NEW s \in done
      PROVE  /\ \A r \in Names(s) : rend'[r] = "completed"
             /\ job'[s] = "completed" /\ playback' /\ ~op'[s].secrets
             /\ broker'[s].body = "result"
             /\ op'[s].claimed = loc'[s].actual /\ op'[s].claimed <= maxTotalUnits(s)
  <2>1. s \in Submits /\ op[s].terminal /\ loc'[s] = loc[s] /\ broker'[s] = broker[s]
    BY ZenonT(60), <1>1
  <2>2. /\ \A r \in Names(s) : rend[r] = "completed"
        /\ job[s] = "completed" /\ playback /\ ~op[s].secrets
        /\ broker[s].body = "result"
        /\ op[s].claimed = loc[s].actual /\ op[s].claimed <= maxTotalUnits(s)
    BY ZenonT(60), <2>1 DEF WholeInv, AllOrNothing
  <2> QED
    BY ZenonT(60), <1>2, <2>1, <2>2
<1>5. \A r \in Resolutions : rend[r] = "completed" => \E s \in done : r \in Names(s)
  BY ZenonT(60) DEF WholeInv, AllOrNothing
<1>6. asset.status = "ready" \/ playback => done # {}
  BY ZenonT(60) DEF WholeInv, AllOrNothing
<1> HIDE DEF done
<1> QED
  BY ZenonT(60), <1>3, <1>4, <1>5, <1>6 DEF AllOrNothing

\* A step of task t that does not come to the terminal transaction.
LEMMA LandsKeeps ==
  ASSUME IInv, WholeInv, Fixed, NEW t \in Tasks, Lands(t), ProductShape',
         \A s \in Submits : op[s].status = None /\ op'[s].status # None => s = t,
         AllOrNothing'
  PROVE  WholeInv'
<1>1. Unopened'
  BY DEF WholeInv, Unopened, Lands, Tasks
<1>2. ASSUME NEW u \in Tasks, NEW s \in Submits, task'[u].pc = "terminal", task'[u].sub = s
      PROVE  Validated(s)'
  <2>1. task'[u] = task[u]
    BY ZenonT(60), <1>2 DEF Lands
  <2>2. Validated(s) /\ broker[s].at \in Settled
    BY <1>2, <2>1 DEF WholeInv, IInv, TaskOK, RecordsOK
  <2> QED
    BY <2>2 DEF Validated, Fixed
<1> QED
  BY ZenonT(60), <1>1, <1>2 DEF WholeInv, Fixed

\* A call that only moves its task.
LEMMA CallWhole ==
  ASSUME IInv, WholeInv, Fixed, NEW t \in Tasks, Lands(t), UNCHANGED <<product, op>>
  PROVE  WholeInv'
<1>1. ProductShape'
  BY DEF WholeInv, ProductShape, product
<1>2. AllOrNothing'
  BY SMTT(60), ZenonT(60), ViewKeeps DEF product
<1> QED
  BY <1>1, <1>2, LandsKeeps

\* Steps of a task that write neither its operation's row nor the asset.
LEMMA ExecuteWhole ==
  ASSUME IInv, WholeInv, Fixed, NEW t \in Tasks,
         \/ openJob(t) \/ postJob(t) \/ streamEnds(t) \/ recoverExchange(t)
         \/ pollSettlement(t) \/ settleZero(t)
  PROVE  WholeInv'
<1>1. UNCHANGED <<product, op>>
  BY ZenonT(30) DEF openJob, postJob, streamEnds, recoverExchange, pollSettlement, settleZero
<1>2. \/ Throws(t) \/ Unresolved(t, "unresolved")
      \/ \E pc \in Executing \ {"terminal"} :
            Goes(t, pc) \/ \E v \in BOOLEAN : Awaits(t, pc, v)
  <2>1. CASE openJob(t)
    <3>1. Throws(t) \/ Goes(t, "post")
      BY ZenonT(30), <2>1 DEF openJob
    <3> QED
      BY <3>1 DEF Executing
  <2>2. CASE postJob(t)
    <3>1. \/ Throws(t) \/ Awaits(t, "stream", TRUE) \/ Awaits(t, "exchange", FALSE)
          \/ Awaits(t, "zero", FALSE) \/ Awaits(t, "settle", TRUE)
      BY ZenonT(30), <2>2 DEF postJob
    <3> QED
      BY ZenonT(30), <3>1 DEF Executing
  <2>3. CASE streamEnds(t) \/ recoverExchange(t) \/ pollSettlement(t)
    <3>1. \/ Throws(t) \/ Unresolved(t, "unresolved")
          \/ Goes(t, "settle")
          \/ \E pc \in {"exchange", "poll", "settle"}, v \in BOOLEAN : Awaits(t, pc, v)
      BY ZenonT(30), <2>3 DEF streamEnds, recoverExchange, pollSettlement
    <3> QED
      BY ZenonT(30), <3>1 DEF Executing
  <2>4. CASE settleZero(t)
    BY ZenonT(30), <2>4 DEF settleZero
  <2> QED
    BY <2>1, <2>2, <2>3, <2>4
<1>3. TaskShape
  BY DEF IInv
<1>4. CASE Throws(t)
  BY <1>1, <1>3, <1>4, ThrowsLands, CallWhole
<1>5. CASE Unresolved(t, "unresolved")
  BY <1>1, <1>3, <1>5, UnresolvedMoves, MovesLands, CallWhole DEF Executing
<1>6. ASSUME NEW pc \in Executing \ {"terminal"},
             Goes(t, pc) \/ \E v \in BOOLEAN : Awaits(t, pc, v)
      PROVE  WholeInv'
  <2>1. Moves(t, pc, task[t].result)
    BY <1>3, <1>6, GoesMoves, AwaitsMoves
  <2> QED
    BY <1>1, <2>1, MovesLands, CallWhole
<1> QED
  BY <1>2, <1>4, <1>5, <1>6

\* Only a validated body leads to the terminal transaction.
LEMMA SettleWhole ==
  ASSUME IInv, WholeInv, Fixed, NEW t \in Tasks, settle(t) PROVE WholeInv'
<1>1. UNCHANGED <<product, op, broker>> /\ task[t].pc = "settle" /\ TaskShape
  BY DEF settle, IInv
<1>2. \/ Throws(t) \/ Unresolved(t, "settled")
      \/ Goes(t, "terminal") /\ validateAbrTerminal(task[t].sub)
  <2>1. PICK claim, a :
         IF validateSettlement(claim) /\ (task[t].verify => validateAbrTerminal(task[t].sub))
         THEN CASE ~mapJobSettlement(a) -> Throws(t)
                [] mapJobSettlement(a) /\ task[t].verify -> Goes(t, "terminal")
                [] mapJobSettlement(a) /\ ~task[t].verify -> Unresolved(t, "settled")
         ELSE Throws(t)
    BY ZenonT(30) DEF settle
  <2> DEFINE valid == validateAbrTerminal(task[t].sub)
             verify == task[t].verify
             sound == validateSettlement(claim)
             mapped == mapJobSettlement(a)
             throws == Throws(t)
             goes == Goes(t, "terminal")
             rests == Unresolved(t, "settled")
  <2>2. IF sound /\ (verify => valid)
        THEN CASE ~mapped -> throws [] mapped /\ verify -> goes [] mapped /\ ~verify -> rests
        ELSE throws
    BY ZenonT(60), <2>1
  <2> HIDE DEF valid, verify, sound, mapped, throws, goes, rests
  <2>3. throws \/ rests \/ (goes /\ valid)
    <3>1. CASE ~mapped
      BY ZenonT(30), <2>2, <3>1
    <3>2. CASE mapped /\ verify
      BY ZenonT(30), <2>2, <3>2
    <3>3. CASE mapped /\ ~verify
      BY ZenonT(30), <2>2, <3>3
    <3> QED
      BY <3>1, <3>2, <3>3
  <2> QED
    BY <2>3 DEF valid, throws, goes, rests
<1>3. CASE Throws(t)
  BY <1>1, <1>3, ThrowsLands, CallWhole
<1>4. CASE Unresolved(t, "settled")
  BY ZenonT(60), <1>1, <1>4, UnresolvedMoves, MovesLands, CallWhole DEF Executing
<1>5. CASE Goes(t, "terminal") /\ validateAbrTerminal(task[t].sub)
  <2>1. PICK s \in Submits : task[t].sub = s
    BY <1>1, Sub
  <2>2. Validated(s)
    BY <1>5, <2>1, ValidatedBody DEF WholeInv
  <2>3. Moves(t, "terminal", task[t].result)
    BY <1>1, <1>5, GoesMoves
  <2>4. Unopened' /\ ProductShape'
    BY ZenonT(60), <1>1, <2>3 DEF Moves, WholeInv, Unopened, Preparing, ProductShape, product, Tasks
  <2>5. AllOrNothing'
    BY SMTT(60), ZenonT(60), <1>1, ViewKeeps DEF product
  <2>6. ASSUME NEW u \in Tasks, NEW v \in Submits, task'[u].pc = "terminal", task'[u].sub = v
        PROVE  Validated(v)'
    <3>1. Validated(v)
      BY ZenonT(60), <2>1, <2>2, <2>3, <2>6 DEF Moves, WholeInv
    <3> QED
      BY <1>1, <3>1 DEF Validated
  <2> QED
    BY <2>4, <2>5, <2>6 DEF WholeInv, Fixed
<1> QED
  BY <1>2, <1>3, <1>4, <1>5

\* Progress and retries change the status and the retry time of a row there is.
LEMMA RecordWhole ==
  ASSUME IInv, WholeInv, Fixed, NEW t \in Tasks, recordProgress(t) \/ recordRetry(t)
  PROVE  WholeInv'
<1> USE DEF None
<1>1. /\ UNCHANGED product /\ TaskShape /\ RowShape
      /\ task[t].pc \in {"progress", "retry"}
  BY ZenonT(60) DEF recordProgress, recordRetry, IInv
<1>2. PICK s \in Submits : task[t].sub = s
  BY ZenonT(60), <1>1, Sub
<1>3. op[s].status # None
  BY <1>1, <1>2 DEF IInv, TaskOK, Executing
<1>4. Ends(t) \/ Goes(t, "retry")
  BY ZenonT(60) DEF recordProgress, recordRetry
<1>5. Lands(t)
  BY <1>1, <1>4, EndsLands, GoesMoves, MovesLands DEF Executing
<1>6. \/ UNCHANGED op
      \/ \E status, due : op' = [op EXCEPT ![s].status = status, ![s].due = due]
  <2>1. CASE recordProgress(t)
    BY ZenonT(60), <1>2, <2>1 DEF recordProgress
  <2>2. CASE recordRetry(t)
    BY <1>2, <2>2 DEF recordRetry
  <2> QED
    BY ZenonT(60), <2>1, <2>2
<1>7. \A u \in Submits : /\ op'[u].terminal = op[u].terminal
                         /\ op'[u].secrets = op[u].secrets
                         /\ op'[u].claimed = op[u].claimed
                         /\ u # s => op'[u] = op[u]
  <2>1. CASE UNCHANGED op
    BY <2>1
  <2>2. ASSUME NEW status, NEW due,
               op' = [op EXCEPT ![s].status = status, ![s].due = due]
        PROVE  <1>7
    BY ZenonT(60), <1>1, <2>2 DEF RowShape
  <2> QED
    BY ZenonT(30), <1>6, <2>1, <2>2
<1>8. AllOrNothing' /\ ProductShape'
  BY SMTT(60), ZenonT(60), <1>1, <1>7, ViewKeeps DEF product, WholeInv, ProductShape
<1> QED
  BY ZenonT(60), <1>3, <1>5, <1>7, <1>8, LandsKeeps

\* The terminal transaction: the rows, the job, the playback id, the readiness
\* and the intent at once.
LEMMA TerminalWhole ==
  ASSUME IInv, WholeInv, Fixed, NEW t \in Tasks, recordVodTerminal(t) PROVE WholeInv'
<1> USE DEF None
<1>1. /\ TaskShape /\ RowShape /\ ProductShape
      /\ task[t].pc = "terminal" /\ Ends(t) /\ UNCHANGED <<loc, broker>>
  BY DEF recordVodTerminal, IInv, WholeInv
<1>2. PICK s \in Submits : task[t].sub = s
  BY ZenonT(60), <1>1, Sub
<1>3. /\ op[s].status # None /\ loc[s].at = "settled" /\ loc[s].actual = broker[s].units
      /\ Validated(s) /\ Lands(t)
  BY ZenonT(60), <1>1, <1>2, EndsLands DEF IInv, TaskOK, RecordsOK, Executing, WholeInv
<1>4. CASE UNCHANGED <<op, rend, job, asset, playback>>
  <2>1. AllOrNothing' /\ ProductShape'
    BY ZenonT(60), <1>1, <1>4, ViewKeeps DEF ProductShape
  <2> QED
    BY ZenonT(60), <1>3, <1>4, <2>1, LandsKeeps
<1>5. CASE /\ op' = [op EXCEPT ![s] = [@ EXCEPT !.status = "settled", !.fresh = FALSE,
                        !.due = TRUE, !.secrets = FALSE, !.terminal = TRUE,
                        !.claimed = broker[s].units]]
           /\ rend' = [r \in Resolutions |->
                          IF r \in Names(s) THEN "completed" ELSE rend[r]]
           /\ job' = [job EXCEPT ![s] = "completed"]
           /\ asset' = [asset EXCEPT !.status = "ready"]
           /\ playback' = TRUE
  <2>1. /\ op'[s].terminal /\ ~op'[s].secrets /\ op'[s].claimed = broker[s].units
        /\ \A u \in Submits \ {s} : op'[u] = op[u]
    BY ZenonT(60), <1>1, <1>5 DEF RowShape
  <2>2. ProductShape' /\ job'[s] = "completed" /\ \A u \in Submits \ {s} : job'[u] = job[u]
    BY <1>1, <1>5 DEF ProductShape
  <2>3. /\ \A r \in Names(s) : rend'[r] = "completed"
        /\ \A r \in Resolutions \ Names(s) : rend'[r] = rend[r]
    BY <1>5 DEF Resolutions
  <2>4. \A u \in Submits : \A r \in Names(u) : r \in Resolutions
    BY DEF Resolutions
  <2> DEFINE done == {u \in Submits : op[u].terminal}
             after == {u \in Submits : op'[u].terminal}
  <2>5. after = done \union {s}
    BY ZenonT(60), <2>1
  <2>6. ASSUME NEW u \in after
        PROVE  /\ \A r \in Names(u) : rend'[r] = "completed"
               /\ job'[u] = "completed" /\ ~op'[u].secrets
               /\ broker[u].body = "result"
               /\ op'[u].claimed = loc[u].actual /\ op'[u].claimed <= maxTotalUnits(u)
    <3>1. CASE u = s
      BY ZenonT(60), <1>3, <2>1, <2>2, <2>3, <3>1 DEF Validated
    <3>2. CASE u # s
      <4>1. u \in Submits /\ op[u].terminal
        BY ZenonT(60), <2>5, <2>6, <3>2
      <4>2. /\ \A r \in Names(u) : rend[r] = "completed"
            /\ job[u] = "completed" /\ ~op[u].secrets
            /\ broker[u].body = "result"
            /\ op[u].claimed = loc[u].actual /\ op[u].claimed <= maxTotalUnits(u)
        BY ZenonT(60), <4>1 DEF WholeInv, AllOrNothing
      <4> QED
        BY ZenonT(60), <2>1, <2>2, <2>3, <2>4, <3>2, <4>1, <4>2
    <3> QED
      BY ZenonT(60), <3>1, <3>2
  <2>7. \A r \in Resolutions : rend'[r] = "completed" => \E u \in after : r \in Names(u)
    BY ZenonT(60), <2>3, <2>5 DEF WholeInv, AllOrNothing
  <2>8. s \in after
    BY <2>5
  <2> HIDE DEF done
  <2>9. AllOrNothing'
    BY ZenonT(60), <1>1, <1>5, <2>6, <2>7, <2>8 DEF AllOrNothing
  <2> QED
    BY <1>3, <2>1, <2>2, <2>9, LandsKeeps
<1> QED
  BY ZenonT(60), <1>2, <1>4, <1>5 DEF recordVodTerminal

\* A submit that prepares has no operation yet, so none that is terminal.
LEMMA SubmitWhole ==
  ASSUME IInv, WholeInv, Fixed, NEW s \in Submits, Submit(s) \/ SubmitStep(s)
  PROVE  WholeInv'
<1> USE DEF None
<1>0. s \in Tasks /\ TaskShape /\ RowShape /\ ProductShape
  BY ZenonT(60) DEF Tasks, IInv, WholeInv
<1>1. /\ task[s].pc \in Preparing
      /\ \A u \in Tasks \ {s} : task'[u] = task[u]
      /\ task'[s].pc # "terminal"
      /\ task'[s].pc \in Preparing \/ task'[s].pc \in {"over", "open"}
      /\ task'[s].pc \in Preparing => UNCHANGED op
  <2>1. CASE Ends(s) /\ ~insertWithSecrets(s)
    <3>1. Lands(s) /\ Stops(s)
      BY <1>0, <2>1, EndsLands, EndsStops
    <3> QED
      BY <2>1, <3>1 DEF Lands, Stops, Preparing, Submit, SubmitStep, SelectWorker, Prepare,
         InsertRendition, InsertJob
  <2>2. CASE Submit(s)
    BY ZenonT(60), <1>0, <2>2 DEF Submit, TaskShape, Preparing
  <2>3. ASSUME NEW pc \in {"prepare", "rows", "operation", "open"}, Goes(s, pc),
               ~InsertRendition(s), ~Submit(s), pc # "open" => UNCHANGED op
        PROVE  <1>1
    <3>1. Moves(s, pc, task[s].result)
      BY <1>0, <2>3, GoesMoves
    <3>2. task[s].pc \in Preparing
      BY ZenonT(60), <2>3 DEF SubmitStep, SelectWorker, Prepare, InsertJob, insertWithSecrets, Preparing
    <3> QED
      BY <2>3, <3>1, <3>2 DEF Moves, Preparing
  <2>4. CASE InsertRendition(s) /\ ~Ends(s)
    <3>1. /\ task[s].pc = "rows" /\ UNCHANGED op
          /\ \E rows, pc : /\ pc \in {"job", "rows"}
                           /\ task' = [task EXCEPT ![s].rows = rows, ![s].pc = pc]
      BY ZenonT(60), <2>4 DEF InsertRendition
    <3>2. PICK rows, pc : /\ pc \in {"job", "rows"}
                          /\ task' = [task EXCEPT ![s].rows = rows, ![s].pc = pc]
      BY ZenonT(60), <3>1
    <3>3. task'[s].pc = pc /\ \A u \in Tasks \ {s} : task'[u] = task[u]
      BY ZenonT(60), <1>0, <3>2 DEF TaskShape
    <3> QED
      BY ZenonT(60), <3>1, <3>2, <3>3 DEF Preparing
  <2>5. CASE SelectWorker(s) \/ Prepare(s) \/ InsertJob(s) \/ insertWithSecrets(s)
    <3>1. \/ Ends(s) /\ ~insertWithSecrets(s)
          \/ Goes(s, "prepare") /\ UNCHANGED op
          \/ Goes(s, "rows") /\ UNCHANGED op
          \/ Goes(s, "operation") /\ UNCHANGED op
          \/ Goes(s, "open")
      BY ZenonT(30), <2>5 DEF SelectWorker, Prepare, InsertJob, insertWithSecrets
    <3>2. ~InsertRendition(s) /\ ~Submit(s)
      BY ZenonT(60), <2>5 DEF SelectWorker, Prepare, InsertJob, insertWithSecrets, InsertRendition, Submit
    <3> QED
      BY ZenonT(30), <2>1, <2>3, <3>1, <3>2
  <2>6. CASE InsertRendition(s) /\ Ends(s)
    <3>1. ~insertWithSecrets(s)
      BY ZenonT(60), <2>6 DEF InsertRendition, insertWithSecrets
    <3> QED
      BY ZenonT(60), <2>1, <2>6, <3>1
  <2> QED
    BY ZenonT(60), <2>2, <2>4, <2>5, <2>6 DEF SubmitStep
<1>2. op[s].status = None
  BY ZenonT(60), <1>0, <1>1 DEF WholeInv, Unopened
<1>3. ~op[s].terminal
  BY <1>2 DEF IInv, RecordsOK
<1>4. /\ \A u \in Submits \ {s} : op'[u] = op[u]
      /\ ~op'[s].terminal
  <2>1. UNCHANGED op \/ op' = [op EXCEPT ![s] = insertStatement(TRUE)]
    BY ZenonT(30) DEF Submit, SubmitStep, SelectWorker, Prepare, InsertRendition, InsertJob,
       insertWithSecrets
  <2>2. ~insertStatement(TRUE).terminal
    BY DEF insertStatement
  <2> QED
    BY ZenonT(60), <1>0, <1>3, <2>1, <2>2 DEF RowShape
<1>5. ProductShape' /\ \A u \in Submits \ {s} : job'[u] = job[u]
  <2>1. /\ UNCHANGED job \/ job' = [job EXCEPT ![s] = "running"]
        /\ \/ UNCHANGED asset
           \/ asset' = [asset EXCEPT !.status = "queued"]
           \/ asset' = [asset EXCEPT !.status = "preparing", !.probed = TRUE]
    BY ZenonT(30) DEF Submit, SubmitStep, SelectWorker, Prepare, InsertRendition, InsertJob,
       insertWithSecrets, updateStatus, product
  <2> QED
    BY ZenonT(60), <1>0, <2>1 DEF ProductShape
<1>6. playback' = playback /\ (asset'.status = "ready" => asset.status = "ready")
  <2>1. /\ UNCHANGED playback
        /\ \/ UNCHANGED asset
           \/ asset' = [asset EXCEPT !.status = "queued"]
           \/ asset' = [asset EXCEPT !.status = "preparing", !.probed = TRUE]
    BY ZenonT(30) DEF Submit, SubmitStep, SelectWorker, Prepare, InsertRendition, InsertJob,
       insertWithSecrets, updateStatus, product
  <2> QED
    BY ZenonT(60), <1>0, <2>1 DEF ProductShape
<1>7. \A r \in Resolutions : rend'[r] = "completed" <=> rend[r] = "completed"
  <2>1. UNCHANGED rend \/ \E r : rend[r] = None /\ rend' = [rend EXCEPT ![r] = "queued"]
    BY ZenonT(30) DEF Submit, SubmitStep, SelectWorker, Prepare, InsertRendition, InsertJob,
       insertWithSecrets, product
  <2> QED
    BY <1>0, <2>1 DEF RowShape
<1>8. AllOrNothing'
  BY ZenonT(60), <1>3, <1>4, <1>5, <1>6, <1>7, ViewKeeps
<1>9. Unopened'
  BY ZenonT(60), <1>0, <1>1, <1>2, <1>4 DEF WholeInv, Unopened, Tasks, Preparing
<1>10. ASSUME NEW u \in Tasks, NEW v \in Submits, task'[u].pc = "terminal", task'[u].sub = v
       PROVE  Validated(v)'
  <2>1. task'[u] = task[u]
    BY ZenonT(60), <1>1, <1>10
  <2>2. Validated(v) /\ broker[v].at \in Settled
    BY ZenonT(60), <1>10, <2>1, TerminalValid
  <2> QED
    BY ZenonT(60), <2>2 DEF Validated, Fixed
<1> QED
  BY ZenonT(60), <1>5, <1>8, <1>9, <1>10 DEF WholeInv, Fixed

\* Where no task comes to the terminal transaction or to an operation, and the
\* customer sees what was there.
LEMMA StillWhole ==
  ASSUME IInv, WholeInv, Fixed, ProductShape', AllOrNothing',
         \A s \in Submits : op[s].status = None => op'[s].status = None,
         \A s \in Submits : task'[s].pc \in Preparing => task[s].pc \in Preparing,
         \A t \in Tasks : task'[t].pc = "terminal" => task'[t] = task[t]
  PROVE  WholeInv'
<1>1. Unopened'
  BY ZenonT(60) DEF WholeInv, Unopened
<1>2. ASSUME NEW u \in Tasks, NEW v \in Submits, task'[u].pc = "terminal", task'[u].sub = v
      PROVE  Validated(v)'
  <2>1. Validated(v) /\ broker[v].at \in Settled
    BY ZenonT(60), <1>2, TerminalValid
  <2> QED
    BY ZenonT(60), <2>1 DEF Validated, Fixed
<1> QED
  BY ZenonT(60), <1>1, <1>2 DEF WholeInv, Fixed

\* The recovery claims an operation, a lease ends, a retry comes due.
LEMMA LeaseWhole ==
  ASSUME IInv, WholeInv, Fixed, NEW s \in Submits,
         claimRecoverable(s) \/ LeaseExpires(s) \/ LeaseOutlived(s) \/ RetryDue(s)
  PROVE  WholeInv'
<1>0. TaskShape /\ RowShape
  BY DEF IInv
<1>1. /\ UNCHANGED product
      /\ \/ op' = [op EXCEPT ![s].fresh = TRUE]
         \/ op' = [op EXCEPT ![s].fresh = FALSE]
         \/ op' = [op EXCEPT ![s].due = TRUE]
      /\ \/ UNCHANGED task
         \/ task' = [task EXCEPT ![Rec] = [Start EXCEPT !.pc = "read", !.sub = s]]
  BY ZenonT(60) DEF claimRecoverable, LeaseExpires, LeaseOutlived, Expires, RetryDue
<1>2. \A u \in Submits : /\ op'[u].terminal = op[u].terminal
                         /\ op'[u].secrets = op[u].secrets
                         /\ op'[u].claimed = op[u].claimed
                         /\ op'[u].status = op[u].status
  <2>1. CASE op' = [op EXCEPT ![s].fresh = TRUE]
    BY ZenonT(60), <1>0, <2>1 DEF RowShape
  <2>2. CASE op' = [op EXCEPT ![s].fresh = FALSE]
    BY ZenonT(60), <1>0, <2>2 DEF RowShape
  <2>3. CASE op' = [op EXCEPT ![s].due = TRUE]
    BY ZenonT(60), <1>0, <2>3 DEF RowShape
  <2> QED
    BY <1>1, <2>1, <2>2, <2>3
<1>3. AllOrNothing' /\ ProductShape'
  BY <1>1, <1>2, ViewKeeps DEF product, WholeInv, ProductShape
<1>4. /\ \A u \in Submits : task'[u].pc = task[u].pc
      /\ \A t \in Tasks : task'[t].pc = "terminal" => task'[t] = task[t]
  <2>1. CASE UNCHANGED task
    BY <2>1
  <2> DEFINE read == [Start EXCEPT !.pc = "read", !.sub = s]
  <2>2. CASE task' = [task EXCEPT ![Rec] = read]
    <3>1. read.pc = "read"
      BY DEF Start
    <3> HIDE DEF read
    <3> QED
      BY <1>0, <2>2, <3>1, VodAssumption DEF TaskShape, Tasks
  <2> QED
    BY <1>1, <2>1, <2>2
<1> QED
  BY ZenonT(60), <1>2, <1>3, <1>4, StillWhole

\* A crash, the recovery's reads, the broker and the asset's own requests.
LEMMA OtherWhole ==
  ASSUME IInv, WholeInv, Fixed,
         \/ CreateUpload \/ CompleteUpload \/ InsertAsset \/ DeleteAsset \/ recoverOne
         \/ Crash \/ UNCHANGED vars \/ \E s \in Submits : BrokerWorks(s)
  PROVE  WholeInv'
<1>0. TaskShape /\ ProductShape
  BY DEF IInv, WholeInv
<1>1. UNCHANGED <<op, rend, job, playback>>
  BY ZenonT(60) DEF CreateUpload, CompleteUpload, InsertAsset, DeleteAsset, recoverOne, Crash,
     BrokerWorks, vars, product
<1>2. ProductShape' /\ (asset'.status = "ready" => asset.status = "ready")
  <2>1. \/ UNCHANGED asset
        \/ asset' = [asset EXCEPT !.status = "preparing"]
        \/ asset' = [asset EXCEPT !.status = "preparing", !.source = TRUE]
        \/ asset' = [asset EXCEPT !.status = "deleted", !.deleted = TRUE]
    BY ZenonT(60) DEF CreateUpload, CompleteUpload, InsertAsset, DeleteAsset, recoverOne,
       Crash, BrokerWorks, updateStatus, vars, product
  <2>2. ProductShape'
    BY ZenonT(60), <1>0, <1>1, <2>1 DEF ProductShape
  <2>3. asset'.status = "ready" => asset.status = "ready"
    BY ZenonT(60), <1>0, <2>1 DEF ProductShape
  <2> QED
    BY <2>2, <2>3
<1>3. AllOrNothing'
  BY <1>1, <1>2, ViewKeeps
<1>4. /\ \A s \in Submits : task'[s].pc \in Preparing => task[s].pc \in Preparing
      /\ \A t \in Tasks : task'[t].pc = "terminal" => task'[t] = task[t]
  <2>1. CASE UNCHANGED task
    BY <2>1
  <2>2. CASE recoverOne
    <3>1. CASE Ends(Rec)
      BY <1>0, <3>1, EndsLands, VodAssumption DEF Lands, Tasks
    <3>2. ASSUME NEW rows, task' = [task EXCEPT ![Rec].pc = "open", ![Rec].rows = rows]
          PROVE  <1>4
      BY ZenonT(60), <1>0, <3>2, VodAssumption DEF TaskShape, Tasks
    <3> QED
      BY ZenonT(60), <2>2, <3>1, <3>2 DEF recoverOne
  <2>3. CASE Crash
    <3> DEFINE end == [Start EXCEPT !.pc = "over"]
    <3>1. Start.pc = "idle" /\ end.pc = "over"
      BY DEF Start
    <3>2. task' = [t \in Tasks |-> IF t = Rec \/ task[t].pc = "idle" THEN Start ELSE end]
      BY <2>3 DEF Crash
    <3> HIDE DEF end
    <3> QED
      BY SMTT(60), ZenonT(60), <3>1, <3>2, VodAssumption DEF Tasks, Preparing
  <2> QED
    BY ZenonT(60), <2>1, <2>2, <2>3 DEF CreateUpload, CompleteUpload, InsertAsset, DeleteAsset,
       BrokerWorks, vars
<1> QED
  BY <1>1, <1>2, <1>3, <1>4, StillWhole

\* Every step keeps the second invariant.
LEMMA NextWholeInv == IInv /\ WholeInv /\ [Next]_vars => WholeInv'
<1> SUFFICES ASSUME IInv, WholeInv, Next \/ UNCHANGED vars PROVE WholeInv'
  OBVIOUS
<1>1. Fixed
  BY FixedStep
<1>2. ASSUME NEW t \in Tasks, ExecuteStep(t) PROVE WholeInv'
  BY <1>1, <1>2, ExecuteWhole, SettleWhole, RecordWhole, TerminalWhole DEF ExecuteStep
<1> QED
  BY ZenonT(60), <1>1, <1>2, SubmitWhole, LeaseWhole, OtherWhole DEF Next

\* The customer's view of an asset changes as a whole, and what is played was
\* delivered, accounted for and within its funding.
THEOREM AllOrNothingHolds == Spec => []AllOrNothing
<1>1. Init => IInv /\ WholeInv
  BY InitIInv, InitWholeInv
<1>2. IInv /\ WholeInv /\ [Next]_vars => (IInv /\ WholeInv)'
  BY NextIInv, NextWholeInv
<1>3. WholeInv => AllOrNothing
  BY DEF WholeInv
<1> QED
  BY <1>1, <1>2, <1>3, PTL DEF Spec
=============================================================================
