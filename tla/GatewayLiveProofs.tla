------------------------- MODULE GatewayLiveProofs --------------------------
(***************************************************************************)
(* Theorems about GatewayLive, for any connections and any number of        *)
(* publishes, ends and faults.                                              *)
(***************************************************************************)
EXTENDS GatewayLive, TLAPS

Usable == {"active", "relay_starting", "reconcile_pending"}

\* The row, the claim on it and the outside agree on whether there is a session.
SessionInv ==
    /\ Open <=> row.context # "none"
    /\ holder # Nobody => Open
    /\ row.status = "absent" => loc = "none" /\ broker = "none"
    /\ row.status = "settled" => loc = "closed" /\ broker = "closed"
    /\ row.status \in Winddown => row.reason

\* Before the insert nothing runs but the opening request.
AbsentInv ==
    /\ open \in {"start", "create"} => row.status = "absent"
    /\ row.status = "absent" =>
         /\ open \in {"start", "create", "done"}
         /\ rec.pc = "idle"
         /\ stream \in {"none", "idle"}
         /\ \A p \in Conns : up[p] = "idle" /\ down[p] = "idle" /\ child[p] = "none"

\* What a task knows at its steps: the broker's close and LOC's acceptance before
\* the settlement, the session lease before the key, the context before the
\* activation and before any relay.
TaskInv ==
    /\ rec.pc \in {"close", "settle"} => broker = "closed"
    /\ rec.pc = "settle" => loc = "closed"
    /\ open = "issue" \/ rec.pc = "issue" => row.lease # "none"
    /\ open = "activate" \/ rec.pc = "activate" => row.context # "intent"
    /\ \A p \in Conns :
         up[p] \in {"mark", "marked"} \/ down[p] # "idle" \/ child[p] # "none"
             => row.context # "intent"

\* A usable status needs the stored context, the context the session lease.
ReadyInv ==
    /\ row.status \in Usable => row.context = "full"
    /\ row.context = "full" => row.lease # "none"

IInv == TypeOK /\ SessionInv /\ AbsentInv /\ TaskInv /\ ReadyInv

-----------------------------------------------------------------------------
(* What the operations on the row leave of the columns the invariant reads. *)

RowBecomes(status, context, lease, reason) ==
    /\ row' \in RowType
    /\ row'.status = status
    /\ row'.context = context
    /\ row'.lease = lease
    /\ row'.reason = reason

RowKept == RowBecomes(row.status, row.context, row.lease, row.reason)

\* The tasks have different names, and none is called Nobody.
LEMMA TaskNames ==
    /\ Opener \in Tasks /\ Rec \in Tasks /\ Nobody \notin Tasks
    /\ \A p \in Conns : Up(p) \in Tasks /\ Down(p) \in Tasks
BY DEF Tasks, Opener, Rec, Up, Down, Nobody

\* A claim keeps the session's columns and names this process as the owner.
LEMMA RowClaim ==
    ASSUME NEW t, row \in RowType, Claim(t)
    PROVE  RowKept /\ row'.owner = "this" /\ holder' = t
BY ZenonT(60) DEF Claim, RowType, RowKept, RowBecomes

\* A release keeps the session's columns, and the claim of anybody else.
LEMMA RowRelease ==
    ASSUME NEW t, row \in RowType, Release(t)
    PROVE  /\ RowKept
           /\ holder' = Nobody \/ (holder' = holder /\ row'.owner = row.owner)
BY ZenonT(60) DEF Release, RowType, RowKept, RowBecomes

\* The broker's answer to an open is recorded with the session lease.
LEMMA RowOpened ==
    ASSUME NEW t, row \in RowType, RecordOpened(t)
    PROVE  /\ Fence(t) => /\ RowBecomes("issuing_key", row.context, row'.lease,
                                        row.reason)
                          /\ row'.lease # "none"
           /\ ~Fence(t) => RowKept
           /\ row'.owner = row.owner
<1>1. CASE ~Fence(t)
  BY <1>1 DEF RecordOpened, RowKept, RowBecomes
<1>2. CASE Fence(t)
  <2>1. row' = [row EXCEPT !.status = "issuing_key", !.retry = FALSE,
                           !.lease = IF @ = "none" THEN "running" ELSE @]
    BY <1>2 DEF RecordOpened
  <2>2. row' \in RowType
    <3>1. PICK lease \in {"none", "running", "expired"} :
             row' = [row EXCEPT !.status = "issuing_key", !.retry = FALSE, !.lease = lease]
      BY ZenonT(60), <2>1 DEF RowType
    <3> QED BY ZenonT(60), <3>1 DEF RowType, Statuses
  <2>3. row'.status = "issuing_key" /\ row'.context = row.context
        /\ row'.reason = row.reason /\ row'.lease # "none" /\ row'.owner = row.owner
    BY <2>1, SMTT(30) DEF RowType
  <2> QED BY <1>2, <2>2, <2>3 DEF RowBecomes
<1> QED BY <1>1, <1>2

\* Storing the secrets changes the context alone.
LEMMA RowPut ==
    ASSUME NEW t, row \in RowType, PutContext(t)
    PROVE  /\ Fence(t) => RowBecomes(row.status, "full", row.lease, row.reason)
           /\ ~Fence(t) => RowKept
           /\ row'.owner = row.owner
BY DEF PutContext, RowType, RowKept, RowBecomes

\* Recording "active" changes the status alone.
LEMMA RowActive ==
    ASSUME NEW t, row \in RowType, RecordActive(t)
    PROVE  /\ Fence(t) => RowBecomes("active", row.context, row.lease, row.reason)
           /\ ~Fence(t) => RowKept
           /\ row'.owner = row.owner
BY ZenonT(60) DEF RecordActive, RowType, RowKept, RowBecomes, Statuses

\* A relay's write changes the status and the relay's loss, and drops the claim.
LEMMA RowRelay ==
    ASSUME NEW status \in Statuses, NEW gone \in {"no", "grace", "over"},
           row \in RowType,
           \/ WriteAndRelease([row EXCEPT !.status = status])
           \/ WriteAndRelease([row EXCEPT !.status = status, !.gone = gone])
    PROVE  /\ RowBecomes(status, row.context, row.lease, row.reason)
           /\ holder' = Nobody
<1>1. PICK g \in {"no", "grace", "over"} :
         row' = [row EXCEPT !.status = status, !.gone = g, !.retry = FALSE,
                            !.owner = "none", !.fresh = FALSE]
  <2>1. CASE WriteAndRelease([row EXCEPT !.status = status])
    <3>1. row' = [row EXCEPT !.status = status, !.gone = row.gone, !.retry = FALSE,
                             !.owner = "none", !.fresh = FALSE]
      BY ZenonT(60), <2>1 DEF WriteAndRelease, RowType
    <3>2. row.gone \in {"no", "grace", "over"}
      BY DEF RowType
    <3> QED BY ZenonT(60), <3>1, <3>2
  <2>2. CASE WriteAndRelease([row EXCEPT !.status = status, !.gone = gone])
    BY ZenonT(60), <2>2 DEF WriteAndRelease, RowType
  <2> QED BY <2>1, <2>2
<1>2. row' \in RowType
  BY ZenonT(60), <1>1 DEF RowType
<1>3. row'.status = status /\ row'.context = row.context
      /\ row'.lease = row.lease /\ row'.reason = row.reason
  BY <1>1 DEF RowType
<1> QED BY <1>2, <1>3 DEF RowBecomes, WriteAndRelease

\* The catch block of a pass only schedules a retry.
LEMMA RowCatch ==
    ASSUME row \in RowType, Catch
    PROVE  /\ RowKept
           /\ holder' = Nobody \/ (holder' = holder /\ row'.owner = row.owner)
BY ZenonT(60) DEF Catch, RowType, RowKept, RowBecomes

\* Time changes no status, context or reason, and a lease it ends was there.
LEMMA RowPasses ==
    ASSUME row \in RowType,
           \/ Passes("fresh", TRUE, FALSE)
           \/ Passes("lease", "running", "expired")
           \/ Passes("gone", "grace", "over")
           \/ Passes("retry", TRUE, FALSE)
    PROVE  /\ RowBecomes(row.status, row.context, row'.lease, row.reason)
           /\ row'.lease = "none" <=> row.lease = "none"
           /\ row'.owner = row.owner
           /\ UNCHANGED <<holder, stream, processVars, broker, loc>>
<1>1. CASE Passes("fresh", TRUE, FALSE)
  BY ZenonT(60), <1>1 DEF Passes, RowType, RowBecomes
<1>2. CASE Passes("lease", "running", "expired")
  BY <1>2 DEF Passes, RowType, RowBecomes
<1>3. CASE Passes("gone", "grace", "over")
  BY <1>3 DEF Passes, RowType, RowBecomes
<1>4. CASE Passes("retry", TRUE, FALSE)
  BY ZenonT(60), <1>4 DEF Passes, RowType, RowBecomes
<1> QED BY ZenonT(60), <1>1, <1>2, <1>3, <1>4

\* A task that passes the fence works on a session that is open.
LEMMA FencedOpen ==
    ASSUME IInv, NEW t \in Tasks, Fence(t)
    PROVE  Open /\ row.context \in {"intent", "full"}
BY TaskNames DEF Fence, IInv, TypeOK, RowType, SessionInv

\* The end of a pass: a failed end is recorded, or the claim was lost.
LEMMA RowEndFail ==
    ASSUME row \in RowType, RecEndFail
    PROVE  \/ /\ row'.status \in Winddown
              /\ RowBecomes(row'.status, row.context, row.lease, TRUE)
              /\ holder' = Nobody /\ Fence(Rec)
           \/ row' = row /\ holder' = holder
<1>1. CASE ~Fence(Rec)
  BY ZenonT(60), <1>1 DEF RecEndFail
<1>2. CASE Fence(Rec)
  <2>1. PICK status \in Winddown :
          row' = [row EXCEPT !.status = status, !.reason = TRUE, !.retry = TRUE]
    BY ZenonT(60), <1>2 DEF RecEndFail, Winddown
  <2>2. RowBecomes(status, row.context, row.lease, TRUE)
    BY ZenonT(60), <2>1 DEF RowType, RowBecomes, Statuses
  <2>3. holder' = Nobody
    BY ZenonT(60), <1>2 DEF RecEndFail
  <2> QED BY SMTT(60), ZenonT(60), <1>2, <2>2, <2>3 DEF RowBecomes
<1> QED BY ZenonT(60), <1>1, <1>2

\* The settlement, or a lost claim.
LEMMA RowSettle ==
    ASSUME row \in RowType, RecSettle
    PROVE  \/ /\ RowBecomes("settled", "none", row.lease, row.reason)
              /\ holder' = Nobody /\ Fence(Rec)
           \/ row' = row /\ holder' = holder
<1>1. CASE ~Fence(Rec)
  BY <1>1 DEF RecSettle
<1>2. CASE Fence(Rec)
  <2>1. /\ row' = [row EXCEPT !.status = "settled", !.owner = "none",
                              !.fresh = FALSE, !.retry = FALSE, !.context = "none"]
        /\ holder' = Nobody
    BY <1>2 DEF RecSettle
  <2>2. row' \in RowType
    BY ZenonT(60), <2>1 DEF RowType, Statuses
  <2>3. row'.status = "settled" /\ row'.context = "none" /\ row'.lease = row.lease
        /\ row'.reason = row.reason
    BY <2>1 DEF RowType
  <2> QED BY <1>2, <2>1, <2>2, <2>3 DEF RowBecomes
<1> QED BY <1>1, <1>2

\* An ended session is recorded as such, or the claim was lost.
LEMMA RowEnded ==
    ASSUME row \in RowType, RecEnded
    PROVE  /\ \/ /\ RowBecomes("winddown_pending", row.context, row.lease, TRUE)
                 /\ Fence(Rec)
              \/ RowKept
           /\ row'.owner = row.owner
<1>1. CASE ~Fence(Rec)
  BY <1>1 DEF RecEnded, RowKept, RowBecomes
<1>2. CASE Fence(Rec)
  BY ZenonT(60), <1>2 DEF RecEnded, RowType, RowBecomes, Statuses, Winddown
<1> QED BY ZenonT(60), <1>1, <1>2

\* The last claim of a pass is given back at once.
LEMMA RowReclaim ==
    ASSUME row \in RowType, RecReclaim
    PROVE  /\ RowKept
           /\ holder' = Nobody \/ (holder' = holder /\ row'.owner = row.owner)
<1>1. CASE ~Claimable
  BY <1>1 DEF RecReclaim, RowKept, RowBecomes
<1>2. CASE Claimable
  BY ZenonT(60), <1>2 DEF RecReclaim, RowType, RowKept, RowBecomes
<1> QED BY <1>1, <1>2

\* A step of the pass to a known place, with "outer" kept.
LEMMA RecMoves ==
    ASSUME NEW pc \in RecSteps, rec \in [pc : RecSteps, outer : BOOLEAN],
           RecGoes(pc)
    PROVE  rec' \in [pc : RecSteps, outer : BOOLEAN] /\ rec'.pc = pc
BY DEF RecGoes

\* Where a pass goes from what it read.
LEMMA ReadGoes ==
    ASSUME IInv, RecRead
    PROVE  \E pc \in {"release", "end", "control", "reopen", "fail"} : RecGoes(pc)
<1>1. CASE ~Fence(Rec)
  BY <1>1 DEF RecRead
<1>2. CASE Fence(Rec)
  BY <1>2, TaskNames, FencedOpen DEF RecRead
<1> QED BY <1>1, <1>2

-----------------------------------------------------------------------------
(* The opening request keeps the invariant.                                 *)

\* The stream's own row comes before any session.
LEMMA OpenInsertStep ==
    ASSUME IInv, OpenInsert
    PROVE  IInv'
<1>1. TypeOK'
  BY DEF OpenInsert, insertStream, OpenFrame, IInv, TypeOK, OpenSteps
<1>2. AbsentInv'
  BY DEF OpenInsert, insertStream, OpenFrame, IInv, SessionInv, AbsentInv, Open
<1>3. TaskInv'
  BY DEF OpenInsert, insertStream, OpenFrame, IInv, TypeOK, SessionInv, TaskInv, Open
<1>4. SessionInv' /\ ReadyInv'
  BY DEF OpenInsert, insertStream, OpenFrame, IInv, SessionInv, ReadyInv, Open
<1> QED BY <1>1, <1>2, <1>3, <1>4 DEF IInv

\* The operation is inserted with its intent and the opener's claim.
LEMMA OpenCreateStep ==
    ASSUME IInv, OpenCreate
    PROVE  IInv'
<1>0. /\ RowBecomes("opening", "intent", row.lease, row.reason)
      /\ row'.owner = "this"
  BY ZenonT(60) DEF OpenCreate, Statuses, IInv, TypeOK, RowType, RowKept, RowBecomes
<1>1. TypeOK'
  BY <1>0, TaskNames DEF OpenCreate, OpenFrame, IInv, TypeOK, OpenSteps,
         RowKept, RowBecomes
<1>2. SessionInv'
  BY <1>0, TaskNames DEF OpenCreate, OpenFrame, IInv, TypeOK, SessionInv, Open,
         Winddown, RowKept, RowBecomes
<1>3. AbsentInv'
  BY <1>0, TaskNames DEF OpenCreate, OpenFrame, IInv, TypeOK, SessionInv,
         AbsentInv, Open, RowKept, RowBecomes
<1>4. TaskInv'
  BY <1>0, TaskNames DEF OpenCreate, OpenFrame, IInv, TypeOK, SessionInv,
         TaskInv, Open, AbsentInv, RowKept, RowBecomes
<1>5. ReadyInv'
  BY <1>0, TaskNames DEF OpenCreate, OpenFrame, IInv, TypeOK, SessionInv,
         TaskInv, ReadyInv, Open, Usable, Winddown, RowKept, RowBecomes
<1> QED BY <1>1, <1>2, <1>3, <1>4, <1>5 DEF IInv

\* However a call of an open fails, LOC and the broker have what they had or what
\* they were asked for.
LEMMA FailedOpen ==
    ASSUME OpenFailed
    PROVE  /\ Fault
           /\ \/ UNCHANGED <<loc, broker>>
              \/ openSession /\ UNCHANGED broker
              \/ openSession /\ brokerOpen
BY DEF OpenFailed, prepareSession

\* A refused open leaves a refused session and LOC's operation open or closed.
LEMMA RefusedOpen ==
    ASSUME OpenRefused
    PROVE  /\ broker \in {"none", "refused"} /\ broker' = "refused"
           /\ openSession \/ loc' = "closed"
BY DEF OpenRefused, settleCapacityOpen, closeSession

\* Something may exist outside only once the row does.
LEMMA OpenCallStep ==
    ASSUME IInv, OpenCall
    PROVE  IInv'
<1>1. TypeOK'
  BY FailedOpen, RefusedOpen, RowOpened, FencedOpen, TaskNames DEF OpenCall, OpenFrame, OpenAccepted,
         openSession, brokerOpen, Fault, IInv, TypeOK, OpenSteps, RowKept, RowBecomes
<1>2. SessionInv'
  BY FailedOpen, RefusedOpen, RowOpened, FencedOpen, TaskNames DEF OpenCall, OpenFrame, OpenAccepted,
         openSession, brokerOpen, Fault, IInv, TypeOK, SessionInv, Open, Winddown,
         AbsentInv, RowKept, RowBecomes
<1>3. AbsentInv'
  BY FailedOpen, RefusedOpen, RowOpened, FencedOpen, TaskNames DEF OpenCall, OpenFrame, OpenAccepted,
         openSession, brokerOpen, Fault, IInv, TypeOK, SessionInv, AbsentInv, Open, RowKept,
         RowBecomes
<1>4. TaskInv'
  BY FailedOpen, RefusedOpen, RowOpened, FencedOpen, TaskNames DEF OpenCall, OpenFrame, OpenAccepted,
         openSession, brokerOpen, Fault, IInv, TypeOK, SessionInv, TaskInv, Open, RowKept,
         RowBecomes
<1>5. ReadyInv'
  BY FailedOpen, RefusedOpen, RowOpened, FencedOpen, TaskNames DEF OpenCall, OpenFrame, OpenAccepted,
         openSession, brokerOpen, Fault, IInv, TypeOK, SessionInv, TaskInv, ReadyInv, Open,
         Usable, Winddown, RowKept, RowBecomes
<1> QED BY <1>1, <1>2, <1>3, <1>4, <1>5 DEF IInv

\* The context is stored behind the session lease.
LEMMA OpenIssueStep ==
    ASSUME IInv, OpenIssue
    PROVE  IInv'
<1>1. TypeOK'
  BY RowPut, FencedOpen, TaskNames DEF OpenIssue, OpenFrame, KeyIssued,
         KeyRefused, Fault, IInv, TypeOK, OpenSteps, RowKept, RowBecomes
<1>2. SessionInv'
  BY RowPut, FencedOpen, TaskNames DEF OpenIssue, OpenFrame, KeyIssued,
         KeyRefused, Fault, IInv, TypeOK, SessionInv, Open, Winddown, RowKept,
         RowBecomes
<1>3. AbsentInv'
  BY RowPut, FencedOpen, TaskNames DEF OpenIssue, OpenFrame, KeyIssued,
         KeyRefused, Fault, IInv, TypeOK, SessionInv, AbsentInv, Open, RowKept,
         RowBecomes
<1>4. TaskInv'
  BY RowPut, FencedOpen, TaskNames DEF OpenIssue, OpenFrame, KeyIssued,
         KeyRefused, Fault, IInv, TypeOK, SessionInv, TaskInv, Open, RowKept,
         RowBecomes
<1>5. ReadyInv'
  BY RowPut, FencedOpen, TaskNames DEF OpenIssue, OpenFrame, KeyIssued,
         KeyRefused, Fault, IInv, TypeOK, SessionInv, TaskInv, ReadyInv, Open,
         Usable, Winddown, RowKept, RowBecomes
<1> QED BY <1>1, <1>2, <1>3, <1>4, <1>5 DEF IInv

\* Activation finds the context the request stored.
LEMMA OpenActivateStep ==
    ASSUME IInv, OpenActivate
    PROVE  IInv'
<1>1. TypeOK'
  BY RowActive, FencedOpen, TaskNames DEF OpenActivate, OpenFrame, IInv,
         TypeOK, OpenSteps, RowKept, RowBecomes
<1>2. SessionInv'
  BY RowActive, FencedOpen, TaskNames DEF OpenActivate, OpenFrame, IInv,
         TypeOK, SessionInv, Open, Winddown, RowKept, RowBecomes
<1>3. AbsentInv'
  BY RowActive, FencedOpen, TaskNames DEF OpenActivate, OpenFrame, IInv,
         TypeOK, SessionInv, AbsentInv, Open, RowKept, RowBecomes
<1>4. TaskInv'
  BY RowActive, FencedOpen, TaskNames DEF OpenActivate, OpenFrame, IInv,
         TypeOK, SessionInv, TaskInv, Open, RowKept, RowBecomes
<1>5. ReadyInv'
  BY RowActive, FencedOpen, TaskNames DEF OpenActivate, OpenFrame, IInv,
         TypeOK, SessionInv, TaskInv, ReadyInv, Open, Usable, Winddown,
         RowKept, RowBecomes
<1> QED BY <1>1, <1>2, <1>3, <1>4, <1>5 DEF IInv

\* The stream is listed after the row exists.
LEMMA OpenListStep ==
    ASSUME IInv, OpenList
    PROVE  IInv'
<1>1. TypeOK'
  BY DEF OpenList, updateStatus, OpenFrame, IInv, TypeOK, OpenSteps
<1>2. AbsentInv'
  BY DEF OpenList, updateStatus, OpenFrame, IInv, SessionInv, AbsentInv, Open
<1>3. TaskInv'
  BY DEF OpenList, updateStatus, OpenFrame, IInv, TypeOK, SessionInv, TaskInv, Open
<1>4. SessionInv' /\ ReadyInv'
  BY DEF OpenList, updateStatus, OpenFrame, IInv, SessionInv, ReadyInv, Open
<1> QED BY <1>1, <1>2, <1>3, <1>4 DEF IInv

\* The request gives its claim back, if it still has it.
LEMMA OpenReleaseStep ==
    ASSUME IInv, OpenRelease
    PROVE  IInv'
<1>1. TypeOK'
  BY RowRelease, TaskNames DEF OpenRelease, OpenFrame, IInv, TypeOK, OpenSteps,
         RowKept, RowBecomes
<1>2. SessionInv'
  BY RowRelease, TaskNames DEF OpenRelease, OpenFrame, IInv, TypeOK,
         SessionInv, Open, Winddown, RowKept, RowBecomes
<1>3. AbsentInv'
  BY RowRelease, TaskNames DEF OpenRelease, OpenFrame, IInv, TypeOK,
         SessionInv, AbsentInv, Open, RowKept, RowBecomes
<1>4. TaskInv'
  BY RowRelease, TaskNames DEF OpenRelease, OpenFrame, IInv, TypeOK,
         SessionInv, TaskInv, Open, RowKept, RowBecomes
<1>5. ReadyInv'
  BY RowRelease, TaskNames DEF OpenRelease, OpenFrame, IInv, TypeOK,
         SessionInv, TaskInv, ReadyInv, Open, Usable, Winddown, RowKept,
         RowBecomes
<1> QED BY <1>1, <1>2, <1>3, <1>4, <1>5 DEF IInv

-----------------------------------------------------------------------------
(* The reconciler keeps the invariant.                                      *)

\* A pass claims open sessions only.
LEMMA RecClaimStep ==
    ASSUME IInv, RecClaim
    PROVE  IInv'
<1>1. TypeOK'
  BY RowClaim, TaskNames DEF RecClaim, RecFrame, IInv, TypeOK, RecSteps,
         RowKept, RowBecomes
<1>2. SessionInv'
  BY RowClaim, TaskNames DEF RecClaim, RecFrame, IInv, TypeOK, SessionInv,
         Open, Winddown, RowKept, RowBecomes
<1>3. AbsentInv'
  BY RowClaim, TaskNames DEF RecClaim, RecFrame, IInv, TypeOK, SessionInv,
         AbsentInv, Open, RowKept, RowBecomes
<1>4. TaskInv'
  BY RowClaim, TaskNames DEF RecClaim, RecFrame, IInv, TypeOK, SessionInv,
         TaskInv, Open, RowKept, RowBecomes
<1>5. ReadyInv'
  BY RowClaim, TaskNames DEF RecClaim, RecFrame, IInv, TypeOK, SessionInv,
         TaskInv, ReadyInv, Open, Usable, Winddown, RowKept, RowBecomes
<1> QED BY <1>1, <1>2, <1>3, <1>4, <1>5 DEF IInv

\* What a pass reads under the fence decides where it goes.
LEMMA RecReadStep ==
    ASSUME IInv, RecRead
    PROVE  IInv'
<1>0. /\ rec' \in [pc : RecSteps, outer : BOOLEAN]
      /\ rec.pc # "idle"
      /\ rec'.pc \in {"release", "end", "control", "reopen", "fail"}
      /\ RecFrame /\ UNCHANGED <<row, holder, stream, broker, loc>>
  BY ZenonT(60), RecMoves, ReadGoes DEF RecRead, RecSteps, IInv, TypeOK, RowType, RowKept,
         RowBecomes
<1>1. TypeOK'
  BY <1>0, TaskNames DEF RecFrame, IInv, TypeOK, RecSteps, RowKept, RowBecomes
<1>2. SessionInv'
  BY <1>0, TaskNames DEF RecFrame, IInv, TypeOK, SessionInv, Open, Winddown,
         RowKept, RowBecomes
<1>3. AbsentInv'
  BY <1>0, TaskNames DEF RecFrame, IInv, TypeOK, SessionInv, AbsentInv, Open,
         RowKept, RowBecomes
<1>4. TaskInv'
  BY <1>0, TaskNames DEF RecFrame, IInv, TypeOK, SessionInv, TaskInv, Open,
         RowKept, RowBecomes
<1>5. ReadyInv'
  BY <1>0, TaskNames DEF RecFrame, IInv, TypeOK, SessionInv, TaskInv, ReadyInv,
         Open, Usable, Winddown, RowKept, RowBecomes
<1> QED BY <1>1, <1>2, <1>3, <1>4, <1>5 DEF IInv

\* The repair touches a stream whose row exists.
LEMMA RecControlStep ==
    ASSUME IInv, RecControl
    PROVE  IInv'
<1>1. TypeOK'
  BY DEF RecControl, RecFrame, RecGoes, Repair, updateStatus, IInv, TypeOK, RecSteps
<1>2. AbsentInv'
  BY DEF RecControl, RecFrame, RecGoes, Repair, updateStatus, IInv, SessionInv, AbsentInv,
         Open
<1>3. TaskInv'
  BY DEF RecControl, RecFrame, RecGoes, Repair, updateStatus, IInv, TypeOK, SessionInv,
         TaskInv, Open
<1>4. SessionInv' /\ ReadyInv'
  BY DEF RecControl, RecFrame, RecGoes, Repair, updateStatus, IInv, SessionInv, ReadyInv,
         Open
<1> QED BY <1>1, <1>2, <1>3, <1>4 DEF IInv

\* An ended session gets its reason with the status.
LEMMA RecEndedStep ==
    ASSUME IInv, RecEnded
    PROVE  IInv'
<1>0. /\ rec' \in [pc : RecSteps, outer : BOOLEAN]
      /\ rec.pc # "idle" /\ rec'.pc \in {"end", "status"}
      /\ RecFrame /\ UNCHANGED <<holder, stream, broker, loc>>
  <2>1. RecGoes("end") \/ RecGoes("status")
    BY DEF RecEnded
  <2> QED BY <2>1, RecMoves DEF RecEnded, IInv, TypeOK, RecSteps
<1>1. TypeOK'
  BY ZenonT(60), <1>0, RowEnded, FencedOpen, TaskNames DEF RecFrame, RecGoes, IInv, TypeOK,
         RecSteps, RowKept, RowBecomes
<1>2. SessionInv'
  BY ZenonT(60), <1>0, RowEnded, FencedOpen, TaskNames DEF RecFrame, RecGoes, IInv, TypeOK,
         SessionInv, Open, Winddown, RowKept, RowBecomes
<1>3. AbsentInv'
  BY ZenonT(60), <1>0, RowEnded, FencedOpen, TaskNames DEF RecFrame, RecGoes, IInv, TypeOK,
         SessionInv, AbsentInv, Open, RowKept, RowBecomes
<1>4. TaskInv'
  BY ZenonT(60), <1>0, RowEnded, FencedOpen, TaskNames DEF RecFrame, RecGoes, IInv, TypeOK,
         SessionInv, TaskInv, Open, RowKept, RowBecomes
<1>5. ReadyInv'
  BY ZenonT(60), <1>0, RowEnded, FencedOpen, TaskNames DEF RecFrame, RecGoes, IInv, TypeOK,
         SessionInv, TaskInv, ReadyInv, Open, Usable, Winddown, RowKept,
         RowBecomes
<1> QED BY <1>1, <1>2, <1>3, <1>4, <1>5 DEF IInv

\* A refused status answer only schedules a retry.
LEMMA RecStatusStep ==
    ASSUME IInv, RecStatus
    PROVE  IInv'
<1>1. TypeOK'
  BY RowCatch, TaskNames DEF RecStatus, RecFrame, RecGoes, Catch, IInv, TypeOK,
         RecSteps, RowKept, RowBecomes
<1>2. SessionInv'
  BY RowCatch, TaskNames DEF RecStatus, RecFrame, RecGoes, Catch, IInv, TypeOK,
         SessionInv, Open, Winddown, RowKept, RowBecomes
<1>3. AbsentInv'
  BY RowCatch, TaskNames DEF RecStatus, RecFrame, RecGoes, Catch, IInv, TypeOK,
         SessionInv, AbsentInv, Open, RowKept, RowBecomes
<1>4. TaskInv'
  BY RowCatch, TaskNames DEF RecStatus, RecFrame, RecGoes, Catch, IInv, TypeOK,
         SessionInv, TaskInv, Open, RowKept, RowBecomes
<1>5. ReadyInv'
  BY RowCatch, TaskNames DEF RecStatus, RecFrame, RecGoes, Catch, IInv, TypeOK,
         SessionInv, TaskInv, ReadyInv, Open, Usable, Winddown, RowKept,
         RowBecomes
<1> QED BY <1>1, <1>2, <1>3, <1>4, <1>5 DEF IInv

\* A failed pass only schedules a retry.
LEMMA RecFailStep ==
    ASSUME IInv, RecFail
    PROVE  IInv'
<1>1. TypeOK'
  BY RowCatch, TaskNames DEF RecFail, RecFrame, RecGoes, Catch, IInv, TypeOK,
         RecSteps, RowKept, RowBecomes
<1>2. SessionInv'
  BY RowCatch, TaskNames DEF RecFail, RecFrame, RecGoes, Catch, IInv, TypeOK,
         SessionInv, Open, Winddown, RowKept, RowBecomes
<1>3. AbsentInv'
  BY RowCatch, TaskNames DEF RecFail, RecFrame, RecGoes, Catch, IInv, TypeOK,
         SessionInv, AbsentInv, Open, RowKept, RowBecomes
<1>4. TaskInv'
  BY RowCatch, TaskNames DEF RecFail, RecFrame, RecGoes, Catch, IInv, TypeOK,
         SessionInv, TaskInv, Open, RowKept, RowBecomes
<1>5. ReadyInv'
  BY RowCatch, TaskNames DEF RecFail, RecFrame, RecGoes, Catch, IInv, TypeOK,
         SessionInv, TaskInv, ReadyInv, Open, Usable, Winddown, RowKept,
         RowBecomes
<1> QED BY <1>1, <1>2, <1>3, <1>4, <1>5 DEF IInv

\* The finally block gives back the claim it knows.
LEMMA RecReleaseStep ==
    ASSUME IInv, RecRelease
    PROVE  IInv'
<1>0. rec' \in [pc : RecSteps, outer : BOOLEAN]
  <2>1. CASE rec' = RecIdle
    BY <2>1 DEF RecIdle, RecSteps
  <2>2. CASE RecGoes("reclaim")
    BY <2>2, RecMoves DEF IInv, TypeOK, RecSteps
  <2> QED BY <2>1, <2>2 DEF RecRelease
<1>1. TypeOK'
  BY <1>0, RowRelease, TaskNames DEF RecRelease, RecFrame, RecGoes, RecIdle,
         IInv, TypeOK, RecSteps, RowKept, RowBecomes
<1>2. SessionInv'
  BY <1>0, RowRelease, TaskNames DEF RecRelease, RecFrame, RecGoes, RecIdle,
         IInv, TypeOK, SessionInv, Open, Winddown, RowKept, RowBecomes
<1>3. AbsentInv'
  BY <1>0, RowRelease, TaskNames DEF RecRelease, RecFrame, RecGoes, RecIdle,
         IInv, TypeOK, SessionInv, AbsentInv, Open, RowKept, RowBecomes
<1>4. TaskInv'
  BY <1>0, RowRelease, TaskNames DEF RecRelease, RecFrame, RecGoes, RecIdle,
         IInv, TypeOK, SessionInv, TaskInv, Open, RowKept, RowBecomes
<1>5. ReadyInv'
  BY <1>0, RowRelease, TaskNames DEF RecRelease, RecFrame, RecGoes, RecIdle,
         IInv, TypeOK, SessionInv, TaskInv, ReadyInv, Open, Usable, Winddown,
         RowKept, RowBecomes
<1> QED BY <1>1, <1>2, <1>3, <1>4, <1>5 DEF IInv

\* Without one it takes whatever claim there is and gives that back.
LEMMA RecReclaimStep ==
    ASSUME IInv, RecReclaim
    PROVE  IInv'
<1>1. TypeOK'
  BY RowReclaim, TaskNames DEF RecReclaim, RecFrame, RecIdle, IInv, TypeOK,
         RecSteps, RowKept, RowBecomes
<1>2. SessionInv'
  BY RowReclaim, TaskNames DEF RecReclaim, RecFrame, RecIdle, IInv, TypeOK,
         SessionInv, Open, Winddown, RowKept, RowBecomes
<1>3. AbsentInv'
  BY RowReclaim, TaskNames DEF RecReclaim, RecFrame, RecIdle, IInv, TypeOK,
         SessionInv, AbsentInv, Open, RowKept, RowBecomes
<1>4. TaskInv'
  BY RowReclaim, TaskNames DEF RecReclaim, RecFrame, RecIdle, IInv, TypeOK,
         SessionInv, TaskInv, Open, RowKept, RowBecomes
<1>5. ReadyInv'
  BY RowReclaim, TaskNames DEF RecReclaim, RecFrame, RecIdle, IInv, TypeOK,
         SessionInv, TaskInv, ReadyInv, Open, Usable, Winddown, RowKept,
         RowBecomes
<1> QED BY <1>1, <1>2, <1>3, <1>4, <1>5 DEF IInv

\* A resumed open records the broker's answer with the session lease.
LEMMA RecReopenStep ==
    ASSUME IInv, RecReopen
    PROVE  IInv'
<1>0. rec' \in [pc : RecSteps, outer : BOOLEAN]
  <2>1. CASE rec' = [pc |-> "issue", outer |-> FALSE]
    BY <2>1 DEF RecSteps
  <2>2. CASE RecGoes("release") \/ RecGoes("fail")
    BY <2>2, RecMoves DEF IInv, TypeOK, RecSteps
  <2> QED BY <2>1, <2>2 DEF RecReopen, RecGoes
<1>1. TypeOK'
  BY <1>0, FailedOpen, RefusedOpen, RowOpened, FencedOpen, TaskNames DEF RecReopen, RecFrame, RecGoes,
         openSession, brokerOpen, OpenAccepted, Fault, IInv, TypeOK, RecSteps, RowKept,
         RowBecomes
<1>2. SessionInv'
  BY <1>0, FailedOpen, RefusedOpen, RowOpened, FencedOpen, TaskNames DEF RecReopen, RecFrame, RecGoes,
         openSession, brokerOpen, OpenAccepted, Fault, IInv, TypeOK, SessionInv, Open,
         Winddown, AbsentInv, RowKept, RowBecomes
<1>3. AbsentInv'
  BY <1>0, FailedOpen, RefusedOpen, RowOpened, FencedOpen, TaskNames DEF RecReopen, RecFrame, RecGoes,
         openSession, brokerOpen, OpenAccepted, Fault, IInv, TypeOK, SessionInv, AbsentInv,
         Open, RowKept, RowBecomes
<1>4. TaskInv'
  BY <1>0, FailedOpen, RefusedOpen, RowOpened, FencedOpen, TaskNames DEF RecReopen, RecFrame, RecGoes,
         openSession, brokerOpen, OpenAccepted, Fault, IInv, TypeOK, SessionInv, TaskInv,
         Open, RowKept, RowBecomes
<1>5. ReadyInv'
  BY <1>0, FailedOpen, RefusedOpen, RowOpened, FencedOpen, TaskNames DEF RecReopen, RecFrame, RecGoes,
         openSession, brokerOpen, OpenAccepted, Fault, IInv, TypeOK, SessionInv, TaskInv,
         ReadyInv, Open, Usable, Winddown, RowKept, RowBecomes
<1> QED BY <1>1, <1>2, <1>3, <1>4, <1>5 DEF IInv

\* A resumed open stores its context behind the session lease.
LEMMA RecIssueStep ==
    ASSUME IInv, RecIssue
    PROVE  IInv'
<1>1. TypeOK'
  BY RowPut, FencedOpen, TaskNames DEF RecIssue, RecFrame, RecGoes, KeyIssued,
         KeyRefused, Fault, IInv, TypeOK, RecSteps, RowKept, RowBecomes
<1>2. SessionInv'
  BY RowPut, FencedOpen, TaskNames DEF RecIssue, RecFrame, RecGoes, KeyIssued,
         KeyRefused, Fault, IInv, TypeOK, SessionInv, Open, Winddown, RowKept,
         RowBecomes
<1>3. AbsentInv'
  BY RowPut, FencedOpen, TaskNames DEF RecIssue, RecFrame, RecGoes, KeyIssued,
         KeyRefused, Fault, IInv, TypeOK, SessionInv, AbsentInv, Open, RowKept,
         RowBecomes
<1>4. TaskInv'
  BY RowPut, FencedOpen, TaskNames DEF RecIssue, RecFrame, RecGoes, KeyIssued,
         KeyRefused, Fault, IInv, TypeOK, SessionInv, TaskInv, Open, RowKept,
         RowBecomes
<1>5. ReadyInv'
  BY RowPut, FencedOpen, TaskNames DEF RecIssue, RecFrame, RecGoes, KeyIssued,
         KeyRefused, Fault, IInv, TypeOK, SessionInv, TaskInv, ReadyInv, Open,
         Usable, Winddown, RowKept, RowBecomes
<1> QED BY <1>1, <1>2, <1>3, <1>4, <1>5 DEF IInv

\* A resumed open activates with the context it stored.
LEMMA RecActivateStep ==
    ASSUME IInv, RecActivate
    PROVE  IInv'
<1>1. TypeOK'
  BY RowActive, FencedOpen, TaskNames DEF RecActivate, RecFrame, RecGoes, IInv,
         TypeOK, RecSteps, RowKept, RowBecomes
<1>2. SessionInv'
  BY RowActive, FencedOpen, TaskNames DEF RecActivate, RecFrame, RecGoes, IInv,
         TypeOK, SessionInv, Open, Winddown, RowKept, RowBecomes
<1>3. AbsentInv'
  BY RowActive, FencedOpen, TaskNames DEF RecActivate, RecFrame, RecGoes, IInv,
         TypeOK, SessionInv, AbsentInv, Open, RowKept, RowBecomes
<1>4. TaskInv'
  BY RowActive, FencedOpen, TaskNames DEF RecActivate, RecFrame, RecGoes, IInv,
         TypeOK, SessionInv, TaskInv, Open, RowKept, RowBecomes
<1>5. ReadyInv'
  BY RowActive, FencedOpen, TaskNames DEF RecActivate, RecFrame, RecGoes, IInv,
         TypeOK, SessionInv, TaskInv, ReadyInv, Open, Usable, Winddown,
         RowKept, RowBecomes
<1> QED BY <1>1, <1>2, <1>3, <1>4, <1>5 DEF IInv

\* The stream is listed after the row exists.
LEMMA RecPublishStep ==
    ASSUME IInv, RecPublish
    PROVE  IInv'
<1>1. TypeOK'
  BY DEF RecPublish, RecFrame, RecGoes, Repair, updateStatus, IInv, TypeOK, RecSteps
<1>2. AbsentInv'
  BY DEF RecPublish, RecFrame, RecGoes, Repair, updateStatus, IInv, SessionInv, AbsentInv,
         Open
<1>3. TaskInv'
  BY DEF RecPublish, RecFrame, RecGoes, Repair, updateStatus, IInv, TypeOK, SessionInv,
         TaskInv, Open
<1>4. SessionInv' /\ ReadyInv'
  BY DEF RecPublish, RecFrame, RecGoes, Repair, updateStatus, IInv, SessionInv, ReadyInv,
         Open
<1> QED BY <1>1, <1>2, <1>3, <1>4 DEF IInv

\* Only a session the broker has closed goes on to LOC.
LEMMA RecEndStep ==
    ASSUME IInv, RecEnd
    PROVE  IInv'
<1>1. TypeOK'
  BY DEF RecEnd, RecFrame, RecGoes, BrokerEnd, Fault, IInv, TypeOK, RecSteps
<1>2. SessionInv'
  BY DEF RecEnd, RecFrame, RecGoes, BrokerEnd, Fault, IInv, TypeOK, SessionInv,
         Open, Winddown, AbsentInv
<1>3. AbsentInv'
  BY DEF RecEnd, RecFrame, RecGoes, BrokerEnd, Fault, IInv, TypeOK, SessionInv,
         AbsentInv, Open
<1>4. TaskInv'
  BY DEF RecEnd, RecFrame, RecGoes, BrokerEnd, Fault, IInv, TypeOK, SessionInv,
         TaskInv, Open
<1>5. ReadyInv'
  BY DEF RecEnd, RecFrame, RecGoes, BrokerEnd, Fault, IInv, TypeOK, ReadyInv
<1> QED BY <1>1, <1>2, <1>3, <1>4, <1>5 DEF IInv

\* A close goes on once LOC has accepted it; however it fails, LOC has what it had
\* or has closed.
LEMMA ClosedOutcome ==
    ASSUME RecClose
    PROVE  /\ rec.pc = "close"
           /\ \/ Fault /\ (UNCHANGED loc \/ loc' = "closed") /\ RecGoes("endFail")
              \/ loc' = "closed" /\ UNCHANGED spent /\ RecGoes("settle")
           /\ RecFrame
           /\ UNCHANGED <<row, holder, stream, broker>>
BY DEF RecClose, closeSession

\* Only an operation LOC has closed goes on to the settlement.
LEMMA RecCloseStep ==
    ASSUME IInv, RecClose
    PROVE  IInv'
<1>1. TypeOK'
  BY ClosedOutcome DEF RecFrame, RecGoes, Fault, IInv, TypeOK, RecSteps
<1>2. SessionInv'
  BY ClosedOutcome DEF RecFrame, RecGoes, Fault, IInv, TypeOK, SessionInv, Open,
         Winddown, AbsentInv
<1>3. AbsentInv'
  BY ClosedOutcome DEF RecFrame, RecGoes, Fault, IInv, TypeOK, SessionInv,
         AbsentInv, Open
<1>4. TaskInv'
  BY ClosedOutcome DEF RecFrame, RecGoes, Fault, IInv, TypeOK, SessionInv, TaskInv,
         Open
<1>5. ReadyInv'
  BY SMTT(60), ZenonT(60), ClosedOutcome DEF RecFrame, RecGoes, Fault, IInv, TypeOK, ReadyInv
<1> QED BY <1>1, <1>2, <1>3, <1>4, <1>5 DEF IInv

\* A failed end leaves the session open, with its reason.
LEMMA RecEndFailStep ==
    ASSUME IInv, RecEndFail
    PROVE  IInv'
<1>0. /\ rec' \in [pc : RecSteps, outer : BOOLEAN]
      /\ rec.pc # "idle" /\ rec'.pc = "release"
      /\ RecFrame /\ UNCHANGED <<stream, broker, loc>>
  BY ZenonT(60), RecMoves DEF RecEndFail, RecSteps, IInv, TypeOK, RowType, RowKept,
         RowBecomes
<1>1. TypeOK'
  BY ZenonT(60), <1>0, RowEndFail, FencedOpen, TaskNames DEF RecFrame, RecGoes, IInv,
         TypeOK, RecSteps, RowKept, RowBecomes
<1>2. SessionInv'
  BY ZenonT(60), <1>0, RowEndFail, FencedOpen, TaskNames DEF RecFrame, RecGoes, IInv,
         TypeOK, SessionInv, Open, Winddown, RowKept, RowBecomes
<1>3. AbsentInv'
  BY ZenonT(60), <1>0, RowEndFail, FencedOpen, TaskNames DEF RecFrame, RecGoes, IInv,
         TypeOK, SessionInv, AbsentInv, Open, Winddown, RowKept, RowBecomes
<1>4. TaskInv'
  BY ZenonT(60), <1>0, RowEndFail, FencedOpen, TaskNames DEF RecFrame, RecGoes, IInv,
         TypeOK, SessionInv, TaskInv, Open, RowKept, RowBecomes
<1>5. ReadyInv'
  BY ZenonT(60), <1>0, RowEndFail, FencedOpen, TaskNames DEF RecFrame, RecGoes, IInv,
         TypeOK, SessionInv, TaskInv, ReadyInv, Open, Usable, Winddown,
         RowKept, RowBecomes
<1> QED BY <1>1, <1>2, <1>3, <1>4, <1>5 DEF IInv

\* The settlement comes after the broker and LOC have closed.
LEMMA RecSettleStep ==
    ASSUME IInv, RecSettle
    PROVE  IInv'
<1>1. TypeOK'
  BY RowSettle, FencedOpen, TaskNames DEF RecSettle, RecFrame, RecGoes, IInv,
         TypeOK, RecSteps, RowKept, RowBecomes
<1>2. SessionInv'
  BY RowSettle, FencedOpen, TaskNames DEF RecSettle, RecFrame, RecGoes, IInv,
         TypeOK, SessionInv, Open, Winddown, TaskInv, RowKept, RowBecomes
<1>3. AbsentInv'
  BY RowSettle, FencedOpen, TaskNames DEF RecSettle, RecFrame, RecGoes, IInv,
         TypeOK, SessionInv, AbsentInv, Open, RowKept, RowBecomes
<1>4. TaskInv'
  BY RowSettle, FencedOpen, TaskNames DEF RecSettle, RecFrame, RecGoes, IInv,
         TypeOK, SessionInv, TaskInv, Open, RowKept, RowBecomes
<1>5. ReadyInv'
  BY RowSettle, FencedOpen, TaskNames DEF RecSettle, RecFrame, RecGoes, IInv,
         TypeOK, SessionInv, TaskInv, ReadyInv, Open, Usable, Winddown,
         RowKept, RowBecomes
<1> QED BY <1>1, <1>2, <1>3, <1>4, <1>5 DEF IInv

-----------------------------------------------------------------------------
(* The dispatcher keeps the invariant.                                      *)

\* A publisher needs a listed stream.
LEMMA PublishStep ==
    ASSUME IInv, NEW p \in Conns, Publish(p)
    PROVE  IInv'
<1>1. TypeOK'
  BY DEF Publish, PubFrame, UpGoes, IInv, TypeOK, UpSteps
<1>2. AbsentInv'
  BY DEF Publish, PubFrame, UpGoes, IInv, SessionInv, AbsentInv, Open
<1>3. TaskInv'
  BY DEF Publish, PubFrame, UpGoes, IInv, TypeOK, SessionInv, TaskInv, Open
<1>4. SessionInv' /\ ReadyInv'
  BY DEF Publish, PubFrame, UpGoes, IInv, SessionInv, ReadyInv, Open
<1> QED BY <1>1, <1>2, <1>3, <1>4 DEF IInv

\* The dispatcher claims open sessions only.
LEMMA UpClaimStep ==
    ASSUME IInv, NEW p \in Conns, UpClaim(p)
    PROVE  IInv'
<1>1. TypeOK'
  BY RowClaim, TaskNames DEF UpClaim, PubFrame, UpGoes, Claimable, Reject,
         IInv, TypeOK, UpSteps, RowKept, RowBecomes
<1>2. SessionInv'
  BY RowClaim, TaskNames DEF UpClaim, PubFrame, UpGoes, Claimable, Reject,
         IInv, TypeOK, SessionInv, Open, Winddown, RowKept, RowBecomes
<1>3. AbsentInv'
  BY RowClaim, TaskNames DEF UpClaim, PubFrame, UpGoes, Claimable, Reject,
         IInv, TypeOK, SessionInv, AbsentInv, Open, RowKept, RowBecomes
<1>4. TaskInv'
  BY RowClaim, TaskNames DEF UpClaim, PubFrame, UpGoes, Claimable, Reject,
         IInv, TypeOK, SessionInv, TaskInv, Open, RowKept, RowBecomes
<1>5. ReadyInv'
  BY SMTT(60), ZenonT(60), RowClaim, TaskNames DEF UpClaim, PubFrame, UpGoes, Claimable, Reject,
         IInv, TypeOK, SessionInv, TaskInv, ReadyInv, Open, Usable, Winddown,
         RowKept, RowBecomes
<1> QED BY <1>1, <1>2, <1>3, <1>4, <1>5 DEF IInv

\* A relay is started with the stored context.
LEMMA UpStartStep ==
    ASSUME IInv, NEW p \in Conns, UpStart(p)
    PROVE  IInv'
<1>0. \/ /\ row.context = "full"
         /\ RowBecomes("relay_starting", row.context, row.lease, row.reason)
         /\ holder' = Nobody
      \/ Release(Up(p)) /\ child' = child /\ up' = [up EXCEPT ![p] = "idle"]
  BY ZenonT(60), RowRelay DEF UpStart, Statuses, UpGoes, Reject, IInv, TypeOK, RowType,
         RowKept, RowBecomes
<1>1. TypeOK'
  BY <1>0, RowRelease, TaskNames DEF UpStart, PubFrame, UpGoes, Reject, IInv,
         TypeOK, UpSteps, RowKept, RowBecomes
<1>2. SessionInv'
  BY <1>0, RowRelease, TaskNames DEF UpStart, PubFrame, UpGoes, Reject, IInv,
         TypeOK, SessionInv, Open, Winddown, RowKept, RowBecomes
<1>3. AbsentInv'
  BY <1>0, RowRelease, TaskNames DEF UpStart, PubFrame, UpGoes, Reject, IInv,
         TypeOK, SessionInv, AbsentInv, Open, RowKept, RowBecomes
<1>4. TaskInv'
  BY <1>0, RowRelease, TaskNames DEF UpStart, PubFrame, UpGoes, Reject, IInv,
         TypeOK, SessionInv, TaskInv, Open, RowKept, RowBecomes
<1>5. ReadyInv'
  BY <1>0, RowRelease, TaskNames DEF UpStart, PubFrame, UpGoes, Reject, IInv,
         TypeOK, SessionInv, TaskInv, ReadyInv, Open, Usable, Winddown,
         RowKept, RowBecomes
<1> QED BY <1>1, <1>2, <1>3, <1>4, <1>5 DEF IInv

\* A running relay has the stored context.
LEMMA UpMarkStep ==
    ASSUME IInv, NEW p \in Conns, UpMark(p)
    PROVE  IInv'
<1>1. TypeOK'
  BY RowClaim, TaskNames DEF UpMark, PubFrame, UpGoes, Claimable, IInv, TypeOK,
         UpSteps, RowKept, RowBecomes
<1>2. SessionInv'
  BY RowClaim, TaskNames DEF UpMark, PubFrame, UpGoes, Claimable, IInv, TypeOK,
         SessionInv, Open, Winddown, RowKept, RowBecomes
<1>3. AbsentInv'
  BY RowClaim, TaskNames DEF UpMark, PubFrame, UpGoes, Claimable, IInv, TypeOK,
         SessionInv, AbsentInv, Open, RowKept, RowBecomes
<1>4. TaskInv'
  BY RowClaim, TaskNames DEF UpMark, PubFrame, UpGoes, Claimable, IInv, TypeOK,
         SessionInv, TaskInv, Open, RowKept, RowBecomes
<1>5. ReadyInv'
  BY SMTT(60), ZenonT(60), RowClaim, TaskNames DEF UpMark, PubFrame, UpGoes, Claimable, IInv, TypeOK,
         SessionInv, TaskInv, ReadyInv, Open, Usable, Winddown, RowKept,
         RowBecomes
<1> QED BY <1>1, <1>2, <1>3, <1>4, <1>5 DEF IInv

\* The status a relay writes needs the stored context.
LEMMA UpMarkedStep ==
    ASSUME IInv, NEW p \in Conns, UpMarked(p)
    PROVE  IInv'
<1>0. \/ /\ RowBecomes("active", row.context, row.lease, row.reason)
         /\ holder' = Nobody /\ Fence(Up(p))
      \/ row' = row /\ holder' = holder
  BY ZenonT(60), RowRelay DEF UpMarked, Statuses, IInv, TypeOK, RowType, RowKept,
         RowBecomes
<1>1. TypeOK'
  BY <1>0, FencedOpen, TaskNames DEF UpMarked, PubFrame, UpGoes, IInv, TypeOK,
         UpSteps, RowKept, RowBecomes
<1>2. SessionInv'
  BY <1>0, FencedOpen, TaskNames DEF UpMarked, PubFrame, UpGoes, IInv, TypeOK,
         SessionInv, Open, Winddown, RowKept, RowBecomes
<1>3. AbsentInv'
  BY <1>0, FencedOpen, TaskNames DEF UpMarked, PubFrame, UpGoes, IInv, TypeOK,
         SessionInv, AbsentInv, Open, RowKept, RowBecomes
<1>4. TaskInv'
  BY <1>0, FencedOpen, TaskNames DEF UpMarked, PubFrame, UpGoes, IInv, TypeOK,
         SessionInv, TaskInv, Open, RowKept, RowBecomes
<1>5. ReadyInv'
  BY <1>0, FencedOpen, TaskNames DEF UpMarked, PubFrame, UpGoes, IInv, TypeOK,
         SessionInv, TaskInv, ReadyInv, Open, Usable, Winddown, RowKept,
         RowBecomes
<1> QED BY <1>1, <1>2, <1>3, <1>4, <1>5 DEF IInv

\* The stream is listed after the row exists.
LEMMA UpListStep ==
    ASSUME IInv, NEW p \in Conns, UpList(p)
    PROVE  IInv'
<1>1. TypeOK'
  BY DEF UpList, updateStatus, PubFrame, UpGoes, IInv, TypeOK, UpSteps
<1>2. AbsentInv'
  BY DEF UpList, updateStatus, PubFrame, UpGoes, IInv, SessionInv, AbsentInv, Open
<1>3. TaskInv'
  BY DEF UpList, updateStatus, PubFrame, UpGoes, IInv, TypeOK, SessionInv, TaskInv, Open
<1>4. SessionInv' /\ ReadyInv'
  BY DEF UpList, updateStatus, PubFrame, UpGoes, IInv, SessionInv, ReadyInv, Open
<1> QED BY <1>1, <1>2, <1>3, <1>4 DEF IInv

\* The loss of a relay is reported for a relay that ran.
LEMMA DonePublishStep ==
    ASSUME IInv, NEW p \in Conns, DonePublish(p)
    PROVE  IInv'
<1>1. TypeOK'
  BY DEF DonePublish, PubFrame, DownGoes, Registered, IInv, TypeOK, DownSteps
<1>2. AbsentInv'
  BY DEF DonePublish, PubFrame, DownGoes, Registered, IInv, SessionInv,
         AbsentInv, Open
<1>3. TaskInv'
  BY DEF DonePublish, PubFrame, DownGoes, Registered, IInv, TypeOK, SessionInv,
         TaskInv, Open
<1>4. SessionInv' /\ ReadyInv'
  BY DEF DonePublish, PubFrame, DownGoes, Registered, IInv, SessionInv,
         ReadyInv, Open
<1> QED BY <1>1, <1>2, <1>3, <1>4 DEF IInv

\* The loss of a relay is reported for a relay that ran.
LEMMA ChildExitStep ==
    ASSUME IInv, NEW p \in Conns, ChildExit(p)
    PROVE  IInv'
<1>1. TypeOK'
  BY DEF ChildExit, PubFrame, DownGoes, IInv, TypeOK, DownSteps
<1>2. AbsentInv'
  BY DEF ChildExit, PubFrame, DownGoes, IInv, SessionInv, AbsentInv, Open
<1>3. TaskInv'
  BY DEF ChildExit, PubFrame, DownGoes, IInv, TypeOK, SessionInv, TaskInv, Open
<1>4. SessionInv' /\ ReadyInv'
  BY DEF ChildExit, PubFrame, DownGoes, IInv, SessionInv, ReadyInv, Open
<1> QED BY <1>1, <1>2, <1>3, <1>4 DEF IInv

\* The failure of a relay is reported for a relay that ran.
LEMMA ChildErrorStep ==
    ASSUME IInv, NEW p \in Conns, ChildError(p)
    PROVE  IInv'
<1>1. TypeOK'
  BY DEF ChildError, PubFrame, DownGoes, Fault, IInv, TypeOK, DownSteps
<1>2. AbsentInv'
  BY DEF ChildError, PubFrame, DownGoes, Fault, IInv, SessionInv, AbsentInv,
         Open
<1>3. TaskInv'
  BY DEF ChildError, PubFrame, DownGoes, Fault, IInv, TypeOK, SessionInv,
         TaskInv, Open
<1>4. SessionInv' /\ ReadyInv'
  BY DEF ChildError, PubFrame, DownGoes, Fault, IInv, SessionInv, ReadyInv,
         Open
<1> QED BY <1>1, <1>2, <1>3, <1>4 DEF IInv

\* The loss of a relay claims open sessions only.
LEMMA DownClaimStep ==
    ASSUME IInv, NEW p \in Conns, DownClaim(p)
    PROVE  IInv'
<1>1. TypeOK'
  BY RowClaim, TaskNames DEF DownClaim, PubFrame, DownGoes, Claimable, IInv,
         TypeOK, DownSteps, RowKept, RowBecomes
<1>2. SessionInv'
  BY RowClaim, TaskNames DEF DownClaim, PubFrame, DownGoes, Claimable, IInv,
         TypeOK, SessionInv, Open, Winddown, RowKept, RowBecomes
<1>3. AbsentInv'
  BY RowClaim, TaskNames DEF DownClaim, PubFrame, DownGoes, Claimable, IInv,
         TypeOK, SessionInv, AbsentInv, Open, RowKept, RowBecomes
<1>4. TaskInv'
  BY RowClaim, TaskNames DEF DownClaim, PubFrame, DownGoes, Claimable, IInv,
         TypeOK, SessionInv, TaskInv, Open, RowKept, RowBecomes
<1>5. ReadyInv'
  BY SMTT(60), ZenonT(60), RowClaim, TaskNames DEF DownClaim, PubFrame, DownGoes, Claimable, IInv,
         TypeOK, SessionInv, TaskInv, ReadyInv, Open, Usable, Winddown,
         RowKept, RowBecomes
<1> QED BY <1>1, <1>2, <1>3, <1>4, <1>5 DEF IInv

\* The status the loss writes needs the stored context.
LEMMA DownMarkStep ==
    ASSUME IInv, NEW p \in Conns, DownMark(p)
    PROVE  IInv'
<1>0. \/ /\ RowBecomes("reconcile_pending", row.context, row.lease, row.reason)
         /\ holder' = Nobody /\ Fence(Down(p))
      \/ row' = row /\ holder' = holder
  BY ZenonT(60), RowRelay DEF DownMark, Statuses, IInv, TypeOK, RowType, RowKept,
         RowBecomes
<1>1. TypeOK'
  BY <1>0, FencedOpen, TaskNames DEF DownMark, PubFrame, DownGoes, IInv,
         TypeOK, DownSteps, RowKept, RowBecomes
<1>2. SessionInv'
  BY <1>0, FencedOpen, TaskNames DEF DownMark, PubFrame, DownGoes, IInv,
         TypeOK, SessionInv, Open, Winddown, RowKept, RowBecomes
<1>3. AbsentInv'
  BY <1>0, FencedOpen, TaskNames DEF DownMark, PubFrame, DownGoes, IInv,
         TypeOK, SessionInv, AbsentInv, Open, RowKept, RowBecomes
<1>4. TaskInv'
  BY ZenonT(60), <1>0, FencedOpen, TaskNames DEF DownMark, PubFrame, DownGoes, IInv,
         TypeOK, SessionInv, TaskInv, Open, RowKept, RowBecomes
<1>5. ReadyInv'
  BY ZenonT(60), SMTT(60), <1>0, FencedOpen, TaskNames DEF DownMark, PubFrame, DownGoes, IInv,
         TypeOK, SessionInv, TaskInv, ReadyInv, Open, Usable, Winddown,
         RowKept, RowBecomes
<1> QED BY <1>1, <1>2, <1>3, <1>4, <1>5 DEF IInv

\* The stream is listed after the row exists.
LEMMA DownListStep ==
    ASSUME IInv, NEW p \in Conns, DownList(p)
    PROVE  IInv'
<1>1. TypeOK'
  BY DEF DownList, updateStatus, PubFrame, DownGoes, IInv, TypeOK, DownSteps
<1>2. AbsentInv'
  BY DEF DownList, updateStatus, PubFrame, DownGoes, IInv, SessionInv, AbsentInv, Open
<1>3. TaskInv'
  BY DEF DownList, updateStatus, PubFrame, DownGoes, IInv, TypeOK, SessionInv, TaskInv, Open
<1>4. SessionInv' /\ ReadyInv'
  BY DEF DownList, updateStatus, PubFrame, DownGoes, IInv, SessionInv, ReadyInv, Open
<1> QED BY <1>1, <1>2, <1>3, <1>4 DEF IInv

-----------------------------------------------------------------------------
(* The customer, the broker, time and crashes keep the invariant.           *)

\* The customer's end stores the reason and revokes every claim.
LEMMA CustomerEndStep ==
    ASSUME IInv, CustomerEnd
    PROVE  IInv'
<1>0. RowBecomes("winddown_requested", row.context, row.lease, TRUE)
  BY ZenonT(60) DEF CustomerEnd, requestSessionWinddown, Statuses, Winddown, IInv, TypeOK,
         RowType, RowKept, RowBecomes
<1>1. TypeOK'
  BY <1>0, TaskNames DEF CustomerEnd, processVars, IInv, TypeOK, RowKept,
         RowBecomes
<1>2. SessionInv'
  BY <1>0, TaskNames DEF CustomerEnd, processVars, IInv, TypeOK, SessionInv,
         Open, Winddown, RowKept, RowBecomes
<1>3. AbsentInv'
  BY <1>0, TaskNames DEF CustomerEnd, processVars, IInv, TypeOK, SessionInv,
         AbsentInv, Open, RowKept, RowBecomes
<1>4. TaskInv'
  BY <1>0, TaskNames DEF CustomerEnd, processVars, IInv, TypeOK, SessionInv,
         TaskInv, Open, RowKept, RowBecomes
<1>5. ReadyInv'
  BY <1>0, TaskNames DEF CustomerEnd, processVars, IInv, TypeOK, SessionInv,
         TaskInv, ReadyInv, Open, Usable, Winddown, RowKept, RowBecomes
<1> QED BY <1>1, <1>2, <1>3, <1>4, <1>5 DEF IInv

\* The broker closes what it had opened.
LEMMA BrokerClosesStep ==
    ASSUME IInv, BrokerCloses
    PROVE  IInv'
<1>1. TypeOK'
  BY DEF BrokerCloses, processVars, IInv, TypeOK
<1>2. SessionInv'
  BY DEF BrokerCloses, processVars, IInv, TypeOK, SessionInv, Open, Winddown
<1>3. AbsentInv'
  BY DEF BrokerCloses, processVars, IInv, TypeOK, SessionInv, AbsentInv, Open
<1>4. TaskInv'
  BY DEF BrokerCloses, processVars, IInv, TypeOK, SessionInv, TaskInv, Open
<1>5. ReadyInv'
  BY ZenonT(60) DEF BrokerCloses, processVars, IInv, TypeOK, ReadyInv
<1> QED BY <1>1, <1>2, <1>3, <1>4, <1>5 DEF IInv

\* A claim nobody remembers may expire.
LEMMA LeaseAbandonedStep ==
    ASSUME IInv, LeaseAbandoned
    PROVE  IInv'
<1>1. TypeOK'
  BY RowPasses, TaskNames DEF LeaseAbandoned, processVars, IInv, TypeOK,
         RowKept, RowBecomes
<1>2. SessionInv'
  BY ZenonT(60), RowPasses, TaskNames DEF LeaseAbandoned, processVars, IInv, TypeOK,
         SessionInv, Open, Winddown, RowKept, RowBecomes
<1>3. AbsentInv'
  BY SMTT(60), ZenonT(60), RowPasses, TaskNames DEF LeaseAbandoned, processVars, IInv, TypeOK,
         SessionInv, AbsentInv, Open, RowKept, RowBecomes
<1>4. TaskInv'
  BY ZenonT(60), RowPasses, TaskNames DEF LeaseAbandoned, processVars, IInv, TypeOK,
         SessionInv, TaskInv, Open, RowKept, RowBecomes
<1>5. ReadyInv'
  BY ZenonT(60), RowPasses, TaskNames DEF LeaseAbandoned, processVars, IInv, TypeOK,
         SessionInv, TaskInv, ReadyInv, Open, Usable, Winddown, RowKept,
         RowBecomes
<1> QED BY <1>1, <1>2, <1>3, <1>4, <1>5 DEF IInv

\* A claim may expire under the task that has it.
LEMMA LeaseOutlastedStep ==
    ASSUME IInv, LeaseOutlasted
    PROVE  IInv'
<1>1. TypeOK'
  BY RowPasses, TaskNames DEF LeaseOutlasted, processVars, IInv, TypeOK,
         RowKept, RowBecomes
<1>2. SessionInv'
  BY ZenonT(60), RowPasses, TaskNames DEF LeaseOutlasted, processVars, IInv, TypeOK,
         SessionInv, Open, Winddown, RowKept, RowBecomes
<1>3. AbsentInv'
  BY ZenonT(60), RowPasses, TaskNames DEF LeaseOutlasted, processVars, IInv, TypeOK,
         SessionInv, AbsentInv, Open, RowKept, RowBecomes
<1>4. TaskInv'
  BY ZenonT(60), RowPasses, TaskNames DEF LeaseOutlasted, processVars, IInv, TypeOK,
         SessionInv, TaskInv, Open, RowKept, RowBecomes
<1>5. ReadyInv'
  BY ZenonT(60), RowPasses, TaskNames DEF LeaseOutlasted, processVars, IInv, TypeOK,
         SessionInv, TaskInv, ReadyInv, Open, Usable, Winddown, RowKept,
         RowBecomes
<1> QED BY <1>1, <1>2, <1>3, <1>4, <1>5 DEF IInv

\* The session lease may run out.
LEMMA SessionLeaseEndsStep ==
    ASSUME IInv, SessionLeaseEnds
    PROVE  IInv'
<1>1. TypeOK'
  BY RowPasses, TaskNames DEF SessionLeaseEnds, processVars, IInv, TypeOK,
         RowKept, RowBecomes
<1>2. SessionInv'
  BY ZenonT(60), RowPasses, TaskNames DEF SessionLeaseEnds, processVars, IInv, TypeOK,
         SessionInv, Open, Winddown, RowKept, RowBecomes
<1>3. AbsentInv'
  BY SMTT(60), ZenonT(60), RowPasses, TaskNames DEF SessionLeaseEnds, processVars, IInv, TypeOK,
         SessionInv, AbsentInv, Open, RowKept, RowBecomes
<1>4. TaskInv'
  BY ZenonT(60), RowPasses, TaskNames DEF SessionLeaseEnds, processVars, IInv, TypeOK,
         SessionInv, TaskInv, Open, RowKept, RowBecomes
<1>5. ReadyInv'
  BY ZenonT(60), RowPasses, TaskNames DEF SessionLeaseEnds, processVars, IInv, TypeOK,
         SessionInv, TaskInv, ReadyInv, Open, Usable, Winddown, RowKept,
         RowBecomes
<1> QED BY <1>1, <1>2, <1>3, <1>4, <1>5 DEF IInv

\* The grace period of a lost relay may run out.
LEMMA GraceEndsStep ==
    ASSUME IInv, GraceEnds
    PROVE  IInv'
<1>1. TypeOK'
  BY RowPasses, TaskNames DEF GraceEnds, processVars, IInv, TypeOK, RowKept,
         RowBecomes
<1>2. SessionInv'
  BY ZenonT(60), RowPasses, TaskNames DEF GraceEnds, processVars, IInv, TypeOK, SessionInv,
         Open, Winddown, RowKept, RowBecomes
<1>3. AbsentInv'
  BY SMTT(60), ZenonT(60), RowPasses, TaskNames DEF GraceEnds, processVars, IInv, TypeOK, SessionInv,
         AbsentInv, Open, RowKept, RowBecomes
<1>4. TaskInv'
  BY ZenonT(60), RowPasses, TaskNames DEF GraceEnds, processVars, IInv, TypeOK, SessionInv,
         TaskInv, Open, RowKept, RowBecomes
<1>5. ReadyInv'
  BY ZenonT(60), RowPasses, TaskNames DEF GraceEnds, processVars, IInv, TypeOK, SessionInv,
         TaskInv, ReadyInv, Open, Usable, Winddown, RowKept, RowBecomes
<1> QED BY <1>1, <1>2, <1>3, <1>4, <1>5 DEF IInv

\* A retry may come due.
LEMMA RetryDueStep ==
    ASSUME IInv, RetryDue
    PROVE  IInv'
<1>1. TypeOK'
  BY RowPasses, TaskNames DEF RetryDue, processVars, IInv, TypeOK, RowKept,
         RowBecomes
<1>2. SessionInv'
  BY ZenonT(60), RowPasses, TaskNames DEF RetryDue, processVars, IInv, TypeOK, SessionInv,
         Open, Winddown, RowKept, RowBecomes
<1>3. AbsentInv'
  BY SMTT(60), ZenonT(60), RowPasses, TaskNames DEF RetryDue, processVars, IInv, TypeOK, SessionInv,
         AbsentInv, Open, RowKept, RowBecomes
<1>4. TaskInv'
  BY ZenonT(60), RowPasses, TaskNames DEF RetryDue, processVars, IInv, TypeOK, SessionInv,
         TaskInv, Open, RowKept, RowBecomes
<1>5. ReadyInv'
  BY RowPasses, TaskNames DEF RetryDue, processVars, IInv, TypeOK, SessionInv,
         TaskInv, ReadyInv, Open, Usable, Winddown, RowKept, RowBecomes
<1> QED BY <1>1, <1>2, <1>3, <1>4, <1>5 DEF IInv

\* A crash loses the tasks and keeps the row.
LEMMA CrashStep ==
    ASSUME IInv, Crash
    PROVE  IInv'
<1>0. RowKept
  BY DEF Crash, IInv, TypeOK, RowType, RowKept, RowBecomes
<1>1. TypeOK'
  BY <1>0, TaskNames DEF Crash, Fault, RecIdle, IInv, TypeOK, OpenSteps,
         RecSteps, UpSteps, DownSteps, RowKept, RowBecomes
<1>2. SessionInv'
  BY <1>0, TaskNames DEF Crash, Fault, RecIdle, IInv, TypeOK, SessionInv, Open,
         Winddown, RowKept, RowBecomes
<1>3. AbsentInv'
  BY <1>0, TaskNames DEF Crash, Fault, RecIdle, IInv, TypeOK, SessionInv,
         AbsentInv, Open, RowKept, RowBecomes
<1>4. TaskInv'
  BY <1>0, TaskNames DEF Crash, Fault, RecIdle, IInv, TypeOK, SessionInv,
         TaskInv, Open, RowKept, RowBecomes
<1>5. ReadyInv'
  BY <1>0, TaskNames DEF Crash, Fault, RecIdle, IInv, TypeOK, SessionInv,
         TaskInv, ReadyInv, Open, Usable, Winddown, RowKept, RowBecomes
<1> QED BY <1>1, <1>2, <1>3, <1>4, <1>5 DEF IInv

-----------------------------------------------------------------------------
(* The invariant.                                                           *)

\* Before the opening request nothing exists, here or outside.
LEMMA InitInv == ASSUME Init PROVE IInv
<1>1. TypeOK
  BY DEF Init, TypeOK, RowType, Statuses, OpenSteps, RecSteps, UpSteps,
         DownSteps, RecIdle
<1>2. SessionInv /\ AbsentInv /\ TaskInv /\ ReadyInv
  BY DEF Init, SessionInv, AbsentInv, TaskInv, ReadyInv, Open, Winddown, Usable,
         RecIdle
<1> QED BY <1>1, <1>2 DEF IInv

\* Every step of the opening request, the reconciler, the dispatcher, the
\* customer, the broker, time and a crash keeps the invariant.
LEMMA NextInv == ASSUME IInv, [Next]_vars PROVE IInv'
<1>1. CASE OpenInsert \/ OpenStep
  BY <1>1, OpenInsertStep, OpenCreateStep, OpenCallStep, OpenIssueStep,
        OpenActivateStep, OpenListStep, OpenReleaseStep
     DEF OpenStep
<1>2. CASE RecStep
  BY <1>2, RecClaimStep, RecReadStep, RecControlStep, RecEndedStep,
        RecStatusStep, RecFailStep, RecReleaseStep, RecReclaimStep,
        RecReopenStep, RecIssueStep, RecActivateStep, RecPublishStep,
        RecEndStep, RecCloseStep, RecEndFailStep, RecSettleStep
     DEF RecStep
<1>3. ASSUME NEW p \in Conns,
             \/ Publish(p) \/ UpStep(p)
             \/ DonePublish(p) \/ ChildExit(p) \/ ChildError(p) \/ DownStep(p)
      PROVE  IInv'
  BY <1>3, PublishStep, UpClaimStep, UpStartStep, UpMarkStep, UpMarkedStep,
        UpListStep, DonePublishStep, ChildExitStep, ChildErrorStep,
        DownClaimStep, DownMarkStep, DownListStep
     DEF UpStep, DownStep
<1>4. CASE \/ CustomerEnd \/ BrokerCloses
           \/ LeaseAbandoned \/ LeaseOutlasted
           \/ SessionLeaseEnds \/ GraceEnds \/ RetryDue
           \/ Crash
  BY ZenonT(60), <1>4, CustomerEndStep, BrokerClosesStep, LeaseAbandonedStep,
        LeaseOutlastedStep, SessionLeaseEndsStep, GraceEndsStep, RetryDueStep,
        CrashStep
<1>5. CASE UNCHANGED vars
  BY <1>5 DEF vars, processVars, IInv, TypeOK, SessionInv, AbsentInv, TaskInv,
              ReadyInv, Open
<1> QED BY <1>1, <1>2, <1>3, <1>4, <1>5 DEF Next

\* The inductive invariant holds in every reachable state.
THEOREM Invariance == Spec => []IInv
<1>1. Init => IInv
  BY InitInv
<1>2. IInv /\ [Next]_vars => IInv'
  BY NextInv
<1> QED BY <1>1, <1>2, PTL DEF Spec

\* Every column, task and remote party keeps its type, and a task that believes
\* in a current claim works for the owner the row names.
THEOREM TypeCorrect == Spec => []TypeOK
<1>1. IInv => TypeOK
  BY DEF IInv
<1> QED BY <1>1, Invariance, PTL

\* However many connections publish and calls fail, and wherever the gateway
\* crashes, a session that LOC or the broker still has is one the gateway has an
\* open row for, with the identities to replay or end it.
THEOREM SessionsNeverForgotten == Spec => []NeverForgotten
<1>1. IInv => NeverForgotten
  BY DEF IInv, SessionInv, NeverForgotten, Open
<1> QED BY <1>1, Invariance, PTL

\* A stream reported as ready has its private ingest coordinates and its session
\* lease stored.
THEOREM ReadyMeansPublishable == Spec => []ReadyIsPublishable
<1>1. IInv => ReadyIsPublishable
  <2> SUFFICES ASSUME IInv, publicStatus = "ready"
               PROVE  row.context = "full" /\ row.lease # "none"
    BY DEF ReadyIsPublishable
  <2>1. row.status \in Usable
    BY DEF publicStatus, IInv, TypeOK, Usable
  <2> QED BY <2>1 DEF IInv, ReadyInv
<1> QED BY <1>1, Invariance, PTL

-----------------------------------------------------------------------------
(* The end of a stream.                                                     *)

\* No operation takes the reason of a winddown back.
LEMMA ReasonStays ==
    ASSUME IInv, [Next]_vars, row.reason PROVE row'.reason
<1> USE DEF RowKept, RowBecomes
<1>0. row \in RowType
  BY DEF IInv, TypeOK
<1>1. CASE OpenInsert \/ OpenCreate \/ OpenList
  BY ZenonT(60), <1>0, <1>1 DEF OpenInsert, OpenCreate, OpenList, RowType
<1>2. CASE OpenCall \/ OpenIssue \/ OpenActivate \/ OpenRelease
  BY ZenonT(60), <1>0, <1>2, RowOpened, RowPut, RowActive, RowRelease
     DEF OpenCall, OpenIssue, OpenActivate, OpenRelease
<1>3. CASE RecClaim \/ RecRelease \/ RecReopen \/ RecIssue \/ RecActivate
  BY ZenonT(60), <1>0, <1>3, RowClaim, RowRelease, RowOpened, RowPut, RowActive
     DEF RecClaim, RecRelease, RecReopen, RecIssue, RecActivate
<1>4. CASE RecRead \/ RecControl \/ RecPublish \/ RecEnd \/ RecClose
  BY <1>4 DEF RecRead, RecControl, RecPublish, RecEnd, RecClose
<1>5. CASE RecEnded \/ RecStatus \/ RecFail \/ RecReclaim \/ RecEndFail
           \/ RecSettle
  BY ZenonT(60), <1>0, <1>5, RowEnded, RowCatch, RowReclaim, RowEndFail, RowSettle
     DEF RecStatus, RecFail
<1>6. ASSUME NEW p \in Conns,
             UpClaim(p) \/ UpMark(p) \/ DownClaim(p)
      PROVE  row'.reason
  BY ZenonT(60), <1>0, <1>6, RowClaim DEF UpClaim, UpMark, DownClaim
<1>7. ASSUME NEW p \in Conns,
             UpStart(p) \/ UpMarked(p) \/ DownMark(p)
      PROVE  row'.reason
  BY ZenonT(60), <1>0, <1>7, RowRelay, RowRelease DEF UpStart, UpMarked, DownMark, Statuses
<1>8. ASSUME NEW p \in Conns,
             \/ Publish(p) \/ UpList(p) \/ DonePublish(p) \/ ChildExit(p)
             \/ ChildError(p) \/ DownList(p)
      PROVE  row'.reason
  BY <1>8 DEF Publish, UpList, DonePublish, ChildExit, ChildError, DownList
<1>9. CASE CustomerEnd \/ BrokerCloses \/ Crash
  BY ZenonT(60), <1>0, <1>9 DEF CustomerEnd, requestSessionWinddown, BrokerCloses, Crash,
                    RowType
<1>10. CASE \/ LeaseAbandoned \/ LeaseOutlasted
            \/ SessionLeaseEnds \/ GraceEnds \/ RetryDue
  BY ZenonT(60), <1>0, <1>10, RowPasses
     DEF LeaseAbandoned, LeaseOutlasted, SessionLeaseEnds, GraceEnds, RetryDue
<1>11. CASE UNCHANGED vars
  BY <1>11 DEF vars
<1> QED
  BY <1>1, <1>2, <1>3, <1>4, <1>5, <1>6, <1>7, <1>8, <1>9, <1>10, <1>11
     DEF Next, OpenStep, RecStep, UpStep, DownStep

\* A stream that was reported as ending is never reported as usable again: the
\* status column may be overwritten by the dispatcher, the reason may not.
THEOREM EndingStaysFinal == Spec => EndingIsFinal
<1>1. ASSUME IInv, IInv', [Next]_vars, publicStatus = "ending"
      PROVE  publicStatus' \in {"ending", "ended"}
  <2>1. row.reason
    BY <1>1 DEF publicStatus, IInv, TypeOK, SessionInv
  <2>2. row'.reason
    BY <1>1, <2>1, ReasonStays
  <2> QED BY <2>2 DEF publicStatus
<1>2. IInv /\ IInv' /\ [Next]_vars
        => [publicStatus = "ending" => publicStatus' \in {"ending", "ended"}]_vars
  BY <1>1
<1> QED BY <1>2, Invariance, PTL DEF Spec, EndingIsFinal
=============================================================================
