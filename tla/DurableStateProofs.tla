------------------------- MODULE DurableStateProofs -------------------------
(***************************************************************************)
(* Proofs about what outlives a process: the row of a paid operation        *)
(* (PaidOperation), for any number of gateway processes, clock skew, lease  *)
(* duration and number of versions, and the event outboxes of the live      *)
(* runner (CallbackDelivery), for any sessions, events and crashes.         *)
(*                                                                          *)
(* The claim the row was last returned with, and no other, matches the row  *)
(* (CurrentClaim); everything about the row follows from that and from the  *)
(* terminal write clearing the owner.  The callback worker keeps its store  *)
(* happy and a session's events in order because nothing beyond the head of *)
(* an outbox has been sent (Order).                                         *)
(***************************************************************************)
EXTENDS PaidOperation, CallbackDelivery, TLAPS

-----------------------------------------------------------------------------
(* The row of a paid operation.                                              *)

RowType == [exists : BOOLEAN, owner : Owners \cup {None}, lease : Nat,
            version : 0..MaxVersion, terminal : BOOLEAN, winddown : BOOLEAN,
            retryAt : 0..MaxTime, writer : 0..MaxVersion]

\* A claim with the row's version is what the row was returned as.
CurrentClaim == \A c \in claims : c.version = row.version => c = ClaimOf(row)

\* Nobody owns a settled operation.
TerminalUnowned == row.terminal => row.owner = None

\* Before the insert there is nothing to claim.
NotYet == ~row.exists => claims = {} /\ row.version = 0 /\ ~row.terminal

IInv ==
    /\ TypeOK
    /\ ClaimsUnique
    /\ CurrentClaim
    /\ TerminalUnowned
    /\ NotYet

\* A new operation satisfies the invariant.
LEMMA InitInv == Init => IInv
BY LeaseAssumption
DEF Init, IInv, TypeOK, ClaimsUnique, CurrentClaim, TerminalUnowned, NotYet

\* A statement that advances the version and returns the row as a claim.
LEMMA Claimed ==
    ASSUME IInv, NEW r \in RowType, row' = r, r.exists,
           r.version > row.version, r.owner # None, r.lease # 0, ~r.terminal,
           claims' = claims \cup {ClaimOf(r)},
           UNCHANGED <<now, puts, alive>>, secrets' \in 0..MaxVersion
    PROVE  IInv'
<1>1. ClaimOf(r) \in Claim
  BY DEF IInv, TypeOK, RowType, ClaimOf, Claim
<1>2. row \in RowType /\ claims \subseteq Claim
  BY DEF IInv, TypeOK, RowType
<1>3. TypeOK'
  BY <1>1, <1>2 DEF IInv, TypeOK, RowType
<1>4. \A c \in claims : c.version <= r.version /\ c.version # r.version
  BY <1>2 DEF IInv, ClaimsUnique, RowType, Claim
<1>5. ClaimOf(r).version = r.version /\ r.version <= r.version
  BY DEF ClaimOf, RowType
<1>6. ClaimsUnique'
  <2>1. \A c, d \in claims' : c.version = d.version => c = d
    BY <1>4, <1>5 DEF IInv, ClaimsUnique
  <2>2. \A c \in claims' : c.version <= row'.version
    BY <1>4, <1>5
  <2> QED BY <2>1, <2>2 DEF ClaimsUnique
<1>7. CurrentClaim'
  BY <1>4, <1>5 DEF CurrentClaim
<1>8. TerminalUnowned' /\ NotYet'
  BY DEF TerminalUnowned, NotYet
<1> QED BY <1>3, <1>6, <1>7, <1>8 DEF IInv

\* A statement that advances the version and returns no claim.
LEMMA Unclaimed ==
    ASSUME IInv, NEW r \in RowType, row' = r, r.exists,
           r.version > row.version, r.terminal => r.owner = None,
           UNCHANGED <<now, claims, puts, alive>>, secrets' \in 0..MaxVersion
    PROVE  IInv'
<1>1. row \in RowType /\ claims \subseteq Claim
  BY DEF IInv, TypeOK, RowType
<1>2. TypeOK'
  BY <1>1 DEF IInv, TypeOK, RowType
<1>3. \A c \in claims : c.version < r.version /\ c.version # r.version
  BY <1>1 DEF IInv, ClaimsUnique, RowType, Claim
<1>4. ClaimsUnique' /\ CurrentClaim'
  BY <1>1, <1>3 DEF IInv, ClaimsUnique, CurrentClaim, RowType, Claim
<1> QED BY <1>2, <1>4 DEF IInv, TerminalUnowned, NotYet

\* A claim that passes the fence is the row as it is now, and the operation is
\* not settled.
LEMMA FencedClaim ==
    ASSUME IInv, NEW c \in claims, Fence(c)
    PROVE  c = ClaimOf(row) /\ row.owner \in Owners /\ ~row.terminal /\ row.exists
           /\ c.version = row.version /\ c.winddown = row.winddown /\ row.lease # 0
BY LeaseAssumption DEF IInv, CurrentClaim, Fence, TypeOK, Claim, TerminalUnowned, NotYet, ClaimOf

\* The claims on an existing row that Take grants.
LEMMA TakeInv ==
    ASSUME IInv, NEW o \in Owners, NEW g \in Readings, row.exists, ~row.terminal, Take(o, g)
    PROVE  IInv'
<1> DEFINE r == [row EXCEPT !.owner = o, !.lease = g + LeaseDuration,
                            !.version = row.version + 1]
<1>1. row \in RowType /\ secrets \in 0..MaxVersion
  BY DEF IInv, TypeOK, RowType
<1>2. g + LeaseDuration \in Nat /\ g + LeaseDuration # 0
  BY LeaseAssumption DEF Readings
<1>3. row.version + 1 \in 0..MaxVersion /\ row.version + 1 > row.version
  BY <1>1, LeaseAssumption DEF Take, RowType
<1>4. row' = r /\ claims' = claims \cup {ClaimOf(r)} /\ UNCHANGED <<now, secrets, puts, alive>>
  BY <1>1 DEF Take, RowType
<1>5. /\ r \in RowType /\ r.exists = row.exists /\ r.terminal = row.terminal
      /\ r.version = row.version + 1 /\ r.owner = o /\ r.lease = g + LeaseDuration
  BY ZenonT(60), <1>1, <1>2, <1>3 DEF RowType
<1>6. o # None
  BY LeaseAssumption
<1> HIDE DEF r
<1> QED BY ZenonT(60), <1>1, <1>2, <1>3, <1>4, <1>5, <1>6, Claimed

\* Every step keeps the invariant.
LEMMA NextInv == IInv /\ [Next]_vars => IInv'
<1> SUFFICES ASSUME IInv, [Next]_vars PROVE IInv'
  OBVIOUS
<1>1. /\ row \in RowType /\ secrets \in 0..MaxVersion /\ claims \subseteq Claim
      /\ puts \subseteq Claim /\ alive \subseteq Owners /\ now \in 0..MaxTime
  BY DEF IInv, TypeOK, RowType
<1>2. ASSUME NEW o \in alive, NEW g \in Readings, InsertWithSecrets(o, g) PROVE IInv'
  <2> DEFINE r == [row EXCEPT !.exists = TRUE, !.owner = o,
                              !.lease = g + LeaseDuration, !.version = 1]
  <2>1. g + LeaseDuration \in Nat /\ g + LeaseDuration # 0 /\ 1 \in 0..MaxVersion
    BY LeaseAssumption DEF Readings
  <2>2. /\ row' = r /\ claims' = claims \cup {ClaimOf(r)} /\ secrets' \in 0..MaxVersion
        /\ UNCHANGED <<now, puts, alive>> /\ ~row.exists
    BY <1>2, <2>1 DEF InsertWithSecrets
  <2>3. row.version = 0 /\ ~row.terminal
    BY <2>2 DEF IInv, NotYet
  <2>4. o \in Owners /\ o # None
    BY <1>1, LeaseAssumption
  <2>5. /\ r \in RowType /\ r.exists /\ r.terminal = row.terminal /\ r.version = 1
        /\ r.owner = o /\ r.lease = g + LeaseDuration
    BY ZenonT(60), <1>1, <2>1, <2>4 DEF RowType
  <2> HIDE DEF r
  <2> QED BY <2>1, <2>2, <2>3, <2>4, <2>5, Claimed
<1>3. ASSUME Insert PROVE IInv'
  <2>1. /\ row' = [row EXCEPT !.exists = TRUE] /\ ~row.exists
        /\ UNCHANGED <<now, secrets, claims, puts, alive>>
    BY <1>3 DEF Insert
  <2>2. claims = {} /\ row' \in RowType /\ ~row'.terminal /\ row'.exists
    BY ZenonT(60), <1>1, <2>1 DEF IInv, NotYet, RowType
  <2>3. TypeOK'
    BY <2>1, <2>2 DEF IInv, TypeOK, RowType
  <2> QED BY <2>1, <2>2, <2>3 DEF IInv, ClaimsUnique, CurrentClaim, TerminalUnowned, NotYet
<1>4. ASSUME NEW o \in alive, NEW g \in Readings,
             claimRecoverable(o, g) \/ claimSessionByLiveStreamId(o, g)
      PROVE  IInv'
  BY <1>1, <1>4, TakeInv DEF claimRecoverable, claimSessionByLiveStreamId
<1>5. ASSUME requestSessionWinddown PROVE IInv'
  <2> DEFINE r == [row EXCEPT !.winddown = TRUE, !.version = row.version + 1,
                              !.owner = None, !.lease = 0]
  <2>1. row.version + 1 \in 0..MaxVersion /\ row.version + 1 > row.version
    BY <1>1, <1>5, LeaseAssumption DEF requestSessionWinddown, RowType
  <2>2. row' = r /\ row.exists /\ UNCHANGED <<now, secrets, claims, puts, alive>>
    BY <1>1, <1>5 DEF requestSessionWinddown, RowType
  <2>3. r \in RowType /\ r.exists = row.exists /\ r.version = row.version + 1 /\ r.owner = None
    BY ZenonT(60), <1>1, <2>1 DEF RowType
  <2> HIDE DEF r
  <2> QED BY ZenonT(60), <1>1, <2>1, <2>2, <2>3, Unclaimed
<1>6. ASSUME NEW c \in claims, NEW g \in Readings, renewClaim(c, g) PROVE IInv'
  <2> DEFINE r == [row EXCEPT !.lease = g + LeaseDuration, !.version = row.version + 1]
  <2>0. row.owner \in Owners /\ row.owner # None /\ ~row.terminal /\ row.exists
    BY <1>6, FencedClaim, LeaseAssumption DEF renewClaim, LiveFence
  <2>1. /\ row.version + 1 \in 0..MaxVersion /\ row.version + 1 > row.version
        /\ g + LeaseDuration \in Nat /\ g + LeaseDuration # 0
    BY <1>1, <1>6, LeaseAssumption DEF renewClaim, RowType, Readings
  <2>2. row' = r /\ claims' = claims \cup {ClaimOf(r)} /\ UNCHANGED <<now, secrets, puts, alive>>
    BY <1>1, <1>6 DEF renewClaim, RowType
  <2>3. /\ r \in RowType /\ r.exists = row.exists /\ r.version = row.version + 1
        /\ r.owner = row.owner /\ r.terminal = row.terminal /\ r.lease = g + LeaseDuration
    BY ZenonT(60), <1>1, <2>1 DEF RowType
  <2> HIDE DEF r
  <2> QED BY ZenonT(60), <1>1, <2>0, <2>1, <2>2, <2>3, Claimed
<1>7. ASSUME NEW c \in claims, releaseClaim(c) PROVE IInv'
  <2> DEFINE r == [row EXCEPT !.owner = None, !.lease = 0, !.version = row.version + 1]
  <2>0. row.exists
    BY <1>7, FencedClaim DEF releaseClaim
  <2>1. row.version + 1 \in 0..MaxVersion /\ row.version + 1 > row.version
    BY <1>1, <1>7, LeaseAssumption DEF releaseClaim, RowType
  <2>2. row' = r /\ UNCHANGED <<now, secrets, claims, puts, alive>>
    BY <1>1, <1>7 DEF releaseClaim, RowType
  <2>3. r \in RowType /\ r.exists = row.exists /\ r.version = row.version + 1 /\ r.owner = None
    BY ZenonT(60), <1>1, <2>1 DEF RowType
  <2> HIDE DEF r
  <2> QED BY ZenonT(60), <1>1, <2>0, <2>1, <2>2, <2>3, Unclaimed
<1>8. ASSUME NEW c \in claims, NEW w \in BOOLEAN, NEW t \in 0..MaxTime,
             recordProgress(c, w, t)
      PROVE  IInv'
  <2> DEFINE r == [row EXCEPT !.winddown = w, !.retryAt = t, !.version = row.version + 1,
                              !.writer = c.version]
  <2>0. /\ row.owner \in Owners /\ row.owner # None /\ ~row.terminal /\ row.exists
        /\ c.version = row.version /\ row.lease # 0
    BY <1>8, FencedClaim, LeaseAssumption DEF recordProgress, LiveFence
  <2>1. row.version + 1 \in 0..MaxVersion /\ row.version + 1 > row.version
    BY <1>1, <1>8, LeaseAssumption DEF recordProgress, RowType
  <2>2. row' = r /\ claims' = claims \cup {ClaimOf(r)} /\ UNCHANGED <<now, secrets, puts, alive>>
    BY <1>1, <1>8 DEF recordProgress, RowType
  <2>3. /\ r \in RowType /\ r.exists = row.exists /\ r.version = row.version + 1
        /\ r.owner = row.owner /\ r.terminal = row.terminal /\ r.lease = row.lease
    BY ZenonT(60), <1>1, <2>0, <2>1 DEF RowType
  <2> HIDE DEF r
  <2> QED BY ZenonT(60), <1>1, <2>0, <2>1, <2>2, <2>3, Claimed
<1>9. ASSUME NEW c \in claims, NEW t \in 1..MaxTime, recordRetry(c, t) PROVE IInv'
  <2> DEFINE r == [row EXCEPT !.retryAt = t, !.version = row.version + 1, !.writer = c.version]
  <2>0. ~row.terminal /\ row.exists /\ c.version = row.version
    BY <1>9, FencedClaim DEF recordRetry, LiveFence
  <2>1. row.version + 1 \in 0..MaxVersion /\ row.version + 1 > row.version /\ t \in 0..MaxTime
    BY <1>1, <1>9, LeaseAssumption DEF recordRetry, RowType
  <2>2. row' = r /\ UNCHANGED <<now, secrets, claims, puts, alive>>
    BY <1>1, <1>9 DEF recordRetry, RowType
  <2>3. /\ r \in RowType /\ r.exists = row.exists /\ r.version = row.version + 1
        /\ r.terminal = row.terminal
    BY ZenonT(60), <1>1, <2>0, <2>1 DEF RowType
  <2> HIDE DEF r
  <2> QED BY ZenonT(60), <1>1, <2>0, <2>1, <2>2, <2>3, Unclaimed
<1>10. ASSUME NEW c \in claims, recordTerminal(c) PROVE IInv'
  <2> DEFINE r == [row EXCEPT !.terminal = TRUE, !.version = row.version + 1, !.owner = None,
                              !.lease = 0, !.retryAt = 0, !.writer = c.version]
  <2>0. row.exists /\ c.version = row.version
    BY <1>10, FencedClaim DEF recordTerminal, LiveFence
  <2>1. /\ row.version + 1 \in 0..MaxVersion /\ row.version + 1 > row.version
        /\ 0 \in 0..MaxTime /\ 0 \in 0..MaxVersion
    BY <1>1, <1>10, LeaseAssumption DEF recordTerminal, RowType
  <2>2. row' = r /\ secrets' = 0 /\ UNCHANGED <<now, claims, puts, alive>>
    BY <1>1, <1>10 DEF recordTerminal, RowType
  <2>3. r \in RowType /\ r.exists = row.exists /\ r.version = row.version + 1 /\ r.owner = None
    BY ZenonT(60), <1>1, <2>0, <2>1 DEF RowType
  <2> HIDE DEF r
  <2> QED BY ZenonT(60), <1>1, <2>0, <2>1, <2>2, <2>3, Unclaimed
<1>11. ASSUME row' = row, claims' \subseteq claims, secrets' \in 0..MaxVersion,
              puts' \subseteq Claim, alive' \subseteq Owners, now' \in 0..MaxTime
       PROVE  IInv'
  BY <1>11 DEF IInv, TypeOK, ClaimsUnique, CurrentClaim, TerminalUnowned, NotYet
<1>12. ASSUME NEW c \in claims, putSecretsCheck(c) \/ deleteSecrets(c) PROVE IInv'
  BY <1>1, <1>11, <1>12, LeaseAssumption DEF putSecretsCheck, deleteSecrets
<1>13. ASSUME NEW c \in puts, putSecretsWrite(c) PROVE IInv'
  <2>1. c.version \in 0..MaxVersion
    BY <1>1 DEF Claim
  <2> QED BY <1>1, <1>11, <1>13, <2>1 DEF putSecretsWrite
<1>14. ASSUME NEW o \in alive, Crash(o) PROVE IInv'
  BY <1>1, <1>11, <1>14 DEF Crash
<1>15. ASSUME Tick PROVE IInv'
  <2>1. now + 1 \in 0..MaxTime
    BY <1>1, <1>15, LeaseAssumption DEF Tick
  <2> QED BY <1>1, <1>11, <1>15, <2>1 DEF Tick
<1>16. ASSUME UNCHANGED vars PROVE IInv'
  BY <1>1, <1>11, <1>16 DEF vars
<1> QED
  BY <1>2, <1>3, <1>4, <1>5, <1>6, <1>7, <1>8, <1>9, <1>10, <1>12, <1>13, <1>14, <1>15, <1>16
  DEF Next, recordArtifactTerminal

\* IInv is an invariant of the fence.
THEOREM Invariance == Spec => []IInv
  BY InitInv, NextInv, PTL DEF Spec

\* The columns and the claims keep their types.
THEOREM TypeCorrect == Spec => []TypeOK
<1>1. IInv => TypeOK
  BY DEF IInv
<1> QED BY <1>1, Invariance, PTL

\* At most one remembered claim passes the fence that every mutation of
\* paidOperations.ts carries.
THEOREM OneClaimCurrent == Spec => []ClaimsUnique
<1>1. IInv => ClaimsUnique
  BY DEF IInv
<1> QED BY <1>1, Invariance, PTL

\* A claimed mutation is made under the newest claim anybody remembers.
THEOREM StaleWritesRefused == Spec => StaleNeverWrites
<1>1. IInv /\ [Next]_vars =>
        [row'.writer # row.writer => \A c \in claims : c.version <= row'.writer]_vars
  <2> SUFFICES ASSUME IInv, Next, row'.writer # row.writer
               PROVE  \A c \in claims : c.version <= row'.writer
    OBVIOUS
  <2>1. row \in RowType
    BY DEF IInv, TypeOK, RowType
  <2>2. ASSUME NEW d \in claims, row'.writer = d.version, d.version = row.version
        PROVE  \A c \in claims : c.version <= row'.writer
    BY <2>2 DEF IInv, ClaimsUnique
  <2>3. ASSUME NEW d \in claims, recordTerminal(d)
        PROVE  \A c \in claims : c.version <= row'.writer
    BY <2>1, <2>2, <2>3 DEF recordTerminal, LiveFence, Fence, RowType
  <2>4. ASSUME NEW d \in claims, NEW w \in BOOLEAN, NEW t \in 0..MaxTime, recordProgress(d, w, t)
        PROVE  \A c \in claims : c.version <= row'.writer
    BY <2>1, <2>2, <2>4 DEF recordProgress, LiveFence, Fence, RowType
  <2>5. ASSUME NEW d \in claims, NEW t \in 1..MaxTime, recordRetry(d, t)
        PROVE  \A c \in claims : c.version <= row'.writer
    BY <2>1, <2>2, <2>5 DEF recordRetry, LiveFence, Fence, RowType
  <2>6. ASSUME NEW o \in alive, NEW g \in Readings,
               InsertWithSecrets(o, g) \/ claimRecoverable(o, g) \/ claimSessionByLiveStreamId(o, g)
        PROVE  row'.writer = row.writer
    BY ZenonT(60), <2>1, <2>6 DEF InsertWithSecrets, claimRecoverable, claimSessionByLiveStreamId, Take, RowType
  <2>7. ASSUME NEW d \in claims, NEW g \in Readings, renewClaim(d, g)
        PROVE  row'.writer = row.writer
    BY <2>1, <2>7 DEF renewClaim, RowType
  <2>8. ASSUME NEW d \in claims, releaseClaim(d) \/ putSecretsCheck(d) \/ deleteSecrets(d)
        PROVE  row'.writer = row.writer
    BY ZenonT(60), <2>1, <2>8 DEF releaseClaim, putSecretsCheck, deleteSecrets, RowType
  <2>9. ASSUME Insert \/ requestSessionWinddown PROVE row'.writer = row.writer
    BY ZenonT(60), <2>1, <2>9 DEF Insert, requestSessionWinddown, RowType
  <2>10. ASSUME Tick \/ (\E d \in puts : putSecretsWrite(d)) \/ (\E o \in alive : Crash(o))
         PROVE  row'.writer = row.writer
    BY <2>10 DEF Tick, putSecretsWrite, Crash
  <2> QED
    BY <2>3, <2>4, <2>5, <2>6, <2>7, <2>8, <2>9, <2>10 DEF Next, recordArtifactTerminal
<1> QED BY <1>1, Invariance, PTL DEF Spec, StaleNeverWrites

\* A settled row never changes again: settling leaves it without an owner, so
\* no claim passes the fence, and every claiming statement skips it.
THEOREM SettledForGood == Spec => TerminalPermanent
<1>1. IInv /\ [Next]_vars => [row.terminal => row' = row]_vars
  <2> SUFFICES ASSUME IInv, Next, row.terminal PROVE row' = row
    OBVIOUS
  <2>1. row.exists /\ \A c \in claims : ~Fence(c)
    BY LeaseAssumption DEF IInv, TypeOK, TerminalUnowned, NotYet, Fence, Claim
  <2> QED
    BY ZenonT(60), <2>1 DEF Next, Insert, requestSessionWinddown, Tick, InsertWithSecrets,
       claimRecoverable, claimSessionByLiveStreamId, renewClaim, releaseClaim, recordProgress,
       recordRetry, recordTerminal, recordArtifactTerminal, putSecretsCheck, deleteSecrets,
       putSecretsWrite, Crash, LiveFence
<1> QED BY <1>1, Invariance, PTL DEF Spec, TerminalPermanent

\* A requested end is never undone: a claim that passes the fence was read from
\* the row as it is now, so the copy of session_runtime it carries is current.
THEOREM WinddownKept == Spec => WinddownSticks
<1>1. IInv /\ [Next]_vars => [row.winddown => row'.winddown]_vars
  <2> SUFFICES ASSUME IInv, Next, row.winddown PROVE row'.winddown
    OBVIOUS
  <2>1. row \in RowType
    BY DEF IInv, TypeOK, RowType
  <2>2. ASSUME NEW d \in claims, NEW w \in BOOLEAN, NEW t \in 0..MaxTime, recordProgress(d, w, t)
        PROVE  row'.winddown
    <3>1. d = ClaimOf(row)
      BY <2>2 DEF recordProgress, LiveFence, Fence, IInv, CurrentClaim
    <3>2. w
      BY ZenonT(60), <2>2, <3>1 DEF recordProgress, ClaimOf
    <3> QED BY <2>1, <2>2, <3>2 DEF recordProgress, RowType
  <2>3. ASSUME NEW d \in claims, NEW t \in 1..MaxTime, recordRetry(d, t) PROVE row'.winddown
    BY <2>1, <2>3 DEF recordRetry, RowType
  <2>4. ASSUME NEW d \in claims, recordTerminal(d) \/ releaseClaim(d) PROVE row'.winddown
    BY ZenonT(60), <2>1, <2>4 DEF recordTerminal, releaseClaim, RowType
  <2>5. ASSUME NEW d \in claims, NEW g \in Readings, renewClaim(d, g) PROVE row'.winddown
    BY <2>1, <2>5 DEF renewClaim, RowType
  <2>6. ASSUME NEW o \in alive, NEW g \in Readings,
               InsertWithSecrets(o, g) \/ claimRecoverable(o, g) \/ claimSessionByLiveStreamId(o, g)
        PROVE  row'.winddown
    BY ZenonT(60), <2>1, <2>6 DEF InsertWithSecrets, claimRecoverable, claimSessionByLiveStreamId, Take, RowType
  <2>7. ASSUME Insert \/ requestSessionWinddown PROVE row'.winddown
    BY ZenonT(60), <2>1, <2>7 DEF Insert, requestSessionWinddown, RowType
  <2>8. ASSUME NEW d \in claims, putSecretsCheck(d) \/ deleteSecrets(d) PROVE row'.winddown
    BY <2>8 DEF putSecretsCheck, deleteSecrets
  <2>9. ASSUME Tick \/ (\E d \in puts : putSecretsWrite(d)) \/ (\E o \in alive : Crash(o))
        PROVE  row'.winddown
    BY <2>9 DEF Tick, putSecretsWrite, Crash
  <2> QED
    BY <2>2, <2>3, <2>4, <2>5, <2>6, <2>7, <2>8, <2>9 DEF Next, recordArtifactTerminal
<1> QED BY <1>1, Invariance, PTL DEF Spec, WinddownSticks

-----------------------------------------------------------------------------
(* The callback worker.                                                      *)

Busy == {"post", "await", "ack", "park", "misfit", "retry"}

\* Events before the head are settled; nothing beyond the head has been sent;
\* a session that can still emit has its secrets.
Order ==
    \A s \in Sessions :
        /\ state[s] = "active" => sealed[s]
        /\ done[s] <= emitted[s]
        /\ \A e \in 1..done[s] : e \in taken[s] \cup parked[s]
        /\ \A e \in posts[s] : 1 <= e /\ e <= done[s] + 1 /\ e <= emitted[s]

Working ==
    /\ worker.pc \in Busy => worker.snap[worker.at] > 0
    /\ worker.pc = "ack" => worker.event \in taken[worker.at]

DeliveryInv == DeliveryTypeOK /\ HeadReserved /\ Order /\ Working

\* With no event yet, nothing is sent, settled or reserved.
LEMMA InitDeliveryInv == DeliveryInit => DeliveryInv
<1> SUFFICES ASSUME DeliveryInit PROVE DeliveryInv
    OBVIOUS
<1>1. (CHOOSE s \in Sessions : TRUE) \in Sessions
    BY DeliveryAssumption
<1>2. worker \in [pc : Pcs, todo : SUBSET Sessions, snap : [Sessions -> Nat],
                  at : Sessions, event : Nat]
    BY <1>1 DEF DeliveryInit, Idle, Pcs
<1>3. DeliveryTypeOK
    BY <1>2 DEF DeliveryInit, DeliveryTypeOK
<1>4. worker.pc = "idle"
    BY DEF DeliveryInit, Idle
<1>5. HeadReserved /\ Order /\ Working
    BY <1>4 DEF DeliveryInit, HeadReserved, Order, Working, Pending, Busy
<1> QED BY <1>3, <1>5 DEF DeliveryInv

\* The type of a worker that has moved on.
LEMMA WorkerIdle == Idle \in [pc : Pcs, todo : SUBSET Sessions,
                              snap : [Sessions -> Nat], at : Sessions, event : Nat]
<1>1. (CHOOSE s \in Sessions : TRUE) \in Sessions
    BY DeliveryAssumption
<1> QED BY <1>1 DEF Idle, Pcs

\* Every step keeps the types.
LEMMA NextTypes == DeliveryInv /\ DeliveryNext => DeliveryTypeOK'
<1> SUFFICES ASSUME DeliveryInv, DeliveryNext PROVE DeliveryTypeOK'
    OBVIOUS
<1> USE DEF Pcs
<1>0. DeliveryTypeOK
    BY DEF DeliveryInv
<1>1. ASSUME NEW s \in Sessions, Emit(s) PROVE DeliveryTypeOK'
    BY <1>0, <1>1 DEF DeliveryTypeOK, Emit
<1>2. ASSUME NEW s \in Sessions, Elapse(s) PROVE DeliveryTypeOK'
    BY SMTT(60), ZenonT(60), <1>0, <1>2 DEF DeliveryTypeOK, Elapse
<1>3. CASE Sweep
  <2>1. [s \in Sessions |-> Pending(s)] \in [Sessions -> Nat]
      BY <1>0 DEF DeliveryTypeOK, DeliveryInv, Order, Pending
  <2> QED BY ZenonT(60), <2>1, <1>0, <1>3 DEF DeliveryTypeOK, Sweep, records
<1>4. ASSUME NEW s \in Sessions, NextSession(s) PROVE DeliveryTypeOK'
    BY ZenonT(60), <1>0, <1>4 DEF DeliveryTypeOK, NextSession, records
<1>5. CASE SweepDone
    BY <1>0, <1>5, WorkerIdle DEF DeliveryTypeOK, SweepDone, records
<1>6. CASE Drained
    BY <1>0, <1>6 DEF DeliveryTypeOK, Drained, records
<1>7. CASE Clear
  <2>1. Idle.at \in Sessions
      BY WorkerIdle
  <2>2. sealed' \in [Sessions -> BOOLEAN]
      BY <1>0, <1>7 DEF DeliveryTypeOK, Clear
  <2>3. worker' \in [pc : Pcs, todo : SUBSET Sessions, snap : [Sessions -> Nat],
                     at : Sessions, event : Nat]
      BY ZenonT(60), <2>1, <1>0, <1>7 DEF DeliveryTypeOK, Clear
  <2> QED BY <2>2, <2>3, <1>0, <1>7 DEF DeliveryTypeOK, Clear
<1>8. CASE ReserveCallbackAttempt
  <2>1. done[worker.at] + 1 \in Nat
      BY <1>0 DEF DeliveryTypeOK
  <2>2. worker' \in [pc : Pcs, todo : SUBSET Sessions, snap : [Sessions -> Nat],
                     at : Sessions, event : Nat]
      BY ZenonT(60), <2>1, <1>0, <1>8 DEF DeliveryTypeOK, ReserveCallbackAttempt
  <2> QED BY <2>2, <1>0, <1>8 DEF DeliveryTypeOK, ReserveCallbackAttempt
<1>9. CASE Post
    BY <1>0, <1>9 DEF DeliveryTypeOK, Post, records
<1>10. CASE Accepted
    BY <1>0, <1>10 DEF DeliveryTypeOK, Accepted, records
<1>11. CASE Rejected
    BY <1>0, <1>11 DEF DeliveryTypeOK, Rejected, records
<1>12. CASE Unanswered
    BY <1>0, <1>12 DEF DeliveryTypeOK, Unanswered, records
<1>13. ASSUME Advance("deliver"), worker.pc \in Busy
       PROVE /\ done' \in [Sessions -> Nat]
             /\ cursor' \in [Sessions -> {"none", "waiting", "due"}]
             /\ worker' \in [pc : Pcs, todo : SUBSET Sessions, snap : [Sessions -> Nat],
                             at : Sessions, event : Nat]
  <2>1. worker.snap[worker.at] \in Nat /\ worker.snap[worker.at] > 0
      BY <1>0, <1>13 DEF DeliveryTypeOK, DeliveryInv, Working
  <2>2. worker.snap[worker.at] - 1 \in Nat
      BY <2>1
  <2> QED BY ZenonT(60), <2>2, <1>0, <1>13 DEF DeliveryTypeOK, Advance
<1>14. CASE AcknowledgeEvent
    BY <1>0, <1>13, <1>14 DEF DeliveryTypeOK, AcknowledgeEvent, Busy
<1>15. CASE ParkCallbackRejection
  <2>1. CASE worker.pc = "park"
      BY <1>0, <1>13, <1>15, <2>1 DEF DeliveryTypeOK, ParkCallbackRejection, Busy
  <2>2. CASE worker.pc = "misfit"
      BY <1>0, <1>15, <2>2, WorkerIdle DEF DeliveryTypeOK, ParkCallbackRejection, records
  <2> QED BY <1>15, <2>1, <2>2 DEF ParkCallbackRejection
<1>16. CASE RecordCallbackRetryFailure
    BY ZenonT(60), <1>0, <1>16 DEF DeliveryTypeOK, RecordCallbackRetryFailure, records
<1>17. ASSUME NEW s \in Sessions, NEW e \in posts[s], TakenLate(s, e) PROVE DeliveryTypeOK'
    BY <1>0, <1>17 DEF DeliveryTypeOK, TakenLate, records
<1>18. CASE RunnerCrash
    BY <1>0, <1>18, WorkerIdle DEF DeliveryTypeOK, RunnerCrash, records
<1> QED BY <1>1, <1>2, <1>3, <1>4, <1>5, <1>6, <1>7, <1>8, <1>9, <1>10, <1>11,
           <1>12, <1>14, <1>15, <1>16, <1>17, <1>18 DEF DeliveryNext, WorkerStep

\* Every step of the worker and of a broker keeps the invariant.
LEMMA NextDeliveryInv == DeliveryInv /\ [DeliveryNext]_deliveryVars => DeliveryInv'
<1> SUFFICES ASSUME DeliveryInv, [DeliveryNext]_deliveryVars PROVE DeliveryInv'
    OBVIOUS
<1> DEFINE Rest == HeadReserved /\ Order /\ Working
<1> USE DEF Busy, Pending
<1>0. DeliveryTypeOK /\ HeadReserved /\ Order /\ Working
    BY DEF DeliveryInv
<1>1. CASE UNCHANGED deliveryVars
    BY ZenonT(60), <1>0, <1>1 DEF deliveryVars, DeliveryInv, DeliveryTypeOK, HeadReserved, Order, Working
<1>2. CASE DeliveryNext
  <2>0. DeliveryTypeOK'
      BY <1>2, NextTypes
  <2>1. ASSUME NEW s \in Sessions, Emit(s) PROVE Rest'
      BY <1>0, <2>0, <2>1 DEF Emit, DeliveryTypeOK, HeadReserved, Order, Working
  <2>2. ASSUME NEW s \in Sessions, Elapse(s) PROVE Rest'
      BY <1>0, <2>0, <2>2 DEF Elapse, DeliveryTypeOK, HeadReserved, Order, Working
  <2>3. ASSUME NEW s \in Sessions, NextSession(s) PROVE Rest'
      BY <1>0, <2>0, <2>3 DEF NextSession, records, DeliveryTypeOK, HeadReserved, Order, Working
  <2>4. ASSUME NEW s \in Sessions, NEW e \in posts[s], TakenLate(s, e) PROVE Rest'
      BY SMTT(60), ZenonT(60), <1>0, <2>0, <2>4 DEF TakenLate, records, DeliveryTypeOK, HeadReserved, Order, Working
  <2>5. ASSUME Sweep PROVE Rest'
      BY ZenonT(60), <1>0, <2>0, <2>5 DEF Sweep, records, DeliveryTypeOK, HeadReserved, Order, Working
  <2>6. ASSUME SweepDone PROVE Rest'
      BY <1>0, <2>0, <2>6 DEF SweepDone, Idle, records, DeliveryTypeOK, HeadReserved, Order, Working
  <2>7. ASSUME Drained PROVE Rest'
      BY <1>0, <2>0, <2>7 DEF Drained, records, DeliveryTypeOK, HeadReserved, Order, Working
  <2>8. ASSUME Clear PROVE Rest'
      BY <1>0, <2>0, <2>8 DEF Clear, DeliveryTypeOK, HeadReserved, Order, Working
  <2>9. ASSUME ReserveCallbackAttempt PROVE Rest'
      BY <1>0, <2>0, <2>9 DEF ReserveCallbackAttempt, CanDeliver, DeliveryTypeOK, HeadReserved, Order, Working
  <2>10. ASSUME Post PROVE Rest'
      BY <1>0, <2>0, <2>10 DEF Post, records, DeliveryTypeOK, HeadReserved, Order, Working
  <2>11. ASSUME Accepted PROVE Rest'
      BY <1>0, <2>0, <2>11 DEF Accepted, records, DeliveryTypeOK, HeadReserved, Order, Working
  <2>12. ASSUME Rejected PROVE Rest'
      BY <1>0, <2>0, <2>12 DEF Rejected, records, DeliveryTypeOK, HeadReserved, Order, Working
  <2>13. ASSUME Unanswered PROVE Rest'
      BY <1>0, <2>0, <2>13 DEF Unanswered, records, DeliveryTypeOK, HeadReserved, Order, Working
  <2>14. ASSUME AcknowledgeEvent \/ (ParkCallbackRejection /\ worker.pc = "park") PROVE Rest'
    <3>1. worker.at \in Sessions /\ worker'.pc = "deliver"
        BY ZenonT(60), <1>0, <2>14 DEF AcknowledgeEvent, ParkCallbackRejection, Advance, DeliveryTypeOK
    <3>2. /\ done' = [done EXCEPT ![worker.at] = done[worker.at] + 1]
          /\ done[worker.at] + 1 <= emitted[worker.at]
          /\ done[worker.at] + 1 \in taken'[worker.at] \cup parked'[worker.at]
        BY <1>0, <3>1, <2>14 DEF AcknowledgeEvent, ParkCallbackRejection, Advance, DeliveryTypeOK, HeadReserved, Working
    <3>3. Order'
      <4> SUFFICES ASSUME NEW s \in Sessions PROVE
              /\ state'[s] = "active" => sealed'[s]
              /\ done'[s] <= emitted'[s]
              /\ \A e \in 1..done'[s] : e \in taken'[s] \cup parked'[s]
              /\ \A e \in posts'[s] : 1 <= e /\ e <= done'[s] + 1 /\ e <= emitted'[s]
          BY DEF Order
      <4>1. /\ UNCHANGED <<emitted, state, sealed, taken, posts>>
            /\ parked[s] \subseteq parked'[s]
            /\ done[s] \in Nat /\ emitted[s] \in Nat /\ posts[s] \subseteq Nat
          BY <1>0, <2>14 DEF AcknowledgeEvent, ParkCallbackRejection, DeliveryTypeOK
      <4>2. done'[s] = done[s] \/ (s = worker.at /\ done'[s] = done[s] + 1)
          BY <1>0, <3>1, <3>2 DEF DeliveryTypeOK
      <4>3. \A e \in 1..done'[s] : e \in 1..done[s] \/ (s = worker.at /\ e = done[s] + 1)
          BY <4>1, <4>2
      <4>4. \A e \in 1..done'[s] : e \in taken'[s] \cup parked'[s]
          BY <1>0, <3>2, <4>1, <4>3 DEF Order
      <4>5. \A e \in posts'[s] : 1 <= e /\ e <= done'[s] + 1 /\ e <= emitted'[s]
          BY <1>0, <4>1, <4>2 DEF Order
      <4> QED BY <1>0, <3>2, <4>1, <4>2, <4>4, <4>5 DEF Order
    <3>4. \A s \in Sessions : emitted'[s] - done'[s] > 0 => sealed'[s]
        BY <1>0, <3>1, <3>2, <2>14 DEF AcknowledgeEvent, ParkCallbackRejection, DeliveryTypeOK, HeadReserved
    <3> QED BY <3>1, <3>3, <3>4 DEF HeadReserved, Working
  <2>15. ASSUME RecordCallbackRetryFailure PROVE Rest'
      BY <1>0, <2>0, <2>15 DEF RecordCallbackRetryFailure, records, DeliveryTypeOK, HeadReserved, Order, Working
  <2>16. ASSUME RunnerCrash PROVE Rest'
      BY <1>0, <2>0, <2>16 DEF RunnerCrash, Idle, records, DeliveryTypeOK, HeadReserved, Order, Working
  <2>17. ASSUME ParkCallbackRejection, worker.pc = "misfit" PROVE Rest'
      BY <1>0, <2>0, <2>17 DEF ParkCallbackRejection, Idle, records, DeliveryTypeOK, HeadReserved, Order, Working
  <2>18. ParkCallbackRejection => worker.pc \in {"park", "misfit"}
      BY DEF ParkCallbackRejection
  <2> QED BY <1>2, <2>0, <2>1, <2>2, <2>3, <2>4, <2>5, <2>6, <2>7, <2>8, <2>9, <2>10, <2>11, <2>12, <2>13, <2>14, <2>15, <2>16, <2>17, <2>18
          DEF DeliveryNext, WorkerStep, DeliveryInv
<1> QED BY <1>1, <1>2

\* Whatever was lost, late or restarted, the event DeliverNext works on is the
\* reserved head of its outbox and has its credentials: no record makes the store
\* refuse an outcome and so end the callback worker.
THEOREM HeadAlwaysReserved == DeliverySpec => []HeadReserved
<1>1. DeliveryInv => HeadReserved
    BY DEF DeliveryInv
<1> QED BY <1>1, InitDeliveryInv, NextDeliveryInv, PTL DEF DeliverySpec

\* The worker implements ordered delivery: the broker sees a session's events in
\* sequence order, except those it has refused for good.
THEOREM DeliveryInOrder == DeliverySpec => ImplementsDelivery
<1>1. DeliveryInit => Delivery!Init
    BY ZenonT(60) DEF DeliveryInit, Delivery!Init
<1>2. DeliveryInv /\ [DeliveryNext]_deliveryVars => [Delivery!Next]_Delivery!vars
  <2> SUFFICES ASSUME DeliveryInv, [DeliveryNext]_deliveryVars PROVE [Delivery!Next]_Delivery!vars
      OBVIOUS
  <2> USE DEF Delivery!vars
  <2>0. DeliveryTypeOK /\ HeadReserved /\ Order /\ Working
      BY DEF DeliveryInv
  <2>1. CASE UNCHANGED deliveryVars
      BY <2>1 DEF deliveryVars
  <2>2. ASSUME NEW s \in Sessions, NEW e \in Nat, 1 <= e, e <= done[s] + 1, e <= emitted[s]
        PROVE e \in 1..emitted[s] /\ Delivery!InTurn(s, e)
      BY <2>0, <2>2 DEF Delivery!InTurn, Delivery!Settled, DeliveryTypeOK, Order
  <2>3. ASSUME NEW s \in Sessions, Emit(s) PROVE Delivery!Next
      BY ZenonT(60), <2>3 DEF Emit, Delivery!Next, Delivery!Emit
  <2>4. ASSUME NEW s \in Sessions, NEW e \in posts[s],
               taken' = [taken EXCEPT ![s] = @ \cup {e}], UNCHANGED <<emitted, parked>>
        PROVE Delivery!Next
    <3>1. e \in Nat /\ 1 <= e /\ e <= done[s] + 1 /\ e <= emitted[s]
        BY <2>0 DEF DeliveryTypeOK, Order
    <3> QED BY ZenonT(60), <3>1, <2>2, <2>4 DEF Delivery!Next, Delivery!Take
  <2>5. ASSUME ParkCallbackRejection, worker.pc = "park" PROVE Delivery!Next
    <3> DEFINE s == worker.at
               e == worker.event
    <3>1. s \in Sessions /\ e \in Nat /\ 1 <= e /\ e <= done[s] + 1 /\ e <= emitted[s]
        BY <2>0, <2>5 DEF DeliveryTypeOK, HeadReserved, ParkCallbackRejection
    <3>2. Delivery!Park(s, e) /\ e \in 1..emitted[s]
        BY <3>1, <2>2, <2>5 DEF Delivery!Park, ParkCallbackRejection
    <3> QED BY <3>1, <3>2 DEF Delivery!Next
  <2>6. CASE Accepted
    <3>1. worker.at \in Sessions
        BY <2>0 DEF DeliveryTypeOK
    <3> QED BY ZenonT(60), <3>1, <2>4, <2>6 DEF Accepted, records
  <2>7. ASSUME NEW s \in Sessions, NEW e \in posts[s], TakenLate(s, e) PROVE Delivery!Next
      BY ZenonT(60), <2>4, <2>7 DEF TakenLate, records
  <2>8. ASSUME NEW s \in Sessions, Elapse(s) \/ NextSession(s)
        PROVE UNCHANGED <<emitted, taken, parked>>
      BY <2>8 DEF Elapse, NextSession, records
  <2>9. ASSUME \/ Sweep \/ SweepDone \/ Drained \/ Clear \/ ReserveCallbackAttempt
               \/ Post \/ Rejected \/ Unanswered \/ AcknowledgeEvent
               \/ RecordCallbackRetryFailure \/ RunnerCrash
               \/ (ParkCallbackRejection /\ worker.pc = "misfit")
        PROVE UNCHANGED <<emitted, taken, parked>>
      BY <2>9 DEF Sweep, SweepDone, Drained, Clear, ReserveCallbackAttempt, Post, Rejected,
                  Unanswered, AcknowledgeEvent, RecordCallbackRetryFailure, RunnerCrash,
                  ParkCallbackRejection, records
  <2>10. ParkCallbackRejection => worker.pc \in {"park", "misfit"}
      BY DEF ParkCallbackRejection
  <2> QED BY <2>1, <2>3, <2>5, <2>6, <2>7, <2>8, <2>9, <2>10 DEF DeliveryNext, WorkerStep
<1> QED BY <1>1, <1>2, InitDeliveryInv, NextDeliveryInv, PTL DEF DeliverySpec, ImplementsDelivery, Delivery!Spec
=============================================================================
