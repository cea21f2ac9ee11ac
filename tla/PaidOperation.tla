---------------------------- MODULE PaidOperation ---------------------------
(***************************************************************************)
(* The recovery fence of one paid operation, repo/paidOperations.ts.        *)
(*                                                                          *)
(* Several gateway processes share a row of media.paid_operations.  A claim *)
(* is what a process remembers of the row after it took or used the         *)
(* recovery lease: owner, lifecycle_version and lease expiry.  Mutations    *)
(* carry a claim and change the row only if it still matches.  A process    *)
(* runs several tasks (recovery timers, RTMP dispatcher, HTTP handlers)     *)
(* under one owner name, and a task may still use a claim another step of   *)
(* the process has outdated, so any claim a process ever received may be    *)
(* used at any time until the process dies.                                 *)
(*                                                                          *)
(* One UPDATE is atomic: PostgreSQL evaluates its WHERE clause again after  *)
(* it has locked the row.  putSecrets inserts into another table under an   *)
(* EXISTS that locks nothing, so its check and its write are two steps.     *)
(* Gateways test leases against their own clocks, the database against its  *)
(* own; the clocks differ by at most Skew.  NULL is None or 0.              *)
(***************************************************************************)
EXTENDS Integers

CONSTANTS
    Owners,         \* recoveryOwner of every gateway process that may run
    LeaseDuration,
    Skew,
    MaxTime,        \* bound on the database clock
    MaxVersion,     \* bound on lifecycle_version
    None

ASSUME LeaseAssumption ==
    /\ LeaseDuration \in Nat \ {0}
    /\ Skew \in Nat
    /\ MaxTime \in Nat
    /\ MaxVersion \in Nat \ {0}
    /\ None \notin Owners

VARIABLES
    now,      \* the database clock
    row,      \* the row of paid_operations
    secrets,  \* paid_operation_secrets: version of the claim that wrote it, or 0
    claims,   \* claims that running processes remember
    puts,     \* claims of putSecrets statements that have passed their check
    alive     \* running processes

vars == <<now, row, secrets, claims, puts, alive>>

Init ==
    /\ now = 0
    /\ row = [exists |-> FALSE, owner |-> None, lease |-> 0, version |-> 0,
              terminal |-> FALSE, winddown |-> FALSE, retryAt |-> 0, writer |-> 0]
    /\ secrets = 0
    /\ claims = {}
    /\ puts = {}
    /\ alive = Owners

\* What a gateway's clock may show.
Readings == {g \in 0..(MaxTime + Skew) : g <= now + Skew /\ now <= g + Skew}

\* The claim a process reads from the row a statement returned.  sessionRuntime
\* comes with it; only its winddownReason matters here.
ClaimOf(r) == [owner |-> r.owner, version |-> r.version, lease |-> r.lease,
               winddown |-> r.winddown]

\* Mutant: the fence compares owner and lease only.
Fence_noVersion(c) ==
    /\ row.owner = c.owner
    /\ row.lease = c.lease

\* The claim still matches the row.
Fence(c) ==
    /\ row.owner = c.owner
    /\ row.version = c.version
    /\ row.lease = c.lease

LiveFence(c) == Fence(c) /\ row.lease > now

\* insertWithSecrets, with the creator's claim, or insert, without one.
InsertWithSecrets(o, g) ==
    /\ ~row.exists
    /\ row' = [row EXCEPT !.exists = TRUE, !.owner = o,
                          !.lease = g + LeaseDuration, !.version = 1]
    /\ secrets' = 1
    /\ claims' = claims \cup {ClaimOf(row')}
    /\ UNCHANGED <<now, puts, alive>>

Insert ==
    /\ ~row.exists
    /\ row' = [row EXCEPT !.exists = TRUE]
    /\ UNCHANGED <<now, secrets, claims, puts, alive>>

\* Mutant: a claim does not advance the version.
Take_sameVersion(o, g) ==
    /\ row' = [row EXCEPT !.owner = o, !.lease = g + LeaseDuration]
    /\ claims' = claims \cup {ClaimOf(row')}
    /\ UNCHANGED <<now, secrets, puts, alive>>

Take(o, g) ==
    /\ row.version < MaxVersion
    /\ row' = [row EXCEPT !.owner = o, !.lease = g + LeaseDuration,
                          !.version = @ + 1]
    /\ claims' = claims \cup {ClaimOf(row')}
    /\ UNCHANGED <<now, secrets, puts, alive>>

\* The recovery timers claim work whose retry is due and whose lease is over.
claimRecoverable(o, g) ==
    /\ row.exists /\ ~row.terminal
    /\ row.retryAt = 0 \/ row.retryAt <= g
    /\ row.lease = 0 \/ row.lease <= g
    /\ Take(o, g)

\* The dispatcher and the reconciler's cleanup also take their own lease over.
claimSessionByLiveStreamId(o, g) ==
    /\ row.exists /\ ~row.terminal
    /\ row.owner = o \/ row.lease = 0 \/ row.lease <= g
    /\ Take(o, g)

\* Mutant: the request leaves the current claim valid.
requestSessionWinddown_unfenced ==
    /\ row.exists /\ ~row.terminal
    /\ row' = [row EXCEPT !.winddown = TRUE]
    /\ UNCHANGED <<now, secrets, claims, puts, alive>>

\* A customer's end request needs no claim and revokes the current one.
requestSessionWinddown ==
    /\ row.exists /\ ~row.terminal
    /\ row.version < MaxVersion
    /\ row' = [row EXCEPT !.winddown = TRUE, !.version = @ + 1,
                          !.owner = None, !.lease = 0]
    /\ UNCHANGED <<now, secrets, claims, puts, alive>>

renewClaim(c, g) ==
    /\ LiveFence(c) /\ ~row.terminal
    /\ g + LeaseDuration > c.lease
    /\ row.version < MaxVersion
    /\ row' = [row EXCEPT !.lease = g + LeaseDuration, !.version = @ + 1]
    /\ claims' = claims \cup {ClaimOf(row')}
    /\ UNCHANGED <<now, secrets, puts, alive>>

\* Releasing does not require the lease to be unexpired.
releaseClaim(c) ==
    /\ Fence(c)
    /\ row.version < MaxVersion
    /\ row' = [row EXCEPT !.owner = None, !.lease = 0, !.version = @ + 1]
    /\ UNCHANGED <<now, secrets, claims, puts, alive>>

\* The caller leaves session_runtime out, replaces the whole column by a copy
\* of what it read with the claim, or adds a winddown reason to that copy.
recordProgress(c, winddown, retryAt) ==
    /\ LiveFence(c)
    /\ winddown \in {row.winddown, c.winddown, TRUE}
    /\ row.version < MaxVersion
    /\ row' = [row EXCEPT !.winddown = winddown, !.retryAt = retryAt,
                          !.version = @ + 1, !.writer = c.version]
    /\ claims' = claims \cup {ClaimOf(row')}
    /\ UNCHANGED <<now, secrets, puts, alive>>

\* The callers drop the row recordRetry returns; the lease runs out by itself.
recordRetry(c, retryAt) ==
    /\ LiveFence(c)
    /\ row.version < MaxVersion
    /\ row' = [row EXCEPT !.retryAt = retryAt, !.version = @ + 1,
                          !.writer = c.version]
    /\ UNCHANGED <<now, secrets, claims, puts, alive>>

\* Mutant: the terminal write keeps the lease.
recordTerminal_keepsLease(c) ==
    /\ LiveFence(c)
    /\ row.version < MaxVersion
    /\ row' = [row EXCEPT !.terminal = TRUE, !.version = @ + 1,
                          !.writer = c.version]
    /\ secrets' = 0
    /\ claims' = claims \cup {ClaimOf(row')}
    /\ UNCHANGED <<now, puts, alive>>

\* The statement has no test of terminal_at.
recordTerminal(c) ==
    /\ LiveFence(c)
    /\ row.version < MaxVersion
    /\ row' = [row EXCEPT !.terminal = TRUE, !.version = @ + 1, !.owner = None,
                          !.lease = 0, !.retryAt = 0, !.writer = c.version]
    /\ secrets' = 0
    /\ UNCHANGED <<now, claims, puts, alive>>

\* recordLiveTerminal and recordVodTerminal test it, and close the stream or
\* the asset in the same transaction.
recordArtifactTerminal(c) == ~row.terminal /\ recordTerminal(c)

\* putSecrets: EXISTS sees the claim match ...
putSecretsCheck(c) ==
    /\ LiveFence(c)
    /\ puts' = puts \cup {c}
    /\ UNCHANGED <<now, row, secrets, claims, alive>>

\* ... and the row of the other table is inserted or replaced.
putSecretsWrite(c) ==
    /\ secrets' = c.version
    /\ puts' = puts \ {c}
    /\ UNCHANGED <<now, row, claims, alive>>

deleteSecrets(c) ==
    /\ LiveFence(c)
    /\ secrets' = 0
    /\ UNCHANGED <<now, row, claims, puts, alive>>

\* A process dies with everything it remembered.  A statement the database is
\* already executing goes on; a restarted process has a new owner name.
Crash(o) ==
    /\ alive' = alive \ {o}
    /\ claims' = {c \in claims : c.owner # o}
    /\ UNCHANGED <<now, row, secrets, puts>>

Tick ==
    /\ now < MaxTime
    /\ now' = now + 1
    /\ UNCHANGED <<row, secrets, claims, puts, alive>>

Next ==
    \/ Insert
    \/ requestSessionWinddown
    \/ Tick
    \/ \E o \in alive, g \in Readings :
         \/ InsertWithSecrets(o, g)
         \/ claimRecoverable(o, g)
         \/ claimSessionByLiveStreamId(o, g)
    \/ \E c \in claims :
         \/ \E g \in Readings : renewClaim(c, g)
         \/ releaseClaim(c)
         \/ \E winddown \in BOOLEAN, retryAt \in 0..MaxTime :
              recordProgress(c, winddown, retryAt)
         \/ \E retryAt \in 1..MaxTime : recordRetry(c, retryAt)
         \/ recordTerminal(c)
         \/ recordArtifactTerminal(c)
         \/ putSecretsCheck(c)
         \/ deleteSecrets(c)
    \/ \E c \in puts : putSecretsWrite(c)
    \/ \E o \in alive : Crash(o)

Spec == Init /\ [][Next]_vars

-----------------------------------------------------------------------------
(* Properties.                                                              *)

Claim == [owner : Owners, version : 1..MaxVersion, lease : Nat \ {0},
          winddown : BOOLEAN]

\* The columns and the remembered claims keep their types.
TypeOK ==
    /\ now \in 0..MaxTime
    /\ row \in [exists : BOOLEAN, owner : Owners \cup {None}, lease : Nat,
                version : 0..MaxVersion, terminal : BOOLEAN, winddown : BOOLEAN,
                retryAt : 0..MaxTime, writer : 0..MaxVersion]
    /\ secrets \in 0..MaxVersion
    /\ claims \subseteq Claim
    /\ puts \subseteq Claim
    /\ alive \subseteq Owners

\* Two claims of the same version are the same claim, and no claim is newer
\* than the row.  So at most one remembered claim can pass the fence, whatever
\* processes crashed, whatever clocks showed and however late a task is.
ClaimsUnique ==
    /\ \A c, d \in claims : c.version = d.version => c = d
    /\ \A c \in claims : c.version <= row.version

\* A claimed mutation is made under the newest claim anybody remembers:
\* "A stale gateway cannot overwrite a newer owner".
StaleNeverWrites ==
    [][row'.writer # row.writer =>
         \A c \in claims : c.version <= row'.writer]_vars

\* A settled operation never changes again, although recordProgress,
\* recordRetry, recordTerminal and releaseClaim do not look at terminal_at.
TerminalPermanent == [][row.terminal => row' = row]_vars

\* The end that a customer requested is never undone by a process that writes
\* back the whole session_runtime it read before the request.
WinddownSticks == [][row.winddown => row'.winddown]_vars
=============================================================================
