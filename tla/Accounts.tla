------------------------------ MODULE Accounts ------------------------------
(***************************************************************************)
(* The gateway's accounts: the waitlist and its verification links, the      *)
(* operator's decisions, API keys and portal sessions, and the work recorded *)
(* under a key (auth/, routes/auth/, middleware/).                           *)
(*                                                                           *)
(* The tables live in PostgreSQL at READ COMMITTED: a statement is one step, *)
(* it waits for a row another transaction has written, and it then sees that *)
(* transaction's outcome.  A request that runs one transaction and touches   *)
(* nothing else is one step; resendVerification, which mails inside its      *)
(* transaction, login, and rotate-key, which uses a second connection inside *)
(* its transaction, are several.  Connections come from one pool of bounded  *)
(* size, and a request that gets none within five seconds fails.             *)
(*                                                                           *)
(* A waitlist row is named by its e-mail address, and so is the user row its *)
(* approval inserts.  Random tokens are model values that are used once;     *)
(* hashes, peppers and rate limits are left out.                             *)
(***************************************************************************)
EXTENDS Naturals, FiniteSets

CONSTANTS
    Emails,     \* people who sign up
    Links,      \* verification tokens
    Keys,       \* API keys
    Tokens,     \* session tokens
    Requests,   \* requests in progress
    PoolSize,   \* connections of the pool
    MaxFaults   \* bound on failed statements, lost mails and crashes

None == "none"

ASSUME AccountsAssumption ==
    /\ MaxFaults \in Nat /\ PoolSize \in Nat \ {0}
    /\ IsFiniteSet(Keys) /\ IsFiniteSet(Tokens) /\ IsFiniteSet(Requests)
    /\ None \notin Emails \union Links \union Keys \union Tokens

VARIABLES
    waitlist,   \* rows of auth.waitlist (with auth.users), by e-mail
    keys,       \* rows of auth.api_keys
    sessions,   \* rows of auth.sessions
    media,      \* keys that rows of media.* refer to
    held,       \* links, keys and tokens that reached their owner
    req,        \* requests in progress
    faults      \* faults so far

vars == <<waitlist, keys, sessions, media, held, req, faults>>

\* A row that was deleted is "gone": its id is not used again.
Entry == [status : {None, "pending", "approved", "rejected"},
          verified : BOOLEAN, link : Links \union {None}, expired : BOOLEAN]
ApiKey == [at : {None, "active", "revoked", "gone"},
           user : Emails \union {None}]
Session == [at : {None, "open", "ended", "gone"}, key : Keys \union {None}]
Request == [pc : {"idle", "mail", "commit", "login", "product", "rotate",
                  "sessions", "issue", "answer"},
            email : Emails \union {None}, link : Links \union {None},
            key : Keys \union {None}, issued : Keys \union {None}]

TypeOK ==
    /\ waitlist \in [Emails -> Entry]
    /\ keys \in [Keys -> ApiKey]
    /\ sessions \in [Tokens -> Session]
    /\ media \subseteq Keys
    /\ held \subseteq Links \union Keys \union Tokens
    /\ req \in [Requests -> Request]
    /\ faults \in Nat

Vacant == [status |-> None, verified |-> FALSE, link |-> None,
           expired |-> FALSE]
Idle == [pc |-> "idle", email |-> None, link |-> None, key |-> None,
         issued |-> None]

Init ==
    /\ waitlist = [e \in Emails |-> Vacant]
    /\ keys = [k \in Keys |-> [at |-> None, user |-> None]]
    /\ sessions = [t \in Tokens |-> [at |-> None, key |-> None]]
    /\ media = {}
    /\ held = {}
    /\ req = [r \in Requests |-> Idle]
    /\ faults = 0

Fault == faults < MaxFaults /\ faults' = faults + 1

\* A mail, or an answer, reaches its owner or is lost.
Delivers(items) ==
    \/ held' = held \union items /\ UNCHANGED faults
    \/ Fault /\ UNCHANGED held

Ends(r) == req' = [req EXCEPT ![r] = Idle]

-----------------------------------------------------------------------------
(* Rows and the transactions that have written them.                         *)

LocksEntry(r, e) == req[r].pc \in {"mail", "commit"} /\ req[r].email = e
LocksKey(r, k) ==
    /\ req[r].pc \in {"sessions", "issue"} /\ req[r].key = k
    /\ keys[k].at = "active"

EntryLocked(e) == \E r \in Requests : LocksEntry(r, e)
KeyLocked(k) == \E r \in Requests : LocksKey(r, k)

\* A transaction holds a connection until it is released, which for a rotation
\* is after its last statement on the pool.
Holding == {r \in Requests : req[r].pc \in {"mail", "commit", "rotate",
                                            "sessions", "issue", "answer"}}
Free == Cardinality(Holding) < PoolSize

\* No connection comes within connectionTimeoutMillis: the pool is empty, or while
\* a row is locked it may be, since the requests that wait for the row (a resend,
\* a verification, a decision, a deletion) hold one each.
NoConnection == ~Free \/ (\E e \in Emails : EntryLocked(e)) \/ (\E k \in Keys : KeyLocked(k))

\* Random values are drawn in one order: they are only names.
Fresh(S) == IF S = {} THEN {} ELSE {CHOOSE x \in S : TRUE}

FreshLinks == Fresh({l \in Links : /\ l \notin held
                                   /\ \A e \in Emails : waitlist[e].link # l
                                   /\ \A r \in Requests : req[r].link # l})
FreshKeys == Fresh({k \in Keys : keys[k].at = None})
FreshTokens == Fresh({t \in Tokens : sessions[t].at = None})

\* The bounds Keys and Tokens: a request starts where it will find its own.
SpareKey == Cardinality({k \in Keys : keys[k].at = None})
    > Cardinality({r \in Requests :
                     req[r].pc \in {"rotate", "sessions", "issue"}})
SpareToken == Cardinality({t \in Tokens : sessions[t].at = None})
    > Cardinality({r \in Requests :
                     req[r].pc \in {"login", "rotate", "sessions", "issue",
                                    "answer"}})

Active(e) == {k \in Keys : keys[k].at = "active" /\ keys[k].user = e}

-----------------------------------------------------------------------------
(* The waitlist.                                                             *)

\* A signup that is there already is left alone (ON CONFLICT DO NOTHING).
insertSignup(e, l) ==
    /\ waitlist[e].status = None
    /\ waitlist' = [waitlist EXCEPT ![e] = [Vacant EXCEPT !.status = "pending",
                                                          !.link = l]]

\* POST /api/v1/waitlist.  The mail is not awaited.
signup(e) ==
    /\ Free
    /\ \E l \in FreshLinks : insertSignup(e, l) /\ Delivers({l})
    /\ UNCHANGED <<keys, sessions, media, req>>

verifyEmail(e, l) ==
    /\ waitlist[e].link = l
    /\ ~waitlist[e].verified /\ ~waitlist[e].expired
    /\ ~EntryLocked(e)
    /\ waitlist' = [waitlist EXCEPT ![e].verified = TRUE, ![e].link = None]

\* GET /api/v1/waitlist/verify, with any link that was mailed.
verify(e) ==
    /\ Free
    /\ \E l \in Links \intersect held : verifyEmail(e, l)
    /\ UNCHANGED <<keys, sessions, media, held, req, faults>>

LinkExpires(e) ==
    /\ waitlist[e].link # None /\ ~waitlist[e].expired
    /\ waitlist' = [waitlist EXCEPT ![e].expired = TRUE]
    /\ UNCHANGED <<keys, sessions, media, held, req, faults>>

\* resendVerification: the new token is written but not committed.
resendVerification(r, e) ==
    /\ req[r].pc = "idle" /\ Free
    /\ waitlist[e].status = "pending" /\ ~waitlist[e].verified
    /\ ~EntryLocked(e)
    /\ \E l \in FreshLinks :
          req' = [req EXCEPT ![r] = [Idle EXCEPT !.pc = "mail", !.email = e,
                                                 !.link = l]]
    /\ UNCHANGED <<waitlist, keys, sessions, media, held, faults>>

\* The provider accepts the mail, or the transaction is rolled back.
sendLink(r) ==
    /\ req[r].pc = "mail"
    /\ \/ held' = held \union {req[r].link}
          /\ req' = [req EXCEPT ![r].pc = "commit"]
          /\ UNCHANGED faults
       \/ Fault /\ Ends(r) /\ UNCHANGED held
    /\ UNCHANGED <<waitlist, keys, sessions, media>>

\* Mutant: the new token is committed before it is mailed.
commitLink_early(r) ==
    /\ req[r].pc = "mail"
    /\ waitlist' = [waitlist EXCEPT ![req[r].email].link = req[r].link,
                                    ![req[r].email].expired = FALSE]
    /\ UNCHANGED <<keys, sessions, media, held, req, faults>>

commitLink(r) ==
    /\ req[r].pc = "commit"
    /\ \/ waitlist' = [waitlist EXCEPT ![req[r].email].link = req[r].link,
                                       ![req[r].email].expired = FALSE]
          /\ UNCHANGED faults
       \/ Fault /\ UNCHANGED waitlist
    /\ Ends(r)
    /\ UNCHANGED <<keys, sessions, media, held>>

-----------------------------------------------------------------------------
(* The operator's decisions.                                                 *)

\* createApiKey: a key is inserted where the transaction sees no active one.
createApiKey(visible, e) ==
    ~ \E k \in Keys : visible[k].at = "active" /\ visible[k].user = e

\* One transaction per id; an address that is not verified rolls it back.
approveBatch(e, k) ==
    /\ waitlist[e].status = "pending" /\ waitlist[e].verified
    /\ ~EntryLocked(e)
    /\ createApiKey(keys, e)
    /\ waitlist' = [waitlist EXCEPT ![e].status = "approved"]
    /\ keys' = [keys EXCEPT ![k] = [at |-> "active", user |-> e]]

\* POST /api/v1/admin/waitlist/approve: the key is mailed after the commit.
approve(e) ==
    /\ Free /\ SpareKey
    /\ \E k \in FreshKeys : approveBatch(e, k) /\ Delivers({k})
    /\ UNCHANGED <<sessions, media, req>>

rejectBatch(e) ==
    /\ waitlist[e].status = "pending"
    /\ ~EntryLocked(e)
    /\ waitlist' = [waitlist EXCEPT ![e].status = "rejected"]

\* POST /api/v1/admin/waitlist/reject.
reject(e) ==
    /\ Free
    /\ rejectBatch(e)
    /\ UNCHANGED <<keys, sessions, media, held, req, faults>>

Exists(k) == keys[k].at \in {"active", "revoked"}
Owned(e) == {k \in Keys : Exists(k) /\ keys[k].user = e}

\* Users, keys and sessions go with the signup (ON DELETE CASCADE).
deleteOne(e) ==
    /\ waitlist[e].status # None
    /\ ~EntryLocked(e) /\ \A k \in Owned(e) : ~KeyLocked(k)
    /\ waitlist' = [waitlist EXCEPT ![e] = Vacant]
    /\ keys' = [k \in Keys |-> IF k \in Owned(e)
                               THEN [keys[k] EXCEPT !.at = "gone"] ELSE keys[k]]
    /\ sessions' = [t \in Tokens |-> IF sessions[t].key \in Owned(e)
                                     THEN [sessions[t] EXCEPT !.at = "gone"]
                                     ELSE sessions[t]]

\* DELETE /api/v1/admin/waitlist/:id.  Media rows that refer to one of the keys
\* refuse it (ON DELETE RESTRICT).
delete(e) ==
    /\ Free
    /\ Owned(e) \intersect media = {}
    /\ deleteOne(e)
    /\ UNCHANGED <<media, held, req, faults>>

-----------------------------------------------------------------------------
(* Who is let in.                                                            *)

lookupActiveByCandidates(k) == keys[k].at = "active"
profileByApiKeyId(k) ==
    {waitlist[e] : e \in {e \in Emails : keys[k] = [at |-> "active", user |-> e]}}

\* The key is active, and so is the account.
userApiKeyAuth(k) ==
    /\ k \in held
    /\ lookupActiveByCandidates(k)
    /\ \E profile \in profileByApiKeyId(k) : profile.status = "approved"

\* Mutant: the key of the session is not looked at.
lookupSession_anyKey(t) == sessions[t].at = "open"

\* lookupSession: the session is running and its key is active.  The account's
\* status is not looked at.  A use moves the expiry on, which leaves the time of
\* SessionExpires as open as it was.
lookupSession(t) ==
    sessions[t].at = "open" /\ keys[sessions[t].key].at = "active"

userAuth(t) == t \in held /\ lookupSession(t)

\* POST /api/v1/user/login: the key is checked, then the session is inserted.
login(r, k) ==
    /\ req[r].pc = "idle" /\ Free /\ SpareToken
    /\ userApiKeyAuth(k)
    /\ req' = [req EXCEPT ![r] = [Idle EXCEPT !.pc = "login", !.key = k]]
    /\ UNCHANGED <<waitlist, keys, sessions, media, held, faults>>

createSession(r) ==
    /\ req[r].pc = "login"
    /\ \/ /\ Free /\ Exists(req[r].key)
          /\ \E t \in FreshTokens :
                /\ sessions' = [sessions EXCEPT ![t] = [at |-> "open",
                                                       key |-> req[r].key]]
                /\ Delivers({t})
       \/ /\ NoConnection \/ ~Exists(req[r].key)
          /\ UNCHANGED <<sessions, held, faults>>
       \/ Fault /\ UNCHANGED <<sessions, held>>
    /\ Ends(r)
    /\ UNCHANGED <<waitlist, keys, media>>

revokeSession(t) == sessions' = [sessions EXCEPT ![t].at = "ended"]

\* POST /api/v1/user/logout.
logout(t) ==
    /\ Free
    /\ userAuth(t)
    /\ revokeSession(t)
    /\ UNCHANGED <<waitlist, keys, media, held, req, faults>>

SessionExpires(t) ==
    /\ sessions[t].at = "open"
    /\ sessions' = [sessions EXCEPT ![t].at = "ended"]
    /\ UNCHANGED <<waitlist, keys, media, held, req, faults>>

\* A product request: the key is checked, then a row that refers to it is
\* inserted, also when the key was revoked in between.
product(r, k) ==
    /\ \/ /\ req[r].pc = "idle" /\ Free
          /\ userApiKeyAuth(k)
          /\ req' = [req EXCEPT ![r] = [Idle EXCEPT !.pc = "product",
                                                    !.key = k]]
          /\ UNCHANGED media
       \/ /\ req[r].pc = "product" /\ req[r].key = k
          /\ \/ Free /\ Exists(k) /\ media' = media \union {k}
             \/ (NoConnection \/ ~Exists(k)) /\ UNCHANGED media
          /\ Ends(r)
    /\ UNCHANGED <<waitlist, keys, sessions, held, faults>>

-----------------------------------------------------------------------------
(* POST /api/v1/user/rotate-key.                                             *)

rotate(r, t) ==
    /\ req[r].pc = "idle" /\ Free /\ SpareKey /\ SpareToken
    /\ userAuth(t)
    /\ req' = [req EXCEPT ![r] = [Idle EXCEPT !.pc = "rotate",
                  !.key = sessions[t].key,
                  !.email = keys[sessions[t].key].user]]
    /\ UNCHANGED <<waitlist, keys, sessions, media, held, faults>>

\* Mutant: the revocation is committed on its own.
revokeApiKey_pool(r) ==
    /\ req[r].pc = "rotate"
    /\ keys' = [keys EXCEPT ![req[r].key].at =
                    IF @ = "active" THEN "revoked" ELSE @]
    /\ req' = [req EXCEPT ![r].pc = "sessions"]
    /\ UNCHANGED <<waitlist, sessions, media, held, faults>>

\* revokeApiKey writes an active row and waits for one that is being written;
\* a row that is revoked or gone is no error.
revokeApiKey(r) ==
    /\ req[r].pc = "rotate"
    /\ ~KeyLocked(req[r].key)
    /\ req' = [req EXCEPT ![r].pc = "sessions"]
    /\ UNCHANGED <<waitlist, keys, sessions, media, held, faults>>

Ended(k) == [t \in Tokens |-> IF sessions[t].key = k /\ sessions[t].at = "open"
                              THEN [sessions[t] EXCEPT !.at = "ended"]
                              ELSE sessions[t]]

\* Mutant: the second connection is waited for.
revokeAllSessionsForApiKey_waits(r) ==
    /\ req[r].pc = "sessions" /\ Free
    /\ sessions' = Ended(req[r].key)
    /\ req' = [req EXCEPT ![r].pc = "issue"]
    /\ UNCHANGED <<waitlist, keys, media, held, faults>>

\* On a second connection: committed whatever becomes of the transaction.  With
\* none free within connectionTimeoutMillis, or on an error, the transaction is
\* rolled back ("Could not rotate key.").
revokeAllSessionsForApiKey(r) ==
    /\ req[r].pc = "sessions"
    /\ \/ /\ Free
          /\ sessions' = Ended(req[r].key)
          /\ req' = [req EXCEPT ![r].pc = "issue"]
          /\ UNCHANGED faults
       \/ NoConnection /\ Ends(r) /\ UNCHANGED <<sessions, faults>>
       \/ Fault /\ Ends(r) /\ UNCHANGED sessions
    /\ UNCHANGED <<waitlist, keys, media, held>>

\* What the transaction sees of the keys: its own revocation as well.
Revoked(r) == [k \in Keys |-> IF k = req[r].key /\ keys[k].at = "active"
                              THEN [keys[k] EXCEPT !.at = "revoked"]
                              ELSE keys[k]]

\* createApiKey and COMMIT: a second active key, or a user that is gone, is an
\* error.
issueKey(r) ==
    /\ req[r].pc = "issue"
    /\ LET visible == Revoked(r)
           issues == Exists(req[r].key) /\ createApiKey(visible, req[r].email)
       IN \/ /\ issues
             /\ \E k \in FreshKeys :
                   /\ keys' = [visible EXCEPT ![k] = [at |-> "active",
                                                     user |-> req[r].email]]
                   /\ req' = [req EXCEPT ![r].pc = "answer", ![r].issued = k]
             /\ UNCHANGED faults
          \/ ~issues /\ Ends(r) /\ UNCHANGED <<keys, faults>>
          \/ Fault /\ Ends(r) /\ UNCHANGED keys
    /\ UNCHANGED <<waitlist, sessions, media, held>>

\* The new key is shown once, with a session inserted on a second connection.
\* When that fails the answer is an error, and the key that is now active is
\* known to nobody.
answerRotation(r) ==
    /\ req[r].pc = "answer"
    /\ LET k == req[r].issued IN
       \/ /\ Free /\ Exists(k)
          /\ \E t \in FreshTokens :
                /\ sessions' = [sessions EXCEPT ![t] = [at |-> "open",
                                                       key |-> k]]
                /\ Delivers({k, t})
       \/ /\ NoConnection \/ ~Exists(k)
          /\ UNCHANGED <<sessions, held, faults>>
       \/ Fault /\ UNCHANGED <<sessions, held>>
    /\ Ends(r)
    /\ UNCHANGED <<waitlist, keys, media>>

\* The process restarts: open transactions are rolled back.
Crash ==
    /\ Fault
    /\ req' = [r \in Requests |-> Idle]
    /\ UNCHANGED <<waitlist, keys, sessions, media, held>>

-----------------------------------------------------------------------------
\* What a request that has begun does next.
RequestStep(r) ==
    \/ sendLink(r) \/ commitLink(r) \/ createSession(r)
    \/ \E k \in Keys : req[r].pc = "product" /\ product(r, k)
    \/ revokeApiKey(r) \/ revokeAllSessionsForApiKey(r)
    \/ issueKey(r) \/ answerRotation(r)

Next ==
    \/ \E e \in Emails : \/ signup(e) \/ verify(e) \/ LinkExpires(e)
                         \/ approve(e) \/ reject(e) \/ delete(e)
    \/ \E r \in Requests : \/ \E e \in Emails : resendVerification(r, e)
                           \/ \E k \in Keys : login(r, k) \/ product(r, k)
                           \/ \E t \in Tokens : rotate(r, t)
                           \/ RequestStep(r)
    \/ \E t \in Tokens : logout(t) \/ SessionExpires(t)
    \/ Crash

\* The event loop takes up every request whose statement has returned; the
\* database serves those that wait for a row in turn.
Fairness ==
    \A r \in Requests : WF_vars(RequestStep(r)) /\ SF_vars(revokeApiKey(r))

Spec == Init /\ [][Next]_vars /\ Fairness

-----------------------------------------------------------------------------
(* Properties.                                                               *)

\* An approved account always has exactly one active key and no other account
\* has one, however approvals, rotations, deletions, failures and crashes
\* interleave: a rotation that fails half-way keeps the old key.
KeyPerAccount ==
    \A e \in Emails :
       IF waitlist[e].status = "approved" THEN \E k \in Keys : Active(e) = {k}
                                          ELSE Active(e) = {}

\* Somebody may get in with the key or with a session it gave.
LetsIn(k) ==
    \/ lookupActiveByCandidates(k)
    \/ \E t \in Tokens : sessions[t].key = k /\ lookupSession(t)

Replaces(r, k) == req[r].pc = "issue" /\ req'[r].pc = "answer" /\ req[r].key = k

\* A rotation was authorised long before it commits.  If it does, the key it was
\* asked to replace is still the account's active one, whatever rotation or
\* deletion came in between, and that key lets nobody in any more.  A key that
\* lets nobody in never does again: not with the session that a login, which had
\* checked the key before, inserts after the sessions were revoked.
OldAccessEnds ==
    [][\A k \in Keys :
          /\ \A r \in Requests : Replaces(r, k) => Active(req[r].email) = {k} /\ ~LetsIn(k)'
          /\ keys[k].at # None /\ ~LetsIn(k) => ~LetsIn(k)']_vars

Works(e) == waitlist[e].link \in held /\ ~waitlist[e].expired

\* A signup that holds a working link keeps one: a replacement that could not be
\* mailed or committed takes nothing away ("Keep the previous token valid").
KeepsLink ==
    [][\A e \in Emails :
          Works(e) => \/ Works(e)'
                      \/ waitlist[e].verified' \/ waitlist[e].expired'
                      \/ waitlist[e].status' = None]_vars

\* Every request is answered: rotations that each hold a connection and wait for
\* another, or for the row one of them has written, are not stuck with each
\* other, since a connection that does not come is an error.
Answered ==
    \A r \in Requests : req[r].pc # "idle" ~> req[r].pc = "idle"
=============================================================================
