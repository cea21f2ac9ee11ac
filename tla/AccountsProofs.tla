--------------------------- MODULE AccountsProofs ---------------------------
(***************************************************************************)
(* That an account has one active key, and that the access of a key that    *)
(* was replaced ends for good, for any number of accounts, keys, tokens,    *)
(* requests and connections.                                                *)
(*                                                                          *)
(* KeyPerAccount is not inductive: a rotation that is about to issue a key  *)
(* has to know that the key it replaces was its account's, and that a key   *)
(* row that still exists, revoked or not, stands for an approved account.   *)
(***************************************************************************)
EXTENDS Accounts, TLAPS

\* An account has at most one active key.
AtMostOne ==
    \A j, k \in Keys : /\ keys[j].at = "active" /\ keys[k].at = "active"
                       /\ keys[j].user = keys[k].user
                       => j = k

\* An approved account is verified and has an active key.
HasKey ==
    \A e \in Emails : waitlist[e].status = "approved" =>
       /\ waitlist[e].verified
       /\ \E k \in Keys : keys[k].at = "active" /\ keys[k].user = e

\* A key row that exists belongs to an approved account.
OwnerApproved ==
    \A k \in Keys : Exists(k) => /\ keys[k].user \in Emails
                                 /\ waitlist[keys[k].user].status = "approved"

Rotating == {"rotate", "sessions", "issue"}

\* A rotation knows whose key it replaces.
RotatesOwn ==
    \A r \in Requests : req[r].pc \in Rotating =>
       /\ req[r].key \in Keys /\ req[r].email \in Emails
       /\ keys[req[r].key].at # None
       /\ keys[req[r].key].user = req[r].email

\* A request has what its next statement needs.
Equipped ==
    /\ \A r \in Requests :
          /\ req[r].pc \in {"mail", "commit"} =>
                req[r].email \in Emails /\ req[r].link \in Links
          /\ req[r].pc \in {"login", "product"} => req[r].key \in Keys
          /\ req[r].pc = "answer" => req[r].issued \in Keys
    /\ \A t \in Tokens : sessions[t].at = "open" => sessions[t].key \in Keys

IInv == TypeOK /\ AtMostOne /\ HasKey /\ OwnerApproved /\ RotatesOwn /\ Equipped

-----------------------------------------------------------------------------
\* A fresh value is one of those it is drawn from.
LEMMA FreshIn == ASSUME NEW S, NEW x \in Fresh(S) PROVE x \in S
  BY DEF Fresh

\* The first state has no account, no key and no request.
LEMMA InitIInv == Init => IInv
  BY DEF Init, IInv, TypeOK, AtMostOne, HasKey, OwnerApproved, RotatesOwn, Equipped,
         Vacant, Idle, Entry, ApiKey, Session, Request, Exists, Rotating, None

\* Steps that write only requests, sessions, media, mails or links keep the keys
\* and the accounts' standing.
LEMMA WaitlistStep ==
  ASSUME IInv,
         \/ \E e \in Emails : signup(e) \/ verify(e) \/ LinkExpires(e) \/ reject(e)
         \/ \E r \in Requests : commitLink(r)
  PROVE  IInv'
<1> USE DEF None
<1>s. ASSUME UNCHANGED <<keys, sessions, req>>, TypeOK',
             \A e \in Emails :
                /\ waitlist'[e].status = "approved" <=> waitlist[e].status = "approved"
                /\ waitlist[e].status = "approved" /\ waitlist[e].verified
                     => waitlist'[e].verified
      PROVE  IInv'
  BY <1>s DEF IInv, AtMostOne, HasKey, OwnerApproved, RotatesOwn, Equipped, Exists
<1>1. ASSUME NEW e \in Emails, signup(e) PROVE IInv'
  <2>1. PICK l \in FreshLinks : insertSignup(e, l) /\ Delivers({l})
    BY ZenonT(60), <1>1 DEF signup
  <2>2. l \in Links
    BY FreshIn DEF FreshLinks
  <2> DEFINE row == [Vacant EXCEPT !.status = "pending", !.link = l]
  <2>3. waitlist' = [waitlist EXCEPT ![e] = row] /\ waitlist[e].status = None
    BY <2>1 DEF insertSignup
  <2>4. row \in Entry /\ row.status = "pending"
    BY ZenonT(60), <2>2 DEF Entry, Vacant
  <2> HIDE DEF row
  <2>w. waitlist' \in [Emails -> Entry]
    BY <2>3, <2>4 DEF IInv, TypeOK
  <2>h. held' \subseteq Links \union Keys \union Tokens /\ faults' \in Nat
    BY <2>1, <2>2 DEF Delivers, Fault, IInv, TypeOK
  <2>5. TypeOK'
    BY <1>1, <2>w, <2>h DEF signup, IInv, TypeOK
  <2> QED
    BY <1>1, <2>3, <2>4, <2>5, <1>s DEF signup, IInv, TypeOK
<1>2. ASSUME NEW e \in Emails, verify(e) PROVE IInv'
  <2>1. waitlist' = [waitlist EXCEPT ![e].verified = TRUE, ![e].link = None]
    BY <1>2 DEF verify, verifyEmail
  <2>2. waitlist' \in [Emails -> Entry]
    BY ZenonT(60), <2>1 DEF IInv, TypeOK, Entry
  <2>3. TypeOK'
    BY <1>2, <2>2 DEF verify, IInv, TypeOK
  <2> QED
    BY <1>2, <2>1, <2>3, <1>s DEF verify, IInv, TypeOK, Entry
<1>3. ASSUME NEW e \in Emails, LinkExpires(e) PROVE IInv'
  <2>1. TypeOK'
    BY ZenonT(60), <1>3 DEF LinkExpires, IInv, TypeOK, Entry
  <2> QED
    BY <1>3, <2>1, <1>s DEF LinkExpires, IInv, TypeOK, Entry
<1>4. ASSUME NEW e \in Emails, reject(e) PROVE IInv'
  <2>1. /\ waitlist[e].status = "pending"
        /\ waitlist' = [waitlist EXCEPT ![e].status = "rejected"]
    BY ZenonT(60), <1>4 DEF reject, rejectBatch
  <2>2. waitlist \in [Emails -> Entry]
    BY ZenonT(60) DEF IInv, TypeOK
  <2>3. waitlist' \in [Emails -> Entry]
    BY SMTT(60), <2>1, <2>2 DEF Entry
  <2>4. TypeOK'
    BY ZenonT(60), <1>4, <2>3 DEF reject, IInv, TypeOK
  <2>5. \A f \in Emails :
           /\ waitlist'[f].status = "approved" <=> waitlist[f].status = "approved"
           /\ waitlist'[f].verified = waitlist[f].verified
    BY SMTT(60), <2>1, <2>2 DEF Entry
  <2>6. UNCHANGED <<keys, sessions, req>>
    BY ZenonT(60), <1>4 DEF reject
  <2> QED
    BY ZenonT(60), <2>4, <2>5, <2>6, <1>s
<1>5. ASSUME NEW r \in Requests, commitLink(r) PROVE IInv'
  <2>1. req[r].email \in Emails /\ req[r].link \in Links
    BY <1>5 DEF commitLink, IInv, Equipped
  <2>w. waitlist' \in [Emails -> Entry]
    BY SMTT(60), ZenonT(60), <1>5, <2>1 DEF commitLink, IInv, TypeOK, Entry
  <2>q. req' \in [Requests -> Request]
    BY <1>5 DEF commitLink, Ends, Idle, IInv, TypeOK, Request
  <2>2. TypeOK'
    BY SMTT(60), ZenonT(60), <1>5, <2>w, <2>q DEF commitLink, Fault, IInv, TypeOK
  <2>3. \A e \in Emails : /\ waitlist'[e].status = waitlist[e].status
                          /\ waitlist'[e].verified = waitlist[e].verified
    BY SMTT(60), ZenonT(60), <1>5, <2>1 DEF commitLink, IInv, TypeOK, Entry
  <2>4. \A q \in Requests : req'[q] = req[q] \/ req'[q].pc = "idle"
    BY <1>5 DEF commitLink, Ends, Idle, IInv, TypeOK
  <2>5. UNCHANGED <<keys, sessions>>
    BY ZenonT(60), <1>5 DEF commitLink
  <2>6. AtMostOne' /\ HasKey' /\ OwnerApproved'
    BY SMTT(60), <2>3, <2>5 DEF IInv, AtMostOne, HasKey, OwnerApproved, Exists
  <2>7. RotatesOwn'
    BY SMTT(60), <2>4, <2>5 DEF IInv, RotatesOwn, Rotating
  <2>8. Equipped'
    BY SMTT(60), <2>4, <2>5 DEF IInv, Equipped
  <2> QED
    BY ZenonT(60), <2>2, <2>6, <2>7, <2>8 DEF IInv
<1> QED
  BY <1>1, <1>2, <1>3, <1>4, <1>5

\* Steps of requests and sessions that write neither keys nor accounts.
LEMMA RequestOnlyStep ==
  ASSUME IInv,
         \/ \E r \in Requests : \/ \E e \in Emails : resendVerification(r, e)
                                \/ \E k \in Keys : login(r, k) \/ product(r, k)
                                \/ \E t \in Tokens : rotate(r, t)
                                \/ sendLink(r) \/ createSession(r) \/ revokeApiKey(r)
                                \/ revokeAllSessionsForApiKey(r) \/ answerRotation(r)
         \/ \E t \in Tokens : logout(t) \/ SessionExpires(t)
         \/ Crash
  PROVE  IInv'
<1> USE DEF None
<1>u. waitlist' = waitlist /\ keys' = keys
  BY ZenonT(60) DEF resendVerification, login, product, rotate, sendLink, createSession,
     revokeApiKey, revokeAllSessionsForApiKey, answerRotation, logout, SessionExpires,
     Crash
<1>k. AtMostOne' /\ HasKey' /\ OwnerApproved'
  BY <1>u DEF IInv, AtMostOne, HasKey, OwnerApproved, Exists
<1>1. ASSUME NEW r \in Requests, NEW e \in Emails, resendVerification(r, e)
      PROVE  TypeOK' /\ RotatesOwn' /\ Equipped'
  <2>1. PICK l \in FreshLinks :
           req' = [req EXCEPT ![r] = [Idle EXCEPT !.pc = "mail", !.email = e, !.link = l]]
    BY ZenonT(60), <1>1 DEF resendVerification
  <2>2. l \in Links
    BY SMTT(60), ZenonT(60), FreshIn DEF FreshLinks
  <2> QED
    BY ZenonT(60), <1>1, <2>1, <2>2 DEF resendVerification, Idle, IInv, TypeOK, Request, RotatesOwn,
       Equipped, Rotating
<1>2. ASSUME NEW r \in Requests, NEW k \in Keys, login(r, k)
      PROVE  TypeOK' /\ RotatesOwn' /\ Equipped'
  BY ZenonT(60), <1>2 DEF login, Idle, IInv, TypeOK, Request, RotatesOwn, Equipped, Rotating
<1>3. ASSUME NEW r \in Requests, NEW k \in Keys, product(r, k)
      PROVE  TypeOK' /\ RotatesOwn' /\ Equipped'
  <2>1. /\ req' \in [Requests -> Request]
        /\ \A q \in Requests : \/ req'[q] = req[q]
                               \/ req'[q].pc = "idle"
                               \/ req'[q].pc = "product" /\ req'[q].key \in Keys
    <3>1. CASE Ends(r)
      BY <3>1 DEF Ends, Idle, IInv, TypeOK, Request
    <3>2. CASE req' = [req EXCEPT ![r] = [Idle EXCEPT !.pc = "product", !.key = k]]
      BY ZenonT(60), <3>2 DEF Idle, IInv, TypeOK, Request
    <3> QED
      BY ZenonT(60), <1>3, <3>1, <3>2 DEF product
  <2>2. TypeOK'
    BY ZenonT(60), <1>3, <2>1, <1>u DEF product, IInv, TypeOK
  <2> QED
    BY ZenonT(60), <1>3, <2>1, <2>2, <1>u DEF product, IInv, RotatesOwn, Equipped, Rotating
<1>4. ASSUME NEW r \in Requests, NEW t \in Tokens, rotate(r, t)
      PROVE  TypeOK' /\ RotatesOwn' /\ Equipped'
  <2>1. /\ sessions[t].key \in Keys
        /\ keys[sessions[t].key].at = "active"
    BY ZenonT(60), <1>4 DEF rotate, userAuth, lookupSession, IInv, Equipped
  <2>2. keys[sessions[t].key].user \in Emails
    BY <2>1 DEF IInv, OwnerApproved, Exists
  <2> QED
    BY ZenonT(60), <1>4, <2>1, <2>2 DEF rotate, Idle, IInv, TypeOK, Request, RotatesOwn, Equipped,
       Rotating
<1>5. ASSUME NEW r \in Requests, sendLink(r)
      PROVE  TypeOK' /\ RotatesOwn' /\ Equipped'
  <2>1. req[r].email \in Emails /\ req[r].link \in Links
    BY <1>5 DEF sendLink, IInv, Equipped
  <2>2. /\ req' \in [Requests -> Request]
        /\ \A q \in Requests : \/ req'[q] = req[q]
                               \/ req'[q].pc = "idle"
                               \/ /\ req'[q].pc = "commit" /\ req'[q].email \in Emails
                                  /\ req'[q].link \in Links
    <3>1. CASE Ends(r)
      BY <3>1 DEF Ends, Idle, IInv, TypeOK, Request
    <3>2. CASE req' = [req EXCEPT ![r].pc = "commit"]
      BY <2>1, <3>2 DEF IInv, TypeOK, Request
    <3> QED
      BY <1>5, <3>1, <3>2 DEF sendLink
  <2>3. TypeOK'
    BY SMTT(60), ZenonT(60), <1>5, <2>1, <2>2, <1>u DEF sendLink, Fault, IInv, TypeOK
  <2> QED
    BY <1>5, <2>2, <2>3, <1>u DEF sendLink, IInv, RotatesOwn, Equipped, Rotating
<1>6. ASSUME NEW r \in Requests, createSession(r)
      PROVE  TypeOK' /\ RotatesOwn' /\ Equipped'
  <2>1. req[r].key \in Keys
    BY <1>6 DEF createSession, IInv, Equipped
  <2>2. \/ sessions' = sessions /\ held' = held
        \/ \E t \in FreshTokens :
              /\ sessions' = [sessions EXCEPT ![t] = [at |-> "open", key |-> req[r].key]]
              /\ Delivers({t})
    BY ZenonT(60), <1>6 DEF createSession
  <2>3. \A t \in FreshTokens : t \in Tokens
    BY FreshIn DEF FreshTokens
  <2>4. /\ sessions' \in [Tokens -> Session]
        /\ held' \subseteq Links \union Keys \union Tokens
        /\ \A t \in Tokens : sessions'[t].at = "open" => sessions'[t].key \in Keys
    BY SMTT(60), ZenonT(60), <2>1, <2>2, <2>3 DEF IInv, TypeOK, Session, Delivers, Equipped
  <2>5. faults' \in Nat
    BY <1>6 DEF createSession, Delivers, Fault, IInv, TypeOK
  <2> QED
    BY ZenonT(60), <1>6, <2>4, <2>5 DEF createSession, Ends, Idle, IInv, TypeOK, Request, RotatesOwn,
       Equipped, Rotating
<1>7. ASSUME NEW r \in Requests, revokeApiKey(r)
      PROVE  TypeOK' /\ RotatesOwn' /\ Equipped'
  BY <1>7 DEF revokeApiKey, IInv, TypeOK, Request, RotatesOwn, Equipped, Rotating
<1>8. ASSUME NEW r \in Requests, revokeAllSessionsForApiKey(r)
      PROVE  TypeOK' /\ RotatesOwn' /\ Equipped'
  <2>1. /\ sessions' \in [Tokens -> Session]
        /\ \A t \in Tokens : sessions'[t].at = "open" => sessions'[t].key \in Keys
    <3>1. sessions' = sessions \/ \E k : sessions' = Ended(k)
      BY ZenonT(60), <1>8 DEF revokeAllSessionsForApiKey
    <3>2. /\ sessions \in [Tokens -> Session]
          /\ \A t \in Tokens : sessions[t].at = "open" => sessions[t].key \in Keys
      BY ZenonT(60) DEF IInv, TypeOK, Equipped
    <3> QED BY SMTT(60), <3>1, <3>2 DEF Ended, Session
  <2> QED
    BY <1>8, <2>1 DEF revokeAllSessionsForApiKey, Ends, Idle, Fault, IInv, TypeOK,
       Request, RotatesOwn, Equipped, Rotating
<1>9. ASSUME NEW r \in Requests, answerRotation(r)
      PROVE  TypeOK' /\ RotatesOwn' /\ Equipped'
  <2>1. req[r].issued \in Keys
    BY <1>9 DEF answerRotation, IInv, Equipped
  <2>2. \/ sessions' = sessions /\ held' = held
        \/ \E t \in FreshTokens :
              /\ sessions' = [sessions EXCEPT ![t] = [at |-> "open", key |-> req[r].issued]]
              /\ Delivers({req[r].issued, t})
    BY ZenonT(60), <1>9 DEF answerRotation
  <2>3. \A t \in FreshTokens : t \in Tokens
    BY FreshIn DEF FreshTokens
  <2>4. /\ sessions' \in [Tokens -> Session]
        /\ held' \subseteq Links \union Keys \union Tokens
        /\ \A t \in Tokens : sessions'[t].at = "open" => sessions'[t].key \in Keys
    BY <2>1, <2>2, <2>3 DEF IInv, TypeOK, Session, Delivers, Equipped
  <2>5. faults' \in Nat
    BY <1>9 DEF answerRotation, Delivers, Fault, IInv, TypeOK
  <2> QED
    BY <1>9, <2>4, <2>5 DEF answerRotation, Ends, Idle, IInv, TypeOK, Request, RotatesOwn,
       Equipped, Rotating
<1>10. ASSUME NEW t \in Tokens, logout(t) \/ SessionExpires(t)
       PROVE  TypeOK' /\ RotatesOwn' /\ Equipped'
  BY <1>10 DEF logout, revokeSession, SessionExpires, IInv, TypeOK, Session, RotatesOwn,
     Equipped
<1>11. ASSUME Crash PROVE TypeOK' /\ RotatesOwn' /\ Equipped'
  BY <1>11 DEF Crash, Fault, Idle, IInv, TypeOK, Request, RotatesOwn, Equipped, Rotating
<1> QED
  BY SMTT(60), ZenonT(60), <1>k, <1>1, <1>2, <1>3, <1>4, <1>5, <1>6, <1>7, <1>8, <1>9, <1>10, <1>11 DEF IInv

\* An approval: the account had no active key, since it was not approved.
LEMMA ApproveStep == ASSUME IInv, NEW e \in Emails, approve(e) PROVE IInv'
<1> USE DEF None
<1>1. PICK k \in FreshKeys : approveBatch(e, k) /\ Delivers({k})
  BY DEF approve
<1>2. k \in Keys /\ keys[k].at = None
  BY FreshIn DEF FreshKeys
<1>3. /\ waitlist' = [waitlist EXCEPT ![e].status = "approved"]
      /\ keys' = [keys EXCEPT ![k] = [at |-> "active", user |-> e]]
      /\ waitlist[e].verified
      /\ \A j \in Keys : ~(keys[j].at = "active" /\ keys[j].user = e)
  BY <1>1 DEF approveBatch, createApiKey
<1>4. UNCHANGED <<sessions, media, req>>
  BY DEF approve
<1>5. /\ waitlist' \in [Emails -> Entry] /\ keys' \in [Keys -> ApiKey]
      /\ \A f \in Emails : waitlist'[f].verified = waitlist[f].verified
      /\ \A f \in Emails : waitlist'[f].status =
                              IF f = e THEN "approved" ELSE waitlist[f].status
      /\ \A j \in Keys : j # k => keys'[j] = keys[j]
      /\ keys'[k].at = "active" /\ keys'[k].user = e
  BY <1>2, <1>3 DEF IInv, TypeOK, Entry, ApiKey
<1>6. TypeOK'
  BY <1>1, <1>2, <1>4, <1>5 DEF Delivers, Fault, IInv, TypeOK
<1>7. AtMostOne'
  BY <1>3, <1>5 DEF IInv, AtMostOne
<1>8. HasKey'
  <2> SUFFICES ASSUME NEW f \in Emails, waitlist'[f].status = "approved"
               PROVE  /\ waitlist'[f].verified
                      /\ \E j \in Keys : keys'[j].at = "active" /\ keys'[j].user = f
    BY DEF HasKey
  <2>1. CASE f = e
    BY <2>1, <1>2, <1>3, <1>5
  <2>2. CASE f # e
    BY <2>2, <1>2, <1>5 DEF IInv, HasKey
  <2> QED
    BY <2>1, <2>2
<1>9. OwnerApproved'
  BY <1>5 DEF IInv, OwnerApproved, Exists
<1>10. RotatesOwn' /\ Equipped'
  BY <1>2, <1>4, <1>5 DEF IInv, RotatesOwn, Equipped, Rotating
<1> QED
  BY <1>6, <1>7, <1>8, <1>9, <1>10 DEF IInv

\* A deletion takes the account and all its keys together.
LEMMA DeleteStep == ASSUME IInv, NEW e \in Emails, delete(e) PROVE IInv'
<1> USE DEF None
<1>1. /\ waitlist' = [waitlist EXCEPT ![e] = Vacant]
      /\ keys' = [k \in Keys |-> IF k \in Owned(e)
                                 THEN [keys[k] EXCEPT !.at = "gone"] ELSE keys[k]]
      /\ sessions' = [t \in Tokens |-> IF sessions[t].key \in Owned(e)
                                       THEN [sessions[t] EXCEPT !.at = "gone"]
                                       ELSE sessions[t]]
      /\ UNCHANGED <<media, held, req, faults>>
  BY DEF delete, deleteOne
<1>2. /\ keys' \in [Keys -> ApiKey]
      /\ \A k \in Keys : /\ keys'[k].user = keys[k].user
                         /\ Exists(k) /\ keys[k].user = e => keys'[k].at = "gone"
                         /\ ~(Exists(k) /\ keys[k].user = e) => keys'[k].at = keys[k].at
  BY <1>1 DEF IInv, TypeOK, ApiKey, Owned
<1>3. /\ sessions' \in [Tokens -> Session]
      /\ \A t \in Tokens : sessions'[t].at = "open" => sessions'[t] = sessions[t]
  BY <1>1 DEF IInv, TypeOK, Session
<1>4. /\ waitlist' \in [Emails -> Entry]
      /\ \A f \in Emails : f # e => waitlist'[f] = waitlist[f]
      /\ waitlist'[e].status = None
  BY <1>1 DEF IInv, TypeOK, Entry, Vacant
<1>5. TypeOK'
  BY <1>1, <1>2, <1>3, <1>4 DEF IInv, TypeOK
<1>6. AtMostOne'
  BY <1>2 DEF IInv, AtMostOne, Exists
<1>7. HasKey'
  BY <1>2, <1>4 DEF IInv, HasKey, Exists
<1>8. OwnerApproved'
  BY <1>2, <1>4 DEF IInv, OwnerApproved, Exists
<1>9. RotatesOwn' /\ Equipped'
  BY <1>1, <1>2, <1>3 DEF IInv, RotatesOwn, Equipped, Exists
<1> QED
  BY <1>5, <1>6, <1>7, <1>8, <1>9 DEF IInv

\* A rotation that commits: the account has the new key and no other.
LEMMA IssueStep == ASSUME IInv, NEW r \in Requests, issueKey(r) PROVE IInv'
<1> USE DEF None
<1> DEFINE old == req[r].key
           e   == req[r].email
<1>1. /\ old \in Keys /\ e \in Emails
      /\ keys[old].at # None /\ keys[old].user = e
  BY DEF issueKey, IInv, RotatesOwn, Rotating
<1>2. UNCHANGED <<waitlist, sessions, media, held>>
  BY SMTT(60), ZenonT(60) DEF issueKey
<1>3. CASE Ends(r) /\ UNCHANGED keys /\ faults' \in Nat
  <2>1. /\ req' \in [Requests -> Request]
        /\ \A q \in Requests : req'[q] = req[q] \/ req'[q].pc = "idle"
    BY <1>3 DEF Ends, Idle, IInv, TypeOK, Request
  <2>2. TypeOK'
    BY <1>2, <1>3, <2>1 DEF IInv, TypeOK
  <2> QED
    BY <1>2, <1>3, <2>1, <2>2 DEF IInv, AtMostOne, HasKey, OwnerApproved, RotatesOwn,
       Equipped, Exists, Rotating
<1>4. ASSUME Exists(old), createApiKey(Revoked(r), e), UNCHANGED faults,
             NEW k \in FreshKeys,
             keys' = [Revoked(r) EXCEPT ![k] = [at |-> "active", user |-> e]],
             req' = [req EXCEPT ![r].pc = "answer", ![r].issued = k]
      PROVE  IInv'
  <2>1. k \in Keys /\ keys[k].at = None /\ k # old
    BY FreshIn, <1>1 DEF FreshKeys
  <2>2. waitlist[e].status = "approved"
    BY <1>1, <1>4 DEF IInv, OwnerApproved
  <2>3. \A j \in Keys : keys[j].at = "active" /\ keys[j].user = e => j = old
    BY <1>1, <1>4 DEF createApiKey, Revoked
  <2>4. /\ keys' \in [Keys -> ApiKey]
        /\ keys'[k].at = "active" /\ keys'[k].user = e
        /\ keys'[old].at = "revoked" /\ keys'[old].user = e
        /\ \A j \in Keys : j # k /\ j # old => keys'[j] = keys[j]
    BY ZenonT(60), SMTT(60), <1>1, <1>4, <2>1 DEF Revoked, Exists, IInv, TypeOK, ApiKey
  <2>5. /\ req' \in [Requests -> Request]
        /\ req'[r].pc = "answer" /\ req'[r].issued = k
        /\ \A q \in Requests : q # r => req'[q] = req[q]
    BY ZenonT(60), <1>4, <2>1 DEF IInv, TypeOK, Request
  <2>6. TypeOK'
    BY <1>2, <1>4, <2>4, <2>5 DEF IInv, TypeOK
  <2>7. AtMostOne'
    BY <1>1, <2>1, <2>3, <2>4 DEF IInv, AtMostOne
  <2>8. HasKey'
    BY <1>1, <1>2, <2>1, <2>4 DEF IInv, HasKey
  <2>9. OwnerApproved'
    BY <1>1, <1>2, <2>2, <2>4 DEF IInv, OwnerApproved, Exists
  <2>10. RotatesOwn' /\ Equipped'
    BY <1>1, <1>2, <2>1, <2>4, <2>5 DEF IInv, RotatesOwn, Equipped, Rotating
  <2> QED
    BY <2>6, <2>7, <2>8, <2>9, <2>10 DEF IInv
<1>5. \/ Ends(r) /\ UNCHANGED keys /\ faults' \in Nat
      \/ /\ Exists(old) /\ createApiKey(Revoked(r), e) /\ UNCHANGED faults
         /\ \E k \in FreshKeys :
               /\ keys' = [Revoked(r) EXCEPT ![k] = [at |-> "active", user |-> e]]
               /\ req' = [req EXCEPT ![r].pc = "answer", ![r].issued = k]
  BY DEF issueKey, Fault, IInv, TypeOK
<1> QED
  BY <1>3, <1>4, <1>5

\* Every step keeps the invariant.
LEMMA NextIInv == IInv /\ [Next]_vars => IInv'
<1> SUFFICES ASSUME IInv, [Next]_vars PROVE IInv'
  OBVIOUS
<1>1. CASE UNCHANGED vars
  BY ZenonT(60), SMTT(60), <1>1 DEF vars, IInv, TypeOK, AtMostOne, HasKey, OwnerApproved, RotatesOwn, Equipped,
     Exists
<1>2. CASE Next
  BY ZenonT(60), <1>2, WaitlistStep, RequestOnlyStep, ApproveStep, DeleteStep, IssueStep
     DEF Next, RequestStep
<1> QED
  BY <1>1, <1>2

\* The pointwise facts are what the property says of the sets of active keys.
LEMMA IInvImplies == IInv => KeyPerAccount
<1> SUFFICES ASSUME IInv, NEW e \in Emails
             PROVE  IF waitlist[e].status = "approved"
                    THEN \E k \in Keys : Active(e) = {k} ELSE Active(e) = {}
  BY DEF KeyPerAccount
<1>1. ASSUME waitlist[e].status = "approved" PROVE \E k \in Keys : Active(e) = {k}
  <2>1. PICK k \in Keys : keys[k].at = "active" /\ keys[k].user = e
    BY <1>1 DEF IInv, HasKey
  <2>2. Active(e) = {k}
    BY <2>1 DEF Active, IInv, AtMostOne
  <2> QED
    BY <2>2
<1>2. ASSUME waitlist[e].status # "approved" PROVE Active(e) = {}
  BY <1>2 DEF Active, IInv, OwnerApproved, Exists
<1> QED
  BY <1>1, <1>2

\* An approved account always has exactly one active key, and no other account
\* has one: approve, delete and rotate-key in any interleaving.
THEOREM KeyPerAccountHolds == Spec => []KeyPerAccount
  BY InitIInv, NextIInv, IInvImplies, PTL DEF Spec

-----------------------------------------------------------------------------
(* The access of a key that was replaced.  A key lets in while it is active,  *)
(* so its access ends for good because no step makes a key active again.  A   *)
(* rotation commits only in issueKey, which finds no active key but its own.  *)

\* The steps that write the keys.
LEMMA KeyWriters ==
  ASSUME Next
  PROVE  \/ \E e \in Emails : approve(e) \/ delete(e)
         \/ \E r \in Requests : issueKey(r)
         \/ UNCHANGED keys
  BY ZenonT(60) DEF Next, RequestStep, signup, verify, LinkExpires, reject,
     resendVerification, login, product, rotate, sendLink, commitLink, createSession,
     revokeApiKey, revokeAllSessionsForApiKey, answerRotation, logout, SessionExpires, Crash

\* A key that was revoked or deleted stays so.
LEMMA StaysEnded ==
  ASSUME IInv, Next, NEW k \in Keys, keys[k].at # None, keys[k].at # "active"
  PROVE  keys'[k].at # "active"
<1> USE DEF None
<1>1. ASSUME NEW j \in FreshKeys PROVE j # k
  BY <1>1, FreshIn DEF FreshKeys
<1>2. ASSUME NEW e \in Emails, approve(e) PROVE keys'[k].at # "active"
  <2>1. PICK j \in FreshKeys : keys' = [keys EXCEPT ![j] = [at |-> "active", user |-> e]]
    BY ZenonT(60), <1>2 DEF approve, approveBatch
  <2> QED
    BY <1>1, <2>1 DEF IInv, TypeOK
<1>3. ASSUME NEW e \in Emails, delete(e) PROVE keys'[k].at # "active"
  <2>1. keys'[k] = IF k \in Owned(e) THEN [keys[k] EXCEPT !.at = "gone"] ELSE keys[k]
    BY <1>3 DEF delete, deleteOne
  <2> QED
    BY <2>1 DEF IInv, TypeOK, ApiKey
<1>4. ASSUME NEW r \in Requests, issueKey(r) PROVE keys'[k].at # "active"
  <2>1. CASE UNCHANGED keys
    BY <2>1
  <2>2. CASE \E j \in FreshKeys :
               keys' = [Revoked(r) EXCEPT ![j] = [at |-> "active", user |-> req[r].email]]
    <3>1. Revoked(r)[k] = keys[k]
      BY DEF Revoked
    <3> QED
      BY <1>1, <2>2, <3>1 DEF Revoked
  <2> QED
    BY ZenonT(60), <1>4, <2>1, <2>2 DEF issueKey
<1> QED
  BY ZenonT(60), <1>2, <1>3, <1>4, KeyWriters

\* A rotation commits in issueKey and nowhere else.
LEMMA CommitsInIssue ==
  ASSUME IInv, Next, NEW r \in Requests, NEW old \in Keys, Replaces(r, old)
  PROVE  issueKey(r)
<1> USE DEF None
<1>1. ASSUME UNCHANGED req PROVE FALSE
  BY <1>1 DEF Replaces
<1>2. ASSUME NEW q \in Requests, NEW row, row.pc # "answer", req' = [req EXCEPT ![q] = row]
      PROVE  FALSE
  BY <1>2 DEF Replaces, IInv, TypeOK
<1>3. ASSUME NEW q \in Requests, Ends(q) PROVE FALSE
  BY <1>2, <1>3 DEF Ends, Idle
<1>4. ASSUME NEW q \in Requests, NEW pc \in {"commit", "sessions", "issue"},
             req' = [req EXCEPT ![q].pc = pc]
      PROVE  FALSE
  BY <1>4 DEF Replaces, IInv, TypeOK, Request
<1>5. ASSUME NEW q \in Requests, issueKey(q), q # r PROVE FALSE
  <2>1. ASSUME NEW k, req' = [req EXCEPT ![q].pc = "answer", ![q].issued = k] PROVE FALSE
    BY <1>5, <2>1 DEF Replaces, IInv, TypeOK
  <2> QED
    BY ZenonT(60), <1>3, <1>5, <2>1 DEF issueKey
<1>6. ASSUME NEW e \in Emails,
             \/ signup(e) \/ verify(e) \/ LinkExpires(e)
             \/ approve(e) \/ reject(e) \/ delete(e)
      PROVE  FALSE
  BY ZenonT(60), <1>1, <1>6 DEF signup, verify, LinkExpires, approve, reject, delete
<1>7. ASSUME NEW q \in Requests, NEW e \in Emails, resendVerification(q, e) PROVE FALSE
  <2>1. PICK l \in FreshLinks :
           req' = [req EXCEPT ![q] = [Idle EXCEPT !.pc = "mail", !.email = e, !.link = l]]
    BY ZenonT(60), <1>7 DEF resendVerification
  <2> QED
    BY <1>2, <2>1 DEF Idle
<1>8. ASSUME NEW q \in Requests, NEW k \in Keys, login(q, k) \/ product(q, k) PROVE FALSE
  <2> DEFINE in  == [Idle EXCEPT !.pc = "login", !.key = k]
             use == [Idle EXCEPT !.pc = "product", !.key = k]
  <2>1. in.pc = "login" /\ use.pc = "product"
    BY DEF Idle
  <2>2. Ends(q) \/ req' = [req EXCEPT ![q] = in] \/ req' = [req EXCEPT ![q] = use]
    BY ZenonT(60), <1>8 DEF login, product
  <2> HIDE DEF in, use
  <2> QED
    BY <1>2, <1>3, <2>1, <2>2
<1>9. ASSUME NEW q \in Requests, NEW t \in Tokens, rotate(q, t) PROVE FALSE
  BY <1>2, <1>9 DEF rotate, Idle
<1>10. ASSUME NEW q \in Requests,
              \/ sendLink(q) \/ commitLink(q) \/ createSession(q)
              \/ revokeApiKey(q) \/ revokeAllSessionsForApiKey(q) \/ answerRotation(q)
       PROVE  FALSE
  BY ZenonT(60), <1>3, <1>4, <1>10 DEF sendLink, commitLink, createSession, revokeApiKey,
     revokeAllSessionsForApiKey, answerRotation
<1>11. ASSUME Crash PROVE FALSE
  BY <1>11 DEF Crash, Replaces, Idle
<1>12. ASSUME NEW t \in Tokens, logout(t) \/ SessionExpires(t) PROVE FALSE
  BY <1>1, <1>12 DEF logout, SessionExpires
<1> QED
  BY ZenonT(60), <1>5, <1>6, <1>7, <1>8, <1>9, <1>10, <1>11, <1>12 DEF Next, RequestStep

\* A rotation that commits replaces the one active key of its account.
LEMMA ReplacesActive ==
  ASSUME IInv, NEW r \in Requests, issueKey(r), req'[r].pc = "answer"
  PROVE  /\ Active(req[r].email) = {req[r].key}
         /\ req[r].key \in Keys /\ keys'[req[r].key].at # "active"
<1> USE DEF None
<1> DEFINE old == req[r].key
           e   == req[r].email
<1>1. /\ old \in Keys /\ e \in Emails
      /\ keys[old].at # None /\ keys[old].user = e
  BY DEF issueKey, IInv, RotatesOwn, Rotating
<1>2. ~Ends(r)
  BY DEF Ends, Idle, IInv, TypeOK
<1>3. /\ Exists(old) /\ createApiKey(Revoked(r), e)
      /\ \E j \in FreshKeys : keys' = [Revoked(r) EXCEPT ![j] = [at |-> "active", user |-> e]]
  BY ZenonT(60), <1>2 DEF issueKey
<1>4. PICK k \in Keys : keys[k].at = "active" /\ keys[k].user = e
  BY <1>1, <1>3 DEF IInv, OwnerApproved, HasKey
<1>5. k = old
  BY <1>3, <1>4 DEF createApiKey, Revoked
<1>6. Active(e) = {old}
  BY <1>4, <1>5 DEF Active, IInv, AtMostOne
<1>7. keys'[old].at # "active"
  <2>1. PICK j \in FreshKeys : keys' = [Revoked(r) EXCEPT ![j] = [at |-> "active", user |-> e]]
    BY <1>3
  <2>2. j # old
    BY <1>1, FreshIn DEF FreshKeys
  <2>3. Revoked(r)[old].at = "revoked"
    BY <1>1, <1>4, <1>5 DEF Revoked, IInv, TypeOK, ApiKey
  <2> QED
    BY <1>1, <2>1, <2>2, <2>3 DEF Revoked
<1> QED
  BY <1>1, <1>6, <1>7

AccessEnds ==
    \A k \in Keys :
       /\ \A r \in Requests : Replaces(r, k) => Active(req[r].email) = {k} /\ ~LetsIn(k)'
       /\ keys[k].at # None /\ ~LetsIn(k) => ~LetsIn(k)'

\* A rotation that commits replaces the key that was active until then, and a key
\* that lets nobody in, by itself or by a session, never does again (rotate-key,
\* lookupSession), whatever logins, rotations and deletions overlap.
THEOREM OldAccessEndsHolds == Spec => OldAccessEnds
<1>1. ASSUME NEW k PROVE LetsIn(k) <=> keys[k].at = "active"
  BY DEF LetsIn, lookupActiveByCandidates, lookupSession
<1>2. ASSUME NEW k PROVE LetsIn(k)' <=> keys'[k].at = "active"
  BY DEF LetsIn, lookupActiveByCandidates, lookupSession
<1>3. ASSUME IInv, Next PROVE AccessEnds
  <2>1. ASSUME NEW k \in Keys, NEW r \in Requests, Replaces(r, k)
        PROVE  Active(req[r].email) = {k} /\ ~LetsIn(k)'
    BY <1>2, <1>3, <2>1, CommitsInIssue, ReplacesActive DEF Replaces
  <2>2. ASSUME NEW k \in Keys, keys[k].at # None, ~LetsIn(k) PROVE ~LetsIn(k)'
    BY <1>1, <1>2, <1>3, <2>2, StaysEnded
  <2> QED
    BY <2>1, <2>2 DEF AccessEnds
<1>4. ASSUME IInv, [Next]_vars PROVE [AccessEnds]_vars
  BY <1>3, <1>4
<1> QED
  BY <1>4, InitIInv, NextIInv, PTL DEF Spec, OldAccessEnds, AccessEnds

-----------------------------------------------------------------------------
(* Verification links.  KeepsLink needs facts the keys do not: an address     *)
(* that is not on the list has no link, a replacement is committed only once  *)
(* it was mailed, and the row it is for has been locked against a deletion.   *)

LinkInv ==
    /\ \A e \in Emails : waitlist[e].status = None => waitlist[e].link = None
    /\ \A r \in Requests :
          /\ req[r].pc = "commit" => req[r].link \in held
          /\ req[r].pc \in {"mail", "commit"} => waitlist[req[r].email].status # None

LinkKept ==
    \A e \in Emails :
       Works(e) => \/ Works(e)'
                   \/ waitlist[e].verified' \/ waitlist[e].expired'
                   \/ waitlist[e].status' = None

\* What has reached its owner is not taken back.
LEMMA HeldGrows == ASSUME Next PROVE held \subseteq held'
<1>1. ASSUME NEW e \in Emails,
             \/ signup(e) \/ verify(e) \/ LinkExpires(e)
             \/ approve(e) \/ reject(e) \/ delete(e)
      PROVE  held \subseteq held'
  BY ZenonT(60), <1>1 DEF signup, verify, LinkExpires, approve, reject, delete, Delivers
<1>2. ASSUME NEW r \in Requests,
             \/ \E e \in Emails : resendVerification(r, e)
             \/ \E k \in Keys : login(r, k) \/ product(r, k)
             \/ \E t \in Tokens : rotate(r, t)
             \/ RequestStep(r)
      PROVE  held \subseteq held'
  BY ZenonT(60), <1>2 DEF resendVerification, login, product, rotate, RequestStep, sendLink,
     commitLink, createSession, revokeApiKey, revokeAllSessionsForApiKey, issueKey,
     answerRotation, Delivers
<1>3. ASSUME \/ \E t \in Tokens : logout(t) \/ SessionExpires(t)
             \/ Crash
      PROVE  held \subseteq held'
  BY <1>3 DEF logout, SessionExpires, Crash
<1> QED
  BY ZenonT(60), <1>1, <1>2, <1>3 DEF Next

\* The steps that write the waitlist.
LEMMA WaitlistWriters ==
  ASSUME Next
  PROVE  \/ \E e \in Emails : \/ signup(e) \/ verify(e) \/ LinkExpires(e)
                              \/ approve(e) \/ reject(e) \/ delete(e)
         \/ \E r \in Requests : commitLink(r)
         \/ UNCHANGED waitlist
  BY ZenonT(60) DEF Next, RequestStep, resendVerification, login, product, rotate, sendLink,
     createSession, revokeApiKey, revokeAllSessionsForApiKey, issueKey, answerRotation,
     logout, SessionExpires, Crash

\* An entry leaves the list only while no transaction has written it.
LEMMA DeletesUnlocked ==
  ASSUME IInv, Next, NEW e \in Emails, waitlist[e].status # None, EntryLocked(e)
  PROVE  waitlist'[e].status # None
<1> USE DEF None
<1>1. ASSUME NEW f \in Emails, signup(f) PROVE waitlist'[e].status # None
  <2>1. \E row : waitlist' = [waitlist EXCEPT ![f] = row] /\ waitlist[f].status = None
    BY ZenonT(60), <1>1 DEF signup, insertSignup
  <2> QED
    BY <2>1 DEF IInv, TypeOK
<1>2. ASSUME NEW f \in Emails, verify(f) PROVE waitlist'[e].status # None
  <2>1. waitlist' = [waitlist EXCEPT ![f].verified = TRUE, ![f].link = None]
    BY <1>2 DEF verify, verifyEmail
  <2> QED
    BY <2>1 DEF IInv, TypeOK, Entry
<1>3. ASSUME NEW f \in Emails, LinkExpires(f) PROVE waitlist'[e].status # None
  BY <1>3 DEF LinkExpires, IInv, TypeOK, Entry
<1>4. ASSUME NEW f \in Emails, approve(f) \/ reject(f) PROVE waitlist'[e].status # None
  <2>1. PICK status \in {"approved", "rejected"} :
           waitlist' = [waitlist EXCEPT ![f].status = status]
    BY ZenonT(60), <1>4 DEF approve, approveBatch, reject, rejectBatch
  <2> QED
    BY <2>1 DEF IInv, TypeOK, Entry
<1>5. ASSUME NEW f \in Emails, delete(f) PROVE waitlist'[e].status # None
  <2>1. waitlist' = [waitlist EXCEPT ![f] = Vacant] /\ ~EntryLocked(f)
    BY <1>5 DEF delete, deleteOne
  <2> QED
    BY <2>1 DEF IInv, TypeOK
<1>6. ASSUME NEW r \in Requests, commitLink(r) PROVE waitlist'[e].status # None
  BY <1>6 DEF commitLink, IInv, TypeOK, Entry
<1>7. ASSUME UNCHANGED waitlist PROVE waitlist'[e].status # None
  BY <1>7
<1> QED
  BY ZenonT(60), <1>1, <1>2, <1>3, <1>4, <1>5, <1>6, <1>7, WaitlistWriters

\* A request that replaces a link, seen after a step.
ReplacesListed(r) ==
    /\ req[r].pc = "commit" => req[r].link \in held
    /\ req[r].pc \in {"mail", "commit"} => waitlist[req[r].email].status # None

\* A request comes to its commit only by mailing its link, and keeps its entry.
LEMMA CommitsMailed ==
  ASSUME IInv, LinkInv, Next
  PROVE  \A r \in Requests : ReplacesListed(r)'
<1> USE DEF None
<1> DEFINE Same(q) == req'[q] = req[q] \/ req'[q].pc \notin {"mail", "commit"}
<1>1. held \subseteq held'
  BY HeldGrows
<1>e. \A r \in Requests : req[r].pc \in {"mail", "commit"} =>
         /\ req[r].email \in Emails
         /\ waitlist[req[r].email].status # None
         /\ EntryLocked(req[r].email)
  BY DEF IInv, Equipped, LinkInv, EntryLocked, LocksEntry
<1>w. \A e \in Emails : waitlist[e].status # None /\ EntryLocked(e) => waitlist'[e].status # None
  BY DeletesUnlocked
<1>2. ASSUME \A q \in Requests : Same(q) PROVE \A r \in Requests : ReplacesListed(r)'
  BY <1>1, <1>2, <1>e, <1>w DEF LinkInv, ReplacesListed
<1>3. ASSUME UNCHANGED req PROVE \A q \in Requests : Same(q)
  BY <1>3
<1>4. ASSUME NEW r \in Requests, Ends(r) PROVE \A q \in Requests : Same(q)
  BY <1>4 DEF Ends, Idle, IInv, TypeOK
<1>5. ASSUME NEW e \in Emails,
             \/ signup(e) \/ verify(e) \/ LinkExpires(e)
             \/ approve(e) \/ reject(e) \/ delete(e)
      PROVE  UNCHANGED req
  BY ZenonT(60), <1>5 DEF signup, verify, LinkExpires, approve, reject, delete
<1>6. ASSUME NEW r \in Requests, NEW row, row.pc \notin {"mail", "commit"},
             req' = [req EXCEPT ![r] = row]
      PROVE  \A q \in Requests : Same(q)
  BY <1>6 DEF IInv, TypeOK
<1>7. ASSUME NEW r \in Requests, NEW e \in Emails, resendVerification(r, e)
      PROVE  \A q \in Requests : ReplacesListed(q)'
  <2>1. PICK l \in FreshLinks :
           req' = [req EXCEPT ![r] = [Idle EXCEPT !.pc = "mail", !.email = e, !.link = l]]
    BY ZenonT(60), <1>7 DEF resendVerification
  <2> DEFINE row == [Idle EXCEPT !.pc = "mail", !.email = e, !.link = l]
  <2>2. row.pc = "mail" /\ row.email = e
    BY DEF Idle
  <2>3. waitlist' = waitlist /\ waitlist[e].status = "pending"
    BY <1>7 DEF resendVerification
  <2> HIDE DEF row
  <2>4. \A q \in Requests : req'[q] = IF q = r THEN row ELSE req[q]
    BY <2>1 DEF row, IInv, TypeOK
  <2> QED
    BY <1>1, <1>e, <2>2, <2>3, <2>4 DEF ReplacesListed, LinkInv
<1>8. ASSUME NEW r \in Requests, NEW k \in Keys, login(r, k) \/ product(r, k)
      PROVE  \A q \in Requests : Same(q)
  <2> DEFINE in  == [Idle EXCEPT !.pc = "login", !.key = k]
             use == [Idle EXCEPT !.pc = "product", !.key = k]
  <2>1. in.pc = "login" /\ use.pc = "product"
    BY DEF Idle
  <2>2. Ends(r) \/ req' = [req EXCEPT ![r] = in] \/ req' = [req EXCEPT ![r] = use]
    BY ZenonT(60), <1>8 DEF login, product
  <2> HIDE DEF in, use
  <2> QED
    BY <1>4, <1>6, <2>1, <2>2
<1>9. ASSUME NEW r \in Requests, NEW t \in Tokens, rotate(r, t)
      PROVE  \A q \in Requests : Same(q)
  <2> DEFINE row == [Idle EXCEPT !.pc = "rotate", !.key = sessions[t].key,
                                 !.email = keys[sessions[t].key].user]
  <2>1. row.pc = "rotate" /\ req' = [req EXCEPT ![r] = row]
    BY <1>9 DEF rotate, Idle
  <2> HIDE DEF row
  <2> QED
    BY <1>6, <2>1
<1>10. ASSUME NEW r \in Requests,
              \/ createSession(r) \/ commitLink(r) \/ revokeApiKey(r)
              \/ revokeAllSessionsForApiKey(r) \/ issueKey(r) \/ answerRotation(r)
       PROVE  \A q \in Requests : Same(q)
  <2>1. \/ Ends(r)
        \/ \E pc \in {"sessions", "issue"} : req' = [req EXCEPT ![r].pc = pc]
        \/ \E k : req' = [req EXCEPT ![r].pc = "answer", ![r].issued = k]
    BY ZenonT(60), <1>10 DEF createSession, commitLink, revokeApiKey,
       revokeAllSessionsForApiKey, issueKey, answerRotation
  <2>2. ASSUME NEW pc \in {"sessions", "issue"}, req' = [req EXCEPT ![r].pc = pc]
        PROVE  \A q \in Requests : Same(q)
    BY <2>2 DEF IInv, TypeOK, Request
  <2>3. ASSUME NEW k, req' = [req EXCEPT ![r].pc = "answer", ![r].issued = k]
        PROVE  \A q \in Requests : Same(q)
    BY <2>3 DEF IInv, TypeOK, Request
  <2> QED
    BY <1>4, <2>1, <2>2, <2>3
<1>11. ASSUME NEW r \in Requests, sendLink(r) PROVE \A q \in Requests : ReplacesListed(q)'
  <2>1. CASE Ends(r)
    BY <1>2, <1>4, <2>1
  <2>2. CASE /\ held' = held \union {req[r].link}
             /\ req' = [req EXCEPT ![r].pc = "commit"]
    <3>1. \A q \in Requests : /\ req'[q].link = req[q].link /\ req'[q].email = req[q].email
                              /\ q # r => req'[q].pc = req[q].pc
      BY <2>2 DEF IInv, TypeOK, Request
    <3> QED
      BY <1>1, <1>11, <1>e, <1>w, <2>2, <3>1 DEF sendLink, ReplacesListed, LinkInv
  <2> QED
    BY <1>11, <2>1, <2>2 DEF sendLink
<1>12. ASSUME Crash PROVE \A q \in Requests : Same(q)
  BY <1>12 DEF Crash, Idle
<1>13. ASSUME NEW t \in Tokens, logout(t) \/ SessionExpires(t) PROVE UNCHANGED req
  BY <1>13 DEF logout, SessionExpires
<1> HIDE DEF Same
<1> QED
  BY ZenonT(60), <1>2, <1>3, <1>5, <1>7, <1>8, <1>9, <1>10, <1>11, <1>12, <1>13
     DEF Next, RequestStep

\* No step takes a working link away without saying so in the entry.
LEMMA LinkStep ==
  ASSUME IInv, LinkInv, [Next]_vars
  PROVE  LinkInv' /\ LinkKept
<1> USE DEF None
<1> DEFINE Empty == \A e \in Emails : waitlist'[e].status = None => waitlist'[e].link = None
<1>1. CASE UNCHANGED vars
  <2>1. LinkInv'
    BY <1>1 DEF vars, LinkInv
  <2> QED
    BY <1>1, <2>1 DEF vars, LinkKept, Works
<1>2. CASE Next
  <2>h. held \subseteq held'
    BY <1>2, HeldGrows
  <2>n. None \notin held
    BY AccountsAssumption DEF IInv, TypeOK
  <2>1. ASSUME UNCHANGED waitlist PROVE Empty /\ LinkKept
    BY <2>1, <2>h DEF LinkInv, LinkKept, Works
  <2>2. ASSUME NEW e \in Emails, signup(e) PROVE Empty /\ LinkKept
    <3>1. PICK l \in FreshLinks : insertSignup(e, l)
      BY ZenonT(60), <2>2 DEF signup
    <3> DEFINE row == [Vacant EXCEPT !.status = "pending", !.link = l]
    <3>2. row.status = "pending"
      BY DEF Vacant
    <3>3. waitlist' = [waitlist EXCEPT ![e] = row] /\ waitlist[e].status = None
      BY <3>1 DEF insertSignup
    <3> HIDE DEF row
    <3>4. ~Works(e)
      BY <3>3, <2>n DEF LinkInv, Works
    <3> QED
      BY <2>h, <3>2, <3>3, <3>4 DEF LinkInv, LinkKept, Works, IInv, TypeOK
  <2>3. ASSUME NEW e \in Emails, verify(e) PROVE Empty /\ LinkKept
    <3>1. waitlist' = [waitlist EXCEPT ![e].verified = TRUE, ![e].link = None]
      BY <2>3 DEF verify, verifyEmail
    <3> QED
      BY <2>h, <3>1 DEF LinkInv, LinkKept, Works, IInv, TypeOK, Entry
  <2>4. ASSUME NEW e \in Emails, LinkExpires(e) PROVE Empty /\ LinkKept
    BY <2>4, <2>h DEF LinkExpires, LinkInv, LinkKept, Works, IInv, TypeOK, Entry
  <2>5. ASSUME NEW e \in Emails, approve(e) \/ reject(e) PROVE Empty /\ LinkKept
    <3>1. PICK status \in {"approved", "rejected"} :
             waitlist' = [waitlist EXCEPT ![e].status = status]
      BY ZenonT(60), <2>5 DEF approve, approveBatch, reject, rejectBatch
    <3> QED
      BY <2>h, <3>1 DEF LinkInv, LinkKept, Works, IInv, TypeOK, Entry
  <2>6. ASSUME NEW e \in Emails, delete(e) PROVE Empty /\ LinkKept
    <3>1. waitlist' = [waitlist EXCEPT ![e] = Vacant]
      BY <2>6 DEF delete, deleteOne
    <3> QED
      BY <2>h, <3>1 DEF Vacant, LinkInv, LinkKept, Works, IInv, TypeOK
  <2>7. ASSUME NEW r \in Requests, commitLink(r) PROVE Empty /\ LinkKept
    <3>1. /\ req[r].email \in Emails /\ req[r].link \in held
          /\ waitlist[req[r].email].status # None
      BY ZenonT(60), SMTT(60), <2>7 DEF commitLink, IInv, Equipped, LinkInv
    <3>2. CASE waitlist' = [waitlist EXCEPT ![req[r].email].link = req[r].link,
                                            ![req[r].email].expired = FALSE]
      BY <2>h, <3>1, <3>2 DEF LinkInv, LinkKept, Works, IInv, TypeOK, Entry
    <3> QED
      BY <2>1, <2>7, <3>2 DEF commitLink
  <2>9. Empty /\ LinkKept
    BY ZenonT(60), <2>1, <2>2, <2>3, <2>4, <2>5, <2>6, <2>7, <1>2, WaitlistWriters
  <2> QED
    BY <1>2, <2>9, CommitsMailed DEF LinkInv, ReplacesListed
<1> QED
  BY <1>1, <1>2

\* A signup that holds a working link keeps one until it is verified, expires or
\* is deleted (resendVerification mails before it commits).
THEOREM KeepsLinkHolds == Spec => KeepsLink
<1>1. Init => LinkInv
  BY DEF Init, LinkInv, Vacant, Idle, None
<1>2. ASSUME IInv, LinkInv, [Next]_vars PROVE LinkInv' /\ [LinkKept]_vars
  BY <1>2, LinkStep
<1> QED
  BY <1>1, <1>2, InitIInv, NextIInv, PTL DEF Spec, KeepsLink, LinkKept
=============================================================================
