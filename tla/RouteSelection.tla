--------------------------- MODULE RouteSelection ---------------------------
(***************************************************************************)
(* How the gateway picks a paid route.                                     *)
(*                                                                         *)
(* The resolver advertises routes; the selector keeps a snapshot of them   *)
(* for a while, filters it by what the caller needs, orders what is left   *)
(* by preference and price, and puts the routes that keep failing last.    *)
(* A caller tries the first route and reports how it went.  LOC's own      *)
(* route discovery, the resolver the process is wired with, is the third   *)
(* kind of call.                                                           *)
(*                                                                         *)
(* Loads are asynchronous: a call waits for the resolver while the clock   *)
(* moves, brokers are suppressed, other calls fill the cache and outcomes  *)
(* arrive.                                                                 *)
(*                                                                         *)
(* A JSON document is a function from its top-level keys to what stands    *)
(* under them, itself a function from the rest of the path ("" for none)   *)
(* to a leaf; the empty document stands for none.                          *)
(***************************************************************************)
EXTENDS Integers, Sequences, FiniteSets, FiniteSetsExt, Functions, TLC

CONSTANTS
  Listings,     \* what the resolver may know: a set of advertised routes each
  Workloads,    \* what callers may ask for: sets of requests
  Outcomes,     \* how the attempt on a route may end
  Calls,        \* calls made of the selector
  TTL,          \* resolverSnapshotTtlMs
  Threshold,    \* routeFailureThreshold
  CooldownMs,   \* routeCooldownMs
  Uint64Max,    \* the largest 64-bit number, cut to size
  MaxTime,      \* the clock stops here
  MaxChanges,   \* changes of the resolver's listing and of suppressed
  MaxInspects,  \* calls that may be inspections
  None,         \* undefined or null
  Wrong         \* a JSON value of another type than the one expected

ASSUME RouteAssumption ==
  /\ DOMAIN Listings # {} /\ \A l \in DOMAIN Listings : IsFiniteSet(Listings[l])
  /\ IsFiniteSet(Calls)
  /\ {TTL, Threshold, CooldownMs} \subseteq Nat \ {0}

VARIABLES
  workload,     \* the requests of this behaviour; never changes
  listing,      \* which of the Listings the resolver has now (external)
  cache,        \* selectCache by capability, and inspectCache
  suppressed,   \* broker URLs the operator suppressed
  health,       \* the route states of RouteHealthTracker, by route key
  metrics,      \* its counters
  call,         \* each call: [pc, req, at, asOf, left, got, answer]
  now,          \* Date.now()
  changes,      \* changes made so far
  log           \* history: every outcome recorded, in order

vars == <<workload, listing, cache, suppressed, health, metrics, call, now,
          changes, log>>

allButCall == <<workload, listing, cache, suppressed, health, metrics, now, changes,
                log>>

\* Map.set
Put(map, key, value) ==
  [k \in DOMAIN map \cup {key} |-> IF k = key THEN value ELSE map[k]]
-----------------------------------------------------------------------------
(* Reading what a route declares.                                          *)

JOB_TRANSPORTS == {"unary", "stream", "multipart"}

nonEmptyString(v) == v \notin {None, Wrong, ""}

\* undefined is fine; a value must be a whole number from 1
optionalPositiveSafeInteger(v) == v = None \/ (v # Wrong /\ v \in Nat \ {0})

optionalObject(v) == v # Wrong

optionalNonNegativeNumber(v) == v = None \/ (v # Wrong /\ v >= 0)

canonicalUint64(v) == v \notin {None, Wrong} /\ v \in 0 .. Uint64Max

Default(v, d) == IF v = None THEN d ELSE v

parseJobAxes(job) ==
  IF /\ job \notin {None, Wrong}
     /\ job.transports # <<>>
     /\ Range(job.transports) \subseteq JOB_TRANSPORTS
     /\ IsInjective(job.transports)
  THEN [transports |-> Range(job.transports)]
  ELSE None

parseHeartbeat(s) ==
  IF optionalPositiveSafeInteger(s.interval) /\ optionalPositiveSafeInteger(s.missed)
  THEN [interval |-> Default(s.interval, 10), missed |-> Default(s.missed, 3)]
  ELSE None

parseLease(s) ==
  LET policy == Default(s.policy, "funding-tracking")
  IN  IF /\ policy \in {"funding-tracking", "fixed"}
         /\ optionalPositiveSafeInteger(s.maxSeconds)
      THEN [policy |-> policy, maxSeconds |-> s.maxSeconds]
      ELSE None

SessionAxes(s, attachment, refill) ==
  [descriptor |-> s.descriptor, attachment |-> attachment, metering |-> s.metering,
   refill |-> refill, heartbeat |-> parseHeartbeat(s), lease |-> parseLease(s)]

\* Mutant: a session the broker observes may be external.
parseSessionAxes_anyAttachment(s) ==
  LET attachment == Default(s.attachment, "external")
      refill     == Default(s.refill, "extensible")
  IN  IF /\ nonEmptyString(s.descriptor)
         /\ s.metering \in {"runner-reported", "broker-observed"}
         /\ attachment \in {"external", "inband-ws"}
         /\ refill \in {"extensible", "bounded"}
         /\ parseHeartbeat(s) # None /\ parseLease(s) # None
         /\ optionalNonNegativeNumber(s.tolerance)
         /\ optionalPositiveSafeInteger(s.increment)
         /\ optionalObject(s.params)
      THEN SessionAxes(s, attachment, refill)
      ELSE None

parseSessionAxes(s) ==
  LET attachment == Default(s.attachment, "external")
      refill     == Default(s.refill, "extensible")
  IN  IF /\ nonEmptyString(s.descriptor)
         /\ s.metering \in {"runner-reported", "broker-observed"}
         /\ attachment \in {"external", "inband-ws"}
         /\ s.metering = "broker-observed" => attachment = "inband-ws"
         /\ refill \in {"extensible", "bounded"}
         /\ parseHeartbeat(s) # None /\ parseLease(s) # None
         /\ optionalNonNegativeNumber(s.tolerance)
         /\ optionalPositiveSafeInteger(s.increment)
         /\ optionalObject(s.params)
      THEN SessionAxes(s, attachment, refill)
      ELSE None

\* What a route declares, or None when the declaration is inconsistent.
parseRouteProtocolDeclaration(protocol, extra) ==
  LET job     == parseJobAxes(extra.job)
      session == IF extra.session \in {None, Wrong} THEN None
                 ELSE parseSessionAxes(extra.session)
  IN  IF extra = None \/ extra.protocol \notin {None, protocol} THEN None
      ELSE IF protocol = "paid-job/v1" /\ extra.session = None /\ job # None
      THEN [protocol |-> protocol, job |-> job, session |-> None]
      ELSE IF protocol = "paid-session/v1" /\ extra.job = None /\ session # None
      THEN [protocol |-> protocol, job |-> None, session |-> session]
      ELSE None

\* CAPABILITY_ROUTE_REQUIREMENTS
routeRequirementForCapability(capability) ==
  IF capability = "video:transcode.abr"
  THEN [protocol |-> "paid-job/v1", transports |-> {"unary", "stream"}]
  ELSE [protocol |-> "paid-session/v1", descriptor |-> "rtmp-hls/v1",
        attachment |-> "external"]

routeSatisfiesRequirement(d, r) ==
  /\ d.protocol = r.protocol
  /\ r.protocol = "paid-job/v1" => r.transports \cap d.job.transports # {}
  /\ r.protocol = "paid-session/v1" =>
       /\ d.session.descriptor = r.descriptor
       /\ d.session.attachment = r.attachment

parseWorkUnitEstimator(e) ==
  /\ e # Wrong
  /\ nonEmptyString(e.id) /\ nonEmptyString(e.rounding) /\ nonEmptyString(e.exactness)
  /\ Wrong \notin {e.package, e.fixtures}

\* No estimator is fine, a malformed one is not.
parseOptionalEstimator(e) == e = None \/ parseWorkUnitEstimator(e)

parseSettlementKeys(ks) ==
  \A k \in Range(ks) :
     /\ nonEmptyString(k.publicKey) /\ nonEmptyString(k.notBefore)
     /\ nonEmptyString(k.expiresAt) /\ canonicalUint64(k.introduced)

\* 32 bytes of lower-case hex, not all zero
parseSettlementDomainId(d) == d \notin {None, Wrong, "zero"}
-----------------------------------------------------------------------------
(* Documents: what a caller prefers or requires against what a route says. *)

One(x) == [k |-> "one", v |-> {x}]

List(S) == [k |-> "list", v |-> S]

\* Top-level keys of b replace those of a.
mergeJsonObjects(a, b) ==
  [t \in DOMAIN a \cup DOMAIN b |-> IF t \in DOMAIN b THEN b[t] ELSE a[t]]

Has(doc, path) == path[1] \in DOMAIN doc /\ path[2] \in DOMAIN doc[path[1]]

lookup(doc, path) == doc[path[1]][path[2]]

Paths(doc) == UNION {{<<t, s>> : s \in DOMAIN doc[t]} : t \in DOMAIN doc}

isSubset(candidate, required) ==
  \A p \in Paths(required) :
     /\ Has(candidate, p)
     /\ lookup(candidate, p).k = lookup(required, p).k
     /\ lookup(required, p).v \subseteq lookup(candidate, p).v

MatchingAt(candidate, preferred, p) ==
  IF Has(candidate, p) /\ lookup(candidate, p).k = lookup(preferred, p).k
  THEN Cardinality(lookup(candidate, p).v \cap lookup(preferred, p).v)
  ELSE 0

countMatchingLeaves(candidate, preferred) ==
  MapThenSumSet(LAMBDA p : MatchingAt(candidate, preferred, p), Paths(preferred))

scorePreference(candidate, preferred) ==
  [fullMatch |-> isSubset(candidate, preferred),
   matchedLeaves |-> countMatchingLeaves(candidate, preferred)]

\* A price that does not parse counts as zero.
safeBigInt(price) == IF price \in {None, Wrong} THEN 0 ELSE price

\* The order of the answer: preference, price, URL, address.
compareCandidates(a, b, preferred) ==
  LET sa == scorePreference(a.doc, preferred)
      sb == scorePreference(b.doc, preferred)
      pa == safeBigInt(a.price)
      pb == safeBigInt(b.price)
  IN  \/ sa.fullMatch /\ ~sb.fullMatch
      \/ /\ sa.fullMatch = sb.fullMatch
         /\ \/ sa.matchedLeaves > sb.matchedLeaves
            \/ /\ sa.matchedLeaves = sb.matchedLeaves
               /\ \/ pa < pb
                  \/ pa = pb /\ a.url < b.url
                  \/ pa = pb /\ a.url = b.url /\ a.eth < b.eth

\* matches.sort: candidates that compare equal stand in the order they came in,
\* which may be any.
Sorted(S, preferred) ==
  {s \in [1 .. Cardinality(S) -> S] :
     /\ Range(s) = S
     /\ \A i, j \in DOMAIN s : compareCandidates(s[i], s[j], preferred) => i < j}
-----------------------------------------------------------------------------
(* Selection policy: what an encoding tier asks of a route.                *)

RESOLUTIONS_ASCENDING == {240, 360, 480, 720, 1080, 2160}

TIER_CODECS == [baseline |-> {"h264"}, standard |-> {"h264", "hevc"},
                premium |-> {"h264", "hevc", "av1"}]

expandTier(tier) == [resolution : RESOLUTIONS_ASCENDING, codec : TIER_CODECS[tier]]

uniqueCodecs(renditions) == {r.codec : r \in renditions}

highestResolution(renditions) == Max({r.resolution : r \in renditions})

\* The first path at which the route's extra or constraints hold a leaf of
\* the kind wanted; extra hides the constraints at the same path.
Declared(c, paths, kind) ==
  LET At(p) == IF Has(c.doc, p) THEN lookup(c.doc, p)
               ELSE IF Has(c.constraints, p) THEN lookup(c.constraints, p)
               ELSE List({})
      good  == SelectSeq(paths, LAMBDA p : At(p).k = kind /\ At(p).v # {})
  IN  IF good = <<>> THEN {} ELSE At(Head(good)).v

firstStringList(c, paths) == Declared(c, paths, "list")

firstString(c, paths) == Declared(c, paths, "one")

candidateSupportsMode(c, mode) ==
  LET declared == firstStringList(c, << <<"video", "modes">>,
                                        <<"video", "supported_modes">>,
                                        <<"modes", "">>, <<"supported_modes", "">> >>)
  IN  declared = {} \/ mode \in declared

candidateSupportsEncodingTier(c, tier) ==
  LET declared == firstStringList(c, << <<"video", "encoding_tiers">>,
                                        <<"video", "supported_encoding_tiers">>,
                                        <<"encoding_tiers", "">>,
                                        <<"supported_encoding_tiers", "">> >>)
  IN  declared = {} \/ tier \in declared

candidateSupportsCodecs(c, codecs) ==
  LET declared == firstStringList(c, << <<"video", "codecs">>,
                                        <<"video", "supported_codecs">>,
                                        <<"codecs", "">>, <<"supported_codecs", "">> >>)
  IN  declared = {} \/ codecs \subseteq declared

\* A resolution the gateway does not know is no objection.
candidateSupportsResolution(c, required) ==
  \A r \in firstString(c, << <<"video", "max_resolution">>, <<"max_resolution", "">> >>) :
     r \in RESOLUTIONS_ASCENDING => r >= required

candidateSupports(c, mode, tier) ==
  LET renditions == expandTier(tier)
  IN  /\ candidateSupportsMode(c, mode)
      /\ candidateSupportsEncodingTier(c, tier)
      /\ candidateSupportsCodecs(c, uniqueCodecs(renditions))
      /\ candidateSupportsResolution(c, highestResolution(renditions))

buildVodSelectionHints(tier) ==
  [video |-> [mode |-> One("vod"), encoding_tier |-> One(tier)]
             @@ "output.max_resolution" :> One(highestResolution(expandTier(tier)))
             @@ "output.required_codecs" :> List(uniqueCodecs(expandTier(tier)))]

buildLiveSelectionHints(tier) ==
  [video |-> [mode |-> One("live"), ingress |-> One("rtmp"), egress |-> One("hls"),
              encoding_tier |-> One(tier)]
             @@ "ladder.max_resolution" :> One(highestResolution(expandTier(tier)))
             @@ "ladder.rendition_count" :> One(Cardinality(expandTier(tier)))
             @@ "ladder.required_codecs" :> List(uniqueCodecs(expandTier(tier)))]

\* The hints of a request: those of its tier, when it has one.
Mode(capability) == IF capability = "video:transcode.abr" THEN "vod" ELSE "live"

preferredExtra(q) ==
  IF q.tier = None THEN q.headerExtra
  ELSE mergeJsonObjects(q.headerExtra,
         IF Mode(q.capability) = "vod" THEN buildVodSelectionHints(q.tier)
         ELSE buildLiveSelectionHints(q.tier))

requiredConstraints(q) == mergeJsonObjects(q.headerConstraints, q.constraints)
-----------------------------------------------------------------------------
(* Candidates: advertised routes the selector can use.                     *)

Candidate(r, d, doc) ==
  [url |-> r.url, eth |-> r.eth, capability |-> r.capability, offering |-> r.offering,
   price |-> r.price, workUnit |-> r.workUnit, protocol |-> d.protocol, job |-> d.job,
   session |-> d.session, doc |-> doc, constraints |-> r.constraints]

\* SelectMany's routes carry the keys that settle them.
flattenSelectedRoute(r) ==
  LET d == parseRouteProtocolDeclaration(r.protocol, r.extra)
  IN  IF /\ d # None
         /\ parseOptionalEstimator(r.estimator)
         /\ r.keys # <<>> /\ parseSettlementKeys(r.keys)
         /\ parseSettlementDomainId(r.domain)
      THEN {Candidate(r, d, r.extra.doc)}
      ELSE {}

\* A capability's extra laid over its node's.
mergeExtra(a, b) ==
  IF a = None THEN b
  ELSE IF b = None THEN a
  ELSE [protocol |-> Default(b.protocol, a.protocol), job |-> Default(b.job, a.job),
        session |-> Default(b.session, a.session), doc |-> mergeJsonObjects(a.doc, b.doc)]

protocolFromExtra(extra) == IF extra = None THEN None ELSE extra.protocol

\* URLs are numbers, in the order of the strings; the empty one is the first.
NoUrl == 0

\* The nodes of ResolveByAddress that are looked at.
Listed(r) == r.enabled /\ r.url # NoUrl

\* ResolveByAddress lists every enabled node; it carries no keys.
flattenResolveResult(r) ==
  LET extra == mergeExtra(r.nodeExtra, r.extra)
      d     == parseRouteProtocolDeclaration(protocolFromExtra(extra), extra)
  IN  IF Listed(r) /\ d # None /\ parseOptionalEstimator(r.estimator)
      THEN {Candidate(r, d, extra.doc)}
      ELSE {}
-----------------------------------------------------------------------------
(* Route health.                                                           *)

keyOf(c) == <<c.url, c.eth, c.capability, c.offering>>

freshState == [failures |-> 0, until |-> 0, lastFailure |-> 0, lastSuccess |-> 0]

State(k) == IF k \in DOMAIN health THEN health[k] ELSE freshState

isCoolingDown(k) == State(k).until > now

\* The loop over the candidates, each pushed onto one of two lists.
rankCandidates(cs) ==
  LET split[i \in 0 .. Len(cs)] ==
        IF i = 0 THEN [ready |-> <<>>, cooling |-> <<>>]
        ELSE IF isCoolingDown(keyOf(cs[i]))
        THEN [split[i - 1] EXCEPT !.cooling = Append(@, cs[i])]
        ELSE [split[i - 1] EXCEPT !.ready = Append(@, cs[i])]
  IN  split[Len(cs)].ready \o split[Len(cs)].cooling

\* CLASSIFICATIONS, by what follows from a code.
Recovers == {"job_in_flight", "accounting_pending", "idempotency_in_progress",
             "idempotency_outcome_unknown", "recipient_rotated", "daemon_unavailable"}

Refused == {"protocol_transport_unsupported", "protocol_unsupported",
            "capability_not_served", "request_id_reuse", "idempotency_key_reuse",
            "rebind_refused", "refill_refused", "insufficient_balance", "cap_reached",
            "debit_failed", "admitted_evidence_expired", "admitted_outcome_unknown",
            "settlement_invalid", "payment_invalid", "payment_envelope_mismatch"}

Faulty == {"backend_unavailable", "backend_timeout", "capacity_exhausted"}

\* A code the table knows decides; otherwise the HTTP status does.
classifyV2Failure(code, status) ==
  LET byStatus == status \in {408, 425, 429} \/ status >= 500
  IN  IF code \in Recovers THEN [retryable |-> TRUE, penalize |-> FALSE]
      ELSE IF code \in Refused THEN [retryable |-> FALSE, penalize |-> FALSE]
      ELSE [retryable |-> code \in Faulty \/ byStatus,
            penalize |-> code \in Faulty \/ byStatus]

Succeeded(s) == [s EXCEPT !.failures = 0, !.until = 0, !.lastSuccess = now]

Failed(s) == [s EXCEPT !.lastFailure = now]

Opens(s) == s.failures + 1 >= Threshold /\ s.until <= now

\* Mutant: a failure during the cool-down prolongs it.
Penalised_extends(s) ==
  [s EXCEPT !.failures = @ + 1, !.lastFailure = now,
            !.until = IF s.failures + 1 >= Threshold THEN now + CooldownMs ELSE @]

Penalised(s) ==
  [s EXCEPT !.failures = @ + 1, !.lastFailure = now,
            !.until = IF Opens(s) THEN now + CooldownMs ELSE @]

record(c, o) ==
  LET k     == keyOf(c)
      s     == State(k)
      class == IF o.ok THEN [retryable |-> FALSE, penalize |-> FALSE]
               ELSE classifyV2Failure(o.code, o.status)
      after == IF o.ok THEN Succeeded(s)
               ELSE IF class.retryable /\ class.penalize THEN Penalised(s) ELSE Failed(s)
  IN  /\ health' = Put(health, k, after)
      /\ metrics' = [attempts     |-> metrics.attempts + 1,
                     successes    |-> metrics.successes + (IF o.ok THEN 1 ELSE 0),
                     retryable    |-> metrics.retryable + (IF class.retryable THEN 1 ELSE 0),
                     nonRetryable |-> metrics.nonRetryable
                                        + (IF ~o.ok /\ ~class.retryable THEN 1 ELSE 0),
                     cooldowns    |-> metrics.cooldowns
                                        + (IF ~o.ok /\ class.penalize /\ Opens(s)
                                           THEN 1 ELSE 0)]
      /\ log' = Append(log, [key |-> k, ok |-> o.ok, penalize |-> class.penalize,
                             at |-> now])

summarizeRouteHealth ==
  [tracked |-> Cardinality(DOMAIN health),
   cooling |-> Cardinality({k \in DOMAIN health : isCoolingDown(k)}),
   failing |-> Cardinality({k \in DOMAIN health : health[k].failures > 0}),
   latestFailure |-> Max({0} \cup {health[k].lastFailure : k \in DOMAIN health}),
   latestSuccess |-> Max({0} \cup {health[k].lastSuccess : k \in DOMAIN health})]
-----------------------------------------------------------------------------
(* The selector's operations.                                              *)

Snapshot(asOf, expiresAt, got) == [asOf |-> asOf, expiresAt |-> expiresAt, got |-> got]

Idle == [pc |-> "idle", req |-> None, at |-> 0, asOf |-> 0,
         left |-> {}, got |-> {}, answer |-> <<>>]

Init ==
  /\ workload \in Workloads
  /\ listing \in DOMAIN Listings
  /\ cache = <<>>
  /\ suppressed = {}
  /\ health = <<>>
  /\ metrics = [attempts |-> 0, successes |-> 0, retryable |-> 0, nonRetryable |-> 0,
                cooldowns |-> 0]
  /\ call = [c \in Calls |-> Idle]
  /\ now = 1
  /\ changes = 0
  /\ log = <<>>

\* The candidates that can serve request q, best first: the lists it may be.
Ranked(q, candidates) ==
  LET fits(c) == /\ c.url \notin suppressed
                 /\ c.capability = q.capability
                 /\ c.offering = q.offering
                 /\ routeSatisfiesRequirement(c, routeRequirementForCapability(q.capability))
                 /\ q.maxPrice # None => safeBigInt(c.price) <= q.maxPrice
                 /\ isSubset(c.constraints, requiredConstraints(q))
                 /\ q.tier # None => candidateSupports(c, Mode(q.capability), q.tier)
      matches == {c \in candidates : fits(c)}
  IN  {rankCandidates(s) : s \in Sorted(matches, preferredExtra(q))}

Fresh(key) == key \in DOMAIN cache /\ cache[key].expiresAt > now

CacheKey(q) == <<q.capability, q.offering>>

InspectKey == <<"inspect", "">>

Answer(w, asOf, answer) ==
  [w EXCEPT !.pc = "answered", !.at = 0, !.asOf = asOf, !.left = {}, !.got = {},
            !.answer = answer]

\* The call is over; nothing of it is kept.
Over == [Idle EXCEPT !.pc = "over"]

\* The part of select after its await, by how it may end.  Selector headers
\* that do not parse throw here.
Selected(w, snapshot) ==
  IF w.req.headersParse
  THEN {Answer(w, snapshot.asOf, answer) : answer \in Ranked(w.req, snapshot.got)}
  ELSE {Over}

\* select: from the cache when it is fresh, otherwise the resolver is asked.
select(c, q) ==
  LET w == [Idle EXCEPT !.req = q, !.at = now]
  IN  /\ call[c].pc = "idle" /\ q.kind = "select"
      /\ \E v \in IF Fresh(CacheKey(q)) THEN Selected(w, cache[CacheKey(q)])
                 ELSE {[w EXCEPT !.pc = "asking"]} :
           call' = [call EXCEPT ![c] = v]
      /\ UNCHANGED allButCall

\* The routes the resolver knows now (external).
Known == Listings[listing]

\* The resolver reads its registry for SelectMany (external).
selectMany(c) ==
  LET w == call[c]
  IN  /\ w.pc = "asking" /\ w.req.kind = "select"
      /\ call' = [call EXCEPT ![c] =
                    [w EXCEPT !.pc = "loaded", !.asOf = now,
                              !.got = {r \in Known : /\ r.capability = w.req.capability
                                                       /\ r.offering = w.req.offering}]]
      /\ UNCHANGED allButCall

\* Mutant: the snapshot's life is counted from the answer.
loadSelectSnapshot_late(c) ==
  LET w    == call[c]
      snap == Snapshot(w.asOf, now + TTL, UNION {flattenSelectedRoute(r) : r \in w.got})
  IN  /\ w.pc = "loaded" /\ w.req.kind = "select"
      /\ IF \A r \in w.got : r.parses
         THEN /\ cache' = Put(cache, CacheKey(w.req), snap)
              /\ \E v \in Selected(w, snap) : call' = [call EXCEPT ![c] = v]
         ELSE /\ call' = [call EXCEPT ![c] = Over]
              /\ UNCHANGED cache
      /\ UNCHANGED <<workload, listing, suppressed, health, metrics, now, changes, log>>

\* loadSelectSnapshot after its await: one route whose JSON does not parse
\* throws and nothing is cached.  The snapshot's life is counted from
\* before the request was sent.
loadSelectSnapshot(c) ==
  LET w    == call[c]
      snap == Snapshot(w.asOf, w.at + TTL, UNION {flattenSelectedRoute(r) : r \in w.got})
  IN  /\ w.pc = "loaded" /\ w.req.kind = "select"
      /\ IF \A r \in w.got : r.parses
         THEN /\ cache' = Put(cache, CacheKey(w.req), snap)
              /\ \E v \in Selected(w, snap) : call' = [call EXCEPT ![c] = v]
         ELSE /\ call' = [call EXCEPT ![c] = Over]
              /\ UNCHANGED cache
      /\ UNCHANGED <<workload, listing, suppressed, health, metrics, now, changes, log>>

\* inspect: the snapshot of every known address.  A fresh one is kept over the
\* await that follows, with its expiry.
inspect(c, q) ==
  LET w == [Idle EXCEPT !.req = q, !.at = now]
  IN  /\ call[c].pc = "idle" /\ q.kind = "inspect"
      /\ Cardinality({d \in Calls : call[d].pc # "idle"}) < MaxInspects
      /\ call' = [call EXCEPT ![c] =
                    IF Fresh(InspectKey)
                    THEN [w EXCEPT !.pc = "hit", !.asOf = cache[InspectKey].asOf,
                                   !.at = cache[InspectKey].expiresAt,
                                   !.got = cache[InspectKey].got]
                    ELSE [w EXCEPT !.pc = "asking"]]
      /\ UNCHANGED allButCall

\* It is then stored again, over what another inspection may have stored.
storeAgain(c) ==
  LET w == call[c]
  IN  /\ w.pc = "hit"
      /\ cache' = Put(cache, InspectKey, Snapshot(w.asOf, w.at, w.got))
      /\ call' = [call EXCEPT ![c] = Answer(w, w.asOf, <<w.got>>)]
      /\ UNCHANGED <<workload, listing, suppressed, health, metrics, now, changes, log>>

\* listKnown, then one ResolveByAddress for each address, each at a time of
\* its own.
listKnown(c) ==
  /\ call[c].pc = "asking" /\ call[c].req.kind = "inspect"
  /\ call' = [call EXCEPT ![c].pc = "resolving", ![c].asOf = now,
                          ![c].left = {r.eth : r \in Known}]
  /\ UNCHANGED allButCall

resolveByAddress(c, eth) ==
  /\ call[c].pc = "resolving" /\ eth \in call[c].left
  /\ call' = [call EXCEPT ![c].left = @ \ {eth},
                          ![c].got = @ \cup {r \in Known : r.eth = eth}]
  /\ UNCHANGED allButCall

loadSnapshot(c) ==
  LET w    == call[c]
      snap == Snapshot(w.asOf, w.at + TTL, UNION {flattenResolveResult(r) : r \in w.got})
  IN  /\ w.pc = "resolving" /\ w.left = {}
      /\ IF \A r \in w.got : Listed(r) => r.parses
         THEN /\ cache' = Put(cache, InspectKey, snap)
              /\ call' = [call EXCEPT ![c] = Answer(w, w.asOf, <<snap.got>>)]
         ELSE /\ call' = [call EXCEPT ![c] = Over]
              /\ UNCHANGED cache
      /\ UNCHANGED <<workload, listing, suppressed, health, metrics, now, changes, log>>

\* The resolver answers with an error (external): the load rejects.
ResolverFails(c) ==
  /\ call[c].pc \in {"asking", "resolving"}
  /\ call' = [call EXCEPT ![c] = Over]
  /\ UNCHANGED allButCall
-----------------------------------------------------------------------------
(* LOC's route discovery.                                                  *)

estimatorWire(e) == e = None \/ (parseWorkUnitEstimator(e) /\ nonEmptyString(e.fixtures))

routeSnapshotWire(r) ==
  /\ r.protocol \in {"paid-job/v1", "paid-session/v1"}
  /\ nonEmptyString(r.workUnit)
  /\ r.price \notin {None, Wrong}
  /\ r.domain \notin {None, Wrong}
  /\ r.keys # <<>> /\ parseSettlementKeys(r.keys)
  /\ estimatorWire(r.estimator)

mapRouteSnapshot(r) ==
  IF r.extra = None THEN None
  ELSE parseRouteProtocolDeclaration(r.protocol, [r.extra EXCEPT !.protocol = None])

Dispatchable(q, r, d) ==
  IF q.capability = "video:transcode.abr"
  THEN /\ d.protocol = "paid-job/v1" /\ "stream" \in d.job.transports
       /\ r.workUnit = "video-frame-megapixel"
  ELSE /\ d.protocol = "paid-session/v1" /\ r.workUnit = "output_seconds"
       /\ d.session.descriptor = "rtmp-hls/v1" /\ d.session.attachment = "external"
       /\ d.session.metering = "runner-reported"

\* selectWorker over LOC: a route, none, or an error when the answer is
\* malformed or about another route than its binding.
selectWorker(c, q) ==
  LET w == [Idle EXCEPT !.req = q, !.at = now]
  IN  /\ call[c].pc = "idle" /\ q.kind = "loc"
      /\ \/ call' = [call EXCEPT ![c] = Answer(w, now, <<>>)]
         \/ call' = [call EXCEPT ![c] = Over]
         \/ \E r \in Known :
              LET d == mapRouteSnapshot(r)
              IN  /\ r.capability = q.capability /\ r.offering = q.offering
                  /\ routeSnapshotWire(r) /\ r.domain # "zero" /\ d # None
                  /\ call' = [call EXCEPT ![c] =
                                Answer(w, now, IF Dispatchable(q, r, d)
                                               THEN <<Candidate(r, d, r.extra.doc)>>
                                               ELSE <<>>)]
      /\ UNCHANGED allButCall
-----------------------------------------------------------------------------
(* Outcomes, the operator, and the world.                                  *)

\* The caller tried the best route and reports how that went.
recordOutcome(c, o) ==
  /\ call[c].pc = "answered" /\ call[c].req.kind = "select" /\ call[c].answer # <<>>
  /\ record(Head(call[c].answer), o)
  /\ call' = [call EXCEPT ![c] = Over]
  /\ UNCHANGED <<workload, listing, cache, suppressed, now, changes>>

suppressBroker(url) ==
  /\ changes < MaxChanges
  /\ suppressed' = suppressed \cup {url}
  /\ changes' = changes + 1
  /\ UNCHANGED <<workload, listing, cache, health, metrics, call, now, log>>

unsuppressBroker(url) ==
  /\ changes < MaxChanges
  /\ suppressed' = suppressed \ {url}
  /\ changes' = changes + 1
  /\ UNCHANGED <<workload, listing, cache, health, metrics, call, now, log>>

\* The registry changes under the selector (external).
Relist ==
  /\ changes < MaxChanges
  /\ listing' \in DOMAIN Listings
  /\ changes' = changes + 1
  /\ UNCHANGED <<workload, cache, suppressed, health, metrics, call, now, log>>

Tick ==
  /\ now < MaxTime
  /\ now' = now + 1
  /\ UNCHANGED <<workload, listing, cache, suppressed, health, metrics, call, changes, log>>

Brokers == {r.url : r \in UNION Range(Listings)} \ {NoUrl}

Addresses == {r.eth : r \in UNION Range(Listings)}

Next ==
  \/ \E c \in Calls :
       \/ \E q \in workload : select(c, q) \/ selectWorker(c, q) \/ inspect(c, q)
       \/ selectMany(c) \/ loadSelectSnapshot(c)
       \/ listKnown(c) \/ loadSnapshot(c) \/ storeAgain(c) \/ ResolverFails(c)
       \/ \E eth \in Addresses : resolveByAddress(c, eth)
       \/ \E o \in Outcomes : recordOutcome(c, o)
  \/ \E url \in Brokers : suppressBroker(url) \/ unsuppressBroker(url)
  \/ Relist \/ Tick

Spec == Init /\ [][Next]_vars
-----------------------------------------------------------------------------
\* What the dispatcher relies on in a route it is handed: a job route can
\* carry a JSON request, a live route is an external RTMP-to-HLS session
\* that its runner meters, with a heartbeat and a lease.
Serves(r, q) ==
  /\ r.capability = q.capability /\ r.offering = q.offering
  /\ q.capability = "video:transcode.abr" =>
       r.session = None /\ {"unary", "stream"} \cap r.job.transports # {}
  /\ q.capability = "video:transcode.live" =>
       /\ r.job = None /\ r.session.descriptor = "rtmp-hls/v1"
       /\ r.session.metering = "runner-reported"
       /\ r.session.heartbeat.interval > 0 /\ r.session.lease # None

\* Every route select or selectWorker answers with can serve the request.  Of
\* those of select, which waited for the resolver in between, each costs no more
\* than the caller's limit and is not suppressed at the moment of the answer, and
\* none that is cooling down then stands before one that is ready.
AnswersServe ==
  [][\A c \in Calls :
       LET w == call'[c]
       IN  w.pc = "answered" /\ w # call[c] /\ w.req.kind # "inspect" =>
             /\ \A i \in DOMAIN w.answer :
                  /\ Serves(w.answer[i], w.req)
                  /\ w.req.kind = "select" => w.answer[i].url \notin suppressed
                  /\ w.req.kind = "select" /\ w.req.maxPrice # None =>
                       safeBigInt(w.answer[i].price) <= w.req.maxPrice
             /\ w.req.kind = "select" =>
                  \A i, j \in DOMAIN w.answer :
                     i < j /\ isCoolingDown(keyOf(w.answer[i]))
                       => isCoolingDown(keyOf(w.answer[j]))]_vars

\* A call answered without asking the resolver is answered from what that knew
\* less than a TTL ago, however late it came, whatever other loads it raced with
\* (the clock is read before the request is sent) and although an inspection may
\* store an older snapshot over a newer one.
SnapshotFresh ==
  [][\A c \in Calls :
       call[c].pc = "idle" /\ call'[c].pc \in {"answered", "hit"} =>
         now - call'[c].asOf < TTL]_vars

\* The outcomes of route k up to the i-th, since its last success.
Streak(k, i) ==
  {j \in 1 .. i : /\ log[j].key = k
                  /\ \A m \in j .. i : log[m].key = k => ~log[m].ok}

Penalties(k, i) == Cardinality({j \in Streak(k, i) : log[j].penalize})

\* The i-th outcome starts a cool-down, when those of S did before it.
Starts(S, i) ==
  LET k == log[i].key
  IN  /\ log[i].penalize /\ Penalties(k, i) >= Threshold
      /\ \A j \in S \cap Streak(k, i) : log[i].at >= log[j].at + CooldownMs

\* The log replayed: the outcomes up to the i-th that started a cool-down.
replay[i \in 0 .. Len(log)] ==
  IF i = 0 THEN {} ELSE replay[i - 1] \cup {j \in {i} : Starts(replay[i - 1], j)}

Cools(k) ==
  \E j \in replay[Len(log)] \cap Streak(k, Len(log)) : now < log[j].at + CooldownMs

\* The health of a route is what its recorded outcomes say and nothing else:
\* it cools down only from a penalised failure that is at least the
\* Threshold-th since its last success, for CooldownMs, and a failure that
\* arrives while it cools does not prolong it; refusals and recoveries never
\* count.  The summary and the cool-down counter agree.
HealthFromHistory ==
  LET Tracked == {log[i].key : i \in DOMAIN log}
  IN  /\ DOMAIN health = Tracked
      /\ \A k \in Tracked : isCoolingDown(k) <=> Cools(k)
      /\ summarizeRouteHealth.cooling = Cardinality({k \in Tracked : Cools(k)})
      /\ metrics.cooldowns = Cardinality(replay[Len(log)])
=============================================================================
