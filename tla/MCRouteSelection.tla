-------------------------- MODULE MCRouteSelection --------------------------
(* A registry of two brokers for TLC: good routes of both protocols, and    *)
(* routes with one defect each that the selector must leave out.           *)
EXTENDS RouteSelection

CallSymmetry == Permutations(Calls)

GoodKeys == <<[publicKey |-> "pk", notBefore |-> "t0", expiresAt |-> "t1",
               introduced |-> 1]>>

Estimator == [id |-> "frames", rounding |-> "up", exactness |-> "exact",
              package |-> None, fixtures |-> "f"]

RawSession(metering, attachment) ==
  [descriptor |-> "rtmp-hls/v1", metering |-> metering, attachment |-> attachment,
   refill |-> None, interval |-> None, missed |-> None, policy |-> None,
   maxSeconds |-> None, tolerance |-> None, increment |-> None, params |-> None]

Extra(job, session, doc) ==
  [protocol |-> None, job |-> job, session |-> session, doc |-> doc]

Job(url, price, transports, doc) ==
  [url |-> url, eth |-> url, capability |-> "video:transcode.abr", offering |-> "default",
   price |-> price, workUnit |-> "video-frame-megapixel", protocol |-> "paid-job/v1",
   extra |-> Extra([transports |-> transports], None, doc),
   nodeExtra |-> [Extra(None, None, <<>>) EXCEPT !.protocol = "paid-job/v1"],
   parses |-> TRUE, enabled |-> TRUE, estimator |-> Estimator, keys |-> GoodKeys,
   domain |-> "d", constraints |-> [region |-> ("" :> One("eu"))]]

Live(url, metering, attachment) ==
  [Job(url, 5, <<>>, <<>>) EXCEPT
     !.capability = "video:transcode.live", !.workUnit = "output_seconds",
     !.protocol = "paid-session/v1",
     !.extra = Extra(None, RawSession(metering, attachment), <<>>),
     !.nodeExtra.protocol = "paid-session/v1"]

Cheap == Job(1, 3, <<"stream">>, [modes |-> ("" :> List({"vod", "live"}))])
Dear == Job(2, 7, <<"unary", "stream">>, [video |-> [mode |-> One("vod")]])
Twice == Job(1, 1, <<"stream", "stream">>, <<>>)
Multipart == Job(2, 1, <<"multipart">>, <<>>)
LiveOnly == Job(2, 1, <<"stream">>, [video |-> [modes |-> List({"live"})]])
Keyless == [Job(2, 1, <<"stream">>, <<>>) EXCEPT !.keys = <<>>]
Broken == [Job(2, 1, <<"stream">>, <<>>) EXCEPT !.parses = FALSE]
Disabled == [Job(2, 1, <<"stream">>, <<>>) EXCEPT !.enabled = FALSE, !.domain = "zero"]
Unlocated == [Keyless EXCEPT !.url = 0]
Reported == Live(1, "runner-reported", None)
Inband == Live(2, "broker-observed", "inband-ws")
Unmetered == Live(2, "broker-observed", None)
Schemaless == [Live(2, "runner-reported", None) EXCEPT !.extra.session.params = Wrong]

MCListings ==
  <<{Cheap, Dear, Twice, Multipart, LiveOnly, Keyless, Disabled, Unlocated, Reported, Inband,
    Unmetered, Schemaless},
   {Dear, Broken}>>

Ask(kind, capability, tier, maxPrice) ==
  [kind |-> kind, capability |-> capability, offering |-> "default", tier |-> tier,
   headerExtra |-> <<>>, headerConstraints |-> <<>>,
   constraints |-> [region |-> ("" :> One("eu"))], maxPrice |-> maxPrice,
   headersParse |-> TRUE]

MCWorkloads ==
  {{Ask("select", "video:transcode.abr", "standard", None)},
   {Ask("select", "video:transcode.live", None, 6)},
   {[Ask("select", "video:transcode.abr", None, 6) EXCEPT !.headersParse = FALSE]},
   {Ask("inspect", None, None, None)},
   {Ask("loc", "video:transcode.live", None, None),
    Ask("loc", "video:transcode.abr", None, None)}}

MCOutcomes ==
  {[ok |-> TRUE, code |-> "", status |-> 200],
   [ok |-> FALSE, code |-> "job_in_flight", status |-> 503],
   [ok |-> FALSE, code |-> "", status |-> 429]}
=============================================================================
