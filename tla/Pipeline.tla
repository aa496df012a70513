------------------------------ MODULE Pipeline ------------------------------
(***************************************************************************)
(* HTTP requests on their way through the middleware stack                   *)
(* (internal/platform/httpserver: stack.go, cors.go, timeout.go,             *)
(* middleware.go, router.go, metrics.go; internal/platform/logging/http.go;  *)
(* internal/platform/telemetry).  What an endpoint answers is in Endpoint.    *)
(*                                                                           *)
(* Each request has two goroutines: the connection's, which runs the outer   *)
(* layers and waits in http.TimeoutHandler, and the handler's, which runs    *)
(* the inner recovery, the rate limiter, the router and the endpoint and     *)
(* writes into TimeoutHandler's buffer.  net/http is external.               *)
(***************************************************************************)
EXTENDS Endpoint

CONSTANTS
  Requests, \* the requests, each served once
  Workloads \* what they can be: functions from Requests to records of method,
            \* path, CORS headers and the endpoint's call

\* What a request can be: the router knows every call but "none".
Kinds ==
  {k \in [method : STRING, path : {"endpoint", "redirect", "missing"},
          origin : {"none", "allowed", "unknown"},
          preflight : {"none", "granted", "refused"}, call : Calls] :
     k.path = "endpoint" => k.call.op # "none"}

ASSUME PipelineAssumption ==
  IsFiniteSet(Requests) /\ Workloads \subseteq [Requests -> Kinds]

VARIABLES
  kind,      \* of each request: what it is
  stage,     \* the connection goroutine: "none", "cors", "timed", "returned"
             \* or "unwound" (leaving, after a return or a panic), "done"
  hs,        \* the handler goroutine: "none", "start", "routed", "scraping",
             \* "wrote", "ended" (done is closed), "aborted" (panicChan filled)
  tw,        \* TimeoutHandler's buffer: a sequence of at most one reply
  cut,       \* its err is set: later writes fail
  committed, \* the inner commitWriter has passed a final status on
  hdr,       \* the names of the headers on the connection's ResponseWriter
  wire,      \* the replies net/http was given, with the headers of each
  seen,      \* the status in traceWriter, responseWriter and metricWriter
  report,    \* what the deferred functions of the three recorded
  inflight,  \* Metrics.inflight
  counts,    \* Metrics.requests, per status class
  scan,      \* what Metrics.ServeHTTP has loaded: the six counts, the gauge
  panicked   \* history: panics of the endpoint before the answer

connVars == <<kind, stage, hdr, wire, seen, report, inflight, counts>>
handlerVars == <<hs, tw, committed, scan, panicked>>
vars == <<connVars, handlerVars, cut>>

Classes == 0..5
NoReport == [trace |-> 0, access |-> 0, metric |-> 0, failed |-> FALSE]

\* A reply: its status, its Content-Type, what its body is, and what else it
\* tells the client (see Endpoint).
reply(s, t, b) == [status |-> s, type |-> t, body |-> b, extra |-> "none"]

\* HEAD has no body.
bodyless(q, s, t) == reply(s, t, IF kind[q].method = "HEAD" THEN "none" ELSE t)

\* write and writeJSON.
json(q, s) == bodyless(q, s, "json")

Reports == [trace : Nat, access : Nat, metric : Nat, failed : BOOLEAN]
Types == {"none", "json", "html", "text"}
Extras == {"none", "details", "challenge", "invalid_token"}
Headers == {"X-Request-ID", "Vary", "Access-Control-Allow-Origin", "Cache-Control"}
Replies == [status : 200..599, type : Types, body : Types, extra : Extras]
Answers == [status : 200..599, type : Types, body : Types, extra : Extras,
            headers : SUBSET Headers]

\* The sequences of at most one member of S.
atMostOne(S) == {s \in Seq(S) : Len(s) <= 1}

TypeOK ==
  /\ kind \in Workloads
  /\ stage \in [Requests -> {"none", "cors", "timed", "returned", "unwound", "done"}]
  /\ hs \in [Requests -> {"none", "start", "routed", "scraping", "wrote", "ended",
                          "aborted"}]
  /\ tw \in [Requests -> atMostOne(Replies)]
  /\ cut \in [Requests -> BOOLEAN] /\ committed \in [Requests -> BOOLEAN]
  /\ hdr \in [Requests -> SUBSET Headers]
  /\ wire \in [Requests -> atMostOne(Answers)]
  /\ seen \in [Requests -> {0} \cup 200..599] /\ report \in [Requests -> Reports]
  /\ inflight \in Nat /\ counts \in [Classes -> Nat]
  /\ scan \in [Requests -> Seq(Nat)] /\ \A q \in Requests : Len(scan[q]) <= 7
  /\ panicked \in SUBSET Requests

Init ==
  /\ kind \in Workloads
  /\ stage = [q \in Requests |-> "none"] /\ hs = [q \in Requests |-> "none"]
  /\ tw = [q \in Requests |-> <<>>]
  /\ cut = [q \in Requests |-> FALSE] /\ committed = [q \in Requests |-> FALSE]
  /\ hdr = [q \in Requests |-> {}] /\ wire = [q \in Requests |-> <<>>]
  /\ seen = [q \in Requests |-> 0] /\ report = [q \in Requests |-> NoReport]
  /\ inflight = 0 /\ counts = [c \in Classes |-> 0]
  /\ scan = [q \in Requests |-> <<>>] /\ panicked = {}

-----------------------------------------------------------------------------
(* The connection goroutine.                                                 *)

\* RequestIDMiddleware sets the header; tracing, Access and Metrics.Wrap put
\* their writers around the next layer.
Enter(q) ==
  /\ stage[q] = "none"
  /\ stage' = [stage EXCEPT ![q] = "cors"]
  /\ hdr' = [hdr EXCEPT ![q] = {"X-Request-ID"}]
  /\ inflight' = inflight + 1
  /\ UNCHANGED <<kind, wire, seen, report, counts, handlerVars, cut>>

\* metricWriter, responseWriter, traceWriter: the first final status is kept.
firstStatus(kept, status) == IF kept # 0 THEN kept ELSE status

\* WriteHeader through commitWriter, metricWriter, responseWriter and
\* traceWriter: each passes the first final status on, and keeps it.
send(q, r, h) ==
  /\ hdr' = [hdr EXCEPT ![q] = h]
  /\ wire' = [wire EXCEPT ![q] = IF seen[q] # 0 THEN @ ELSE
                Append(@, [status |-> r.status, type |-> r.type, body |-> r.body,
                           extra |-> r.extra, headers |-> h])]
  /\ seen' = [seen EXCEPT ![q] = firstStatus(@, r.status)]

class(status) == IF status \div 100 \in 1..5 THEN status \div 100 ELSE 0

\* Mutant: a request without a status counts as a success.
metricOptimistic(status, completed) == IF status # 0 THEN status ELSE 200

\* Metrics.Wrap: no status is 200 after a return and 500 after a panic.
metricStatus(status, completed) ==
  IF status # 0 THEN status ELSE IF completed THEN 200 ELSE 500

\* HTTPTracing and Access: no status is 200 after a return, 0 after a panic.
observed(status, completed) == IF status = 0 /\ completed THEN 200 ELSE status

\* Mutant: the gauge goes down only after a return, not after a panic.
leaveUndeferred(q, how) ==
  /\ stage' = [stage EXCEPT ![q] = how]
  /\ inflight' = IF how = "returned" THEN inflight - 1 ELSE inflight
  /\ UNCHANGED <<counts, report>>

\* The first of the deferred steps: the gauge.
leave(q, how) ==
  /\ stage' = [stage EXCEPT ![q] = how]
  /\ inflight' = inflight - 1
  /\ UNCHANGED <<counts, report>>

\* The others: the counter, then the records of Access and HTTPTracing.
Record(q) ==
  /\ stage[q] \in {"returned", "unwound"}
  /\ stage' = [stage EXCEPT ![q] = "done"]
  /\ LET completed == stage[q] = "returned"
         metric == metricStatus(seen[q], completed)
         status == observed(seen[q], completed)
     IN
       /\ counts' = [counts EXCEPT ![class(metric)] = @ + 1]
       /\ report' = [report EXCEPT ![q] =
            [trace |-> status, access |-> status, metric |-> metric,
             failed |-> ~completed \/ status >= 500]]
  /\ UNCHANGED <<kind, hdr, wire, seen, inflight, handlerVars, cut>>

\* Mutant: the origin is allowed in preflights only.
corsPreflightOnly(q) ==
  hdr[q] \cup {"Vary"} \cup
    (IF kind[q].preflight = "granted" THEN {"Access-Control-Allow-Origin"} ELSE {})

\* CORS: the headers an origin gets.
corsHeaders(q) ==
  hdr[q] \cup {"Vary"} \cup
    (IF kind[q].origin = "allowed" THEN {"Access-Control-Allow-Origin"} ELSE {})

\* CORS answers an unknown origin and every preflight itself.
corsAnswer(q) ==
  IF kind[q].preflight = "granted" /\ kind[q].origin = "allowed"
  THEN reply(204, "none", "none") ELSE json(q, 403)

CorsAnswers(q) ==
  /\ stage[q] = "cors"
  /\ \/ kind[q].origin = "unknown"
     \/ kind[q].origin = "allowed" /\ kind[q].preflight # "none"
  /\ send(q, corsAnswer(q), corsHeaders(q))
  /\ leave(q, "returned")
  /\ UNCHANGED <<kind, handlerVars, cut>>

\* CORS passes the others on to Timeout, which starts the handler goroutine.
CorsPasses(q) ==
  /\ stage[q] = "cors"
  /\ \/ kind[q].origin = "none"
     \/ kind[q].origin = "allowed" /\ kind[q].preflight = "none"
  /\ stage' = [stage EXCEPT ![q] = "timed"]
  /\ hs' = [hs EXCEPT ![q] = "start"]
  /\ hdr' = [hdr EXCEPT ![q] = corsHeaders(q) \cup {"Cache-Control"}]
  /\ UNCHANGED <<kind, wire, seen, report, inflight, counts, tw, committed,
                 scan, panicked, cut>>

\* jsonTimeoutWriter: a 503 without a type, and anything that is HTML, is
\* labelled JSON; no body for HEAD.
jsonTimeoutWriter(q, r) ==
  [r EXCEPT !.type = IF (r.status = 503 /\ r.type = "none") \/ r.type = "html"
                     THEN "json" ELSE @,
            !.body = IF kind[q].method = "HEAD" THEN "none" ELSE @]

\* Mutant: the handler's answer is copied whenever it comes.
FinishLate(q) ==
  /\ stage[q] \in {"timed", "done"} /\ hs[q] = "ended"
  /\ LET r == jsonTimeoutWriter(q, IF tw[q] = <<>> THEN reply(200, "none", "none")
                                   ELSE Head(tw[q]))
     IN wire' = [wire EXCEPT ![q] = <<r @@ [headers |-> hdr[q]]>>]
          /\ seen' = [seen EXCEPT ![q] = r.status]
  /\ IF stage[q] = "timed" THEN leave(q, "returned")
     ELSE UNCHANGED <<stage, inflight, counts, report>>
  /\ UNCHANGED <<kind, hdr, handlerVars, cut>>

\* TimeoutHandler, done: the buffer is copied; an empty one is a 200.
Finish(q) ==
  /\ stage[q] = "timed" /\ hs[q] = "ended"
  /\ LET r == jsonTimeoutWriter(q, IF tw[q] = <<>> THEN reply(200, "none", "none")
                                   ELSE Head(tw[q]))
     IN send(q, r, hdr[q]) /\ leave(q, "returned")
  /\ UNCHANGED <<kind, handlerVars, cut>>

\* TimeoutHandler, panicChan: the panic, by now http.ErrAbortHandler, goes on
\* through every layer and net/http drops the connection.
Abort(q) ==
  /\ stage[q] = "timed" /\ hs[q] = "aborted"
  /\ leave(q, "unwound")
  /\ UNCHANGED <<kind, hdr, wire, seen, handlerVars, cut>>

\* Mutant: the timeout is noticed when the handler ends.
ExpireAtEnd(q) ==
  /\ stage[q] = "timed" /\ hs[q] \in {"ended", "aborted"}
  /\ LET r == jsonTimeoutWriter(q, reply(503, "none", "json")) IN
       send(q, r, hdr[q]) /\ leave(q, "returned")
  /\ cut' = [cut EXCEPT ![q] = TRUE]
  /\ UNCHANGED <<kind, handlerVars>>

\* TimeoutHandler, ctx.Done: 503, with the JSON body only if it is the
\* deadline that passed.  The handler may have ended at the same moment.
Expire(q) ==
  /\ stage[q] = "timed"
  /\ \E body \in {"json", "none"} :
       LET r == jsonTimeoutWriter(q, reply(503, "none", body)) IN
         send(q, r, hdr[q]) /\ leave(q, "returned")
  /\ cut' = [cut EXCEPT ![q] = TRUE]
  /\ UNCHANGED <<kind, handlerVars>>

-----------------------------------------------------------------------------
(* The handler goroutine.                                                    *)

\* Mutant: the commitWriter forgets to mark the commitment.
putUntracked(q, r) ==
  /\ UNCHANGED committed
  /\ tw' = [tw EXCEPT ![q] = IF cut[q] \/ @ # <<>> THEN @ ELSE <<r>>]

\* Writing through the inner commitWriter into the buffer, which keeps the
\* first reply and none once the request is cut.
put(q, r) ==
  /\ committed' = [committed EXCEPT ![q] = TRUE]
  /\ tw' = [tw EXCEPT ![q] = IF cut[q] \/ @ # <<>> THEN @ ELSE <<r>>]

goto(q, s) == hs' = [hs EXCEPT ![q] = s]

isProbe(k) ==
  /\ k.method \in {"GET", "HEAD"} /\ k.path = "endpoint"
  /\ k.call.op \in {"live", "ready", "metrics"}

\* dispatch: probes pass, everything else asks the rate limiter.
Dispatch(q) ==
  /\ hs[q] = "start"
  /\ \/ goto(q, "routed") /\ UNCHANGED <<tw, committed>>
     \/ ~isProbe(kind[q]) /\ put(q, json(q, 429)) /\ goto(q, "ended")
  /\ UNCHANGED <<connVars, cut, scan, panicked>>

\* Router: generated 404 and 405 become JSON errors, a redirect stays what
\* http.Redirect makes it.
Route(q) ==
  /\ hs[q] = "routed"
  /\ \/ kind[q].path = "redirect" /\ put(q, bodyless(q, 301, "html"))
     \/ kind[q].path = "missing" /\ \E s \in {404, 405} : put(q, json(q, s))
  /\ goto(q, "ended")
  /\ UNCHANGED <<connVars, cut, scan, panicked>>

at(q, s) == hs[q] = s /\ kind[q].path = "endpoint"
isScrape(q) == kind[q].call.op = "metrics"

\* The buffer refuses the body of a request that has been cut.
refused(q) == cut[q] /\ kind[q].method # "HEAD"

\* What the endpoint, under Adapt, writes.
written(q) ==
  LET a == Adapt(kind[q].call) IN [bodyless(q, a.status, a.type) EXCEPT !.extra = a.extra]

\* An endpoint writes its answer, a success or an error; writeJSON gives up
\* with http.ErrAbortHandler when the buffer refuses.
EndpointWrites(q) ==
  /\ at(q, "routed") /\ ~isScrape(q)
  /\ put(q, written(q))
  /\ goto(q, IF refused(q) /\ Adapt(kind[q].call).viaJSON THEN "aborted" ELSE "wrote")
  /\ UNCHANGED <<connVars, cut, scan, panicked>>

EndpointReturns(q) ==
  /\ hs[q] = "wrote"
  /\ goto(q, "ended")
  /\ UNCHANGED <<connVars, cut, tw, committed, scan, panicked>>

\* recoverPanics deletes the headers the handler has prepared, in the buffer: the
\* outer layers' are on the connection's writer.
kept(prepared) == prepared \cap {"X-Request-ID"}

\* Its 500, with what is left of them.
recovered(q, prepared) ==
  [json(q, 500) EXCEPT !.extra = IF "WWW-Authenticate" \in kept(prepared)
                                 THEN "challenge" ELSE "none"]

\* recoverPanics inside the goroutine: an uncommitted response becomes a 500; a
\* committed one can only be aborted, and http.ErrAbortHandler always aborts.
EndpointPanics(q) ==
  /\ at(q, "routed") \/ at(q, "wrote")
  /\ \/ goto(q, "aborted") /\ UNCHANGED <<tw, committed>>
     \/ /\ ~committed[q] /\ goto(q, "ended")
        /\ \E prepared \in SUBSET {"WWW-Authenticate"} : put(q, recovered(q, prepared))
  /\ panicked' = IF stage[q] = "timed" THEN panicked \cup {q} ELSE panicked
  /\ UNCHANGED <<connVars, cut, scan>>

\* Metrics.ServeHTTP: the status first, then the loads, one at a time.
Scrape(q) ==
  /\ at(q, "routed") /\ isScrape(q)
  /\ put(q, bodyless(q, 200, "text"))
  /\ goto(q, IF kind[q].method = "HEAD" THEN "wrote" ELSE "scraping")
  /\ UNCHANGED <<connVars, cut, scan, panicked>>

load(q, value) ==
  /\ scan' = [scan EXCEPT ![q] = Append(@, value)]
  /\ goto(q, IF Len(scan[q]) = 6 THEN "wrote" ELSE "scraping")

\* Mutant: the gauge first.
ScrapeLoadsGaugeFirst(q) ==
  /\ hs[q] = "scraping"
  /\ load(q, IF scan[q] = <<>> THEN inflight ELSE counts[Len(scan[q]) - 1])
  /\ UNCHANGED <<connVars, cut, tw, committed, panicked>>

\* The counters in turn, and then the gauge.
ScrapeLoads(q) ==
  /\ hs[q] = "scraping"
  /\ load(q, IF Len(scan[q]) = 6 THEN inflight ELSE counts[Len(scan[q])])
  /\ UNCHANGED <<connVars, cut, tw, committed, panicked>>

Next ==
  \E q \in Requests :
    \/ Enter(q) \/ CorsAnswers(q) \/ CorsPasses(q)
    \/ Finish(q) \/ Abort(q) \/ Expire(q) \/ Record(q)
    \/ Dispatch(q) \/ Route(q) \/ EndpointWrites(q) \/ EndpointReturns(q)
    \/ EndpointPanics(q) \/ Scrape(q) \/ ScrapeLoads(q)

Spec == Init /\ [][Next]_vars

\* The connection goroutine runs and the timer fires; of the handler nothing
\* is assumed.
FairSpec ==
  Spec /\ \A q \in Requests :
    /\ WF_vars(CorsAnswers(q) \/ CorsPasses(q))
    /\ WF_vars(Finish(q) \/ Abort(q) \/ Expire(q)) /\ WF_vars(Record(q))

-----------------------------------------------------------------------------
(* Properties.                                                               *)

\* The trace, the access log and the metrics tell the same story as the wire:
\* the same status, and for an aborted request, which sent nothing, a failure.
ObserversAgree ==
  \A q \in Requests : stage[q] = "done" =>
    \/ /\ Len(wire[q]) = 1
       /\ LET s == wire[q][1].status IN
            report[q] = [trace |-> s, access |-> s, metric |-> s,
                         failed |-> s >= 500]
    \/ /\ wire[q] = <<>>
       /\ report[q].failed /\ report[q].metric = 500

\* The gauge is the number of requests inside, the counters add up to those
\* that have left, whichever way they left.
MetricsBalanced ==
  /\ inflight = Cardinality({q \in Requests : stage[q] \in {"cors", "timed"}})
  /\ \A c \in Classes : counts[c] = Cardinality({q \in Requests :
       stage[q] = "done" /\ class(report[q].metric) = c})

\* A late handler is harmless: whatever it writes or panics with after the
\* timeout's answer, that answer and the records of the request stay.
LateHandlerHarmless ==
  [][\A q \in Requests : stage[q] = "done" =>
       wire'[q] = wire[q] /\ report'[q] = report[q]]_vars

\* Every answer can be correlated and read by the browser that is allowed to:
\* also the timeout's, the limiter's and the one after a panic.
AnswersTagged ==
  \A q \in Requests : wire[q] # <<>> =>
    /\ "X-Request-ID" \in wire[q][1].headers
    /\ kind[q].origin = "allowed" =>
         "Access-Control-Allow-Origin" \in wire[q][1].headers

\* A panic never shows as success, nor with what the handler had prepared of an
\* answer: it is the bare 500 or the timeout's 503, or there is none.
PanicContained ==
  \A q \in panicked : wire[q] # <<>> =>
    wire[q][1].status \in {500, 503} /\ wire[q][1].extra = "none"

\* A scrape never counts a request twice, neither as finished and in flight
\* nor otherwise, although requests leave between its loads: it loads the
\* counters before the gauge, and a request lowers the gauge before it counts.
ScrapeCountsOnce ==
  \A q \in Requests : Len(scan[q]) = 7 =>
    scan[q][1] + scan[q][2] + scan[q][3] + scan[q][4] + scan[q][5] + scan[q][6]
      + scan[q][7] <= Cardinality({r \in Requests : stage[r] # "none"})

\* q, which the CORS layer let through, has been answered; it calls op.
calls(q, op) ==
  /\ wire[q] # <<>> /\ hs[q] # "none"
  /\ kind[q].path = "endpoint" /\ kind[q].call.op = op

\* A protected route fails closed: success only for one bearer credential whose
\* principal is known and permitted; and it blames the client only for a
\* verdict of the authenticator or the authorizer, never for their outage.
ProtectedFailsClosed ==
  \A q \in Requests : calls(q, "protected") =>
    LET c == kind[q].call
        s == wire[q][1].status
    IN
      /\ s < 300 => /\ c.wired /\ c.header = "bearer" /\ c.subject # ""
                    /\ c.authn = <<>> /\ c.authz = <<>>
      /\ s = 401 => c.wired /\ (c.header = "bearer" => CodeOf(c.authn) = "UNAUTHORIZED")
      /\ s = 403 => c.wired /\ c.authn = <<>> /\ CodeOf(c.authz) = "FORBIDDEN"

\* Field violations reach a client only in the answer to its invalid input:
\* those inside an internal error, or in another branch of a joined one, do not.
DetailsOnlyForInput ==
  \A q \in Requests : wire[q] # <<>> /\ wire[q][1].extra = "details" =>
    wire[q][1].status = 400 /\ CodeOf(kind[q].call.err) = "INVALID_INPUT"

\* A body is accepted exactly if it is one usable value of JSON within the
\* limit, space included, whether or not its length was announced; it is called
\* too large only if it is, and nothing in it makes the server fail: only an
\* endpoint that gives no destination to decode into does.
BodiesJudged ==
  \A q \in Requests : calls(q, "decode") =>
    LET c == kind[q].call
        s == wire[q][1].status
        usable == /\ c.json /\ Len(c.body) <= MaxBytes
                  /\ \E i \in DOMAIN c.body :
                       /\ c.body[i] = "value"
                       /\ \A j \in DOMAIN c.body \ {i} : c.body[j] = "space"
    IN
      /\ s = 201 => usable /\ c.dst
      /\ s \in {400, 415} => ~usable
      /\ s = 413 => Len(c.body) > MaxBytes
      /\ s = 500 => ~c.dst \/ MaxBytes = 0 \/ q \in panicked

\* A page is written exactly if its items can be encoded and it can be the page
\* it says it is, also for totals next to the largest integer; anything else is
\* a failure of the server.
PagesSound ==
  \A q \in Requests : calls(q, "paginated") =>
    LET c == kind[q].call
        s == wire[q][1].status
        room == IF c.limit < 1 \/ c.page < 1 \/ c.total < 0 THEN -1
                ELSE Max({0, Min({c.limit, c.total - (c.page - 1) * c.limit})})
    IN
      /\ s = 200 => c.count <= room /\ c.encodable
      /\ s = 500 => c.count > room \/ ~c.encodable \/ q \in panicked

\* "canonical redirects retain their native HTTP behavior": an answer's type
\* is that of its body.
NativeContentType ==
  \A q \in Requests : wire[q] # <<>> =>
    wire[q][1].body \in {"none", wire[q][1].type}

\* Every request is answered or aborted, even if its handler never returns.
Answered == \A q \in Requests : stage[q] = "cors" ~> stage[q] = "done"

=============================================================================
