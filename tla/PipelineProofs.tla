--------------------------- MODULE PipelineProofs ---------------------------
(***************************************************************************)
(* TLAPS proofs about Pipeline and Endpoint, for any finite set of requests, *)
(* any workload, any limit on bodies and any width of integers.              *)
(***************************************************************************)
EXTENDS Pipeline, FiniteSetTheorems, SequenceTheorems, TLAPS

-----------------------------------------------------------------------------
(* The inductive invariant.                                                  *)

\* What has been sent follows from how far the connection is.
Sent(q) ==
  /\ stage[q] \in {"none", "cors", "timed", "unwound"} =>
       wire[q] = <<>> /\ seen[q] = 0
  /\ stage[q] = "returned" => wire[q] # <<>>
  /\ wire[q] # <<>> => seen[q] = wire[q][1].status

\* ObserversAgree, for one request.
Recorded(q) ==
  stage[q] = "done" =>
    \/ /\ wire[q] # <<>>
       /\ report[q] = [trace |-> wire[q][1].status, access |-> wire[q][1].status,
                       metric |-> wire[q][1].status,
                       failed |-> wire[q][1].status >= 500]
    \/ wire[q] = <<>> /\ report[q].failed /\ report[q].metric = 500

\* The handler goroutine runs under a waiting connection or under one that
\* has cut it off.
Attended(q) ==
  /\ cut[q] => stage[q] \in {"returned", "done"}
  /\ stage[q] \in {"none", "cors"} => hs[q] = "none"
  /\ stage[q] = "timed" => hs[q] # "none"
  /\ hs[q] \in {"start", "routed", "scraping", "wrote"} =>
       stage[q] = "timed" \/ cut[q]

\* The buffer is filled when the handler has written, unless it was cut off.
Buffered(q) ==
  /\ hs[q] \in {"none", "start", "routed"} => ~committed[q]
  /\ ~committed[q] => tw[q] = <<>>
  /\ stage[q] = "timed" /\ hs[q] \in {"scraping", "wrote", "ended"} => tw[q] # <<>>

\* The headers of the layers passed so far, and those of the answer.
Tagged(q) ==
  /\ stage[q] # "none" => "X-Request-ID" \in hdr[q]
  /\ stage[q] = "timed" /\ kind[q].origin = "allowed" =>
       "Access-Control-Allow-Origin" \in hdr[q]
  /\ wire[q] # <<>> =>
       /\ "X-Request-ID" \in wire[q][1].headers
       /\ kind[q].origin = "allowed" =>
            "Access-Control-Allow-Origin" \in wire[q][1].headers

\* Where a reply that a handler's request can get comes from: the router, the
\* rate limiter or the timeout, the recovery, a scrape, or the endpoint.
Explained(q, status, extra) ==
  \/ /\ extra = "none"
     /\ \/ kind[q].path # "endpoint"
        \/ status \in {429, 503}
        \/ status = 500 /\ q \in panicked
        \/ isScrape(q)
  \/ /\ kind[q].path = "endpoint" /\ ~isScrape(q)
     /\ status = Adapt(kind[q].call).status /\ extra = Adapt(kind[q].call).extra

\* The reply in the buffer and the one on the wire can be explained.
Accounted(q) ==
  /\ tw[q] # <<>> => Explained(q, tw[q][1].status, tw[q][1].extra)
  /\ wire[q] # <<>> /\ hs[q] # "none" =>
       Explained(q, wire[q][1].status, wire[q][1].extra)
  /\ wire[q] # <<>> /\ hs[q] = "none" => wire[q][1].extra = "none"

\* After a panic the handler is over, and left a 500 or nothing that is sent.
Contained(q) ==
  q \in panicked =>
    /\ hs[q] \in {"ended", "aborted"}
    /\ hs[q] = "ended" => tw[q] # <<>> /\ tw[q][1].status = 500 /\ tw[q][1].extra = "none"
    /\ wire[q] # <<>> => wire[q][1].status \in {500, 503} /\ wire[q][1].extra = "none"

Local(q) ==
  /\ Sent(q) /\ Recorded(q) /\ Attended(q) /\ Buffered(q) /\ Tagged(q)
  /\ Accounted(q) /\ Contained(q)

\* The requests that have come.
entered == {r \in Requests : stage[r] # "none"}

\* What a scrape has loaded is never more than is there; a complete scrape has
\* not counted more than the requests that have come.
ScansBounded ==
  \A q \in Requests :
    /\ hs[q] = "scraping" => Len(scan[q]) < 7
    /\ hs[q] \in {"none", "start", "routed"} => scan[q] = <<>>
    /\ \A i \in 1..6 : i <= Len(scan[q]) => scan[q][i] <= counts[i - 1]
    /\ Len(scan[q]) = 7 =>
         scan[q][1] + scan[q][2] + scan[q][3] + scan[q][4] + scan[q][5]
           + scan[q][6] + scan[q][7] <= Cardinality(entered)

IInv ==
  /\ TypeOK /\ (\A q \in Requests : Local(q))
  /\ MetricsBalanced /\ ScansBounded

-----------------------------------------------------------------------------
(* What the helpers of the endpoints answer.                                 *)

\* The answers Adapt can write.
Written == [status : 200..599, type : Types, viaJSON : BOOLEAN, extra : Extras]

\* The smallest of a set of one number, and of two.
LEMMA MinOfOne == ASSUME NEW a \in Int PROVE Min({a}) = a
  BY DEF Min

\* The smaller of two numbers.
LEMMA MinOfTwo ==
  ASSUME NEW a \in Int, NEW b \in Int
  PROVE  Min({a, b}) = IF a <= b THEN a ELSE b
  BY DEF Min

\* The larger of two numbers.
LEMMA MaxOfTwo ==
  ASSUME NEW a \in Int, NEW b \in Int
  PROVE  Max({a, b}) = IF a <= b THEN b ELSE a
  BY DEF Max

\* CodeOf an error with one node is the code of that node.
LEMMA CodeOfOne ==
  ASSUME NEW x
  PROVE  /\ outermost(<<x>>) = IF x = "plain" THEN 0 ELSE 1
         /\ CodeOf(<<x>>) = IF x = "plain" THEN "INTERNAL_ERROR" ELSE ErrorCode(x)
<1> DEFINE I == {i \in 1..Len(<<x>>) : classified(<<x>>[i])}
<1>1. I = IF x = "plain" THEN {} ELSE {1}
  BY DEF classified
<1>2. outermost(<<x>>) = IF I # {} THEN Min(I) ELSE 0
  BY DEF outermost, SelectInSeq
<1>3. outermost(<<x>>) = IF x = "plain" THEN 0 ELSE 1
  BY <1>1, <1>2, MinOfOne
<1> QED
  BY <1>3 DEF CodeOf

\* An error's status is one of those the table lists, or 500.
LEMMA ClassifyRange ==
  ASSUME NEW err
  PROVE  /\ classify(err) \in {400, 401, 403, 404, 413, 415, 429, 500, 503}
         /\ classify(err) = 401 <=> CodeOf(err) = "UNAUTHORIZED"
         /\ classify(err) = 403 <=> CodeOf(err) = "FORBIDDEN"
  BY DEF classify, statuses

\* An error is answered with an error.
LEMMA WriteErrorType ==
  ASSUME NEW err
  PROVE  WriteError(err) \in Written /\ WriteError(err).status >= 400
<1>1. classify(err) \in 400..599
  BY ClassifyRange
<1>2. details(err) \in Extras
  BY DEF details, Extras
<1> QED
  BY <1>1, <1>2 DEF WriteError, answer, Written, Types, Extras

\* A success is answered with its own status or with a 500.
LEMMA SuccessType ==
  ASSUME NEW status \in Int, NEW encodable \in BOOLEAN
  PROVE  Success(status, encodable) \in Written
<1>1. WriteError(<<"plain">>) \in Written
  BY WriteErrorType
<1> QED
  BY <1>1 DEF Success, writeJSON, answer, Written, Types, Extras

\* The answer a says status s and tells the client e besides.
Says(a, s, e) == a \in Written /\ a.status = s /\ a.extra = e

\* An error with one node that is no validation error carries no details.
LEMMA OneNodeError ==
  ASSUME NEW x, x # "validation"
  PROVE  Says(WriteError(<<x>>), classify(<<x>>), "none")
<1>1. details(<<x>>) = "none"
  BY CodeOfOne DEF details
<1>2. WriteError(<<x>>).status = classify(<<x>>) /\ WriteError(<<x>>).extra = "none"
  BY <1>1 DEF WriteError, answer
<1> QED
  BY <1>2, WriteErrorType DEF Says

\* The errors the helpers make themselves: their statuses, and no details.
LEMMA OwnErrors ==
  /\ Says(WriteError(<<"plain">>), 500, "none")
  /\ Says(WriteError(<<"INTERNAL_ERROR">>), 500, "none")
  /\ Says(WriteError(<<"UNAUTHORIZED">>), 401, "none")
  /\ Says(WriteError(<<"FORBIDDEN">>), 403, "none")
  /\ Says(WriteError(<<"PROVIDER_UNAVAILABLE">>), 503, "none")
  /\ Says(WriteError(<<"UNSUPPORTED_MEDIA_TYPE">>), 415, "none")
  /\ Says(WriteError(<<"REQUEST_TOO_LARGE">>), 413, "none")
  /\ Says(WriteError(<<"INVALID_REQUEST">>), 400, "none")
<1> DEFINE code(x) == IF x = "plain" THEN "INTERNAL_ERROR" ELSE ErrorCode(x)
<1>1. ASSUME NEW x
      PROVE  CodeOf(<<x>>) = code(x)
  BY CodeOfOne
<1> USE <1>1 DEF classify, statuses, ErrorCode
<1>2. classify(<<"plain">>) = 500 OBVIOUS
<1>3. classify(<<"INTERNAL_ERROR">>) = 500 OBVIOUS
<1>4. classify(<<"UNAUTHORIZED">>) = 401 OBVIOUS
<1>5. classify(<<"FORBIDDEN">>) = 403 OBVIOUS
<1>6. classify(<<"PROVIDER_UNAVAILABLE">>) = 503 OBVIOUS
<1>7. classify(<<"UNSUPPORTED_MEDIA_TYPE">>) = 415 OBVIOUS
<1>8. classify(<<"REQUEST_TOO_LARGE">>) = 413 OBVIOUS
<1>9. classify(<<"INVALID_REQUEST">>) = 400 OBVIOUS
<1> HIDE <1>1 DEF classify, statuses, ErrorCode
<1>a. Says(WriteError(<<"plain">>), 500, "none") BY <1>2, OneNodeError
<1>b. Says(WriteError(<<"INTERNAL_ERROR">>), 500, "none") BY <1>3, OneNodeError
<1>c. Says(WriteError(<<"UNAUTHORIZED">>), 401, "none") BY <1>4, OneNodeError
<1>d. Says(WriteError(<<"FORBIDDEN">>), 403, "none") BY <1>5, OneNodeError
<1>e. Says(WriteError(<<"PROVIDER_UNAVAILABLE">>), 503, "none") BY <1>6, OneNodeError
<1>f. Says(WriteError(<<"UNSUPPORTED_MEDIA_TYPE">>), 415, "none") BY <1>7, OneNodeError
<1>g. Says(WriteError(<<"REQUEST_TOO_LARGE">>), 413, "none") BY <1>8, OneNodeError
<1>h. Says(WriteError(<<"INVALID_REQUEST">>), 400, "none") BY <1>9, OneNodeError
<1> QED
  BY <1>a, <1>b, <1>c, <1>d, <1>e, <1>f, <1>g, <1>h

\* A success of the helpers' own: 200 and 201.
LEMMA OwnSuccesses ==
  ASSUME NEW s \in {200, 201}
  PROVE  Says(Success(s, TRUE), s, "none") /\ Says(writeJSON(s, TRUE), s, "none")
<1>1. s \in 200..299 /\ s \in 200..599 /\ s \notin {204, 205, 304}
  OBVIOUS
<1>2. writeJSON(s, TRUE) = answer(s, "json", TRUE, "none")
  BY <1>1, ZenonT(60) DEF writeJSON
<1>3. Success(s, TRUE) = writeJSON(s, TRUE)
  BY <1>1, ZenonT(30) DEF Success
<1>4. Says(answer(s, "json", TRUE, "none"), s, "none")
  BY <1>1 DEF Says, answer, Written, Types, Extras
<1> QED
  BY <1>2, <1>3, <1>4

\* A challenge is a 401.
LEMMA ChallengeSays ==
  ASSUME NEW e \in {"challenge", "invalid_token"}
  PROVE  Says(challenge(e), 401, e)
<1> DEFINE refusal == WriteError(<<"UNAUTHORIZED">>)
<1>1. Says(refusal, 401, "none")
  BY OwnErrors
<1>2. challenge(e) = [refusal EXCEPT !.extra = e]
  BY DEF challenge
<1> HIDE DEF refusal
<1> QED
  BY <1>1, <1>2 DEF Says, Written, Extras

\* Whom a protected route admits, does not know and forbids.
admitted(c) ==
  /\ c.wired /\ c.header = "bearer" /\ c.subject # ""
  /\ c.authn = <<>> /\ c.authz = <<>>
unknown(c) == c.wired /\ (c.header = "bearer" => CodeOf(c.authn) = "UNAUTHORIZED")
forbids(c) == c.wired /\ c.authn = <<>> /\ CodeOf(c.authz) = "FORBIDDEN"

\* A protected route: what its statuses say (handler in auth.go).
LEMMA ProtectedVerdict ==
  ASSUME NEW c, c.wired \in BOOLEAN
  PROVE  \/ Says(Protected(c), 500, "none")
         \/ Says(Protected(c), 401, "challenge") /\ unknown(c)
         \/ Says(Protected(c), 401, "invalid_token") /\ unknown(c)
         \/ Says(Protected(c), 403, "none") /\ forbids(c)
         \/ Says(Protected(c), 200, "none") /\ admitted(c)
<1> DEFINE known == c.authn = <<>>
           permitted == c.authz = <<>>
           failure == WriteError(<<"INTERNAL_ERROR">>)
           forbidden == WriteError(<<"FORBIDDEN">>)
           success == Success(200, TRUE)
           missing == challenge("challenge")
           invalid == challenge("invalid_token")
<1>1. /\ Says(failure, 500, "none") /\ Says(forbidden, 403, "none")
      /\ Says(success, 200, "none")
      /\ Says(missing, 401, "challenge") /\ Says(invalid, 401, "invalid_token")
  BY OwnErrors, OwnSuccesses, ChallengeSays, ZenonT(60)
<1>2. Protected(c) =
        IF ~c.wired THEN failure
        ELSE IF c.header # "bearer" THEN missing
        ELSE IF ~known THEN IF CodeOf(c.authn) = "UNAUTHORIZED" THEN invalid ELSE failure
        ELSE IF c.subject = "" THEN failure
        ELSE IF ~permitted THEN IF CodeOf(c.authz) = "FORBIDDEN" THEN forbidden ELSE failure
        ELSE success
  <2>1. WriteError(<<IF CodeOf(c.authz) = "FORBIDDEN" THEN "FORBIDDEN"
                     ELSE "INTERNAL_ERROR">>) =
          IF CodeOf(c.authz) = "FORBIDDEN" THEN forbidden ELSE failure
    OBVIOUS
  <2> HIDE DEF failure, forbidden
  <2> QED BY <2>1 DEF Protected, failure
<1> SUFFICES \/ Says(Protected(c), 500, "none")
             \/ /\ Says(Protected(c), 401, "challenge")
                /\ c.wired /\ c.header # "bearer"
             \/ /\ Says(Protected(c), 401, "invalid_token")
                /\ c.wired /\ c.header = "bearer" /\ CodeOf(c.authn) = "UNAUTHORIZED"
             \/ /\ Says(Protected(c), 403, "none")
                /\ c.wired /\ known /\ CodeOf(c.authz) = "FORBIDDEN"
             \/ /\ Says(Protected(c), 200, "none")
                /\ c.wired /\ c.header = "bearer" /\ c.subject # "" /\ known /\ permitted
  BY ZenonT(60) DEF unknown, forbids, admitted
<1> HIDE DEF known, permitted, failure, forbidden, success, missing, invalid
<1>3. CASE ~c.wired
  BY <1>1, <1>2, <1>3, Zenon
<1>4. CASE c.wired /\ c.header # "bearer"
  BY <1>1, <1>2, <1>4, Zenon
<1>5. CASE c.wired /\ c.header = "bearer" /\ ~known
  BY <1>1, <1>2, <1>5, Zenon
<1>6. CASE c.wired /\ c.header = "bearer" /\ known /\ c.subject = ""
  BY <1>1, <1>2, <1>6, Zenon
<1>7. CASE c.wired /\ c.header = "bearer" /\ known /\ c.subject # "" /\ ~permitted
  <2>1. CASE CodeOf(c.authz) = "FORBIDDEN"
    <3>1. Protected(c) = forbidden
      BY <1>2, <1>7, <2>1
    <3> QED BY <1>1, <1>7, <2>1, <3>1
  <2>2. CASE CodeOf(c.authz) # "FORBIDDEN"
    <3>1. Protected(c) = failure
      BY <1>2, <1>7, <2>2
    <3> QED BY <1>1, <3>1
  <2> QED BY <2>1, <2>2
<1>8. CASE c.wired /\ c.header = "bearer" /\ known /\ c.subject # "" /\ permitted
  <2>1. Protected(c) = success
    BY <1>2, <1>8
  <2> QED BY <1>1, <1>8, <2>1
<1> QED
  BY <1>3, <1>4, <1>5, <1>6, <1>7, <1>8

\* A protected route never tells details of an error.
LEMMA ProtectedType ==
  ASSUME NEW c
  PROVE  Protected(c) \in Written /\ Protected(c).extra # "details"
<1> DEFINE failure == WriteError(<<"INTERNAL_ERROR">>)
           forbidden == WriteError(<<"FORBIDDEN">>)
           success == Success(200, TRUE)
           missing == challenge("challenge")
           invalid == challenge("invalid_token")
<1>1. /\ Says(failure, 500, "none") /\ Says(forbidden, 403, "none")
      /\ Says(success, 200, "none")
      /\ Says(missing, 401, "challenge") /\ Says(invalid, 401, "invalid_token")
  BY OwnErrors, OwnSuccesses, ChallengeSays, ZenonT(60)
<1>2. Protected(c) \in {failure, forbidden, success, missing, invalid}
  BY DEF Protected
<1> HIDE DEF failure, forbidden, success, missing, invalid
<1> QED
  BY <1>1, <1>2 DEF Says

\* A page is written if its items can be encoded, and is an error otherwise.
LEMMA PageWritten ==
  ASSUME NEW e
  PROVE  /\ writeJSON(200, e) \in {writeJSON(200, TRUE), WriteError(<<"plain">>)}
         /\ e = TRUE => writeJSON(200, e) = writeJSON(200, TRUE)
         /\ e = FALSE => writeJSON(200, e) = WriteError(<<"plain">>)
<1> DEFINE failure == WriteError(<<"plain">>)
           page == answer(200, "json", TRUE, "none")
<1>1. 200 \in 200..599 \ {204, 205, 304}
  OBVIOUS
<1>2. writeJSON(200, e) \in {page, failure}
  BY DEF writeJSON
<1>3. writeJSON(200, TRUE) = page
  BY <1>1 DEF writeJSON
<1>4. writeJSON(200, FALSE) = failure
  BY DEF writeJSON
<1> HIDE DEF page
<1> QED
  BY <1>2, <1>3, <1>4

\* A page is answered with a 200 or a 500.
LEMMA PaginatedType ==
  ASSUME NEW c
  PROVE  Says(Paginated(c), 200, "none") \/ Says(Paginated(c), 500, "none")
<1> DEFINE page == writeJSON(200, TRUE)
           failure == WriteError(<<"plain">>)
<1>1. Says(page, 200, "none") /\ Says(failure, 500, "none")
  BY OwnErrors, OwnSuccesses, ZenonT(60)
<1>2. Paginated(c) \in {page, failure}
  <2>1. writeJSON(200, c.encodable) \in {page, failure}
    BY PageWritten
  <2> QED BY <2>1 DEF Paginated
<1> HIDE DEF page, failure
<1> QED
  BY <1>1, <1>2

\* The four errors of DecodeJSON.
LEMMA DecodeErrors ==
  ASSUME NEW c
  PROVE  DecodeJSON(c) \in {<<>>, <<"plain">>, <<"UNSUPPORTED_MEDIA_TYPE">>,
                            <<"REQUEST_TOO_LARGE">>, <<"INVALID_REQUEST">>}
<1>1. decodeError(c) \in {"none", "plain", "REQUEST_TOO_LARGE", "INVALID_REQUEST"}
  BY DEF decodeError
<1> QED
  BY <1>1 DEF DecodeJSON

\* A health route answers 200, or 503 without details.
LEMMA HealthType ==
  ASSUME NEW c PROVE Says(health(c), 200, "none") \/ Says(health(c), 503, "none")
<1> DEFINE healthy == Success(200, TRUE)
           unready == WriteError(<<"PROVIDER_UNAVAILABLE">>)
<1>1. Says(healthy, 200, "none") /\ Says(unready, 503, "none")
  BY OwnErrors, OwnSuccesses, ZenonT(60)
<1>2. health(c) \in {healthy, unready}
  BY DEF health
<1> HIDE DEF healthy, unready
<1> QED
  BY <1>1, <1>2

\* A decoding route answers 201 or with one of the errors of DecodeJSON.
LEMMA DecodeAnswers ==
  ASSUME NEW c, c.op = "decode"
  PROVE  /\ Adapt(c) \in Written /\ Adapt(c).extra = "none"
         /\ Adapt(c).status = 201 => DecodeJSON(c) = <<>>
         /\ Adapt(c).status = 400 => DecodeJSON(c) = <<"INVALID_REQUEST">>
         /\ Adapt(c).status = 413 => DecodeJSON(c) = <<"REQUEST_TOO_LARGE">>
         /\ Adapt(c).status = 415 => DecodeJSON(c) = <<"UNSUPPORTED_MEDIA_TYPE">>
         /\ Adapt(c).status = 500 => DecodeJSON(c) = <<"plain">>
<1> DEFINE d == DecodeJSON(c)
           codes == {<<"plain">>, <<"UNSUPPORTED_MEDIA_TYPE">>,
                     <<"REQUEST_TOO_LARGE">>, <<"INVALID_REQUEST">>}
<1>1. Adapt(c) = IF d = <<>> THEN Success(201, TRUE) ELSE WriteError(d)
  BY DEF Adapt
<1>2. d = <<>> \/ d \in codes
  BY DecodeErrors
<1>3. d = <<>> => Says(Adapt(c), 201, "none")
  <2> HIDE DEF d
  <2> QED BY <1>1, OwnSuccesses
<1>4. d = <<"plain">> => Says(Adapt(c), 500, "none")
  <2> HIDE DEF d
  <2> QED BY <1>1, OwnErrors
<1>5. d = <<"UNSUPPORTED_MEDIA_TYPE">> => Says(Adapt(c), 415, "none")
  <2> HIDE DEF d
  <2> QED BY <1>1, OwnErrors
<1>6. d = <<"REQUEST_TOO_LARGE">> => Says(Adapt(c), 413, "none")
  <2> HIDE DEF d
  <2> QED BY <1>1, OwnErrors
<1>7. d = <<"INVALID_REQUEST">> => Says(Adapt(c), 400, "none")
  <2> HIDE DEF d
  <2> QED BY <1>1, OwnErrors
<1> DEFINE d0 == d = <<>>
           d1 == d = <<"plain">>
           d2 == d = <<"UNSUPPORTED_MEDIA_TYPE">>
           d3 == d = <<"REQUEST_TOO_LARGE">>
           d4 == d = <<"INVALID_REQUEST">>
<1>8. d0 \/ d1 \/ d2 \/ d3 \/ d4
  BY <1>2
<1>9. /\ d0 => Says(Adapt(c), 201, "none")
      /\ d1 => Says(Adapt(c), 500, "none")
      /\ d2 => Says(Adapt(c), 415, "none")
      /\ d3 => Says(Adapt(c), 413, "none")
      /\ d4 => Says(Adapt(c), 400, "none")
  BY <1>3, <1>4, <1>5, <1>6, <1>7
<1> HIDE DEF d0, d1, d2, d3, d4
<1>10. /\ Adapt(c) \in Written /\ Adapt(c).extra = "none"
       /\ Adapt(c).status = 201 => d0
       /\ Adapt(c).status = 400 => d4
       /\ Adapt(c).status = 413 => d3
       /\ Adapt(c).status = 415 => d2
       /\ Adapt(c).status = 500 => d1
  BY <1>8, <1>9 DEF Says
<1> QED
  BY <1>10 DEF d0, d1, d2, d3, d4

\* Every endpoint writes a reply.
LEMMA AdaptType ==
  ASSUME NEW c \in Calls, c.op \notin {"metrics", "none"}
  PROVE  Adapt(c) \in Written
<1>1. CASE c.op \in {"live", "ready"}
  BY <1>1, HealthType, ZenonT(30) DEF Adapt, Says
<1>2. CASE c.op = "return"
  BY <1>2, WriteErrorType DEF Adapt
<1>3. CASE c.op = "success"
  <2>1. c.status \in Int /\ c.encodable \in BOOLEAN
    BY <1>3 DEF Calls
  <2> QED BY <1>3, <2>1, SuccessType DEF Adapt
<1>4. CASE c.op = "noContent"
  BY <1>4 DEF Adapt, NoContent, answer, Written, Types, Extras
<1>5. CASE c.op = "protected"
  BY <1>5, ProtectedType DEF Adapt
<1>6. CASE c.op = "paginated"
  BY <1>6, PaginatedType DEF Adapt, Says
<1>7. CASE c.op = "decode"
  BY <1>7, DecodeAnswers
<1> QED
  BY <1>1, <1>2, <1>3, <1>4, <1>5, <1>6, <1>7 DEF Calls

\* Details are those of the outermost validation error of a returned error.
LEMMA AdaptDetails ==
  ASSUME NEW c \in Calls, c.op \notin {"metrics", "none"},
         Adapt(c).extra = "details"
  PROVE  Adapt(c).status = 400 /\ CodeOf(c.err) = "INVALID_INPUT"
<1>1. CASE c.op \in {"live", "ready"}
  BY <1>1, HealthType DEF Adapt, Says
<1>2. CASE c.op = "return"
  <2>1. c.err # <<>>
    BY <1>2 DEF Calls
  <2>2. details(c.err) = "details"
    BY <1>2 DEF Adapt, WriteError, answer
  <2>3. CodeOf(c.err) = "INVALID_INPUT"
    BY <2>1, <2>2 DEF details, CodeOf, ErrorCode
  <2> QED
    BY <1>2, <2>3 DEF Adapt, WriteError, answer, classify, statuses
<1>3. CASE c.op = "success"
  <2> DEFINE failure == WriteError(<<"plain">>)
             success == answer(c.status, "json", TRUE, "none")
  <2>1. Adapt(c) \in {failure, success}
    BY <1>3 DEF Adapt, Success, writeJSON
  <2>2. failure.extra = "none" /\ success.extra = "none"
    BY OwnErrors DEF Says, answer
  <2> QED BY <2>1, <2>2
<1>4. CASE c.op = "noContent"
  BY <1>4 DEF Adapt, NoContent, answer
<1>5. CASE c.op = "protected"
  BY <1>5, ProtectedType DEF Adapt
<1>6. CASE c.op = "paginated"
  BY <1>6, PaginatedType DEF Adapt, Says
<1>7. CASE c.op = "decode"
  BY <1>7, DecodeAnswers
<1> QED
  BY <1>1, <1>2, <1>3, <1>4, <1>5, <1>6, <1>7 DEF Calls

-----------------------------------------------------------------------------
(* Pages.                                                                    *)

\* Division with remainder.
LEMMA DivMod ==
  ASSUME NEW n \in Nat, NEW l \in Nat \ {0}
  PROVE  /\ n \div l \in Nat /\ n % l \in 0..(l - 1)
         /\ n = (n \div l) * l + (n % l)
<1>1. n \div l \in Int
  OBVIOUS
<1>2. n % l \in 0..(l - 1)
  OBVIOUS
<1>3. n = l * (n \div l) + (n % l)
  OBVIOUS
<1>4. n \div l >= 0
  BY <1>1, <1>2, <1>3
<1>5. l * (n \div l) = (n \div l) * l
  BY <1>1
<1> QED
  BY <1>1, <1>2, <1>3, <1>4, <1>5

\* Fewer pages hold fewer items.
LEMMA FewerPages ==
  ASSUME NEW a \in Nat, NEW b \in Nat, NEW l \in Nat, a <= b
  PROVE  a * l <= b * l /\ a * l \in Nat /\ b * l \in Nat
  OBVIOUS

\* Paginated's four conditions refuse exactly the counts that do not fit.
LEMMA PageRoom ==
  ASSUME NEW page \in Nat \ {0}, NEW limit \in Nat \ {0}, NEW total \in Nat,
         NEW count \in Nat
  PROVE  LET last == pages(total, limit)
             rest == total - (page - 1) * limit
             room == IF limit <= rest THEN limit ELSE IF rest <= 0 THEN 0 ELSE rest
         IN  (\/ count > limit \/ count > total
              \/ page > last /\ count # 0
              \/ page = last /\ total % limit # 0 /\ count > total % limit)
             <=> count > room
<1> DEFINE q == total \div limit
           r == total % limit
           before == (page - 1) * limit
           rest == total - before
           room == IF limit <= rest THEN limit ELSE IF rest <= 0 THEN 0 ELSE rest
           last == pages(total, limit)
           whole == q * limit
<1> SUFFICES (\/ count > limit \/ count > total
              \/ page > last /\ count # 0
              \/ page = last /\ r # 0 /\ count > r)
             <=> count > room
  OBVIOUS
<1>1. q \in Nat /\ r \in 0..(limit - 1) /\ total = whole + r /\ whole \in Nat
  <2>1. q \in Nat /\ r \in 0..(limit - 1) /\ total = whole + r
    BY DivMod
  <2> HIDE DEF q, r
  <2>2. whole \in Nat
    BY <2>1, FewerPages
  <2> QED BY <2>1, <2>2
<1>2. last = q + (IF r # 0 THEN 1 ELSE 0)
  BY DEF pages
<1>3. before \in Nat
  BY FewerPages
<1>4. CASE page > last
  <2>1. CASE r # 0
    <3>1. (q + 1) * limit <= before
      BY <1>1, <1>2, <1>4, <2>1, FewerPages
    <3>2. (q + 1) * limit = whole + limit
      BY <1>1
    <3>3. rest <= 0
      <4> HIDE DEF q, r, before, whole
      <4> QED BY <1>1, <1>3, <3>1, <3>2
    <3> HIDE DEF q, r, before, whole, last
    <3> QED BY <1>1, <1>2, <1>3, <1>4, <3>3
  <2>2. CASE r = 0
    <3>1. whole <= before
      BY <1>1, <1>2, <1>4, <2>2, FewerPages
    <3>2. rest <= 0
      <4> HIDE DEF q, r, before, whole
      <4> QED BY <1>1, <1>3, <2>2, <3>1
    <3> QED BY <1>1, <1>2, <1>4, <3>2
  <2> QED BY <2>1, <2>2
<1>5. CASE page = last /\ r # 0
  <2>1. before = whole
    BY <1>1, <1>2, <1>5
  <2> HIDE DEF q, r, before, whole, last
  <2> QED BY <1>1, <1>2, <1>3, <1>5, <2>1
<1>6. CASE page = last /\ r = 0
  <2>1. before = whole - limit
    BY <1>1, <1>2, <1>6
  <2>2. whole >= limit
    BY <1>1, <1>3, <2>1
  <2> HIDE DEF q, r, before, whole, last
  <2> QED BY <1>1, <1>2, <1>3, <1>6, <2>1, <2>2
<1>7. CASE page < last
  <2>1. page <= q
    BY <1>1, <1>2, <1>7
  <2>2. page * limit <= whole
    BY <1>1, <2>1, FewerPages
  <2>3. page * limit = before + limit
    OBVIOUS
  <2> HIDE DEF q, r, before, whole, last
  <2>4. rest >= limit /\ total >= limit
    BY <1>1, <1>3, <2>2, <2>3
  <2> QED BY <1>1, <1>2, <1>3, <1>7, <2>4
<1> QED
  BY <1>1, <1>2, <1>4, <1>5, <1>6, <1>7

\* The room the page says it has.
roomOf(c) ==
  IF c.limit < 1 \/ c.page < 1 \/ c.total < 0 THEN -1
  ELSE Max({0, Min({c.limit, c.total - (c.page - 1) * c.limit})})

\* A page is written exactly if its items fit (Paginated in response.go).
LEMMA PaginatedVerdict ==
  ASSUME NEW c \in Calls, c.op = "paginated"
  PROVE  \/ Says(Paginated(c), 200, "none") /\ c.count <= roomOf(c) /\ c.encodable
         \/ Says(Paginated(c), 500, "none") /\ (c.count > roomOf(c) \/ ~c.encodable)
<1>1. /\ c.page \in Int /\ c.limit \in Int /\ c.total \in Int /\ c.count \in Nat
      /\ c.encodable \in BOOLEAN
  <2>1. /\ c.page \in int64 /\ c.limit \in int64 /\ c.total \in int64
        /\ c.count \in 0..MaxInt /\ c.encodable \in BOOLEAN
    BY DEF Calls
  <2> QED BY <2>1, EndpointAssumption DEF int64
<1> DEFINE page == writeJSON(200, TRUE)
           failure == WriteError(<<"plain">>)
<1>2. Says(page, 200, "none") /\ Says(failure, 500, "none")
  BY OwnErrors, OwnSuccesses, ZenonT(60)
<1>3. CASE c.limit < 1 \/ c.page < 1 \/ c.total < 0
  <2>1. Paginated(c) = failure
    BY <1>3 DEF Paginated
  <2>2. roomOf(c) = -1
    BY <1>3 DEF roomOf
  <2> HIDE DEF failure
  <2> QED BY <1>1, <1>2, <2>1, <2>2
<1>4. CASE ~(c.limit < 1 \/ c.page < 1 \/ c.total < 0)
  <2> DEFINE rest == c.total - (c.page - 1) * c.limit
             room == IF c.limit <= rest THEN c.limit ELSE IF rest <= 0 THEN 0 ELSE rest
             last == pages(c.total, c.limit)
             bad == \/ c.count > c.limit \/ c.count > c.total
                    \/ c.page > last /\ c.count # 0
                    \/ /\ c.page = last /\ c.total % c.limit # 0
                       /\ c.count > c.total % c.limit
  <2>1. /\ c.page \in Nat \ {0} /\ c.limit \in Nat \ {0} /\ c.total \in Nat
        /\ rest \in Int
    BY <1>1, <1>4
  <2>2. bad <=> c.count > room
    BY <1>1, <2>1, PageRoom
  <2>3. Paginated(c) = IF bad \/ ~c.encodable THEN failure ELSE page
    <3> DEFINE attempt == writeJSON(200, c.encodable)
    <3>1. Paginated(c) = IF bad THEN failure ELSE attempt
      BY <1>4 DEF Paginated
    <3>2. attempt = IF c.encodable THEN page ELSE failure
      <4>1. /\ c.encodable = TRUE => attempt = page
            /\ c.encodable = FALSE => attempt = failure
        BY PageWritten
      <4> HIDE DEF attempt, page, failure
      <4> QED BY <1>1, <4>1
    <3> HIDE DEF bad, page, failure, attempt
    <3> QED BY <1>1, <3>1, <3>2
  <2>4. roomOf(c) = room
    <3> HIDE DEF rest
    <3>1. roomOf(c) = Max({0, Min({c.limit, rest})})
      BY <1>4 DEF roomOf, rest
    <3>2. Min({c.limit, rest}) = IF c.limit <= rest THEN c.limit ELSE rest
      BY <2>1, MinOfTwo
    <3>3. Max({0, Min({c.limit, rest})}) =
            IF 0 <= Min({c.limit, rest}) THEN Min({c.limit, rest}) ELSE 0
      BY <2>1, <3>2, MaxOfTwo
    <3> QED BY <2>1, <3>1, <3>2, <3>3
  <2>5. room \in Int
    BY <2>1
  <2> HIDE DEF bad, room, page, failure
  <2> QED BY <1>1, <1>2, <2>2, <2>3, <2>4, <2>5
<1> QED
  BY <1>3, <1>4

-----------------------------------------------------------------------------
(* Request bodies.                                                           *)

\* What the decoder gets is the body up to the limit: all of it, or a cut one.
LEMMA ReadablePart ==
  ASSUME NEW c, c.body \in Seq(Tokens)
  PROVE  /\ readable(c) \in Seq(Tokens)
         /\ Len(readable(c)) = IF Len(c.body) <= MaxBytes THEN Len(c.body) ELSE MaxBytes
         /\ \A i \in 1..Len(readable(c)) : readable(c)[i] = c.body[i]
         /\ readable(c) = c.body <=> Len(c.body) <= MaxBytes
<1> DEFINE n == Min({MaxBytes, Len(c.body)})
           b == c.body
<1>1. Len(b) \in Nat /\ MaxBytes \in Nat
  BY EndpointAssumption
<1>2. n = IF MaxBytes <= Len(b) THEN MaxBytes ELSE Len(b)
  BY <1>1, MinOfTwo
<1>3. n \in 0..Len(b)
  BY <1>1, <1>2
<1>4. readable(c) = SubSeq(b, 1, n)
  BY DEF readable
<1> HIDE DEF n, b
<1>5. /\ SubSeq(b, 1, n) \in Seq(Tokens) /\ Len(SubSeq(b, 1, n)) = n
      /\ \A i \in 1..n : SubSeq(b, 1, n)[i] = b[i]
  BY <1>1, <1>3 DEF b
<1>6. n = Len(b) => SubSeq(b, 1, n) = b
  BY <1>1, <1>5 DEF b
<1> QED
  BY <1>1, <1>2, <1>3, <1>4, <1>5, <1>6 DEF b

\* One value of JSON within the limit, among spaces.
usable(c) ==
  /\ c.json /\ Len(c.body) <= MaxBytes
  /\ \E i \in DOMAIN c.body :
       /\ c.body[i] = "value"
       /\ \A j \in DOMAIN c.body \ {i} : c.body[j] = "space"

\* The decoder takes a usable body and no other (DecodeJSON in request.go).
LEMMA DecodeVerdict ==
  ASSUME NEW c, c.body \in Seq(Tokens), c.json \in BOOLEAN, c.chunked \in BOOLEAN,
         c.dst \in BOOLEAN
  PROVE  /\ DecodeJSON(c) = <<>> => usable(c) /\ c.dst
         /\ DecodeJSON(c) = <<"plain">> => ~c.dst \/ MaxBytes = 0
         /\ DecodeJSON(c) = <<"INVALID_REQUEST">> => ~usable(c)
         /\ DecodeJSON(c) = <<"UNSUPPORTED_MEDIA_TYPE">> => ~usable(c)
         /\ DecodeJSON(c) = <<"REQUEST_TOO_LARGE">> => Len(c.body) > MaxBytes
<1> DEFINE r == readable(c)
           got == {i \in DOMAIN r : r[i] # "space"}
           first == r[Min(got)]
           partial == r # c.body
           fits == Len(c.body) <= MaxBytes
           d == decodeError(c)
<1>1. /\ d = IF got = {} THEN IF partial THEN "REQUEST_TOO_LARGE" ELSE "INVALID_REQUEST"
             ELSE IF first = "broken" \/ got # {Min(got)} THEN "INVALID_REQUEST"
             ELSE IF partial THEN "REQUEST_TOO_LARGE"
             ELSE IF first = "null" THEN "INVALID_REQUEST"
             ELSE IF ~c.dst THEN "plain"
             ELSE IF first = "value" THEN "none" ELSE "INVALID_REQUEST"
  BY DEF decodeError
<1>2. partial <=> ~fits
  BY ReadablePart
<1>3. Len(c.body) \in Nat /\ MaxBytes \in Nat /\ DOMAIN c.body = 1..Len(c.body)
  BY EndpointAssumption
<1>4. d = "none" => fits /\ \E i \in DOMAIN c.body :
                       /\ c.body[i] = "value"
                       /\ \A j \in DOMAIN c.body \ {i} : c.body[j] = "space"
  <2> SUFFICES ASSUME d = "none"
               PROVE  fits /\ \E i \in DOMAIN c.body :
                        /\ c.body[i] = "value"
                        /\ \A j \in DOMAIN c.body \ {i} : c.body[j] = "space"
    OBVIOUS
  <2>1. got = {Min(got)} /\ ~partial /\ first = "value"
    <3> HIDE DEF got, partial, first, d
    <3> QED BY <1>1
  <2>2. r = c.body
    BY <2>1
  <2> QED BY <1>2, <2>1, <2>2
<1>5. d = "INVALID_REQUEST" =>
        ~(fits /\ \E i \in DOMAIN c.body :
                    /\ c.body[i] = "value"
                    /\ \A j \in DOMAIN c.body \ {i} : c.body[j] = "space")
  <2> SUFFICES ASSUME fits, NEW i \in DOMAIN c.body, c.body[i] = "value",
                      \A j \in DOMAIN c.body \ {i} : c.body[j] = "space"
               PROVE  d # "INVALID_REQUEST"
    OBVIOUS
  <2>1. r = c.body
    BY <1>2
  <2>2. got = {i}
    BY <2>1
  <2>3. Min(got) = i
    BY <1>3, <2>2, MinOfOne
  <2>4. first = "value" /\ ~partial /\ got # {} /\ got = {Min(got)}
    BY <2>1, <2>2, <2>3
  <2> HIDE DEF got, partial, first, d
  <2> QED BY <1>1, <2>4
<1>6. d = "REQUEST_TOO_LARGE" => ~fits
  <2> HIDE DEF got, partial, first, d, fits
  <2> QED BY <1>1, <1>2
<1>7. /\ d \in {"none", "plain", "REQUEST_TOO_LARGE", "INVALID_REQUEST"}
      /\ d = "none" => c.dst
      /\ d = "plain" => ~c.dst
  <2> HIDE DEF got, partial, first, d
  <2> QED BY <1>1
<1> HIDE DEF d
<1>8. DecodeJSON(c) =
        IF MaxBytes <= 0 THEN <<"plain">>
        ELSE IF ~c.json THEN <<"UNSUPPORTED_MEDIA_TYPE">>
        ELSE IF ~c.chunked /\ Len(c.body) > MaxBytes THEN <<"REQUEST_TOO_LARGE">>
        ELSE IF d = "none" THEN <<>> ELSE <<d>>
  BY DEF DecodeJSON, d
<1> DEFINE one == \E i \in DOMAIN c.body :
                    /\ c.body[i] = "value"
                    /\ \A j \in DOMAIN c.body \ {i} : c.body[j] = "space"
<1>9. usable(c) <=> c.json /\ fits /\ one
  BY DEF usable
<1>10. ~fits <=> Len(c.body) > MaxBytes
  BY <1>3
<1>11. /\ DecodeJSON(c) = <<>> => c.json /\ d = "none"
       /\ DecodeJSON(c) = <<"INVALID_REQUEST">> => d = "INVALID_REQUEST"
       /\ DecodeJSON(c) = <<"UNSUPPORTED_MEDIA_TYPE">> => ~c.json
       /\ DecodeJSON(c) = <<"REQUEST_TOO_LARGE">> =>
            d = "REQUEST_TOO_LARGE" \/ Len(c.body) > MaxBytes
       /\ DecodeJSON(c) = <<"plain">> => MaxBytes = 0 \/ d = "plain"
  <2>1. \/ DecodeJSON(c) = <<"plain">> /\ MaxBytes = 0
        \/ DecodeJSON(c) = <<"UNSUPPORTED_MEDIA_TYPE">> /\ ~c.json
        \/ DecodeJSON(c) = <<"REQUEST_TOO_LARGE">> /\ Len(c.body) > MaxBytes
        \/ DecodeJSON(c) = <<>> /\ c.json /\ d = "none"
        \/ DecodeJSON(c) = <<d>> /\ d # "none"
    BY <1>3, <1>8
  <2>2. DecodeJSON(c) = <<d>> /\ d # "none" =>
          \/ DecodeJSON(c) = <<"plain">> /\ d = "plain"
          \/ DecodeJSON(c) = <<"REQUEST_TOO_LARGE">> /\ d = "REQUEST_TOO_LARGE"
          \/ DecodeJSON(c) = <<"INVALID_REQUEST">> /\ d = "INVALID_REQUEST"
    BY <1>7
  <2>3. CASE DecodeJSON(c) = <<"plain">> /\ (MaxBytes = 0 \/ d = "plain")
    BY <2>3
  <2>4. CASE DecodeJSON(c) = <<"UNSUPPORTED_MEDIA_TYPE">> /\ ~c.json
    BY <2>4
  <2>5. CASE DecodeJSON(c) = <<"REQUEST_TOO_LARGE">>
             /\ (Len(c.body) > MaxBytes \/ d = "REQUEST_TOO_LARGE")
    BY <2>5
  <2>6. CASE DecodeJSON(c) = <<>> /\ c.json /\ d = "none"
    BY <2>6
  <2>7. CASE DecodeJSON(c) = <<"INVALID_REQUEST">> /\ d = "INVALID_REQUEST"
    BY <2>7
  <2> QED BY <2>1, <2>2, <2>3, <2>4, <2>5, <2>6, <2>7
<1> HIDE DEF one, fits
<1> QED
  BY <1>4, <1>5, <1>6, <1>7, <1>9, <1>10, <1>11 DEF one

-----------------------------------------------------------------------------
(* Sending, putting and leaving.                                             *)

\* A sequence of at most one member is empty or that member.
LEMMA One ==
  ASSUME NEW S, NEW s \in atMostOne(S)
  PROVE  s # <<>> => s[1] \in S /\ Len(s) = 1 /\ s = <<s[1]>>
<1> SUFFICES ASSUME s # <<>> PROVE s[1] \in S /\ Len(s) = 1 /\ s = <<s[1]>>
  OBVIOUS
<1>1. s \in Seq(S) /\ Len(s) <= 1
  BY DEF atMostOne
<1>2. Len(s) = 1 /\ s[1] \in S
  <2>1. Len(s) \in Nat \ {0}
    <3>1. \A seq \in Seq(S) : seq # <<>> => Len(seq) \in Nat \ {0}
      BY EmptySeq
    <3> QED BY <1>1, <3>1
  <2> DEFINE n == Len(s)
  <2>2. n <= 1
    BY <1>1
  <2> HIDE DEF n
  <2>3. n \in Nat \ {0}
    BY <2>1 DEF n
  <2>4. n = 1
    BY <2>2, <2>3
  <2> QED
    BY <1>1, <2>4 DEF n
<1>3. s = <<s[1]>>
  <2> DEFINE x == s[1]
  <2>1. <<x>> \in Seq(S) /\ Len(<<x>>) = 1 /\ <<x>>[1] = x
    BY <1>2
  <2>2. \A i \in 1..Len(s) : s[i] = <<x>>[i]
    BY <1>2, <2>1
  <2> QED
    BY <1>1, <1>2, <2>1, <2>2
<1> QED
  BY <1>2, <1>3

\* One member makes such a sequence.
LEMMA OneOf ==
  ASSUME NEW S, NEW r \in S
  PROVE  /\ <<r>> \in atMostOne(S) /\ <<>> \in atMostOne(S)
         /\ <<r>> # <<>> /\ <<r>>[1] = r
  BY DEF atMostOne

\* What a request is.
LEMMA KindType ==
  ASSUME TypeOK, NEW q \in Requests
  PROVE  /\ kind[q].path \in {"endpoint", "redirect", "missing"}
         /\ kind[q].origin \in {"none", "allowed", "unknown"}
         /\ kind[q].call \in Calls
         /\ kind[q].path = "endpoint" => kind[q].call.op # "none"
<1>1. kind \in [Requests -> Kinds]
  BY PipelineAssumption DEF TypeOK
<1>2. kind[q] \in Kinds
  BY <1>1
<1> QED
  BY <1>2 DEF Kinds

\* The replies of the layers are replies.
LEMMA ReplyType ==
  ASSUME NEW s \in 200..599, NEW t \in Types, NEW b \in Types
  PROVE  reply(s, t, b) \in Replies /\ reply(s, t, b).status = s
         /\ reply(s, t, b).extra = "none"
  BY DEF reply, Replies, Extras

\* So are those without a body for HEAD.
LEMMA BodylessType ==
  ASSUME NEW q, NEW s \in 200..599, NEW t \in Types
  PROVE  bodyless(q, s, t) \in Replies /\ bodyless(q, s, t).status = s
         /\ bodyless(q, s, t).extra = "none"
<1> DEFINE b == IF kind[q].method = "HEAD" THEN "none" ELSE t
<1>1. b \in Types
  BY DEF Types
<1>2. bodyless(q, s, t) = reply(s, t, b)
  BY DEF bodyless
<1> HIDE DEF b
<1>3. /\ reply(s, t, b) \in Replies /\ reply(s, t, b).status = s
      /\ reply(s, t, b).extra = "none"
  BY <1>1, ReplyType
<1> QED
  BY <1>2, <1>3, Zenon

\* So are the errors the layers write.
LEMMA JsonType ==
  ASSUME NEW q, NEW s \in 200..599
  PROVE  json(q, s) \in Replies /\ json(q, s).status = s /\ json(q, s).extra = "none"
<1>1. "json" \in Types
  BY DEF Types
<1>2. json(q, s) = bodyless(q, s, "json")
  BY Zenon DEF json
<1>3. /\ bodyless(q, s, "json") \in Replies /\ bodyless(q, s, "json").status = s
      /\ bodyless(q, s, "json").extra = "none"
  BY <1>1, BodylessType, Zenon
<1> QED
  BY <1>2, <1>3, Zenon

\* So is the recovery's, whatever the handler had prepared.
LEMMA RecoveredType ==
  ASSUME NEW q, NEW prepared
  PROVE  /\ recovered(q, prepared) \in Replies
         /\ recovered(q, prepared).status = 500 /\ recovered(q, prepared).extra = "none"
<1> DEFINE r == json(q, 500)
<1>1. r \in Replies /\ r.status = 500
  BY JsonType
<1>2. recovered(q, prepared) = [r EXCEPT !.extra = "none"]
  BY DEF recovered, kept
<1> HIDE DEF r
<1> QED
  BY <1>1, <1>2 DEF Replies, Extras

\* So are a redirect and a scrape.
LEMMA PlainTypes ==
  ASSUME NEW q
  PROVE  /\ bodyless(q, 301, "html") \in Replies /\ bodyless(q, 301, "html").extra = "none"
         /\ bodyless(q, 200, "text") \in Replies /\ bodyless(q, 200, "text").extra = "none"
<1> DEFINE h == IF kind[q].method = "HEAD" THEN "none" ELSE "html"
           t == IF kind[q].method = "HEAD" THEN "none" ELSE "text"
<1>1. h \in Types /\ t \in Types /\ "html" \in Types /\ "text" \in Types
  BY DEF Types
<1>2. bodyless(q, 301, "html") = reply(301, "html", h)
      /\ bodyless(q, 200, "text") = reply(200, "text", t)
  BY DEF bodyless
<1> HIDE DEF h, t
<1>3. /\ reply(301, "html", h) \in Replies /\ reply(301, "html", h).extra = "none"
      /\ reply(200, "text", t) \in Replies /\ reply(200, "text", t).extra = "none"
  BY <1>1, ReplyType
<1> QED
  BY <1>2, <1>3

\* And what an endpoint writes.
LEMMA WrittenType ==
  ASSUME TypeOK, NEW q \in Requests, kind[q].path = "endpoint", ~isScrape(q)
  PROVE  /\ written(q) \in Replies
         /\ written(q).status = Adapt(kind[q].call).status
         /\ written(q).extra = Adapt(kind[q].call).extra
<1> DEFINE a == Adapt(kind[q].call)
<1>1. a \in Written
  <2>1. kind[q].call \in Calls /\ kind[q].call.op \notin {"metrics", "none"}
    BY KindType DEF isScrape
  <2> QED BY <2>1, AdaptType
<1>2. written(q) = [bodyless(q, a.status, a.type) EXCEPT !.extra = a.extra]
  BY DEF written
<1> HIDE DEF a
<1>3. /\ a.status \in 200..599 /\ a.type \in Types /\ a.extra \in Extras
  BY <1>1 DEF Written
<1>4. bodyless(q, a.status, a.type) \in Replies /\ bodyless(q, a.status, a.type).status = a.status
  BY <1>3, BodylessType, ZenonT(60)
<1> QED
  BY <1>2, <1>3, <1>4, ZenonT(60) DEF Replies, a

\* The timeout's writer keeps the status and what else is told.
LEMMA TimeoutWriterType ==
  ASSUME NEW q, NEW r \in Replies
  PROVE  /\ jsonTimeoutWriter(q, r) \in Replies
         /\ jsonTimeoutWriter(q, r).status = r.status
         /\ jsonTimeoutWriter(q, r).extra = r.extra
  BY ZenonT(60) DEF jsonTimeoutWriter, Replies, Types

\* Sending on a connection that has sent nothing.
LEMMA SendEffect ==
  ASSUME TypeOK, NEW q \in Requests, wire[q] = <<>>, seen[q] = 0,
         NEW r \in Replies, NEW h \in SUBSET Headers, send(q, r, h)
  PROVE  /\ hdr' = [hdr EXCEPT ![q] = h]
         /\ seen' = [seen EXCEPT ![q] = r.status]
         /\ \E a \in Answers :
              /\ wire' = [wire EXCEPT ![q] = <<a>>]
              /\ a.status = r.status /\ a.extra = r.extra /\ a.headers = h
<1> DEFINE a == [status |-> r.status, type |-> r.type, body |-> r.body,
                 extra |-> r.extra, headers |-> h]
<1>1. a \in Answers /\ a.status = r.status /\ a.extra = r.extra /\ a.headers = h
  BY DEF Replies, Answers
<1>2. hdr' = [hdr EXCEPT ![q] = h] /\ seen' = [seen EXCEPT ![q] = r.status]
  BY DEF send, firstStatus
<1>3. wire' = [wire EXCEPT ![q] = IF seen[q] # 0 THEN wire[q] ELSE Append(wire[q], a)]
  BY DEF send
<1> HIDE DEF a
<1>4. Append(<<>>, a) = <<a>>
  OBVIOUS
<1>5. wire' = [wire EXCEPT ![q] = <<a>>]
  BY <1>3, <1>4
<1> QED
  BY <1>1, <1>2, <1>5

\* Writing into the buffer.
LEMMA PutEffect ==
  ASSUME TypeOK, NEW q \in Requests, NEW r \in Replies, put(q, r)
  PROVE  /\ committed' = [committed EXCEPT ![q] = TRUE]
         /\ tw' \in [Requests -> atMostOne(Replies)]
         /\ \A p \in Requests \ {q} : tw'[p] = tw[p]
         /\ cut[q] \/ tw[q] # <<>> => tw'[q] = tw[q]
         /\ ~cut[q] /\ tw[q] = <<>> =>
              tw'[q] # <<>> /\ tw'[q][1] = r
<1>1. <<r>> \in atMostOne(Replies) /\ <<r>> # <<>> /\ <<r>>[1] = r
  BY OneOf
<1> DEFINE o == <<r>>
<1>2. /\ committed' = [committed EXCEPT ![q] = TRUE]
      /\ tw' = [tw EXCEPT ![q] = IF cut[q] \/ tw[q] # <<>> THEN tw[q] ELSE o]
  BY DEF put
<1> HIDE DEF o
<1>3. tw \in [Requests -> atMostOne(Replies)] /\ cut[q] \in BOOLEAN
  BY DEF TypeOK
<1>4. tw' \in [Requests -> atMostOne(Replies)]
  BY <1>1, <1>2, <1>3 DEF o
<1> QED
  BY <1>1, <1>2, <1>3, <1>4 DEF o

-----------------------------------------------------------------------------
(* One request at a time: the types, and what holds of each request.         *)

\* The step leaves request p alone.
Untouched(p) ==
  /\ kind' = kind
  /\ stage'[p] = stage[p] /\ hs'[p] = hs[p] /\ tw'[p] = tw[p]
  /\ cut'[p] = cut[p] /\ committed'[p] = committed[p]
  /\ hdr'[p] = hdr[p] /\ wire'[p] = wire[p] /\ seen'[p] = seen[p]
  /\ report'[p] = report[p] /\ (p \in panicked' <=> p \in panicked)

\* What holds of a request goes on to hold when it is left alone.
LEMMA LocalFrame ==
  ASSUME NEW p, Local(p), Untouched(p) PROVE Local(p)'
<1>1. Sent(p)' /\ Attended(p)'
  BY DEF Local, Untouched, Sent, Attended
<1>2. Recorded(p)' /\ Buffered(p)' /\ Tagged(p)'
  BY DEF Local, Untouched, Recorded, Buffered, Tagged
<1>3. Accounted(p)'
  BY DEF Local, Untouched, Accounted, Explained, isScrape
<1>4. Contained(p)'
  BY DEF Local, Untouched, Contained
<1> QED
  BY <1>1, <1>2, <1>3, <1>4 DEF Local

\* The types of the functions over the requests.
LEMMA Typed ==
  ASSUME TypeOK
  PROVE  /\ kind \in [Requests -> Kinds]
         /\ DOMAIN stage = Requests /\ DOMAIN hs = Requests /\ DOMAIN tw = Requests
         /\ DOMAIN cut = Requests /\ DOMAIN committed = Requests
         /\ DOMAIN hdr = Requests /\ DOMAIN wire = Requests /\ DOMAIN seen = Requests
         /\ DOMAIN report = Requests
  BY PipelineAssumption DEF TypeOK

\* Enter: the request is inside, with its ID.
LEMMA EnterLocal ==
  ASSUME TypeOK, NEW q \in Requests, Local(q), Enter(q)
  PROVE  /\ TypeOK' /\ Local(q)'
         /\ \A p \in Requests \ {q} : Untouched(p)
<1>1. TypeOK'
  BY SMTT(60) DEF TypeOK, Enter, handlerVars, Headers
<1>2. \A p \in Requests \ {q} : Untouched(p)
  BY Typed DEF Enter, handlerVars, Untouched
<1>3. /\ stage[q] = "none" /\ stage'[q] = "cors" /\ hdr'[q] = {"X-Request-ID"}
      /\ UNCHANGED <<kind, wire, seen, report, hs, tw, committed, panicked, cut>>
  BY DEF Enter, handlerVars, TypeOK
<1>4. Sent(q)' /\ Attended(q)' /\ Recorded(q)'
  BY <1>3 DEF Local, Sent, Attended, Recorded
<1>5. Buffered(q)' /\ Tagged(q)'
  BY <1>3 DEF Local, Sent, Attended, Buffered, Tagged
<1>6. Accounted(q)' /\ Contained(q)'
  BY <1>3 DEF Local, Sent, Attended, Accounted, Contained, Explained, isScrape
<1> QED
  BY <1>1, <1>2, <1>4, <1>5, <1>6 DEF Local

\* An answer is sent, and the connection leaves with a return.
LEMMA SendLocal ==
  ASSUME TypeOK, NEW q \in Requests, Local(q), stage[q] \in {"cors", "timed"},
         inflight > 0,
         NEW r \in Replies, NEW h \in SUBSET Headers,
         send(q, r, h), leave(q, "returned"),
         UNCHANGED <<kind, hs, tw, committed, scan, panicked>>,
         cut' \in [Requests -> BOOLEAN], \A p \in Requests \ {q} : cut'[p] = cut[p],
         "X-Request-ID" \in h,
         kind[q].origin = "allowed" => "Access-Control-Allow-Origin" \in h,
         hs[q] # "none" => Explained(q, r.status, r.extra),
         hs[q] = "none" => r.extra = "none",
         q \in panicked => r.status \in {500, 503} /\ r.extra = "none",
         hs[q] \in {"start", "routed", "scraping", "wrote"} => cut'[q]
  PROVE  /\ TypeOK' /\ Local(q)'
         /\ \A p \in Requests \ {q} : Untouched(p)
<1>1. wire[q] = <<>> /\ seen[q] = 0 /\ r.status \in 200..599
  BY DEF Local, Sent, Replies
<1>2. /\ hdr' = [hdr EXCEPT ![q] = h] /\ seen' = [seen EXCEPT ![q] = r.status]
      /\ \E a \in Answers :
           /\ wire' = [wire EXCEPT ![q] = <<a>>]
           /\ a.status = r.status /\ a.extra = r.extra /\ a.headers = h
  BY <1>1, SendEffect
<1>3. PICK a \in Answers :
        /\ wire' = [wire EXCEPT ![q] = <<a>>]
        /\ a.status = r.status /\ a.extra = r.extra /\ a.headers = h
  BY <1>2
<1>4. <<a>> \in atMostOne(Answers) /\ <<a>> # <<>> /\ <<a>>[1] = a
  BY OneOf
<1> DEFINE o == <<a>>
<1> HIDE DEF o
<1>5. wire' = [wire EXCEPT ![q] = o] /\ o \in atMostOne(Answers) /\ o # <<>> /\ o[1] = a
  BY <1>3, <1>4 DEF o
<1>6. /\ stage' = [stage EXCEPT ![q] = "returned"] /\ inflight' = inflight - 1
      /\ UNCHANGED <<counts, report>>
  BY DEF leave
<1>7. TypeOK'
  <2>1. /\ kind' \in Workloads /\ hs' = hs /\ tw' = tw /\ committed' = committed
        /\ scan' = scan /\ panicked' = panicked
    BY DEF TypeOK
  <2>2. wire' \in [Requests -> atMostOne(Answers)]
    BY <1>5 DEF TypeOK
  <2>3. seen' \in [Requests -> {0} \cup 200..599] /\ hdr' \in [Requests -> SUBSET Headers]
    BY <1>1, <1>2, SMTT(60) DEF TypeOK
  <2>4. /\ stage' \in [Requests -> {"none", "cors", "timed", "returned", "unwound", "done"}]
        /\ inflight' \in Nat /\ counts' \in [Classes -> Nat]
        /\ report' \in [Requests -> Reports]
    BY <1>6 DEF TypeOK
  <2> QED
    BY <2>1, <2>2, <2>3, <2>4, SMTT(60) DEF TypeOK
<1>8. \A p \in Requests \ {q} : Untouched(p)
  BY <1>2, <1>5, <1>6, Typed DEF Untouched
<1>9. /\ wire'[q] = o /\ seen'[q] = r.status /\ hdr'[q] = h /\ stage'[q] = "returned"
      /\ wire'[q] # <<>> /\ wire'[q][1] = a
  BY <1>2, <1>5, <1>6, Typed
<1>10. Sent(q)' /\ Recorded(q)' /\ Tagged(q)'
  BY <1>3, <1>9 DEF Sent, Recorded, Tagged
<1>11. Attended(q)' /\ Buffered(q)'
  BY <1>9 DEF Local, Attended, Buffered
<1>12. Accounted(q)'
  BY <1>3, <1>9 DEF Local, Accounted, Explained, isScrape
<1>13. Contained(q)'
  BY <1>3, <1>9 DEF Local, Contained
<1> QED
  BY <1>7, <1>8, <1>10, <1>11, <1>12, <1>13 DEF Local

\* CORS answers itself: 204 or 403, with its headers.
LEMMA CorsAnswersLocal ==
  ASSUME TypeOK, NEW q \in Requests, Local(q), inflight > 0, CorsAnswers(q)
  PROVE  /\ TypeOK' /\ Local(q)'
         /\ \A p \in Requests \ {q} : Untouched(p)
<1> DEFINE r == corsAnswer(q)
           h == corsHeaders(q)
<1>1. /\ stage[q] = "cors" /\ send(q, r, h) /\ leave(q, "returned")
      /\ UNCHANGED <<kind, hs, tw, committed, scan, panicked, cut>>
  BY DEF CorsAnswers, handlerVars
<1>2. r \in Replies /\ r.extra = "none"
  <2>1. 204 \in 200..599 /\ 403 \in 200..599 /\ "none" \in Types
    BY DEF Types
  <2>2. reply(204, "none", "none") \in Replies /\ reply(204, "none", "none").extra = "none"
    BY <2>1, ReplyType
  <2>3. json(q, 403) \in Replies /\ json(q, 403).extra = "none"
    BY <2>1, JsonType
  <2> QED BY <2>2, <2>3 DEF corsAnswer
<1>3. h \in SUBSET Headers
  BY DEF corsHeaders, TypeOK, Headers
<1>4. /\ "X-Request-ID" \in h
      /\ kind[q].origin = "allowed" => "Access-Control-Allow-Origin" \in h
  BY <1>1 DEF corsHeaders, Local, Tagged
<1>5. hs[q] = "none" /\ q \notin panicked
  BY <1>1 DEF Local, Attended, Contained
<1> HIDE DEF r, h
<1> QED
  BY <1>1, <1>2, <1>3, <1>4, <1>5, SendLocal DEF TypeOK

\* CORS passes the request on: the handler goroutine starts.
LEMMA CorsPassesLocal ==
  ASSUME TypeOK, NEW q \in Requests, Local(q), inflight > 0, CorsPasses(q)
  PROVE  /\ TypeOK' /\ Local(q)'
         /\ \A p \in Requests \ {q} : Untouched(p)
<1>1. /\ stage[q] = "cors" /\ stage'[q] = "timed" /\ hs'[q] = "start"
      /\ hdr'[q] = corsHeaders(q) \cup {"Cache-Control"}
      /\ UNCHANGED <<kind, wire, seen, report, inflight, counts, tw, committed,
                     scan, panicked, cut>>
  BY DEF CorsPasses, TypeOK
<1>2. corsHeaders(q) \cup {"Cache-Control"} \in SUBSET Headers
  BY DEF corsHeaders, TypeOK, Headers
<1>3. TypeOK'
  BY <1>2 DEF TypeOK, CorsPasses
<1>4. \A p \in Requests \ {q} : Untouched(p)
  BY Typed DEF CorsPasses, Untouched
<1>5. Sent(q)' /\ Attended(q)' /\ Recorded(q)'
  BY <1>1 DEF Local, Sent, Attended, Recorded
<1>6. Buffered(q)' /\ Tagged(q)'
  BY <1>1 DEF Local, Sent, Attended, Buffered, Tagged, corsHeaders
<1>7. Accounted(q)' /\ Contained(q)'
  BY <1>1 DEF Local, Sent, Attended, Buffered, Accounted, Contained
<1> QED
  BY <1>3, <1>4, <1>5, <1>6, <1>7 DEF Local

\* The buffer of a handler that has ended is sent.
LEMMA FinishLocal ==
  ASSUME TypeOK, NEW q \in Requests, Local(q), inflight > 0, Finish(q)
  PROVE  /\ TypeOK' /\ Local(q)'
         /\ \A p \in Requests \ {q} : Untouched(p)
<1> DEFINE b == tw[q][1]
           r == jsonTimeoutWriter(q, b)
<1>1. stage[q] = "timed" /\ hs[q] = "ended"
  BY DEF Finish
<1>2. tw[q] # <<>> /\ b \in Replies /\ Head(tw[q]) = b
  <2>1. tw[q] # <<>> /\ tw[q] \in atMostOne(Replies)
    BY <1>1 DEF Local, Buffered, TypeOK
  <2>2. b \in Replies /\ tw[q] = <<b>>
    BY <2>1, One
  <2>3. Head(<<b>>) = b
    OBVIOUS
  <2> QED BY <2>1, <2>2, <2>3
<1>3. /\ send(q, r, hdr[q]) /\ leave(q, "returned")
      /\ UNCHANGED <<kind, hs, tw, committed, scan, panicked, cut>>
  BY <1>2 DEF Finish, handlerVars
<1>4. r \in Replies /\ r.status = b.status /\ r.extra = b.extra
  BY <1>2, TimeoutWriterType
<1>5. /\ hdr[q] \in SUBSET Headers /\ "X-Request-ID" \in hdr[q]
      /\ kind[q].origin = "allowed" => "Access-Control-Allow-Origin" \in hdr[q]
  BY <1>1 DEF Local, Tagged, TypeOK
<1>6. Explained(q, b.status, b.extra)
  BY <1>2 DEF Local, Accounted
<1>7. q \in panicked => b.status \in {500, 503} /\ b.extra = "none"
  BY <1>1 DEF Local, Contained
<1> HIDE DEF r, b
<1>8. Explained(q, r.status, r.extra)
  BY <1>4, <1>6
<1>9. cut' \in [Requests -> BOOLEAN] /\ \A p \in Requests \ {q} : cut'[p] = cut[p]
  BY <1>3 DEF TypeOK
<1> QED
  BY <1>1, <1>3, <1>4, <1>5, <1>7, <1>8, <1>9, SendLocal

\* The deadline: 503, and the handler is cut off.
LEMMA ExpireLocal ==
  ASSUME TypeOK, NEW q \in Requests, Local(q), inflight > 0, Expire(q)
  PROVE  /\ TypeOK' /\ Local(q)'
         /\ \A p \in Requests \ {q} : Untouched(p)
<1>1. PICK body \in {"json", "none"} :
        LET r == jsonTimeoutWriter(q, reply(503, "none", body)) IN
          send(q, r, hdr[q]) /\ leave(q, "returned")
  BY DEF Expire
<1> DEFINE b == reply(503, "none", body)
           r == jsonTimeoutWriter(q, b)
<1>2. /\ stage[q] = "timed" /\ send(q, r, hdr[q]) /\ leave(q, "returned")
      /\ UNCHANGED <<kind, hs, tw, committed, scan, panicked>>
      /\ cut' = [cut EXCEPT ![q] = TRUE]
  BY <1>1 DEF Expire, handlerVars
<1>3. b \in Replies /\ b.status = 503 /\ b.extra = "none"
  <2>1. 503 \in 200..599 /\ "none" \in Types /\ body \in Types
    BY DEF Types
  <2> QED BY <2>1, ReplyType
<1>4. r \in Replies /\ r.status = 503 /\ r.extra = "none"
  BY <1>3, TimeoutWriterType
<1>5. /\ hdr[q] \in SUBSET Headers /\ "X-Request-ID" \in hdr[q]
      /\ kind[q].origin = "allowed" => "Access-Control-Allow-Origin" \in hdr[q]
  BY <1>2 DEF Local, Tagged, TypeOK
<1> HIDE DEF r
<1>6. Explained(q, r.status, r.extra)
  BY <1>4 DEF Explained
<1>7. /\ cut' \in [Requests -> BOOLEAN] /\ \A p \in Requests \ {q} : cut'[p] = cut[p]
      /\ cut'[q]
  BY <1>2 DEF TypeOK
<1> QED
  BY <1>2, <1>4, <1>5, <1>6, <1>7, SendLocal, ZenonT(60)

\* A panic unwinds the connection: nothing is sent.
LEMMA AbortLocal ==
  ASSUME TypeOK, NEW q \in Requests, Local(q), inflight > 0, Abort(q)
  PROVE  /\ TypeOK' /\ Local(q)'
         /\ \A p \in Requests \ {q} : Untouched(p)
<1>1. /\ stage[q] = "timed" /\ hs[q] = "aborted" /\ stage'[q] = "unwound"
      /\ UNCHANGED <<kind, hdr, wire, seen, hs, tw, committed, scan, panicked, cut,
                     counts, report>>
  BY DEF Abort, leave, handlerVars, TypeOK
<1>2. TypeOK'
  BY SMTT(60) DEF TypeOK, Abort, leave, handlerVars
<1>3. \A p \in Requests \ {q} : Untouched(p)
  BY Typed DEF Abort, leave, handlerVars, Untouched
<1>4. Sent(q)' /\ Attended(q)' /\ Recorded(q)'
  BY <1>1 DEF Local, Sent, Attended, Recorded
<1>5. Buffered(q)' /\ Tagged(q)'
  BY <1>1 DEF Local, Sent, Attended, Buffered, Tagged
<1>6. Accounted(q)' /\ Contained(q)'
  BY <1>1 DEF Local, Sent, Accounted, Contained, Explained, isScrape
<1> QED
  BY <1>2, <1>3, <1>4, <1>5, <1>6 DEF Local

\* A status is in one of the six classes.
LEMMA ClassType ==
  ASSUME NEW s \in Nat PROVE class(s) \in Classes
<1>1. s \div 100 \in Int
  OBVIOUS
<1> QED
  BY <1>1 DEF class, Classes

\* The counter and the records: what was sent, or a failure.
LEMMA RecordLocal ==
  ASSUME TypeOK, NEW q \in Requests, Local(q), Record(q)
  PROVE  /\ TypeOK' /\ Local(q)'
         /\ \A p \in Requests \ {q} : Untouched(p)
<1> DEFINE completed == stage[q] = "returned"
           metric == metricStatus(seen[q], completed)
           status == observed(seen[q], completed)
           rep == [trace |-> status, access |-> status, metric |-> metric,
                   failed |-> ~completed \/ status >= 500]
<1>1. /\ stage[q] \in {"returned", "unwound"}
      /\ stage' = [stage EXCEPT ![q] = "done"]
      /\ counts' = [counts EXCEPT ![class(metric)] = counts[class(metric)] + 1]
      /\ report' = [report EXCEPT ![q] = rep]
      /\ UNCHANGED <<kind, hdr, wire, seen, inflight, hs, tw, committed, scan,
                     panicked, cut>>
  BY DEF Record, handlerVars
<1>2. seen[q] \in {0} \cup 200..599
  BY SMTT(60) DEF TypeOK
<1>3. status \in Nat /\ metric \in Nat
  BY <1>2 DEF metricStatus, observed
<1>4. rep \in Reports
  BY <1>3 DEF Reports
<1>5. TypeOK'
  <2>1. class(metric) \in Classes
    BY <1>3, ClassType
  <2> HIDE DEF metric, rep, completed, status
  <2>2. counts' \in [Classes -> Nat]
    BY <1>1, <2>1 DEF TypeOK
  <2> QED
    BY <1>1, <1>4, <2>2 DEF TypeOK
<1>6. \A p \in Requests \ {q} : Untouched(p)
  <2> HIDE DEF metric, rep, completed, status
  <2> QED BY <1>1, Typed DEF Untouched
<1>7. stage'[q] = "done" /\ report'[q] = rep
  <2> HIDE DEF metric, rep, completed, status
  <2> QED BY <1>1, Typed
<1>8. Recorded(q)'
  <2>1. CASE stage[q] = "returned"
    <3>1. wire[q] # <<>> /\ seen[q] = wire[q][1].status /\ seen[q] # 0
      <4>1. wire[q] # <<>> /\ seen[q] = wire[q][1].status
        BY <2>1 DEF Local, Sent
      <4>2. wire[q][1] \in Answers
        BY <4>1, One DEF TypeOK
      <4>3. wire[q][1].status \in 200..599
        BY <4>2 DEF Answers
      <4>4. \A x \in 200..599 : x # 0
        OBVIOUS
      <4> QED BY <4>1, <4>3, <4>4
    <3>2. status = seen[q] /\ metric = seen[q]
      BY <1>2, <2>1, <3>1 DEF metricStatus, observed
    <3>3. rep = [trace |-> seen[q], access |-> seen[q], metric |-> seen[q],
                 failed |-> seen[q] >= 500]
      BY <1>2, <2>1, <3>2
    <3> QED BY <1>1, <1>7, <3>1, <3>3 DEF Recorded
  <2>2. CASE stage[q] = "unwound"
    <3>1. wire[q] = <<>> /\ seen[q] = 0
      BY <2>2 DEF Local, Sent
    <3>2. rep.failed /\ rep.metric = 500
      BY <2>2, <3>1 DEF metricStatus, observed
    <3> QED BY <1>1, <1>7, <3>1, <3>2 DEF Recorded
  <2> QED BY <1>1, <2>1, <2>2
<1>9. Sent(q)' /\ Attended(q)' /\ Buffered(q)' /\ Tagged(q)'
  BY <1>1, <1>7 DEF Local, Sent, Attended, Buffered, Tagged
<1>10. Accounted(q)' /\ Contained(q)'
  BY <1>1 DEF Local, Accounted, Contained, Explained, isScrape
<1> QED
  BY <1>5, <1>6, <1>8, <1>9, <1>10 DEF Local

\* The handler writes its reply, and goes on or ends.
LEMMA PutLocal ==
  ASSUME TypeOK, NEW q \in Requests, Local(q), ~committed[q],
         hs[q] \in {"start", "routed", "wrote"},
         NEW r \in Replies, put(q, r),
         NEW s \in {"scraping", "wrote", "ended", "aborted"}, goto(q, s),
         UNCHANGED <<connVars, cut>>,
         scan' \in [Requests -> Seq(Nat)], \A p \in Requests : Len(scan'[p]) <= 7,
         panicked' \in {panicked, panicked \cup {q}},
         q \in panicked' => /\ stage[q] = "timed" /\ s = "ended"
                           /\ r.status = 500 /\ r.extra = "none",
         cut[q] \/ Explained(q, r.status, r.extra)'
  PROVE  /\ TypeOK' /\ Local(q)'
         /\ \A p \in Requests \ {q} : Untouched(p)
<1>1. /\ committed' = [committed EXCEPT ![q] = TRUE]
      /\ tw' \in [Requests -> atMostOne(Replies)]
      /\ \A p \in Requests \ {q} : tw'[p] = tw[p]
      /\ cut[q] \/ tw[q] # <<>> => tw'[q] = tw[q]
      /\ ~cut[q] /\ tw[q] = <<>> => tw'[q] # <<>> /\ tw'[q][1] = r
  BY PutEffect
<1>2. /\ UNCHANGED <<kind, stage, hdr, wire, seen, report, inflight, counts, cut>>
      /\ hs' = [hs EXCEPT ![q] = s]
  BY DEF connVars, goto
<1>3. tw[q] = <<>> /\ q \notin panicked /\ (stage[q] = "timed" \/ cut[q])
  BY DEF Local, Buffered, Contained, Attended
<1>4. stage[q] = "timed" => ~cut[q] /\ wire[q] = <<>>
  BY DEF Local, Attended, Sent
<1>5. TypeOK'
  <2>1. hs' \in [Requests -> {"none", "start", "routed", "scraping", "wrote", "ended",
                              "aborted"}]
    BY <1>2 DEF TypeOK
  <2>2. committed' \in [Requests -> BOOLEAN] /\ panicked' \in SUBSET Requests
    BY <1>1 DEF TypeOK
  <2> QED
    BY <1>1, <1>2, <2>1, <2>2, ZenonT(60) DEF TypeOK
<1>6. \A p \in Requests \ {q} : Untouched(p)
  BY <1>1, <1>2, Typed DEF Untouched
<1>7. hs'[q] = s /\ committed'[q]
  BY <1>1, <1>2, Typed
<1>8. Sent(q)' /\ Recorded(q)' /\ Tagged(q)'
  BY <1>2 DEF Local, Sent, Recorded, Tagged
<1>9. Attended(q)'
  BY <1>2, <1>3, <1>7 DEF Local, Attended
<1>10. Buffered(q)'
  BY <1>1, <1>2, <1>3, <1>4, <1>7 DEF Buffered
<1>11. Accounted(q)'
  <2>1. (tw[q] # <<>> => Explained(q, tw[q][1].status, tw[q][1].extra))'
    BY <1>1, <1>3 DEF Explained
  <2>2. wire[q] # <<>> => Explained(q, wire[q][1].status, wire[q][1].extra)
    BY DEF Local, Accounted
  <2>3. (wire[q] # <<>> => Explained(q, wire[q][1].status, wire[q][1].extra))'
    BY <1>2, <2>2 DEF Explained, isScrape
  <2> QED
    BY <1>2, <1>7, <2>1, <2>3 DEF Accounted
<1>12. Contained(q)'
  BY <1>1, <1>2, <1>3, <1>4, <1>7 DEF Contained
<1> QED
  BY <1>5, <1>6, <1>8, <1>9, <1>10, <1>11, <1>12 DEF Local

\* The handler goes on or ends without writing: after the limiter, after its
\* write, or in a panic that can only be aborted.
LEMMA MoveLocal ==
  ASSUME TypeOK, NEW q \in Requests, Local(q),
         NEW s \in {"routed", "scraping", "wrote", "ended", "aborted"}, goto(q, s),
         UNCHANGED <<connVars, cut, tw, committed>>,
         scan' \in [Requests -> Seq(Nat)], \A p \in Requests : Len(scan'[p]) <= 7,
         panicked' \in {panicked, panicked \cup {q}},
         q \in panicked' => stage[q] = "timed" /\ s = "aborted",
         \/ hs[q] = "start" /\ s = "routed"
         \/ hs[q] \in {"scraping", "wrote"} /\ s # "routed"
         \/ hs[q] = "routed" /\ s = "aborted"
  PROVE  /\ TypeOK' /\ Local(q)'
         /\ \A p \in Requests \ {q} : Untouched(p)
<1>1. /\ UNCHANGED <<kind, stage, hdr, wire, seen, report, inflight, counts, cut,
                     tw, committed>>
      /\ hs' = [hs EXCEPT ![q] = s]
  BY DEF connVars, goto
<1>2. q \notin panicked /\ (stage[q] = "timed" \/ cut[q])
  BY DEF Local, Contained, Attended
<1>3. TypeOK'
  <2>1. hs' \in [Requests -> {"none", "start", "routed", "scraping", "wrote", "ended",
                              "aborted"}]
    BY <1>1 DEF TypeOK
  <2> QED
    BY <1>1, <2>1, SMTT(60) DEF TypeOK
<1>4. \A p \in Requests \ {q} : Untouched(p)
  BY <1>1, Typed DEF Untouched
<1>5. hs'[q] = s
  BY <1>1, Typed
<1>6. Sent(q)' /\ Recorded(q)' /\ Tagged(q)'
  BY <1>1 DEF Local, Sent, Recorded, Tagged
<1>7. Attended(q)' /\ Buffered(q)'
  BY <1>1, <1>2, <1>5 DEF Local, Attended, Buffered
<1>8. Accounted(q)'
  BY <1>1, <1>5 DEF Local, Accounted, Explained, isScrape
<1>9. Contained(q)'
  BY <1>1, <1>2, <1>5 DEF Local, Contained, Sent
<1> QED
  BY <1>3, <1>4, <1>6, <1>7, <1>8, <1>9 DEF Local

\* The steps of the handler goroutine.
Handles(q) ==
  \/ Dispatch(q) \/ Route(q) \/ EndpointWrites(q) \/ EndpointReturns(q)
  \/ EndpointPanics(q) \/ Scrape(q) \/ ScrapeLoads(q)

\* What a scrape loads is a number, and it loads at most seven.
LEMMA LoadType ==
  ASSUME TypeOK, NEW q \in Requests, Len(scan[q]) < 7,
         NEW v \in Nat, load(q, v)
  PROVE  /\ scan' = [scan EXCEPT ![q] = Append(scan[q], v)]
         /\ scan' \in [Requests -> Seq(Nat)]
         /\ \A p \in Requests : Len(scan'[p]) <= 7
<1> DEFINE l == scan[q]
           n == Len(l)
           o == Append(l, v)
<1>1. l \in Seq(Nat) /\ scan' = [scan EXCEPT ![q] = o]
  BY DEF TypeOK, load
<1>2. o \in Seq(Nat) /\ Len(o) = n + 1 /\ n \in Nat
  BY <1>1
<1> HIDE DEF o, n
<1>3. Len(o) <= 7
  BY <1>2 DEF n
<1>4. scan' \in [Requests -> Seq(Nat)] /\ \A p \in Requests : Len(scan'[p]) <= 7
  BY <1>1, <1>2, <1>3 DEF TypeOK
<1> QED
  BY <1>1, <1>4 DEF o

\* Each of them keeps the types and what holds of its request.
LEMMA HandlerLocal ==
  ASSUME TypeOK, NEW q \in Requests, Local(q), Handles(q),
         hs[q] = "scraping" => Len(scan[q]) < 7
  PROVE  /\ TypeOK' /\ Local(q)'
         /\ \A p \in Requests \ {q} : Untouched(p)
<1>0. /\ scan \in [Requests -> Seq(Nat)] /\ \A p \in Requests : Len(scan[p]) <= 7
      /\ 429 \in 200..599 /\ 404 \in 200..599 /\ 405 \in 200..599
      /\ 500 \in 200..599
  BY DEF TypeOK
<1>1. hs[q] \in {"start", "routed"} => ~committed[q]
  BY DEF Local, Buffered
<1>2. hs[q] \in {"start", "routed", "scraping", "wrote"} => q \notin panicked
  BY DEF Local, Contained
<1>3. CASE Dispatch(q)
  <2>1. hs[q] = "start" /\ UNCHANGED <<connVars, cut, scan, panicked>>
    BY <1>3 DEF Dispatch
  <2>2. CASE goto(q, "routed") /\ UNCHANGED <<tw, committed>>
    BY <1>0, <1>2, <2>1, <2>2, MoveLocal
  <2>3. CASE put(q, json(q, 429)) /\ goto(q, "ended")
    <3>1. PICK r : r = json(q, 429)
      OBVIOUS
    <3>2. json(q, 429) \in Replies /\ json(q, 429).status = 429 /\ json(q, 429).extra = "none"
      BY <1>0, JsonType
    <3>3. r \in Replies /\ r.status = 429 /\ r.extra = "none" /\ put(q, r)
      BY <2>3, <3>1, <3>2
    <3>4. Explained(q, r.status, r.extra)'
      BY <3>3 DEF Explained
    <3> QED BY <1>0, <1>1, <1>2, <2>1, <2>3, <3>3, <3>4, PutLocal
  <2> QED BY <1>3, <2>2, <2>3 DEF Dispatch
<1>4. CASE Route(q)
  <2>1. hs[q] = "routed" /\ goto(q, "ended") /\ UNCHANGED <<connVars, cut, scan, panicked>>
    BY <1>4 DEF Route
  <2>2. PICK r : r \in Replies /\ r.extra = "none" /\ put(q, r) /\ kind[q].path # "endpoint"
    <3>1. CASE kind[q].path = "redirect" /\ put(q, bodyless(q, 301, "html"))
      <4>1. bodyless(q, 301, "html") \in Replies /\ bodyless(q, 301, "html").extra = "none"
        BY PlainTypes
      <4> QED BY <3>1, <4>1
    <3>2. CASE kind[q].path = "missing" /\ \E s \in {404, 405} : put(q, json(q, s))
      <4>1. json(q, 404) \in Replies /\ json(q, 404).extra = "none"
        BY <1>0, JsonType
      <4>2. json(q, 405) \in Replies /\ json(q, 405).extra = "none"
        BY <1>0, JsonType
      <4> QED BY <3>2, <4>1, <4>2
    <3> QED BY <1>4, <3>1, <3>2 DEF Route
  <2>3. Explained(q, r.status, r.extra)'
    BY <2>1, <2>2 DEF Explained, connVars
  <2> QED BY <1>0, <1>1, <1>2, <2>1, <2>2, <2>3, PutLocal
<1>5. CASE EndpointWrites(q)
  <2>0. PICK r, s :
          /\ r = written(q)
          /\ s = IF refused(q) /\ Adapt(kind[q].call).viaJSON THEN "aborted" ELSE "wrote"
    OBVIOUS
  <2>1. /\ hs[q] = "routed" /\ kind[q].path = "endpoint" /\ ~isScrape(q)
        /\ put(q, r) /\ goto(q, s) /\ s \in {"aborted", "wrote"}
        /\ UNCHANGED <<connVars, cut, scan, panicked>>
    BY <1>5, <2>0 DEF EndpointWrites, at
  <2>2. /\ r \in Replies
        /\ r.status = Adapt(kind[q].call).status /\ r.extra = Adapt(kind[q].call).extra
    BY <2>0, <2>1, WrittenType
  <2>3. Explained(q, r.status, r.extra)'
    BY <2>1, <2>2 DEF Explained, connVars, isScrape
  <2> QED BY <1>0, <1>1, <1>2, <2>1, <2>2, <2>3, PutLocal
<1>6. CASE EndpointReturns(q)
  <2>1. /\ hs[q] = "wrote" /\ goto(q, "ended")
        /\ UNCHANGED <<connVars, cut, tw, committed, scan, panicked>>
    BY <1>6 DEF EndpointReturns
  <2> QED BY <1>0, <1>2, <2>1, MoveLocal
<1>7. CASE EndpointPanics(q)
  <2>1. /\ hs[q] \in {"routed", "wrote"} /\ kind[q].path = "endpoint"
        /\ panicked' = IF stage[q] = "timed" THEN panicked \cup {q} ELSE panicked
        /\ UNCHANGED <<connVars, cut, scan>>
    BY <1>7 DEF EndpointPanics, at
  <2>2. /\ panicked' \in {panicked, panicked \cup {q}}
        /\ q \in panicked' => stage[q] = "timed"
        /\ stage[q] = "timed" => q \in panicked'
    BY <1>2, <2>1
  <2>3. CASE goto(q, "aborted") /\ UNCHANGED <<tw, committed>>
    BY <1>0, <2>1, <2>2, <2>3, MoveLocal
  <2>4. CASE /\ ~committed[q] /\ goto(q, "ended")
             /\ \E prepared \in SUBSET {"WWW-Authenticate"} : put(q, recovered(q, prepared))
    <3>0. PICK prepared, r : r = recovered(q, prepared) /\ put(q, r)
      BY <2>4
    <3>1. r \in Replies /\ r.status = 500 /\ r.extra = "none"
      BY <1>0, <3>0, RecoveredType
    <3>2. put(q, r) /\ goto(q, "ended")
      BY <2>4, <3>0
    <3>3. CASE stage[q] = "timed"
      <4>1. Explained(q, r.status, r.extra)'
        BY <2>2, <3>1, <3>3 DEF Explained
      <4> QED BY <1>0, <1>2, <2>1, <2>2, <2>4, <3>1, <3>2, <4>1, PutLocal
    <3>4. CASE stage[q] # "timed"
      <4>1. cut[q]
        BY <2>1, <3>4 DEF Local, Attended
      <4>2. q \notin panicked'
        BY <2>2, <3>4
      <4> QED BY <1>0, <1>2, <2>1, <2>2, <2>4, <3>1, <3>2, <4>1, <4>2, PutLocal
    <3> QED BY <3>3, <3>4
  <2> QED BY <1>7, <2>3, <2>4 DEF EndpointPanics
<1>8. CASE Scrape(q)
  <2>0. PICK r, s : /\ r = bodyless(q, 200, "text")
                    /\ s = IF kind[q].method = "HEAD" THEN "wrote" ELSE "scraping"
    OBVIOUS
  <2>1. /\ hs[q] = "routed" /\ isScrape(q)
        /\ put(q, r) /\ goto(q, s) /\ s \in {"scraping", "wrote"}
        /\ UNCHANGED <<connVars, cut, scan, panicked>>
    BY <1>8, <2>0 DEF Scrape, at
  <2>2. r \in Replies /\ r.extra = "none"
    <3>1. bodyless(q, 200, "text") \in Replies /\ bodyless(q, 200, "text").extra = "none"
      BY PlainTypes
    <3> QED BY <2>0, <3>1
  <2>3. Explained(q, r.status, r.extra)'
    BY <2>1, <2>2 DEF Explained, connVars, isScrape
  <2> QED BY <1>0, <1>1, <1>2, <2>1, <2>2, <2>3, PutLocal
<1>9. CASE ScrapeLoads(q)
  <2> DEFINE n == Len(scan[q])
  <2>0. PICK v, s : /\ v = IF n = 6 THEN inflight ELSE counts[n]
                    /\ s = IF n = 6 THEN "wrote" ELSE "scraping"
    OBVIOUS
  <2>1. /\ hs[q] = "scraping" /\ load(q, v) /\ goto(q, s)
        /\ UNCHANGED <<connVars, cut, tw, committed, panicked>>
    BY <1>9, <2>0 DEF ScrapeLoads, load
  <2>2. v \in Nat
    <3>1. n \in Nat /\ n < 7
      BY <1>0, <2>1
    <3> HIDE DEF n
    <3>2. n # 6 => n \in Classes
      BY <3>1 DEF Classes
    <3> QED BY <2>0, <3>2 DEF TypeOK
  <2>3. scan' \in [Requests -> Seq(Nat)] /\ \A p \in Requests : Len(scan'[p]) <= 7
    BY <2>1, <2>2, LoadType
  <2>4. s \in {"scraping", "wrote"}
    BY <2>0
  <2> QED BY <1>2, <2>1, <2>3, <2>4, MoveLocal
<1> QED
  BY <1>3, <1>4, <1>5, <1>6, <1>7, <1>8, <1>9 DEF Handles

-----------------------------------------------------------------------------
(* The metrics.                                                              *)

\* The requests inside, and those that have left in class c.
inside == {q \in Requests : stage[q] \in {"cors", "timed"}}
counted(c) == {q \in Requests : stage[q] = "done" /\ class(report[q].metric) = c}

\* Sets of requests are finite and have a size.
LEMMA RequestSets ==
  ASSUME NEW S \in SUBSET Requests
  PROVE  IsFiniteSet(S) /\ Cardinality(S) \in Nat
  BY PipelineAssumption, FS_Subset, FS_CardinalityType

\* A request that is inside is in the gauge.
LEMMA GaugePositive ==
  ASSUME TypeOK, MetricsBalanced, NEW q \in Requests, stage[q] \in {"cors", "timed"}
  PROVE  inflight > 0
<1>1. inflight = Cardinality(inside) /\ q \in inside /\ inside \in SUBSET Requests
  BY DEF MetricsBalanced, inside
<1>2. IsFiniteSet(inside) /\ Cardinality(inside) \in Nat
  BY <1>1, RequestSets
<1>3. Cardinality(inside) # 0
  BY <1>1, <1>2, FS_EmptySet
<1> QED
  BY <1>1, <1>2, <1>3

\* The metrics stay when nobody comes, leaves or is counted.
LEMMA BalancedFrame ==
  ASSUME MetricsBalanced, UNCHANGED <<inflight, counts, report>>,
         \A p \in Requests : stage'[p] \in {"cors", "timed"} <=> stage[p] \in {"cors", "timed"},
         \A p \in Requests : stage'[p] = "done" <=> stage[p] = "done"
  PROVE  MetricsBalanced'
<1>1. inside' = inside
  BY DEF inside
<1>2. \A c \in Classes : counted(c)' = counted(c)
  BY DEF counted
<1>3. /\ inflight' = Cardinality(inside')
      /\ \A c \in Classes : counts'[c] = Cardinality(counted(c)')
  BY <1>1, <1>2 DEF MetricsBalanced, inside, counted
<1> QED
  BY <1>3 DEF MetricsBalanced, inside, counted

\* A request comes: the gauge goes up.
LEMMA EnterBalanced ==
  ASSUME TypeOK, MetricsBalanced, NEW q \in Requests, Enter(q)
  PROVE  MetricsBalanced'
<1>1. /\ stage[q] = "none" /\ stage' = [stage EXCEPT ![q] = "cors"]
      /\ inflight' = inflight + 1 /\ UNCHANGED <<counts, report>>
      /\ stage \in [Requests -> {"none", "cors", "timed", "returned", "unwound", "done"}]
  BY DEF Enter, TypeOK
<1>2. inside' = inside \cup {q} /\ q \notin inside /\ inside \in SUBSET Requests
  BY <1>1 DEF inside
<1>3. Cardinality(inside \cup {q}) = Cardinality(inside) + 1
  BY <1>2, RequestSets, FS_AddElement
<1>4. \A c \in Classes : counted(c)' = counted(c)
  BY <1>1 DEF counted
<1>5. /\ inflight' = Cardinality(inside')
      /\ \A c \in Classes : counts'[c] = Cardinality(counted(c)')
  BY <1>1, <1>2, <1>3, <1>4 DEF MetricsBalanced, inside, counted
<1> QED
  BY <1>5 DEF MetricsBalanced, inside, counted

\* A request leaves: the gauge goes down, nothing is counted yet.
LEMMA LeaveBalanced ==
  ASSUME TypeOK, MetricsBalanced, NEW q \in Requests, stage[q] \in {"cors", "timed"},
         NEW how \in {"returned", "unwound"}, leave(q, how)
  PROVE  MetricsBalanced'
<1>1. /\ stage' = [stage EXCEPT ![q] = how]
      /\ inflight' = inflight - 1 /\ UNCHANGED <<counts, report>>
      /\ stage \in [Requests -> {"none", "cors", "timed", "returned", "unwound", "done"}]
  BY DEF leave, TypeOK
<1>2. inside' = inside \ {q} /\ q \in inside /\ inside \in SUBSET Requests
  BY <1>1 DEF inside
<1>3. Cardinality(inside \ {q}) = Cardinality(inside) - 1
  BY <1>2, RequestSets, FS_RemoveElement
<1>4. \A c \in Classes : counted(c)' = counted(c)
  BY <1>1 DEF counted
<1>5. /\ inflight' = Cardinality(inside')
      /\ \A c \in Classes : counts'[c] = Cardinality(counted(c)')
  BY <1>1, <1>2, <1>3, <1>4 DEF MetricsBalanced, inside, counted
<1> QED
  BY <1>5 DEF MetricsBalanced, inside, counted

\* A request is counted, in the class its record says.
LEMMA RecordBalanced ==
  ASSUME TypeOK, MetricsBalanced, NEW q \in Requests, Record(q), TypeOK'
  PROVE  MetricsBalanced' /\ \A c \in Classes : counts[c] <= counts'[c]
<1>0. PICK m, k : m = metricStatus(seen[q], stage[q] = "returned") /\ k = class(m)
  OBVIOUS
<1>1. /\ stage[q] \in {"returned", "unwound"}
      /\ stage' = [stage EXCEPT ![q] = "done"]
      /\ counts' = [counts EXCEPT ![k] = counts[k] + 1]
      /\ inflight' = inflight
      /\ stage \in [Requests -> {"none", "cors", "timed", "returned", "unwound", "done"}]
  BY <1>0 DEF Record, TypeOK
<1>2. /\ report'[q].metric = m
      /\ \A p \in Requests \ {q} : report'[p] = report[p]
  BY <1>0 DEF Record, TypeOK
<1>3. k \in Classes
  <2>1. report'[q] \in Reports
    BY DEF TypeOK
  <2>2. m \in Nat
    BY <1>2, <2>1 DEF Reports
  <2> QED BY <1>0, <2>2, ClassType
<1>4. inside' = inside
  BY <1>1 DEF inside
<1>5. /\ \A c \in Classes \ {k} : counted(c)' = counted(c)
      /\ counted(k)' = counted(k) \cup {q} /\ q \notin counted(k)
  <2>1. stage'[q] = "done" /\ class(report'[q].metric) = k /\ stage[q] # "done"
    BY <1>0, <1>1, <1>2
  <2>2. \A p \in Requests \ {q} : stage'[p] = stage[p] /\ report'[p] = report[p]
    BY <1>1, <1>2
  <2> QED BY <2>1, <2>2 DEF counted
<1>6. Cardinality(counted(k) \cup {q}) = Cardinality(counted(k)) + 1
  <2>1. counted(k) \in SUBSET Requests
    BY DEF counted
  <2> QED BY <1>5, <2>1, RequestSets, FS_AddElement
<1>7. \A c \in Classes : counts'[c] = Cardinality(counted(c)')
  <2>1. \A c \in Classes : counts[c] = Cardinality(counted(c)) /\ counts[c] \in Nat
    BY DEF MetricsBalanced, counted, TypeOK
  <2>2. /\ counts'[k] = counts[k] + 1
        /\ \A c \in Classes \ {k} : counts'[c] = counts[c]
    BY <1>1, <1>3 DEF TypeOK
  <2>3. counts'[k] = Cardinality(counted(k)')
    BY <1>3, <1>5, <1>6, <2>1, <2>2
  <2>4. ASSUME NEW c \in Classes, c # k PROVE counts'[c] = Cardinality(counted(c)')
    BY <1>5, <2>1, <2>2, <2>4
  <2> QED BY <2>3, <2>4
<1>8. inflight' = Cardinality(inside')
  BY <1>1, <1>4 DEF MetricsBalanced, inside
<1>9. MetricsBalanced'
  BY <1>7, <1>8 DEF MetricsBalanced, inside, counted
<1>10. \A c \in Classes : counts[c] <= counts'[c]
  BY <1>1, <1>3 DEF TypeOK
<1> QED
  BY <1>9, <1>10

\* The sizes of disjoint sets of requests add up.
LEMMA DisjointSizes ==
  ASSUME NEW S \in SUBSET Requests, NEW T \in SUBSET Requests, S \cap T = {}
  PROVE  Cardinality(S \cup T) = Cardinality(S) + Cardinality(T)
<1>1. IsFiniteSet(S) /\ IsFiniteSet(T) /\ Cardinality(S) \in Nat /\ Cardinality(T) \in Nat
  BY RequestSets
<1>2. Cardinality(S \cup T) = Cardinality(S) + Cardinality(T) - Cardinality(S \cap T)
  BY <1>1, FS_Union
<1>3. Cardinality(S \cap T) = 0
  BY FS_EmptySet
<1> QED
  BY <1>1, <1>2, <1>3

\* The counters and the gauge together count only requests that have come, each
\* of them once: the classes and the requests inside are disjoint.
LEMMA CountersBounded ==
  ASSUME TypeOK, MetricsBalanced
  PROVE  counts[0] + counts[1] + counts[2] + counts[3] + counts[4] + counts[5] + inflight
           <= Cardinality(entered)
<1> DEFINE u1 == inside \cup counted(0)
           u2 == u1 \cup counted(1)
           u3 == u2 \cup counted(2)
           u4 == u3 \cup counted(3)
           u5 == u4 \cup counted(4)
           u6 == u5 \cup counted(5)
<1>1. /\ inside \in SUBSET Requests /\ u1 \in SUBSET Requests /\ u2 \in SUBSET Requests
      /\ u3 \in SUBSET Requests /\ u4 \in SUBSET Requests /\ u5 \in SUBSET Requests
      /\ u6 \in SUBSET Requests /\ \A c \in Classes : counted(c) \in SUBSET Requests
  BY DEF inside, counted
<1>2. \A c \in Classes : inside \cap counted(c) = {}
  BY DEF inside, counted
<1>3. \A c, d : c # d => counted(c) \cap counted(d) = {}
  BY DEF counted
<1>4. /\ counts[0] = Cardinality(counted(0)) /\ counts[1] = Cardinality(counted(1))
      /\ counts[2] = Cardinality(counted(2)) /\ counts[3] = Cardinality(counted(3))
      /\ counts[4] = Cardinality(counted(4)) /\ counts[5] = Cardinality(counted(5))
      /\ inflight = Cardinality(inside)
      /\ counts[0] \in Nat /\ counts[1] \in Nat /\ counts[2] \in Nat /\ counts[3] \in Nat
      /\ counts[4] \in Nat /\ counts[5] \in Nat /\ inflight \in Nat
  BY DEF MetricsBalanced, inside, counted, TypeOK, Classes
<1>0. 0 \in Classes /\ 1 \in Classes /\ 2 \in Classes /\ 3 \in Classes /\ 4 \in Classes
      /\ 5 \in Classes
  BY DEF Classes
<1>5. Cardinality(u1) = Cardinality(inside) + Cardinality(counted(0))
  BY <1>0, <1>1, <1>2, DisjointSizes
<1>6. Cardinality(u2) = Cardinality(u1) + Cardinality(counted(1))
  <2>1. u1 \cap counted(1) = {}
    BY <1>0, <1>2, <1>3
  <2> QED BY <1>0, <1>1, <2>1, DisjointSizes
<1>7. Cardinality(u3) = Cardinality(u2) + Cardinality(counted(2))
  <2>1. u2 \cap counted(2) = {}
    BY <1>0, <1>2, <1>3
  <2> QED BY <1>0, <1>1, <2>1, DisjointSizes
<1>8. Cardinality(u4) = Cardinality(u3) + Cardinality(counted(3))
  <2>1. u3 \cap counted(3) = {}
    BY <1>0, <1>2, <1>3
  <2> QED BY <1>0, <1>1, <2>1, DisjointSizes
<1>9. Cardinality(u5) = Cardinality(u4) + Cardinality(counted(4))
  <2>1. u4 \cap counted(4) = {}
    BY <1>0, <1>2, <1>3
  <2> QED BY <1>0, <1>1, <2>1, DisjointSizes
<1>10. Cardinality(u6) = Cardinality(u5) + Cardinality(counted(5))
  <2>1. u5 \cap counted(5) = {}
    BY <1>0, <1>2, <1>3
  <2> QED BY <1>0, <1>1, <2>1, DisjointSizes
<1>11. u6 \in SUBSET entered
  BY DEF inside, counted, entered
<1>12. /\ Cardinality(u6) <= Cardinality(entered)
       /\ Cardinality(u6) \in Nat /\ Cardinality(entered) \in Nat
  <2>1. entered \in SUBSET Requests
    BY DEF entered
  <2> HIDE DEF u6
  <2> QED BY <1>1, <1>11, <2>1, RequestSets, FS_Subset
<1> HIDE DEF u1, u2, u3, u4, u5, u6
<1> QED
  BY <1>4, <1>5, <1>6, <1>7, <1>8, <1>9, <1>10, <1>12

\* The requests that have come stay: their number does not go down.
LEMMA EnteredGrows ==
  ASSUME entered \subseteq entered'
  PROVE  /\ Cardinality(entered) <= Cardinality(entered')
         /\ Cardinality(entered) \in Nat /\ Cardinality(entered') \in Nat
<1>1. entered \in SUBSET Requests /\ entered' \in SUBSET Requests
  BY DEF entered
<1> QED
  BY <1>1, RequestSets, FS_Subset

\* The sum of a complete scrape.
sum(s) == s[1] + s[2] + s[3] + s[4] + s[5] + s[6] + s[7]

\* The members of a sequence of numbers are numbers.
LEMMA Members ==
  ASSUME NEW s \in Seq(Nat), NEW n \in Nat, Len(s) = n
  PROVE  \A k \in 1..n : s[k] \in Nat
  OBVIOUS

\* So is their sum.
LEMMA SumNat ==
  ASSUME NEW s, \A k \in 1..7 : s[k] \in Nat
  PROVE  /\ s[1] \in Nat /\ s[2] \in Nat /\ s[3] \in Nat /\ s[4] \in Nat
         /\ s[5] \in Nat /\ s[6] \in Nat /\ s[7] \in Nat /\ sum(s) \in Nat
<1>1. /\ s[1] \in Nat /\ s[2] \in Nat /\ s[3] \in Nat /\ s[4] \in Nat
      /\ s[5] \in Nat /\ s[6] \in Nat /\ s[7] \in Nat
  OBVIOUS
<1> QED
  BY <1>1 DEF sum

\* A complete scrape is seven numbers, and its sum is one.
LEMMA SumType ==
  ASSUME NEW s \in Seq(Nat), Len(s) = 7
  PROVE  /\ s[1] \in Nat /\ s[2] \in Nat /\ s[3] \in Nat /\ s[4] \in Nat
         /\ s[5] \in Nat /\ s[6] \in Nat /\ s[7] \in Nat /\ sum(s) \in Nat
<1>1. 7 \in Nat
  OBVIOUS
<1>2. \A k \in 1..7 : s[k] \in Nat
  BY <1>1, Members
<1> QED
  BY <1>2, SumNat

\* Loading leaves what was loaded, and adds the new value at the end.
LEMMA LoadValues ==
  ASSUME NEW s \in Seq(Nat), NEW v \in Nat
  PROVE  /\ Append(s, v) \in Seq(Nat) /\ Len(Append(s, v)) = Len(s) + 1
         /\ \A i \in 1..Len(s) : Append(s, v)[i] = s[i]
         /\ Append(s, v)[Len(s) + 1] = v
  OBVIOUS

\* A step that loads nothing keeps what scrapes have loaded below what is there.
LEMMA ScanFrame ==
  ASSUME TypeOK, TypeOK', ScansBounded, scan' = scan,
         \A c \in Classes : counts[c] <= counts'[c],
         entered \subseteq entered',
         \A p \in Requests : hs'[p] = "scraping" => Len(scan[p]) < 7,
         \A p \in Requests : hs'[p] \in {"none", "start", "routed"} => scan[p] = <<>>
  PROVE  ScansBounded'
<1> SUFFICES ASSUME NEW q \in Requests
             PROVE  /\ \A i \in 1..6 : i <= Len(scan[q]) => scan[q][i] <= counts'[i - 1]
                    /\ Len(scan[q]) = 7 => sum(scan[q]) <= Cardinality(entered')
  BY DEF ScansBounded, sum, entered
<1>1. scan[q] \in Seq(Nat)
  BY DEF TypeOK
<1>2. ASSUME NEW i \in 1..6, i <= Len(scan[q]) PROVE scan[q][i] <= counts'[i - 1]
  <2>1. i - 1 \in Classes
    BY DEF Classes
  <2>2. counts[i - 1] \in Nat /\ counts'[i - 1] \in Nat /\ counts[i - 1] <= counts'[i - 1]
    BY <2>1 DEF TypeOK
  <2>3. scan[q][i] \in Nat
    <3> DEFINE n == Len(scan[q])
    <3>1. n \in Nat /\ \A k \in 1..n : scan[q][k] \in Nat
      BY <1>1
    <3>2. i \in 1..n
      <4> HIDE DEF n
      <4> QED BY <1>2, <3>1 DEF n
    <3> QED BY <3>1, <3>2
  <2>4. scan[q][i] <= counts[i - 1]
    BY <1>2 DEF ScansBounded
  <2> DEFINE a == scan[q][i]
             b == counts[i - 1]
             d == counts'[i - 1]
  <2> SUFFICES a <= d OBVIOUS
  <2>5. a \in Nat /\ b \in Nat /\ d \in Nat /\ a <= b /\ b <= d
    BY <2>2, <2>3, <2>4
  <2> HIDE DEF a, b, d
  <2> QED BY <2>5
<1>3. ASSUME Len(scan[q]) = 7 PROVE sum(scan[q]) <= Cardinality(entered')
  <2>1. sum(scan[q]) <= Cardinality(entered)
    BY <1>3 DEF ScansBounded, sum
  <2>2. sum(scan[q]) \in Nat
    BY <1>1, <1>3, SumType
  <2> DEFINE x == sum(scan[q])
  <2> HIDE DEF x
  <2>3. x <= Cardinality(entered) /\ x \in Nat
    BY <2>1, <2>2 DEF x
  <2>4. x <= Cardinality(entered')
    BY <2>3, EnteredGrows
  <2> QED BY <2>4 DEF x
<1> QED
  BY <1>2, <1>3

\* Loading: a counter is what it is, and with the gauge, loaded last, the scrape
\* has counted nobody twice.
LEMMA LoadBounded ==
  ASSUME TypeOK, TypeOK', MetricsBalanced, ScansBounded, NEW q \in Requests, ScrapeLoads(q)
  PROVE  ScansBounded'
<1> DEFINE l == scan[q]
           n == Len(l)
<1>0. PICK v : v = IF n = 6 THEN inflight ELSE counts[n]
  OBVIOUS
<1>1. /\ hs[q] = "scraping" /\ load(q, v)
      /\ hs' = [hs EXCEPT ![q] = IF n = 6 THEN "wrote" ELSE "scraping"]
      /\ scan' = [scan EXCEPT ![q] = Append(l, v)]
      /\ UNCHANGED <<stage, inflight, counts>>
  BY <1>0 DEF ScrapeLoads, load, goto, connVars
<1>2. n \in 0..6 /\ l \in Seq(Nat)
  <2>1. n \in Nat /\ n < 7 /\ l \in Seq(Nat)
    BY <1>1 DEF ScansBounded, TypeOK
  <2> HIDE DEF n
  <2> QED BY <2>1
<1>3. v \in Nat /\ counts[0] \in Nat /\ counts[1] \in Nat /\ counts[2] \in Nat
      /\ counts[3] \in Nat /\ counts[4] \in Nat /\ counts[5] \in Nat /\ inflight \in Nat
  <2> HIDE DEF n
  <2>1. inflight \in Nat /\ \A c \in 0..5 : counts[c] \in Nat
    BY DEF TypeOK, Classes
  <2>2. n = 6 \/ n \in 0..5
    BY <1>2
  <2>3. v \in Nat
    BY <1>0, <2>1, <2>2
  <2> QED BY <2>1, <2>3
<1> DEFINE o == Append(l, v)
<1>4. /\ o \in Seq(Nat) /\ Len(o) = n + 1
      /\ \A i \in 1..n : o[i] = l[i]
      /\ o[n + 1] = v
  BY <1>2, <1>3, LoadValues
<1> HIDE DEF o
<1>5. /\ scan'[q] = o /\ hs'[q] = IF n = 6 THEN "wrote" ELSE "scraping"
      /\ \A p \in Requests \ {q} : scan'[p] = scan[p] /\ hs'[p] = hs[p]
  BY <1>1 DEF TypeOK, o
<1>6. entered' = entered
  BY <1>1 DEF entered
<1>7. \A i \in 1..6 : i <= n => l[i] <= counts[i - 1]
  BY DEF ScansBounded
<1>8. \A i \in 1..n : l[i] \in Nat
  BY <1>2
<1> HIDE DEF n, l
<1>9. \A i \in 1..6 : i <= n + 1 => o[i] <= counts[i - 1]
  <2> SUFFICES ASSUME NEW i \in 1..6, i <= n + 1 PROVE o[i] <= counts[i - 1]
    OBVIOUS
  <2>1. CASE i <= n
    <3>1. i \in 1..n
      BY <1>2, <2>1
    <3> QED BY <1>4, <1>7, <2>1, <3>1
  <2>2. CASE i = n + 1
    <3>1. n # 6 /\ i - 1 = n /\ o[i] = v /\ v = counts[n]
      BY <1>0, <1>2, <1>4, <2>2
    <3>2. counts[n] <= counts[n]
      BY <1>3, <3>1
    <3> QED BY <3>1, <3>2
  <2> QED BY <1>2, <2>1, <2>2
<1>10. n + 1 = 7 => sum(o) <= Cardinality(entered)
  <2> SUFFICES ASSUME n = 6 PROVE sum(o) <= Cardinality(entered)
    BY <1>2
  <2>1. /\ o[1] <= counts[0] /\ o[2] <= counts[1] /\ o[3] <= counts[2]
        /\ o[4] <= counts[3] /\ o[5] <= counts[4] /\ o[6] <= counts[5] /\ o[7] = inflight
    BY <1>0, <1>4, <1>9
  <2>2. /\ o[1] \in Nat /\ o[2] \in Nat /\ o[3] \in Nat /\ o[4] \in Nat /\ o[5] \in Nat
        /\ o[6] \in Nat /\ o[7] \in Nat
        /\ sum(o) \in Nat
    <3>1. o \in Seq(Nat) /\ Len(o) = 7
      BY <1>4
    <3> QED BY <3>1, SumType
  <2>3. counts[0] + counts[1] + counts[2] + counts[3] + counts[4] + counts[5] + inflight
          <= Cardinality(entered) /\ Cardinality(entered) \in Nat
    <3>1. entered \in SUBSET Requests
      BY DEF entered
    <3> QED BY <3>1, CountersBounded, RequestSets
  <2>4. sum(o) <= counts[0] + counts[1] + counts[2] + counts[3] + counts[4] + counts[5] + inflight
    BY <1>3, <2>1, <2>2 DEF sum
  <2> QED BY <1>3, <2>2, <2>3, <2>4
<1>11. hs'[q] = "scraping" => n + 1 < 7
  BY <1>2, <1>5
<1> SUFFICES ASSUME NEW p \in Requests
             PROVE  /\ hs'[p] = "scraping" => Len(scan'[p]) < 7
                    /\ hs'[p] \in {"none", "start", "routed"} => scan'[p] = <<>>
                    /\ \A i \in 1..6 : i <= Len(scan'[p]) => scan'[p][i] <= counts[i - 1]
                    /\ Len(scan'[p]) = 7 => sum(scan'[p]) <= Cardinality(entered)
  BY <1>1, <1>6 DEF ScansBounded, sum
<1>12. CASE p = q
  BY <1>4, <1>5, <1>9, <1>10, <1>11, <1>12
<1>13. CASE p # q
  BY <1>5, <1>13 DEF ScansBounded, sum
<1> QED
  BY <1>12, <1>13

-----------------------------------------------------------------------------
(* The invariant.                                                            *)

\* It holds before any request has come.
LEMMA InitInv == Init => IInv
<1> SUFFICES ASSUME Init PROVE IInv
  OBVIOUS
<1>1. /\ stage = [q \in Requests |-> "none"] /\ hs = [q \in Requests |-> "none"]
      /\ tw = [q \in Requests |-> <<>>] /\ wire = [q \in Requests |-> <<>>]
      /\ cut = [q \in Requests |-> FALSE] /\ committed = [q \in Requests |-> FALSE]
      /\ seen = [q \in Requests |-> 0] /\ panicked = {}
      /\ scan = [q \in Requests |-> <<>>]
      /\ inflight = 0 /\ counts = [c \in Classes |-> 0]
  BY DEF Init
<1>2. TypeOK
  <2>1. <<>> \in atMostOne(Replies) /\ <<>> \in atMostOne(Answers)
        /\ <<>> \in Seq(Nat) /\ Len(<<>>) <= 7
    BY DEF atMostOne
  <2>2. NoReport \in Reports
    BY DEF NoReport, Reports
  <2>3. /\ tw \in [Requests -> atMostOne(Replies)]
        /\ wire \in [Requests -> atMostOne(Answers)]
        /\ scan \in [Requests -> Seq(Nat)] /\ \A q \in Requests : Len(scan[q]) <= 7
    BY <1>1, <2>1
  <2>4. report \in [Requests -> Reports]
    BY <2>2 DEF Init
  <2> QED
    BY <2>3, <2>4 DEF Init, TypeOK
<1>3. \A q \in Requests : Local(q)
  BY <1>1 DEF Local, Sent, Recorded, Attended, Buffered, Tagged, Accounted, Contained
<1>4. MetricsBalanced
  <2>1. inside = {} /\ \A c \in Classes : counted(c) = {}
    BY <1>1 DEF inside, counted
  <2>2. inflight = Cardinality(inside) /\ \A c \in Classes : counts[c] = Cardinality(counted(c))
    BY <1>1, <2>1, FS_EmptySet
  <2> QED BY <2>2 DEF MetricsBalanced, inside, counted
<1>5. ScansBounded
  <2>1. \A q \in Requests : hs[q] = "none" /\ scan[q] = <<>>
    BY <1>1
  <2>2. Len(<<>>) = 0
    OBVIOUS
  <2> QED BY <2>1, <2>2 DEF ScansBounded
<1> QED
  BY <1>2, <1>3, <1>4, <1>5 DEF IInv

\* The steps of the connection goroutine.
Connects(q) ==
  \/ Enter(q) \/ CorsAnswers(q) \/ CorsPasses(q)
  \/ Finish(q) \/ Abort(q) \/ Expire(q) \/ Record(q)

\* The types and what holds of each request are kept by every step.
LEMMA LocalStep ==
  ASSUME IInv, NEW q \in Requests, Connects(q) \/ Handles(q)
  PROVE  /\ TypeOK' /\ \A p \in Requests : Local(p)'
         /\ \A p \in Requests \ {q} : Untouched(p)
<1>1. TypeOK /\ Local(q) /\ MetricsBalanced /\ ScansBounded
  BY DEF IInv
<1>2. stage[q] \in {"cors", "timed"} => inflight > 0
  BY <1>1, GaugePositive
<1>3. /\ TypeOK' /\ Local(q)' /\ \A p \in Requests \ {q} : Untouched(p)
  <2>1. CASE Enter(q)
    BY <1>1, <2>1, EnterLocal
  <2>2. CASE CorsAnswers(q)
    <3>1. inflight > 0 BY <1>2, <2>2 DEF CorsAnswers
    <3> QED BY <1>1, <2>2, <3>1, CorsAnswersLocal
  <2>3. CASE CorsPasses(q)
    <3>1. inflight > 0 BY <1>2, <2>3 DEF CorsPasses
    <3> QED BY <1>1, <2>3, <3>1, CorsPassesLocal
  <2>4. CASE Finish(q)
    <3>1. inflight > 0 BY <1>2, <2>4 DEF Finish
    <3> QED BY <1>1, <2>4, <3>1, FinishLocal
  <2>5. CASE Abort(q)
    <3>1. inflight > 0 BY <1>2, <2>5 DEF Abort
    <3> QED BY <1>1, <2>5, <3>1, AbortLocal
  <2>6. CASE Expire(q)
    <3>1. inflight > 0 BY <1>2, <2>6 DEF Expire
    <3> QED BY <1>1, <2>6, <3>1, ExpireLocal
  <2>7. CASE Record(q)
    BY <1>1, <2>7, RecordLocal
  <2>8. CASE Handles(q)
    <3>1. hs[q] = "scraping" => Len(scan[q]) < 7
      BY <1>1 DEF ScansBounded
    <3> QED BY <1>1, <2>8, <3>1, HandlerLocal
  <2> QED
    BY <2>1, <2>2, <2>3, <2>4, <2>5, <2>6, <2>7, <2>8 DEF Connects
<1>4. ASSUME NEW p \in Requests, p # q PROVE Local(p)'
  <2>1. Local(p) /\ Untouched(p)
    BY <1>3, <1>4 DEF IInv
  <2> QED BY <2>1, LocalFrame
<1> QED
  BY <1>3, <1>4

\* Every step keeps the metrics in balance, lets the counters only grow, and
\* lets no request go back to before it came.
LEMMA BalancedStep ==
  ASSUME IInv, TypeOK', NEW q \in Requests, Connects(q) \/ Handles(q)
  PROVE  /\ MetricsBalanced'
         /\ \A c \in Classes : counts[c] <= counts'[c]
         /\ entered \subseteq entered'
<1>1. /\ TypeOK /\ MetricsBalanced
      /\ stage \in [Requests -> {"none", "cors", "timed", "returned", "unwound", "done"}]
      /\ \A c \in Classes : counts[c] \in Nat
  BY DEF IInv, TypeOK
<1>2. (counts' = counts) => \A c \in Classes : counts[c] <= counts'[c]
  BY <1>1
<1>3. CASE Enter(q)
  <2>1. counts' = counts /\ entered \subseteq entered'
    BY <1>1, <1>3 DEF Enter, entered
  <2> QED BY <1>1, <1>2, <1>3, <2>1, EnterBalanced
<1>4. ASSUME stage[q] \in {"cors", "timed"}, NEW how \in {"returned", "unwound"},
             leave(q, how)
      PROVE  /\ MetricsBalanced' /\ entered \subseteq entered'
             /\ \A c \in Classes : counts[c] <= counts'[c]
  <2>1. counts' = counts /\ entered \subseteq entered'
    BY <1>1, <1>4 DEF leave, entered
  <2> QED BY <1>1, <1>2, <1>4, <2>1, LeaveBalanced
<1>5. CASE CorsAnswers(q)
  BY <1>4, <1>5 DEF CorsAnswers
<1>6. CASE CorsPasses(q)
  <2>1. /\ stage[q] = "cors" /\ stage' = [stage EXCEPT ![q] = "timed"]
        /\ UNCHANGED <<inflight, counts, report>>
    BY <1>6 DEF CorsPasses
  <2>2. entered \subseteq entered'
    BY <1>1, <2>1 DEF entered
  <2>3. /\ \A p \in Requests : stage'[p] \in {"cors", "timed"} <=> stage[p] \in {"cors", "timed"}
        /\ \A p \in Requests : stage'[p] = "done" <=> stage[p] = "done"
    BY <1>1, <2>1
  <2>4. MetricsBalanced'
    BY <1>1, <2>1, <2>3, BalancedFrame
  <2> QED BY <1>2, <2>1, <2>2, <2>4
<1>7. CASE Finish(q)
  BY <1>4, <1>7 DEF Finish
<1>8. CASE Abort(q)
  BY <1>4, <1>8 DEF Abort
<1>9. CASE Expire(q)
  BY <1>4, <1>9 DEF Expire
<1>10. CASE Record(q)
  <2>1. entered \subseteq entered'
    BY <1>1, <1>10 DEF Record, entered
  <2> QED BY <1>1, <1>10, <2>1, RecordBalanced
<1>11. CASE Handles(q)
  <2>1. UNCHANGED <<stage, inflight, counts, report>>
    BY <1>11 DEF Handles, Dispatch, Route, EndpointWrites, EndpointReturns,
                 EndpointPanics, Scrape, ScrapeLoads, connVars
  <2>2. entered \subseteq entered'
    BY <2>1 DEF entered
  <2>3. MetricsBalanced'
    BY <1>1, <2>1, BalancedFrame
  <2> QED BY <1>2, <2>1, <2>2, <2>3
<1> QED
  BY <1>3, <1>5, <1>6, <1>7, <1>8, <1>9, <1>10, <1>11 DEF Connects

\* Every step keeps the scrapes below what is there.
LEMMA ScanStep ==
  ASSUME IInv, TypeOK', NEW q \in Requests, Connects(q) \/ Handles(q),
         \A c \in Classes : counts[c] <= counts'[c], entered \subseteq entered'
  PROVE  ScansBounded'
<1>1. TypeOK /\ MetricsBalanced /\ ScansBounded
  BY DEF IInv
<1>2. CASE ScrapeLoads(q)
  BY <1>1, <1>2, LoadBounded
<1>3. CASE ~ScrapeLoads(q)
  <2>1. scan' = scan
    BY <1>3 DEF Connects, Handles, Enter, CorsAnswers, CorsPasses, Finish, Abort, Expire,
       Record, Dispatch, Route, EndpointWrites, EndpointReturns, EndpointPanics, Scrape,
       handlerVars
  <2>2. ASSUME NEW p \in Requests
        PROVE  /\ hs'[p] = "scraping" => hs[p] \in {"scraping", "routed"}
               /\ hs'[p] \in {"none", "start", "routed"} => hs[p] \in {"none", "start", "routed"}
    <3> HIDE <1>3
    <3>0. hs \in [Requests -> {"none", "start", "routed", "scraping", "wrote", "ended",
                               "aborted"}]
      BY <1>1 DEF TypeOK
    <3>1. CASE hs' = hs
      BY <3>0, <3>1
    <3>2. CASE CorsPasses(q)
      <4>1. stage[q] = "cors" /\ hs' = [hs EXCEPT ![q] = "start"]
        BY <3>2 DEF CorsPasses
      <4>2. hs[q] = "none"
        BY <4>1 DEF IInv, Local, Attended
      <4> QED BY <3>0, <4>1, <4>2
    <3>3. CASE \E s \in {"wrote", "ended", "aborted"} : goto(q, s)
      BY <3>0, <3>3 DEF goto
    <3>4. CASE hs[q] = "start" /\ goto(q, "routed")
      BY <3>0, <3>4 DEF goto
    <3>5. CASE hs[q] = "routed" /\ goto(q, "scraping")
      BY <3>0, <3>5 DEF goto
    <3>6. CASE Connects(q)
      <4>1. hs' = hs \/ CorsPasses(q)
        BY <3>6 DEF Connects, Enter, CorsAnswers, Finish, Abort, Expire, Record, handlerVars
      <4> QED BY <3>1, <3>2, <4>1
    <3>7. CASE Handles(q)
      <4>1. CASE Dispatch(q)
        BY <3>3, <3>4, <4>1 DEF Dispatch
      <4>2. CASE Route(q)
        BY <3>3, <4>2 DEF Route
      <4>3. CASE EndpointWrites(q)
        BY <3>3, <4>3 DEF EndpointWrites
      <4>4. CASE EndpointReturns(q)
        BY <3>3, <4>4 DEF EndpointReturns
      <4>5. CASE EndpointPanics(q)
        BY <3>3, <4>5 DEF EndpointPanics
      <4>6. CASE Scrape(q)
        BY <3>3, <3>5, <4>6 DEF Scrape, at
      <4> QED BY <1>3, <3>7, <4>1, <4>2, <4>3, <4>4, <4>5, <4>6 DEF Handles
    <3> QED BY <3>6, <3>7
  <2>3. /\ \A p \in Requests : hs'[p] = "scraping" => Len(scan[p]) < 7
        /\ \A p \in Requests : hs'[p] \in {"none", "start", "routed"} => scan[p] = <<>>
    <3>1. Len(<<>>) = 0
      OBVIOUS
    <3>2. \A p \in Requests : hs[p] \in {"none", "start", "routed"} => scan[p] = <<>>
      BY <1>1 DEF ScansBounded
    <3>3. \A p \in Requests : hs[p] \in {"scraping", "routed"} => Len(scan[p]) < 7
      BY <1>1, <3>1, <3>2 DEF ScansBounded
    <3> QED BY <2>2, <3>2, <3>3
  <2> QED
    BY <1>1, <2>1, <2>3, ScanFrame
<1> QED
  BY <1>2, <1>3

\* Nothing changes the invariant but the steps, and they keep it.
LEMMA NextInv == IInv /\ [Next]_vars => IInv'
<1> SUFFICES ASSUME IInv, [Next]_vars PROVE IInv'
  OBVIOUS
<1>1. ASSUME NEW q \in Requests, Connects(q) \/ Handles(q) PROVE IInv'
  <2>1. TypeOK' /\ \A p \in Requests : Local(p)'
    BY <1>1, LocalStep
  <2>2. /\ MetricsBalanced' /\ entered \subseteq entered'
        /\ \A c \in Classes : counts[c] <= counts'[c]
    BY <1>1, <2>1, BalancedStep
  <2>3. ScansBounded'
    BY <1>1, <2>1, <2>2, ScanStep
  <2> QED BY <2>1, <2>2, <2>3 DEF IInv
<1>2. CASE UNCHANGED vars
  <2>1. UNCHANGED <<kind, stage, hs, tw, cut, committed, hdr, wire, seen, report, inflight,
                    counts, scan, panicked>>
    BY <1>2 DEF vars, connVars, handlerVars
  <2>2. TypeOK'
    BY <2>1 DEF IInv, TypeOK
  <2>3. ASSUME NEW p \in Requests PROVE Local(p)'
    <3>1. Local(p) /\ Untouched(p)
      BY <2>1 DEF IInv, Untouched
    <3> QED BY <3>1, LocalFrame
  <2>4. MetricsBalanced'
    BY <2>1 DEF IInv, MetricsBalanced
  <2>5. ScansBounded'
    BY <2>1 DEF IInv, ScansBounded, entered
  <2> QED BY <2>2, <2>3, <2>4, <2>5 DEF IInv
<1> QED
  BY <1>1, <1>2 DEF Next, Connects, Handles

\* The invariant holds always.
THEOREM Invariant == Spec => []IInv
  BY InitInv, NextInv, PTL DEF Spec

-----------------------------------------------------------------------------
(* The theorems.                                                             *)

\* The state of every request, of the connections, the buffers and the metrics
\* has its type: in particular no counter and no gauge ever falls below zero.
THEOREM TypeCorrect == Spec => []TypeOK
  BY Invariant, PTL DEF IInv

\* The trace, the access log and the metrics agree with the wire.
THEOREM ObserversAgreeAlways == Spec => []ObserversAgree
<1>1. IInv => ObserversAgree
  <2> SUFFICES ASSUME IInv, NEW q \in Requests, stage[q] = "done"
               PROVE  \/ /\ Len(wire[q]) = 1
                         /\ report[q] = [trace |-> wire[q][1].status,
                                         access |-> wire[q][1].status,
                                         metric |-> wire[q][1].status,
                                         failed |-> wire[q][1].status >= 500]
                      \/ /\ wire[q] = <<>>
                         /\ report[q].failed /\ report[q].metric = 500
    BY DEF ObserversAgree
  <2>1. wire[q] # <<>> => Len(wire[q]) = 1
    BY One DEF IInv, TypeOK
  <2> QED
    BY <2>1 DEF IInv, Local, Recorded
<1> QED
  BY <1>1, Invariant, PTL

\* The gauge is the number of requests inside, and the counters add up.
THEOREM MetricsBalancedAlways == Spec => []MetricsBalanced
  BY Invariant, PTL DEF IInv

\* Every answer carries its request ID, and what an allowed browser needs.
THEOREM AnswersTaggedAlways == Spec => []AnswersTagged
<1>1. IInv => AnswersTagged
  BY DEF IInv, Local, Tagged, AnswersTagged
<1> QED
  BY <1>1, Invariant, PTL

\* A panic of the endpoint never shows as a success.
THEOREM PanicContainedAlways == Spec => []PanicContained
<1>1. IInv => PanicContained
  BY DEF IInv, TypeOK, Local, Contained, PanicContained
<1> QED
  BY <1>1, Invariant, PTL

\* A scrape never counts a request twice.
THEOREM ScrapeCountsOnceAlways == Spec => []ScrapeCountsOnce
<1>1. IInv => ScrapeCountsOnce
  BY DEF IInv, ScansBounded, ScrapeCountsOnce, entered
<1> QED
  BY <1>1, Invariant, PTL

\* Where the answer to a call that is no scrape comes from.
LEMMA AnswerOf ==
  ASSUME IInv, NEW q \in Requests, NEW op, op # "metrics", calls(q, op)
  PROVE  /\ kind[q].call \in Calls /\ kind[q].call.op = op
         /\ \/ wire[q][1].status \in {429, 503}
            \/ wire[q][1].status = 500 /\ q \in panicked
            \/ wire[q][1].status = Adapt(kind[q].call).status
<1>1. /\ wire[q] # <<>> /\ hs[q] # "none" /\ kind[q].path = "endpoint"
      /\ kind[q].call.op = op /\ ~isScrape(q)
  BY DEF calls, isScrape
<1>2. Explained(q, wire[q][1].status, wire[q][1].extra)
  BY <1>1 DEF IInv, Local, Accounted
<1>3. kind[q].call \in Calls
  BY KindType DEF IInv
<1> QED
  BY <1>1, <1>2, <1>3 DEF Explained

\* A protected route fails closed, and blames only whom an authority blamed.
THEOREM ProtectedFailsClosedAlways == Spec => []ProtectedFailsClosed
<1>1. IInv => ProtectedFailsClosed
  <2> SUFFICES ASSUME IInv, NEW q \in Requests, calls(q, "protected")
               PROVE  LET c == kind[q].call
                          s == wire[q][1].status
                      IN
                        /\ s < 300 => /\ c.wired /\ c.header = "bearer" /\ c.subject # ""
                                      /\ c.authn = <<>> /\ c.authz = <<>>
                        /\ s = 401 => c.wired /\ (c.header = "bearer" =>
                                                   CodeOf(c.authn) = "UNAUTHORIZED")
                        /\ s = 403 => c.wired /\ c.authn = <<>> /\ CodeOf(c.authz) = "FORBIDDEN"
    BY DEF ProtectedFailsClosed
  <2> DEFINE c == kind[q].call
             s == wire[q][1].status
  <2> SUFFICES /\ s < 300 => admitted(c)
               /\ s = 401 => unknown(c)
               /\ s = 403 => forbids(c)
    BY DEF admitted, unknown, forbids
  <2>1. /\ c \in Calls /\ c.op = "protected"
        /\ s \in {429, 503, 500} \/ s = Adapt(c).status
    BY AnswerOf
  <2>2. c.wired \in BOOLEAN
    BY <2>1 DEF Calls
  <2>3. Adapt(c) = Protected(c)
    BY <2>1 DEF Adapt
  <2> HIDE DEF c, s
  <2>4. \/ Protected(c).status = 500
        \/ Protected(c).status = 401 /\ unknown(c)
        \/ Protected(c).status = 403 /\ forbids(c)
        \/ Protected(c).status = 200 /\ admitted(c)
    BY <2>2, ProtectedVerdict DEF Says
  <2> QED
    BY <2>1, <2>3, <2>4
<1> QED
  BY <1>1, Invariant, PTL

\* Field violations reach a client only in the answer to its invalid input.
THEOREM DetailsOnlyForInputAlways == Spec => []DetailsOnlyForInput
<1>1. IInv => DetailsOnlyForInput
  <2> SUFFICES ASSUME IInv, NEW q \in Requests, wire[q] # <<>>, wire[q][1].extra = "details"
               PROVE  wire[q][1].status = 400 /\ CodeOf(kind[q].call.err) = "INVALID_INPUT"
    BY DEF DetailsOnlyForInput
  <2>1. Explained(q, wire[q][1].status, wire[q][1].extra)
    BY DEF IInv, Local, Accounted
  <2>2. /\ kind[q].path = "endpoint" /\ ~isScrape(q)
        /\ wire[q][1].status = Adapt(kind[q].call).status
        /\ Adapt(kind[q].call).extra = "details"
    BY <2>1 DEF Explained
  <2>3. kind[q].call \in Calls /\ kind[q].call.op \notin {"metrics", "none"}
    BY <2>2, KindType DEF IInv, isScrape
  <2> QED
    BY <2>2, <2>3, AdaptDetails
<1> QED
  BY <1>1, Invariant, PTL

\* A body is accepted only if it is usable, and refused only if it is not.
THEOREM BodiesJudgedAlways == Spec => []BodiesJudged
<1>1. ASSUME IInv, NEW q \in Requests, calls(q, "decode")
      PROVE  /\ wire[q][1].status = 201 => usable(kind[q].call) /\ kind[q].call.dst
             /\ wire[q][1].status \in {400, 415} => ~usable(kind[q].call)
             /\ wire[q][1].status = 413 => Len(kind[q].call.body) > MaxBytes
             /\ wire[q][1].status = 500 =>
                  ~kind[q].call.dst \/ MaxBytes = 0 \/ q \in panicked
  <2> DEFINE c == kind[q].call
             s == wire[q][1].status
  <2>1. /\ c \in Calls /\ c.op = "decode"
        /\ s \in {429, 503} \/ (s = 500 /\ q \in panicked) \/ s = Adapt(c).status
    BY <1>1, AnswerOf
  <2>2. /\ c.body \in Seq(Tokens) /\ c.json \in BOOLEAN /\ c.chunked \in BOOLEAN
        /\ c.dst \in BOOLEAN
    BY <2>1 DEF Calls
  <2> SUFFICES /\ s = 201 => usable(c) /\ c.dst
               /\ s \in {400, 415} => ~usable(c)
               /\ s = 413 => Len(c.body) > MaxBytes
               /\ s = 500 => ~c.dst \/ MaxBytes = 0 \/ q \in panicked
    OBVIOUS
  <2> HIDE DEF c, s
  <2>3. CASE s \in {429, 503} \/ (s = 500 /\ q \in panicked)
    BY <2>3
  <2>4. CASE s = Adapt(c).status
    <3>1. /\ s = 201 => DecodeJSON(c) = <<>>
          /\ s = 400 => DecodeJSON(c) = <<"INVALID_REQUEST">>
          /\ s = 413 => DecodeJSON(c) = <<"REQUEST_TOO_LARGE">>
          /\ s = 415 => DecodeJSON(c) = <<"UNSUPPORTED_MEDIA_TYPE">>
          /\ s = 500 => DecodeJSON(c) = <<"plain">>
      BY <2>1, <2>4, DecodeAnswers
    <3> QED BY <2>2, <3>1, DecodeVerdict
  <2> QED
    BY <2>1, <2>3, <2>4
<1>2. IInv => BodiesJudged
  BY <1>1 DEF BodiesJudged, usable
<1> QED
  BY <1>2, Invariant, PTL

\* A page is written exactly if it can be the page it says it is.
THEOREM PagesSoundAlways == Spec => []PagesSound
<1>1. ASSUME IInv, NEW q \in Requests, calls(q, "paginated")
      PROVE  /\ wire[q][1].status = 200 =>
                  kind[q].call.count <= roomOf(kind[q].call) /\ kind[q].call.encodable
             /\ wire[q][1].status = 500 =>
                  \/ kind[q].call.count > roomOf(kind[q].call)
                  \/ ~kind[q].call.encodable \/ q \in panicked
  <2>0. PICK c, s : c = kind[q].call /\ s = wire[q][1].status
    OBVIOUS
  <2> SUFFICES /\ s = 200 => c.count <= roomOf(c) /\ c.encodable
               /\ s = 500 => c.count > roomOf(c) \/ ~c.encodable \/ q \in panicked
    BY <2>0
  <2>1. /\ c \in Calls /\ c.op = "paginated"
        /\ s \in {429, 503} \/ (s = 500 /\ q \in panicked) \/ s = Adapt(c).status
    BY <1>1, <2>0, AnswerOf
  <2>2. Adapt(c) = Paginated(c)
    BY <2>1 DEF Adapt
  <2>3. CASE s \in {429, 503}
    BY <2>3
  <2>4. CASE s = 500 /\ q \in panicked
    BY <2>4
  <2>5. CASE s = Paginated(c).status
    BY <2>1, <2>5, PaginatedVerdict DEF Says
  <2> QED
    BY <2>1, <2>2, <2>3, <2>4, <2>5
<1>2. IInv => PagesSound
  BY <1>1, ZenonT(40) DEF PagesSound, roomOf
<1> QED
  BY <1>2, Invariant, PTL

\* What a request left on the wire and in the records stays, whatever its late
\* handler does.
THEOREM LateHandlerHarmlessAlways == Spec => LateHandlerHarmless
<1> DEFINE Kept == \A q \in Requests : stage[q] = "done" =>
                     wire'[q] = wire[q] /\ report'[q] = report[q]
<1>1. IInv /\ [Next]_vars => [Kept]_vars
  <2> SUFFICES ASSUME IInv, Next, NEW p \in Requests, stage[p] = "done"
               PROVE  wire'[p] = wire[p] /\ report'[p] = report[p]
    OBVIOUS
  <2>1. PICK q \in Requests : Connects(q) \/ Handles(q)
    BY DEF Next, Connects, Handles
  <2>2. CASE p # q
    BY <2>1, <2>2, LocalStep DEF Untouched
  <2>3. CASE p = q
    <3>1. Handles(q)
      BY <2>1, <2>3 DEF Connects, Enter, CorsAnswers, CorsPasses, Finish, Abort, Expire, Record
    <3>2. UNCHANGED <<wire, report>>
      BY <3>1 DEF Handles, Dispatch, Route, EndpointWrites, EndpointReturns,
                  EndpointPanics, Scrape, ScrapeLoads, connVars
    <3> QED BY <3>2
  <2> QED BY <2>2, <2>3
<1> QED
  BY <1>1, Invariant, PTL DEF Spec, LateHandlerHarmless
=============================================================================
