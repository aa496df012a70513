------------------------------ MODULE Endpoint ------------------------------
(***************************************************************************)
(* What an endpoint of the API answers: the transport helpers its handlers   *)
(* are written with (internal/platform/httpserver: request.go, auth.go,      *)
(* pagination.go, response.go, error.go), the classification of errors       *)
(* (internal/platform/apperror) and the health routes                        *)
(* (internal/bootstrap/health.go).                                           *)
(*                                                                           *)
(* A call is a record: its op, and what the request and the endpoint's       *)
(* dependencies give it.  An error is the sequence of the nodes errors.As    *)
(* visits: wrappers before what they wrap, the branches of errors.Join one   *)
(* after the other; <<>> is nil.  A body is a sequence of tokens, each one   *)
(* unit of length: "value", "null", "unknown" (a value with an unknown       *)
(* field), "broken" and "space".                                             *)
(***************************************************************************)
EXTENDS Integers, SequencesExt

CONSTANTS
  MaxBytes, \* DecodeJSON's limit, in tokens
  MaxInt    \* the largest int64

ASSUME EndpointAssumption == MaxBytes \in Nat /\ MaxInt \in Nat \ {0}

int64 == -(MaxInt + 1)..MaxInt
Tokens == {"value", "null", "unknown", "broken", "space"}

\* The calls, by op.  A handler's own status and page are whatever it makes them.
Calls ==
  [op : {"live", "metrics", "noContent", "none"}]
  \cup [op : {"ready"}, probe : {"nil", "fails", "ok"}]
  \cup [op : {"return"}, err : Seq(STRING) \ {<<>>}]
  \cup [op : {"success"}, status : Int, encodable : BOOLEAN]
  \cup [op : {"protected"}, wired : BOOLEAN, header : STRING,
        authn : Seq(STRING), subject : STRING, authz : Seq(STRING)]
  \cup [op : {"decode"}, json : BOOLEAN, chunked : BOOLEAN, body : Seq(Tokens),
        dst : BOOLEAN] \* the destination is a non-nil pointer
  \cup [op : {"paginated"}, page : int64, limit : int64, total : int64,
        count : 0..MaxInt, encodable : BOOLEAN]

-----------------------------------------------------------------------------
(* Errors.                                                                   *)

\* Does the node have the method ErrorCode?
classified(node) == node # "plain"

\* A nil *AppError or *ValidationError is classified, too.
ErrorCode(node) ==
  CASE node = "validation" -> "INVALID_INPUT"
    [] node = "typedNil"   -> "INTERNAL_ERROR"
    [] OTHER               -> node

\* The outermost classification, and its code.
outermost(err) == SelectInSeq(err, classified)
CodeOf(err) ==
  IF err = <<>> THEN ""
  ELSE IF outermost(err) = 0 THEN "INTERNAL_ERROR" ELSE ErrorCode(err[outermost(err)])

statuses ==
  [INVALID_INPUT |-> 400, UNAUTHORIZED |-> 401, FORBIDDEN |-> 403,
   INVALID_REQUEST |-> 400, REQUEST_TOO_LARGE |-> 413,
   UNSUPPORTED_MEDIA_TYPE |-> 415, ADDRESS_NOT_FOUND |-> 404,
   INVALID_ADDRESS |-> 400, INVALID_COORDINATES |-> 400,
   PROVIDER_UNAVAILABLE |-> 503, RATE_LIMIT_EXCEEDED |-> 429]

classify(err) ==
  IF CodeOf(err) \in DOMAIN statuses THEN statuses[CodeOf(err)] ELSE 500

\* An answer: its status, its Content-Type, whether it comes from writeJSON,
\* and what else it tells the client.
answer(s, t, w, e) == [status |-> s, type |-> t, viaJSON |-> w, extra |-> e]

\* Mutant: the details of any validation error inside.
detailsAnywhere(err) == IF Contains(err, "validation") THEN "details" ELSE "none"

\* The field violations of the outermost classification.
details(err) ==
  IF outermost(err) # 0 /\ err[outermost(err)] = "validation" THEN "details" ELSE "none"

WriteError(err) == answer(classify(err), "json", FALSE, details(err))

-----------------------------------------------------------------------------
(* Successes.                                                                *)

\* writeJSON encodes before it writes: what cannot be encoded, or must not have
\* a body, becomes an error instead.
writeJSON(status, encodable) ==
  IF status \notin 200..599 \ {204, 205, 304} \/ ~encodable
  THEN WriteError(<<"plain">>) ELSE answer(status, "json", TRUE, "none")

Success(status, encodable) ==
  IF status \in 200..299 THEN writeJSON(status, encodable) ELSE WriteError(<<"plain">>)

NoContent == answer(204, "none", FALSE, "none")

-----------------------------------------------------------------------------
(* Protected routes.                                                         *)

challenge(kind) == [WriteError(<<"UNAUTHORIZED">>) EXCEPT !.extra = kind]

\* Mutant: every error of the authenticator is the client's fault.
ProtectedBlaming(c) ==
  IF ~c.wired THEN WriteError(<<"INTERNAL_ERROR">>)
  ELSE IF c.header # "bearer" THEN challenge("challenge")
  ELSE IF c.authn # <<>> THEN challenge("invalid_token")
  ELSE IF c.subject = "" THEN WriteError(<<"INTERNAL_ERROR">>)
  ELSE IF c.authz # <<>>
       THEN WriteError(<<IF CodeOf(c.authz) = "FORBIDDEN" THEN "FORBIDDEN"
                         ELSE "INTERNAL_ERROR">>)
  ELSE Success(200, TRUE)

\* Wiring, one Bearer credential, authentication, a subject, authorization;
\* then the handler.  Only the authorities' own verdicts are the client's.
Protected(c) ==
  IF ~c.wired THEN WriteError(<<"INTERNAL_ERROR">>)
  ELSE IF c.header # "bearer" THEN challenge("challenge")
  ELSE IF c.authn # <<>>
       THEN IF CodeOf(c.authn) = "UNAUTHORIZED" THEN challenge("invalid_token")
            ELSE WriteError(<<"INTERNAL_ERROR">>)
  ELSE IF c.subject = "" THEN WriteError(<<"INTERNAL_ERROR">>)
  ELSE IF c.authz # <<>>
       THEN WriteError(<<IF CodeOf(c.authz) = "FORBIDDEN" THEN "FORBIDDEN"
                         ELSE "INTERNAL_ERROR">>)
  ELSE Success(200, TRUE)

-----------------------------------------------------------------------------
(* Request bodies.                                                           *)

\* Mutant: a body without a Content-Length is not limited.
readableDeclared(c) ==
  IF c.chunked THEN c.body ELSE SubSeq(c.body, 1, Min({MaxBytes, Len(c.body)}))

\* http.MaxBytesReader: what the decoder gets before the reader's error.
readable(c) == SubSeq(c.body, 1, Min({MaxBytes, Len(c.body)}))

\* One value, then the end of the body, then the checks on the value.  What is
\* wrong with the destination is an error without a code.
decodeError(c) ==
  LET got == {i \in DOMAIN readable(c) : readable(c)[i] # "space"}
      first == readable(c)[Min(got)]
      cut == readable(c) # c.body
  IN  IF got = {} THEN IF cut THEN "REQUEST_TOO_LARGE" ELSE "INVALID_REQUEST"
      ELSE IF first = "broken" \/ got # {Min(got)} THEN "INVALID_REQUEST"
      ELSE IF cut THEN "REQUEST_TOO_LARGE"
      ELSE IF first = "null" THEN "INVALID_REQUEST"
      ELSE IF ~c.dst THEN "plain"
      ELSE IF first = "value" THEN "none" ELSE "INVALID_REQUEST"

DecodeJSON(c) ==
  IF MaxBytes <= 0 THEN <<"plain">>
  ELSE IF ~c.json THEN <<"UNSUPPORTED_MEDIA_TYPE">>
  ELSE IF ~c.chunked /\ Len(c.body) > MaxBytes THEN <<"REQUEST_TOO_LARGE">>
  ELSE IF decodeError(c) = "none" THEN <<>> ELSE <<decodeError(c)>>

-----------------------------------------------------------------------------
(* Pages.                                                                    *)

\* int64 arithmetic wraps around.
wrap(n) == ((n + MaxInt + 1) % (2 * MaxInt + 2)) - (MaxInt + 1)

\* Mutant: the usual rounding up, which overflows.
pagesRounded(total, limit) == wrap(total + limit - 1) \div limit

pages(total, limit) == total \div limit + (IF total % limit # 0 THEN 1 ELSE 0)

Paginated(c) ==
  IF c.page < 1 \/ c.limit < 1 \/ c.total < 0 THEN WriteError(<<"plain">>)
  ELSE LET last == pages(c.total, c.limit) IN
    IF \/ c.count > c.limit \/ c.count > c.total
       \/ c.page > last /\ c.count # 0
       \/ /\ c.page = last /\ c.total % c.limit # 0
          /\ c.count > c.total % c.limit
    THEN WriteError(<<"plain">>) ELSE writeJSON(200, c.encodable)

-----------------------------------------------------------------------------
(* The handlers: those of the health routes, and one for each helper.        *)

health(c) ==
  IF c.op = "ready" /\ c.probe # "ok" THEN WriteError(<<"PROVIDER_UNAVAILABLE">>)
  ELSE Success(200, TRUE)

\* Adapt: an error that the handler returns is written for it.
Adapt(c) ==
  CASE c.op \in {"live", "ready"} -> health(c)
    [] c.op = "return"    -> WriteError(c.err)
    [] c.op = "success"   -> Success(c.status, c.encodable)
    [] c.op = "noContent" -> NoContent
    [] c.op = "protected" -> Protected(c)
    [] c.op = "paginated" -> Paginated(c)
    [] c.op = "decode"    -> IF DecodeJSON(c) = <<>> THEN Success(201, TRUE)
                             ELSE WriteError(DecodeJSON(c))

=============================================================================
