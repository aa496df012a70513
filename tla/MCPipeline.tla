----------------------------- MODULE MCPipeline -----------------------------
(***************************************************************************)
(* Pipeline for TLC: pairs of requests of each sort that the layers tell     *)
(* apart, and one call of each sort that the helpers of the endpoints tell   *)
(* apart beside a preflight.                                                 *)
(***************************************************************************)
EXTENDS Pipeline

request(m, p, o, f, c) ==
  [method |-> m, path |-> p, origin |-> o, preflight |-> f, call |-> c]
Live == [op |-> "live"]
NoCall == [op |-> "none"]
Preflight == request("OPTIONS", "missing", "allowed", "refused", NoCall)

Plain ==
  {request("GET", "endpoint", "none", "none", [op |-> "metrics"]),
   request("HEAD", "endpoint", "none", "none", [op |-> "metrics"]),
   request("HEAD", "endpoint", "none", "none", Live),
   request("GET", "endpoint", "allowed", "none", Live),
   request("GET", "endpoint", "unknown", "none", Live),
   request("OPTIONS", "missing", "allowed", "granted", NoCall),
   request("GET", "redirect", "none", "none", NoCall),
   request("HEAD", "missing", "allowed", "none", NoCall), Preflight}

Nodes == {"plain", "validation", "typedNil", "INTERNAL_ERROR", "UNAUTHORIZED",
          "PROVIDER_UNAVAILABLE", "SOME_NEW_CODE"}
Errors == {<<n>> : n \in Nodes} \cup (Nodes \X Nodes)
Verdicts == {<<>>, <<"plain">>, <<"plain", "FORBIDDEN">>, <<"UNAUTHORIZED">>,
             <<"plain", "UNAUTHORIZED">>, <<"INTERNAL_ERROR", "UNAUTHORIZED">>}
Gates == {<<FALSE, "bearer">>} \cup {<<TRUE, h>> : h \in {"none", "two", "basic", "bearer"}}

MCCalls ==
  {[op |-> "ready", probe |-> p] : p \in {"nil", "fails", "ok"}}
  \cup {[op |-> "success", status |-> s, encodable |-> e] : s \in {201, 204, 302}, e \in BOOLEAN}
  \cup {[op |-> "noContent"]}
  \cup {[op |-> "return", err |-> e] : e \in Errors}
  \cup {[op |-> "protected", wired |-> g[1], header |-> g[2], authn |-> n, subject |-> s,
          authz |-> z] :
          g \in Gates, n \in Verdicts, s \in {"", "someone"}, z \in Verdicts}
  \cup {[op |-> "decode", json |-> TRUE, chunked |-> k, body |-> b, dst |-> TRUE] :
          k \in BOOLEAN, b \in UNION {[1..n -> Tokens] : n \in 0..3}}
  \cup {[op |-> "decode", json |-> TRUE, chunked |-> TRUE, body |-> b, dst |-> FALSE] :
          b \in {<<"value">>, <<"unknown">>, <<"null">>, <<"value", "value">>}}
  \cup {[op |-> "decode", json |-> FALSE, chunked |-> FALSE, body |-> <<"value">>,
          dst |-> TRUE]}
  \cup {[op |-> "paginated", page |-> p, limit |-> l, total |-> t, count |-> c,
          encodable |-> TRUE] :
          p \in 0..3, l \in {0, 2, 3}, t \in {-1, 0, 3, 7}, c \in 0..3}
  \cup {[op |-> "paginated", page |-> 2, limit |-> 2, total |-> 3, count |-> c,
          encodable |-> FALSE] : c \in 1..2}

First == CHOOSE q \in Requests : TRUE

MCWorkloads ==
  [Requests -> Plain] \cup
  {[q \in Requests |-> IF q = First
                       THEN request(IF c.op = "ready" THEN "GET" ELSE "POST",
                                    "endpoint", "none", "none", c)
                       ELSE Preflight] : c \in MCCalls}
=============================================================================
