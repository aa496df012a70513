--------------------------- MODULE Configuration ---------------------------
(***************************************************************************)
(* What a process makes of its environment variables                        *)
(* (internal/platform/config: config.go, database.go, pool.go), and the      *)
(* components that check the same limits again when they are built           *)
(* (internal/platform/httpserver: server.go, stack.go, ratelimit.go, cors.go; *)
(* internal/platform/database/pool.go).                                      *)
(*                                                                           *)
(* A value is a text, "" if the variable is not set.  What the standard      *)
(* library parses is given by constants: a text outside their domain does    *)
(* not parse.  Errors name the variable and nothing else.                    *)
(***************************************************************************)
EXTENDS Integers, SequencesExt

CONSTANTS
  Durations, \* time.ParseDuration: texts to half milliseconds
  Numbers,   \* strconv.Atoi: texts to integers
  Int32s,    \* strconv.ParseInt with 32 bits: texts to integers
  Levels,    \* strings.ToLower and the names of the levels: texts to levels
  Lists,     \* strings.Split and TrimSpace: texts to the sets of what they list
  URLs,      \* url.Parse: texts to records of what validURL and CORS look at
  Addresses, \* the texts host:port with a valid port
  Ports,     \* the valid ports
  Hosts      \* the valid values of a split HOST

Runtimes == {"", "api", "indexer", "worker"}
usesHTTP(r) == r \in {"", "api"}
usesSearch(r) == r # "worker"
usesOutbox(r) == r \in {"", "indexer"}

\* The settings of a connection: a URL, or its parts.
runtimeDB ==
  [url |-> "DATABASE_URL", host |-> "DATABASE_HOST", port |-> "DATABASE_PORT",
   name |-> "DATABASE_NAME", user |-> "DATABASE_USER",
   password |-> "DATABASE_PASSWORD", sslmode |-> "DATABASE_SSLMODE"]
migrationDB ==
  [url |-> "MIGRATION_DATABASE_URL", host |-> "MIGRATION_DATABASE_HOST",
   port |-> "MIGRATION_DATABASE_PORT", name |-> "MIGRATION_DATABASE_NAME",
   user |-> "MIGRATION_DATABASE_USER", password |-> "MIGRATION_DATABASE_PASSWORD",
   sslmode |-> "MIGRATION_DATABASE_SSLMODE"]
databaseKeys(db) == {db.url, db.host, db.port, db.name, db.user, db.password, db.sslmode}
poolTimeouts ==
  <<"DATABASE_CONNECT_TIMEOUT", "DATABASE_PROBE_TIMEOUT", "DATABASE_MAX_CONN_LIFETIME",
    "DATABASE_MAX_CONN_IDLE_TIME", "DATABASE_STATEMENT_TIMEOUT">>
httpTimeouts ==
  <<"HTTP_REQUEST_TIMEOUT", "HTTP_READ_HEADER_TIMEOUT", "HTTP_READ_TIMEOUT",
    "HTTP_WRITE_TIMEOUT", "HTTP_IDLE_TIMEOUT">>

CommonKeys ==
  {"APP_ENV", "LOG_LEVEL", "SHUTDOWN_TIMEOUT", "OTEL_EXPORTER_OTLP_ENDPOINT",
   "DATABASE_MAX_CONNS", "DATABASE_MIN_CONNS"}
  \cup ToSet(poolTimeouts) \cup databaseKeys(runtimeDB)
HTTPKeys ==
  {"HTTP_CORS_ORIGINS", "HTTP_RATE_PER_SECOND", "HTTP_RATE_BURST",
   "HTTP_MAX_HEADER_BYTES", "HTTP_ADDRESS", "HTTP_PORT"} \cup ToSet(httpTimeouts)
SearchKeys == {"ELASTICSEARCH_URL", "SEARCH_URL"}
OutboxKeys == {"OUTBOX_POLL_INTERVAL"}
Keys == CommonKeys \cup HTTPKeys \cup SearchKeys \cup OutboxKeys
          \cup databaseKeys(migrationDB)

-----------------------------------------------------------------------------
(* Parsing.                                                                  *)

value(e, key, fallback) == IF e[key] # "" THEN e[key] ELSE fallback

\* Of a text that does not parse, or is not positive, 0.
parsed(e, key, fallback) ==
  IF value(e, key, fallback) \in DOMAIN Durations
  THEN Durations[value(e, key, fallback)] ELSE 0
number(e, key, fallback) ==
  IF value(e, key, fallback) \in DOMAIN Numbers THEN Numbers[value(e, key, fallback)] ELSE -1
int32(e, key, fallback) ==
  IF value(e, key, fallback) \in DOMAIN Int32s THEN Int32s[value(e, key, fallback)] ELSE -1

defaultTimeout(key) ==
  CASE key \in {"DATABASE_PROBE_TIMEOUT", "OUTBOX_POLL_INTERVAL"} -> "1s"
    [] key \in {"DATABASE_CONNECT_TIMEOUT", "DATABASE_STATEMENT_TIMEOUT",
                "HTTP_READ_HEADER_TIMEOUT"} -> "5s"
    [] key = "HTTP_REQUEST_TIMEOUT" -> "8s"
    [] key \in {"HTTP_READ_TIMEOUT", "SHUTDOWN_TIMEOUT"} -> "10s"
    [] key = "HTTP_WRITE_TIMEOUT" -> "15s"
    [] key = "DATABASE_MAX_CONN_IDLE_TIME" -> "5m"
    [] key = "DATABASE_MAX_CONN_LIFETIME" -> "30m"
    [] OTHER -> "1m"
duration(e, key) == parsed(e, key, defaultTimeout(key))

validURL(raw, schemes) ==
  /\ raw \in DOMAIN URLs
  /\ LET u == URLs[raw] IN
       u.hostname /\ ~u.fragment /\ u.port # "invalid" /\ u.scheme \in schemes

environment(e) == value(e, "APP_ENV", "development")
isLocal(e) == environment(e) \in {"development", "test"}
search(e) ==
  value(e, "ELASTICSEARCH_URL",
        value(e, "SEARCH_URL", IF isLocal(e) THEN "http://localhost:9200" ELSE ""))
level(e) ==
  IF e["LOG_LEVEL"] # "" THEN Levels[e["LOG_LEVEL"]]
  ELSE IF environment(e) = "development" THEN "debug" ELSE "info"

\* The origins: the parts of a list that are not empty.
listed(text) == (IF text \in DOMAIN Lists THEN Lists[text] ELSE {text}) \ {""}
origins(e) ==
  listed(value(e, "HTTP_CORS_ORIGINS", IF isLocal(e) THEN "http://localhost:3000" ELSE ""))

\* A check that is made or not: the variable its error names, "" for no error.
check(key, used, good) == IF used /\ ~good THEN key ELSE ""

\* The first error of a sequence of checks, "" if there is none.
firstError(checks) ==
  LET failing == {i \in DOMAIN checks : checks[i] # ""}
  IN IF failing = {} THEN "" ELSE checks[Min(failing)]

-----------------------------------------------------------------------------
(* Databases.                                                                *)

\* The split settings are looked at if there is no URL and one of them is set.
isSplit(e, db) == e[db.url] = "" /\ \E k \in databaseKeys(db) : e[k] # ""

given(e, db, key) == check(key, isSplit(e, db), e[key] \notin {"", " "})

connectionChecks(e, db) ==
  <<given(e, db, db.host), given(e, db, db.name), given(e, db, db.user),
    check(db.host, isSplit(e, db), e[db.host] \in Hosts),
    check(db.port, isSplit(e, db), value(e, db.port, "5432") \in Ports),
    check(db.sslmode, isSplit(e, db),
          value(e, db.sslmode, "verify-full") \in
            {"disable", "allow", "prefer", "require", "verify-ca", "verify-full"})>>

\* The parts of the connection URL; none if nothing is set.
connectionURL(e, db) ==
  IF e[db.url] # "" THEN <<e[db.url]>>
  ELSE IF ~isSplit(e, db) THEN <<>>
  ELSE <<e[db.host], value(e, db.port, "5432"), e[db.name], e[db.user], e[db.password],
         value(e, db.sslmode, "verify-full")>>

poolLimits(e) ==
  LET max == int32(e, "DATABASE_MAX_CONNS", "10")
      min == int32(e, "DATABASE_MIN_CONNS", "0")
  IN <<check("DATABASE_MAX_CONNS", TRUE, max >= 0),
       check("DATABASE_MIN_CONNS", TRUE, min >= 0),
       check("database pool", TRUE, max >= 1 /\ min <= max)>>
timeoutChecks(keys, used, e) ==
  [i \in DOMAIN keys |-> check(keys[i], used, duration(e, keys[i]) > 0)]
statementCheck(e) ==
  <<check("DATABASE_STATEMENT_TIMEOUT", TRUE, duration(e, "DATABASE_STATEMENT_TIMEOUT") >= 2)>>
poolChecks(e) == poolLimits(e) \o timeoutChecks(poolTimeouts, TRUE, e) \o statementCheck(e)

-----------------------------------------------------------------------------
(* LoadFor and Validate.                                                     *)

\* Mutant: the poll interval is parsed for every runtime.
outboxCheckAlways(r, e) ==
  check("OUTBOX_POLL_INTERVAL", TRUE, duration(e, "OUTBOX_POLL_INTERVAL") > 0)

outboxCheck(r, e) ==
  check("OUTBOX_POLL_INTERVAL", usesOutbox(r), duration(e, "OUTBOX_POLL_INTERVAL") > 0)

parseChecks(r, e) ==
  <<check("runtime", TRUE, r \in Runtimes),
    check("SHUTDOWN_TIMEOUT", TRUE, duration(e, "SHUTDOWN_TIMEOUT") > 0),
    check("HTTP_RATE_PER_SECOND", usesHTTP(r),
          value(e, "HTTP_RATE_PER_SECOND", "100") \in DOMAIN Numbers),
    check("HTTP_RATE_BURST", usesHTTP(r),
          value(e, "HTTP_RATE_BURST", "200") \in DOMAIN Numbers),
    check("HTTP_MAX_HEADER_BYTES", usesHTTP(r),
          number(e, "HTTP_MAX_HEADER_BYTES", "32768") > 0)>>
levelChecks(r, e) ==
  <<outboxCheck(r, e),
    check("LOG_LEVEL", e["LOG_LEVEL"] # "", e["LOG_LEVEL"] \in DOMAIN Levels)>>
loadChecks(r, e) ==
  parseChecks(r, e) \o connectionChecks(e, runtimeDB) \o poolChecks(e)
  \o levelChecks(r, e) \o timeoutChecks(httpTimeouts, usesHTTP(r), e)

\* Mutant: a handler may take as long as the connection.
timeoutCheckEqual(r, e) ==
  check("HTTP_REQUEST_TIMEOUT", usesHTTP(r),
        duration(e, "HTTP_REQUEST_TIMEOUT") <= duration(e, "HTTP_WRITE_TIMEOUT"))

timeoutCheck(r, e) ==
  check("HTTP_REQUEST_TIMEOUT", usesHTTP(r),
        duration(e, "HTTP_REQUEST_TIMEOUT") < duration(e, "HTTP_WRITE_TIMEOUT"))

bareOrigin(u) == ~u.user /\ ~u.path /\ ~u.query /\ ~u.wildcard
validOrigin(o) == validURL(o, {"http", "https"}) /\ bareOrigin(URLs[o])

validDatabase(e) ==
  LET db == connectionURL(e, runtimeDB) IN
    CASE db = <<>>   -> isLocal(e)
      [] Len(db) = 1 -> validURL(db[1], {"postgres", "postgresql"})
      [] OTHER       -> TRUE

Validate(r, e) ==
  LET otlp == e["OTEL_EXPORTER_OTLP_ENDPOINT"]
  IN <<check("APP_ENV", TRUE,
             environment(e) \in {"development", "test", "staging", "production"}),
       check("HTTP_ADDRESS", usesHTTP(r),
             IF e["HTTP_ADDRESS"] # "" THEN e["HTTP_ADDRESS"] \in Addresses
             ELSE value(e, "HTTP_PORT", "8080") \in Ports),
       check("DATABASE_URL", TRUE, validDatabase(e)),
       check("ELASTICSEARCH_URL", usesSearch(r), validURL(search(e), {"http", "https"})),
       check("OTEL_EXPORTER_OTLP_ENDPOINT", otlp # "", validURL(otlp, {"http", "https"})),
       check("HTTP_RATE_PER_SECOND", usesHTTP(r),
             number(e, "HTTP_RATE_PER_SECOND", "100") > 0),
       check("HTTP_RATE_BURST", usesHTTP(r), number(e, "HTTP_RATE_BURST", "200") > 0),
       timeoutCheck(r, e),
       check("HTTP_CORS_ORIGINS", usesHTTP(r), \A o \in origins(e) : validOrigin(o))>>

\* The Config: zero values for the groups that the runtime does not use.
config(r, e) ==
  [environment |-> environment(e),
   database |-> connectionURL(e, runtimeDB),
   conns |-> <<int32(e, "DATABASE_MAX_CONNS", "10"), int32(e, "DATABASE_MIN_CONNS", "0")>>,
   poolTimeouts |-> [i \in DOMAIN poolTimeouts |-> duration(e, poolTimeouts[i])],
   shutdown |-> duration(e, "SHUTDOWN_TIMEOUT"),
   otlp |-> e["OTEL_EXPORTER_OTLP_ENDPOINT"],
   logLevel |-> level(e),
   search |-> IF usesSearch(r) THEN search(e) ELSE "",
   outbox |-> IF usesOutbox(r) THEN duration(e, "OUTBOX_POLL_INTERVAL") ELSE 0,
   address |-> IF ~usesHTTP(r) THEN <<>>
               ELSE IF e["HTTP_ADDRESS"] # "" THEN <<e["HTTP_ADDRESS"]>>
               ELSE <<"", value(e, "HTTP_PORT", "8080")>>,
   http |-> IF usesHTTP(r)
            THEN <<number(e, "HTTP_RATE_PER_SECOND", "100"), number(e, "HTTP_RATE_BURST", "200"),
                   number(e, "HTTP_MAX_HEADER_BYTES", "32768")>> ELSE <<>>,
   httpTimeouts |-> IF usesHTTP(r) THEN [i \in DOMAIN httpTimeouts |-> duration(e, httpTimeouts[i])]
                    ELSE <<>>,
   origins |-> IF usesHTTP(r) THEN origins(e) ELSE {}]

LoadFor(r, e) == firstError(loadChecks(r, e) \o Validate(r, e))

\* MigrationURL: the credentials of the operator commands, which must be there.
MigrationURL(e) ==
  LET err == firstError(connectionChecks(e, migrationDB)) IN
    IF err # "" THEN err
    ELSE IF connectionURL(e, migrationDB) = <<>> THEN "MIGRATION_DATABASE_URL" ELSE ""

-----------------------------------------------------------------------------
(* The components' own checks of what they are given.                        *)

\* database.Open.
poolAccepts(c) ==
  /\ c.conns[1] >= 1 /\ c.conns[2] >= 0 /\ c.conns[2] <= c.conns[1]
  /\ \A i \in DOMAIN c.poolTimeouts : c.poolTimeouts[i] > 0
  /\ c.poolTimeouts[5] >= 2

\* CORS.
corsAccepts(o) ==
  /\ o \in DOMAIN URLs
  /\ LET u == URLs[o] IN
       /\ u.scheme \in {"http", "https"} /\ (u.hostname \/ u.port # "none")
       /\ bareOrigin(u) /\ ~u.fragment

\* httpserver.New, stack and NewLimiter.
serverAccepts(c) ==
  /\ \A i \in DOMAIN c.httpTimeouts : c.httpTimeouts[i] > 0
  /\ c.httpTimeouts[1] < c.httpTimeouts[4]
  /\ \A i \in DOMAIN c.http : c.http[i] > 0
  /\ \A o \in c.origins : corsAccepts(o)

=============================================================================
