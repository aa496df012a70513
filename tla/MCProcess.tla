----------------------------- MODULE MCProcess -----------------------------
(***************************************************************************)
(* Process for TLC: environments that differ from a development default or   *)
(* from a complete production environment in one variable, or in two that    *)
(* are checked together.                                                     *)
(***************************************************************************)
EXTENDS Process, FiniteSets

MCDurations ==
  ("1ms" :> 2) @@ ("500us" :> 1) @@ ("0s" :> 0) @@ ("-1s" :> -2000) @@ ("1s" :> 2000)
  @@ ("5s" :> 10000) @@ ("8s" :> 16000) @@ ("10s" :> 20000) @@ ("15s" :> 30000)
  @@ ("1m" :> 120000) @@ ("5m" :> 600000) @@ ("30m" :> 3600000)
MCNumbers ==
  ("-1" :> -1) @@ ("0" :> 0) @@ ("1" :> 1) @@ ("10" :> 10) @@ ("11" :> 11)
  @@ ("100" :> 100) @@ ("200" :> 200) @@ ("32768" :> 32768) @@ ("beyond 32 bits" :> 40000)
MCInt32s == [t \in DOMAIN MCNumbers \ {"beyond 32 bits"} |-> MCNumbers[t]]
MCLevels == [t \in {"debug", "info", "warn", "error"} |-> t] @@ ("WARN" :> "warn")
MCLists ==
  ("http://localhost:3000, http://b" :> {"http://localhost:3000", "http://b"})
  @@ ("http://b,http://a/p" :> {"http://b", "http://a/p"}) @@ (" , " :> {""})

url == [scheme |-> "http", hostname |-> TRUE, port |-> "valid", user |-> FALSE,
        path |-> FALSE, query |-> FALSE, fragment |-> FALSE, wildcard |-> FALSE]
MCURLs ==
  ("http://localhost:9200" :> url) @@ ("http://localhost:3000" :> url) @@ ("http://b" :> url)
  @@ ("https://search" :> [url EXCEPT !.scheme = "https", !.port = "none"])
  @@ ("postgres://db/app" :> [url EXCEPT !.scheme = "postgres", !.user = TRUE, !.path = TRUE])
  @@ ("http://:80" :> [url EXCEPT !.hostname = FALSE])
  @@ ("http://a:0" :> [url EXCEPT !.port = "invalid"])
  @@ ("http://a/p" :> [url EXCEPT !.path = TRUE])
  @@ ("http://a#f" :> [url EXCEPT !.fragment = TRUE])
  @@ ("http://*.a" :> [url EXCEPT !.wildcard = TRUE, !.port = "none"])

timeouts == ToSet(poolTimeouts) \cup ToSet(httpTimeouts)
              \cup {"SHUTDOWN_TIMEOUT", "OUTBOX_POLL_INTERVAL"}
numbers == {"DATABASE_MAX_CONNS", "DATABASE_MIN_CONNS", "HTTP_RATE_PER_SECOND",
            "HTTP_RATE_BURST", "HTTP_MAX_HEADER_BYTES"}
ports == {"HTTP_PORT", "DATABASE_PORT", "MIGRATION_DATABASE_PORT"}
modes == {"DATABASE_SSLMODE", "MIGRATION_DATABASE_SSLMODE"}
urls == {"ELASTICSEARCH_URL", "SEARCH_URL", "OTEL_EXPORTER_OTLP_ENDPOINT",
         "DATABASE_URL", "MIGRATION_DATABASE_URL"}
addresses == {"https://search", "postgres://db/app", "http://:80", "http://a:0",
              "http://a/p", "http://a#f", "http://*.a", "a%zz"}

texts(k) ==
  {""} \cup
  CASE k \in timeouts        -> {"500us", "1ms", "0s", "-1s", "8s", "15s", "soon"}
    [] k \in numbers         -> {"-1", "0", "1", "11", "many", "beyond 32 bits"}
    [] k \in ports           -> {"1", "0"}
    [] k \in modes           -> {"require", "full"}
    [] k \in urls            -> addresses
    [] k = "HTTP_CORS_ORIGINS" -> addresses \cup DOMAIN MCLists
    [] k = "APP_ENV"         -> {"test", "production", "local"}
    [] k = "LOG_LEVEL"       -> {"warn", "WARN", "loud"}
    [] k = "HTTP_ADDRESS"    -> {":8080", "nowhere"}
    [] OTHER                 -> {"db", " ", "db:1"}

development == Unset
production ==
  [Unset EXCEPT !["APP_ENV"] = "production", !["DATABASE_URL"] = "postgres://db/app",
                !["ELASTICSEARCH_URL"] = "https://search",
                !["MIGRATION_DATABASE_URL"] = "postgres://db/app"]
split ==
  [Unset EXCEPT !["DATABASE_HOST"] = "db", !["DATABASE_NAME"] = "db", !["DATABASE_USER"] = "db",
                !["MIGRATION_DATABASE_HOST"] = "db", !["MIGRATION_DATABASE_NAME"] = "db",
                !["MIGRATION_DATABASE_USER"] = "db"]

\* The variables that are checked together.
related ==
  {{"HTTP_REQUEST_TIMEOUT", "HTTP_WRITE_TIMEOUT"}, {"DATABASE_MAX_CONNS", "DATABASE_MIN_CONNS"},
   {"HTTP_ADDRESS", "HTTP_PORT"}, {"ELASTICSEARCH_URL", "SEARCH_URL"}}
  \cup {{"DATABASE_URL", k} : k \in databaseKeys(runtimeDB)}
  \cup {{"APP_ENV", k} : k \in {"DATABASE_URL", "ELASTICSEARCH_URL", "HTTP_CORS_ORIGINS", "LOG_LEVEL"}}

MCEnvironments ==
  {[b EXCEPT ![p[1]] = p[2]] :
     b \in {development, production, split}, p \in UNION {{k} \X texts(k) : k \in Keys}}
  \cup UNION {{[b EXCEPT ![k] = t, ![l] = u] :
                 b \in {development, production}, t \in texts(k), u \in texts(l)} :
              <<k, l>> \in {kl \in Keys \X Keys : kl[1] # kl[2] /\ {kl[1], kl[2]} \in related}}
=============================================================================
