---------------------------- MODULE ProcessProofs ----------------------------
(***************************************************************************)
(* Proofs about Process for every environment, every meaning of the texts in *)
(* it and any number of loggers.                                             *)
(***************************************************************************)
EXTENDS Process, SequenceTheorems, WellFoundedInduction, TLAPS

-----------------------------------------------------------------------------
(* The first failing check.                                                   *)

\* A set of naturals that has an element has a least one.
LEMMA LeastNatural ==
  ASSUME NEW S \in SUBSET Nat, S # {}
  PROVE  Min(S) \in S
<1>1. PICK R : R = OpToRel(<, Nat)
  OBVIOUS
<1>2. PICK m \in S : \A n \in S : ~(<<n, m>> \in R)
  BY <1>1, WFMin, NatLessThanWellFounded
<1>3. \A n \in S : m <= n
  <2>1. R = {p \in Nat \X Nat : p[1] < p[2]}
    BY <1>1, Zenon DEF OpToRel
  <2> SUFFICES ASSUME NEW n \in S PROVE m <= n
    OBVIOUS
  <2>2. ~(n < m)
    BY <1>2, <2>1
  <2> QED
    BY <2>2
<1> QED
  BY <1>3 DEF Min

\* What an error can name, and the outcomes of a check.
Named == Keys \cup {"runtime", "database pool"}
NoError == ""
Errors == Named \cup {NoError}

\* No check fails.
passes(s) == \A i \in 1..Len(s) : s[i] = NoError

\* The name of a variable is neither empty nor one of the errors of the later phases.
LEMMA NamedKeys ==
  /\ NoError \notin Named
  /\ Named \cap {"invalid database pool limits", "HTTP server", "listen or tracing",
                 "database", "work", "health", "usage"} = {}
<1>1. /\ ToSet(poolTimeouts) = {poolTimeouts[i] : i \in 1..5}
      /\ ToSet(httpTimeouts) = {httpTimeouts[i] : i \in 1..5}
  BY DEF ToSet, poolTimeouts, httpTimeouts
<1>2. /\ ToSet(poolTimeouts) = {"DATABASE_CONNECT_TIMEOUT", "DATABASE_PROBE_TIMEOUT",
           "DATABASE_MAX_CONN_LIFETIME", "DATABASE_MAX_CONN_IDLE_TIME",
           "DATABASE_STATEMENT_TIMEOUT"}
      /\ ToSet(httpTimeouts) = {"HTTP_REQUEST_TIMEOUT", "HTTP_READ_HEADER_TIMEOUT",
           "HTTP_READ_TIMEOUT", "HTTP_WRITE_TIMEOUT", "HTTP_IDLE_TIMEOUT"}
  BY <1>1 DEF poolTimeouts, httpTimeouts
<1>3. databaseKeys(runtimeDB) =
        {"DATABASE_URL", "DATABASE_HOST", "DATABASE_PORT", "DATABASE_NAME", "DATABASE_USER",
         "DATABASE_PASSWORD", "DATABASE_SSLMODE"}
  BY DEF databaseKeys, runtimeDB
<1>4. databaseKeys(migrationDB) =
        {"MIGRATION_DATABASE_URL", "MIGRATION_DATABASE_HOST", "MIGRATION_DATABASE_PORT",
         "MIGRATION_DATABASE_NAME", "MIGRATION_DATABASE_USER",
         "MIGRATION_DATABASE_PASSWORD", "MIGRATION_DATABASE_SSLMODE"}
  BY DEF databaseKeys, migrationDB
<1> QED
  BY <1>2, <1>3, <1>4 DEF NoError, Named, Keys, CommonKeys, HTTPKeys, SearchKeys, OutboxKeys

\* The error is "" exactly if no check fails, and otherwise names a variable.
LEMMA ErrorPasses ==
  ASSUME NEW s \in Seq(Errors)
  PROVE  /\ firstError(s) = NoError <=> passes(s)
         /\ firstError(s) \in Errors
<1>1. PICK F : F = {i \in DOMAIN s : s[i] # NoError}
  OBVIOUS
<1>2. Len(s) \in Nat /\ DOMAIN s = 1..Len(s)
  OBVIOUS
<1>3. firstError(s) = IF F = {} THEN NoError ELSE s[Min(F)]
  BY <1>1 DEF firstError, NoError
<1>4. F = {} <=> passes(s)
  BY <1>1, <1>2 DEF passes
<1>5. F # {} => s[Min(F)] \in Named
  <2> HAVE F # {}
  <2>1. F \subseteq 1..Len(s) /\ F \in SUBSET Nat
    <3>1. PICK n : n = Len(s)
      OBVIOUS
    <3>2. F \subseteq DOMAIN s
      BY <1>1
    <3>3. F \subseteq 1..n /\ n \in Nat
      BY <1>2, <3>1, <3>2, Zenon
    <3>4. \A G \in SUBSET (1..n) : G \in SUBSET Nat
      BY <3>3
    <3> QED
      BY <3>1, <3>3, <3>4
  <2>2. Min(F) \in F /\ Min(F) \in 1..Len(s)
    BY <2>1, LeastNatural
  <2>3. s[Min(F)] \in Errors
    BY <2>2, ElementOfSeq
  <2> QED
    BY <1>1, <2>2, <2>3 DEF Errors
<1> QED
  BY <1>3, <1>4, <1>5, NamedKeys DEF Errors

\* A concatenation of checks passes only if both parts do.
LEMMA PassesConcat ==
  ASSUME NEW s \in Seq(Errors), NEW t \in Seq(Errors)
  PROVE  /\ s \o t \in Seq(Errors)
         /\ passes(s \o t) => passes(s) /\ passes(t)
<1>1. /\ s \o t \in Seq(Errors) /\ Len(s \o t) = Len(s) + Len(t)
      /\ \A i \in 1..Len(s) + Len(t) :
           (s \o t)[i] = IF i <= Len(s) THEN s[i] ELSE t[i - Len(s)]
  BY ConcatProperties
<1>2. PICK c : c = s \o t
  OBVIOUS
<1>3. Len(s) \in Nat /\ Len(t) \in Nat
  OBVIOUS
<1>4. ASSUME passes(c) PROVE passes(s)
  <2> SUFFICES ASSUME NEW i \in 1..Len(s) PROVE s[i] = NoError
    BY DEF passes
  <2>1. i \in 1..Len(c) /\ c[i] = s[i]
    BY <1>1, <1>2, <1>3
  <2> QED
    BY <1>4, <2>1 DEF passes
<1>5. ASSUME passes(c) PROVE passes(t)
  <2> SUFFICES ASSUME NEW i \in 1..Len(t) PROVE t[i] = NoError
    BY DEF passes
  <2>1. PICK j : j = i + Len(s)
    OBVIOUS
  <2>2. j \in 1..Len(c) /\ c[j] = t[i]
    BY <1>1, <1>2, <1>3, <2>1
  <2> QED
    BY <1>5, <2>2 DEF passes
<1> QED
  BY <1>1, <1>2, <1>4, <1>5

-----------------------------------------------------------------------------
(* The checks of LoadFor and MigrationURL are checks.                         *)

\* The variables that the checks name are variables that are read.
LEMMA KeysNamed ==
  /\ {"runtime", "database pool"} \subseteq Named
  /\ {"SHUTDOWN_TIMEOUT", "DATABASE_MAX_CONNS", "DATABASE_MIN_CONNS", "LOG_LEVEL", "APP_ENV",
      "OTEL_EXPORTER_OTLP_ENDPOINT"} \subseteq Named
  /\ {"HTTP_RATE_PER_SECOND", "HTTP_RATE_BURST", "HTTP_MAX_HEADER_BYTES", "HTTP_ADDRESS",
      "HTTP_CORS_ORIGINS"} \subseteq Named
  /\ {"OUTBOX_POLL_INTERVAL", "ELASTICSEARCH_URL"} \subseteq Named
  /\ databaseKeys(runtimeDB) \subseteq Named /\ databaseKeys(migrationDB) \subseteq Named
  /\ ToSet(poolTimeouts) \subseteq Named /\ ToSet(httpTimeouts) \subseteq Named
BY DEF Named, Keys, CommonKeys, HTTPKeys, SearchKeys, OutboxKeys

\* The timeouts of the pool and of the server: five each.
LEMMA TimeoutKeys ==
  /\ DOMAIN poolTimeouts = 1..5 /\ DOMAIN httpTimeouts = 1..5
  /\ \A i \in 1..5 : poolTimeouts[i] \in ToSet(poolTimeouts)
                     /\ httpTimeouts[i] \in ToSet(httpTimeouts)
  /\ poolTimeouts[5] = "DATABASE_STATEMENT_TIMEOUT"
  /\ httpTimeouts[1] = "HTTP_REQUEST_TIMEOUT" /\ httpTimeouts[4] = "HTTP_WRITE_TIMEOUT"
<1>1. PICK p, h : p = poolTimeouts /\ h = httpTimeouts
  OBVIOUS
<1>2. /\ DOMAIN p = 1..5 /\ DOMAIN h = 1..5 /\ p[5] = "DATABASE_STATEMENT_TIMEOUT"
      /\ h[1] = "HTTP_REQUEST_TIMEOUT" /\ h[4] = "HTTP_WRITE_TIMEOUT"
  BY <1>1 DEF poolTimeouts, httpTimeouts
<1>3. /\ \A i \in DOMAIN p : p[i] \in ToSet(p)
      /\ \A i \in DOMAIN h : h[i] \in ToSet(h)
  BY DEF ToSet
<1> QED
  BY <1>1, <1>2, <1>3

\* The two timeouts that are also checked on their own.
LEMMA TimeoutsNamed ==
  "DATABASE_STATEMENT_TIMEOUT" \in Named /\ "HTTP_REQUEST_TIMEOUT" \in Named
<1>1. PICK p, h : p = poolTimeouts /\ h = httpTimeouts
  OBVIOUS
<1>2. p[5] \in ToSet(p) /\ h[1] \in ToSet(h)
  <2>1. DOMAIN p = 1..5 /\ DOMAIN h = 1..5
    BY <1>1 DEF poolTimeouts, httpTimeouts
  <2> QED
    BY <2>1 DEF ToSet
<1>3. p[5] = "DATABASE_STATEMENT_TIMEOUT" /\ h[1] = "HTTP_REQUEST_TIMEOUT"
  BY <1>1 DEF poolTimeouts, httpTimeouts
<1>4. ToSet(p) \subseteq Named /\ ToSet(h) \subseteq Named
  BY <1>1, KeysNamed
<1> QED
  BY <1>2, <1>3, <1>4

\* The checks of a group of timeouts, one for each.
LEMMA TimeoutsTyped ==
  ASSUME NEW keys, DOMAIN keys = 1..5, \A i \in 1..5 : keys[i] \in Named, NEW u, NEW e
  PROVE  /\ timeoutChecks(keys, u, e) \in Seq(Errors)
         /\ Len(timeoutChecks(keys, u, e)) = 5
         /\ \A i \in 1..5 : timeoutChecks(keys, u, e)[i] =
                              check(keys[i], u, duration(e, keys[i]) > 0)
<1>1. PICK s : s = [i \in 1..5 |-> check(keys[i], u, duration(e, keys[i]) > 0)]
  OBVIOUS
<1>2. s = timeoutChecks(keys, u, e)
  BY <1>1 DEF timeoutChecks
<1>3. \A i \in 1..5 : s[i] = check(keys[i], u, duration(e, keys[i]) > 0)
  BY <1>1
<1>4. \A i \in 1..5 : s[i] \in Errors
  BY <1>3 DEF check, Errors, NoError
<1>5. s \in [1..5 -> Errors]
  BY <1>1, <1>4
<1>6. s \in Seq(Errors) /\ Len(s) = 5
  <2>1. s \in UNION {[1..n -> Errors] : n \in Nat}
    <3>1. 5 \in Nat
      OBVIOUS
    <3> QED
      BY <1>5, <3>1, Zenon
  <2>2. s \in Seq(Errors)
    BY <2>1, SeqDef, Zenon
  <2>3. DOMAIN s = 1..5
    BY <1>1
  <2>4. PICK n : n = Len(s)
    OBVIOUS
  <2>5. n \in Nat /\ 1..n = 1..5
    BY <2>2, <2>3, <2>4, LenProperties
  <2>6. n = 5
    BY <2>5
  <2> QED
    BY <2>2, <2>4, <2>6
<1> QED
  BY <1>2, <1>3, <1>6

\* The checks made while the numbers are parsed.
LEMMA ParseTyped ==
  ASSUME NEW r, NEW e
  PROVE  parseChecks(r, e) \in Seq(Errors) /\ Len(parseChecks(r, e)) = 5
<1>1. /\ check("runtime", TRUE, r \in Runtimes) \in Errors
      /\ check("SHUTDOWN_TIMEOUT", TRUE, duration(e, "SHUTDOWN_TIMEOUT") > 0) \in Errors
      /\ check("HTTP_RATE_PER_SECOND", usesHTTP(r),
               value(e, "HTTP_RATE_PER_SECOND", "100") \in DOMAIN Numbers) \in Errors
      /\ check("HTTP_RATE_BURST", usesHTTP(r),
               value(e, "HTTP_RATE_BURST", "200") \in DOMAIN Numbers) \in Errors
      /\ check("HTTP_MAX_HEADER_BYTES", usesHTTP(r),
               number(e, "HTTP_MAX_HEADER_BYTES", "32768") > 0) \in Errors
  BY KeysNamed DEF check, Errors, NoError
<1>2. \A a, b, c, d, f \in Errors :
        <<a, b, c, d, f>> \in Seq(Errors) /\ Len(<<a, b, c, d, f>>) = 5
  OBVIOUS
<1> QED
  BY <1>1, <1>2 DEF parseChecks

\* The checks of a connection, of the pool and of the levels, and those of Validate.
LEMMA ConnectionTyped ==
  ASSUME NEW e, NEW db \in {runtimeDB, migrationDB}
  PROVE  connectionChecks(e, db) \in Seq(Errors) /\ Len(connectionChecks(e, db)) = 6
<1>1. databaseKeys(db) \subseteq Named
  BY KeysNamed
<1>2. /\ given(e, db, db.host) \in Errors
      /\ given(e, db, db.name) \in Errors
      /\ given(e, db, db.user) \in Errors
      /\ check(db.host, isSplit(e, db), e[db.host] \in Hosts) \in Errors
      /\ check(db.port, isSplit(e, db), value(e, db.port, "5432") \in Ports) \in Errors
      /\ check(db.sslmode, isSplit(e, db),
               value(e, db.sslmode, "verify-full") \in
                 {"disable", "allow", "prefer", "require", "verify-ca", "verify-full"}) \in Errors
  BY <1>1 DEF given, check, Errors, NoError, databaseKeys
<1>3. \A a, b, c, d, f, g \in Errors :
        <<a, b, c, d, f, g>> \in Seq(Errors) /\ Len(<<a, b, c, d, f, g>>) = 6
  OBVIOUS
<1> QED
  BY <1>2, <1>3 DEF connectionChecks

\* The limits of the pool and the minimal statement timeout (pool.go).
LEMMA PoolTyped ==
  ASSUME NEW e
  PROVE  /\ poolLimits(e) \in Seq(Errors) /\ Len(poolLimits(e)) = 3
         /\ statementCheck(e) \in Seq(Errors) /\ Len(statementCheck(e)) = 1
<1>1. PICK a, b, c, d :
        /\ a = check("DATABASE_MAX_CONNS", TRUE, int32(e, "DATABASE_MAX_CONNS", "10") >= 0)
        /\ b = check("DATABASE_MIN_CONNS", TRUE, int32(e, "DATABASE_MIN_CONNS", "0") >= 0)
        /\ c = check("database pool", TRUE,
                     /\ int32(e, "DATABASE_MAX_CONNS", "10") >= 1
                     /\ int32(e, "DATABASE_MIN_CONNS", "0") <=
                          int32(e, "DATABASE_MAX_CONNS", "10"))
        /\ d = check("DATABASE_STATEMENT_TIMEOUT", TRUE,
                     duration(e, "DATABASE_STATEMENT_TIMEOUT") >= 2)
  OBVIOUS
<1>2. {a, b, c, d} \subseteq Errors
  <2>1. "DATABASE_STATEMENT_TIMEOUT" \in Named
    BY TimeoutsNamed
  <2> QED
    <3>1. a \in {"DATABASE_MAX_CONNS", ""} /\ b \in {"DATABASE_MIN_CONNS", ""}
      BY <1>1 DEF check
    <3>2. c \in {"database pool", ""} /\ d \in {"DATABASE_STATEMENT_TIMEOUT", ""}
      BY <1>1 DEF check
    <3> QED
      <4>1. a \in Errors /\ b \in Errors
        BY <3>1, KeysNamed DEF Errors, NoError
      <4>2. c \in Errors /\ d \in Errors
        BY <2>1, <3>2, KeysNamed DEF Errors, NoError
      <4> QED
        BY <4>1, <4>2
<1>3. poolLimits(e) = <<a, b, c>> /\ statementCheck(e) = <<d>>
  BY <1>1 DEF poolLimits, statementCheck
<1>4. /\ \A u, v, w \in Errors : <<u, v, w>> \in Seq(Errors) /\ Len(<<u, v, w>>) = 3
      /\ \A u \in Errors : <<u>> \in Seq(Errors) /\ Len(<<u>>) = 1
  OBVIOUS
<1> QED
  BY <1>2, <1>3, <1>4

\* The poll interval and the level of the log.
LEMMA LevelsTyped ==
  ASSUME NEW r, NEW e
  PROVE  levelChecks(r, e) \in Seq(Errors) /\ Len(levelChecks(r, e)) = 2
<1>1. /\ outboxCheck(r, e) \in Errors
      /\ check("LOG_LEVEL", e["LOG_LEVEL"] # "", e["LOG_LEVEL"] \in DOMAIN Levels) \in Errors
  BY KeysNamed DEF outboxCheck, check, Errors, NoError
<1>2. \A a, b \in Errors : <<a, b>> \in Seq(Errors) /\ Len(<<a, b>>) = 2
  OBVIOUS
<1> QED
  BY <1>1, <1>2 DEF levelChecks

\* The checks of Validate, one by one.
LEMMA ValidateTyped ==
  ASSUME NEW r, NEW e
  PROVE  Validate(r, e) \in Seq(Errors) /\ Len(Validate(r, e)) = 9
<1>1. PICK a, b, c, d, f, g, h, i, j :
        /\ a = check("APP_ENV", TRUE,
                     environment(e) \in {"development", "test", "staging", "production"})
        /\ b = check("HTTP_ADDRESS", usesHTTP(r),
                     IF e["HTTP_ADDRESS"] # "" THEN e["HTTP_ADDRESS"] \in Addresses
                     ELSE value(e, "HTTP_PORT", "8080") \in Ports)
        /\ c = check("DATABASE_URL", TRUE, validDatabase(e))
        /\ d = check("ELASTICSEARCH_URL", usesSearch(r),
                     validURL(search(e), {"http", "https"}))
        /\ f = check("OTEL_EXPORTER_OTLP_ENDPOINT", e["OTEL_EXPORTER_OTLP_ENDPOINT"] # "",
                     validURL(e["OTEL_EXPORTER_OTLP_ENDPOINT"], {"http", "https"}))
        /\ g = check("HTTP_RATE_PER_SECOND", usesHTTP(r),
                     number(e, "HTTP_RATE_PER_SECOND", "100") > 0)
        /\ h = check("HTTP_RATE_BURST", usesHTTP(r), number(e, "HTTP_RATE_BURST", "200") > 0)
        /\ i = timeoutCheck(r, e)
        /\ j = check("HTTP_CORS_ORIGINS", usesHTTP(r), \A o \in origins(e) : validOrigin(o))
  OBVIOUS
<1>2. {a, b, c, d, f} \subseteq Errors
  <2>1. "DATABASE_URL" \in Named
    BY KeysNamed DEF databaseKeys, runtimeDB
  <2> QED
    <3>1. a \in {"APP_ENV", ""} /\ b \in {"HTTP_ADDRESS", ""}
      BY <1>1 DEF check
    <3>2. c \in {"DATABASE_URL", ""} /\ d \in {"ELASTICSEARCH_URL", ""}
      BY <1>1 DEF check
    <3>3. f \in {"OTEL_EXPORTER_OTLP_ENDPOINT", ""}
      BY <1>1 DEF check
    <3> QED
      <4>1. a \in Errors /\ b \in Errors
        BY <3>1, KeysNamed DEF Errors, NoError
      <4>2. c \in Errors /\ d \in Errors
        BY <2>1, <3>2, KeysNamed DEF Errors, NoError
      <4>3. f \in Errors
        BY <3>3, KeysNamed DEF Errors, NoError
      <4> QED
        BY <4>1, <4>2, <4>3
<1>3. {g, h, i, j} \subseteq Errors
  <2>1. "HTTP_REQUEST_TIMEOUT" \in Named
    BY TimeoutsNamed
  <2> QED
    BY <1>1, <2>1, KeysNamed DEF check, Errors, NoError, timeoutCheck
<1>4. Validate(r, e) = <<a, b, c, d, f, g, h, i, j>>
  BY <1>1, ZenonT(60) DEF Validate
<1>5. \A z1, z2, z3, z4, z5, z6, z7, z8, z9 \in Errors :
        <<z1, z2, z3, z4, z5, z6, z7, z8, z9>> \in Seq(Errors)
        /\ Len(<<z1, z2, z3, z4, z5, z6, z7, z8, z9>>) = 9
  OBVIOUS
<1> QED
  BY <1>2, <1>3, <1>4, <1>5

\* LoadFor succeeds only if no check of any group fails, and its error is a name.
LEMMA LoadPasses ==
  ASSUME NEW r, NEW e
  PROVE  /\ LoadFor(r, e) \in Errors
         /\ LoadFor(r, e) = NoError =>
              /\ passes(poolLimits(e)) /\ passes(timeoutChecks(poolTimeouts, TRUE, e))
              /\ passes(statementCheck(e)) /\ passes(parseChecks(r, e))
              /\ passes(timeoutChecks(httpTimeouts, usesHTTP(r), e)) /\ passes(Validate(r, e))
<1>1. PICK g1, g2, g3, g4, g5, g6, g7, g8 :
        /\ g1 = parseChecks(r, e) /\ g2 = connectionChecks(e, runtimeDB)
        /\ g3 = poolLimits(e) /\ g4 = timeoutChecks(poolTimeouts, TRUE, e)
        /\ g5 = statementCheck(e) /\ g6 = levelChecks(r, e)
        /\ g7 = timeoutChecks(httpTimeouts, usesHTTP(r), e) /\ g8 = Validate(r, e)
  OBVIOUS
<1>2. /\ g1 \in Seq(Errors) /\ g2 \in Seq(Errors) /\ g3 \in Seq(Errors) /\ g5 \in Seq(Errors)
      /\ g6 \in Seq(Errors) /\ g8 \in Seq(Errors)
  BY <1>1, ParseTyped, ConnectionTyped, PoolTyped, LevelsTyped, ValidateTyped
<1>3. g4 \in Seq(Errors) /\ g7 \in Seq(Errors)
  <2>1. \A i \in 1..5 : poolTimeouts[i] \in Named /\ httpTimeouts[i] \in Named
    BY TimeoutKeys, KeysNamed
  <2>2. DOMAIN poolTimeouts = 1..5 /\ DOMAIN httpTimeouts = 1..5
    BY TimeoutKeys
  <2>3. timeoutChecks(poolTimeouts, TRUE, e) \in Seq(Errors)
    BY <2>1, <2>2, TimeoutsTyped
  <2>4. timeoutChecks(httpTimeouts, usesHTTP(r), e) \in Seq(Errors)
    BY <2>1, <2>2, TimeoutsTyped
  <2> QED
    BY <1>1, <2>3, <2>4
<1>4. LoadFor(r, e) = firstError(((((g1 \o g2) \o ((g3 \o g4) \o g5)) \o g6) \o g7) \o g8)
  BY <1>1 DEF LoadFor, loadChecks, poolChecks
<1>5. PICK h1, h2, h3, h4, h5, h6, all :
        /\ h1 = g1 \o g2 /\ h2 = g3 \o g4 /\ h3 = h2 \o g5 /\ h4 = h1 \o h3
        /\ h5 = h4 \o g6 /\ h6 = h5 \o g7 /\ all = h6 \o g8
  OBVIOUS
<1>6. /\ h1 \in Seq(Errors) /\ (passes(h1) => passes(g1))
      /\ h2 \in Seq(Errors) /\ (passes(h2) => passes(g3) /\ passes(g4))
  BY <1>2, <1>3, <1>5, PassesConcat
<1>7. h3 \in Seq(Errors) /\ (passes(h3) => passes(h2) /\ passes(g5))
  BY <1>2, <1>5, <1>6, PassesConcat
<1>8. h4 \in Seq(Errors) /\ (passes(h4) => passes(h1) /\ passes(h3))
  BY <1>5, <1>6, <1>7, PassesConcat
<1>9. h5 \in Seq(Errors) /\ (passes(h5) => passes(h4))
  BY <1>2, <1>5, <1>8, PassesConcat
<1>10. h6 \in Seq(Errors) /\ (passes(h6) => passes(h5) /\ passes(g7))
  BY <1>3, <1>5, <1>9, PassesConcat
<1>11. all \in Seq(Errors) /\ (passes(all) => passes(h6) /\ passes(g8))
  BY <1>2, <1>5, <1>10, PassesConcat
<1>12. LoadFor(r, e) = firstError(all)
  BY <1>4, <1>5
<1>13. LoadFor(r, e) \in Errors /\ (LoadFor(r, e) = NoError => passes(all))
  BY <1>11, <1>12, ErrorPasses
<1> QED
  BY <1>1, <1>6, <1>7, <1>8, <1>9, <1>10, <1>11, <1>13

\* MigrationURL's error is a name.
LEMMA MigrationErrors ==
  ASSUME NEW e
  PROVE  /\ MigrationURL(e) \in Errors
         /\ MigrationURL(e) = NoError => connectionURL(e, migrationDB) # <<>>
<1>1. PICK m : m = firstError(connectionChecks(e, migrationDB))
  OBVIOUS
<1>2. m \in Errors
  BY <1>1, ConnectionTyped, ErrorPasses
<1>3. "MIGRATION_DATABASE_URL" \in Errors
  BY KeysNamed DEF databaseKeys, migrationDB, Errors
<1>4. MigrationURL(e) = IF m # NoError THEN m
                        ELSE IF connectionURL(e, migrationDB) = <<>>
                             THEN "MIGRATION_DATABASE_URL" ELSE NoError
  BY <1>1 DEF MigrationURL, NoError
<1>5. "MIGRATION_DATABASE_URL" # NoError
  BY DEF NoError
<1>6. NoError \in Errors
  BY DEF Errors
<1> QED
  BY <1>2, <1>3, <1>4, <1>5, <1>6, Zenon

-----------------------------------------------------------------------------
(* What LoadFor accepts, the components accept.                               *)

\* database.Open accepts the pool of an accepted configuration.
LEMMA PoolAccepted ==
  ASSUME NEW r, NEW e, LoadFor(r, e) = NoError
  PROVE  poolAccepts(config(r, e))
<1>1. PICK max, min :
        max = int32(e, "DATABASE_MAX_CONNS", "10") /\ min = int32(e, "DATABASE_MIN_CONNS", "0")
  OBVIOUS
<1>2. max >= 1 /\ min >= 0 /\ min <= max
  <2>1. PICK a, b, c :
          /\ a = check("DATABASE_MAX_CONNS", TRUE, max >= 0)
          /\ b = check("DATABASE_MIN_CONNS", TRUE, min >= 0)
          /\ c = check("database pool", TRUE, max >= 1 /\ min <= max)
    OBVIOUS
  <2>2. poolLimits(e) = <<a, b, c>>
    BY <1>1, <2>1 DEF poolLimits
  <2>3. b = NoError /\ c = NoError
    <3>1. PICK s : s = <<a, b, c>>
      OBVIOUS
    <3>2. Len(s) = 3 /\ s[2] = b /\ s[3] = c
      BY <3>1
    <3>3. passes(s)
      BY <2>2, <3>1, LoadPasses
    <3>4. \A i \in 1..3 : s[i] = NoError
      BY <3>2, <3>3, Zenon DEF passes
    <3>5. s[2] = NoError /\ s[3] = NoError
      BY <3>4
    <3> QED
      BY <3>2, <3>5
  <2>4. min >= 0
    BY <2>1, <2>3 DEF check, NoError
  <2>5. max >= 1 /\ min <= max
    BY <2>1, <2>3 DEF check, NoError
  <2> QED
    BY <2>4, <2>5
<1>3. \A i \in 1..5 : duration(e, poolTimeouts[i]) > 0
  <2>1. \A i \in 1..5 : poolTimeouts[i] \in Named
    BY TimeoutKeys, KeysNamed
  <2>2. PICK t : t = timeoutChecks(poolTimeouts, TRUE, e)
    OBVIOUS
  <2>3. \A i \in 1..5 : t[i] = check(poolTimeouts[i], TRUE, duration(e, poolTimeouts[i]) > 0)
    BY <2>2, TimeoutKeys DEF timeoutChecks
  <2>4. \A i \in 1..5 : t[i] = NoError
    <3>1. DOMAIN poolTimeouts = 1..5
      BY TimeoutKeys
    <3>2. Len(t) = 5
      BY <2>1, <2>2, <3>1, TimeoutsTyped
    <3>3. passes(t)
      BY <2>2, LoadPasses
    <3> QED
      BY <3>2, <3>3, Zenon DEF passes
  <2> QED
    <3> SUFFICES ASSUME NEW i \in 1..5 PROVE duration(e, poolTimeouts[i]) > 0
      OBVIOUS
    <3>1. poolTimeouts[i] # NoError
      BY <2>1, NamedKeys
    <3>2. check(poolTimeouts[i], TRUE, duration(e, poolTimeouts[i]) > 0) = NoError
      BY <2>3, <2>4
    <3> QED
      BY <3>1, <3>2 DEF check, NoError
<1>4. duration(e, "DATABASE_STATEMENT_TIMEOUT") >= 2
  <2>1. PICK d : d = check("DATABASE_STATEMENT_TIMEOUT", TRUE,
                           duration(e, "DATABASE_STATEMENT_TIMEOUT") >= 2)
    OBVIOUS
  <2>2. statementCheck(e) = <<d>>
    BY <2>1 DEF statementCheck
  <2>3. d = NoError
    <3>1. PICK s : s = <<d>>
      OBVIOUS
    <3>2. Len(s) = 1 /\ s[1] = d
      BY <3>1
    <3>3. passes(s)
      BY <2>2, <3>1, LoadPasses
    <3>4. \A i \in 1..1 : s[i] = NoError
      BY <3>2, <3>3, Zenon DEF passes
    <3>5. s[1] = NoError
      BY <3>4
    <3> QED
      BY <3>2, <3>5
  <2> QED
    BY <2>1, <2>3 DEF check, NoError
<1>5. PICK c : c = config(r, e)
  OBVIOUS
<1>6. c.conns = <<max, min>> /\ c.poolTimeouts = [i \in 1..5 |-> duration(e, poolTimeouts[i])]
  <2>1. /\ c.conns = <<int32(e, "DATABASE_MAX_CONNS", "10"), int32(e, "DATABASE_MIN_CONNS", "0")>>
        /\ c.poolTimeouts = [i \in DOMAIN poolTimeouts |-> duration(e, poolTimeouts[i])]
    BY <1>5 DEF config
  <2> QED
    BY <1>1, <2>1, TimeoutKeys
<1>7. PICK t : t = c.poolTimeouts
  OBVIOUS
<1>8. DOMAIN t = 1..5 /\ \A i \in 1..5 : t[i] = duration(e, poolTimeouts[i])
  BY <1>6, <1>7
<1>9. t[5] = duration(e, "DATABASE_STATEMENT_TIMEOUT")
  <2>1. 5 \in 1..5
    OBVIOUS
  <2>2. poolTimeouts[5] = "DATABASE_STATEMENT_TIMEOUT"
    BY TimeoutKeys
  <2> QED
    BY <1>8, <2>1, <2>2, Zenon
<1>10. c.conns[1] >= 1 /\ c.conns[2] >= 0 /\ c.conns[2] <= c.conns[1]
  <2>1. PICK k : k = <<max, min>>
    OBVIOUS
  <2>2. k[1] = max /\ k[2] = min
    BY <2>1
  <2>3. c.conns = k
    BY <1>6, <2>1
  <2> QED
    BY <1>2, <2>2, <2>3
<1>11. \A i \in DOMAIN t : t[i] > 0
  BY <1>3, <1>8
<1>12. t[5] >= 2
  BY <1>4, <1>9
<1> QED
  BY <1>5, <1>7, <1>10, <1>11, <1>12 DEF poolAccepts

\* httpserver.New, the stack, the limiter and CORS accept the server settings of an
\* accepted configuration of the api.
LEMMA ServerAccepted ==
  ASSUME NEW e, LoadFor("api", e) = NoError
  PROVE  serverAccepts(config("api", e))
<1>1. usesHTTP("api")
  BY DEF usesHTTP
<1>2. \A i \in 1..5 : duration(e, httpTimeouts[i]) > 0
  <2>1. \A i \in 1..5 : httpTimeouts[i] \in Named
    BY TimeoutKeys, KeysNamed
  <2>2. PICK t : t = timeoutChecks(httpTimeouts, usesHTTP("api"), e)
    OBVIOUS
  <2>3. \A i \in 1..5 : t[i] = check(httpTimeouts[i], usesHTTP("api"),
                                     duration(e, httpTimeouts[i]) > 0)
    BY <2>2, TimeoutKeys DEF timeoutChecks
  <2>4. \A i \in 1..5 : t[i] = NoError
    <3>1. DOMAIN httpTimeouts = 1..5
      BY TimeoutKeys
    <3>2. Len(t) = 5
      BY <2>1, <2>2, <3>1, TimeoutsTyped
    <3>3. passes(t)
      BY <2>2, LoadPasses
    <3> QED
      BY <3>2, <3>3, Zenon DEF passes
  <2> QED
    <3> SUFFICES ASSUME NEW i \in 1..5 PROVE duration(e, httpTimeouts[i]) > 0
      OBVIOUS
    <3>1. httpTimeouts[i] # NoError
      BY <2>1, NamedKeys
    <3>2. check(httpTimeouts[i], usesHTTP("api"), duration(e, httpTimeouts[i]) > 0) = NoError
      BY <2>3, <2>4
    <3> QED
      BY <1>1, <3>1, <3>2 DEF check, NoError
<1>3. number(e, "HTTP_MAX_HEADER_BYTES", "32768") > 0
  <2>1. PICK a, b, c, d, h :
          /\ parseChecks("api", e) = <<a, b, c, d, h>>
          /\ h = check("HTTP_MAX_HEADER_BYTES", usesHTTP("api"),
                       number(e, "HTTP_MAX_HEADER_BYTES", "32768") > 0)
    BY DEF parseChecks
  <2>2. PICK s : s = <<a, b, c, d, h>>
    OBVIOUS
  <2>3. Len(s) = 5 /\ s[5] = h
    BY <2>2
  <2>4. passes(s)
    BY <2>1, <2>2, LoadPasses
  <2>5. \A i \in 1..5 : s[i] = NoError
    BY <2>3, <2>4, Zenon DEF passes
  <2>6. s[5] = NoError
    BY <2>5
  <2>7. h = NoError
    BY <2>3, <2>6
  <2> QED
    BY <1>1, <2>1, <2>7 DEF check, NoError
<1>4. /\ number(e, "HTTP_RATE_PER_SECOND", "100") > 0 /\ number(e, "HTTP_RATE_BURST", "200") > 0
      /\ duration(e, "HTTP_REQUEST_TIMEOUT") < duration(e, "HTTP_WRITE_TIMEOUT")
      /\ \A o \in origins(e) : validOrigin(o)
  <2>1. PICK a, b, c, d, f, g, h, i, j :
          /\ Validate("api", e) = <<a, b, c, d, f, g, h, i, j>>
          /\ g = check("HTTP_RATE_PER_SECOND", usesHTTP("api"),
                       number(e, "HTTP_RATE_PER_SECOND", "100") > 0)
          /\ h = check("HTTP_RATE_BURST", usesHTTP("api"), number(e, "HTTP_RATE_BURST", "200") > 0)
          /\ i = timeoutCheck("api", e)
          /\ j = check("HTTP_CORS_ORIGINS", usesHTTP("api"),
                       \A o \in origins(e) : validOrigin(o))
    BY ZenonT(60) DEF Validate
  <2>2. PICK s : s = <<a, b, c, d, f, g, h, i, j>>
    OBVIOUS
  <2>3. Len(s) = 9 /\ s[6] = g /\ s[7] = h /\ s[8] = i /\ s[9] = j
    BY <2>2
  <2>4. passes(s)
    BY <2>1, <2>2, LoadPasses
  <2>5. \A k \in 1..9 : s[k] = NoError
    BY <2>3, <2>4, Zenon DEF passes
  <2>6. g = NoError /\ h = NoError /\ i = NoError /\ j = NoError
    BY <2>3, <2>5
  <2>7. number(e, "HTTP_RATE_PER_SECOND", "100") > 0
    BY <1>1, <2>1, <2>6 DEF check, NoError
  <2>8. number(e, "HTTP_RATE_BURST", "200") > 0
    BY <1>1, <2>1, <2>6 DEF check, NoError
  <2>9. duration(e, "HTTP_REQUEST_TIMEOUT") < duration(e, "HTTP_WRITE_TIMEOUT")
    BY <1>1, <2>1, <2>6 DEF check, NoError, timeoutCheck
  <2>10. \A o \in origins(e) : validOrigin(o)
    BY <1>1, <2>1, <2>6 DEF check, NoError
  <2> QED
    BY <2>7, <2>8, <2>9, <2>10
<1>5. PICK c : c = config("api", e)
  OBVIOUS
<1>6. PICK t : t = [i \in 1..5 |-> duration(e, httpTimeouts[i])]
  OBVIOUS
<1>7. c.httpTimeouts = t
  <2>1. c.httpTimeouts = [i \in DOMAIN httpTimeouts |-> duration(e, httpTimeouts[i])]
    BY <1>1, <1>5 DEF config
  <2> QED
    BY <1>6, <2>1, TimeoutKeys
<1>8. /\ DOMAIN t = 1..5 /\ \A i \in 1..5 : t[i] = duration(e, httpTimeouts[i])
  BY <1>6
<1>9. t[1] < t[4]
  <2>1. 1 \in 1..5 /\ 4 \in 1..5
    OBVIOUS
  <2>2. httpTimeouts[1] = "HTTP_REQUEST_TIMEOUT" /\ httpTimeouts[4] = "HTTP_WRITE_TIMEOUT"
    BY TimeoutKeys
  <2>3. /\ t[1] = duration(e, "HTTP_REQUEST_TIMEOUT")
        /\ t[4] = duration(e, "HTTP_WRITE_TIMEOUT")
    BY <1>8, <2>1, <2>2, Zenon
  <2> QED
    BY <1>4, <2>3, Zenon
<1>10. \A i \in DOMAIN t : t[i] > 0
  BY <1>2, <1>8
<1>11. \A i \in DOMAIN c.http : c.http[i] > 0
  <2>1. PICK x, y, z :
          /\ x = number(e, "HTTP_RATE_PER_SECOND", "100") /\ y = number(e, "HTTP_RATE_BURST", "200")
          /\ z = number(e, "HTTP_MAX_HEADER_BYTES", "32768")
    OBVIOUS
  <2>2. x > 0 /\ y > 0 /\ z > 0
    BY <1>3, <1>4, <2>1, Zenon
  <2>3. PICK k : k = <<x, y, z>>
    OBVIOUS
  <2>4. c.http = k
    BY <1>1, <1>5, <2>1, <2>3 DEF config
  <2>5. \A i \in DOMAIN k : k[i] > 0
    BY <2>2, <2>3
  <2> QED
    BY <2>4, <2>5
<1>12. \A o \in c.origins : corsAccepts(o)
  <2>1. c.origins = origins(e)
    BY <1>1, <1>5 DEF config
  <2>2. \A o : validOrigin(o) => corsAccepts(o)
    BY Zenon DEF corsAccepts, validOrigin, validURL
  <2> QED
    BY <1>4, <2>1, <2>2
<1> QED
  BY <1>5, <1>7, <1>9, <1>10, <1>11, <1>12 DEF serverAccepts

-----------------------------------------------------------------------------
(* What LoadFor and MigrationURL look at.                                     *)

\* Two environments agree on what a runtime reads: the parts that an explicit URL
\* or address replaces may differ.
connectionAgrees(e, o, db) ==
  /\ o[db.url] = e[db.url]
  /\ e[db.url] = "" => \A k \in databaseKeys(db) : o[k] = e[k]
httpAgrees(e, o) ==
  /\ \A k \in HTTPKeys \ {"HTTP_PORT"} : o[k] = e[k]
  /\ e["HTTP_ADDRESS"] = "" => o["HTTP_PORT"] = e["HTTP_PORT"]
searchAgrees(e, o) ==
  /\ o["ELASTICSEARCH_URL"] = e["ELASTICSEARCH_URL"]
  /\ e["ELASTICSEARCH_URL"] = "" => o["SEARCH_URL"] = e["SEARCH_URL"]
agrees(r, e, o) ==
  /\ \A k \in CommonKeys \ databaseKeys(runtimeDB) : o[k] = e[k]
  /\ connectionAgrees(e, o, runtimeDB)
  /\ usesHTTP(r) => httpAgrees(e, o)
  /\ usesSearch(r) => searchAgrees(e, o)
  /\ usesOutbox(r) => o["OUTBOX_POLL_INTERVAL"] = e["OUTBOX_POLL_INTERVAL"]

\* A setting is parsed from its own variable.
LEMMA ValuesAgree ==
  ASSUME NEW e, NEW o, NEW k, o[k] = e[k]
  PROVE  /\ duration(o, k) = duration(e, k)
         /\ \A f : value(o, k, f) = value(e, k, f) /\ number(o, k, f) = number(e, k, f)
         /\ \A f : int32(o, k, f) = int32(e, k, f)
<1>1. \A f : value(o, k, f) = value(e, k, f)
  BY DEF value
<1>2. \A f : number(o, k, f) = number(e, k, f)
  BY <1>1 DEF number
<1>3. \A f : int32(o, k, f) = int32(e, k, f)
  BY <1>1 DEF int32
<1>4. \A f : parsed(o, k, f) = parsed(e, k, f)
  BY <1>1 DEF parsed
<1>5. duration(o, k) = duration(e, k)
  BY <1>4 DEF duration
<1> QED
  BY <1>1, <1>2, <1>3, <1>5

\* A connection is made of its URL alone, or of all its parts.
LEMMA ConnectionsAgree ==
  ASSUME NEW e, NEW o, NEW db, connectionAgrees(e, o, db)
  PROVE  /\ connectionChecks(o, db) = connectionChecks(e, db)
         /\ connectionURL(o, db) = connectionURL(e, db)
<1>1. o[db.url] = e[db.url]
  BY DEF connectionAgrees
<1>2. CASE e[db.url] # ""
  <2>1. ~isSplit(e, db) /\ ~isSplit(o, db)
    BY <1>1, <1>2 DEF isSplit
  <2>2. connectionChecks(o, db) = connectionChecks(e, db)
    BY <2>1 DEF connectionChecks, given, check
  <2>3. connectionURL(o, db) = connectionURL(e, db)
    BY <1>1, <1>2 DEF connectionURL
  <2> QED
    BY <2>2, <2>3
<1>3. CASE e[db.url] = ""
  <2>1. \A k \in databaseKeys(db) : o[k] = e[k]
    BY <1>3 DEF connectionAgrees
  <2>2. isSplit(o, db) <=> isSplit(e, db)
    BY <1>1, <2>1 DEF isSplit
  <2>3. /\ o[db.host] = e[db.host] /\ o[db.port] = e[db.port] /\ o[db.name] = e[db.name]
        /\ o[db.user] = e[db.user] /\ o[db.password] = e[db.password]
        /\ o[db.sslmode] = e[db.sslmode]
    BY <2>1 DEF databaseKeys
  <2>4. connectionURL(o, db) = connectionURL(e, db)
    BY <1>1, <2>2, <2>3 DEF connectionURL, value
  <2>5. /\ given(o, db, db.host) = given(e, db, db.host)
        /\ given(o, db, db.name) = given(e, db, db.name)
        /\ given(o, db, db.user) = given(e, db, db.user)
    BY <2>2, <2>3 DEF given, check
  <2>6. /\ check(db.host, isSplit(o, db), o[db.host] \in Hosts) =
             check(db.host, isSplit(e, db), e[db.host] \in Hosts)
        /\ check(db.port, isSplit(o, db), value(o, db.port, "5432") \in Ports) =
             check(db.port, isSplit(e, db), value(e, db.port, "5432") \in Ports)
    BY <2>2, <2>3 DEF check, value
  <2>7. value(o, db.sslmode, "verify-full") = value(e, db.sslmode, "verify-full")
    BY <2>3 DEF value
  <2>8. check(db.sslmode, isSplit(o, db),
              value(o, db.sslmode, "verify-full") \in
                {"disable", "allow", "prefer", "require", "verify-ca", "verify-full"}) =
        check(db.sslmode, isSplit(e, db),
              value(e, db.sslmode, "verify-full") \in
                {"disable", "allow", "prefer", "require", "verify-ca", "verify-full"})
    BY <2>2, <2>7 DEF check
  <2>9. connectionChecks(o, db) = connectionChecks(e, db)
    BY <2>5, <2>6, <2>8 DEF connectionChecks
  <2> QED
    BY <2>4, <2>9
<1> QED
  BY <1>2, <1>3

\* The environments agree on the derived settings of the whole process.
LEMMA CommonAgree ==
  ASSUME NEW r, NEW e, NEW o, agrees(r, e, o)
  PROVE  /\ environment(o) = environment(e) /\ (isLocal(o) <=> isLocal(e))
         /\ usesSearch(r) => search(o) = search(e)
         /\ usesHTTP(r) => origins(o) = origins(e)
<1>1. o["APP_ENV"] = e["APP_ENV"]
  <2>1. "APP_ENV" \in CommonKeys \ databaseKeys(runtimeDB)
    BY DEF CommonKeys, databaseKeys, runtimeDB
  <2> QED
    BY <2>1 DEF agrees
<1>2. environment(o) = environment(e)
  BY <1>1 DEF environment, value
<1>3. isLocal(o) <=> isLocal(e)
  BY <1>2 DEF isLocal
<1>4. usesSearch(r) => search(o) = search(e)
  BY <1>3 DEF agrees, searchAgrees, search, value
<1>5. usesHTTP(r) => origins(o) = origins(e)
  <2>1. "HTTP_CORS_ORIGINS" \in HTTPKeys \ {"HTTP_PORT"}
    BY DEF HTTPKeys
  <2> QED
    BY <1>3, <2>1 DEF agrees, httpAgrees, origins, value
<1> QED
  BY <1>2, <1>3, <1>4, <1>5

\* They agree on every timeout and number that is read.
LEMMA ParsedAgree ==
  ASSUME NEW r, NEW e, NEW o, agrees(r, e, o)
  PROVE  /\ \A k \in CommonKeys \ databaseKeys(runtimeDB) :
              /\ o[k] = e[k] /\ duration(o, k) = duration(e, k)
              /\ \A f : value(o, k, f) = value(e, k, f) /\ number(o, k, f) = number(e, k, f)
              /\ \A f : int32(o, k, f) = int32(e, k, f)
         /\ usesHTTP(r) => \A k \in HTTPKeys \ {"HTTP_PORT"} :
              /\ o[k] = e[k] /\ duration(o, k) = duration(e, k)
              /\ \A f : value(o, k, f) = value(e, k, f) /\ number(o, k, f) = number(e, k, f)
              /\ \A f : int32(o, k, f) = int32(e, k, f)
         /\ usesOutbox(r) =>
              duration(o, "OUTBOX_POLL_INTERVAL") = duration(e, "OUTBOX_POLL_INTERVAL")
<1>1. \A k : o[k] = e[k] =>
        /\ duration(o, k) = duration(e, k)
        /\ \A f : value(o, k, f) = value(e, k, f) /\ number(o, k, f) = number(e, k, f)
        /\ \A f : int32(o, k, f) = int32(e, k, f)
  BY ValuesAgree
<1> QED
  BY <1>1, Zenon DEF agrees, httpAgrees

\* The keys of the groups.
LEMMA GroupKeys ==
  /\ {"APP_ENV", "LOG_LEVEL", "SHUTDOWN_TIMEOUT", "OTEL_EXPORTER_OTLP_ENDPOINT",
      "DATABASE_MAX_CONNS", "DATABASE_MIN_CONNS"} \subseteq CommonKeys \ databaseKeys(runtimeDB)
  /\ \A i \in DOMAIN poolTimeouts : poolTimeouts[i] \in CommonKeys \ databaseKeys(runtimeDB)
  /\ "DATABASE_STATEMENT_TIMEOUT" \in CommonKeys \ databaseKeys(runtimeDB)
  /\ {"HTTP_RATE_PER_SECOND", "HTTP_RATE_BURST", "HTTP_MAX_HEADER_BYTES", "HTTP_ADDRESS",
      "HTTP_CORS_ORIGINS"} \subseteq HTTPKeys \ {"HTTP_PORT"}
  /\ \A i \in DOMAIN httpTimeouts : httpTimeouts[i] \in HTTPKeys \ {"HTTP_PORT"}
  /\ {"HTTP_REQUEST_TIMEOUT", "HTTP_WRITE_TIMEOUT"} \subseteq HTTPKeys \ {"HTTP_PORT"}
<1>1. {"APP_ENV", "LOG_LEVEL", "SHUTDOWN_TIMEOUT", "OTEL_EXPORTER_OTLP_ENDPOINT",
       "DATABASE_MAX_CONNS", "DATABASE_MIN_CONNS"} \subseteq CommonKeys \ databaseKeys(runtimeDB)
  BY DEF CommonKeys, databaseKeys, runtimeDB
<1>2. {"HTTP_RATE_PER_SECOND", "HTTP_RATE_BURST", "HTTP_MAX_HEADER_BYTES", "HTTP_ADDRESS",
       "HTTP_CORS_ORIGINS"} \subseteq HTTPKeys \ {"HTTP_PORT"}
  BY DEF HTTPKeys
<1>3. PICK p, h : p = poolTimeouts /\ h = httpTimeouts
  OBVIOUS
<1>4. /\ DOMAIN p = 1..5 /\ DOMAIN h = 1..5
      /\ p[1] = "DATABASE_CONNECT_TIMEOUT" /\ p[2] = "DATABASE_PROBE_TIMEOUT"
      /\ p[3] = "DATABASE_MAX_CONN_LIFETIME" /\ p[4] = "DATABASE_MAX_CONN_IDLE_TIME"
      /\ p[5] = "DATABASE_STATEMENT_TIMEOUT"
      /\ h[1] = "HTTP_REQUEST_TIMEOUT" /\ h[2] = "HTTP_READ_HEADER_TIMEOUT"
      /\ h[3] = "HTTP_READ_TIMEOUT" /\ h[4] = "HTTP_WRITE_TIMEOUT" /\ h[5] = "HTTP_IDLE_TIMEOUT"
  BY <1>3 DEF poolTimeouts, httpTimeouts
<1>5. \A i \in 1..5 : /\ p[i] \in CommonKeys /\ p[i] \notin databaseKeys(runtimeDB)
                      /\ h[i] \in HTTPKeys /\ h[i] # "HTTP_PORT"
  <2> SUFFICES ASSUME NEW i \in 1..5
               PROVE  /\ p[i] \in CommonKeys /\ p[i] \notin databaseKeys(runtimeDB)
                      /\ h[i] \in HTTPKeys /\ h[i] # "HTTP_PORT"
    OBVIOUS
  <2>1. p[i] \in ToSet(p) /\ h[i] \in ToSet(h)
    BY <1>4 DEF ToSet
  <2>2. p[i] \in CommonKeys /\ h[i] \in HTTPKeys
    BY <1>3, <2>1 DEF CommonKeys, HTTPKeys
  <2>3. i = 1 \/ i = 2 \/ i = 3 \/ i = 4 \/ i = 5
    OBVIOUS
  <2>4. p[i] \in {"DATABASE_CONNECT_TIMEOUT", "DATABASE_PROBE_TIMEOUT",
          "DATABASE_MAX_CONN_LIFETIME", "DATABASE_MAX_CONN_IDLE_TIME",
          "DATABASE_STATEMENT_TIMEOUT"}
    BY <1>4, <2>3
  <2>5. h[i] # "HTTP_PORT"
    BY <1>4, <2>3
  <2>6. p[i] \notin databaseKeys(runtimeDB)
    BY <2>4 DEF databaseKeys, runtimeDB
  <2> QED
    BY <2>2, <2>5, <2>6
<1>6. 1 \in 1..5 /\ 4 \in 1..5 /\ 5 \in 1..5
  OBVIOUS
<1>7. \A i \in DOMAIN poolTimeouts : poolTimeouts[i] \in CommonKeys \ databaseKeys(runtimeDB)
  BY <1>3, <1>4, <1>5
<1>8. \A i \in DOMAIN httpTimeouts : httpTimeouts[i] \in HTTPKeys \ {"HTTP_PORT"}
  BY <1>3, <1>4, <1>5
<1>9. "DATABASE_STATEMENT_TIMEOUT" \in CommonKeys \ databaseKeys(runtimeDB)
  BY <1>4, <1>5, <1>6
<1>10. {"HTTP_REQUEST_TIMEOUT", "HTTP_WRITE_TIMEOUT"} \subseteq HTTPKeys \ {"HTTP_PORT"}
  BY <1>4, <1>5, <1>6
<1> QED
  BY <1>1, <1>2, <1>7, <1>8, <1>9, <1>10

\* The checks of LoadFor before Validate come out the same.
LEMMA LoadChecksAgree ==
  ASSUME NEW r, NEW e, NEW o, agrees(r, e, o)
  PROVE  loadChecks(r, o) = loadChecks(r, e)
<1>1. parseChecks(r, o) = parseChecks(r, e)
  <2>1. check("SHUTDOWN_TIMEOUT", TRUE, duration(o, "SHUTDOWN_TIMEOUT") > 0) =
        check("SHUTDOWN_TIMEOUT", TRUE, duration(e, "SHUTDOWN_TIMEOUT") > 0)
    <3>1. duration(o, "SHUTDOWN_TIMEOUT") = duration(e, "SHUTDOWN_TIMEOUT")
      BY ParsedAgree, GroupKeys
    <3> QED
      BY <3>1
  <2>2. /\ check("HTTP_RATE_PER_SECOND", usesHTTP(r),
                 value(o, "HTTP_RATE_PER_SECOND", "100") \in DOMAIN Numbers) =
           check("HTTP_RATE_PER_SECOND", usesHTTP(r),
                 value(e, "HTTP_RATE_PER_SECOND", "100") \in DOMAIN Numbers)
        /\ check("HTTP_RATE_BURST", usesHTTP(r),
                 value(o, "HTTP_RATE_BURST", "200") \in DOMAIN Numbers) =
           check("HTTP_RATE_BURST", usesHTTP(r),
                 value(e, "HTTP_RATE_BURST", "200") \in DOMAIN Numbers)
        /\ check("HTTP_MAX_HEADER_BYTES", usesHTTP(r),
                 number(o, "HTTP_MAX_HEADER_BYTES", "32768") > 0) =
           check("HTTP_MAX_HEADER_BYTES", usesHTTP(r),
                 number(e, "HTTP_MAX_HEADER_BYTES", "32768") > 0)
    <3>1. CASE ~usesHTTP(r)
      BY <3>1 DEF check
    <3>2. CASE usesHTTP(r)
      <4>1. /\ value(o, "HTTP_RATE_PER_SECOND", "100") = value(e, "HTTP_RATE_PER_SECOND", "100")
            /\ value(o, "HTTP_RATE_BURST", "200") = value(e, "HTTP_RATE_BURST", "200")
            /\ number(o, "HTTP_MAX_HEADER_BYTES", "32768") =
                 number(e, "HTTP_MAX_HEADER_BYTES", "32768")
        BY <3>2, ParsedAgree, GroupKeys
      <4> QED
        BY <4>1
    <3> QED
      BY <3>1, <3>2
  <2> QED
    BY <2>1, <2>2 DEF parseChecks
<1>2. connectionChecks(o, runtimeDB) = connectionChecks(e, runtimeDB)
  BY ConnectionsAgree DEF agrees
<1>3. poolChecks(o) = poolChecks(e)
  <2>1. /\ int32(o, "DATABASE_MAX_CONNS", "10") = int32(e, "DATABASE_MAX_CONNS", "10")
        /\ int32(o, "DATABASE_MIN_CONNS", "0") = int32(e, "DATABASE_MIN_CONNS", "0")
        /\ duration(o, "DATABASE_STATEMENT_TIMEOUT") = duration(e, "DATABASE_STATEMENT_TIMEOUT")
    BY ParsedAgree, GroupKeys
  <2>2. poolLimits(o) = poolLimits(e)
    BY <2>1 DEF poolLimits
  <2>3. statementCheck(o) = statementCheck(e)
    BY <2>1 DEF statementCheck
  <2>4. \A i \in DOMAIN poolTimeouts : duration(o, poolTimeouts[i]) = duration(e, poolTimeouts[i])
    BY ParsedAgree, GroupKeys
  <2>5. timeoutChecks(poolTimeouts, TRUE, o) = timeoutChecks(poolTimeouts, TRUE, e)
    BY <2>4 DEF timeoutChecks, check
  <2> QED
    BY <2>2, <2>3, <2>5 DEF poolChecks
<1>4. levelChecks(r, o) = levelChecks(r, e)
  <2>1. o["LOG_LEVEL"] = e["LOG_LEVEL"]
    BY ParsedAgree, GroupKeys
  <2>2. outboxCheck(r, o) = outboxCheck(r, e)
    BY ParsedAgree, ZenonT(60) DEF outboxCheck, check
  <2> QED
    BY <2>1, <2>2 DEF levelChecks
<1>5. timeoutChecks(httpTimeouts, usesHTTP(r), o) = timeoutChecks(httpTimeouts, usesHTTP(r), e)
  <2>1. CASE ~usesHTTP(r)
    BY <2>1 DEF timeoutChecks, check
  <2>2. CASE usesHTTP(r)
    <3>1. \A i \in DOMAIN httpTimeouts :
            duration(o, httpTimeouts[i]) = duration(e, httpTimeouts[i])
      BY <2>2, ParsedAgree, GroupKeys
    <3> QED
      BY <3>1 DEF timeoutChecks, check
  <2> QED
    BY <2>1, <2>2
<1> QED
  BY <1>1, <1>2, <1>3, <1>4, <1>5 DEF loadChecks

\* The checks of Validate come out the same.
LEMMA ValidateAgrees ==
  ASSUME NEW r, NEW e, NEW o, agrees(r, e, o)
  PROVE  Validate(r, o) = Validate(r, e)
<1>1. check("APP_ENV", TRUE, environment(o) \in {"development", "test", "staging", "production"}) =
      check("APP_ENV", TRUE, environment(e) \in {"development", "test", "staging", "production"})
  <2>1. environment(o) = environment(e)
    BY CommonAgree
  <2> QED
    BY <2>1
<1>2. check("HTTP_ADDRESS", usesHTTP(r),
            IF o["HTTP_ADDRESS"] # "" THEN o["HTTP_ADDRESS"] \in Addresses
            ELSE value(o, "HTTP_PORT", "8080") \in Ports) =
      check("HTTP_ADDRESS", usesHTTP(r),
            IF e["HTTP_ADDRESS"] # "" THEN e["HTTP_ADDRESS"] \in Addresses
            ELSE value(e, "HTTP_PORT", "8080") \in Ports)
  <2>1. CASE ~usesHTTP(r)
    BY <2>1 DEF check
  <2>2. CASE usesHTTP(r)
    <3>1. o["HTTP_ADDRESS"] = e["HTTP_ADDRESS"]
      BY <2>2, ParsedAgree, GroupKeys
    <3>2. e["HTTP_ADDRESS"] = "" => value(o, "HTTP_PORT", "8080") = value(e, "HTTP_PORT", "8080")
      BY <2>2 DEF agrees, httpAgrees, value
    <3> QED
      BY <3>1, <3>2 DEF check
  <2> QED
    BY <2>1, <2>2
<1>3. check("DATABASE_URL", TRUE, validDatabase(o)) = check("DATABASE_URL", TRUE, validDatabase(e))
  <2>1. connectionURL(o, runtimeDB) = connectionURL(e, runtimeDB)
    BY ConnectionsAgree DEF agrees
  <2>2. isLocal(o) <=> isLocal(e)
    BY CommonAgree
  <2>3. validDatabase(o) <=> validDatabase(e)
    BY <2>1, <2>2 DEF validDatabase
  <2> QED
    BY <2>3 DEF check
<1>4. check("ELASTICSEARCH_URL", usesSearch(r), validURL(search(o), {"http", "https"})) =
      check("ELASTICSEARCH_URL", usesSearch(r), validURL(search(e), {"http", "https"}))
  <2>1. usesSearch(r) => search(o) = search(e)
    BY CommonAgree
  <2> QED
    BY <2>1 DEF check
<1>5. o["OTEL_EXPORTER_OTLP_ENDPOINT"] = e["OTEL_EXPORTER_OTLP_ENDPOINT"]
  BY ParsedAgree, GroupKeys
<1>6. /\ check("HTTP_RATE_PER_SECOND", usesHTTP(r), number(o, "HTTP_RATE_PER_SECOND", "100") > 0) =
         check("HTTP_RATE_PER_SECOND", usesHTTP(r), number(e, "HTTP_RATE_PER_SECOND", "100") > 0)
      /\ check("HTTP_RATE_BURST", usesHTTP(r), number(o, "HTTP_RATE_BURST", "200") > 0) =
         check("HTTP_RATE_BURST", usesHTTP(r), number(e, "HTTP_RATE_BURST", "200") > 0)
  <2>1. CASE ~usesHTTP(r)
    BY <2>1 DEF check
  <2>2. CASE usesHTTP(r)
    <3>1. /\ number(o, "HTTP_RATE_PER_SECOND", "100") = number(e, "HTTP_RATE_PER_SECOND", "100")
          /\ number(o, "HTTP_RATE_BURST", "200") = number(e, "HTTP_RATE_BURST", "200")
      BY <2>2, ParsedAgree, GroupKeys
    <3> QED
      BY <3>1
  <2> QED
    BY <2>1, <2>2
<1>7. timeoutCheck(r, o) = timeoutCheck(r, e)
  <2>1. CASE ~usesHTTP(r)
    BY <2>1 DEF timeoutCheck, check
  <2>2. CASE usesHTTP(r)
    <3>1. /\ duration(o, "HTTP_REQUEST_TIMEOUT") = duration(e, "HTTP_REQUEST_TIMEOUT")
          /\ duration(o, "HTTP_WRITE_TIMEOUT") = duration(e, "HTTP_WRITE_TIMEOUT")
      BY <2>2, ParsedAgree, GroupKeys
    <3> QED
      BY <3>1 DEF timeoutCheck
  <2> QED
    BY <2>1, <2>2
<1>8. check("HTTP_CORS_ORIGINS", usesHTTP(r), \A p \in origins(o) : validOrigin(p)) =
      check("HTTP_CORS_ORIGINS", usesHTTP(r), \A p \in origins(e) : validOrigin(p))
  <2>1. usesHTTP(r) => origins(o) = origins(e)
    BY CommonAgree
  <2> QED
    BY <2>1 DEF check
<1> QED
  BY <1>1, <1>2, <1>3, <1>4, <1>5, <1>6, <1>7, <1>8, ZenonT(60) DEF Validate

\* And so does everything else that is kept of the environment.
LEMMA LoadAgrees ==
  ASSUME NEW r, NEW e, NEW o, agrees(r, e, o)
  PROVE  LoadFor(r, o) = LoadFor(r, e) /\ config(r, o) = config(r, e)
<1>1. LoadFor(r, o) = LoadFor(r, e)
  BY LoadChecksAgree, ValidateAgrees DEF LoadFor
<1>2. /\ environment(o) = environment(e)
      /\ usesSearch(r) => search(o) = search(e)
      /\ usesHTTP(r) => origins(o) = origins(e)
  BY CommonAgree
<1>3. connectionURL(o, runtimeDB) = connectionURL(e, runtimeDB)
  BY ConnectionsAgree DEF agrees
<1>4. /\ int32(o, "DATABASE_MAX_CONNS", "10") = int32(e, "DATABASE_MAX_CONNS", "10")
      /\ int32(o, "DATABASE_MIN_CONNS", "0") = int32(e, "DATABASE_MIN_CONNS", "0")
      /\ duration(o, "SHUTDOWN_TIMEOUT") = duration(e, "SHUTDOWN_TIMEOUT")
      /\ o["OTEL_EXPORTER_OTLP_ENDPOINT"] = e["OTEL_EXPORTER_OTLP_ENDPOINT"]
      /\ o["LOG_LEVEL"] = e["LOG_LEVEL"]
  BY ParsedAgree, GroupKeys
<1>5. [i \in DOMAIN poolTimeouts |-> duration(o, poolTimeouts[i])] =
      [i \in DOMAIN poolTimeouts |-> duration(e, poolTimeouts[i])]
  BY ParsedAgree, GroupKeys
<1>6. usesOutbox(r) => duration(o, "OUTBOX_POLL_INTERVAL") = duration(e, "OUTBOX_POLL_INTERVAL")
  BY ParsedAgree
<1>7. usesHTTP(r) =>
        /\ o["HTTP_ADDRESS"] = e["HTTP_ADDRESS"]
        /\ number(o, "HTTP_RATE_PER_SECOND", "100") = number(e, "HTTP_RATE_PER_SECOND", "100")
        /\ number(o, "HTTP_RATE_BURST", "200") = number(e, "HTTP_RATE_BURST", "200")
        /\ number(o, "HTTP_MAX_HEADER_BYTES", "32768") =
             number(e, "HTTP_MAX_HEADER_BYTES", "32768")
  BY ParsedAgree, GroupKeys
<1>8. usesHTTP(r) /\ e["HTTP_ADDRESS"] = "" =>
        value(o, "HTTP_PORT", "8080") = value(e, "HTTP_PORT", "8080")
  BY DEF agrees, httpAgrees, value
<1>9. usesHTTP(r) =>
        [i \in DOMAIN httpTimeouts |-> duration(o, httpTimeouts[i])] =
        [i \in DOMAIN httpTimeouts |-> duration(e, httpTimeouts[i])]
  BY ParsedAgree, GroupKeys
<1>10. /\ (IF usesSearch(r) THEN search(o) ELSE "") = (IF usesSearch(r) THEN search(e) ELSE "")
       /\ (IF usesHTTP(r) THEN origins(o) ELSE {}) = (IF usesHTTP(r) THEN origins(e) ELSE {})
  BY <1>2
<1>11. (IF usesOutbox(r) THEN duration(o, "OUTBOX_POLL_INTERVAL") ELSE 0) =
       (IF usesOutbox(r) THEN duration(e, "OUTBOX_POLL_INTERVAL") ELSE 0)
  BY <1>6
<1>12. (IF ~usesHTTP(r) THEN <<>>
        ELSE IF o["HTTP_ADDRESS"] # "" THEN <<o["HTTP_ADDRESS"]>>
        ELSE <<"", value(o, "HTTP_PORT", "8080")>>) =
       (IF ~usesHTTP(r) THEN <<>>
        ELSE IF e["HTTP_ADDRESS"] # "" THEN <<e["HTTP_ADDRESS"]>>
        ELSE <<"", value(e, "HTTP_PORT", "8080")>>)
  BY <1>7, <1>8
<1>13. (IF usesHTTP(r)
        THEN <<number(o, "HTTP_RATE_PER_SECOND", "100"), number(o, "HTTP_RATE_BURST", "200"),
               number(o, "HTTP_MAX_HEADER_BYTES", "32768")>> ELSE <<>>) =
       (IF usesHTTP(r)
        THEN <<number(e, "HTTP_RATE_PER_SECOND", "100"), number(e, "HTTP_RATE_BURST", "200"),
               number(e, "HTTP_MAX_HEADER_BYTES", "32768")>> ELSE <<>>)
  BY <1>7
<1>14. (IF usesHTTP(r) THEN [i \in DOMAIN httpTimeouts |-> duration(o, httpTimeouts[i])]
        ELSE <<>>) =
       (IF usesHTTP(r) THEN [i \in DOMAIN httpTimeouts |-> duration(e, httpTimeouts[i])]
        ELSE <<>>)
  BY <1>9
<1>15. level(o) = level(e)
  BY <1>2, <1>4 DEF level
<1> QED
  BY <1>1, <1>2, <1>3, <1>4, <1>5, <1>10, <1>11, <1>12, <1>13, <1>14, <1>15, Zenon DEF config

\* An environment and what a command owns of it agree on what the command reads.
LEMMA OwnAgrees ==
  ASSUME NEW e, command \in servers \cup operators
  PROVE  /\ command \in servers => agrees(command, e, own(e))
         /\ command \in operators => connectionAgrees(e, own(e), migrationDB)
<1>1. PICK o : o = own(e)
  OBVIOUS
<1>2. /\ \A k \in Keys : k \in ownKeys(e) => o[k] = e[k]
      /\ \A k \in Keys : k \notin ownKeys(e) => o[k] = ""
  BY <1>1 DEF own
<1>3. ASSUME command \in operators PROVE connectionAgrees(e, o, migrationDB)
  <2>1. ownKeys(e) = connectionKeys(e, migrationDB)
    BY <1>3 DEF ownKeys
  <2>2. databaseKeys(migrationDB) \subseteq Keys /\ migrationDB.url \in databaseKeys(migrationDB)
    BY DEF Keys, databaseKeys
  <2> QED
    BY <1>2, <2>1, <2>2 DEF connectionAgrees, connectionKeys
<1>4. ASSUME command \in servers PROVE agrees(command, e, o)
  <2>1. ownKeys(e) =
          (CommonKeys \ databaseKeys(runtimeDB)) \cup connectionKeys(e, runtimeDB)
          \cup (IF command = "api"
                THEN HTTPKeys \ (IF e["HTTP_ADDRESS"] # "" THEN {"HTTP_PORT"} ELSE {}) ELSE {})
          \cup (IF command = "worker" THEN {}
                ELSE IF e["ELASTICSEARCH_URL"] # "" THEN {"ELASTICSEARCH_URL"} ELSE {"SEARCH_URL"})
          \cup (IF command = "indexer" THEN {"OUTBOX_POLL_INTERVAL"} ELSE {})
    BY <1>4 DEF ownKeys, servers, operators
  <2>2. CommonKeys \subseteq Keys /\ HTTPKeys \subseteq Keys /\ SearchKeys \subseteq Keys
        /\ OutboxKeys \subseteq Keys
    BY DEF Keys
  <2>3. \A k \in CommonKeys \ databaseKeys(runtimeDB) : o[k] = e[k]
    BY <1>2, <2>1, <2>2
  <2>4. connectionAgrees(e, o, runtimeDB)
    <3>1. databaseKeys(runtimeDB) \subseteq Keys /\ runtimeDB.url \in databaseKeys(runtimeDB)
      BY DEF Keys, CommonKeys, databaseKeys
    <3>2. connectionKeys(e, runtimeDB) \subseteq ownKeys(e)
      BY <2>1
    <3> QED
      BY <1>2, <3>1, <3>2 DEF connectionAgrees, connectionKeys
  <2>5. usesHTTP(command) => httpAgrees(e, o)
    <3> HAVE usesHTTP(command)
    <3>1. command = "api"
      BY <1>4 DEF usesHTTP, servers
    <3>2. HTTPKeys \ {"HTTP_PORT"} \subseteq ownKeys(e)
      BY <2>1, <3>1
    <3>3. \A k \in HTTPKeys \ {"HTTP_PORT"} : o[k] = e[k]
      BY <1>2, <2>2, <3>2
    <3>4. "HTTP_PORT" \in HTTPKeys
      BY DEF HTTPKeys
    <3>5. e["HTTP_ADDRESS"] = "" => "HTTP_PORT" \in ownKeys(e)
      BY <2>1, <3>1, <3>4
    <3> QED
      BY <1>2, <2>2, <3>3, <3>4, <3>5 DEF httpAgrees
  <2>6. usesSearch(command) => searchAgrees(e, o)
    <3> HAVE usesSearch(command)
    <3>1. command # "worker"
      BY DEF usesSearch
    <3>2. "ELASTICSEARCH_URL" \in Keys /\ "SEARCH_URL" \in Keys
      BY DEF Keys, SearchKeys
    <3>3. CASE e["ELASTICSEARCH_URL"] # ""
      <4>1. "ELASTICSEARCH_URL" \in ownKeys(e)
        BY <2>1, <3>1, <3>3
      <4> QED
        BY <1>2, <3>2, <3>3, <4>1 DEF searchAgrees
    <3>4. CASE e["ELASTICSEARCH_URL"] = ""
      <4>1. "SEARCH_URL" \in ownKeys(e)
        BY <2>1, <3>1, <3>4
      <4>2. o["ELASTICSEARCH_URL"] = e["ELASTICSEARCH_URL"]
        BY <1>2, <3>2, <3>4
      <4> QED
        BY <1>2, <3>2, <4>1, <4>2 DEF searchAgrees
    <3> QED
      BY <3>3, <3>4
  <2>7. usesOutbox(command) => o["OUTBOX_POLL_INTERVAL"] = e["OUTBOX_POLL_INTERVAL"]
    <3> HAVE usesOutbox(command)
    <3>1. command = "indexer"
      BY <1>4 DEF usesOutbox, servers
    <3>2. "OUTBOX_POLL_INTERVAL" \in ownKeys(e)
      BY <2>1, <3>1
    <3>3. "OUTBOX_POLL_INTERVAL" \in Keys
      BY DEF Keys, OutboxKeys
    <3> QED
      BY <1>2, <3>2, <3>3
  <2> QED
    BY <2>3, <2>4, <2>5, <2>6, <2>7 DEF agrees
<1> QED
  BY <1>1, <1>3, <1>4

\* Loading what a command owns is loading the whole environment.
LEMMA OwnLoads ==
  ASSUME NEW e, command \in servers \cup operators
  PROVE  loadError(own(e)) = loadError(e) /\ loaded(own(e)) = loaded(e)
<1>1. CASE command \in servers
  <2>1. agrees(command, e, own(e))
    BY <1>1, OwnAgrees
  <2>2. LoadFor(command, own(e)) = LoadFor(command, e) /\ config(command, own(e)) = config(command, e)
    BY <2>1, LoadAgrees
  <2>3. command # "migrate"
    BY <1>1 DEF servers
  <2> QED
    BY <1>1, <2>2, <2>3 DEF loadError, loaded
<1>2. CASE command \in operators
  <2>1. command \notin servers
    BY <1>2 DEF operators, servers
  <2>2. connectionAgrees(e, own(e), migrationDB)
    BY <1>2, OwnAgrees
  <2>3. /\ connectionChecks(own(e), migrationDB) = connectionChecks(e, migrationDB)
        /\ connectionURL(own(e), migrationDB) = connectionURL(e, migrationDB)
    BY <2>2, ConnectionsAgree
  <2>4. MigrationURL(own(e)) = MigrationURL(e)
    BY <2>3 DEF MigrationURL
  <2> QED
    BY <2>1, <2>3, <2>4 DEF loadError, loaded
<1> QED
  BY <1>1, <1>2

-----------------------------------------------------------------------------
(* The process.                                                               *)

\* The errors of Load are none of the components' own.
LEMMA LoadErrors ==
  ASSUME command \in servers \cup operators
  PROVE  \A e : loadError(e) \notin {"invalid database pool limits", "HTTP server"}
<1> SUFFICES ASSUME NEW e
             PROVE  loadError(e) \notin {"invalid database pool limits", "HTTP server"}
  OBVIOUS
<1>1. loadError(e) \in Errors \cup {"usage"}
  <2>1. LoadFor(command, e) \in Errors /\ MigrationURL(e) \in Errors
    BY LoadPasses, MigrationErrors
  <2>2. "migrate" \notin servers
    BY DEF servers
  <2> QED
    BY <2>1, <2>2, Zenon DEF loadError
<1>2. /\ NoError \notin {"invalid database pool limits", "HTTP server"}
      /\ "usage" \notin {"invalid database pool limits", "HTTP server"}
  BY DEF NoError
<1>3. \A x \in Named : x \notin {"invalid database pool limits", "HTTP server"}
  BY NamedKeys
<1> QED
  BY <1>1, <1>2, <1>3, Zenon DEF Errors

\* What a successful Load keeps is something.
LEMMA LoadedSomething ==
  ASSUME command \in servers \cup operators, NEW e, loadError(e) = NoError
  PROVE  loaded(e) # NoConfig
<1>1. CASE command \in servers
  <2>1. PICK c : c = config(command, e)
    OBVIOUS
  <2>2. "otlp" \in DOMAIN c
    BY <2>1 DEF config
  <2>3. DOMAIN NoConfig = {}
    BY DEF NoConfig
  <2>4. c # NoConfig
    BY <2>2, <2>3
  <2> QED
    BY <1>1, <2>1, <2>4 DEF loaded
<1>2. CASE command \in operators
  <2>1. command \notin servers
    BY <1>2 DEF servers, operators
  <2>2. "usage" # NoError
    BY DEF NoError
  <2>3. MigrationURL(e) = NoError
    BY <2>1, <2>2, Zenon DEF loadError
  <2>4. connectionURL(e, migrationDB) # <<>>
    BY <2>3, MigrationErrors
  <2> QED
    BY <2>1, <2>4 DEF loaded, NoConfig
<1> QED
  BY <1>1, <1>2

\* What is kept of the environment on the way to running, and the first error.
Loaded ==
  /\ command \in servers \cup operators
  /\ phase \in {"started", "loaded", "connected", "running", "failed", "exited"}
  /\ phase = "started" => cfg = NoConfig
  /\ phase \in {"loaded", "connected"} => loadError(env) = NoError /\ cfg = loaded(env)
  /\ phase = "running" => env = Unset
  /\ phase = "failed" /\ cfg = NoConfig /\ env # Unset /\ ~isProbe => error = loadError(env)
  /\ AcceptedStarts

\* Loaded is inductive: a component refuses a configuration only by an error that
\* LoadFor would have reported.
LEMMA LoadedInvariant == Spec => []Loaded
<1>1. Init => Loaded
  <2> SUFFICES ASSUME Init PROVE Loaded
    OBVIOUS
  <2>1. AcceptedStarts
    BY DEF Init, AcceptedStarts
  <2> QED
    BY <2>1 DEF Init, Loaded
<1>2. Loaded /\ [Next]_vars => Loaded'
  <2> SUFFICES ASSUME Loaded, [Next]_vars PROVE Loaded'
    OBVIOUS
  <2>1. command \in servers \cup operators
    BY DEF Loaded
  <2>2. CASE Load
    <3>1. /\ command' = command /\ arg' = arg /\ env' = env
          /\ phase = "started" /\ ~isProbe /\ cfg = NoConfig
      BY <2>2 DEF Load, Loaded
    <3>2. CASE loadError(env) # ""
      <4>1. phase' = "failed" /\ error' = loadError(env) /\ cfg' = cfg
        BY <2>2, <3>2 DEF Load, fail
      <4>2. AcceptedStarts'
        BY <2>1, <4>1, LoadErrors DEF AcceptedStarts
      <4>3. loadError(env)' = loadError(env)
        BY <3>1 DEF loadError
      <4> QED
        BY <2>1, <3>1, <4>1, <4>2, <4>3 DEF Loaded
    <3>3. CASE loadError(env) = ""
      <4>1. phase' = "loaded" /\ cfg' = loaded(env) /\ error' = error
        BY <2>2, <3>3 DEF Load
      <4>2. AcceptedStarts'
        BY <4>1 DEF Loaded, AcceptedStarts
      <4>3. loadError(env)' = NoError /\ loaded(env)' = loaded(env)
        BY <3>1, <3>3 DEF loadError, loaded, NoError
      <4> QED
        BY <2>1, <3>1, <4>1, <4>2, <4>3 DEF Loaded
    <3> QED
      BY <3>2, <3>3
  <2>3. CASE Connect
    <3>1. /\ command' = command /\ arg' = arg /\ env' = env
          /\ phase = "loaded" /\ loadError(env) = NoError /\ cfg = loaded(env)
      BY <2>3 DEF Connect, Loaded
    <3>2. cfg' = cfg /\ cfg # NoConfig
      <4>1. cfg # NoConfig
        BY <2>1, <3>1, LoadedSomething
      <4>2. cfg' = cfg
        BY <2>3 DEF Connect, fail
      <4> QED
        BY <4>1, <4>2
    <3>3. command \in servers => poolAccepts(cfg)
      <4> HAVE command \in servers
      <4>1. command # "migrate"
        BY DEF servers
      <4>2. LoadFor(command, env) = NoError /\ cfg = config(command, env)
        BY <3>1, <4>1 DEF loadError, loaded
      <4>3. \A r, e : LoadFor(r, e) = NoError => poolAccepts(config(r, e))
        BY PoolAccepted
      <4> QED
        BY <4>2, <4>3, Zenon
    <3>4. \/ phase' = "failed" /\ error' = "database"
          \/ phase' = "connected" /\ error' = error
      BY <2>3, <3>3 DEF Connect, fail
    <3>5. AcceptedStarts'
      BY <3>4 DEF Loaded, AcceptedStarts
    <3>6. loadError(env)' = NoError /\ loaded(env)' = cfg
      BY <3>1 DEF loadError, loaded
    <3> QED
      BY <2>1, <3>1, <3>2, <3>4, <3>5, <3>6 DEF Loaded
  <2>4. CASE Start
    <3>1. /\ command' = command /\ arg' = arg
          /\ phase = "connected" /\ loadError(env) = NoError /\ cfg = loaded(env)
      BY <2>4 DEF Start, Loaded
    <3>2. command = "api" => serverAccepts(cfg)
      <4>1. "api" \in servers
        BY DEF servers
      <4> QED
        BY <3>1, <4>1, ServerAccepted DEF loadError, loaded
    <3>3. cfg # NoConfig
      BY <2>1, <3>1, LoadedSomething
    <3>4. \/ phase' = "failed" /\ error' = "listen or tracing" /\ cfg' = cfg
          \/ phase' = "running" /\ error' = error /\ env' = Unset
      BY <2>4, <3>2 DEF Start, fail
    <3>5. AcceptedStarts'
      BY <3>4 DEF Loaded, AcceptedStarts
    <3>6. Unset' = Unset /\ NoConfig' = NoConfig
      BY DEF Unset, NoConfig
    <3> QED
      BY <2>1, <3>1, <3>3, <3>4, <3>5, <3>6 DEF Loaded
  <2>5. CASE Log
    <3>1. phase = "running" /\ UNCHANGED <<command, arg, env, cfg, phase, error>>
      BY <2>5 DEF Log
    <3>2. AcceptedStarts'
      BY <3>1 DEF Loaded, AcceptedStarts
    <3> QED
      BY <2>1, <3>1, <3>2 DEF Loaded
  <2>6. CASE Stop
    <3>1. phase' = "exited" /\ command' = command /\ error' = error
      BY <2>6 DEF Stop
    <3>2. AcceptedStarts'
      BY <3>1 DEF Loaded, AcceptedStarts
    <3> QED
      BY <2>1, <3>1, <3>2 DEF Loaded
  <2>7. CASE Break
    <3>1. phase' = "failed" /\ error' = "work" /\ command' = command /\ env' = env /\ env = Unset
      BY <2>7 DEF Break, fail, Loaded
    <3>2. AcceptedStarts'
      BY <3>1 DEF AcceptedStarts
    <3>3. Unset' = Unset
      BY DEF Unset
    <3> QED
      BY <2>1, <3>1, <3>2, <3>3 DEF Loaded
  <2>8. CASE CheckHealth
    <3>1. isProbe /\ command' = command /\ arg' = arg
      BY <2>8 DEF CheckHealth
    <3>2. isProbe'
      BY <3>1 DEF isProbe
    <3>3. \/ phase' = "failed" /\ error' = "health"
          \/ phase' = "exited" /\ error' = error
      BY <2>8 DEF CheckHealth, fail
    <3>4. AcceptedStarts'
      BY <3>3 DEF Loaded, AcceptedStarts
    <3> QED
      BY <2>1, <3>1, <3>2, <3>3, <3>4 DEF Loaded
  <2>9. CASE Fail
    <3>1. phase' = "exited" /\ command' = command /\ error' = error
      BY <2>9 DEF Fail
    <3>2. AcceptedStarts'
      BY <3>1 DEF Loaded, AcceptedStarts
    <3> QED
      BY <2>1, <3>1, <3>2 DEF Loaded
  <2>10. CASE UNCHANGED vars
    <3>1. UNCHANGED <<command, arg, env, cfg, phase, error>>
      BY <2>10 DEF vars
    <3>2. loadError(env)' = loadError(env) /\ loaded(env)' = loaded(env)
      BY <3>1 DEF loadError, loaded
    <3>3. isProbe' = isProbe /\ AcceptedStarts'
      BY <3>1 DEF isProbe, Loaded, AcceptedStarts
    <3> QED
      BY <3>1, <3>2, <3>3 DEF Loaded
  <2> QED
    BY <2>2, <2>3, <2>4, <2>5, <2>6, <2>7, <2>8, <2>9, <2>10 DEF Next
<1> QED
  BY <1>1, <1>2, PTL DEF Spec

\* Whatever configuration LoadFor accepts, database.Open, httpserver.New, the
\* limiter and CORS accept too, for every environment and every parser: a started
\* process does not die of a limit.
THEOREM AcceptedStartsAlways == Spec => []AcceptedStarts
<1>1. Loaded => AcceptedStarts
  BY DEF Loaded
<1> QED
  BY <1>1, LoadedInvariant, PTL

\* A command starts, or is refused, as if only its own settings were there
\* (LoadFor, connectionURL, MigrationURL), for every environment.
THEOREM ReadsOnlyItsSettingsAlways == Spec => []ReadsOnlyItsSettings
<1>1. Loaded => ReadsOnlyItsSettings
  <2> SUFFICES ASSUME Loaded PROVE ReadsOnlyItsSettings
    OBVIOUS
  <2>1. loadError(own(env)) = loadError(env) /\ loaded(own(env)) = loaded(env)
    BY OwnLoads DEF Loaded
  <2>2. phase = "loaded" => loadError(own(env)) = "" /\ cfg = loaded(own(env))
    BY <2>1 DEF Loaded, NoError
  <2>3. phase = "failed" /\ cfg = NoConfig /\ env # Unset /\ ~isProbe =>
          error = loadError(own(env))
    BY <2>1 DEF Loaded
  <2> QED
    BY <2>2, <2>3 DEF ReadsOnlyItsSettings
<1> QED
  BY <1>1, LoadedInvariant, PTL

-----------------------------------------------------------------------------
(* The loggers.                                                               *)

Op == [op : {"attr", "group"}, what : {"service", "old", "new"} \cup Groups]

\* The slice of a logger is the history of its derivation, in an array that is full.
derivation(l) ==
  /\ loggers[l].array \in 1..Len(heap)
  /\ heap[loggers[l].array] = path[l]
  /\ loggers[l].len = Len(path[l])

Derived ==
  /\ lazy \in {"old", "new"}
  /\ heap \in Seq(Seq(Op)) /\ path \in Seq(Seq(Op))
  /\ loggers \in Seq([array : Nat, len : Nat]) /\ Len(loggers) = Len(path)
  /\ \A l \in 1..Len(loggers) : derivation(l)

Recorded ==
  /\ phase \in {"started", "loaded", "connected"} => record = NoRecord
  /\ record.logger # 0 => record.logger \in 1..Len(path)
  /\ RecordsCarryOwnPath

\* A record carries the derivation p and the identifiers of some context.
carries(rec, p) ==
  \E i, j \in IDs \cup {""} :
    rec = handled(rec.logger, WithTraceID(WithRequestID(background, i), j), p)

\* What With and WithGroup add to a derivation.
LEMMA OpTyped ==
  /\ attr("service") \in Op /\ attr("old") \in Op /\ attr("new") \in Op
  /\ \A g \in Groups : group(g) \in Op
BY DEF Op, attr, group

\* The operations of a logger are those of its derivation.
LEMMA OperationsDerived ==
  ASSUME Derived, NEW l \in 1..Len(loggers)
  PROVE  operations(l) = path[l] /\ path[l] \in Seq(Op)
<1>1. heap[loggers[l].array] = path[l] /\ loggers[l].len = Len(path[l])
  BY DEF Derived, derivation
<1>2. path[l] \in Seq(Op)
  BY ElementOfSeq DEF Derived
<1>3. PICK p : p = path[l]
  OBVIOUS
<1>4. SubSeq(p, 1, Len(p)) = p
  BY <1>2, <1>3, SubSeqFull
<1>5. operations(l) = SubSeq(p, 1, Len(p))
  BY <1>1, <1>3 DEF operations
<1> QED
  BY <1>2, <1>3, <1>4, <1>5

\* New makes the handler and the logger of the process.
LEMMA NewDerived ==
  ASSUME New, lazy \in {"old", "new"}
  PROVE  Derived' /\ Len(path') = 2 /\ path'[2] = <<attr("service")>>
<1>1. PICK a : a = attr("service")
  OBVIOUS
<1>2. a \in Op
  BY <1>1, OpTyped
<1>3. PICK n, s : n = <<>> /\ s = <<a>>
  OBVIOUS
<1>4. n \in Seq(Op) /\ s \in Seq(Op) /\ Len(n) = 0 /\ Len(s) = 1
  BY <1>2, <1>3
<1>5. heap' = <<n, s>> /\ path' = <<n, s>> /\ lazy' = lazy
  BY <1>1, <1>3 DEF New
<1>6. PICK u, v : u = [array |-> 1, len |-> 0] /\ v = [array |-> 2, len |-> 1]
  OBVIOUS
<1>7. /\ u \in [array : Nat, len : Nat] /\ v \in [array : Nat, len : Nat]
      /\ u.array = 1 /\ u.len = 0 /\ v.array = 2 /\ v.len = 1
  BY <1>6
<1>8. loggers' = <<u, v>>
  BY <1>6 DEF New
<1>9. /\ heap' \in Seq(Seq(Op)) /\ path' \in Seq(Seq(Op))
      /\ Len(heap') = 2 /\ Len(path') = 2
      /\ heap'[1] = n /\ heap'[2] = s /\ path'[1] = n /\ path'[2] = s
  BY <1>4, <1>5
<1>10. /\ loggers' \in Seq([array : Nat, len : Nat]) /\ Len(loggers') = 2
       /\ loggers'[1] = u /\ loggers'[2] = v
  BY <1>7, <1>8
<1>11. \A l \in 1..Len(loggers') : derivation(l)'
  <2> SUFFICES ASSUME NEW l \in 1..2 PROVE derivation(l)'
    BY <1>10
  <2>1. CASE l = 1
    BY <1>4, <1>7, <1>9, <1>10, <2>1 DEF derivation
  <2>2. CASE l = 2
    BY <1>4, <1>7, <1>9, <1>10, <2>2 DEF derivation
  <2> QED
    BY <2>1, <2>2
<1>12. Derived'
  BY <1>5, <1>9, <1>10, <1>11 DEF Derived
<1> QED
  BY <1>1, <1>3, <1>9, <1>12

\* A derivation leaves the loggers there are as they are.
LEMMA DeriveDerived ==
  ASSUME Derived, NEW l \in 1..Len(loggers), NEW op \in Op, derive(l, op)
  PROVE  /\ Derived' /\ record' = record
         /\ Len(path') = Len(path) + 1 /\ \A k \in 1..Len(path) : path'[k] = path[k]
<1>1. PICK p : p = Append(path[l], op)
  OBVIOUS
<1>2. /\ operations(l) = path[l] /\ path[l] \in Seq(Op)
  BY OperationsDerived
<1>3. p \in Seq(Op) /\ Len(p) = Len(path[l]) + 1
  BY <1>1, <1>2, AppendProperties
<1>4. PICK v : v = [array |-> Len(heap) + 1, len |-> loggers[l].len + 1]
  OBVIOUS
<1>5. Len(heap) \in Nat /\ loggers[l].len = Len(path[l]) /\ Len(path[l]) \in Nat
  BY <1>2 DEF Derived, derivation
<1>6. v \in [array : Nat, len : Nat] /\ v.array = Len(heap) + 1 /\ v.len = Len(p)
  BY <1>3, <1>4, <1>5
<1>7. heap' = Append(heap, p) /\ path' = Append(path, p) /\ loggers' = Append(loggers, v)
  BY <1>1, <1>2, <1>4 DEF derive, withOperation
<1>8. lazy' = lazy /\ record' = record
  BY DEF derive
<1>9. /\ heap' \in Seq(Seq(Op)) /\ Len(heap') = Len(heap) + 1 /\ heap'[Len(heap) + 1] = p
      /\ \A k \in 1..Len(heap) : heap'[k] = heap[k]
  BY <1>3, <1>7, AppendProperties DEF Derived
<1>10. /\ path' \in Seq(Seq(Op)) /\ Len(path') = Len(path) + 1 /\ path'[Len(path) + 1] = p
       /\ \A k \in 1..Len(path) : path'[k] = path[k]
  BY <1>3, <1>7, AppendProperties DEF Derived
<1>11. /\ loggers' \in Seq([array : Nat, len : Nat]) /\ Len(loggers') = Len(loggers) + 1
       /\ loggers'[Len(loggers) + 1] = v
       /\ \A k \in 1..Len(loggers) : loggers'[k] = loggers[k]
  <2>1. PICK S : S = [array : Nat, len : Nat]
    OBVIOUS
  <2>2. v \in S /\ loggers \in Seq(S)
    BY <1>6, <2>1 DEF Derived
  <2>3. PICK m : m = Append(loggers, v)
    OBVIOUS
  <2>4. /\ m \in Seq(S) /\ Len(m) = Len(loggers) + 1 /\ m[Len(loggers) + 1] = v
        /\ \A k \in 1..Len(loggers) : m[k] = loggers[k]
    BY <2>2, <2>3, AppendProperties
  <2> QED
    BY <1>7, <2>1, <2>3, <2>4
<1>12. Len(loggers) = Len(path) /\ Len(path) \in Nat
  BY DEF Derived
<1>13. \A k \in 1..Len(loggers') : derivation(k)'
  <2> SUFFICES ASSUME NEW k \in 1..Len(loggers') PROVE derivation(k)'
    OBVIOUS
  <2>1. CASE k \in 1..Len(loggers)
    <3>1. derivation(k)
      BY <2>1 DEF Derived
    <3>2. loggers'[k] = loggers[k] /\ path'[k] = path[k]
      BY <1>10, <1>11, <1>12, <2>1
    <3>3. heap'[loggers[k].array] = heap[loggers[k].array] /\ loggers[k].array \in 1..Len(heap')
      <4>1. PICK i : i = loggers[k].array
        OBVIOUS
      <4>2. i \in 1..Len(heap)
        BY <3>1, <4>1 DEF derivation
      <4>3. i \in 1..Len(heap')
        BY <1>5, <1>9, <4>2
      <4>4. heap'[i] = heap[i]
        BY <1>9, <4>2
      <4> QED BY <4>1, <4>3, <4>4
    <3> QED
      BY <3>1, <3>2, <3>3 DEF derivation
  <2>2. CASE k = Len(loggers) + 1
    <3>1. loggers'[k] = v /\ path'[k] = p
      BY <1>10, <1>11, <1>12, <2>2
    <3>2. v.array \in 1..Len(heap') /\ heap'[v.array] = p
      BY <1>5, <1>6, <1>9
    <3> QED
      BY <1>6, <3>1, <3>2 DEF derivation
  <2>3. k \in 1..Len(loggers) \/ k = Len(loggers) + 1
    <3>1. PICK n : n = Len(loggers)
      OBVIOUS
    <3>2. n \in Nat /\ k \in 1..(n + 1)
      BY <1>11, <1>12, <3>1
    <3>3. k \in 1..n \/ k = n + 1
      BY <3>2
    <3> QED BY <3>1, <3>3
  <2> QED
    BY <2>1, <2>2, <2>3
<1>14. Derived'
  BY <1>8, <1>9, <1>10, <1>11, <1>12, <1>13 DEF Derived
<1> QED
  BY <1>8, <1>10, <1>14

\* A record names its logger.
LEMMA HandledNamed == \A l, c, ops : handled(l, c, ops).logger = l
BY DEF handled

\* Before the first record there is no logger to name.
LEMMA NoRecordCarries == NoRecord.logger = 0
BY DEF NoRecord

\* What RecordsCarryOwnPath says of the last record, before and after a step.
LEMMA CarriedRecord ==
  /\ RecordsCarryOwnPath <=> (record.logger # 0 => carries(record, path[record.logger]))
  /\ RecordsCarryOwnPath' <=> (record'.logger # 0 => carries(record', path'[record'.logger]))
BY DEF RecordsCarryOwnPath, carries

\* The loggers and the last record are in order.
LoggersRight == Derived /\ Recorded

\* The slices of the loggers stay the histories of their derivations, and the last
\* record was made of one.
LEMMA LoggersInvariant == Spec => []LoggersRight
<1>1. Init => LoggersRight
  <2> SUFFICES ASSUME Init PROVE LoggersRight
    OBVIOUS
  <2>1. /\ heap = <<>> /\ loggers = <<>> /\ path = <<>> /\ lazy = "old" /\ record = NoRecord
    BY DEF Init, LogInit
  <2>2. /\ heap \in Seq(Seq(Op)) /\ path \in Seq(Seq(Op))
        /\ loggers \in Seq([array : Nat, len : Nat]) /\ Len(loggers) = 0 /\ Len(path) = 0
    BY <2>1
  <2>3. Derived
    BY <2>1, <2>2 DEF Derived
  <2>4. Recorded
    BY <2>1, NoRecordCarries DEF Recorded, RecordsCarryOwnPath
  <2> QED
    BY <2>3, <2>4 DEF LoggersRight
<1>2. Loaded /\ LoggersRight /\ [Next]_vars => LoggersRight'
  <2> SUFFICES ASSUME Loaded, LoggersRight, [Next]_vars PROVE LoggersRight'
    OBVIOUS
  <2>1. Derived /\ Recorded /\ lazy \in {"old", "new"}
    BY DEF LoggersRight, Derived
  <2>2. ASSUME UNCHANGED logVars, phase' \notin {"started", "loaded", "connected"} \/ record = NoRecord
        PROVE  LoggersRight'
    <3>1. UNCHANGED <<heap, loggers, lazy, record, path>>
      BY <2>2 DEF logVars
    <3>2. Derived'
      BY <2>1, <3>1 DEF Derived, derivation
    <3>3. RecordsCarryOwnPath'
      BY <2>1, <3>1, CarriedRecord DEF Recorded
    <3>4. Recorded'
      BY <2>1, <2>2, <3>1, <3>3 DEF Recorded, NoRecord
    <3> QED
      BY <3>2, <3>4 DEF LoggersRight
  <2>3. ASSUME New, record' = NoRecord PROVE LoggersRight'
    <3>1. Derived'
      BY <2>1, <2>3, NewDerived
    <3>2. record'.logger = 0
      BY <2>3, NoRecordCarries
    <3>3. Recorded'
      BY <2>3, <3>2, CarriedRecord DEF Recorded, NoRecord
    <3> QED
      BY <3>1, <3>3 DEF LoggersRight
  <2>4. CASE Load
    <3>1. phase = "started" /\ record = NoRecord
      BY <2>1, <2>4 DEF Load, Recorded
    <3>2. UNCHANGED logVars \/ (New /\ record' = record)
      <4>1. CASE loadError(env) # ""
        BY <2>4, <4>1 DEF Load, fail
      <4>2. CASE loadError(env) = "" /\ command \in servers
        BY <2>4, <4>2, Zenon DEF Load
      <4>3. CASE loadError(env) = "" /\ command \notin servers
        BY <2>4, <4>3 DEF Load
      <4> QED
        BY <4>1, <4>2, <4>3
    <3> QED
      BY <2>2, <2>3, <3>1, <3>2
  <2>5. CASE Connect
    <3>1. phase = "loaded" /\ record = NoRecord
      BY <2>1, <2>5 DEF Connect, Recorded
    <3>2. UNCHANGED logVars \/ (New /\ record' = record)
      <4>1. PICK bad : bad = (command \in servers /\ cfg.database # <<>> /\ ~poolAccepts(cfg))
        OBVIOUS
      <4>2. CASE bad
        BY <2>5, <4>1, <4>2 DEF Connect, fail
      <4>3. CASE ~bad
        <5>1. \/ fail("database")
              \/ IF command = "migrate" THEN New /\ UNCHANGED record ELSE UNCHANGED logVars
          BY <2>5, <4>1, <4>3 DEF Connect
        <5>2. ASSUME fail("database") PROVE UNCHANGED logVars
          BY <5>2 DEF fail
        <5> QED
          BY <5>1, <5>2
      <4> QED
        BY <4>2, <4>3
    <3> QED
      BY <2>2, <2>3, <3>1, <3>2
  <2>6. CASE Start
    <3>1. UNCHANGED logVars /\ phase' \in {"failed", "running"}
      BY <2>6 DEF Start, fail
    <3> QED
      BY <2>2, <3>1
  <2>7. CASE Stop \/ Break \/ CheckHealth
    <3>1. UNCHANGED logVars /\ phase' \in {"failed", "exited"}
      BY <2>7 DEF Stop, Break, CheckHealth, fail
    <3> QED
      BY <2>2, <3>1
  <2>8. CASE Fail
    <3>1. phase' = "exited"
      BY <2>8 DEF Fail
    <3>2. CASE command = "importdata"
      BY <2>2, <2>8, <3>1, <3>2 DEF Fail
    <3>3. CASE command # "importdata"
      <4>1. New /\ record' = handled(2, background, <<attr("service")>>)
        BY <2>8, <3>3, Zenon DEF Fail, Failure
      <4>2. Derived' /\ Len(path') = 2 /\ path'[2] = <<attr("service")>>
        BY <2>1, <4>1, NewDerived
      <4>3. background = WithTraceID(WithRequestID(background, ""), "")
        <5>1. \A x : [[requestID |-> x, traceID |-> x] EXCEPT !.requestID = x] =
                       [requestID |-> x, traceID |-> x]
          OBVIOUS
        <5>2. \A x : [[requestID |-> x, traceID |-> x] EXCEPT !.traceID = x] =
                       [requestID |-> x, traceID |-> x]
          OBVIOUS
        <5> QED
          BY <5>1, <5>2, Zenon DEF background, WithTraceID, WithRequestID
      <4>4. record' = handled(2, WithTraceID(WithRequestID(background, ""), ""), path'[2])
        BY <4>1, <4>2, <4>3
      <4>5. record'.logger = 2
        BY <4>4, HandledNamed
      <4>6. RecordsCarryOwnPath'
        BY <4>4, <4>5, CarriedRecord, Zenon DEF carries
      <4>7. Recorded'
        BY <3>1, <4>2, <4>5, <4>6 DEF Recorded
      <4> QED
        BY <4>2, <4>7 DEF LoggersRight
    <3> QED
      BY <3>2, <3>3
  <2>9. CASE Log
    <3>1. phase' = "running" /\ LogNext
      BY <2>9 DEF Log
    <3>2. CASE Change
      <4>1. lazy' = "new" /\ UNCHANGED <<heap, loggers, record, path>>
        BY <3>2 DEF Change
      <4>2. Derived'
        BY <2>1, <4>1 DEF Derived, derivation
      <4>3. RecordsCarryOwnPath'
        BY <2>1, <4>1, CarriedRecord DEF Recorded
      <4>4. Recorded'
        BY <2>1, <3>1, <4>1, <4>3 DEF Recorded
      <4> QED
        BY <4>2, <4>4 DEF LoggersRight
    <3>3. ASSUME NEW l \in 1..Len(loggers), NEW op \in Op, derive(l, op) PROVE LoggersRight'
      <4>1. /\ Derived' /\ record' = record
            /\ Len(path') = Len(path) + 1 /\ \A k \in 1..Len(path) : path'[k] = path[k]
        BY <2>1, <3>3, DeriveDerived
      <4>2. Len(path) \in Nat
        BY <2>1 DEF Derived
      <4>3. record.logger # 0 => path'[record.logger] = path[record.logger]
        BY <2>1, <4>1 DEF Recorded
      <4>4. RecordsCarryOwnPath'
        BY <2>1, <4>1, <4>3, CarriedRecord DEF Recorded
      <4>5. Recorded'
        BY <2>1, <3>1, <4>1, <4>2, <4>4 DEF Recorded
      <4> QED
        BY <4>1, <4>5 DEF LoggersRight
    <3>4. ASSUME NEW l \in 1..Len(loggers), NEW i \in IDs, NEW j \in IDs,
                 Handle(l, WithTraceID(WithRequestID(background, i), j))
          PROVE  LoggersRight'
      <4>1. /\ record' = handled(l, WithTraceID(WithRequestID(background, i), j), operations(l))
            /\ UNCHANGED <<heap, loggers, lazy, path>>
        BY <3>4 DEF Handle
      <4>2. operations(l) = path[l] /\ Len(loggers) = Len(path)
        BY <2>1, <3>4, OperationsDerived DEF Derived
      <4>3. record' = handled(l, WithTraceID(WithRequestID(background, i), j), path'[l])
        BY <4>1, <4>2
      <4>4. record'.logger = l
        BY <4>3, HandledNamed
      <4>5. Derived'
        BY <2>1, <4>1 DEF Derived, derivation
      <4>6. RecordsCarryOwnPath'
        BY <4>3, <4>4, CarriedRecord, Zenon DEF carries
      <4>7. Recorded'
        BY <3>1, <4>1, <4>2, <4>4, <4>6 DEF Recorded
      <4> QED
        BY <4>5, <4>7 DEF LoggersRight
    <3>5. ASSUME NEW l \in 2..Len(loggers),
                 \/ WithAttrs(l)
                 \/ \E g \in Groups : WithGroup(l, g)
                 \/ \E i, j \in IDs : Handle(l, WithTraceID(WithRequestID(background, i), j))
          PROVE  LoggersRight'
      <4>1. l \in 1..Len(loggers)
        BY <2>1 DEF Derived
      <4>2. CASE WithAttrs(l)
        <5>1. attr(lazy) \in Op
          BY <2>1, OpTyped
        <5> QED
          BY <3>3, <4>1, <4>2, <5>1 DEF WithAttrs
      <4>3. CASE \E g \in Groups : WithGroup(l, g)
        BY <3>3, <4>1, <4>3, OpTyped DEF WithGroup
      <4>4. CASE \E i, j \in IDs : Handle(l, WithTraceID(WithRequestID(background, i), j))
        BY <3>4, <4>1, <4>4
      <4> QED
        BY <3>5, <4>2, <4>3, <4>4
    <3> QED
      BY <3>1, <3>2, <3>5 DEF LogNext
  <2>10. CASE UNCHANGED vars
    <3>1. UNCHANGED logVars /\ phase' = phase
      BY <2>10 DEF vars
    <3> QED
      BY <2>1, <2>2, <3>1 DEF Recorded
  <2> QED
    BY <2>4, <2>5, <2>6, <2>7, <2>8, <2>9, <2>10 DEF Next
<1> QED
  BY <1>1, <1>2, LoadedInvariant, PTL DEF Spec

\* A record carries its own logger's derivation and its own context's identifiers
\* (contextHandler.withOperation, Handle), for any number of loggers and however
\* their derivations interleave.
THEOREM RecordsCarryOwnPathAlways == Spec => []RecordsCarryOwnPath
<1>1. LoggersRight => RecordsCarryOwnPath
  BY DEF LoggersRight, Recorded
<1> QED
  BY <1>1, LoggersInvariant, PTL
=============================================================================
