------------------------------ MODULE Process ------------------------------
(***************************************************************************)
(* One process from its environment to its exit code: the commands of cmd/, *)
(* newApp, RunMigrate and RunImportData (internal/bootstrap), over what      *)
(* Configuration makes of the environment and with the loggers of Logging.   *)
(* What happens between startup and exit is the subject of Lifecycle,        *)
(* Migration and SourceImport; here it only succeeds or fails.               *)
(***************************************************************************)
EXTENDS Configuration, Logging

CONSTANTS Environments \* the environments a process may be given

VARIABLES
  command, \* the binary
  arg,     \* its argument if it is one the command knows, otherwise ""
  env,     \* the environment variables
  cfg,     \* App.cfg, or the connection of an operator command
  phase,   \* how far the process is
  error,   \* what failed first, "" if nothing has
  exit     \* the exit code, -1 before the process has ended

vars == <<command, arg, env, cfg, phase, error, exit, logVars>>

servers == {"api", "indexer", "worker"}
operators == {"migrate", "importdata"}
arguments(c) ==
  CASE c = "api"     -> {"", "healthcheck"}
    [] c = "migrate" -> {"", "up", "status", "adopt-legacy"}
    [] OTHER         -> {""}
Unset == [k \in Keys |-> ""]
NoConfig == <<>>

isProbe == command = "api" /\ arg = "healthcheck"

\* What newApp, RunMigrate and RunImportData answer to an environment.
loadError(e) ==
  CASE command \in servers                -> LoadFor(command, e)
    [] command = "migrate" /\ arg = ""    -> "usage"
    [] OTHER                              -> MigrationURL(e)
loaded(e) ==
  IF command \in servers THEN config(command, e) ELSE connectionURL(e, migrationDB)

Init ==
  /\ command \in servers \cup operators
  /\ arg \in arguments(command)
  /\ env \in Environments
  /\ cfg = NoConfig /\ phase = "started" /\ error = "" /\ exit = -1
  /\ LogInit

fail(why) == phase' = "failed" /\ error' = why /\ UNCHANGED <<cfg, logVars>>

\* A server has its logger from here on, migrate only when it is connected.
Load ==
  /\ phase = "started" /\ ~isProbe
  /\ IF loadError(env) # "" THEN fail(loadError(env))
     ELSE /\ phase' = "loaded" /\ cfg' = loaded(env)
          /\ IF command \in servers THEN New /\ UNCHANGED record ELSE UNCHANGED logVars
          /\ UNCHANGED error
  /\ UNCHANGED <<command, arg, env, exit>>

\* database.Open, NewMigrator, pgx.Connect: the limits, then the server.
Connect ==
  /\ phase = "loaded"
  /\ IF command \in servers /\ cfg.database # <<>> /\ ~poolAccepts(cfg)
     THEN fail("invalid database pool limits")
     ELSE \/ fail("database") /\ (command \in servers => cfg.database # <<>>)
          \/ /\ phase' = "connected"
             /\ IF command = "migrate" THEN New /\ UNCHANGED record ELSE UNCHANGED logVars
             /\ UNCHANGED <<cfg, error>>
  /\ UNCHANGED <<command, arg, env, exit>>

\* The api listens, starts tracing and builds its server; the others start at once.
\* Neither cfg nor the environment is kept: of the two only ShutdownTimeout is
\* read again, and that is the deadline of Lifecycle.
Start ==
  /\ phase = "connected"
  /\ \/ command = "api" /\ fail("listen or tracing") /\ UNCHANGED env
     \/ IF command = "api" /\ ~serverAccepts(cfg)
        THEN fail("HTTP server") /\ UNCHANGED env
        ELSE /\ phase' = "running" /\ cfg' = NoConfig /\ env' = Unset
             /\ UNCHANGED <<error, logVars>>
  /\ UNCHANGED <<command, arg, exit>>

Log ==
  /\ phase = "running" /\ command # "importdata"
  /\ LogNext
  /\ UNCHANGED <<command, arg, env, cfg, phase, error, exit>>

\* A signal stops a server at any time; an operator command has done its work
\* (a signal makes it fail, at Connect or Break).
Stop ==
  /\ phase \in (IF command \in servers THEN {"loaded", "connected", "running"} ELSE {"running"})
  /\ phase' = "exited" /\ exit' = 0
  /\ UNCHANGED <<command, arg, env, cfg, error, logVars>>

\* Serving, migrating, importing or cleaning up fails.
Break ==
  /\ phase = "running"
  /\ fail("work")
  /\ UNCHANGED <<command, arg, env, exit>>

\* checkHealth: one request to another process.
CheckHealth ==
  /\ phase = "started" /\ isProbe
  /\ \/ phase' = "exited" /\ exit' = 0 /\ UNCHANGED <<cfg, error, logVars>>
     \/ fail("health") /\ UNCHANGED exit
  /\ UNCHANGED <<command, arg, env>>

\* LogFailure and os.Exit(1); importdata writes to stderr instead.
Fail ==
  /\ phase = "failed"
  /\ phase' = "exited" /\ exit' = 1
  /\ IF command = "importdata" THEN UNCHANGED logVars ELSE Failure
  /\ UNCHANGED <<command, arg, env, cfg, error>>

Next == Load \/ Connect \/ Start \/ Log \/ Stop \/ Break \/ CheckHealth \/ Fail

Spec == Init /\ [][Next]_vars

-----------------------------------------------------------------------------
(* The settings of a command, as the table of configs/README.md lists them:   *)
(* an explicit address or URL makes its parts ignored.                        *)

connectionKeys(e, db) == IF e[db.url] # "" THEN {db.url} ELSE databaseKeys(db)
ownKeys(e) ==
  IF command \in operators THEN connectionKeys(e, migrationDB)
  ELSE (CommonKeys \ databaseKeys(runtimeDB)) \cup connectionKeys(e, runtimeDB)
       \cup (IF command = "api"
             THEN HTTPKeys \ (IF e["HTTP_ADDRESS"] # "" THEN {"HTTP_PORT"} ELSE {}) ELSE {})
       \cup (IF command = "worker" THEN {}
             ELSE IF e["ELASTICSEARCH_URL"] # "" THEN {"ELASTICSEARCH_URL"} ELSE {"SEARCH_URL"})
       \cup (IF command = "indexer" THEN {"OUTBOX_POLL_INTERVAL"} ELSE {})
own(e) == [k \in Keys |-> IF k \in ownKeys(e) THEN e[k] ELSE ""]

\* A process starts, or is refused, exactly as if only the settings of its own
\* runtime were there: a wrong HTTP setting never stops a worker, a runtime's
\* credentials never reach a migration, and a part that an explicit URL or
\* address replaces is not looked at (config.LoadFor, connectionURL, MigrationURL).
ReadsOnlyItsSettings ==
  /\ phase = "loaded" => loadError(own(env)) = "" /\ cfg = loaded(own(env))
  /\ phase = "failed" /\ cfg = NoConfig /\ env # Unset /\ ~isProbe =>
       error = loadError(own(env))

\* Whatever configuration LoadFor accepts, the components built from it later
\* accept too (database.Open, httpserver.New, stack, NewLimiter, CORS): a process
\* that has bound its port or opened its pool does not then die of a limit.
AcceptedStarts == error \notin {"invalid database pool limits", "HTTP server"}

\* A record carries the attributes and groups of its own logger's derivation and
\* the identifiers of its own context, at the root, whatever other loggers were
\* derived from the same parent in between (contextHandler.withOperation, Handle).
RecordsCarryOwnPath ==
  record.logger # 0 =>
    \E i, j \in IDs \cup {""} :
      record = handled(record.logger, WithTraceID(WithRequestID(background, i), j),
                       path[record.logger])

=============================================================================
