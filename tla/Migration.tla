----------------------------- MODULE Migration -----------------------------
(***************************************************************************)
(* Concurrent runs of cmd/migrate (internal/platform/database/migrate.go,   *)
(* internal/bootstrap/migrate.go), the readiness check of the runtimes      *)
(* (pool.go, Ready) and the DBA's provisioning scripts on one database.     *)
(*                                                                          *)
(* goose and PostgreSQL are external: Up holds a session advisory lock,     *)
(* creates the version table with version 0 and runs each pending version   *)
(* and its row of the table in one transaction.  Tables a run creates are   *)
(* seen by others when it commits.                                          *)
(***************************************************************************)
EXTENDS Naturals, Sequences, FiniteSets

CONSTANTS
  Migrators, \* concurrent runs of the command
  Probes,    \* runtimes that open the database or are asked for readiness
  NoOne      \* the advisory lock is free

ASSUME MigrationAssumption == NoOne \notin Migrators

SchemaVersion == 3

\* What the runtime role can be granted: the baseline tables, the table of
\* migration 3, and reading the version table.
Tables == {"places", "source_records", "ledger"}

VARIABLES
  legacy,  \* schema_migrations and the baseline tables made by hand: "absent",
           \* "baseline", "drifted" or "badLedger"
  ledger,  \* goose_db_version in order of id; empty: no such table
  schema,  \* the versions whose objects exist
  cycle,   \* a hierarchy has a cycle
  writer,  \* a transaction begun under the baseline trigger: "none", "began",
           \* or "wrote", when it holds its table lock
  straddled, \* history: such a transaction committed after migration 2
  role,    \* address_runtime exists
  late,    \* history: it was created while migration 3 was open
  granted, \* what it may use
  lock,    \* the holder of goose's session lock
  pc,      \* where each run of the command is
  adopt,   \* its command: adopt-legacy or up
  next,    \* the version it applies next; 0 outside Up
  grants,  \* the grants of its open transaction
  result,  \* what it returned
  probe,   \* where each Ready call is: "none", "version", or its verdict
  adopted  \* history: a run with adopt-legacy recorded version 1

writerVars == <<cycle, writer, straddled>>
envVars == <<legacy, writerVars, role, late, probe>>
runVars == <<lock, pc, adopt, next, grants, result, adopted>>
vars == <<envVars, ledger, schema, granted, runVars>>

Verdicts == {"unavailable", "mismatch", "privileges", "ready"}

TypeOK ==
  /\ legacy \in {"absent", "baseline", "drifted", "badLedger"}
  /\ ledger \in Seq(0..SchemaVersion)
  /\ schema \in SUBSET (1..SchemaVersion)
  /\ cycle \in BOOLEAN /\ role \in BOOLEAN /\ adopted \in BOOLEAN
  /\ writer \in {"none", "began", "wrote"}
  /\ straddled \in BOOLEAN /\ late \in BOOLEAN
  /\ granted \in SUBSET Tables
  /\ lock \in Migrators \cup {NoOne}
  /\ pc \in [Migrators -> {"idle", "lock", "up", "commit", "done"}]
  /\ adopt \in [Migrators -> BOOLEAN]
  /\ next \in [Migrators -> 0..SchemaVersion + 1]
  /\ grants \in [Migrators -> SUBSET Tables]
  /\ result \in [Migrators -> {"none", "ok", "legacyDetected", "legacyRequired",
                               "legacyLedger", "legacyDrift", "cycle", "failed"}]
  /\ probe \in [Probes -> {"none", "version"} \cup Verdicts]

\* A fresh volume, or one that was set up by hand from the baseline script.
Init ==
  /\ legacy \in {"absent", "baseline", "drifted", "badLedger"}
  /\ ledger = <<>> /\ schema = {} /\ cycle = FALSE
  /\ writer = "none" /\ straddled = FALSE
  /\ role = FALSE /\ late = FALSE /\ granted = {}
  /\ lock = NoOne
  /\ pc = [m \in Migrators |-> "idle"]
  /\ adopt = [m \in Migrators |-> FALSE]
  /\ next = [m \in Migrators |-> 0]
  /\ grants = [m \in Migrators |-> {}]
  /\ result = [m \in Migrators |-> "none"]
  /\ probe = [p \in Probes |-> "none"]
  /\ adopted = FALSE

\* The baseline tables exist.
baselineTables == legacy # "absent" \/ 1 \in schema

\* The first version that is pending: one above the last recorded.
version == ledger[Len(ledger)] + 1

-----------------------------------------------------------------------------
(* RunMigrate.                                                              *)

\* The command: up, or adopt-legacy, which only changes the baseline step.
RunMigrate(m) ==
  /\ pc[m] \in {"idle", "done"}
  /\ pc' = [pc EXCEPT ![m] = "lock"]
  /\ \E a \in BOOLEAN : adopt' = [adopt EXCEPT ![m] = a]
  /\ result' = [result EXCEPT ![m] = "none"]
  /\ UNCHANGED <<envVars, ledger, schema, granted, lock, next, grants, adopted>>

\* return: the transaction, if any, is rolled back and the session closed.
return(m, r) ==
  /\ pc' = [pc EXCEPT ![m] = "done"]
  /\ result' = [result EXCEPT ![m] = r]
  /\ next' = [next EXCEPT ![m] = 0]
  /\ grants' = [grants EXCEPT ![m] = {}]
  /\ lock' = IF lock = m THEN NoOne ELSE lock

\* Mutant: the provider is built without a session locker.
NoSessionLock(m) ==
  /\ pc[m] = "lock"
  /\ lock' = m
  /\ pc' = [pc EXCEPT ![m] = "up"]
  /\ ledger' = IF ledger = <<>> THEN <<0>> ELSE ledger
  /\ next' = [next EXCEPT ![m] = version']
  /\ UNCHANGED <<envVars, schema, granted, adopt, grants, result, adopted>>

\* goose: take the session lock, make the version table and read, once, which
\* versions are pending.
SessionLock(m) ==
  /\ pc[m] = "lock" /\ lock = NoOne
  /\ lock' = m
  /\ pc' = [pc EXCEPT ![m] = "up"]
  /\ ledger' = IF ledger = <<>> THEN <<0>> ELSE ledger
  /\ next' = [next EXCEPT ![m] = version']
  /\ UNCHANGED <<envVars, schema, granted, adopt, grants, result, adopted>>

\* Mutant: the newest migration is not among the sources.
UpShort(m) ==
  /\ pc[m] = "up" /\ next[m] >= SchemaVersion
  /\ return(m, "ok")
  /\ UNCHANGED <<envVars, ledger, schema, granted, adopt, adopted>>

\* Nothing is pending: the run has succeeded.
UpDone(m) ==
  /\ pc[m] = "up" /\ next[m] > SchemaVersion
  /\ return(m, "ok")
  /\ UNCHANGED <<envVars, ledger, schema, granted, adopt, adopted>>

\* A migration has run in its transaction, with the grants it makes.
ran(m, g) ==
  /\ pc' = [pc EXCEPT ![m] = "commit"]
  /\ grants' = [grants EXCEPT ![m] = g]
  /\ UNCHANGED <<lock, next, result>>

\* Mutant: the structure is not compared.
verifyLedgerOnly == IF legacy = "badLedger" THEN "legacyLedger" ELSE "ok"

\* verifyLegacy: the hand-made ledger first, then the structure against the
\* baseline built beside it and rolled back.
verifyLegacy ==
  CASE legacy = "badLedger" -> "legacyLedger"
    [] legacy = "drifted" -> "legacyDrift"
    [] OTHER -> "ok"

\* Version 1: an existing legacy schema is adopted only on demand and after
\* verification, and only a fresh database gets the baseline.
Baseline(m) ==
  /\ pc[m] = "up" /\ next[m] = 1
  /\ \/ legacy # "absent" /\ ~adopt[m] /\ return(m, "legacyDetected")
     \/ /\ legacy # "absent" /\ adopt[m]
        /\ IF verifyLegacy = "ok" THEN ran(m, {}) ELSE return(m, verifyLegacy)
     \/ legacy = "absent" /\ adopt[m] /\ return(m, "legacyRequired")
     \/ legacy = "absent" /\ ~adopt[m] /\ ran(m, {})
  /\ UNCHANGED <<envVars, ledger, schema, granted, adopt, adopted>>

\* Version 2: lock the tables, which waits for who has written, refuse a cycle,
\* grant the runtime role what exists, replace the triggers.
HierarchySerializable(m) ==
  /\ pc[m] = "up" /\ next[m] = 2 /\ writer # "wrote"
  /\ \/ cycle /\ return(m, "cycle")
     \/ ~cycle /\ ran(m, IF role THEN {"places", "ledger"} ELSE {})
  /\ UNCHANGED <<envVars, ledger, schema, granted, adopt, adopted>>

\* Mutant: the cycle check runs without LOCK TABLE.
tablesUnlocked == FALSE

\* LOCK TABLE ... SHARE ROW EXCLUSIVE holds writers off until that commits.
tablesLocked == \E m \in Migrators : pc[m] = "commit" /\ next[m] = 2

\* Mutant: the new table is not granted.
SourceRecordsUngranted(m) ==
  /\ pc[m] = "up" /\ next[m] = 3
  /\ ran(m, {})
  /\ UNCHANGED <<envVars, ledger, schema, granted, adopt, adopted>>

\* Version 3: source_records and its grants.
SourceRecords(m) ==
  /\ pc[m] = "up" /\ next[m] = 3
  /\ ran(m, IF role THEN {"source_records"} ELSE {})
  /\ UNCHANGED <<envVars, ledger, schema, granted, adopt, adopted>>

\* goose commits the objects, the grants and the version row together.
Commit(m) ==
  /\ pc[m] = "commit"
  /\ ledger' = Append(ledger, next[m])
  /\ schema' = schema \cup {next[m]}
  /\ next' = [next EXCEPT ![m] = @ + 1]
  /\ granted' = granted \cup grants[m]
  /\ adopted' = (adopted \/ (next[m] = 1 /\ adopt[m]))
  /\ pc' = [pc EXCEPT ![m] = "up"]
  /\ grants' = [grants EXCEPT ![m] = {}]
  /\ UNCHANGED <<envVars, lock, adopt, result>>

\* The process or the connection dies, a statement or the five minutes time
\* out (also while waiting for the lock).
Fail(m) ==
  /\ pc[m] \in {"lock", "up", "commit"}
  /\ return(m, "failed")
  /\ UNCHANGED <<envVars, ledger, schema, granted, adopt, adopted>>

-----------------------------------------------------------------------------
(* The DBA, the writers and the runtimes.                                   *)

\* database_roles.sql creates the role in a transaction of its own, which may
\* come after an open migration has looked for the role ...
CreateRole ==
  /\ ~role /\ role' = TRUE
  /\ late' = (\E m \in Migrators : pc[m] = "commit" /\ next[m] = 3)
  /\ UNCHANGED <<legacy, writerVars, probe, ledger, schema, granted, runVars>>

\* ... and database_access.sql grants it the tables that are there.
Access ==
  /\ role
  /\ granted' = granted \cup
       (IF baselineTables THEN {"places"} ELSE {}) \cup
       (IF 3 \in schema THEN {"source_records"} ELSE {}) \cup
       (IF ledger # <<>> THEN {"ledger"} ELSE {})
  /\ UNCHANGED <<envVars, ledger, schema, runVars>>

\* A transaction that moves rows takes its snapshot under the baseline trigger
\* (what those do that begin after migration 2 is Hierarchy's subject) ...
WriterBegins ==
  /\ baselineTables /\ 2 \notin schema /\ writer = "none"
  /\ writer' = "began"
  /\ UNCHANGED <<legacy, cycle, straddled, role, late, probe, ledger, schema,
                 granted, runVars>>

\* ... its update waits for LOCK TABLE ...
WriterWrites ==
  /\ writer = "began" /\ ~tablesLocked
  /\ writer' = "wrote"
  /\ UNCHANGED <<legacy, cycle, straddled, role, late, probe, ledger, schema,
                 granted, runVars>>

\* ... and its commit closes a cycle if a move it has not seen was committed in
\* the meantime: write skew.
WriterCommits ==
  /\ writer = "wrote" /\ writer' = "none"
  /\ cycle' \in {cycle, TRUE}
  /\ straddled' = (straddled \/ 2 \in schema)
  /\ UNCHANGED <<legacy, role, late, probe, ledger, schema, granted, runVars>>

WriterAborts ==
  /\ writer # "none" /\ writer' = "none"
  /\ UNCHANGED <<legacy, cycle, straddled, role, late, probe, ledger, schema,
                 granted, runVars>>

\* The operator repairs a cycle.
Repair ==
  /\ cycle /\ cycle' = FALSE
  /\ UNCHANGED <<legacy, writer, straddled, role, late, probe, ledger, schema,
                 granted, runVars>>

verdict(p, v) ==
  /\ probe' = [probe EXCEPT ![p] = v]
  /\ UNCHANGED <<legacy, writerVars, role, late, ledger, schema, granted, runVars>>

\* Ready, first statement: the last applied version.
ReadyVersion(p) ==
  /\ role /\ probe[p] # "version"
  /\ \/ /\ "ledger" \notin granted
        /\ verdict(p, "unavailable")
     \/ /\ "ledger" \in granted
        /\ verdict(p, IF ledger[Len(ledger)] = SchemaVersion THEN "version"
                      ELSE "mismatch")

\* Ready, second statement: the privileges on places and outbox_events.
ReadyPrivileges(p) ==
  /\ probe[p] = "version"
  /\ verdict(p, IF "places" \in granted THEN "ready" ELSE "privileges")

Next ==
  \/ \E m \in Migrators :
       \/ RunMigrate(m) \/ SessionLock(m) \/ UpDone(m) \/ Baseline(m)
       \/ HierarchySerializable(m) \/ SourceRecords(m) \/ Commit(m) \/ Fail(m)
  \/ CreateRole \/ Access
  \/ WriterBegins \/ WriterWrites \/ WriterCommits \/ WriterAborts \/ Repair
  \/ \E p \in Probes : ReadyVersion(p) \/ ReadyPrivileges(p)

Spec == Init /\ [][Next]_vars

-----------------------------------------------------------------------------
(* Properties.                                                              *)

\* However the runs interleave and die, each version is applied exactly once
\* and in order, and the ledger names exactly the objects that exist.
LedgerMatchesSchema ==
  /\ \A i \in 1..Len(ledger) : ledger[i] = i - 1
  /\ schema = {ledger[i] : i \in 2..Len(ledger)}

\* A schema made by hand is touched only after an explicit adoption, and one
\* that is not the baseline never.
LegacyAdoptedOnDemand ==
  legacy # "absent" /\ schema # {} => adopted /\ legacy = "baseline"

\* Once the serializable triggers are there, no cycle is, unless a transaction
\* that took its snapshot before them has committed after them: what migration 2
\* checked still holds when it commits, whoever writes around it.
NoCycleAfterUpgrade == 2 \in schema /\ ~straddled => ~cycle

\* A run that reports success leaves, and found, the schema of this binary.
SuccessMeansCurrent ==
  \A m \in Migrators : result[m] = "ok" => schema = 1..SchemaVersion

\* A runtime that is ready has the schema of its binary and may use every table,
\* however runs, failures, provisioning scripts and the two statements of Ready
\* interleave, with one exception.  Ready "checks reachability, migrated schema
\* and runtime table privileges" (pool.go:52), but it asks for the privileges on
\* two tables only (pool.go:68): a role that migration 3, already open, did not
\* find can be ready without the privileges on source_records.
ReadyMeansUsable ==
  \A p \in Probes :
    probe[p] = "ready" =>
      /\ schema = 1..SchemaVersion
      /\ {"places", "ledger"} \subseteq granted
      /\ granted = Tables \/ late

-----------------------------------------------------------------------------
(* The inductive invariant behind them (proved in MigrationProofs).          *)

\* Only the holder of the session lock is inside Up, and what it read about
\* the ledger is still so.
LockHeld ==
  \A m \in Migrators : pc[m] \in {"up", "commit"} =>
    lock = m /\ ledger # <<>> /\ next[m] = version

\* What an open migration transaction has checked is still true.
CheckedStillTrue ==
  \A m \in Migrators : pc[m] = "commit" =>
    /\ next[m] \in 1..SchemaVersion
    /\ next[m] = 1 /\ legacy # "absent" => adopt[m] /\ legacy = "baseline"
    /\ next[m] = 2 => ~cycle /\ writer # "wrote"

IInv ==
  /\ TypeOK /\ LedgerMatchesSchema /\ LockHeld /\ CheckedStillTrue
  /\ LegacyAdoptedOnDemand /\ NoCycleAfterUpgrade /\ SuccessMeansCurrent

=============================================================================
