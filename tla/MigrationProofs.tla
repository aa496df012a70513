--------------------------- MODULE MigrationProofs ---------------------------
(***************************************************************************)
(* Proofs about Migration for any number of concurrent runs of the command. *)
(***************************************************************************)
EXTENDS Migration, SequenceTheorems, TLAPS

\* The next version is the length of the ledger, version 0 included.
LEMMA VersionIsLength ==
  ASSUME TypeOK, LedgerMatchesSchema, ledger # <<>>
  PROVE  version = Len(ledger) /\ Len(ledger) \in 1..SchemaVersion + 1
<1>0. ledger \in Seq(0..SchemaVersion)
  BY DEF TypeOK
<1>1. Len(ledger) \in Nat /\ Len(ledger) >= 1
  BY <1>0, EmptySeq
<1>2. ledger[Len(ledger)] = Len(ledger) - 1
  BY <1>1 DEF LedgerMatchesSchema
<1>3. ledger[Len(ledger)] \in 0..SchemaVersion
  <2>1. Len(ledger) \in 1..Len(ledger)
    BY <1>1
  <2> QED
    BY <1>0, <2>1, ElementOfSeq, Zenon
<1> QED
  BY <1>1, <1>2, <1>3 DEF version, SchemaVersion

\* The initial state satisfies the invariant.
LEMMA InitInv == Init => IInv
<1> SUFFICES ASSUME Init PROVE IInv
  OBVIOUS
<1>1. TypeOK
  <2>1. next \in [Migrators -> 0..SchemaVersion + 1]
    BY DEF Init, SchemaVersion
  <2> QED
    BY <2>1, MigrationAssumption, EmptySeq DEF Init, TypeOK, Tables
<1>2. LedgerMatchesSchema
  BY EmptySeq DEF Init, LedgerMatchesSchema
<1> QED
  BY <1>1, <1>2 DEF Init, IInv, LockHeld, CheckedStillTrue,
     LegacyAdoptedOnDemand, NoCycleAfterUpgrade, SuccessMeansCurrent

\* A step that leaves the ledger and the schema alone.
LEMMA SameLedger ==
  ASSUME LedgerMatchesSchema, UNCHANGED <<ledger, schema>>
  PROVE  LedgerMatchesSchema' /\ version' = version
BY DEF LedgerMatchesSchema, version

\* The steps of the DBA, the writers and the probes.
LEMMA EnvironmentInv ==
  ASSUME IInv,
         \/ CreateRole \/ Access
         \/ WriterBegins \/ WriterWrites \/ WriterCommits \/ WriterAborts \/ Repair
         \/ \E p \in Probes : ReadyVersion(p) \/ ReadyPrivileges(p)
  PROVE  IInv'
<1> USE DEF IInv
<1>1. UNCHANGED <<legacy, ledger, schema, lock, pc, adopt, next, grants, result,
                adopted>>
  BY DEF CreateRole, Access, WriterBegins, WriterWrites, WriterCommits, WriterAborts,
         Repair, ReadyVersion, ReadyPrivileges, verdict, envVars, runVars
<1>2. LedgerMatchesSchema' /\ version' = version
  BY <1>1, SameLedger
<1>3. LockHeld'
  BY <1>1, <1>2 DEF LockHeld
<1>4. LegacyAdoptedOnDemand' /\ SuccessMeansCurrent'
  BY <1>1 DEF LegacyAdoptedOnDemand, SuccessMeansCurrent
<1>5. CASE WriterBegins \/ WriterWrites \/ WriterCommits \/ WriterAborts \/ Repair
  <2>1. UNCHANGED <<role, late, granted, probe>>
    BY <1>5 DEF WriterBegins, WriterWrites, WriterCommits, WriterAborts, Repair
  <2>2. cycle' \in BOOLEAN /\ straddled' \in BOOLEAN /\ writer' \in {"none", "began", "wrote"}
    BY <1>5 DEF TypeOK, WriterBegins, WriterWrites, WriterCommits, WriterAborts, Repair
  <2>3. TypeOK'
    BY <1>1, <2>1, <2>2 DEF TypeOK
  <2>4. ASSUME NEW m \in Migrators, pc[m] = "commit", next[m] = 2
        PROVE  ~cycle' /\ writer' # "wrote"
    <3>1. ~cycle /\ writer # "wrote" /\ tablesLocked
      BY <2>4 DEF CheckedStillTrue, tablesLocked
    <3>2. ~WriterWrites /\ ~WriterCommits
      BY <3>1 DEF WriterWrites, WriterCommits
    <3> QED
      BY <1>5, <3>1, <3>2 DEF WriterBegins, WriterAborts, Repair
  <2>5. CheckedStillTrue'
    BY <1>1, <2>4 DEF CheckedStillTrue
  <2>6. NoCycleAfterUpgrade'
    BY <1>1, <1>5 DEF NoCycleAfterUpgrade, WriterBegins, WriterWrites, WriterCommits,
       WriterAborts, Repair
  <2> QED
    BY <1>2, <1>3, <1>4, <2>3, <2>5, <2>6
<1>6. CASE \/ CreateRole \/ Access
           \/ \E p \in Probes : ReadyVersion(p) \/ ReadyPrivileges(p)
  <2>1. UNCHANGED <<cycle, writer, straddled>>
    BY <1>6 DEF CreateRole, Access, ReadyVersion, ReadyPrivileges, verdict, envVars,
       writerVars
  <2>2. role' \in BOOLEAN /\ late' \in BOOLEAN
    BY <1>6 DEF TypeOK, CreateRole, Access, ReadyVersion, ReadyPrivileges, verdict,
       envVars
  <2>3. granted' \in SUBSET Tables
    BY <1>6 DEF TypeOK, CreateRole, Access, ReadyVersion, ReadyPrivileges, verdict,
       Tables
  <2>4. probe' \in [Probes -> {"none", "version"} \cup Verdicts]
    BY <1>6 DEF TypeOK, CreateRole, Access, ReadyVersion, ReadyPrivileges, verdict,
       Verdicts, envVars
  <2>5. TypeOK'
    BY <1>1, <2>1, <2>2, <2>3, <2>4 DEF TypeOK
  <2>6. CheckedStillTrue' /\ NoCycleAfterUpgrade'
    BY <1>1, <2>1 DEF CheckedStillTrue, NoCycleAfterUpgrade
  <2> QED
    BY <1>2, <1>3, <1>4, <2>5, <2>6
<1> QED
  BY <1>5, <1>6

\* A run that returns without success: whatever it had open is gone.
LEMMA ReturnInv ==
  ASSUME IInv, NEW m \in Migrators, NEW r \in {"legacyDetected", "legacyRequired",
           "legacyLedger", "legacyDrift", "cycle", "failed"},
         return(m, r), UNCHANGED <<envVars, ledger, schema, granted, adopt, adopted>>
  PROVE  IInv'
<1> USE DEF IInv, envVars, writerVars
<1>1. LedgerMatchesSchema' /\ version' = version
  BY SameLedger
<1>2. TypeOK'
  BY DEF TypeOK, return, SchemaVersion
<1>3. LockHeld'
  BY <1>1 DEF TypeOK, LockHeld, return
<1>4. CheckedStillTrue'
  BY DEF TypeOK, CheckedStillTrue, return
<1>5. SuccessMeansCurrent'
  BY DEF TypeOK, SuccessMeansCurrent, return
<1> QED
  BY <1>1, <1>2, <1>3, <1>4, <1>5 DEF LegacyAdoptedOnDemand, NoCycleAfterUpgrade

\* A migration has run in its transaction, all its checks passed.
LEMMA RanInv ==
  ASSUME IInv, NEW m \in Migrators, NEW g \in SUBSET Tables, pc[m] = "up",
         ran(m, g), UNCHANGED <<envVars, ledger, schema, granted, adopt, adopted>>,
         next[m] \in 1..SchemaVersion,
         next[m] = 1 /\ legacy # "absent" => adopt[m] /\ legacy = "baseline",
         next[m] = 2 => ~cycle /\ writer # "wrote"
  PROVE  IInv'
<1> USE DEF IInv, envVars, writerVars
<1>1. LedgerMatchesSchema' /\ version' = version
  BY SameLedger
<1>2. TypeOK'
  BY DEF TypeOK, ran
<1>3. LockHeld'
  BY <1>1 DEF TypeOK, LockHeld, ran
<1>4. CheckedStillTrue'
  BY DEF TypeOK, CheckedStillTrue, ran
<1>5. SuccessMeansCurrent'
  BY DEF SuccessMeansCurrent, ran
<1> QED
  BY <1>1, <1>2, <1>3, <1>4, <1>5 DEF LegacyAdoptedOnDemand, NoCycleAfterUpgrade

\* The command starts, or starts again.
LEMMA RunMigrateInv ==
  ASSUME IInv, NEW m \in Migrators, RunMigrate(m)
  PROVE  IInv'
<1> USE DEF IInv, envVars, writerVars
<1>1. LedgerMatchesSchema' /\ version' = version
  BY SameLedger DEF RunMigrate
<1>2. TypeOK'
  BY DEF TypeOK, RunMigrate
<1>3. LockHeld'
  BY <1>1 DEF TypeOK, LockHeld, RunMigrate
<1>4. CheckedStillTrue'
  BY DEF TypeOK, CheckedStillTrue, RunMigrate
<1>5. SuccessMeansCurrent'
  BY DEF TypeOK, SuccessMeansCurrent, RunMigrate
<1> QED
  BY <1>1, <1>2, <1>3, <1>4, <1>5 DEF LegacyAdoptedOnDemand,
     NoCycleAfterUpgrade, RunMigrate

\* Taking the lock: nobody else is inside Up, and an empty ledger gets its
\* first row.
LEMMA SessionLockInv ==
  ASSUME IInv, NEW m \in Migrators, SessionLock(m)
  PROVE  IInv'
<1> USE DEF IInv, envVars, writerVars
<1>0. /\ lock = NoOne /\ lock' = m /\ pc[m] = "lock"
      /\ pc' = [pc EXCEPT ![m] = "up"]
      /\ ledger' = IF ledger = <<>> THEN <<0>> ELSE ledger
      /\ next' = [next EXCEPT ![m] = version']
      /\ UNCHANGED <<envVars, schema, granted, adopt, grants, result, adopted>>
  BY DEF SessionLock
<1>1. \A k \in Migrators : pc[k] \notin {"up", "commit"}
  BY <1>0, MigrationAssumption DEF LockHeld
<1>2. \A k \in Migrators : pc'[k] # "commit"
  BY <1>0, <1>1 DEF TypeOK
<1>3. LedgerMatchesSchema'
  <2>1. CASE ledger = <<>>
    <3>1. schema = {}
      BY <2>1 DEF LedgerMatchesSchema
    <3>2. ledger' = <<0>> /\ schema' = {}
      BY <1>0, <2>1, <3>1
    <3> QED
      BY <3>2 DEF LedgerMatchesSchema
  <2>2. CASE ledger # <<>>
    BY <1>0, <2>2, SameLedger
  <2> QED
    BY <2>1, <2>2
<1>4. TypeOK'
  <2>1. <<0>> \in Seq(0..SchemaVersion)
    BY DEF SchemaVersion
  <2>2. version' \in 0..SchemaVersion + 1
    <3>1. CASE ledger = <<>>
      BY <1>0, <3>1 DEF version, SchemaVersion
    <3>2. CASE ledger # <<>>
      <4>1. version \in 1..SchemaVersion + 1
        BY <3>2, VersionIsLength
      <4>2. version' = version
        BY <1>0, <3>2 DEF version
      <4> QED
        BY <4>1, <4>2 DEF SchemaVersion
    <3> QED
      BY <3>1, <3>2
  <2>3. next' \in [Migrators -> 0..SchemaVersion + 1]
    BY <1>0, <2>2 DEF TypeOK
  <2> QED
    BY <1>0, <2>1, <2>3 DEF TypeOK
<1>5. LockHeld'
  BY <1>0, <1>1 DEF TypeOK, LockHeld
<1>6. CheckedStillTrue'
  BY <1>2 DEF CheckedStillTrue
<1> QED
  BY <1>0, <1>3, <1>4, <1>5, <1>6 DEF LegacyAdoptedOnDemand,
     NoCycleAfterUpgrade, SuccessMeansCurrent

\* Success is reported only when the ledger is complete.
LEMMA UpDoneInv ==
  ASSUME IInv, NEW m \in Migrators, UpDone(m)
  PROVE  IInv'
<1> USE DEF IInv, envVars, writerVars
<1>1. LedgerMatchesSchema' /\ version' = version
  BY SameLedger DEF UpDone
<1>2. schema = 1..SchemaVersion
  <2>1. pc[m] = "up" /\ version > SchemaVersion
    BY DEF UpDone, LockHeld
  <2>2. ledger # <<>>
    BY <2>1 DEF LockHeld
  <2>3. version = Len(ledger) /\ Len(ledger) \in 1..SchemaVersion + 1
    BY <2>2, VersionIsLength
  <2>4. Len(ledger) = SchemaVersion + 1
    BY <2>1, <2>3 DEF SchemaVersion
  <2> QED
    BY <2>4 DEF LedgerMatchesSchema, SchemaVersion
<1>3. TypeOK'
  BY DEF TypeOK, UpDone, return, SchemaVersion
<1>4. LockHeld'
  BY <1>1 DEF TypeOK, LockHeld, UpDone, return
<1>5. CheckedStillTrue'
  BY DEF TypeOK, CheckedStillTrue, UpDone, return
<1>6. SuccessMeansCurrent'
  BY <1>2 DEF TypeOK, SuccessMeansCurrent, UpDone, return
<1> QED
  BY <1>1, <1>3, <1>4, <1>5, <1>6 DEF LegacyAdoptedOnDemand,
     NoCycleAfterUpgrade, UpDone

\* Version 1: refused, verified or built.
LEMMA BaselineInv ==
  ASSUME IInv, NEW m \in Migrators, Baseline(m)
  PROVE  IInv'
<1>1. UNCHANGED <<envVars, ledger, schema, granted, adopt, adopted>>
  BY DEF Baseline
<1>2. verifyLegacy \in {"ok", "legacyLedger", "legacyDrift"}
      /\ (verifyLegacy = "ok" => legacy \notin {"badLedger", "drifted"})
  BY DEF verifyLegacy
<1>3. CASE \E r \in {"legacyDetected", "legacyRequired", "legacyLedger",
                     "legacyDrift"} : return(m, r)
  BY <1>1, <1>3, ReturnInv
<1>4. CASE ran(m, {})
           /\ (legacy = "absent" \/ (adopt[m] /\ verifyLegacy = "ok"))
  <2>1. next[m] = 1 /\ pc[m] = "up"
    BY DEF Baseline
  <2>2. legacy # "absent" => adopt[m] /\ legacy = "baseline"
    BY <1>2, <1>4 DEF IInv, TypeOK
  <2> QED
    BY <1>1, <1>4, <2>1, <2>2, RanInv DEF SchemaVersion
<1> QED
  BY <1>2, <1>3, <1>4 DEF Baseline

\* Versions 2 and 3.
LEMMA SqlMigrationInv ==
  ASSUME IInv, NEW m \in Migrators, HierarchySerializable(m) \/ SourceRecords(m)
  PROVE  IInv'
<1>1. UNCHANGED <<envVars, ledger, schema, granted, adopt, adopted>>
  BY DEF HierarchySerializable, SourceRecords
<1>2. CASE HierarchySerializable(m) /\ cycle
  BY <1>1, <1>2, ReturnInv DEF HierarchySerializable
<1>3. CASE HierarchySerializable(m) /\ ~cycle
  <2>1. PICK g \in SUBSET Tables : ran(m, g)
    BY <1>3 DEF HierarchySerializable, Tables
  <2> QED
    BY <1>1, <1>3, <2>1, RanInv DEF HierarchySerializable, SchemaVersion
<1>4. CASE SourceRecords(m)
  <2>1. PICK g \in SUBSET Tables : ran(m, g)
    BY <1>4 DEF SourceRecords, Tables
  <2> QED
    BY <1>1, <1>4, <2>1, RanInv DEF SourceRecords, SchemaVersion
<1> QED
  BY <1>2, <1>3, <1>4

\* The commit: ledger and schema grow together, by the next version, and what
\* the transaction checked becomes what the database promises.
LEMMA CommitInv ==
  ASSUME IInv, NEW m \in Migrators, Commit(m)
  PROVE  IInv'
<1> USE DEF IInv, envVars, writerVars
<1>0. /\ pc[m] = "commit" /\ next[m] = version
      /\ ledger' = Append(ledger, version) /\ schema' = schema \cup {version}
      /\ next' = [next EXCEPT ![m] = next[m] + 1]
      /\ pc' = [pc EXCEPT ![m] = "up"]
      /\ granted' = granted \cup grants[m]
      /\ grants' = [grants EXCEPT ![m] = {}]
      /\ adopted' = (adopted \/ (version = 1 /\ adopt[m]))
      /\ UNCHANGED <<legacy, writerVars, role, late, probe, lock, adopt, result>>
  BY DEF Commit, LockHeld
<1>1. version = Len(ledger) /\ version \in 1..SchemaVersion /\ Len(ledger) \in Nat
  BY <1>0, VersionIsLength DEF LockHeld, CheckedStillTrue, SchemaVersion
<1>2. ledger \in Seq(0..SchemaVersion) /\ version \in 0..SchemaVersion
  BY <1>1 DEF TypeOK, SchemaVersion
<1>3. /\ ledger' \in Seq(0..SchemaVersion) /\ ledger' # <<>>
      /\ Len(ledger') = Len(ledger) + 1
      /\ \A i \in 1..Len(ledger) : ledger'[i] = ledger[i]
      /\ ledger'[Len(ledger) + 1] = version
  BY <1>0, <1>2, AppendProperties
<1>4. TypeOK'
  <2>1. adopted' \in BOOLEAN
    BY <1>0 DEF TypeOK
  <2>2. next' \in [Migrators -> 0..SchemaVersion + 1]
    BY <1>0, <1>1 DEF TypeOK, SchemaVersion
  <2> QED
    BY <1>0, <1>1, <1>3, <2>1, <2>2 DEF TypeOK
<1>5. LedgerMatchesSchema'
  <2>1. \A i \in 1..Len(ledger') : ledger'[i] = i - 1
    BY <1>1, <1>3 DEF LedgerMatchesSchema
  <2>2. schema' = {ledger'[i] : i \in 2..Len(ledger')}
    <3>1. schema = {ledger[i] : i \in 2..Len(ledger)}
      BY DEF LedgerMatchesSchema
    <3>2. {ledger'[i] : i \in 2..Len(ledger)} = {ledger[i] : i \in 2..Len(ledger)}
      <4>1. \A i \in 2..Len(ledger) : ledger'[i] = ledger[i]
        BY <1>1, <1>3
      <4> QED
        BY <4>1
    <3>3. 2..Len(ledger') = 2..Len(ledger) \cup {Len(ledger) + 1}
      BY <1>1, <1>3
    <3>4. {ledger'[i] : i \in 2..Len(ledger')}
            = {ledger'[i] : i \in 2..Len(ledger)} \cup {ledger'[Len(ledger) + 1]}
      BY <3>3, Zenon
    <3> QED
      BY <1>0, <1>3, <3>1, <3>2, <3>4
  <2> QED
    BY <2>1, <2>2 DEF LedgerMatchesSchema
<1>6. \A k \in Migrators : k # m => pc[k] \notin {"up", "commit"}
  BY <1>0 DEF LockHeld
<1>7. LockHeld'
  <2>1. version' = version + 1
    BY <1>1, <1>3 DEF version
  <2> QED
    BY <1>0, <1>3, <1>6, <2>1 DEF TypeOK, LockHeld
<1>8. CheckedStillTrue'
  BY <1>0, <1>6 DEF TypeOK, CheckedStillTrue
<1>9. LegacyAdoptedOnDemand'
  <2>1. CASE version = 1
    BY <1>0, <2>1 DEF CheckedStillTrue, LegacyAdoptedOnDemand
  <2>2. CASE version # 1
    <3>1. ledger[2] \in schema
      BY <1>1, <2>2, SMTT(60) DEF LedgerMatchesSchema
    <3> QED
      BY <1>0, <3>1 DEF LegacyAdoptedOnDemand
  <2> QED
    BY <2>1, <2>2
<1>10. NoCycleAfterUpgrade'
  BY <1>0 DEF CheckedStillTrue, NoCycleAfterUpgrade
<1>11. SuccessMeansCurrent'
  BY <1>0, <1>1 DEF SuccessMeansCurrent, SchemaVersion
<1> QED
  BY <1>4, <1>5, <1>7, <1>8, <1>9, <1>10, <1>11

\* Every step keeps the invariant.
LEMMA NextInv == IInv /\ [Next]_vars => IInv'
<1> SUFFICES ASSUME IInv, [Next]_vars PROVE IInv'
  OBVIOUS
<1>1. CASE \E m \in Migrators : RunMigrate(m)
  BY <1>1, RunMigrateInv
<1>2. CASE \E m \in Migrators : SessionLock(m)
  BY <1>2, SessionLockInv
<1>3. CASE \E m \in Migrators : UpDone(m)
  BY <1>3, UpDoneInv
<1>4. CASE \E m \in Migrators : Baseline(m)
  BY <1>4, BaselineInv
<1>5. CASE \E m \in Migrators : HierarchySerializable(m) \/ SourceRecords(m)
  BY <1>5, SqlMigrationInv
<1>6. CASE \E m \in Migrators : Commit(m)
  BY <1>6, CommitInv
<1>7. CASE \E m \in Migrators : Fail(m)
  BY <1>7, ReturnInv DEF Fail
<1>8. CASE \/ CreateRole \/ Access
           \/ WriterBegins \/ WriterWrites \/ WriterCommits \/ WriterAborts \/ Repair
           \/ \E p \in Probes : ReadyVersion(p) \/ ReadyPrivileges(p)
  BY <1>8, EnvironmentInv
<1>9. CASE UNCHANGED vars
  <2>1. version' = version
    BY <1>9 DEF vars, version
  <2> QED
    BY <1>9, <2>1 DEF vars, envVars, writerVars, runVars, IInv, TypeOK, LedgerMatchesSchema, LockHeld,
       CheckedStillTrue, LegacyAdoptedOnDemand, NoCycleAfterUpgrade,
       SuccessMeansCurrent
<1> QED
  BY <1>1, <1>2, <1>3, <1>4, <1>5, <1>6, <1>7, <1>8, <1>9 DEF Next

\* The invariant holds in every reachable state.
LEMMA Invariant == Spec => []IInv
<1> QED
  BY InitInv, NextInv, PTL DEF Spec

\* Concurrent, dying and repeated runs of cmd/migrate apply each version
\* exactly once and in order, and the ledger names exactly what exists.
THEOREM LedgerKept == Spec => []LedgerMatchesSchema
<1>1. IInv => LedgerMatchesSchema
  BY DEF IInv
<1> QED
  BY <1>1, Invariant, PTL

\* A legacy schema is touched only by an explicit adoption, never if it has
\* drifted from the baseline.
THEOREM LegacyProtected == Spec => []LegacyAdoptedOnDemand
<1>1. IInv => LegacyAdoptedOnDemand
  BY DEF IInv
<1> QED
  BY <1>1, Invariant, PTL

\* The hierarchies have no cycle once version 2 is applied, until a transaction
\* that straddles it commits: its check cannot become stale before it commits.
THEOREM UpgradeSound == Spec => []NoCycleAfterUpgrade
<1>1. IInv => NoCycleAfterUpgrade
  BY DEF IInv
<1> QED
  BY <1>1, Invariant, PTL

\* A run reports success only on a database with this binary's schema.
THEOREM SuccessTruthful == Spec => []SuccessMeansCurrent
<1>1. IInv => SuccessMeansCurrent
  BY DEF IInv
<1> QED
  BY <1>1, Invariant, PTL

-----------------------------------------------------------------------------
(* Readiness.  A role is there when migration 3 decides on its grants, or is *)
(* granted the new table with the others afterwards, or is late.             *)

\* Only an existing role is granted anything, an open migration 3 has not missed
\* the role, and a role that may use anything may use the table of version 3,
\* unless it is late.
Provisioned ==
  /\ granted # {} => role
  /\ "ledger" \in granted => ledger # <<>>
  /\ 3 \in schema /\ granted # {} /\ ~late => "source_records" \in granted
  /\ late => role
  /\ \A m \in Migrators :
       /\ grants[m] # {} => role /\ pc[m] = "commit"
       /\ pc[m] = "commit" /\ next[m] = 3 /\ role /\ ~late =>
            "source_records" \in grants[m]

\* What a probe has seen stays so.
Probed ==
  \A p \in Probes :
    /\ probe[p] \in {"version", "ready"} => schema = 1..SchemaVersion /\ "ledger" \in granted
    /\ probe[p] = "ready" => "places" \in granted /\ (granted = Tables \/ late)

\* A run that returns, for whatever reason.
LEMMA ReturnProvisioned ==
  ASSUME IInv, Provisioned, Probed, NEW m \in Migrators, NEW r, return(m, r),
         UNCHANGED <<envVars, ledger, schema, granted>>
  PROVE  Provisioned' /\ Probed'
<1>1. Provisioned'
  BY DEF IInv, TypeOK, Provisioned, return, envVars
<1>2. Probed'
  BY DEF Probed, envVars
<1> QED
  BY <1>1, <1>2

\* A migration that has run: its grants are those its version makes for a role
\* that is there.
LEMMA RanProvisioned ==
  ASSUME IInv, Provisioned, Probed, NEW m \in Migrators, NEW g, ran(m, g),
         g # {} => role, next[m] = 3 /\ role => "source_records" \in g,
         UNCHANGED <<envVars, ledger, schema, granted>>
  PROVE  Provisioned' /\ Probed'
<1>1. Provisioned'
  BY DEF IInv, TypeOK, Provisioned, ran, envVars
<1>2. Probed'
  BY DEF Probed, envVars
<1> QED
  BY <1>1, <1>2

\* The steps of the command.
LEMMA MigrateProvisioned ==
  ASSUME IInv, Provisioned, Probed, NEW m \in Migrators,
         \/ RunMigrate(m) \/ SessionLock(m) \/ UpDone(m) \/ Baseline(m)
         \/ HierarchySerializable(m) \/ SourceRecords(m) \/ Fail(m)
  PROVE  Provisioned' /\ Probed'
<1>1. CASE RunMigrate(m)
  <2>1. Provisioned'
    BY <1>1 DEF IInv, TypeOK, Provisioned, RunMigrate, envVars
  <2> QED
    BY <1>1, <2>1 DEF Probed, RunMigrate, envVars
<1>2. CASE SessionLock(m)
  <2>1. ledger # <<>> => ledger' # <<>>
    BY <1>2 DEF SessionLock
  <2>2. /\ pc' = [pc EXCEPT ![m] = "up"] /\ pc[m] = "lock"
        /\ \A k \in Migrators : k # m => next'[k] = next[k]
        /\ UNCHANGED <<role, late, granted, schema, grants, probe>>
    BY <1>2 DEF IInv, TypeOK, SessionLock, envVars
  <2>3. Provisioned'
    BY <2>1, <2>2 DEF IInv, TypeOK, Provisioned
  <2> QED
    BY <2>2, <2>3 DEF Probed
<1>3. CASE UpDone(m) \/ Fail(m)
  BY <1>3, ReturnProvisioned DEF UpDone, Fail
<1>4. CASE Baseline(m)
  <2>1. next[m] = 1 /\ UNCHANGED <<envVars, ledger, schema, granted>>
    BY <1>4 DEF Baseline
  <2>2. (\E r : return(m, r)) \/ ran(m, {})
    BY <1>4 DEF Baseline
  <2> QED
    BY <2>1, <2>2, ReturnProvisioned, RanProvisioned
<1>5. CASE HierarchySerializable(m)
  <2>1. next[m] = 2 /\ UNCHANGED <<envVars, ledger, schema, granted>>
    BY <1>5 DEF HierarchySerializable
  <2>2. (\E r : return(m, r)) \/ (\E g : ran(m, g) /\ (g # {} => role))
    BY <1>5 DEF HierarchySerializable
  <2> QED
    BY <2>1, <2>2, ReturnProvisioned, RanProvisioned
<1>6. CASE SourceRecords(m)
  <2>1. UNCHANGED <<envVars, ledger, schema, granted>>
    BY <1>6 DEF SourceRecords
  <2>2. PICK g : ran(m, g) /\ (g # {} => role) /\ (role => "source_records" \in g)
    BY <1>6 DEF SourceRecords
  <2> QED
    BY <2>1, <2>2, RanProvisioned
<1> QED
  BY <1>1, <1>2, <1>3, <1>4, <1>5, <1>6

\* The commit of a version and of its grants.
LEMMA CommitProvisioned ==
  ASSUME IInv, Provisioned, Probed, NEW m \in Migrators, Commit(m)
  PROVE  Provisioned' /\ Probed'
<1>1. /\ pc[m] = "commit" /\ schema' = schema \cup {next[m]}
      /\ granted' = granted \cup grants[m]
      /\ grants' = [grants EXCEPT ![m] = {}] /\ pc' = [pc EXCEPT ![m] = "up"]
      /\ next' = [next EXCEPT ![m] = next[m] + 1]
      /\ UNCHANGED <<role, late, probe>>
  BY DEF Commit, envVars
<1>2. ledger' # <<>> /\ next[m] \in 1..SchemaVersion
  <2>1. ledger \in Seq(0..SchemaVersion) /\ next[m] \in 1..SchemaVersion
    BY <1>1 DEF IInv, TypeOK, CheckedStillTrue
  <2>2. next[m] \in 0..SchemaVersion
    BY <2>1 DEF SchemaVersion
  <2>3. ledger' = Append(ledger, next[m])
    BY DEF Commit
  <2> QED
    BY <2>1, <2>2, <2>3, AppendProperties
<1>3. granted' # {} => role'
  BY <1>1 DEF Provisioned
<1>4. 3 \in schema' /\ granted' # {} /\ ~late' => "source_records" \in granted'
  <2>1. CASE next[m] = 3
    BY <1>1, <1>3, <2>1 DEF Provisioned
  <2>2. CASE next[m] # 3 /\ granted # {}
    BY <1>1, <2>2 DEF Provisioned
  <2>3. CASE next[m] # 3 /\ granted = {}
    <3>1. 3 \notin schema
      <4>1. next[m] = version /\ ledger # <<>>
        BY <1>1 DEF IInv, LockHeld
      <4>2. version = Len(ledger) /\ version \in 1..2 /\ Len(ledger) \in Nat
        BY <1>2, <2>3, <4>1, VersionIsLength DEF IInv, SchemaVersion
      <4> QED
        BY <4>2 DEF IInv, LedgerMatchesSchema
    <3> QED
      BY <1>1, <2>3, <3>1
  <2> QED
    BY <2>1, <2>2, <2>3
<1>5. \A k \in Migrators :
        /\ grants'[k] # {} => role' /\ pc'[k] = "commit"
        /\ pc'[k] = "commit" /\ next'[k] = 3 /\ role' /\ ~late' =>
             "source_records" \in grants'[k]
  BY <1>1 DEF IInv, TypeOK, Provisioned
<1>6. Provisioned'
  BY <1>1, <1>2, <1>3, <1>4, <1>5 DEF Provisioned
<1>7. Probed'
  <2>1. granted' \in SUBSET Tables
    BY <1>1 DEF IInv, TypeOK
  <2>2. schema = 1..SchemaVersion => schema' = schema
    BY <1>1, <1>2
  <2>3. granted = Tables => granted' = granted
    BY <1>1, <2>1
  <2> QED
    BY <1>1, <2>2, <2>3 DEF Probed
<1> QED
  BY <1>6, <1>7

\* The steps of the DBA, the writers and the probes.
LEMMA EnvironmentProvisioned ==
  ASSUME IInv, Provisioned, Probed,
         \/ CreateRole \/ Access
         \/ WriterBegins \/ WriterWrites \/ WriterCommits \/ WriterAborts \/ Repair
         \/ \E p \in Probes : ReadyVersion(p) \/ ReadyPrivileges(p)
  PROVE  Provisioned' /\ Probed'
<1>0. UNCHANGED <<ledger, schema, pc, next, grants>>
  BY DEF CreateRole, Access, WriterBegins, WriterWrites, WriterCommits, WriterAborts,
         Repair, ReadyVersion, ReadyPrivileges, verdict, runVars
<1>1. CASE CreateRole
  <2>1. /\ ~role /\ role' = TRUE /\ UNCHANGED <<granted, probe>>
        /\ ~late' => \A m \in Migrators : ~(pc[m] = "commit" /\ next[m] = 3)
    BY <1>1 DEF CreateRole
  <2>2. granted = {}
    BY <2>1 DEF Provisioned
  <2>3. Provisioned'
    BY <1>0, <2>1, <2>2 DEF Provisioned
  <2> QED
    BY <1>0, <2>1, <2>2, <2>3 DEF Probed
<1>2. CASE Access
  <2>1. /\ role /\ UNCHANGED <<role, late, probe>> /\ granted \subseteq granted'
        /\ granted' \in SUBSET Tables
        /\ 3 \in schema => "source_records" \in granted'
        /\ "ledger" \in granted' => "ledger" \in granted \/ ledger # <<>>
    BY <1>2 DEF Access, IInv, TypeOK, Tables, envVars
  <2>2. Provisioned'
    BY <1>0, <2>1 DEF Provisioned
  <2> QED
    BY <1>0, <2>1, <2>2 DEF Probed
<1>3. CASE WriterBegins \/ WriterWrites \/ WriterCommits \/ WriterAborts \/ Repair
  <2>1. UNCHANGED <<role, late, granted, probe>>
    BY <1>3 DEF WriterBegins, WriterWrites, WriterCommits, WriterAborts, Repair
  <2>2. Provisioned'
    BY <1>0, <2>1 DEF Provisioned
  <2> QED
    BY <1>0, <2>1, <2>2 DEF Probed
<1>4. ASSUME NEW p \in Probes, ReadyVersion(p) \/ ReadyPrivileges(p)
      PROVE  Provisioned' /\ Probed'
  <2>1. UNCHANGED <<role, late, granted>>
    BY <1>4 DEF ReadyVersion, ReadyPrivileges, verdict
  <2>2. Provisioned'
    BY <1>0, <2>1 DEF Provisioned
  <2>3. PICK v : /\ ReadyVersion(p) =>
                      v = IF "ledger" \notin granted THEN "unavailable"
                          ELSE IF ledger[Len(ledger)] = SchemaVersion THEN "version"
                          ELSE "mismatch"
                 /\ ReadyPrivileges(p) =>
                      v = IF "places" \in granted THEN "ready" ELSE "privileges"
    BY DEF ReadyVersion, ReadyPrivileges
  <2>4. /\ probe' = [probe EXCEPT ![p] = v]
        /\ v = "version" => "ledger" \in granted /\ ledger[Len(ledger)] = SchemaVersion
        /\ v = "ready" => probe[p] = "version" /\ "places" \in granted
    BY <1>4, <2>3 DEF ReadyVersion, ReadyPrivileges, verdict
  <2>5. v = "version" => schema = 1..SchemaVersion
    <3> HAVE v = "version"
    <3>1. "ledger" \in granted /\ ledger # <<>>
      BY <2>4 DEF Provisioned
    <3>2. version = Len(ledger) /\ version = SchemaVersion + 1
      BY <2>4, <3>1, VersionIsLength DEF IInv, version
    <3>3. schema = {ledger[i] : i \in 2..4} /\ \A i \in 1..4 : ledger[i] = i - 1
      BY <3>2 DEF IInv, LedgerMatchesSchema, SchemaVersion
    <3>4. ledger[2] = 1 /\ ledger[3] = 2 /\ ledger[4] = 3
      BY <3>3
    <3> QED
      BY <3>3, <3>4 DEF SchemaVersion
  <2>6. v = "ready" => /\ schema = 1..SchemaVersion /\ "ledger" \in granted
                       /\ "places" \in granted /\ (granted = Tables \/ late)
    <3> HAVE v = "ready"
    <3>1. schema = 1..SchemaVersion /\ "ledger" \in granted /\ "places" \in granted
      BY <2>4 DEF Probed
    <3>2. "source_records" \in granted \/ late
      BY <3>1 DEF Provisioned, SchemaVersion
    <3> QED
      BY <3>1, <3>2 DEF IInv, TypeOK, Tables
  <2>7. Probed'
    BY <1>0, <2>1, <2>4, <2>5, <2>6 DEF IInv, TypeOK, Probed
  <2> QED
    BY <2>2, <2>7
<1> QED
  BY <1>1, <1>2, <1>3, <1>4

\* A runtime that reports ready finds the schema of its binary and may use every
\* table, but for the new one if its role was created while migration 3 was open
\* (Ready, the grants of migrations 2 and 3 and the provisioning scripts).
THEOREM ReadyIsUsable == Spec => []ReadyMeansUsable
<1>1. Init => Provisioned /\ Probed
  BY DEF Init, Provisioned, Probed
<1>2. IInv /\ Provisioned /\ Probed /\ [Next]_vars => (Provisioned /\ Probed)'
  <2> SUFFICES ASSUME IInv, Provisioned, Probed, [Next]_vars
               PROVE  Provisioned' /\ Probed'
    OBVIOUS
  <2>1. CASE UNCHANGED vars
    BY <2>1 DEF vars, envVars, runVars, Provisioned, Probed
  <2>2. CASE \E m \in Migrators : Commit(m)
    BY <2>2, CommitProvisioned
  <2>3. CASE \E m \in Migrators :
               \/ RunMigrate(m) \/ SessionLock(m) \/ UpDone(m) \/ Baseline(m)
               \/ HierarchySerializable(m) \/ SourceRecords(m) \/ Fail(m)
    BY <2>3, MigrateProvisioned
  <2>4. CASE \/ CreateRole \/ Access
             \/ WriterBegins \/ WriterWrites \/ WriterCommits \/ WriterAborts \/ Repair
             \/ \E p \in Probes : ReadyVersion(p) \/ ReadyPrivileges(p)
    BY <2>4, EnvironmentProvisioned
  <2> QED
    BY <2>1, <2>2, <2>3, <2>4 DEF Next
<1>3. Probed => ReadyMeansUsable
  BY DEF Probed, ReadyMeansUsable
<1> QED
  BY <1>1, <1>2, <1>3, Invariant, PTL DEF Spec

=============================================================================
