---------------------------- MODULE SourceImport ----------------------------
(***************************************************************************)
(* Concurrent runs of cmd/importdata against one database                   *)
(* (internal/importjob/infrastructure/postgres/import.go, Import).  Each    *)
(* run is one serializable transaction; it may die between any two          *)
(* statements and be started again.  A platform writer that creates an      *)
(* administrative unit, a reviewer who resolves a held record and an        *)
(* operator who removes a source of held records work beside it.            *)
(*                                                                          *)
(* PostgreSQL is external: a transaction reads its snapshot and its own     *)
(* rows; an insert that collides on a unique or exclusion constraint waits  *)
(* for an uncommitted rival and fails on a committed one.                   *)
(***************************************************************************)
EXTENDS SourceFiles

CONSTANTS
  Importers,     \* concurrent runs of the command
  ForeignCodes,  \* unit codes the platform writer may use
  SchemaVersion  \* database.SchemaVersion

ASSUME SchemaAssumption == SchemaVersion \in Nat \ {0}

VARIABLES
  version, \* the applied schema version
  db,      \* the committed tables
  dir,     \* the directory each run was started with
  pc,      \* where each run is
  n,       \* the source or level it is at
  snap,    \* the tables when its transaction began
  own,     \* the rows its transaction has added
  result   \* what it returned

vars == <<version, db, dir, pc, n, snap, own, result>>

Empty == [src |-> [s \in Codes |-> NoHash], rec |-> {}, unit |-> {},
          ref |-> {}, event |-> {}]

\* A transaction sees its snapshot and its own rows.
present(t) == {s \in Codes : t.src[s] # NoHash}
merge(a, b) ==
  [src |-> [s \in Codes |-> IF b.src[s] # NoHash THEN b.src[s] ELSE a.src[s]],
   rec |-> a.rec \cup b.rec, unit |-> a.unit \cup b.unit,
   ref |-> a.ref \cup b.ref, event |-> a.event \cup b.event]
view(i) == merge(snap[i], own[i])

Init ==
  /\ version \in {SchemaVersion - 1, SchemaVersion}
  /\ db = Empty
  /\ dir \in [Importers -> Dirs]
  /\ pc = [i \in Importers |-> "idle"]
  /\ n = [i \in Importers |-> 1]
  /\ snap = [i \in Importers |-> Empty]
  /\ own = [i \in Importers |-> Empty]
  /\ result = [i \in Importers |-> "none"]

-----------------------------------------------------------------------------
(* Import.                                                                  *)

\* return: the deferred Rollback drops what was not committed.
return(i, r) ==
  /\ pc' = [pc EXCEPT ![i] = "done"]
  /\ result' = [result EXCEPT ![i] = r]
  /\ own' = [own EXCEPT ![i] = Empty]
  /\ snap' = [snap EXCEPT ![i] = Empty]
  /\ n' = [n EXCEPT ![i] = 1]

goto(i, l, k) == pc' = [pc EXCEPT ![i] = l] /\ n' = [n EXCEPT ![i] = k]

\* The files are read and validated before anything else.
Read(i) ==
  /\ pc[i] = "idle"
  /\ \/ /\ accepted(dir[i]) /\ goto(i, "begin", 1)
        /\ UNCHANGED <<snap, own, result>>
     \/ /\ ~accepted(dir[i]) /\ return(i, "invalid")
  /\ UNCHANGED <<version, db, dir>>

\* BeginTx(Serializable) and the schema version.
BeginTx(i) ==
  /\ pc[i] = "begin"
  /\ \/ /\ version # SchemaVersion /\ return(i, "version")
     \/ /\ version = SchemaVersion
        /\ goto(i, "check", 1)
        /\ snap' = [snap EXCEPT ![i] = db]
        /\ UNCHANGED <<own, result>>
  /\ UNCHANGED <<version, db, dir>>

\* An existing source is what this run would write: hash, number of records,
\* all administrative ones linked, all others held.
matches(t, d, s) ==
  LET recs == {r \in t.rec : r.row.src = s} IN
    /\ t.src[s] = hash(d, s)
    /\ Cardinality(recs) = Cardinality(Files[d][s].rows)
    /\ Cardinality({r \in recs : r.row.level < 4 /\ r.status = "LINKED" /\ r.unit}) =
         Cardinality({r \in Files[d][s].rows : r.level < 4})
    /\ Cardinality({r \in recs : r.row.level = 4
                                 /\ r.status \in {"UNRESOLVED", "INVALID"}}) =
         Cardinality({r \in Files[d][s].rows : r.level = 4})

\* Everything is there, something is there, or something differs; otherwise
\* none of the administrative codes may exist yet.
Check(i) ==
  /\ pc[i] = "check"
  /\ LET old == present(snap[i])
         taken == {u \in snap[i].unit : \E r \in adminRows(dir[i]) : u.code = r.code}
     IN
       \/ /\ \E s \in old : ~matches(snap[i], dir[i], s)
          /\ return(i, "differs")
       \/ /\ \A s \in old : matches(snap[i], dir[i], s)
          /\ \/ old = Codes /\ return(i, "unchanged")
             \/ old # {} /\ old # Codes /\ return(i, "partial")
             \/ old = {} /\ taken # {} /\ return(i, "overlap")
             \/ /\ old = {} /\ taken = {} /\ goto(i, "stage", 1)
                /\ UNCHANGED <<snap, own, result>>
  /\ UNCHANGED <<version, db, dir>>

\* A source h of the code s in the tables t, with the records of its rows R.
copied(R) == {[row |-> r, status |-> status(r), unit |-> FALSE] : r \in R}
inserted(t, s, h, R) ==
  [t EXCEPT !.src = [@ EXCEPT ![s] = h], !.rec = @ \cup copied(R)]

\* Mutant: without lock_timeout a run waits as long as a rival holds the row.
StageWaits(i) ==
  /\ pc[i] = "stage"
  /\ LET s == Snapshots[n[i]].code IN
       /\ \A j \in Importers \ {i} : own[j].src[s] = NoHash
       /\ IF db.src[s] # NoHash THEN return(i, "conflict")
          ELSE /\ own' = [own EXCEPT ![i] =
                    inserted(@, s, hash(dir[i], s), Files[dir[i]][s].rows)]
               /\ IF n[i] < Len(Snapshots) THEN goto(i, "stage", n[i] + 1)
                  ELSE goto(i, "promote", 1)
               /\ UNCHANGED <<snap, result>>
  /\ UNCHANGED <<version, db, dir>>

\* data_sources, then COPY into source_records, one source after the other.
\* uq_data_sources_source_code: wait for a rival, but no longer than
\* lock_timeout; fail on a committed source.
Stage(i) ==
  /\ pc[i] = "stage"
  /\ LET s == Snapshots[n[i]].code
         rival == \E j \in Importers \ {i} : own[j].src[s] # NoHash
     IN
       \/ rival /\ return(i, "failed")
       \/ ~rival /\ db.src[s] # NoHash /\ return(i, "conflict")
       \/ /\ ~rival /\ db.src[s] = NoHash
          /\ own' = [own EXCEPT ![i] =
               inserted(@, s, hash(dir[i], s), Files[dir[i]][s].rows)]
          /\ IF n[i] < Len(Snapshots) THEN goto(i, "stage", n[i] + 1)
             ELSE goto(i, "promote", 1)
          /\ UNCHANGED <<snap, result>>
  /\ UNCHANGED <<version, db, dir>>

\* The parent the LEFT JOIN finds: the unit must be there already.
joined(t, r) ==
  IF \E u \in t.unit : u.code = r.parent THEN r.parent ELSE NoParent

\* The units the SELECT makes of the staged records of one level.
selected(i) ==
  {[code |-> x.row.code, parent |-> joined(view(i), x.row), active |-> x.row.area = 2,
    src |-> x.row.src] : x \in {y \in own[i].rec : y.row.level = n[i]}}

\* INSERT ... SELECT of one level into administrative_units, which fails on a
\* code committed meanwhile (ex_administrative_units_no_overlap) and when it
\* inserts nothing.
Promote(i) ==
  /\ pc[i] = "promote"
  /\ LET new == selected(i)
         free == new # {} /\ \A u \in db.unit, v \in new : u.code # v.code
     IN
       \/ ~free /\ return(i, "conflict")
       \/ /\ free
          /\ own' = [own EXCEPT ![i].unit = @ \cup new]
          /\ IF n[i] < 3 THEN goto(i, "promote", n[i] + 1) ELSE goto(i, "link", 1)
          /\ UNCHANGED <<snap, result>>
  /\ UNCHANGED <<version, db, dir>>

linkedRecord(r) == [r EXCEPT !.status = "LINKED", !.unit = TRUE]

\* Mutant: the update stops one level short.
LinkShort(i) ==
  /\ pc[i] = "link"
  /\ own' = [own EXCEPT ![i].rec =
       {IF r.row.level < 3 /\ \E u \in view(i).unit : u.code = r.row.code
        THEN linkedRecord(r) ELSE r : r \in @}]
  /\ goto(i, "hold", 1)
  /\ UNCHANGED <<version, db, dir, snap, result>>

\* UPDATE source_records ... LINKED, joined on the unit code.
Link(i) ==
  /\ pc[i] = "link"
  /\ own' = [own EXCEPT ![i].rec =
       {IF r.row.level < 4 /\ \E u \in view(i).unit : u.code = r.row.code
        THEN linkedRecord(r) ELSE r : r \in @}]
  /\ goto(i, "hold", 1)
  /\ UNCHANGED <<version, db, dir, snap, result>>

\* UPDATE source_records ... UNRESOLVED for the staged rows of level 4.
Hold(i) ==
  /\ pc[i] = "hold"
  /\ own' = [own EXCEPT ![i].rec =
       {IF r.row.level = 4 /\ r.status = "STAGED"
        THEN [r EXCEPT !.status = "UNRESOLVED"] ELSE r : r \in @}]
  /\ goto(i, "refs", 1)
  /\ UNCHANGED <<version, db, dir, snap, result>>

\* external_references and outbox_events for the linked units.
References(i) ==
  /\ pc[i] = "refs"
  /\ own' = [own EXCEPT ![i].ref =
       {<<r.row.src, r.row.code>> : r \in {x \in own[i].rec : x.row.level < 4}}]
  /\ goto(i, "events", 1)
  /\ UNCHANGED <<version, db, dir, snap, result>>

\* Mutant: only active units are announced.
EventsActive(i) ==
  /\ pc[i] = "events"
  /\ own' = [own EXCEPT ![i].event =
       {r.row.code : r \in {x \in own[i].rec : x.row.level < 4 /\ x.row.area = 2}}]
  /\ goto(i, "commit", 1)
  /\ UNCHANGED <<version, db, dir, snap, result>>

Events(i) ==
  /\ pc[i] = "events"
  /\ own' = [own EXCEPT ![i].event =
       {r.row.code : r \in {x \in own[i].rec : x.row.level < 4}}]
  /\ goto(i, "commit", 1)
  /\ UNCHANGED <<version, db, dir, snap, result>>

Commit(i) ==
  /\ pc[i] = "commit"
  /\ db' = merge(db, own[i])
  /\ return(i, "imported")
  /\ UNCHANGED <<version, dir>>

\* The connection is lost after the server committed: Commit returns an error
\* for an import that happened.
CommitUnacknowledged(i) ==
  /\ pc[i] = "commit"
  /\ db' = merge(db, own[i])
  /\ return(i, "failed")
  /\ UNCHANGED <<version, dir>>

\* The process, the connection or a statement dies, or the transaction is
\* refused with 40001: it rolls back.
Crash(i) ==
  /\ pc[i] \notin {"idle", "done"}
  /\ return(i, "failed")
  /\ UNCHANGED <<version, db, dir>>

\* The operator starts the command again, on the same directory.
Restart(i) ==
  /\ pc[i] = "done"
  /\ pc' = [pc EXCEPT ![i] = "idle"]
  /\ result' = [result EXCEPT ![i] = "none"]
  /\ UNCHANGED <<version, db, dir, n, snap, own>>

-----------------------------------------------------------------------------
(* The others.                                                              *)

\* cmd/migrate up.
Migrate ==
  /\ version < SchemaVersion
  /\ version' = SchemaVersion
  /\ UNCHANGED <<db, dir, pc, n, snap, own, result>>

\* The platform creates a unit; the exclusion constraint makes it wait for an
\* import that has inserted the code and fail on a committed one.
CreateUnit(c) ==
  /\ \A u \in db.unit : u.code # c
  /\ \A i \in Importers : \A u \in own[i].unit : u.code # c
  /\ db' = [db EXCEPT !.unit = @ \cup {[code |-> c, parent |-> NoParent,
                                         active |-> TRUE, src |-> NoHash]}]
  /\ UNCHANGED <<version, dir, pc, n, snap, own, result>>

\* A reviewer links a held record to a place.
Resolve(r) ==
  /\ r.status = "UNRESOLVED"
  /\ db' = [db EXCEPT !.rec = (@ \ {r}) \cup {[r EXCEPT !.status = "LINKED"]}]
  /\ UNCHANGED <<version, dir, pc, n, snap, own, result>>

\* An operator deletes a source that no unit refers to, with its records.
DropHeld(s) ==
  /\ db.src[s] # NoHash /\ spec(s).level = 4
  /\ db' = [db EXCEPT !.src = [@ EXCEPT ![s] = NoHash], !.rec = {r \in @ : r.row.src # s}]
  /\ UNCHANGED <<version, dir, pc, n, snap, own, result>>

Step(i) ==
  \/ Read(i) \/ BeginTx(i) \/ Check(i) \/ Stage(i) \/ Promote(i) \/ Link(i)
  \/ Hold(i) \/ References(i) \/ Events(i) \/ Commit(i)

Next ==
  \/ \E i \in Importers :
       Step(i) \/ CommitUnacknowledged(i) \/ Crash(i) \/ Restart(i)
  \/ Migrate
  \/ \E c \in ForeignCodes : CreateUnit(c)
  \/ \E r \in db.rec : Resolve(r)
  \/ \E s \in Codes : DropHeld(s)

Spec == Init /\ [][Next]_vars

\* A started run is scheduled until it returns.
FairSpec == Spec /\ \A i \in Importers : WF_vars(Step(i))

-----------------------------------------------------------------------------
(* Properties.                                                              *)

TypeOK ==
  /\ version \in Nat
  /\ dir \in [Importers -> Dirs]
  /\ pc \in [Importers -> {"idle", "begin", "check", "stage", "promote",
                           "link", "hold", "refs", "events", "commit", "done"}]
  /\ n \in [Importers -> 1..Len(Snapshots) \cup 1..3]
  /\ result \in [Importers -> {"none", "invalid", "version", "unchanged",
                               "differs", "partial", "overlap", "conflict",
                               "imported", "failed"}]
  /\ \A t \in {db} \cup {snap[i] : i \in Importers} \cup {own[i] : i \in Importers} :
       /\ t.src \in [Codes -> {NoHash} \cup {hash(d, s) : d \in Dirs, s \in Codes}]
       /\ \A r \in t.rec : r.status \in {"STAGED", "INVALID", "LINKED", "UNRESOLVED"}

\* The import is atomic and happens once: the canonical units of one directory
\* with their hierarchy, status, references and events appear together, and
\* no run changes what another writer created.
Canonical == INSTANCE CanonicalLoad WITH
               units <- db.unit, refs <- db.ref, events <- db.event
ImplementsCanonicalLoad == Canonical!Spec

\* Staging never leaks: a committed record has been decided on, an administrative
\* one is linked, and the unit it is linked to exists and is of its source (the
\* statements of Import after CopyFrom).
RecordsDecided ==
  \A r \in db.rec :
    /\ r.status # "STAGED"
    /\ r.row.level < 4 => r.status = "LINKED" /\ r.unit
    /\ r.unit => \E u \in db.unit : u.code = r.row.code /\ u.src = r.row.src

\* What a run tells its operator is true of the committed tables: "imported"
\* and "unchanged" both mean that every administrative unit of its files has been
\* announced, that is, its event is in the outbox.
ResultTruthful ==
  \A i \in Importers :
    result[i] \in {"imported", "unchanged"} =>
      \A r \in adminRows(dir[i]) : r.code \in db.event

\* migrations/README.md: "Re-running the same snapshots is a no-op".
RerunIsNoOp ==
  \A i \in Importers :
    result[i] = "differs" =>
      \E s \in Codes : db.src[s] # NoHash /\ db.src[s] # hash(dir[i], s)

\* Every run ends, also when a rival holds the rows it needs and the rival's
\* operator starts it again and again.
RunsEnd ==
  \A i \in Importers : pc[i] = "begin" ~> pc[i] = "done"

=============================================================================
