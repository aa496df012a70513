------------------------- MODULE SourceImportProofs -------------------------
(***************************************************************************)
(* TLAPS proofs about SourceImport, for any number of concurrent runs, any   *)
(* directories and any list of snapshot files.                              *)
(***************************************************************************)
EXTENDS SourceImport, TLAPS

-----------------------------------------------------------------------------
(* The inductive invariant.                                                 *)

\* The canonical unit of a row.
unitOf(r) == [code |-> r.code, parent |-> r.parent, active |-> r.area = 2,
              src |-> r.src]
Statuses == {"STAGED", "INVALID", "LINKED", "UNRESOLVED"}

\* The columns of source_records and the tables of the database.
isRecord(x) == /\ x = [row |-> x.row, status |-> x.status, unit |-> x.unit]
               /\ x.status \in Statuses
isTable(t) ==
  /\ t = [src |-> t.src, rec |-> t.rec, unit |-> t.unit, ref |-> t.ref,
          event |-> t.event]
  /\ t.src \in [Codes -> {NoHash} \cup {hash(d, s) : d \in Dirs, s \in Codes}]
  /\ \A x \in t.rec : isRecord(x)

\* A record after the statements that stage, link and hold it.
staged(x) == x.status = status(x.row) /\ x.unit = FALSE
linked(x) == IF x.row.level < 4 THEN x.status = "LINKED" /\ x.unit = TRUE
             ELSE staged(x)
decided(x) == IF x.row.level < 4 THEN x.status = "LINKED" /\ x.unit = TRUE
              ELSE x.status \in {"INVALID", "UNRESOLVED"} /\ x.unit = FALSE

\* The rows of the first k files, and of the first levels.
rowsUpTo(d, k) == UNION {Files[d][Snapshots[j].code].rows : j \in 1..k}
above(d, k) == {r \in adminRows(d) : r.level < k}
rowsOf(t) == {x.row : x \in t.rec}
refsOf(R) == {<<r.src, r.code>> : r \in R}
codesOf(R) == {r.code : r \in R}
unitsOf(R) == {unitOf(r) : r \in R}

First == Snapshots[1].code

\* What a transaction has added, at each of its statements.
Staging(i) ==
  /\ n[i] \in 1..Len(Snapshots)
  /\ rowsOf(own[i]) = rowsUpTo(dir[i], n[i] - 1)
  /\ \A x \in own[i].rec : staged(x)
  /\ n[i] # 1 => own[i].src[First] # NoHash
  /\ own[i].unit = {} /\ own[i].ref = {} /\ own[i].event = {}
Staged(i) ==
  /\ rowsOf(own[i]) = rows(dir[i])
  /\ own[i].src[First] # NoHash
Promoting(i) ==
  /\ n[i] \in 1..3 /\ Staged(i) /\ \A x \in own[i].rec : staged(x)
  /\ own[i].unit = unitsOf(above(dir[i], n[i]))
  /\ own[i].ref = {} /\ own[i].event = {}
Promoted(i) == Staged(i) /\ own[i].unit = unitsOf(adminRows(dir[i]))

Progress(i) ==
  /\ n[i] \in 1..Len(Snapshots) \cup 1..3
  /\ pc[i] \notin {"idle", "done"} => accepted(dir[i])
  /\ pc[i] \in {"idle", "begin", "check", "done"} => own[i] = Empty
  /\ pc[i] = "stage" => Staging(i)
  /\ pc[i] = "promote" => Promoting(i)
  /\ pc[i] = "link" => /\ Promoted(i) /\ (\A x \in own[i].rec : staged(x))
                       /\ own[i].ref = {} /\ own[i].event = {}
  /\ pc[i] = "hold" => /\ Promoted(i) /\ (\A x \in own[i].rec : linked(x))
                       /\ own[i].ref = {} /\ own[i].event = {}
  /\ pc[i] = "refs" => /\ Promoted(i) /\ (\A x \in own[i].rec : decided(x))
                       /\ own[i].ref = {} /\ own[i].event = {}
  /\ pc[i] = "events" => /\ Promoted(i) /\ (\A x \in own[i].rec : decided(x))
                         /\ own[i].ref = refsOf(adminRows(dir[i]))
                         /\ own[i].event = {}
  /\ pc[i] = "commit" => /\ Promoted(i) /\ (\A x \in own[i].rec : decided(x))
                         /\ own[i].ref = refsOf(adminRows(dir[i]))
                         /\ own[i].event = codesOf(adminRows(dir[i]))

\* The sources a run has staged are those of its directory; the unique and the
\* exclusion constraint keep it apart from the other runs and writers.
Apart(i) ==
  /\ \A s \in Codes : own[i].src[s] \in {NoHash, hash(dir[i], s)}
  /\ \A j \in Importers \ {i} : own[i].src[First] = NoHash \/ own[j].src[First] = NoHash
  /\ \A u \in db.unit, v \in own[i].unit : u.code # v.code

\* A source that is or was committed came with the events of its units.
announced(t) ==
  \A s \in Codes : t.src[s] # NoHash =>
    \E d \in Dirs : /\ t.src[s] = hash(d, s)
                    /\ \A r \in Files[d][s].rows : r.level < 4 => r.code \in db.event

Types ==
  /\ version \in Nat
  /\ dir \in [Importers -> Dirs]
  /\ pc \in [Importers -> {"idle", "begin", "check", "stage", "promote",
                           "link", "hold", "refs", "events", "commit", "done"}]
  /\ n \in [Importers -> 1..Len(Snapshots) \cup 1..3]
  /\ result \in [Importers -> {"none", "invalid", "version", "unchanged",
                               "differs", "partial", "overlap", "conflict",
                               "imported", "failed"}]
  /\ snap = [i \in Importers |-> snap[i]] /\ own = [i \in Importers |-> own[i]]
  /\ isTable(db) /\ \A i \in Importers : isTable(snap[i]) /\ isTable(own[i])

IInv ==
  /\ Types
  /\ \A i \in Importers : Progress(i) /\ Apart(i) /\ announced(snap[i])
  /\ announced(db)
  /\ RecordsDecided
  /\ ResultTruthful

-----------------------------------------------------------------------------
(* Tables.                                                                  *)

\* The list of files is a sequence, and its first file has a code.
LEMMA SnapshotsType ==
  /\ Len(Snapshots) \in Nat /\ DOMAIN Snapshots = 1..Len(Snapshots)
  /\ Len(Snapshots) >= 1
  /\ First \in Codes
  /\ \A k \in 1..Len(Snapshots) : Snapshots[k].code \in Codes
<1>1. Len(Snapshots) \in Nat /\ DOMAIN Snapshots = 1..Len(Snapshots)
  BY SnapshotsAssumption
<1>2. Len(Snapshots) >= 1
  BY SnapshotsAssumption, <1>1
<1> QED
  BY <1>1, <1>2 DEF First, Codes

\* No rows are a table.
LEMMA EmptyTable ==
  /\ isTable(Empty) /\ \A s \in Codes : Empty.src[s] = NoHash
  /\ Empty.rec = {} /\ Empty.unit = {} /\ Empty.ref = {} /\ Empty.event = {}
  BY DEF Empty, isTable

\* What a transaction adds to a table makes a table.
LEMMA MergeTable ==
  ASSUME NEW a, NEW b, isTable(a), isTable(b)
  PROVE  /\ isTable(merge(a, b))
         /\ \A s \in Codes : merge(a, b).src[s] =
                               IF b.src[s] # NoHash THEN b.src[s] ELSE a.src[s]
         /\ merge(a, b).rec = a.rec \cup b.rec
         /\ merge(a, b).unit = a.unit \cup b.unit
         /\ merge(a, b).ref = a.ref \cup b.ref
         /\ merge(a, b).event = a.event \cup b.event
  BY DEF isTable, merge

\* Updates of single columns.
LEMMA UpdateTable ==
  ASSUME NEW t, isTable(t), NEW x
  PROVE  /\ [t EXCEPT !.rec = x] =
              [src |-> t.src, rec |-> x, unit |-> t.unit, ref |-> t.ref, event |-> t.event]
         /\ [t EXCEPT !.unit = x] =
              [src |-> t.src, rec |-> t.rec, unit |-> x, ref |-> t.ref, event |-> t.event]
         /\ [t EXCEPT !.ref = x] =
              [src |-> t.src, rec |-> t.rec, unit |-> t.unit, ref |-> x, event |-> t.event]
         /\ [t EXCEPT !.event = x] =
              [src |-> t.src, rec |-> t.rec, unit |-> t.unit, ref |-> t.ref, event |-> x]
  BY DEF isTable

\* What staging a source does to the tables.
LEMMA InsertedTable ==
  ASSUME NEW t, isTable(t), NEW s, NEW h, NEW R
  PROVE  inserted(t, s, h, R) =
           [src |-> [t.src EXCEPT ![s] = h],
            rec |-> t.rec \cup copied(R),
            unit |-> t.unit, ref |-> t.ref, event |-> t.event]
<1>1. PICK a, b, c, e, f : t = [src |-> a, rec |-> b, unit |-> c, ref |-> e, event |-> f]
  BY DEF isTable
<1>2. t.src = a /\ t.rec = b /\ t.unit = c /\ t.ref = e /\ t.event = f
  BY <1>1
<1>3. PICK x : x = [a EXCEPT ![s] = h]
  OBVIOUS
<1>4. PICK y : y = b \cup copied(R)
  OBVIOUS
<1>5. inserted(t, s, h, R) = [t EXCEPT !.src = x, !.rec = y]
  BY <1>2, <1>3, <1>4 DEF inserted
<1>6. PICK u : u = [t EXCEPT !.src = x]
  OBVIOUS
<1>7. u = [src |-> x, rec |-> b, unit |-> c, ref |-> e, event |-> f]
  BY <1>1, <1>6
<1>8. [u EXCEPT !.rec = y] = [src |-> x, rec |-> y, unit |-> c, ref |-> e, event |-> f]
  BY <1>7
<1>9. [t EXCEPT !.src = x, !.rec = y] = [u EXCEPT !.rec = y]
  BY <1>6
<1> QED
  BY <1>2, <1>3, <1>4, <1>5, <1>8, <1>9

\* The rows of an accepted directory have a level from 1 to 4.
LEMMA AcceptedLevels ==
  ASSUME NEW d \in Dirs, accepted(d), NEW r \in rows(d)
  PROVE  r.level \in 1..4
<1>1. PICK s \in Codes : r \in Files[d][s].rows
  BY DEF rows
<1>2. r.level = spec(s).level
  BY <1>1 DEF accepted, readInput
<1>3. spec(s) \in {Snapshots[i] : i \in DOMAIN Snapshots}
  BY DEF spec, Codes
<1> QED
  BY <1>2, <1>3, SnapshotsAssumption

\* All files together are all rows.
LEMMA AllRows == ASSUME NEW d PROVE rowsUpTo(d, Len(Snapshots)) = rows(d)
  BY SnapshotsType DEF rowsUpTo, rows, Codes

\* The next file.
LEMMA NextRows ==
  ASSUME NEW d, NEW k \in 1..Len(Snapshots)
  PROVE  rowsUpTo(d, k) = rowsUpTo(d, k - 1) \cup Files[d][Snapshots[k].code].rows
<1>1. Len(Snapshots) \in Nat
  BY SnapshotsType
<1>2. 1..k = (1..(k - 1)) \cup {k}
  BY <1>1
<1> QED
  BY <1>2 DEF rowsUpTo

-----------------------------------------------------------------------------
(* Steps and their frame.                                                   *)

Labels == {"idle", "begin", "check", "stage", "promote", "link", "hold", "refs",
           "events", "commit", "done"}
Results == {"none", "invalid", "version", "unchanged", "differs", "partial",
            "overlap", "conflict", "imported", "failed"}

\* The initial states satisfy the invariant.
LEMMA InitInvariant == Init => IInv
<1> SUFFICES ASSUME Init PROVE IInv
  OBVIOUS
<1>1. Types
  BY SnapshotsType, SchemaAssumption, EmptyTable DEF Init, Types
<1>2. ASSUME NEW i \in Importers PROVE Progress(i) /\ Apart(i) /\ announced(snap[i])
  <2>1. pc[i] = "idle" /\ own[i] = Empty /\ snap[i] = Empty /\ db = Empty /\ n[i] = 1
    BY DEF Init
  <2>2. Progress(i)
    BY <2>1, SnapshotsType DEF Progress
  <2>3. \A j \in Importers : own[j].src[First] = NoHash
    BY SnapshotsType, EmptyTable DEF Init
  <2>4. Apart(i)
    BY <2>1, <2>3, EmptyTable DEF Apart
  <2>5. announced(snap[i])
    BY <2>1, EmptyTable DEF announced
  <2> QED
    BY <2>2, <2>4, <2>5
<1>3. announced(db) /\ RecordsDecided
  BY EmptyTable DEF Init, announced, RecordsDecided
<1>4. ResultTruthful
  BY DEF Init, ResultTruthful
<1> QED
  BY <1>1, <1>2, <1>3, <1>4 DEF IInv

\* A run that does not move keeps its progress.
LEMMA IdleKeepsProgress ==
  ASSUME NEW j \in Importers, Progress(j), dir' = dir, pc'[j] = pc[j], n'[j] = n[j],
         own'[j] = own[j]
  PROVE  Progress(j)'
<1>1. /\ Staging(j) => Staging(j)'
      /\ Staged(j) => Staged(j)'
      /\ Promoting(j) => Promoting(j)'
      /\ Promoted(j) => Promoted(j)'
  BY DEF Staging, Staged, Promoting, Promoted
<1> QED
  BY <1>1 DEF Progress

\* Whatever the runs of I do, and whatever happens to the tables: what is left
\* to show.
LEMMA Frame ==
  ASSUME IInv, Types', NEW I \in SUBSET Importers, dir' = dir,
         \A j \in Importers \ I : /\ pc'[j] = pc[j] /\ n'[j] = n[j] /\ own'[j] = own[j]
                                  /\ snap'[j] = snap[j] /\ result'[j] = result[j],
         db.event \subseteq db'.event,
         \A i \in I : Progress(i)',
         \A i \in I : \A s \in Codes : own'[i].src[s] \in {NoHash, hash(dir[i], s)},
         \A i \in I : \A j \in Importers \ {i} :
           own'[i].src[First] = NoHash \/ own'[j].src[First] = NoHash,
         \A j \in Importers : \A u \in db'.unit, v \in own'[j].unit : u.code # v.code,
         \A i \in I : announced(snap[i])',
         announced(db)', RecordsDecided',
         \A i \in I : result'[i] \in {"imported", "unchanged"} =>
                        \A r \in adminRows(dir[i]) : r.code \in db'.event
  PROVE  IInv'
<1>1. ASSUME NEW j \in Importers PROVE Progress(j)'
  BY <1>1, IdleKeepsProgress DEF IInv
<1>2. ASSUME NEW j \in Importers PROVE Apart(j)'
  <2>1. \A s \in Codes : own'[j].src[s] \in {NoHash, hash(dir[j], s)}
    BY DEF IInv, Apart
  <2>2. ASSUME NEW i \in Importers \ {j}
        PROVE  own'[j].src[First] = NoHash \/ own'[i].src[First] = NoHash
    <3>1. CASE i \in I \/ j \in I
      BY <3>1
    <3>2. CASE i \notin I /\ j \notin I
      BY <3>2 DEF IInv, Apart
    <3> QED
      BY <3>1, <3>2
  <2> QED
    BY <2>1, <2>2 DEF Apart
<1>3. ASSUME NEW j \in Importers PROVE announced(snap[j])'
  <2>1. CASE j \in I
    BY <2>1
  <2>2. CASE j \notin I
    <3>1. announced(snap[j]) /\ snap'[j] = snap[j]
      BY <2>2 DEF IInv
    <3> QED
      BY <3>1 DEF announced
  <2> QED
    BY <2>1, <2>2
<1>4. ResultTruthful'
  <2> SUFFICES ASSUME NEW j \in Importers, result'[j] \in {"imported", "unchanged"},
                      NEW r \in adminRows(dir[j])
               PROVE  r.code \in db'.event
    BY DEF ResultTruthful
  <2>1. CASE j \in I
    BY <2>1
  <2>2. CASE j \notin I
    BY <2>2 DEF IInv, ResultTruthful
  <2> QED
    BY <2>1, <2>2
<1> QED
  BY <1>1, <1>2, <1>3, <1>4 DEF IInv

\* A run that goes on to its next statement.
LEMMA GotoStep ==
  ASSUME IInv, NEW i \in Importers, NEW l \in Labels,
         NEW k \in 1..Len(Snapshots) \cup 1..3, goto(i, l, k),
         UNCHANGED <<version, db, dir, result>>,
         NEW o, isTable(o), own' = [own EXCEPT ![i] = o],
         NEW t, isTable(t), snap' = [snap EXCEPT ![i] = t],
         announced(t), l # "idle",
         Progress(i)',
         \A s \in Codes : o.src[s] \in {NoHash, hash(dir[i], s)},
         \A j \in Importers \ {i} : o.src[First] = NoHash \/ own[j].src[First] = NoHash,
         \A u \in db.unit, v \in o.unit : u.code # v.code
  PROVE  IInv'
<1>1. /\ own'[i] = o /\ snap'[i] = t
      /\ \A j \in Importers \ {i} : /\ pc'[j] = pc[j] /\ n'[j] = n[j] /\ own'[j] = own[j]
                                    /\ snap'[j] = snap[j]
  BY DEF IInv, Types, goto
<1>2. Types'
  <2>1. /\ pc' \in [Importers -> Labels] /\ n' \in [Importers -> 1..Len(Snapshots) \cup 1..3]
        /\ snap' = [j \in Importers |-> snap'[j]] /\ own' = [j \in Importers |-> own'[j]]
    BY DEF IInv, Types, goto, Labels
  <2>2. \A j \in Importers : isTable(snap'[j]) /\ isTable(own'[j])
    BY <1>1 DEF IInv, Types
  <2> QED
    BY <2>1, <2>2 DEF IInv, Types, Labels
<1>3. announced(snap[i])' /\ announced(db)' /\ RecordsDecided'
  BY <1>1 DEF IInv, announced, RecordsDecided
<1>4. \A j \in Importers : \A u \in db'.unit, v \in own'[j].unit : u.code # v.code
  BY <1>1 DEF IInv, Apart
<1>5. result'[i] \in {"imported", "unchanged"} => \A r \in adminRows(dir[i]) : r.code \in db'.event
  BY DEF IInv, ResultTruthful
<1>6. PICK I : I = {i}
  OBVIOUS
<1>7. /\ I \in SUBSET Importers
      /\ \A j \in I : Progress(j)'
      /\ \A j \in I : \A s \in Codes : own'[j].src[s] \in {NoHash, hash(dir[j], s)}
      /\ \A h \in I : \A j \in Importers \ {h} :
           own'[h].src[First] = NoHash \/ own'[j].src[First] = NoHash
      /\ \A j \in I : announced(snap[j])'
  BY <1>1, <1>3, <1>6
<1>8. /\ \A j \in Importers \ I : /\ pc'[j] = pc[j] /\ n'[j] = n[j] /\ own'[j] = own[j]
                                  /\ snap'[j] = snap[j] /\ result'[j] = result[j]
      /\ \A j \in I : result'[j] \in {"imported", "unchanged"} =>
                        \A r \in adminRows(dir[j]) : r.code \in db'.event
      /\ db.event \subseteq db'.event
  BY <1>1, <1>5, <1>6
<1> QED
  BY <1>2, <1>3, <1>4, <1>7, <1>8, Frame

\* A run that returns, with or without a commit.
LEMMA ReturnStep ==
  ASSUME IInv, NEW i \in Importers, NEW r \in Results, return(i, r),
         UNCHANGED <<version, dir>>,
         isTable(db)', db.event \subseteq db'.event,
         announced(db)', RecordsDecided',
         \A j \in Importers \ {i} : \A u \in db'.unit, v \in own[j].unit : u.code # v.code,
         r \in {"imported", "unchanged"} => \A x \in adminRows(dir[i]) : x.code \in db'.event
  PROVE  IInv'
<1>1. /\ own'[i] = Empty /\ snap'[i] = Empty /\ pc'[i] = "done" /\ n'[i] = 1 /\ result'[i] = r
      /\ \A j \in Importers \ {i} : /\ pc'[j] = pc[j] /\ n'[j] = n[j] /\ own'[j] = own[j]
                                    /\ snap'[j] = snap[j] /\ result'[j] = result[j]
  BY DEF IInv, Types, return
<1>2. Types'
  <2>1. /\ pc' \in [Importers -> Labels]
        /\ snap' = [j \in Importers |-> snap'[j]] /\ own' = [j \in Importers |-> own'[j]]
        /\ result' \in [Importers -> Results]
    BY DEF IInv, Types, return, Labels, Results
  <2>2. n' \in [Importers -> 1..Len(Snapshots) \cup 1..3]
    BY SnapshotsType DEF IInv, Types, return
  <2>3. \A j \in Importers : isTable(snap'[j]) /\ isTable(own'[j])
    BY <1>1, EmptyTable DEF IInv, Types
  <2> QED
    BY <2>1, <2>2, <2>3 DEF IInv, Types, Labels, Results
<1>3. Progress(i)'
  BY <1>1, SnapshotsType DEF Progress
<1>4. announced(snap[i])'
  BY <1>1, EmptyTable DEF announced
<1>5. \A j \in Importers : \A u \in db'.unit, v \in own'[j].unit : u.code # v.code
  BY <1>1, EmptyTable
<1>6. PICK I : I = {i}
  OBVIOUS
<1>7. /\ I \in SUBSET Importers
      /\ \A j \in I : Progress(j)'
      /\ \A j \in I : \A s \in Codes : own'[j].src[s] \in {NoHash, hash(dir[j], s)}
      /\ \A h \in I : \A j \in Importers \ {h} :
           own'[h].src[First] = NoHash \/ own'[j].src[First] = NoHash
      /\ \A j \in I : announced(snap[j])'
  BY <1>1, <1>3, <1>4, <1>6, EmptyTable, SnapshotsType
<1>8. /\ \A j \in Importers \ I : /\ pc'[j] = pc[j] /\ n'[j] = n[j] /\ own'[j] = own[j]
                                  /\ snap'[j] = snap[j] /\ result'[j] = result[j]
      /\ \A j \in I : result'[j] \in {"imported", "unchanged"} =>
                        \A x \in adminRows(dir[j]) : x.code \in db'.event
  BY <1>1, <1>6
<1> QED
  BY <1>2, <1>5, <1>7, <1>8, Frame

\* A run that returns and has committed nothing.
LEMMA GivesUp ==
  ASSUME IInv, NEW i \in Importers, NEW r \in Results, return(i, r),
         UNCHANGED <<version, db, dir>>,
         r \in {"imported", "unchanged"} => \A x \in adminRows(dir[i]) : x.code \in db.event
  PROVE  IInv'
<1>1. isTable(db)' /\ announced(db)' /\ RecordsDecided'
  BY DEF IInv, Types, isTable, announced, RecordsDecided
<1>2. \A j \in Importers \ {i} : \A u \in db'.unit, v \in own[j].unit : u.code # v.code
  BY DEF IInv, Apart
<1> QED
  BY <1>1, <1>2, ReturnStep

-----------------------------------------------------------------------------
(* The statements before the first write.                                   *)

\* What all of them need of a run.
LEMMA RunFacts ==
  ASSUME IInv, NEW i \in Importers
  PROVE  /\ isTable(own[i]) /\ isTable(snap[i]) /\ isTable(db)
         /\ own = [own EXCEPT ![i] = own[i]] /\ snap = [snap EXCEPT ![i] = snap[i]]
         /\ dir[i] \in Dirs /\ pc[i] \in Labels
         /\ announced(snap[i]) /\ announced(db) /\ Progress(i) /\ Apart(i)
  BY DEF IInv, Types, Labels

\* A label and a statement number for a run of which the tables stay.
LEMMA Advance ==
  ASSUME IInv, NEW i \in Importers, NEW l \in Labels \ {"idle"},
         NEW k \in 1..Len(Snapshots) \cup 1..3, goto(i, l, k),
         UNCHANGED <<version, db, dir, result, own, snap>>, Progress(i)'
  PROVE  IInv'
<1>1. /\ isTable(own[i]) /\ isTable(snap[i]) /\ announced(snap[i]) /\ Apart(i)
      /\ own' = [own EXCEPT ![i] = own[i]] /\ snap' = [snap EXCEPT ![i] = snap[i]]
  BY RunFacts
<1>2. /\ \A s \in Codes : own[i].src[s] \in {NoHash, hash(dir[i], s)}
      /\ \A j \in Importers \ {i} : own[i].src[First] = NoHash \/ own[j].src[First] = NoHash
      /\ \A u \in db.unit, v \in own[i].unit : u.code # v.code
  BY <1>1 DEF Apart
<1>3. l \in Labels /\ l # "idle"
  OBVIOUS
<1> QED
  BY <1>1, <1>2, <1>3, GotoStep

\* Reading and validating the files.
LEMMA ReadStep == ASSUME IInv, NEW i \in Importers, Read(i) PROVE IInv'
<1>1. CASE accepted(dir[i]) /\ goto(i, "begin", 1) /\ UNCHANGED <<snap, own, result>>
  <2>1. pc'[i] = "begin" /\ n'[i] = 1 /\ own'[i] = Empty /\ dir' = dir
    BY <1>1 DEF Read, IInv, Types, goto, Progress
  <2>2. Progress(i)'
    BY <1>1, <2>1, SnapshotsType DEF Progress
  <2>3. "begin" \in Labels \ {"idle"} /\ 1 \in 1..Len(Snapshots) \cup 1..3
    BY DEF Labels
  <2>4. UNCHANGED <<version, db, dir, result, own, snap>>
    BY <1>1 DEF Read
  <2> QED
    BY <1>1, <2>2, <2>3, <2>4, Advance
<1>2. CASE return(i, "invalid")
  <2>1. "invalid" \in Results
    BY DEF Results
  <2> QED
    BY <1>2, <2>1, GivesUp DEF Read
<1> QED
  BY <1>1, <1>2 DEF Read

\* The transaction takes its snapshot.
LEMMA BeginTxStep == ASSUME IInv, NEW i \in Importers, BeginTx(i) PROVE IInv'
<1>1. CASE return(i, "version")
  <2>1. "version" \in Results
    BY DEF Results
  <2> QED
    BY <1>1, <2>1, GivesUp DEF BeginTx
<1>2. CASE goto(i, "check", 1) /\ snap' = [snap EXCEPT ![i] = db] /\ UNCHANGED <<own, result>>
  <2>1. /\ pc'[i] = "check" /\ n'[i] = 1 /\ own'[i] = Empty /\ dir' = dir /\ own[i] = Empty
        /\ accepted(dir[i])
    BY <1>2 DEF BeginTx, IInv, Types, goto, Progress
  <2>2. Progress(i)'
    BY <2>1, SnapshotsType DEF Progress
  <2>3. "check" \in Labels /\ 1 \in 1..Len(Snapshots) \cup 1..3
    BY DEF Labels
  <2>4. UNCHANGED <<version, db, dir, result>>
    BY <1>2 DEF BeginTx
  <2>5. /\ isTable(own[i]) /\ own' = [own EXCEPT ![i] = own[i]] /\ isTable(db) /\ announced(db)
        /\ Apart(i)
    BY <1>2, RunFacts
  <2>6. /\ \A s \in Codes : own[i].src[s] \in {NoHash, hash(dir[i], s)}
        /\ \A j \in Importers \ {i} : own[i].src[First] = NoHash \/ own[j].src[First] = NoHash
        /\ \A u \in db.unit, v \in own[i].unit : u.code # v.code
    BY <2>5 DEF Apart
  <2> QED
    BY <1>2, <2>2, <2>3, <2>4, <2>5, <2>6, GotoStep
<1> QED
  BY <1>1, <1>2 DEF BeginTx

\* "unchanged" is said only of sources whose units have been announced: equal
\* hashes mean equal rows.
LEMMA UnchangedIsTrue ==
  ASSUME IInv, NEW i \in Importers, present(snap[i]) = Codes,
         \A s \in Codes : matches(snap[i], dir[i], s),
         NEW r \in adminRows(dir[i])
  PROVE  r.code \in db.event
<1>1. PICK s \in Codes : r \in Files[dir[i]][s].rows /\ r.level < 4
  BY DEF adminRows, rows
<1>2. snap[i].src[s] # NoHash /\ snap[i].src[s] = hash(dir[i], s)
  BY DEF present, matches
<1>3. announced(snap[i]) /\ dir[i] \in Dirs
  BY RunFacts
<1>4. PICK d \in Dirs : /\ snap[i].src[s] = hash(d, s)
                        /\ \A x \in Files[d][s].rows : x.level < 4 => x.code \in db.event
  BY <1>2, <1>3 DEF announced
<1>5. Files[d][s].rows = Files[dir[i]][s].rows
  BY <1>2, <1>3, <1>4, HashAssumption, ZenonT(60)
<1> QED
  BY <1>1, <1>4, <1>5

\* The comparison with what is there already.
LEMMA CheckStep == ASSUME IInv, NEW i \in Importers, Check(i) PROVE IInv'
<1>1. UNCHANGED <<version, db, dir>>
  BY DEF Check
<1>2. ASSUME NEW r \in {"differs", "partial", "overlap"}, return(i, r) PROVE IInv'
  <2>1. r \in Results /\ r \notin {"imported", "unchanged"}
    BY <1>2 DEF Results
  <2> QED
    BY <1>1, <1>2, <2>1, GivesUp
<1>3. CASE /\ present(snap[i]) = Codes /\ return(i, "unchanged")
           /\ \A s \in present(snap[i]) : matches(snap[i], dir[i], s)
  <2>1. "unchanged" \in Results
    BY DEF Results
  <2>2. \A x \in adminRows(dir[i]) : x.code \in db.event
    BY <1>3, UnchangedIsTrue
  <2> QED
    BY <1>1, <1>3, <2>1, <2>2, GivesUp
<1>4. CASE goto(i, "stage", 1) /\ UNCHANGED <<snap, own, result>>
  <2>1. /\ pc'[i] = "stage" /\ n'[i] = 1 /\ own'[i] = Empty /\ dir' = dir
        /\ accepted(dir[i])
    BY <1>1, <1>4 DEF Check, IInv, Types, goto, Progress
  <2>2. rowsUpTo(dir[i], n'[i] - 1) = {}
    <3>1. 1..(n'[i] - 1) = {}
      BY <2>1
    <3> QED
      BY <3>1 DEF rowsUpTo
  <2>3. Staging(i)'
    BY <2>1, <2>2, SnapshotsType, EmptyTable DEF Staging, rowsOf
  <2>4. Progress(i)'
    BY <2>1, <2>3, SnapshotsType DEF Progress
  <2>5. "stage" \in Labels \ {"idle"} /\ 1 \in 1..Len(Snapshots) \cup 1..3
    BY DEF Labels
  <2>6. UNCHANGED <<version, db, dir, result, own, snap>>
    BY <1>1, <1>4
  <2> QED
    BY <1>4, <2>4, <2>5, <2>6, Advance
<1> QED
  BY <1>2, <1>3, <1>4 DEF Check

\* The files of one source are staged.
LEMMA StageStep == ASSUME IInv, NEW i \in Importers, Stage(i) PROVE IInv'
<1>1. pc[i] = "stage" /\ UNCHANGED <<version, db, dir>>
  BY DEF Stage
<1>2. CASE return(i, "failed") \/ return(i, "conflict")
  <2>1. "failed" \in Results /\ "conflict" \in Results
    BY DEF Results
  <2> QED
    BY <1>1, <1>2, <2>1, GivesUp
<1>3. CASE ~(return(i, "failed") \/ return(i, "conflict"))
  <2>1. PICK k : k = n[i]
    OBVIOUS
  <2>2. PICK s : s = Snapshots[k].code
    OBVIOUS
  <2>3. PICK d : d = dir[i]
    OBVIOUS
  <2>4. PICK new : new = copied(Files[d][s].rows)
    OBVIOUS
  <2>5. PICK o : o = [src |-> [own[i].src EXCEPT ![s] = hash(d, s)], rec |-> own[i].rec \cup new,
                      unit |-> own[i].unit, ref |-> own[i].ref, event |-> own[i].event]
    OBVIOUS
  <2>6. /\ isTable(own[i]) /\ isTable(snap[i]) /\ announced(snap[i]) /\ Apart(i) /\ Progress(i)
        /\ snap = [snap EXCEPT ![i] = snap[i]] /\ d \in Dirs
    BY <2>3, RunFacts
  <2>7. Staging(i) /\ accepted(d)
    BY <1>1, <2>3, <2>6 DEF Progress
  <2>8. k \in 1..Len(Snapshots) /\ s \in Codes
    BY <2>1, <2>2, <2>7, SnapshotsType DEF Staging
  <2>9. hash(d, s) # NoHash
    BY <2>7, <2>8 DEF accepted, readInput
  <2>10. /\ \A j \in Importers \ {i} : own[j].src[s] = NoHash
         /\ own' = [own EXCEPT ![i] = inserted(own[i], s, hash(d, s), Files[d][s].rows)]
         /\ IF n[i] < Len(Snapshots) THEN goto(i, "stage", n[i] + 1) ELSE goto(i, "promote", 1)
         /\ UNCHANGED <<snap, result>>
    BY <1>3, <2>1, <2>2, <2>3 DEF Stage
  <2>11. own' = [own EXCEPT ![i] = o]
    <3>1. PICK t, h, R : t = own[i] /\ h = hash(d, s) /\ R = Files[d][s].rows
      OBVIOUS
    <3>2. isTable(t)
      BY <2>6, <3>1
    <3>3. inserted(t, s, h, R) =
            [src |-> [t.src EXCEPT ![s] = h], rec |-> t.rec \cup copied(R),
             unit |-> t.unit, ref |-> t.ref, event |-> t.event]
      BY <3>2, InsertedTable
    <3>4. inserted(t, s, h, R) = o
      BY <2>4, <2>5, <3>1, <3>3
    <3> QED
      BY <2>10, <3>1, <3>4
  <2>12. \A x \in new : isRecord(x) /\ staged(x)
    BY <2>4 DEF copied, isRecord, staged, status, Statuses
  <2>13. isTable(o)
    <3>1. o.src \in [Codes -> {NoHash} \cup {hash(e, c) : e \in Dirs, c \in Codes}]
      BY <2>5, <2>6, <2>8 DEF isTable
    <3>2. \A x \in o.rec : isRecord(x)
      BY <2>5, <2>6, <2>12 DEF isTable
    <3> QED
      BY <2>5, <3>1, <3>2 DEF isTable
  <2>14. /\ o.src[s] = hash(d, s) /\ \A c \in Codes \ {s} : o.src[c] = own[i].src[c]
         /\ o.rec = own[i].rec \cup new
         /\ o.unit = {} /\ o.ref = {} /\ o.event = {}
    <3>1. own[i].unit = {} /\ own[i].ref = {} /\ own[i].event = {}
      BY <2>7 DEF Staging
    <3>2. own[i].src \in [Codes -> {NoHash} \cup {hash(e, c) : e \in Dirs, c \in Codes}]
      BY <2>6 DEF isTable
    <3> QED
      BY <2>5, <2>8, <3>1, <3>2
  <2>15. o.src[First] # NoHash
    <3>1. CASE k = 1
      BY <2>2, <2>9, <2>14, <3>1 DEF First
    <3>2. CASE k # 1
      <4>1. own[i].src[First] # NoHash
        BY <2>1, <2>7, <3>2 DEF Staging
      <4> QED
        BY <2>9, <2>14, <4>1, SnapshotsType
    <3> QED
      BY <3>1, <3>2
  <2>16. \A j \in Importers \ {i} : own[j].src[First] = NoHash
    <3>1. CASE k = 1
      BY <2>2, <2>10, <3>1 DEF First
    <3>2. CASE k # 1
      <4>1. own[i].src[First] # NoHash
        BY <2>1, <2>7, <3>2 DEF Staging
      <4> QED
        BY <2>6, <4>1 DEF Apart
    <3> QED
      BY <3>1, <3>2
  <2>17. rowsOf(o) = rowsUpTo(d, k)
    <3>1. rowsOf(own[i]) = rowsUpTo(d, k - 1)
      BY <2>1, <2>3, <2>7 DEF Staging
    <3>2. {x.row : x \in new} = Files[d][s].rows
      <4>1. ASSUME NEW r \in Files[d][s].rows PROVE \E x \in new : x.row = r
        <5>1. [row |-> r, status |-> status(r), unit |-> FALSE] \in new
          BY <2>4 DEF copied
        <5> QED
          BY <5>1
      <4>2. \A x \in new : x.row \in Files[d][s].rows
        BY <2>4 DEF copied
      <4> QED
        BY <4>1, <4>2
    <3>3. rowsOf(o) = rowsOf(own[i]) \cup {x.row : x \in new}
      BY <2>14 DEF rowsOf
    <3> QED
      BY <2>2, <2>8, <3>1, <3>2, <3>3, NextRows
  <2>18. \A x \in o.rec : staged(x)
    BY <2>7, <2>12, <2>14 DEF Staging
  <2>19. \A c \in Codes : o.src[c] \in {NoHash, hash(d, c)}
    BY <2>3, <2>6, <2>14 DEF Apart
  <2>20. own'[i] = o /\ dir'[i] = d
    BY <1>1, <2>3, <2>11 DEF IInv, Types
  <2>21. CASE k < Len(Snapshots)
    <3>1. goto(i, "stage", k + 1) /\ k + 1 \in 1..Len(Snapshots) /\ k + 1 - 1 = k /\ k + 1 # 1
      BY <2>1, <2>8, <2>10, <2>21, SnapshotsType
    <3>2. pc'[i] = "stage" /\ n'[i] = k + 1
      BY <3>1 DEF goto, IInv, Types
    <3>3. Staging(i)'
      <4>1. rowsOf(own'[i]) = rowsUpTo(dir'[i], n'[i] - 1)
        <5>1. n'[i] - 1 = k
          BY <2>8, <3>2
        <5> QED
          BY <2>17, <2>20, <5>1
      <4>2. n'[i] \in 1..Len(Snapshots) /\ own'[i].src[First] # NoHash
        BY <2>15, <2>20, <3>1, <3>2
      <4>3. \A x \in own'[i].rec : staged(x)
        BY <2>18, <2>20
      <4>4. own'[i].unit = {} /\ own'[i].ref = {} /\ own'[i].event = {}
        BY <2>14, <2>20
      <4> QED
        BY <4>1, <4>2, <4>3, <4>4 DEF Staging
    <3>4. Progress(i)'
      BY <2>7, <2>20, <3>1, <3>2, <3>3 DEF Progress
    <3>5. "stage" \in Labels /\ k + 1 \in 1..Len(Snapshots) \cup 1..3
      BY <3>1 DEF Labels
    <3>6. \A u \in db.unit, v \in o.unit : u.code # v.code
      BY <2>14
    <3> QED
      BY <1>1, <2>3, <2>6, <2>10, <2>11, <2>13, <2>16, <2>19, <3>1, <3>4, <3>5, <3>6, GotoStep
  <2>22. CASE ~(k < Len(Snapshots))
    <3>1. goto(i, "promote", 1) /\ k = Len(Snapshots)
      BY <2>1, <2>8, <2>10, <2>22, SnapshotsType
    <3>2. pc'[i] = "promote" /\ n'[i] = 1
      BY <3>1 DEF goto, IInv, Types
    <3>3. rowsOf(o) = rows(d)
      BY <2>17, <3>1, AllRows
    <3>4. above(d, 1) = {}
      <4>1. \A r \in adminRows(d) : r.level \in 1..4
        BY <2>6, <2>7, AcceptedLevels DEF adminRows
      <4> QED
        BY <4>1 DEF above
    <3>5. unitsOf(above(d, 1)) = {}
      BY <3>4 DEF unitsOf
    <3>6. Promoting(i)'
      <4>1. own'[i].unit = unitsOf(above(dir'[i], n'[i])) /\ n'[i] \in 1..3
        BY <2>14, <2>20, <3>2, <3>5
      <4>2. \A x \in own'[i].rec : staged(x)
        BY <2>18, <2>20
      <4>3. own'[i].ref = {} /\ own'[i].event = {}
        BY <2>14, <2>20
      <4>4. rowsOf(own'[i]) = rows(dir'[i]) /\ own'[i].src[First] # NoHash
        BY <2>15, <2>20, <3>3
      <4> QED
        BY <4>1, <4>2, <4>3, <4>4 DEF Promoting, Staged
    <3>7. Progress(i)'
      BY <2>7, <2>20, <3>2, <3>6 DEF Progress
    <3>8. "promote" \in Labels /\ 1 \in 1..Len(Snapshots) \cup 1..3
      BY DEF Labels
    <3>9. \A u \in db.unit, v \in o.unit : u.code # v.code
      BY <2>14
    <3> QED
      BY <1>1, <2>3, <2>6, <2>10, <2>11, <2>13, <2>16, <2>19, <3>1, <3>7, <3>8, <3>9, GotoStep
  <2> QED
    BY <2>21, <2>22
<1> QED
  BY <1>2, <1>3

-----------------------------------------------------------------------------
(* The statements after staging.                                            *)

\* A statement that leaves the staged sources alone.
LEMMA Continue ==
  ASSUME IInv, NEW i \in Importers, NEW l \in Labels \ {"idle"},
         NEW k \in 1..Len(Snapshots) \cup 1..3, goto(i, l, k),
         UNCHANGED <<version, db, dir, result, snap>>,
         NEW o, isTable(o), own' = [own EXCEPT ![i] = o], o.src = own[i].src,
         \A u \in db.unit, v \in o.unit : u.code # v.code, Progress(i)'
  PROVE  IInv'
<1>1. /\ isTable(snap[i]) /\ announced(snap[i]) /\ Apart(i)
      /\ snap' = [snap EXCEPT ![i] = snap[i]]
  BY RunFacts
<1>2. /\ \A s \in Codes : o.src[s] \in {NoHash, hash(dir[i], s)}
      /\ \A j \in Importers \ {i} : o.src[First] = NoHash \/ own[j].src[First] = NoHash
  BY <1>1 DEF Apart
<1>3. l \in Labels /\ l # "idle"
  OBVIOUS
<1> QED
  BY <1>1, <1>2, <1>3, GotoStep

\* One level of administrative units is promoted: their parents have been
\* promoted before, because validate wants them on a higher level.
LEMMA PromoteStep == ASSUME IInv, NEW i \in Importers, Promote(i) PROVE IInv'
<1>1. pc[i] = "promote" /\ UNCHANGED <<version, db, dir>>
  BY DEF Promote
<1>2. CASE return(i, "conflict")
  <2>1. "conflict" \in Results
    BY DEF Results
  <2> QED
    BY <1>1, <1>2, <2>1, GivesUp
<1>3. CASE ~return(i, "conflict")
  <2>1. PICK k, d, t : k = n[i] /\ d = dir[i] /\ t = own[i]
    OBVIOUS
  <2>2. PICK level : level = {r \in rows(d) : r.level = k}
    OBVIOUS
  <2>3. PICK new : new = selected(i)
    OBVIOUS
  <2>4. /\ isTable(t) /\ isTable(snap[i]) /\ Apart(i) /\ Progress(i) /\ d \in Dirs
        /\ own = [own EXCEPT ![i] = own[i]]
    BY <2>1, RunFacts
  <2>5. Promoting(i) /\ accepted(d)
    BY <1>1, <2>1, <2>4 DEF Progress
  <2>6. /\ k \in 1..3 /\ rowsOf(t) = rows(d) /\ t.src[First] # NoHash
        /\ (\A x \in t.rec : staged(x))
        /\ t.unit = unitsOf(above(d, k)) /\ t.ref = {} /\ t.event = {}
    BY <2>1, <2>5 DEF Promoting, Staged
  <2>7. /\ \A u \in db.unit, v \in new : u.code # v.code
        /\ own' = [own EXCEPT ![i] = [t EXCEPT !.unit = t.unit \cup new]]
        /\ IF k < 3 THEN goto(i, "promote", k + 1) ELSE goto(i, "link", 1)
        /\ UNCHANGED <<snap, result>>
    <3>1. /\ \A u \in db.unit, v \in selected(i) : u.code # v.code
          /\ own' = [own EXCEPT ![i].unit = @ \cup selected(i)]
          /\ IF n[i] < 3 THEN goto(i, "promote", n[i] + 1) ELSE goto(i, "link", 1)
          /\ UNCHANGED <<snap, result>>
      BY <1>3 DEF Promote
    <3>2. PICK w : w = [own[i] EXCEPT !.unit = @ \cup selected(i)]
      OBVIOUS
    <3>3. own' = [own EXCEPT ![i] = w]
      BY <3>1, <3>2
    <3>4. w = [t EXCEPT !.unit = t.unit \cup new]
      BY <2>1, <2>3, <3>2
    <3> QED
      BY <2>1, <2>3, <3>1, <3>3, <3>4
  <2>8. /\ \A x \in own[i].rec : x.row.level = n[i] => x.row \in level
        /\ \A r \in level : \E x \in own[i].rec : x.row = r /\ x.row.level = n[i]
    BY <2>1, <2>2, <2>6 DEF rowsOf
  <2>9. \A r \in rows(d) : r.level \in 1..4
    BY <2>4, <2>5, AcceptedLevels
  <2>10. ASSUME NEW r \in level PROVE joined(view(i), r) = r.parent
    <3>1. r \in adminRows(d) /\ r.level = k
      BY <2>2, <2>6, <2>9 DEF adminRows
    <3>2. CASE r.parent = NoParent
      BY <3>2 DEF joined
    <3>3. CASE r.parent # NoParent
      <4>1. PICK p \in adminRows(d) : p.code = r.parent /\ p.level < r.level
        BY <2>5, <3>1, <3>3 DEF accepted, validate
      <4>2. unitOf(p) \in t.unit /\ unitOf(p).code = r.parent
        BY <2>6, <3>1, <4>1 DEF unitsOf, above, unitOf
      <4>3. t.unit \subseteq view(i).unit
        BY <2>1, <2>4, MergeTable DEF view
      <4> QED
        BY <4>2, <4>3 DEF joined
    <3> QED
      BY <3>2, <3>3
  <2>11. new = unitsOf(level)
    <3>1. \A x \in own[i].rec : x.row.level = n[i] =>
            unitOf(x.row) = [code |-> x.row.code, parent |-> joined(view(i), x.row),
                             active |-> x.row.area = 2, src |-> x.row.src]
      BY <2>8, <2>10 DEF unitOf
    <3>2. ASSUME NEW u \in new PROVE u \in unitsOf(level)
      <4>1. PICK x \in own[i].rec : x.row.level = n[i] /\ u = unitOf(x.row)
        BY <2>3, <3>1 DEF selected
      <4> QED
        BY <2>8, <4>1 DEF unitsOf
    <3>3. ASSUME NEW r \in level PROVE unitOf(r) \in new
      <4>1. PICK x \in own[i].rec : x.row = r /\ x.row.level = n[i]
        BY <2>8
      <4> QED
        BY <2>3, <3>1, <4>1 DEF selected
    <3> QED
      BY <3>2, <3>3 DEF unitsOf
  <2>12. above(d, k) \cup level = above(d, k + 1)
    <3>1. \A r \in rows(d) : r.level < k + 1 /\ r.level < 4 <=>
                               (r.level < k /\ r.level < 4) \/ r.level = k
      BY <2>6, <2>9
    <3> QED
      BY <2>2, <3>1 DEF above, adminRows
  <2>13. t.unit \cup new = unitsOf(above(d, k + 1))
    BY <2>6, <2>11, <2>12 DEF unitsOf
  <2>14. PICK o : o = [src |-> t.src, rec |-> t.rec, unit |-> t.unit \cup new, ref |-> t.ref,
                       event |-> t.event]
    OBVIOUS
  <2>15. own' = [own EXCEPT ![i] = o]
    <3>1. [t EXCEPT !.unit = t.unit \cup new] = o
      BY <2>4, <2>14, UpdateTable
    <3> QED
      BY <2>7, <3>1
  <2>16. isTable(o) /\ o.src = own[i].src
    BY <2>1, <2>4, <2>14 DEF isTable
  <2>17. own'[i] = o /\ dir'[i] = d
    BY <1>1, <2>1, <2>4, <2>15 DEF IInv, Types
  <2>18. \A u \in db.unit, v \in o.unit : u.code # v.code
    BY <2>1, <2>4, <2>7, <2>14 DEF Apart
  <2>19. /\ rowsOf(o) = rows(d) /\ o.src[First] # NoHash /\ (\A x \in o.rec : staged(x))
         /\ o.unit = unitsOf(above(d, k + 1)) /\ o.ref = {} /\ o.event = {}
    BY <2>6, <2>13, <2>14 DEF rowsOf
  <2>20. CASE k < 3
    <3>1. goto(i, "promote", k + 1) /\ k + 1 \in 1..3
      BY <2>6, <2>7, <2>20
    <3>2. pc'[i] = "promote" /\ n'[i] = k + 1
      BY <3>1 DEF goto, IInv, Types
    <3>3. Promoting(i)'
      BY <2>17, <2>19, <3>1, <3>2 DEF Promoting, Staged
    <3>4. Progress(i)'
      BY <2>5, <2>17, <3>1, <3>2, <3>3 DEF Progress
    <3>5. "promote" \in Labels \ {"idle"} /\ k + 1 \in 1..Len(Snapshots) \cup 1..3
      BY <3>1 DEF Labels
    <3> QED
      BY <1>1, <2>7, <2>15, <2>16, <2>18, <3>1, <3>4, <3>5, Continue
  <2>21. CASE ~(k < 3)
    <3>1. goto(i, "link", 1) /\ k + 1 = 4
      BY <2>6, <2>7, <2>21
    <3>2. pc'[i] = "link" /\ n'[i] = 1
      BY <3>1 DEF goto, IInv, Types
    <3>3. above(d, k + 1) = adminRows(d)
      BY <3>1 DEF above, adminRows
    <3>4. Promoted(i)'
      BY <2>17, <2>19, <3>3 DEF Promoted, Staged
    <3>5. Progress(i)'
      BY <2>5, <2>17, <2>19, <3>2, <3>4 DEF Progress
    <3>6. "link" \in Labels \ {"idle"} /\ 1 \in 1..Len(Snapshots) \cup 1..3
      BY DEF Labels
    <3> QED
      BY <1>1, <2>7, <2>15, <2>16, <2>18, <3>1, <3>5, <3>6, Continue
  <2> QED
    BY <2>20, <2>21
<1> QED
  BY <1>2, <1>3

\* New records, references and events of a transaction.
LEMMA UpdateOwn ==
  ASSUME IInv, NEW i \in Importers, NEW x
  PROVE  /\ [own EXCEPT ![i].rec = x] =
              [own EXCEPT ![i] = [src |-> own[i].src, rec |-> x, unit |-> own[i].unit,
                                  ref |-> own[i].ref, event |-> own[i].event]]
         /\ [own EXCEPT ![i].ref = x] =
              [own EXCEPT ![i] = [src |-> own[i].src, rec |-> own[i].rec, unit |-> own[i].unit,
                                  ref |-> x, event |-> own[i].event]]
         /\ [own EXCEPT ![i].event = x] =
              [own EXCEPT ![i] = [src |-> own[i].src, rec |-> own[i].rec, unit |-> own[i].unit,
                                  ref |-> own[i].ref, event |-> x]]
<1>1. PICK t : t = own[i]
  OBVIOUS
<1>2. isTable(t)
  BY <1>1, RunFacts
<1>3. PICK a, b, c : a = [t EXCEPT !.rec = x] /\ b = [t EXCEPT !.ref = x] /\ c = [t EXCEPT !.event = x]
  OBVIOUS
<1>4. /\ a = [src |-> t.src, rec |-> x, unit |-> t.unit, ref |-> t.ref, event |-> t.event]
      /\ b = [src |-> t.src, rec |-> t.rec, unit |-> t.unit, ref |-> x, event |-> t.event]
      /\ c = [src |-> t.src, rec |-> t.rec, unit |-> t.unit, ref |-> t.ref, event |-> x]
  BY <1>2, <1>3, UpdateTable
<1>5. [own EXCEPT ![i].rec = x] = [own EXCEPT ![i] = a]
  BY <1>1, <1>3
<1>6. [own EXCEPT ![i].ref = x] = [own EXCEPT ![i] = b]
  BY <1>1, <1>3
<1>7. [own EXCEPT ![i].event = x] = [own EXCEPT ![i] = c]
  BY <1>1, <1>3
<1> QED
  BY <1>1, <1>4, <1>5, <1>6, <1>7

\* An update of the staged records that keeps their rows.
LEMMA RecordsStep ==
  ASSUME IInv, NEW i \in Importers, pc[i] \in {"link", "hold"}, NEW R,
         own' = [own EXCEPT ![i].rec = R],
         NEW l \in {"hold", "refs"}, goto(i, l, 1), UNCHANGED <<version, db, dir, snap, result>>,
         {x.row : x \in R} = rows(dir[i]), \A x \in R : isRecord(x),
         \A x \in R : IF l = "hold" THEN linked(x) ELSE decided(x)
  PROVE  IInv'
<1>1. PICK d, t : d = dir[i] /\ t = own[i]
  OBVIOUS
<1>2. PICK o : o = [src |-> t.src, rec |-> R, unit |-> t.unit, ref |-> t.ref, event |-> t.event]
  OBVIOUS
<1>3. isTable(t) /\ Apart(i) /\ Progress(i)
  BY <1>1, RunFacts
<1>4. /\ accepted(d) /\ t.src[First] # NoHash /\ t.unit = unitsOf(adminRows(d))
      /\ t.ref = {} /\ t.event = {}
  BY <1>1, <1>3 DEF Progress, Promoted, Staged
<1>5. own' = [own EXCEPT ![i] = o]
  BY <1>1, <1>2, UpdateOwn
<1>6. isTable(o) /\ o.src = own[i].src
  BY <1>1, <1>2, <1>3 DEF isTable
<1>7. own'[i] = o /\ dir'[i] = d /\ pc'[i] = l /\ n'[i] = 1
  BY <1>1, <1>5 DEF IInv, Types, goto
<1>8. Promoted(i)'
  <2>1. /\ rowsOf(o) = rows(d) /\ o.src[First] # NoHash /\ o.unit = unitsOf(adminRows(d))
    BY <1>1, <1>2, <1>4 DEF rowsOf
  <2> QED
    BY <1>7, <2>1 DEF Promoted, Staged
<1>9. /\ o.ref = {} /\ o.event = {}
      /\ \A x \in o.rec : IF l = "hold" THEN linked(x) ELSE decided(x)
  BY <1>2, <1>4
<1>10. Progress(i)'
  <2>1. CASE l = "hold"
    <3>1. pc'[i] = "hold" /\ accepted(dir'[i]) /\ own'[i].ref = {} /\ own'[i].event = {}
      BY <1>4, <1>7, <1>9, <2>1
    <3>2. \A x \in own'[i].rec : linked(x)
      BY <1>7, <1>9, <2>1
    <3> QED
      BY <1>7, <1>8, <3>1, <3>2 DEF Progress
  <2>2. CASE l = "refs"
    <3>1. pc'[i] = "refs" /\ accepted(dir'[i]) /\ own'[i].ref = {} /\ own'[i].event = {}
      BY <1>4, <1>7, <1>9, <2>2
    <3>2. \A x \in own'[i].rec : decided(x)
      BY <1>7, <1>9, <2>2
    <3> QED
      BY <1>7, <1>8, <3>1, <3>2 DEF Progress
  <2> QED
    BY <2>1, <2>2
<1>11. \A u \in db.unit, v \in o.unit : u.code # v.code
  BY <1>1, <1>2, <1>3 DEF Apart
<1>12. l \in Labels \ {"idle"} /\ 1 \in 1..Len(Snapshots) \cup 1..3
  BY DEF Labels
<1> QED
  BY <1>5, <1>6, <1>10, <1>11, <1>12, Continue

\* What the update makes of one record.
LEMMA LinkedRecord ==
  ASSUME NEW x, isRecord(x)
  PROVE  /\ linkedRecord(x) = [row |-> x.row, status |-> "LINKED", unit |-> TRUE]
         /\ [x EXCEPT !.status = "UNRESOLVED"] =
              [row |-> x.row, status |-> "UNRESOLVED", unit |-> x.unit]
         /\ [x EXCEPT !.status = "LINKED"] =
              [row |-> x.row, status |-> "LINKED", unit |-> x.unit]
<1>1. PICK a, b, c : x = [row |-> a, status |-> b, unit |-> c]
  BY DEF isRecord
<1>2. PICK y : y = [x EXCEPT !.status = "LINKED"]
  OBVIOUS
<1>3. y = [row |-> a, status |-> "LINKED", unit |-> c]
  BY <1>1, <1>2
<1>4. PICK v : v = TRUE
  OBVIOUS
<1>5. [y EXCEPT !.unit = v] = [row |-> a, status |-> "LINKED", unit |-> v]
  BY <1>3
<1>6. linkedRecord(x) = [y EXCEPT !.unit = v]
  BY <1>2, <1>4 DEF linkedRecord
<1> QED
  BY <1>1, <1>2, <1>3, <1>4, <1>5, <1>6

\* Every administrative record is linked: its unit has just been promoted.
LEMMA LinkStep == ASSUME IInv, NEW i \in Importers, Link(i) PROVE IInv'
<1> DEFINE cond(x) == x.row.level < 4 /\ \E u \in view(i).unit : u.code = x.row.code
           change(x) == IF cond(x) THEN linkedRecord(x) ELSE x
<1>1. PICK R : R = {change(x) : x \in own[i].rec}
  OBVIOUS
<1>2. /\ own' = [own EXCEPT ![i].rec = R] /\ pc[i] = "link" /\ goto(i, "hold", 1)
      /\ UNCHANGED <<version, db, dir, snap, result>>
  BY <1>1 DEF Link
<1>3. isTable(own[i]) /\ isTable(snap[i]) /\ Progress(i)
  BY RunFacts
<1>4. /\ rowsOf(own[i]) = rows(dir[i]) /\ own[i].unit = unitsOf(adminRows(dir[i]))
      /\ \A x \in own[i].rec : staged(x)
  BY <1>2, <1>3 DEF Progress, Promoted, Staged
<1>5. ASSUME NEW x \in own[i].rec
      PROVE  isRecord(change(x)) /\ change(x).row = x.row /\ linked(change(x))
  <2>1. isRecord(x) /\ x.row \in rows(dir[i])
    BY <1>3, <1>4 DEF isTable, rowsOf
  <2>2. linkedRecord(x) = [row |-> x.row, status |-> "LINKED", unit |-> TRUE]
    BY <2>1, LinkedRecord
  <2>3. CASE x.row.level < 4
    <3>1. unitOf(x.row) \in own[i].unit /\ unitOf(x.row).code = x.row.code
      BY <1>4, <2>1, <2>3 DEF unitsOf, adminRows, unitOf
    <3>2. own[i].unit \subseteq view(i).unit
      BY <1>3, MergeTable DEF view
    <3>3. change(x) = linkedRecord(x)
      BY <2>3, <3>1, <3>2
    <3> HIDE DEF change
    <3>4. change(x) = [row |-> x.row, status |-> "LINKED", unit |-> TRUE]
      BY <2>2, <3>3
    <3> QED
      BY <2>3, <3>4 DEF isRecord, linked, Statuses
  <2>4. CASE ~(x.row.level < 4)
    <3>1. change(x) = x
      BY <2>4
    <3> HIDE DEF change
    <3> QED
      BY <1>4, <2>1, <2>4, <3>1 DEF linked
  <2> QED
    BY <2>3, <2>4
<1> HIDE DEF change
<1>6. \A x \in R : isRecord(x) /\ linked(x)
  BY <1>1, <1>5
<1>7. {x.row : x \in R} = rows(dir[i])
  <2>1. \A r \in rows(dir[i]) : \E x \in R : x.row = r
    BY <1>1, <1>4, <1>5 DEF rowsOf
  <2>2. \A x \in R : x.row \in rows(dir[i])
    BY <1>1, <1>4, <1>5 DEF rowsOf
  <2> QED
    BY <2>1, <2>2
<1>8. "hold" \in {"hold", "refs"}
  OBVIOUS
<1> QED
  BY <1>2, <1>6, <1>7, <1>8, RecordsStep

\* The records of level 4 are held, blank ones as invalid.
LEMMA HoldStep == ASSUME IInv, NEW i \in Importers, Hold(i) PROVE IInv'
<1> DEFINE change(x) == IF x.row.level = 4 /\ x.status = "STAGED"
                        THEN [x EXCEPT !.status = "UNRESOLVED"] ELSE x
<1>1. PICK R : R = {change(x) : x \in own[i].rec}
  OBVIOUS
<1>2. /\ own' = [own EXCEPT ![i].rec = R] /\ pc[i] = "hold" /\ goto(i, "refs", 1)
      /\ UNCHANGED <<version, db, dir, snap, result>>
  BY <1>1 DEF Hold
<1>3. isTable(own[i]) /\ Progress(i) /\ dir[i] \in Dirs
  BY RunFacts
<1>4. /\ rowsOf(own[i]) = rows(dir[i]) /\ accepted(dir[i])
      /\ \A x \in own[i].rec : linked(x)
  BY <1>2, <1>3 DEF Progress, Promoted, Staged
<1>5. ASSUME NEW x \in own[i].rec
      PROVE  isRecord(change(x)) /\ change(x).row = x.row /\ decided(change(x))
  <2>1. isRecord(x) /\ x.row \in rows(dir[i]) /\ linked(x)
    BY <1>3, <1>4 DEF isTable, rowsOf
  <2>2. [x EXCEPT !.status = "UNRESOLVED"] =
          [row |-> x.row, status |-> "UNRESOLVED", unit |-> x.unit]
    BY <2>1, LinkedRecord
  <2>3. x.row.level \in 1..4
    BY <1>3, <1>4, <2>1, AcceptedLevels
  <2>4. CASE x.row.level = 4 /\ x.status = "STAGED"
    <3>1. change(x) = [row |-> x.row, status |-> "UNRESOLVED", unit |-> x.unit]
      BY <2>2, <2>4
    <3> HIDE DEF change
    <3> QED
      BY <2>1, <2>4, <3>1 DEF isRecord, Statuses, linked, staged, decided
  <2>5. CASE ~(x.row.level = 4 /\ x.status = "STAGED")
    <3>1. change(x) = x
      BY <2>5
    <3>2. CASE x.row.level < 4
      BY <2>1, <3>1, <3>2 DEF linked, decided
    <3>3. CASE ~(x.row.level < 4)
      <4>1. x.row.level = 4
        BY <2>3, <3>3
      <4>2. x.status = "INVALID" /\ x.unit = FALSE
        BY <2>1, <2>5, <3>3, <4>1 DEF linked, staged, status
      <4> HIDE DEF change
      <4> QED
        BY <2>1, <3>1, <3>3, <4>2 DEF decided
    <3> QED
      BY <3>2, <3>3
  <2> QED
    BY <2>4, <2>5
<1> HIDE DEF change
<1>6. \A x \in R : isRecord(x) /\ decided(x)
  BY <1>1, <1>5
<1>7. {x.row : x \in R} = rows(dir[i])
  <2>1. \A r \in rows(dir[i]) : \E x \in R : x.row = r
    BY <1>1, <1>4, <1>5 DEF rowsOf
  <2>2. \A x \in R : x.row \in rows(dir[i])
    BY <1>1, <1>4, <1>5 DEF rowsOf
  <2> QED
    BY <2>1, <2>2
<1>8. "refs" \in {"hold", "refs"} /\ "refs" # "hold"
  OBVIOUS
<1> QED
  BY <1>2, <1>6, <1>7, <1>8, RecordsStep

\* external_references: one of each administrative row.
LEMMA ReferencesStep == ASSUME IInv, NEW i \in Importers, References(i) PROVE IInv'
<1>1. PICK d, t : d = dir[i] /\ t = own[i]
  OBVIOUS
<1>2. PICK R : R = {<<r.row.src, r.row.code>> : r \in {x \in own[i].rec : x.row.level < 4}}
  OBVIOUS
<1>3. PICK o : o = [src |-> t.src, rec |-> t.rec, unit |-> t.unit, ref |-> R, event |-> t.event]
  OBVIOUS
<1>4. /\ own' = [own EXCEPT ![i].ref = R] /\ pc[i] = "refs" /\ goto(i, "events", 1)
      /\ UNCHANGED <<version, db, dir, snap, result>>
  BY <1>2 DEF References
<1>5. isTable(t) /\ Apart(i) /\ Progress(i)
  BY <1>1, RunFacts
<1>6. /\ accepted(d) /\ t.src[First] # NoHash /\ t.unit = unitsOf(adminRows(d))
      /\ rowsOf(t) = rows(d) /\ t.event = {} /\ \A x \in t.rec : decided(x)
  BY <1>1, <1>4, <1>5 DEF Progress, Promoted, Staged
<1>7. R = refsOf(adminRows(d))
  <2>1. \A x \in R : x \in refsOf(adminRows(d))
    BY <1>1, <1>2, <1>6 DEF rowsOf, refsOf, adminRows
  <2>2. \A r \in adminRows(d) : \E x \in t.rec : x.row = r /\ x.row.level < 4
    BY <1>6 DEF rowsOf, adminRows
  <2>3. \A r \in adminRows(d) : <<r.src, r.code>> \in R
    BY <1>1, <1>2, <2>2
  <2> QED
    BY <2>1, <2>3 DEF refsOf
<1>8. own' = [own EXCEPT ![i] = o]
  BY <1>1, <1>3, <1>4, UpdateOwn
<1>9. isTable(o) /\ o.src = own[i].src
  BY <1>1, <1>3, <1>5 DEF isTable
<1>10. own'[i] = o /\ dir'[i] = d /\ pc'[i] = "events" /\ n'[i] = 1
  BY <1>1, <1>4, <1>8 DEF IInv, Types, goto
<1>11. /\ rowsOf(o) = rows(d) /\ o.src[First] # NoHash /\ o.unit = unitsOf(adminRows(d))
       /\ o.ref = refsOf(adminRows(d)) /\ o.event = {} /\ \A x \in o.rec : decided(x)
  BY <1>3, <1>6, <1>7 DEF rowsOf
<1>12. Promoted(i)'
  BY <1>10, <1>11 DEF Promoted, Staged
<1>13. Progress(i)'
  BY <1>6, <1>10, <1>11, <1>12 DEF Progress
<1>14. \A u \in db.unit, v \in o.unit : u.code # v.code
  BY <1>1, <1>3, <1>5 DEF Apart
<1>15. "events" \in Labels \ {"idle"} /\ 1 \in 1..Len(Snapshots) \cup 1..3
  BY DEF Labels
<1> QED
  BY <1>4, <1>8, <1>9, <1>13, <1>14, <1>15, Continue

\* outbox_events: one of each administrative row.
LEMMA EventsStep == ASSUME IInv, NEW i \in Importers, Events(i) PROVE IInv'
<1>1. PICK d, t : d = dir[i] /\ t = own[i]
  OBVIOUS
<1>2. PICK R : R = {r.row.code : r \in {x \in own[i].rec : x.row.level < 4}}
  OBVIOUS
<1>3. PICK o : o = [src |-> t.src, rec |-> t.rec, unit |-> t.unit, ref |-> t.ref, event |-> R]
  OBVIOUS
<1>4. /\ own' = [own EXCEPT ![i].event = R] /\ pc[i] = "events" /\ goto(i, "commit", 1)
      /\ UNCHANGED <<version, db, dir, snap, result>>
  BY <1>2 DEF Events
<1>5. isTable(t) /\ Apart(i) /\ Progress(i)
  BY <1>1, RunFacts
<1>6. /\ accepted(d) /\ t.src[First] # NoHash /\ t.unit = unitsOf(adminRows(d))
      /\ rowsOf(t) = rows(d) /\ t.ref = refsOf(adminRows(d)) /\ \A x \in t.rec : decided(x)
  BY <1>1, <1>4, <1>5 DEF Progress, Promoted, Staged
<1>7. R = codesOf(adminRows(d))
  <2>1. \A x \in R : x \in codesOf(adminRows(d))
    BY <1>1, <1>2, <1>6 DEF rowsOf, codesOf, adminRows
  <2>2. \A r \in adminRows(d) : \E x \in t.rec : x.row = r /\ x.row.level < 4
    BY <1>6 DEF rowsOf, adminRows
  <2>3. \A r \in adminRows(d) : r.code \in R
    BY <1>1, <1>2, <2>2
  <2> QED
    BY <2>1, <2>3 DEF codesOf
<1>8. own' = [own EXCEPT ![i] = o]
  BY <1>1, <1>3, <1>4, UpdateOwn
<1>9. isTable(o) /\ o.src = own[i].src
  BY <1>1, <1>3, <1>5 DEF isTable
<1>10. own'[i] = o /\ dir'[i] = d /\ pc'[i] = "commit" /\ n'[i] = 1
  BY <1>1, <1>4, <1>8 DEF IInv, Types, goto
<1>11. /\ rowsOf(o) = rows(d) /\ o.src[First] # NoHash /\ o.unit = unitsOf(adminRows(d))
       /\ o.ref = refsOf(adminRows(d)) /\ o.event = codesOf(adminRows(d))
       /\ \A x \in o.rec : decided(x)
  BY <1>3, <1>6, <1>7 DEF rowsOf
<1>12. Promoted(i)'
  BY <1>10, <1>11 DEF Promoted, Staged
<1>13. Progress(i)'
  BY <1>6, <1>10, <1>11, <1>12 DEF Progress
<1>14. \A u \in db.unit, v \in o.unit : u.code # v.code
  BY <1>1, <1>3, <1>5 DEF Apart
<1>15. "commit" \in Labels \ {"idle"} /\ 1 \in 1..Len(Snapshots) \cup 1..3
  BY DEF Labels
<1> QED
  BY <1>4, <1>8, <1>9, <1>13, <1>14, <1>15, Continue

\* Who has inserted units has staged the first source.
LEMMA UnitsNeedFirst ==
  ASSUME IInv, NEW j \in Importers, own[j].src[First] = NoHash
  PROVE  own[j].unit = {}
<1>1. Progress(j) /\ pc[j] \in Labels
  BY RunFacts
<1> QED
  BY <1>1, EmptyTable DEF Progress, Labels, Staging, Promoting, Promoted, Staged

\* What a commit makes of the tables.
LEMMA CommitTables ==
  ASSUME IInv, NEW i \in Importers, pc[i] = "commit", db' = merge(db, own[i])
  PROVE  /\ isTable(db)' /\ db.event \subseteq db'.event
         /\ announced(db)' /\ RecordsDecided'
         /\ \A j \in Importers \ {i} : \A u \in db'.unit, v \in own[j].unit : u.code # v.code
         /\ \A r \in adminRows(dir[i]) : r.code \in db'.event
<1>1. /\ isTable(own[i]) /\ isTable(db) /\ Apart(i) /\ Progress(i) /\ announced(db)
      /\ dir[i] \in Dirs
  BY RunFacts
<1>2. /\ isTable(merge(db, own[i]))
      /\ \A s \in Codes : db'.src[s] = IF own[i].src[s] # NoHash THEN own[i].src[s] ELSE db.src[s]
      /\ db'.rec = db.rec \cup own[i].rec /\ db'.unit = db.unit \cup own[i].unit
      /\ db'.event = db.event \cup own[i].event
  BY <1>1, MergeTable
<1>3. /\ Promoted(i) /\ (\A x \in own[i].rec : decided(x))
      /\ own[i].event = codesOf(adminRows(dir[i]))
  BY <1>1 DEF Progress
<1>4. /\ rowsOf(own[i]) = rows(dir[i]) /\ own[i].src[First] # NoHash
      /\ own[i].unit = unitsOf(adminRows(dir[i]))
  BY <1>3 DEF Promoted, Staged
<1>5. \A r \in adminRows(dir[i]) : r.code \in db'.event
  BY <1>2, <1>3 DEF codesOf
<1>6. announced(db)'
  <2> SUFFICES ASSUME NEW s \in Codes, db'.src[s] # NoHash
               PROVE  \E d \in Dirs :
                        /\ db'.src[s] = hash(d, s)
                        /\ \A r \in Files[d][s].rows : r.level < 4 => r.code \in db'.event
    BY DEF announced
  <2>1. CASE own[i].src[s] # NoHash
    <3>1. db'.src[s] = hash(dir[i], s)
      BY <1>1, <1>2, <2>1 DEF Apart
    <3>2. \A r \in Files[dir[i]][s].rows : r.level < 4 => r \in adminRows(dir[i])
      BY DEF adminRows, rows
    <3> QED
      BY <1>1, <1>5, <3>1, <3>2
  <2>2. CASE own[i].src[s] = NoHash
    <3>1. db'.src[s] = db.src[s]
      BY <1>2, <2>2
    <3>2. PICK d \in Dirs : /\ db.src[s] = hash(d, s)
                            /\ \A r \in Files[d][s].rows : r.level < 4 => r.code \in db.event
      BY <1>1, <3>1 DEF announced
    <3> QED
      BY <1>2, <3>1, <3>2
  <2> QED
    BY <2>1, <2>2
<1>7. RecordsDecided'
  <2> SUFFICES ASSUME NEW x \in db'.rec
               PROVE  /\ x.status # "STAGED"
                      /\ x.row.level < 4 => x.status = "LINKED" /\ x.unit
                      /\ x.unit => \E u \in db'.unit : u.code = x.row.code /\ u.src = x.row.src
    BY DEF RecordsDecided
  <2>1. CASE x \in db.rec
    BY <1>2, <2>1 DEF IInv, RecordsDecided
  <2>2. CASE x \in own[i].rec
    <3>1. decided(x) /\ x.row \in rows(dir[i])
      BY <1>3, <1>4, <2>2 DEF rowsOf
    <3>2. CASE x.row.level < 4
      <4>1. unitOf(x.row) \in db'.unit
        BY <1>2, <1>4, <3>1, <3>2 DEF unitsOf, adminRows
      <4>2. unitOf(x.row).code = x.row.code /\ unitOf(x.row).src = x.row.src
        BY DEF unitOf
      <4> QED
        BY <3>1, <3>2, <4>1, <4>2 DEF decided
    <3>3. CASE ~(x.row.level < 4)
      BY <3>1, <3>3 DEF decided
    <3> QED
      BY <3>2, <3>3
  <2> QED
    BY <1>2, <2>1, <2>2
<1>8. ASSUME NEW j \in Importers \ {i} PROVE own[j].unit = {}
  <2>1. own[j].src[First] = NoHash
    BY <1>1, <1>4 DEF Apart
  <2> QED
    BY <2>1, UnitsNeedFirst
<1> QED
  BY <1>2, <1>5, <1>6, <1>7, <1>8

\* A commit, acknowledged or not.
LEMMA CommitStep ==
  ASSUME IInv, NEW i \in Importers, Commit(i) \/ CommitUnacknowledged(i)
  PROVE  IInv'
<1>1. PICK r \in {"imported", "failed"} : return(i, r)
  BY DEF Commit, CommitUnacknowledged
<1>2. pc[i] = "commit" /\ db' = merge(db, own[i]) /\ UNCHANGED <<version, dir>>
  BY DEF Commit, CommitUnacknowledged
<1>3. r \in Results
  BY <1>1 DEF Results
<1>4. /\ isTable(db)' /\ db.event \subseteq db'.event
      /\ announced(db)' /\ RecordsDecided'
      /\ \A j \in Importers \ {i} : \A u \in db'.unit, v \in own[j].unit : u.code # v.code
      /\ \A x \in adminRows(dir[i]) : x.code \in db'.event
  BY <1>2, CommitTables
<1> QED
  BY <1>1, <1>2, <1>3, <1>4, ReturnStep

\* A run that dies, and one that is started again.
LEMMA CrashStep ==
  ASSUME IInv, NEW i \in Importers, Crash(i) \/ Restart(i)
  PROVE  IInv'
<1>1. CASE Crash(i)
  <2>1. "failed" \in Results
    BY DEF Results
  <2> QED
    BY <1>1, <2>1, GivesUp DEF Crash
<1>2. CASE Restart(i)
  <2>1. /\ pc[i] = "done" /\ pc'[i] = "idle" /\ result'[i] = "none"
        /\ \A j \in Importers \ {i} : pc'[j] = pc[j] /\ result'[j] = result[j]
        /\ UNCHANGED <<version, db, dir, n, snap, own>>
    BY <1>2 DEF Restart, IInv, Types
  <2>2. Types'
    <3>1. pc' \in [Importers -> Labels] /\ result' \in [Importers -> Results]
      BY <1>2 DEF Restart, IInv, Types, Labels, Results
    <3> QED
      BY <2>1, <3>1 DEF IInv, Types, Labels, Results
  <2>3. Progress(i)'
    BY <2>1 DEF IInv, Progress
  <2>4. announced(snap[i])' /\ announced(db)' /\ RecordsDecided'
    BY <2>1 DEF IInv, announced, RecordsDecided
  <2>5. Apart(i) /\ \A j \in Importers : \A u \in db'.unit, v \in own'[j].unit : u.code # v.code
    BY <2>1 DEF IInv, Apart
  <2>6. PICK I : I = {i}
    OBVIOUS
  <2>7. /\ I \in SUBSET Importers
        /\ \A j \in I : Progress(j)'
        /\ \A j \in I : \A s \in Codes : own'[j].src[s] \in {NoHash, hash(dir[j], s)}
        /\ \A h \in I : \A j \in Importers \ {h} :
             own'[h].src[First] = NoHash \/ own'[j].src[First] = NoHash
        /\ \A j \in I : announced(snap[j])'
    BY <2>1, <2>3, <2>4, <2>5, <2>6 DEF Apart
  <2>8. /\ \A j \in Importers \ I : /\ pc'[j] = pc[j] /\ n'[j] = n[j] /\ own'[j] = own[j]
                                    /\ snap'[j] = snap[j] /\ result'[j] = result[j]
        /\ \A j \in I : result'[j] \in {"imported", "unchanged"} =>
                          \A x \in adminRows(dir[j]) : x.code \in db'.event
        /\ db.event \subseteq db'.event /\ dir' = dir
    BY <2>1, <2>6
  <2> QED
    BY <2>2, <2>4, <2>5, <2>7, <2>8, Frame
<1> QED
  BY <1>1, <1>2

-----------------------------------------------------------------------------
(* The other writers.                                                       *)

\* A step of somebody else on the tables.
LEMMA TablesStep ==
  ASSUME IInv, UNCHANGED <<dir, pc, n, snap, own, result>>, version' \in Nat,
         isTable(db)', db'.event = db.event, announced(db)', RecordsDecided',
         \A j \in Importers : \A u \in db'.unit, v \in own[j].unit : u.code # v.code
  PROVE  IInv'
<1>1. Types'
  BY DEF IInv, Types
<1>2. PICK I : I = {}
  OBVIOUS
<1>3. I \in SUBSET Importers /\ dir' = dir /\ db.event \subseteq db'.event
  BY <1>2
<1>4. /\ \A j \in Importers \ I : /\ pc'[j] = pc[j] /\ n'[j] = n[j] /\ own'[j] = own[j]
                                  /\ snap'[j] = snap[j] /\ result'[j] = result[j]
      /\ \A i \in I : Progress(i)'
      /\ \A i \in I : \A s \in Codes : own'[i].src[s] \in {NoHash, hash(dir[i], s)}
      /\ \A i \in I : \A j \in Importers \ {i} :
           own'[i].src[First] = NoHash \/ own'[j].src[First] = NoHash
      /\ \A i \in I : announced(snap[i])'
      /\ \A i \in I : result'[i] \in {"imported", "unchanged"} =>
                        \A r \in adminRows(dir[i]) : r.code \in db'.event
  BY <1>2
<1>5. \A j \in Importers : \A u \in db'.unit, v \in own'[j].unit : u.code # v.code
  OBVIOUS
<1> QED
  BY <1>1, <1>3, <1>4, <1>5, Frame

\* cmd/migrate, or nothing at all.
LEMMA MigrateStep == ASSUME IInv, Migrate \/ UNCHANGED vars PROVE IInv'
<1>1. UNCHANGED <<db, dir, pc, n, snap, own, result>> /\ version' \in Nat
  BY SchemaAssumption DEF Migrate, vars, IInv, Types
<1>2. isTable(db)' /\ announced(db)' /\ RecordsDecided'
  BY <1>1 DEF IInv, Types, announced, RecordsDecided
<1>3. \A j \in Importers : \A u \in db'.unit, v \in own[j].unit : u.code # v.code
  BY <1>1 DEF IInv, Apart
<1> QED
  BY <1>1, <1>2, <1>3, TablesStep

\* The platform creates a unit.
LEMMA CreateUnitStep == ASSUME IInv, NEW c, CreateUnit(c) PROVE IInv'
<1>1. PICK new : new = [code |-> c, parent |-> NoParent, active |-> TRUE, src |-> NoHash]
  OBVIOUS
<1>2. PICK U : U = db.unit \cup {new}
  OBVIOUS
<1>3. isTable(db)
  BY DEF IInv, Types
<1>4. db' = [db EXCEPT !.unit = U] /\ UNCHANGED <<version, dir, pc, n, snap, own, result>>
  BY <1>1, <1>2 DEF CreateUnit
<1>5. db' = [src |-> db.src, rec |-> db.rec, unit |-> U, ref |-> db.ref, event |-> db.event]
  BY <1>3, <1>4, UpdateTable
<1>6. /\ db'.src = db.src /\ db'.rec = db.rec /\ db'.unit = U /\ db'.ref = db.ref
      /\ db'.event = db.event
  BY <1>5
<1>7. isTable(db)'
  BY <1>3, <1>5 DEF isTable
<1>8. announced(db)' /\ RecordsDecided'
  BY <1>2, <1>6 DEF IInv, announced, RecordsDecided
<1>9. new.code = c
  BY <1>1
<1>10. \A j \in Importers : \A u \in db'.unit, v \in own[j].unit : u.code # v.code
  <2> SUFFICES ASSUME NEW j \in Importers, NEW u \in db'.unit, NEW v \in own[j].unit
               PROVE  u.code # v.code
    OBVIOUS
  <2>1. CASE u \in db.unit
    BY <2>1 DEF IInv, Apart
  <2>2. CASE u = new
    <3>1. v.code # c
      BY DEF CreateUnit
    <3> QED
      BY <1>9, <2>2, <3>1
  <2> QED
    BY <1>2, <1>6, <2>1, <2>2
<1>11. version' \in Nat
  BY <1>4 DEF IInv, Types
<1> QED
  BY <1>4, <1>6, <1>7, <1>8, <1>10, <1>11, TablesStep

\* A reviewer links a held record: it is not an administrative one.
LEMMA ResolveStep == ASSUME IInv, NEW r \in db.rec, Resolve(r) PROVE IInv'
<1>1. PICK x : x = [r EXCEPT !.status = "LINKED"]
  OBVIOUS
<1>2. PICK R : R = (db.rec \ {r}) \cup {x}
  OBVIOUS
<1>3. isTable(db)
  BY DEF IInv, Types
<1>4. /\ db' = [db EXCEPT !.rec = R] /\ UNCHANGED <<version, dir, pc, n, snap, own, result>>
      /\ r.status = "UNRESOLVED"
  BY <1>1, <1>2 DEF Resolve
<1>5. db' = [src |-> db.src, rec |-> R, unit |-> db.unit, ref |-> db.ref, event |-> db.event]
  BY <1>3, <1>4, UpdateTable
<1>6. /\ db'.src = db.src /\ db'.rec = R /\ db'.unit = db.unit /\ db'.event = db.event
  BY <1>5
<1>7. isRecord(r)
  BY <1>3 DEF isTable
<1>8. x = [row |-> r.row, status |-> "LINKED", unit |-> r.unit]
  BY <1>1, <1>7, LinkedRecord
<1>9. isRecord(x)
  BY <1>8 DEF isRecord, Statuses
<1>10. isTable(db)'
  <2>1. \A y \in R : isRecord(y)
    BY <1>2, <1>3, <1>9 DEF isTable
  <2>2. isTable(db')
    BY <1>3, <1>5, <1>6, <2>1 DEF isTable
  <2> QED
    BY <2>2
<1>11. announced(db)'
  BY <1>6 DEF IInv, announced
<1>12. RecordsDecided'
  <2>1. ~(r.row.level < 4) /\ (r.unit => \E u \in db.unit : u.code = r.row.code /\ u.src = r.row.src)
    BY <1>4 DEF IInv, RecordsDecided
  <2>2. x.row = r.row /\ x.status = "LINKED" /\ x.unit = r.unit
    BY <1>8
  <2> SUFFICES ASSUME NEW y \in R
               PROVE  /\ y.status # "STAGED"
                      /\ y.row.level < 4 => y.status = "LINKED" /\ y.unit
                      /\ y.unit => \E u \in db.unit : u.code = y.row.code /\ u.src = y.row.src
    BY <1>6 DEF RecordsDecided
  <2>3. CASE y \in db.rec
    BY <2>3 DEF IInv, RecordsDecided
  <2>4. CASE y = x
    BY <2>1, <2>2, <2>4
  <2> QED
    BY <1>2, <2>3, <2>4
<1>13. \A j \in Importers : \A u \in db'.unit, v \in own[j].unit : u.code # v.code
  BY <1>6 DEF IInv, Apart
<1>14. version' \in Nat
  BY <1>4 DEF IInv, Types
<1> QED
  BY <1>4, <1>6, <1>10, <1>11, <1>12, <1>13, <1>14, TablesStep

\* An operator removes a source of held records.
LEMMA DropHeldStep == ASSUME IInv, NEW s \in Codes, DropHeld(s) PROVE IInv'
<1>1. PICK x : x = [db.src EXCEPT ![s] = NoHash]
  OBVIOUS
<1>2. PICK R : R = {r \in db.rec : r.row.src # s}
  OBVIOUS
<1>3. isTable(db)
  BY DEF IInv, Types
<1>4. /\ db' = [db EXCEPT !.src = x, !.rec = R]
      /\ UNCHANGED <<version, dir, pc, n, snap, own, result>>
  BY <1>1, <1>2 DEF DropHeld
<1>5. db' = [src |-> x, rec |-> R, unit |-> db.unit, ref |-> db.ref, event |-> db.event]
  <2>1. PICK u : u = [db EXCEPT !.src = x]
    OBVIOUS
  <2>2. u = [src |-> x, rec |-> db.rec, unit |-> db.unit, ref |-> db.ref, event |-> db.event]
    BY <1>3, <2>1 DEF isTable
  <2>3. [u EXCEPT !.rec = R] =
          [src |-> x, rec |-> R, unit |-> db.unit, ref |-> db.ref, event |-> db.event]
    BY <2>2
  <2>4. [db EXCEPT !.src = x, !.rec = R] = [u EXCEPT !.rec = R]
    BY <2>1
  <2> QED
    BY <1>4, <2>3, <2>4
<1>6. /\ db'.src = x /\ db'.rec = R /\ db'.unit = db.unit /\ db'.event = db.event
  BY <1>5
<1>7. /\ x \in [Codes -> {NoHash} \cup {hash(d, c) : d \in Dirs, c \in Codes}]
      /\ x[s] = NoHash /\ \A c \in Codes \ {s} : x[c] = db.src[c]
  BY <1>1, <1>3 DEF isTable
<1>8. isTable(db)'
  <2>1. \A y \in R : isRecord(y)
    BY <1>2, <1>3 DEF isTable
  <2>2. isTable(db')
    BY <1>5, <1>6, <1>7, <2>1 DEF isTable
  <2> QED
    BY <2>2
<1>9. announced(db)'
  BY <1>6, <1>7 DEF IInv, announced
<1>10. RecordsDecided'
  BY <1>2, <1>6 DEF IInv, RecordsDecided
<1>11. \A j \in Importers : \A u \in db'.unit, v \in own[j].unit : u.code # v.code
  BY <1>6 DEF IInv, Apart
<1>12. version' \in Nat
  BY <1>4 DEF IInv, Types
<1> QED
  BY <1>4, <1>6, <1>8, <1>9, <1>10, <1>11, <1>12, TablesStep

-----------------------------------------------------------------------------
(* The theorems.                                                            *)

\* Every step keeps the invariant.
LEMMA StepInvariant == ASSUME IInv, [Next]_vars PROVE IInv'
<1>1. ASSUME NEW i \in Importers, Step(i) PROVE IInv'
  BY <1>1, ReadStep, BeginTxStep, CheckStep, StageStep, PromoteStep, LinkStep, HoldStep,
     ReferencesStep, EventsStep, CommitStep DEF Step
<1>2. ASSUME NEW i \in Importers, CommitUnacknowledged(i) \/ Crash(i) \/ Restart(i)
      PROVE  IInv'
  BY <1>2, CommitStep, CrashStep
<1>3. CASE Migrate \/ UNCHANGED vars
  BY <1>3, MigrateStep
<1>4. ASSUME NEW c \in ForeignCodes, CreateUnit(c) PROVE IInv'
  BY <1>4, CreateUnitStep
<1>5. ASSUME NEW r \in db.rec, Resolve(r) PROVE IInv'
  BY <1>5, ResolveStep
<1>6. ASSUME NEW s \in Codes, DropHeld(s) PROVE IInv'
  BY <1>6, DropHeldStep
<1> QED
  BY <1>1, <1>2, <1>3, <1>4, <1>5, <1>6 DEF Next

\* The inductive invariant: what each transaction has added at each of its
\* statements, that only one of them gets past the first source, and that a
\* committed source came with the events of its units.
THEOREM Invariant == Spec => []IInv
  BY InitInvariant, StepInvariant, PTL DEF Spec

\* The variables of the model keep their types.
THEOREM TypeCorrect == Spec => []TypeOK
<1>1. IInv => TypeOK
  BY DEF IInv, Types, TypeOK, isTable, isRecord, Statuses
<1> QED
  BY <1>1, Invariant, PTL

\* No staged record is ever committed undecided, whichever runs and writers
\* interleave and wherever a run dies (Stage, Promote, Link, Hold, Commit).
THEOREM RecordsDecidedAlways == Spec => []RecordsDecided
<1>1. IInv => RecordsDecided
  BY DEF IInv
<1> QED
  BY <1>1, Invariant, PTL

\* "imported" and "unchanged" are only reported when all the units of the
\* directory have been announced (Check, Commit).
THEOREM ResultTruthfulAlways == Spec => []ResultTruthful
<1>1. IInv => ResultTruthful
  BY DEF IInv
<1> QED
  BY <1>1, Invariant, PTL

\* An import is one step of the abstract specification.
LEMMA CommitLoads ==
  ASSUME IInv, NEW i \in Importers, pc[i] = "commit", db' = merge(db, own[i])
  PROVE  Canonical!Load(dir[i])
<1>1. PICK d : d = dir[i]
  OBVIOUS
<1>2. isTable(own[i]) /\ isTable(db) /\ Apart(i) /\ Progress(i)
  BY RunFacts
<1>3. /\ db'.unit = db.unit \cup own[i].unit /\ db'.event = db.event \cup own[i].event
      /\ db'.ref = db.ref \cup own[i].ref
  BY <1>2, MergeTable
<1>4. /\ accepted(d) /\ own[i].unit = unitsOf(adminRows(d))
      /\ own[i].ref = refsOf(adminRows(d)) /\ own[i].event = codesOf(adminRows(d))
  BY <1>1, <1>2 DEF Progress, Promoted
<1>5. \A u \in db.unit : \A r \in adminRows(d) : u.code # r.code
  <2> SUFFICES ASSUME NEW u \in db.unit, NEW r \in adminRows(d) PROVE u.code # r.code
    OBVIOUS
  <2>1. unitOf(r) \in own[i].unit /\ unitOf(r).code = r.code
    BY <1>4 DEF unitsOf, unitOf
  <2> QED
    BY <1>2, <2>1 DEF Apart
<1>6. Canonical!adminRows(d) = adminRows(d)
  BY DEF Canonical!adminRows, Canonical!rows, Canonical!Codes, adminRows, rows, Codes
<1>7. Canonical!accepted(d)
  <2>1. Canonical!Codes = Codes
    BY DEF Canonical!Codes, Codes
  <2>2. \A s : Canonical!spec(s) = spec(s)
    BY DEF Canonical!spec, spec
  <2>3. \A s : Canonical!hash(d, s) = hash(d, s)
    BY DEF Canonical!hash, hash
  <2>4. ASSUME NEW r, parseLine(r) PROVE Canonical!parseLine(r)
    BY <2>4 DEF Canonical!parseLine, parseLine
  <2>5. ASSUME NEW s \in Codes PROVE Canonical!readInput(d, s)
    <3>1. readInput(d, s)
      BY <1>4, <2>5 DEF accepted
    <3>2. hash(d, s) # NoHash /\ Cardinality(Files[d][s].rows) = spec(s).count
      BY <3>1 DEF readInput
    <3>3. \A r \in Files[d][s].rows :
            parseLine(r) /\ r.area = spec(s).area /\ r.level = spec(s).level
      BY <3>1 DEF readInput
    <3>4. \A r \in Files[d][s].rows :
            /\ Canonical!parseLine(r)
            /\ r.area = Canonical!spec(s).area /\ r.level = Canonical!spec(s).level
      BY <3>3, <2>2, <2>4
    <3>5. /\ Canonical!hash(d, s) # NoHash
          /\ Canonical!Cardinality(Files[d][s].rows) = Canonical!spec(s).count
      BY <3>2, <2>2, <2>3, Zenon
         DEF Cardinality, IsFiniteSet, Canonical!Cardinality, Canonical!IsFiniteSet
    <3> QED
      BY <3>4, <3>5 DEF Canonical!readInput
  <2>6. Canonical!validate(d)
    <3>1. validate(d)
      BY <1>4 DEF accepted
    <3> QED
      BY <3>1, <1>6 DEF validate, Canonical!validate
  <2> QED
    BY <2>1, <2>5, <2>6 DEF Canonical!accepted
<1>8. /\ db'.unit = db.unit \cup {Canonical!unitOf(r) : r \in adminRows(d)}
      /\ db'.ref = db.ref \cup {<<r.src, r.code>> : r \in adminRows(d)}
      /\ db'.event = db.event \cup {r.code : r \in adminRows(d)}
  BY <1>3, <1>4 DEF unitsOf, refsOf, codesOf, unitOf, Canonical!unitOf
<1> QED
  BY <1>1, <1>5, <1>6, <1>7, <1>8 DEF Canonical!Load

\* Every other step leaves the canonical tables alone, or is another writer's.
LEMMA StepRefines ==
  ASSUME IInv, [Next]_vars
  PROVE  [Canonical!Next]_(Canonical!vars)
<1>1. ASSUME NEW i \in Importers, Commit(i) \/ CommitUnacknowledged(i)
      PROVE  Canonical!Next
  <2>1. Canonical!Load(dir[i])
    BY <1>1, CommitLoads DEF Commit, CommitUnacknowledged
  <2>2. dir[i] \in Dirs
    BY RunFacts
  <2> QED
    BY <2>1, <2>2 DEF Canonical!Next
<1>2. ASSUME db' = db PROVE UNCHANGED Canonical!vars
  BY <1>2 DEF Canonical!vars
<1>3. ASSUME NEW i \in Importers, Step(i) \/ Crash(i) \/ Restart(i), ~Commit(i)
      PROVE  db' = db
  BY <1>3 DEF Step, Read, BeginTx, Check, Stage, Promote, Link, Hold, References, Events,
              Crash, Restart
<1>4. CASE Migrate \/ UNCHANGED vars
  BY <1>2, <1>4 DEF Migrate, vars
<1>5. isTable(db)
  BY DEF IInv, Types
<1>6. ASSUME NEW c \in ForeignCodes, CreateUnit(c) PROVE Canonical!Next
  <2>1. PICK new : new = [code |-> c, parent |-> NoParent, active |-> TRUE, src |-> NoHash]
    OBVIOUS
  <2>2. PICK U : U = db.unit \cup {new}
    OBVIOUS
  <2>3. db' = [db EXCEPT !.unit = U]
    BY <1>6, <2>1, <2>2 DEF CreateUnit
  <2>4. db' = [src |-> db.src, rec |-> db.rec, unit |-> U, ref |-> db.ref, event |-> db.event]
    BY <1>5, <2>3, UpdateTable
  <2>5. db'.unit = U /\ db'.ref = db.ref /\ db'.event = db.event
    BY <2>4
  <2>6. new \notin db.unit /\ new.src = NoHash
    BY <1>6, <2>1 DEF CreateUnit
  <2> QED
    BY <2>2, <2>5, <2>6 DEF Canonical!Next, Canonical!Foreign
<1>7. ASSUME NEW r \in db.rec, Resolve(r) PROVE UNCHANGED Canonical!vars
  <2>1. PICK R : R = (db.rec \ {r}) \cup {[r EXCEPT !.status = "LINKED"]}
    OBVIOUS
  <2>2. db' = [db EXCEPT !.rec = R]
    BY <1>7, <2>1 DEF Resolve
  <2>3. db' = [src |-> db.src, rec |-> R, unit |-> db.unit, ref |-> db.ref, event |-> db.event]
    BY <1>5, <2>2, UpdateTable
  <2>4. db'.unit = db.unit /\ db'.ref = db.ref /\ db'.event = db.event
    BY <2>3
  <2> QED
    BY <2>4 DEF Canonical!vars
<1>8. ASSUME NEW s \in Codes, DropHeld(s) PROVE UNCHANGED Canonical!vars
  <2>1. PICK x, R : x = [db.src EXCEPT ![s] = NoHash] /\ R = {r \in db.rec : r.row.src # s}
    OBVIOUS
  <2>2. db' = [db EXCEPT !.src = x, !.rec = R]
    BY <1>8, <2>1 DEF DropHeld
  <2>3. db'.unit = db.unit /\ db'.ref = db.ref /\ db'.event = db.event
    BY <1>5, <2>2 DEF isTable
  <2> QED
    BY <2>3 DEF Canonical!vars
<1> QED
  BY <1>1, <1>2, <1>3, <1>4, <1>6, <1>7, <1>8 DEF Next, Step

\* Any number of concurrent, dying and restarted imports implement the atomic
\* load: the canonical units of a directory, their references and their events
\* appear together and once (Import, as CanonicalLoad promises it).
THEOREM Refinement == Spec => ImplementsCanonicalLoad
<1>1. Init => Canonical!Init
  BY EmptyTable DEF Init, Canonical!Init
<1> QED
  BY <1>1, Invariant, StepRefines, PTL DEF Spec, ImplementsCanonicalLoad, Canonical!Spec
=============================================================================
