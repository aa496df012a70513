---------------------------- MODULE SourceFiles ----------------------------
(***************************************************************************)
(* The six SuperShip snapshot files as the importer understands them        *)
(* (internal/importjob/infrastructure/postgres/import.go, parseLine,        *)
(* readInput and validate).  A row is one INSERT line of a file; its text   *)
(* is abstracted to the columns the importer decides on.                    *)
(***************************************************************************)
EXTENDS Naturals, FiniteSets, Sequences

CONSTANTS
  Snapshots, \* the expected files, in order: code, area, level and count
  Dirs,      \* the directories an operator may pass with -dir
  Files,     \* Files[d][code]: the hash and the rows of a file
  NoHash,    \* no such file, or no such source
  NoParent   \* raw_parent_id IS NULL

\* There is a file, and a file is of one of the levels 1 to 4.
ASSUME SnapshotsAssumption ==
  /\ Snapshots \in Seq({Snapshots[i] : i \in DOMAIN Snapshots}) /\ Snapshots # <<>>
  /\ \A i \in DOMAIN Snapshots : Snapshots[i].level \in 1..4

Codes == {Snapshots[i].code : i \in DOMAIN Snapshots}
spec(code) == CHOOSE s \in {Snapshots[i] : i \in DOMAIN Snapshots} : s.code = code

rows(d) == UNION {Files[d][s].rows : s \in Codes}
adminRows(d) == {r \in rows(d) : r.level < 4}
hash(d, s) == Files[d][s].hash

\* SHA-256: files with the same hash have the same rows.
ASSUME HashAssumption ==
  \A d1, d2 \in Dirs, s \in Codes :
    hash(d1, s) = hash(d2, s) => Files[d1][s].rows = Files[d2][s].rows

\* parseLine: exactly level 1 has no parent, only level 4 may be blank, and an
\* administrative unit has a known kind.
parseLine(r) ==
  /\ (r.level = 1) = (r.parent = NoParent)
  /\ r.blank => r.level = 4
  /\ r.level < 4 => r.known

\* The status a row is staged with.
status(r) == IF r.blank THEN "INVALID" ELSE "STAGED"

\* readInput: the file exists, every row parses and has the level and the area
\* of its file, and the number of rows is the expected one.
readInput(d, s) ==
  /\ hash(d, s) # NoHash
  /\ \A r \in Files[d][s].rows :
       /\ parseLine(r)
       /\ r.area = spec(s).area /\ r.level = spec(s).level
  /\ Cardinality(Files[d][s].rows) = spec(s).count

\* Mutant: a parent on the same level passes.
validateSameLevel(d) ==
  /\ \A r1, r2 \in adminRows(d) : r1.code = r2.code => r1 = r2
  /\ \A r \in adminRows(d) :
       \/ r.parent = NoParent
       \/ \E p \in adminRows(d) :
            p.code = r.parent /\ p.area = r.area /\ p.level <= r.level

\* validate: administrative codes are unique over all files, and every parent
\* is an administrative unit of the same area on a higher level.
validate(d) ==
  /\ \A r1, r2 \in adminRows(d) : r1.code = r2.code => r1 = r2
  /\ \A r \in adminRows(d) :
       \/ r.parent = NoParent
       \/ \E p \in adminRows(d) :
            p.code = r.parent /\ p.area = r.area /\ p.level < r.level

\* Import looks at the files before it opens a connection.
accepted(d) == (\A s \in Codes : readInput(d, s)) /\ validate(d)

=============================================================================
