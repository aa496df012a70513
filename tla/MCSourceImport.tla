-------------------------- MODULE MCSourceImport --------------------------
(***************************************************************************)
(* SourceImport for TLC: the six files with one row each (two in LEVEL_4,    *)
(* one of them blank) and five directories.                                  *)
(***************************************************************************)
EXTENDS SourceImport, TLC

file(code, area, level, count) ==
  [code |-> code, area |-> area, level |-> level, count |-> count]

MCSnapshots ==
  <<file("2_L1", 2, 1, 1), file("2_L3", 2, 3, 1), file("2_L4", 2, 4, 2),
    file("3_L1", 1, 1, 1), file("3_L2", 1, 2, 1), file("3_L3", 1, 3, 1)>>

MCDirs == {"good", "changed", "duplicate", "flat", "short"}

\* A line of the file s: its unit, its parent.
line(s, k, code, parent) ==
  [src |-> s, line |-> k, code |-> code, level |-> spec(s).level,
   parent |-> parent, area |-> spec(s).area, blank |-> code = "", known |-> TRUE]

\* In the directory "changed" one file is a later snapshot; "duplicate" repeats
\* a code of the other area; "flat" has a parent on the same level; "short"
\* lacks a row.
rowsOf(d, s) ==
  CASE s = "2_L1" -> {line(s, 1, "p", NoParent)}
    [] s = "2_L3" -> {line(s, 1, "w", IF d = "flat" THEN "w" ELSE "p")}
    [] s = "2_L4" -> {line(s, 1, "street", "x")} \cup
                     (IF d = "short" THEN {} ELSE {line(s, 2, "", "x")})
    [] s = "3_L1" -> {line(s, 1, IF d = "duplicate" THEN "p" ELSE "op", NoParent)}
    [] s = "3_L2" -> {line(s, 1, "od", IF d = "duplicate" THEN "p" ELSE "op")}
    [] s = "3_L3" -> {line(s, 1, "ow", "od")}

\* A file is its hash and its rows.  TLC evaluates FileTable once, but the
\* definition that replaces a constant at each use.
FileTable ==
  [d \in MCDirs |-> [s \in Codes |->
     [hash |-> IF rowsOf(d, s) # rowsOf("good", s) \/ (d = "changed" /\ s = "3_L3")
               THEN d ELSE "good",
      rows |-> rowsOf(d, s)]]]

MCFiles == FileTable
=============================================================================
