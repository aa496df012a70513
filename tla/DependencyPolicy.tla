-------------------------- MODULE DependencyPolicy --------------------------
(***************************************************************************)
(* The checker of the architecture's import rules (tools/dependencycheck):   *)
(* it walks the tree file by file and judges every import by itself.  The    *)
(* architecture speaks of what a package depends on, through any number of   *)
(* others; the properties relate the two.                                    *)
(*                                                                           *)
(* A path is the sequence of its segments; a file is a record of its         *)
(* package, whether it is a test, its name (doc.go stands for a file without *)
(* declarations), what it imports, the names under which it imports context  *)
(* and its uses of those names.  Directories the walk skips (vendor,         *)
(* node_modules, testdata, hidden ones) have no files here.                  *)
(***************************************************************************)
EXTENDS SequencesExt

CONSTANTS
  Module,    \* the path of the Go module
  Modules, Platforms, Pure, External, \* dependency-policy.json
  Std,       \* the paths of go list std
  Files,     \* the Go files a tree can have
  MaxImports \* bound on what one walk records

ASSUME DependencyAssumption == MaxImports \in Nat

VARIABLES
  phase,      \* of run: "load", "walk" or "done"
  exit,       \* "none", "passed", "violations" or "error"
  violations, \* the reasons found so far
  graph       \* while there are none: the imports of the production files

vars == <<phase, exit, violations, graph>>

-----------------------------------------------------------------------------
(* Paths.                                                                    *)

within(value, prefix) == IsPrefix(prefix, value)

\* path.Match on whole segments: * stands for one.
matchSegments(pattern, value) ==
  /\ Len(pattern) = Len(value)
  /\ \A i \in DOMAIN value : pattern[i] \in {"*", value[i]}

\* A trailing /** matches the package itself and any descendant.
matches(pattern, value) ==
  IF Last(pattern) = "**"
  THEN \E n \in 1..Len(value) : matchSegments(Front(pattern), SubSeq(value, 1, n))
  ELSE matchSegments(pattern, value)

location(k, m, l, c) == [kind |-> k, module |-> m, layer |-> l, component |-> c]
nowhere == location("", "", "", "")
core == {"domain", "application", "contract"}

\* Where a package stands in the architecture.  A module cannot have the name of
\* one of the other directories.
classify(pkg) ==
  LET n == Len(pkg)
      named == pkg[2] \in Modules \ {"bootstrap", "platform"}
  IN
    CASE n >= 2 /\ pkg[1] \in {"cmd", "tools"} -> location(pkg[1], "", "", "")
      [] n >= 2 /\ pkg[1] = "test" /\ pkg[2] \in {"integration", "e2e", "fixtures"} ->
           location("test", "", "", "")
      [] n >= 2 /\ pkg[1] = "internal" /\ pkg[2] = "bootstrap" ->
           location("bootstrap", "", "", "")
      [] n >= 3 /\ pkg[1] = "internal" /\ pkg[2] = "platform" /\ pkg[3] \in Platforms ->
           location("platform", "", "", pkg[3])
      [] n = 2 /\ pkg[1] = "internal" /\ named ->
           location("module-root", pkg[2], "", "")
      [] n >= 3 /\ pkg[1] = "internal" /\ named
           /\ pkg[3] \in core \cup {"infrastructure", "transport"} ->
           location("module", pkg[2], pkg[3], "")
      [] OTHER -> nowhere

isCore(loc) == loc.kind = "module" /\ loc.layer \in core
isErrors(loc) == loc.kind = "platform" /\ loc.component = "apperror"
isPure(imported) == imported \in Std /\ \E p \in Pure : within(imported, p)

\* The standard library has no packages in the directories of the architecture
\* or under the module's path, and an approved external path begins with a host.
ASSUME PathsAssumption ==
  /\ \A p \in Std : classify(p) = nowhere /\ ~within(p, Module)
  /\ \A f \in Files : /\ f.test \in BOOLEAN /\ f.imports \subseteq Seq(STRING)
                      /\ \A u \in f.uses : u[1] # ""
  /\ \A r \in External :
       /\ r.prefix \in Seq(STRING) /\ r.prefix # <<>>
       /\ r.prefix[1] \notin {"cmd", "tools", "test", "internal"}

-----------------------------------------------------------------------------
(* checkImport: the reason to refuse an import, "" if there is none.         *)

\* Mutant: shared errors may import anything.
errorsReasonNone(imported, test) == ""

\* Shared errors cannot acquire I/O or other platform dependencies.
errorsReason(imported, test) ==
  IF (test /\ imported = <<"testing">>) \/ isPure(imported) THEN ""
  ELSE "shared errors"

mayUseSQL(importer, test) ==
  \/ matches(<<"internal", "platform", "database", "**">>, importer)
  \/ matches(<<"internal", "*", "infrastructure", "postgres", "**">>, importer)
  \/ classify(importer).kind = "test" /\ test

stdReason(importer, imported, test) ==
  IF /\ within(imported, <<"testing">>) \/ imported = <<"net", "http", "httptest">>
     /\ ~test
  THEN "test dependency"
  ELSE IF within(imported, <<"database", "sql">>) /\ ~mayUseSQL(importer, test)
  THEN "SQL access"
  ELSE IF /\ isCore(classify(importer))
          /\ ~(test /\ imported = <<"testing">>)
          /\ ~(classify(importer).layer = "application" /\ imported = <<"log", "slog">>)
          /\ ~isPure(imported)
  THEN "I/O in this layer" ELSE ""

\* Mutant: a contract may use the types of its own domain.
allowedWithDomain ==
  [contract |-> {"contract", "domain"}, domain |-> {"domain"},
   application |-> core, infrastructure |-> core \cup {"infrastructure"},
   transport |-> core \cup {"transport"}]

\* The layers that a layer of the same module may import.
allowed ==
  [contract |-> {"contract"}, domain |-> {"domain"},
   application |-> core, infrastructure |-> core \cup {"infrastructure"},
   transport |-> core \cup {"transport"}]

direction(source, target, test) ==
  CASE source.kind = "cmd"       -> target.kind = "bootstrap"
    [] source.kind = "test"      -> test /\ target.kind # "test"
    [] source.kind = "bootstrap" -> target.kind # "test"
    [] source.kind = "platform"  -> target.kind = "platform"
    [] source.kind = "module"    ->
         \/ /\ target.kind = "platform"
            /\ \/ target.component = "apperror"
               \/ source.layer = "infrastructure"
               \/ /\ source.layer = "transport"
                  /\ target.component \in {"httpserver", "logging", "telemetry"}
         \/ /\ target.kind = "module"
            /\ IF source.module = target.module
               THEN target.layer \in allowed[source.layer]
               ELSE /\ target.layer = "contract"
                    /\ source.layer \in {"application", "infrastructure"}
    [] OTHER -> FALSE

internalReason(importer, path, test) ==
  LET target == classify(path) IN
    IF target.kind \in {"", "module-root", "cmd", "tools"} THEN "not importable"
    ELSE IF test /\ path = importer THEN ""
    ELSE IF direction(classify(importer), target, test) THEN "" ELSE "direction"

\* The most specific prefix wins, so an SDK cannot inherit the API rule.
externalReason(importer, imported, test) ==
  LET rules == {r \in External : within(imported, r.prefix)} IN
    IF rules = {} THEN "not approved"
    ELSE LET chosen == CHOOSE r \in rules : \A s \in rules : Len(s.prefix) <= Len(r.prefix) IN
      IF chosen.testOnly /\ ~test THEN "test dependency"
      ELSE IF isCore(classify(importer)) /\ ~chosen.testOnly THEN "external in core"
      ELSE IF \E p \in chosen.importers : matches(p, importer) THEN ""
      ELSE "not approved for importer"

checkImport(importer, imported, test) ==
  IF isErrors(classify(importer)) THEN errorsReason(imported, test)
  ELSE IF imported \in Std THEN stdReason(importer, imported, test)
  ELSE IF within(imported, Module)
  THEN internalReason(importer, SubSeq(imported, Len(Module) + 1, Len(imported)), test)
  ELSE externalReason(importer, imported, test)

-----------------------------------------------------------------------------
(* Files.                                                                    *)

\* The name the file knows package context by: that of the last import.
contextAlias(f) == IF f.aliases = <<>> THEN "" ELSE Last(f.aliases)

\* The uses of package context that the checker recognises: those by that name.
knownUses(f) == {u \in f.uses : u[1] = contextAlias(f)}

\* What makes a root context or detaches one.
makers == {"Background", "TODO", "WithoutCancel"}

\* "Context" is the type as a first parameter called ctx, "misused" any other
\* parameter or a struct field of that type.
contextAllowed(f, use) ==
  CASE use = "Background"    -> f.pkg[1] = "cmd"
    [] use = "WithoutCancel" -> /\ f.pkg = <<"internal", "bootstrap">>
                                /\ f.name \in {"api.go", "app.go"}
    [] OTHER                 -> use = "Context"

checkContexts(f) ==
  IF f.test \/ f.pkg[1] \notin {"internal", "cmd"} \/ contextAlias(f) = "" THEN {}
  ELSE {"context" : u \in {x \in knownUses(f) : ~contextAllowed(f, x[2])}}
       \cup (IF Contains(f.aliases, ".") THEN {"context"} ELSE {})

fileReasons(f) ==
  LET loc == classify(f.pkg) IN
    (IF loc.kind = "" THEN {"unregistered"} ELSE {})
    \cup (IF loc.kind = "module-root" /\ f.name # "doc.go" THEN {"module root"} ELSE {})
    \cup (IF loc.kind = "test" /\ ~f.test /\ f.name # "doc.go" THEN {"helper"} ELSE {})
    \cup checkContexts(f)
    \cup ({checkImport(f.pkg, i, f.test) : i \in f.imports} \ {""})

\* What the checker has to say of each file, evaluated once.
reasons == [f \in Files |-> fileReasons(f)]

\* Nodes of the graph: packages of the module by their directory, others by
\* their path, the recognised makers of contexts as parts of package context.
node(imported) ==
  IF within(imported, Module) THEN SubSeq(imported, Len(Module) + 1, Len(imported))
  ELSE imported
dependencies(f) ==
  IF f.test THEN {}
  ELSE {<<f.pkg, node(i)>> : i \in f.imports}
       \cup {<<f.pkg, <<"context", m>>>> : m \in {u[2] : u \in knownUses(f)} \cap makers}

-----------------------------------------------------------------------------
(* run and scan.                                                             *)

Init ==
  /\ phase = "load" /\ exit = "none"
  /\ violations = {} /\ graph = {}

\* dependency-policy.json, go mod edit (no replace directive), go list std.
Load ==
  /\ phase = "load"
  /\ \/ phase' = "walk" /\ UNCHANGED exit
     \/ phase' = "done" /\ exit' = "error"
  /\ UNCHANGED <<violations, graph>>

record(found, edges) ==
  /\ Cardinality(violations) + Cardinality(graph) < MaxImports
  /\ violations' = violations \cup found
  /\ graph' = IF violations' = {} THEN graph \cup edges ELSE {}
  /\ UNCHANGED <<phase, exit>>

VisitFile(f) ==
  /\ phase = "walk"
  /\ record(reasons[f], dependencies(f))

\* A nested go.mod, a go.work, a Go file that is a symbolic link.
VisitOther ==
  /\ phase = "walk"
  /\ \E r \in {"nested module", "workspace", "symlink"} : record({r}, {})

\* A file that cannot be read or parsed ends the walk.
WalkFails ==
  /\ phase = "walk"
  /\ phase' = "done" /\ exit' = "error"
  /\ UNCHANGED <<violations, graph>>

WalkEnds ==
  /\ phase = "walk"
  /\ phase' = "done"
  /\ exit' = IF violations = {} THEN "passed" ELSE "violations"
  /\ UNCHANGED <<violations, graph>>

Next ==
  \/ Load \/ VisitOther \/ WalkFails \/ WalkEnds
  \/ \E f \in Files : VisitFile(f)

Spec == Init /\ [][Next]_vars

-----------------------------------------------------------------------------
(* Properties of the trees that pass.                                        *)

targets == {e[2] : e \in graph}
closed(S) == \A e \in graph : e[1] \in S => e[2] \in S

\* What a package depends on through any number of imports: what is in every set
\* of packages that has its imports, and theirs.
dependsOn(p) ==
  {q \in targets : \A S \in SUBSET targets :
     closed(S) /\ (\A e \in graph : e[1] = p => e[2] \in S) => q \in S}

\* Modules meet in contracts only: whatever a package of one module depends on
\* in another one, through however many packages, is a contract.
ModulesMeetInContracts ==
  exit = "passed" => \A e \in graph : \A q \in dependsOn(e[1]) :
    LET from == classify(e[1])
        to == classify(q)
    IN from.kind = "module" /\ to.kind = "module" /\ from.module # to.module =>
         to.layer = "contract"

\* The core of a module depends, through however many packages, on core
\* packages, the shared errors and pure parts of the standard library only
\* (application also on the logger), and neither makes nor detaches contexts,
\* whatever names the files import context by, as far as they use the last one:
\* what they do by another name the checker misses (context.go:27).
CoreStaysPure ==
  exit = "passed" => \A e \in graph : isCore(classify(e[1])) => \A q \in dependsOn(e[1]) :
    \/ isCore(classify(q)) \/ isErrors(classify(q)) \/ isPure(q)
    \/ classify(e[1]).layer = "application" /\ q = <<"log", "slog">>

=============================================================================
