----------------------- MODULE DependencyPolicyProofs -----------------------
(***************************************************************************)
(* The checker judges one import at a time; the architecture speaks of what  *)
(* a package depends on through any number of others.  Proved here for every *)
(* policy, every set of files and every walk: the first implies the second.  *)
(***************************************************************************)
EXTENDS DependencyPolicy, TLAPS

\* A walk that has found nothing so far has recorded the imports of files of
\* which there is nothing to say, and only such a walk passes.
Judged ==
  /\ exit # "none" => phase = "done"
  /\ exit = "passed" => violations = {}
  /\ violations = {} => \A e \in graph :
       \E f \in Files : ~f.test /\ fileReasons(f) = {} /\ e \in dependencies(f)

\* Recording the imports of one more file keeps the walk judged.
LEMMA VisitJudged ==
  ASSUME Judged, NEW f \in Files, VisitFile(f)
  PROVE  Judged'
<1>1. /\ phase = "walk" /\ UNCHANGED <<phase, exit>>
      /\ violations' = violations \cup fileReasons(f)
      /\ graph' = IF violations' = {} THEN graph \cup dependencies(f) ELSE {}
  BY DEF VisitFile, record, reasons
<1>2. exit = "none"
  BY <1>1 DEF Judged
<1>3. ASSUME violations' = {}, NEW e \in graph'
      PROVE  \E g \in Files : ~g.test /\ fileReasons(g) = {} /\ e \in dependencies(g)
  <2>1. violations = {} /\ fileReasons(f) = {} /\ graph' = graph \cup dependencies(f)
    BY <1>1, <1>3
  <2>2. CASE e \in graph
    BY <2>1, <2>2 DEF Judged
  <2>3. CASE e \in dependencies(f)
    <3>1. ~f.test
      BY <2>3 DEF dependencies
    <3> QED
      BY <2>1, <2>3, <3>1
  <2> QED
    BY <1>3, <2>1, <2>2, <2>3
<1> QED
  BY <1>1, <1>2, <1>3 DEF Judged

\* The invariant of the walk.
LEMMA JudgedAlways == Spec => []Judged
<1>1. Init => Judged
  BY DEF Init, Judged
<1>2. Judged /\ [Next]_vars => Judged'
  <2> SUFFICES ASSUME Judged, [Next]_vars PROVE Judged'
    OBVIOUS
  <2>1. CASE Load \/ WalkFails \/ WalkEnds
    BY <2>1 DEF Load, WalkFails, WalkEnds, Judged
  <2>2. CASE VisitOther
    <3>1. PICK r \in {"nested module", "workspace", "symlink"} : record({r}, {})
      BY <2>2 DEF VisitOther
    <3>2. violations' # {} /\ UNCHANGED <<phase, exit>> /\ phase = "walk"
      BY <2>2, <3>1 DEF record, VisitOther
    <3> QED
      BY <3>2 DEF Judged
  <2>3. CASE \E f \in Files : VisitFile(f)
    BY <2>3, VisitJudged
  <2>4. CASE UNCHANGED vars
    BY <2>4 DEF vars, Judged
  <2> QED
    BY <2>1, <2>2, <2>3, <2>4 DEF Next
<1> QED
  BY <1>1, <1>2, PTL DEF Spec

-----------------------------------------------------------------------------
(* What the rules say of one edge of the graph.                               *)

\* Nothing of the architecture is called like a part of package context.
LEMMA MakersAreNowhere == \A m : classify(<<"context", m>>) = nowhere
BY DEF classify

\* An approved external package is not a part of the architecture.
LEMMA ExternalIsNowhere ==
  ASSUME NEW r \in External, NEW i \in Seq(STRING), within(i, r.prefix)
  PROVE  classify(i) = nowhere
<1>1. PICK p : p = r.prefix
  OBVIOUS
<1>2. /\ p \in Seq(STRING) /\ p # <<>>
      /\ p[1] \notin {"cmd", "tools", "test", "internal"}
  BY <1>1, PathsAssumption
<1>3. Len(p) \in Nat /\ Len(p) >= 1 /\ Len(p) <= Len(i) /\ Len(i) \in Nat
  BY <1>1, <1>2 DEF within, IsPrefix
<1>4. SubSeq(p, 1, Len(p)) = SubSeq(i, 1, Len(p))
  BY <1>1 DEF within, IsPrefix
<1>5. SubSeq(p, 1, Len(p))[1] = p[1] /\ SubSeq(i, 1, Len(p))[1] = i[1]
  BY <1>2, <1>3
<1>6. i[1] \notin {"cmd", "tools", "test", "internal"}
  BY <1>2, <1>4, <1>5
<1> QED
  BY <1>6 DEF classify

\* Every import of a package of the module is one that direction allows, any
\* other leads out of the architecture.
LEMMA ImportJudged ==
  ASSUME NEW f \in Files, ~f.test, NEW i \in f.imports, checkImport(f.pkg, i, f.test) = "",
         ~isErrors(classify(f.pkg))
  PROVE  \/ classify(node(i)) = nowhere
         \/ direction(classify(f.pkg), classify(node(i)), FALSE)
<1>1. CASE i \in Std
  BY <1>1, PathsAssumption DEF node
<1>2. CASE i \notin Std /\ within(i, Module)
  <2>1. PICK p, q : p = f.pkg /\ q = node(i)
    OBVIOUS
  <2>2. f.test = FALSE
    BY PathsAssumption
  <2>3. internalReason(p, q, FALSE) = ""
    BY <1>2, <2>1, <2>2 DEF checkImport, node
  <2>4. direction(classify(p), classify(q), FALSE)
    BY <2>3 DEF internalReason
  <2> QED
    BY <2>1, <2>4
<1>3. CASE i \notin Std /\ ~within(i, Module)
  <2>1. externalReason(f.pkg, i, f.test) = "" /\ node(i) = i
    BY <1>3 DEF checkImport, node
  <2>2. PICK r \in External : within(i, r.prefix)
    BY <2>1 DEF externalReason
  <2>3. i \in Seq(STRING)
    BY PathsAssumption
  <2> QED
    BY <2>1, <2>2, <2>3, ExternalIsNowhere
<1> QED
  BY <1>1, <1>2, <1>3

\* The same for every edge of a file of which there is nothing to say; its own
\* package has a place in the architecture.
LEMMA EdgeJudged ==
  ASSUME NEW f \in Files, ~f.test, fileReasons(f) = {}, NEW e \in dependencies(f)
  PROVE  /\ classify(e[1]).kind # ""
         /\ \/ classify(e[2]) = nowhere
            \/ direction(classify(e[1]), classify(e[2]), FALSE)
<1>1. classify(f.pkg).kind # ""
  BY DEF fileReasons
<1>2. CASE \E i \in f.imports : e = <<f.pkg, node(i)>>
  <2>1. PICK i \in f.imports : e = <<f.pkg, node(i)>>
    BY <1>2
  <2>2. checkImport(f.pkg, i, f.test) = ""
    BY <2>1 DEF fileReasons
  <2>3. CASE isErrors(classify(f.pkg))
    <3>1. i \in Std
      BY <2>2, <2>3 DEF checkImport, errorsReason, isPure
    <3> QED
      BY <1>1, <2>1, <3>1, PathsAssumption DEF node
  <2> QED
    BY <1>1, <2>1, <2>2, <2>3, ImportJudged
<1>3. CASE \E m \in makers : e = <<f.pkg, <<"context", m>>>>
  <2>1. PICK m \in makers : e = <<f.pkg, <<"context", m>>>>
    BY <1>3
  <2>2. e[1] = f.pkg /\ e[2] = <<"context", m>>
    BY <2>1
  <2> QED
    BY <1>1, <2>2, MakersAreNowhere
<1>4. \/ \E i \in f.imports : e = <<f.pkg, node(i)>>
      \/ \E m \in makers : e = <<f.pkg, <<"context", m>>>>
  BY DEF dependencies
<1> QED
  BY <1>2, <1>3, <1>4

\* Neither the core of a module nor the shared errors make or detach contexts by
\* the name the checker knows.
LEMMA NoMakers ==
  ASSUME NEW f \in Files, ~f.test, fileReasons(f) = {},
         isCore(classify(f.pkg)) \/ isErrors(classify(f.pkg))
  PROVE  {u[2] : u \in knownUses(f)} \cap makers = {}
<1>1. f.pkg[1] = "internal" /\ f.pkg # <<"internal", "bootstrap">>
  <2>1. PICK p : p = f.pkg
    OBVIOUS
  <2>2. classify(p).kind \in {"module", "platform"}
    BY <2>1 DEF isCore, isErrors
  <2>3. p[1] = "internal"
    BY <2>2 DEF classify, nowhere, location
  <2>4. Len(p) >= 3
    BY <2>2 DEF classify, nowhere, location
  <2>5. ASSUME p = <<"internal", "bootstrap">> PROVE FALSE
    <3>1. PICK b : b = <<"internal", "bootstrap">>
      OBVIOUS
    <3>2. Len(b) = 2
      BY <3>1
    <3> QED
      BY <2>4, <2>5, <3>1, <3>2
  <2>6. p # <<"internal", "bootstrap">>
    BY <2>5
  <2> QED
    BY <2>1, <2>3, <2>6
<1> SUFFICES ASSUME NEW u \in knownUses(f), u[2] \in makers PROVE FALSE
  OBVIOUS
<1>2. contextAlias(f) # ""
  BY PathsAssumption DEF knownUses
<1>3. ~contextAllowed(f, u[2])
  BY <1>1 DEF contextAllowed, makers
<1>4. "context" \in checkContexts(f)
  <2>1. u \in {x \in knownUses(f) : ~contextAllowed(f, x[2])}
    BY <1>3
  <2>2. "context" \in {"context" : x \in {y \in knownUses(f) : ~contextAllowed(f, y[2])}}
    BY <2>1
  <2> QED
    BY <1>1, <1>2, <2>2 DEF checkContexts
<1> QED
  BY <1>4 DEF fileReasons

\* What the shared errors import is pure.
LEMMA ErrorsEdge ==
  ASSUME NEW f \in Files, ~f.test, fileReasons(f) = {},
         NEW e \in dependencies(f), isErrors(classify(e[1]))
  PROVE  isPure(e[2])
<1>1. e[1] = f.pkg
  BY DEF dependencies
<1>2. PICK i \in f.imports : e = <<f.pkg, node(i)>>
  BY <1>1, NoMakers DEF dependencies
<1>3. checkImport(f.pkg, i, f.test) = ""
  BY <1>2 DEF fileReasons
<1>4. isPure(i)
  BY <1>1, <1>3 DEF checkImport, errorsReason
<1>5. node(i) = i
  BY <1>4, PathsAssumption DEF node, isPure
<1> QED
  BY <1>2, <1>4, <1>5

\* What a core package imports: pure packages, the logger if it is an application
\* layer, and what the direction of the layers allows.
LEMMA CoreEdge ==
  ASSUME NEW f \in Files, ~f.test, fileReasons(f) = {},
         NEW e \in dependencies(f), isCore(classify(e[1]))
  PROVE  \/ isPure(e[2])
         \/ classify(e[1]).layer = "application" /\ e[2] = <<"log", "slog">>
         \/ direction(classify(e[1]), classify(e[2]), FALSE)
<1>1. e[1] = f.pkg /\ f.test = FALSE
  <2>1. e[1] = f.pkg
    BY DEF dependencies
  <2>2. f.test = FALSE
    BY PathsAssumption
  <2> QED
    BY <2>1, <2>2
<1>2. PICK i \in f.imports : e = <<f.pkg, node(i)>>
  BY <1>1, NoMakers DEF dependencies
<1>3. checkImport(f.pkg, i, FALSE) = "" /\ ~isErrors(classify(f.pkg))
  BY <1>1, <1>2 DEF fileReasons, isErrors, isCore
<1>4. CASE i \in Std
  <2>1. stdReason(f.pkg, i, FALSE) = ""
    BY <1>3, <1>4 DEF checkImport
  <2>2. isPure(i) \/ (classify(f.pkg).layer = "application" /\ i = <<"log", "slog">>)
    BY <1>1, <2>1 DEF stdReason
  <2>3. node(i) = i
    BY <1>4, PathsAssumption DEF node
  <2> QED
    BY <1>1, <1>2, <2>2, <2>3
<1>5. CASE i \notin Std /\ within(i, Module)
  <2>1. PICK p, q : p = f.pkg /\ q = node(i)
    OBVIOUS
  <2>2. internalReason(p, q, FALSE) = ""
    BY <1>3, <1>5, <2>1 DEF checkImport, node
  <2>3. direction(classify(p), classify(q), FALSE)
    BY <2>2 DEF internalReason
  <2> QED
    BY <1>1, <1>2, <2>1, <2>3
<1>6. CASE i \notin Std /\ ~within(i, Module)
  <2>1. externalReason(f.pkg, i, FALSE) = ""
    BY <1>3, <1>6 DEF checkImport
  <2>2. FALSE
    BY <1>1, <2>1 DEF externalReason
  <2> QED
    BY <2>2
<1> QED
  BY <1>4, <1>5, <1>6

-----------------------------------------------------------------------------
(* From one edge to any number of them.                                       *)

\* A set of packages that has the imports of a package and is closed under
\* imports has everything the package depends on.
LEMMA DependsWithin ==
  ASSUME NEW p, NEW S \in SUBSET targets, closed(S),
         \A e \in graph : e[1] = p => e[2] \in S, NEW q \in dependsOn(p)
  PROVE  q \in S
BY DEF dependsOn

\* Where what a package of module m depends on can stand.
Meets(m, l) ==
  \/ l.kind \in {"", "platform"}
  \/ l.kind = "module" /\ (l.module = m \/ l.layer = "contract")

\* Contracts import contracts, platform packages platform packages.
LEMMA MeetsStep ==
  ASSUME NEW m, NEW s, NEW t, s.kind # "", Meets(m, s), direction(s, t, FALSE)
  PROVE  Meets(m, t)
<1>1. CASE s.kind = "platform"
  BY <1>1 DEF direction, Meets
<1>2. CASE s.kind = "module" /\ t.kind = "platform"
  BY <1>2 DEF Meets
<1>3. CASE s.kind = "module" /\ t.kind # "platform"
  <2>1. /\ t.kind = "module"
        /\ IF s.module = t.module THEN t.layer \in allowed[s.layer]
           ELSE t.layer = "contract"
    BY <1>3 DEF direction
  <2>2. allowed["contract"] = {"contract"}
    BY DEF allowed
  <2>3. CASE s.module = t.module /\ s.module # m
    <3>1. s.layer = "contract"
      BY <1>3, <2>3 DEF Meets
    <3> QED
      BY <2>1, <2>2, <2>3, <3>1 DEF Meets
  <2> QED
    BY <2>1, <2>3 DEF Meets
<1> QED
  BY <1>1, <1>2, <1>3 DEF Meets

\* In a tree that the checker passes, however many files and imports it has,
\* whatever a package of one module depends on in another module is a contract
\* (checkImport, scan).
THEOREM ModulesMeetInContractsAlways == Spec => []ModulesMeetInContracts
<1>1. ASSUME Judged, exit = "passed", NEW e \in graph, NEW q \in dependsOn(e[1]),
             classify(e[1]).kind = "module"
      PROVE  Meets(classify(e[1]).module, classify(q))
  <2>1. PICK m : m = classify(e[1]).module
    OBVIOUS
  <2>2. ASSUME NEW d \in graph, Meets(m, classify(d[1]))
        PROVE  d[2] \in targets /\ Meets(m, classify(d[2]))
    <3>1. PICK f \in Files : ~f.test /\ fileReasons(f) = {} /\ d \in dependencies(f)
      BY <1>1 DEF Judged
    <3>2. /\ classify(d[1]).kind # ""
          /\ classify(d[2]) = nowhere \/ direction(classify(d[1]), classify(d[2]), FALSE)
      BY <3>1, EdgeJudged
    <3>3. Meets(m, nowhere)
      BY DEF Meets, nowhere, location
    <3> QED
      BY <2>2, <3>2, <3>3, MeetsStep DEF targets
  <2>3. PICK S : S = {x \in targets : Meets(m, classify(x))}
    OBVIOUS
  <2>4. S \in SUBSET targets /\ closed(S)
    BY <2>2, <2>3 DEF closed
  <2>5. \A d \in graph : d[1] = e[1] => d[2] \in S
    <3>1. Meets(m, classify(e[1]))
      BY <1>1, <2>1 DEF Meets
    <3> QED
      BY <2>2, <2>3, <3>1
  <2>6. q \in S
    BY <1>1, <2>4, <2>5, DependsWithin
  <2> QED
    BY <2>1, <2>3, <2>6
<1>2. Judged => ModulesMeetInContracts
  BY <1>1 DEF ModulesMeetInContracts, Meets
<1> QED
  BY <1>2, JudgedAlways, PTL

\* Where what a core package depends on can stand, if its layer is l.
Stays(l, x) ==
  \/ isCore(classify(x)) /\ (classify(x).layer = "application" => l = "application")
  \/ isErrors(classify(x))
  \/ isPure(x)
  \/ l = "application" /\ x = <<"log", "slog">>

\* The directions from a core layer lead to core layers or the shared errors, and
\* only an application layer's lead to one.
LEMMA CoreDirection ==
  ASSUME NEW s, NEW t, isCore(s), direction(s, t, FALSE)
  PROVE  \/ isErrors(t)
         \/ isCore(t) /\ (t.layer = "application" => s.layer = "application")
<1>1. s.kind = "module" /\ s.layer \in {"domain", "application", "contract"}
  BY DEF isCore, core
<1>2. CASE t.kind = "platform"
  BY <1>1, <1>2 DEF direction, isErrors
<1>3. CASE t.kind # "platform"
  <2>1. /\ t.kind = "module"
        /\ IF s.module = t.module THEN t.layer \in allowed[s.layer]
           ELSE t.layer = "contract"
    BY <1>1, <1>3 DEF direction
  <2>2. /\ allowed["contract"] = {"contract"} /\ allowed["domain"] = {"domain"}
        /\ allowed["application"] = {"domain", "application", "contract"}
    BY DEF allowed, core
  <2> QED
    BY <1>1, <2>1, <2>2 DEF isCore, core
<1> QED
  BY <1>2, <1>3

\* In a tree that the checker passes, the core of a module depends on core
\* packages, the shared errors, pure packages and (application) the logger only,
\* and makes no contexts by a name the checker knows (checkImport, checkContexts,
\* scan).
THEOREM CoreStaysPureAlways == Spec => []CoreStaysPure
<1>1. ASSUME Judged, exit = "passed", NEW e \in graph, NEW q \in dependsOn(e[1]),
             isCore(classify(e[1]))
      PROVE  Stays(classify(e[1]).layer, q)
  <2>1. PICK l : l = classify(e[1]).layer
    OBVIOUS
  <2>2. ASSUME NEW d \in graph, Stays(l, d[1])
        PROVE  d[2] \in targets /\ Stays(l, d[2])
    <3>1. PICK f \in Files : ~f.test /\ fileReasons(f) = {} /\ d \in dependencies(f)
      BY <1>1 DEF Judged
    <3>2. CASE isErrors(classify(d[1]))
      BY <3>1, <3>2, ErrorsEdge DEF Stays, targets
    <3>3. CASE isCore(classify(d[1])) /\ (classify(d[1]).layer = "application" => l = "application")
      BY <3>1, <3>3, CoreEdge, CoreDirection DEF Stays, targets
    <3>4. CASE isPure(d[1]) \/ d[1] = <<"log", "slog">>
      <4>1. classify(<<"log", "slog">>) = nowhere
        BY DEF classify
      <4>2. classify(d[1]) = nowhere
        BY <3>4, <4>1, PathsAssumption DEF isPure
      <4>3. classify(d[1]).kind # ""
        BY <3>1, EdgeJudged
      <4>4. nowhere.kind = ""
        BY DEF nowhere, location
      <4> QED
        BY <4>2, <4>3, <4>4
    <3> QED
      BY <2>2, <3>2, <3>3, <3>4 DEF Stays
  <2>3. PICK S : S = {x \in targets : Stays(l, x)}
    OBVIOUS
  <2>4. S \in SUBSET targets /\ closed(S)
    BY <2>2, <2>3 DEF closed
  <2>5. \A d \in graph : d[1] = e[1] => d[2] \in S
    <3>1. Stays(l, e[1])
      BY <1>1, <2>1 DEF Stays
    <3> QED
      BY <2>2, <2>3, <3>1
  <2>6. q \in S
    BY <1>1, <2>4, <2>5, DependsWithin
  <2> QED
    BY <2>1, <2>3, <2>6
<1>2. Judged => CoreStaysPure
  BY <1>1 DEF CoreStaysPure, Stays
<1> QED
  BY <1>2, JudgedAlways, PTL
=============================================================================
