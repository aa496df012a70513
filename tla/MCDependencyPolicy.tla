------------------------- MODULE MCDependencyPolicy -------------------------
(***************************************************************************)
(* DependencyPolicy for TLC: two modules, three platform packages and a part *)
(* of dependency-policy.json; files with one import or one use of context,   *)
(* which they import under one name or two.                                  *)
(***************************************************************************)
EXTENDS DependencyPolicy

MCModule == <<"platform.example">>
MCPure == {<<"context">>, <<"encoding">>}
MCStd == {<<"context">>, <<"encoding", "json">>, <<"net", "http">>,
          <<"database", "sql">>, <<"log", "slog">>, <<"testing">>}

pgx == <<"github.com", "pgx", "v5">>
testify == <<"github.com", "testify">>
MCExternal ==
  {[prefix |-> pgx, testOnly |-> FALSE,
    importers |-> {<<"internal", "platform", "database", "**">>,
                   <<"internal", "*", "infrastructure", "postgres", "**">>}],
   [prefix |-> Append(pgx, "pgxpool"), testOnly |-> FALSE,
    importers |-> {<<"internal", "platform", "database", "**">>}],
   [prefix |-> testify, testOnly |-> TRUE,
    importers |-> {<<"internal", "**">>, <<"test", "**">>}]}

Place == {<<"internal", "place", l>> : l \in core}
Adapter == <<"internal", "place", "infrastructure", "postgres">>
Search == {<<"internal", "search", l>> : l \in core}
Platform == {<<"internal", "platform", c>> : c \in {"apperror", "database"}}
Bootstrap == <<"internal", "bootstrap">>
Outer == {<<"cmd", "api">>, <<"tools", "x">>, <<"test", "e2e">>,
          <<"internal", "place">>, <<"internal", "rogue", "domain">>}

file(p, t, d, i) ==
  [pkg |-> p, test |-> t, name |-> d, imports |-> i, aliases |-> <<>>, uses |-> {}]
contextFile(p, names, a, u) ==
  [file(p, FALSE, "app.go", {}) EXCEPT !.aliases = names, !.uses = {<<a, u>>}]
\* The names a file imports context by, and the one it uses.
Names ==
  {<<<<a>>, a>> : a \in {"context", "c", "."}}
  \cup {<<<<"context", "c">>, a>> : a \in {"context", "c"}}

MCFiles ==
  {file(p, FALSE, "app.go", {i}) :
     p \in Place \cup Search \cup Platform \cup {Adapter, Bootstrap},
     i \in {MCModule \o x : x \in Place \cup Search \cup Platform \cup {Adapter}}
           \cup MCStd \cup {pgx, Append(pgx, "pgxpool"), testify}}
  \cup {file(p, t, "app.go", {MCModule \o Bootstrap}) : p \in Outer, t \in BOOLEAN}
  \cup {file(p, TRUE, "app.go", {i}) : p \in Place \cup {Adapter},
          i \in {testify, <<"testing">>, MCModule \o <<"internal", "search", "domain">>}}
  \cup {file(p, FALSE, "doc.go", {}) : p \in Outer}
  \cup {[contextFile(Bootstrap, <<"context">>, "context", "WithoutCancel")
          EXCEPT !.name = "worker.go"]}
  \cup {contextFile(p, names, a, u) :
          p \in Place \cup {Bootstrap, <<"cmd", "api">>}, <<names, a>> \in Names,
          u \in {"Background", "TODO", "WithoutCancel", "misused", "Context"}}
=============================================================================
