----------------------------- MODULE Hierarchy -----------------------------
(***************************************************************************)
(* Concurrent writers of one hierarchy, first under the trigger of the       *)
(* baseline (internal/platform/database/legacy.sql), then, after migration   *)
(* 2 (schema/00002_hierarchy_serializable.sql), under its stricter one.      *)
(* The triggers on administrative_units and on places are the same code on  *)
(* two tables that share nothing; one table is modelled.                    *)
(*                                                                          *)
(* PostgreSQL is external: snapshots, row locks, first-updater-wins and the *)
(* serializable isolation level are modelled by what they guarantee.  A     *)
(* serializable transaction may commit whenever the committed ones stay     *)
(* serializable: the most permissive implementation of that guarantee.      *)
(*                                                                          *)
(* INSERT fires the same trigger: a row still to be inserted behaves as a   *)
(* root without children.                                                   *)
(***************************************************************************)
EXTENDS Forest, Naturals, FiniteSets

CONSTANTS
  Txns,    \* the transactions, each of which runs once
  MaxRows, \* bound on the row updates of all transactions together
  MaxOld   \* bound on the transactions that begin before migration 2

ASSUME HierarchyAssumption == MaxRows \in Nat /\ MaxOld \in Nat

VARIABLES
  version, \* the schema version: 1 or 2
  since,   \* history: the number of commits when migration 2 was applied
  parent,  \* the committed table
  commits, \* number of commits so far
  st,      \* of each transaction: "idle", "active", "committed", "aborted"
  iso,     \* its isolation level: "serializable" or "readCommitted"
  snap,    \* the committed table when it began
  begin,   \* the number of commits then
  end,     \* its place in the commit order
  reads,   \* rows its trigger queries have read (the SIREAD locks)
  wset,    \* rows it has updated (and locked)
  wval     \* the parents it gave them

vars == <<version, since, parent, commits, st, iso, snap, begin, end, reads, wset, wval>>

TypeOK ==
  /\ version \in {1, 2} /\ since \in Nat
  /\ parent \in Parents
  /\ commits \in Nat
  /\ st \in [Txns -> {"idle", "active", "committed", "aborted"}]
  /\ iso \in [Txns -> {"serializable", "readCommitted"}]
  /\ snap \in [Txns -> Parents]
  /\ begin \in [Txns -> Nat] /\ end \in [Txns -> Nat]
  /\ reads \in [Txns -> SUBSET Nodes]
  /\ wset \in [Txns -> SUBSET Nodes]
  /\ wval \in [Txns -> Parents]

noParents == [n \in Nodes |-> None]

\* A database that has just been created or adopted at version 1.
Init ==
  /\ version = 1 /\ since = 0
  /\ parent \in Parents /\ Acyclic(parent)
  /\ commits = 0
  /\ st = [t \in Txns |-> "idle"]
  /\ iso = [t \in Txns |-> "serializable"]
  /\ snap = [t \in Txns |-> noParents]
  /\ begin = [t \in Txns |-> 0] /\ end = [t \in Txns |-> 0]
  /\ reads = [t \in Txns |-> {}] /\ wset = [t \in Txns |-> {}]
  /\ wval = [t \in Txns |-> noParents]

-----------------------------------------------------------------------------
(* PostgreSQL.                                                              *)

\* The table as a statement of t sees it: its own updates over its snapshot,
\* or over the latest commits.
view(t) ==
  [n \in Nodes |-> IF n \in wset[t] THEN wval[t][n]
                   ELSE IF iso[t] = "serializable" THEN snap[t][n]
                   ELSE parent[n]]

\* No other transaction holds the row lock on c.
rowFree(t, c) ==
  \A u \in Txns \ {t} : st[u] = "active" => c \notin wset[u]

\* A serializable update of a row that a transaction outside the snapshot has
\* changed fails with 40001.
outdated(t, c) ==
  /\ iso[t] = "serializable"
  /\ \E u \in Txns : /\ st[u] = "committed" /\ c \in wset[u]
                     /\ end[u] > begin[t]

\* The statements of a serializable transaction see the snapshot it began with.
Begin(t) ==
  /\ st[t] = "idle"
  /\ version = 1 => Cardinality({u \in Txns : st[u] # "idle"}) < MaxOld
  /\ st' = [st EXCEPT ![t] = "active"]
  /\ snap' = [snap EXCEPT ![t] = parent]
  /\ \/ begin' = [begin EXCEPT ![t] = commits] /\ UNCHANGED iso
     \/ iso' = [iso EXCEPT ![t] = "readCommitted"] /\ UNCHANGED begin
  /\ UNCHANGED <<version, since, parent, commits, end, reads, wset, wval>>

\* Does t come before u in every serial order of S, with ends the commit
\* order?  t missed a row u wrote, or u saw or overwrote a row of t.
precedes(t, u, ends) ==
  \/ reads[t] \cap wset[u] # {} /\ ends[u] > begin[t]
  \/ wset[t] \cap (reads[u] \cup wset[u]) # {} /\ ends[t] <= begin[u]

\* S is serializable: every non-empty part of it has a member that need not
\* come before another one of that part.
serializable(S, ends) ==
  \A P \in SUBSET S :
    P # {} => \E t \in P : \A u \in P \ {t} : ~precedes(t, u, ends)

Commit(t) ==
  /\ st[t] = "active"
  /\ commits' = commits + 1
  /\ end' = [end EXCEPT ![t] = commits + 1]
  /\ iso[t] = "serializable" =>
       serializable({u \in Txns : u = t \/ (st[u] = "committed" /\
                                            iso[u] = "serializable")}, end')
  /\ st' = [st EXCEPT ![t] = "committed"]
  /\ parent' = [n \in Nodes |-> IF n \in wset[t] THEN wval[t][n] ELSE parent[n]]
  /\ snap' = [snap EXCEPT ![t] = noParents]
  /\ wval' = [wval EXCEPT ![t] = noParents]
  /\ UNCHANGED <<version, since, iso, begin, reads, wset>>

\* A transaction that is rolled back leaves nothing behind, not even its
\* SIREAD locks.
rollback(t) ==
  /\ st' = [st EXCEPT ![t] = "aborted"]
  /\ iso' = [iso EXCEPT ![t] = "serializable"]
  /\ snap' = [snap EXCEPT ![t] = noParents]
  /\ begin' = [begin EXCEPT ![t] = 0]
  /\ reads' = [reads EXCEPT ![t] = {}] /\ wset' = [wset EXCEPT ![t] = {}]
  /\ wval' = [wval EXCEPT ![t] = noParents]
  /\ UNCHANGED <<version, since, parent, commits, end>>

\* ROLLBACK, a lost connection, a detected deadlock, or 40001.
Abort(t) ==
  /\ st[t] = "active"
  /\ rollback(t)

-----------------------------------------------------------------------------
(* The triggers.                                                            *)

write(t, c, p) ==
  /\ c \notin wset[t] => Cardinality(UNION {{u} \X wset[u] : u \in Txns}) < MaxRows
  /\ wset' = [wset EXCEPT ![t] = @ \cup {c}]
  /\ wval' = [wval EXCEPT ![t] = [@ EXCEPT ![c] = p]]
  /\ UNCHANGED <<version, since, parent, commits, st, iso, snap, begin, end>>

\* NEW.parent_id IS NULL: accepted at every isolation level.
Detach(t, c) ==
  /\ st[t] = "active" /\ rowFree(t, c) /\ ~outdated(t, c)
  /\ write(t, c, None)
  /\ UNCHANGED reads

\* Serializable transactions leave SIREAD locks on what they read.
sireadLock(t, S) ==
  reads' = [reads EXCEPT ![t] = IF iso[t] = "serializable" THEN @ \cup S ELSE @]

\* Mutant: the trigger of migration 2 does not ask for the isolation level.
anyLevel(t) == TRUE

\* The isolation level: any for the baseline, serializable for migration 2.
levelAllowed(t) == version = 2 => iso[t] = "serializable"

\* The baseline's query (UNION ALL) returns only if it comes to a root; that
\* of migration 2 (UNION) always does.  An update whose trigger never returns
\* ends with the statement timeout: Abort.
queryReturns(t, above) == version = 1 => \E m \in above : view(t)[m] = None

\* Mutant: the trigger does not look for the row among the ancestors.
acceptsCycles(t, c, above) == levelAllowed(t) /\ ~outdated(t, c)

\* The trigger raises neither 25001 nor 23514: the row is not among the rows
\* above it to be.  Nor does the update fail with 40001.
accepts(t, c, above) == levelAllowed(t) /\ ~outdated(t, c) /\ c \notin above

\* A parent is given; the query reads it and the rows above it.
Attach(t, c, p) ==
  LET above == ancestors(view(t), p)
  IN /\ st[t] = "active" /\ rowFree(t, c)
     /\ write(t, c, p)
     /\ accepts(t, c, above) /\ queryReturns(t, above)
     /\ sireadLock(t, above)

\* An error in an update: the transaction can only be rolled back.
Refuse(t) ==
  /\ st[t] = "active"
  /\ ~\A c, p \in Nodes : rowFree(t, c) => accepts(t, c, ancestors(view(t), p))
  /\ rollback(t)

-----------------------------------------------------------------------------
(* Migration 2.                                                             *)

\* Mutant: without LOCK TABLE.
MigrateUnlocked ==
  /\ version = 1
  /\ Acyclic(parent)
  /\ version' = 2 /\ since' = commits
  /\ UNCHANGED <<parent, commits, st, iso, snap, begin, end, reads, wset, wval>>

\* LOCK TABLE, which waits for the transactions that have written, the search
\* for cycles in the whole table, which refuses to go on if there is one, and
\* the new triggers: one transaction.  Transactions that have only begun go on
\* under the new triggers.
Migrate ==
  /\ version = 1
  /\ \A t \in Txns : st[t] = "active" => wset[t] = {}
  /\ Acyclic(parent)
  /\ version' = 2 /\ since' = commits
  /\ UNCHANGED <<parent, commits, st, iso, snap, begin, end, reads, wset, wval>>

Next ==
  \/ Migrate
  \/ \E t \in Txns :
       \/ Begin(t) \/ Commit(t) \/ Abort(t) \/ Refuse(t)
       \/ \E c \in Nodes : Detach(t, c)
       \/ \E c, p \in Nodes : Attach(t, c, p)

Spec == Init /\ [][Next]_vars

-----------------------------------------------------------------------------
(* Properties.                                                              *)

\* A serializable transaction straddles the upgrade if its snapshot is older
\* than the table that migration 2 searched for cycles.
straddles(t) == iso[t] = "serializable" /\ begin[t] < since

\* The maintenance window of migrations/README.md, as far as it matters: nothing
\* that straddles the upgrade has been committed after it.
windowKept ==
  \A t \in Txns : straddles(t) => ~(st[t] = "committed" /\ end[t] > since)

\* From migration 2 on, the committed hierarchy has no cycle unless a
\* transaction that straddles the upgrade has committed, however the others
\* interleave and whatever was committed under the baseline: LOCK TABLE, the
\* search for cycles, the trigger's check on a snapshot, the isolation level it
\* insists on and PostgreSQL's serializability together prevent write skew.
ForestKept == version = 2 /\ windowKept => Acyclic(parent)

\* Inside a transaction, too, the trigger of migration 2 keeps what the
\* transaction sees free of cycles, so that its next ancestor query means
\* something.
ViewsAcyclic ==
  version = 2 /\ windowKept =>
    \A t \in Txns : st[t] = "active" /\ ~straddles(t) => Acyclic(view(t))

\* From migration 2 on, a commit that gives a row another parent replaces the
\* value the row had when its transaction began: no lost update, also by the
\* transactions that straddle the upgrade.  A detachment may lose one.
NoLostParent ==
  [][\A n \in Nodes :
       version = 2 /\ parent'[n] # parent[n] /\ parent'[n] # None =>
         \E t \in Txns : /\ st[t] = "active" /\ st'[t] = "committed"
                         /\ n \in wset[t] /\ snap[t][n] = parent[n]]_vars

=============================================================================
