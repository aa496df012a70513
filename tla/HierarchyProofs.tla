--------------------------- MODULE HierarchyProofs ---------------------------
(***************************************************************************)
(* TLAPS proofs about Hierarchy, for any set of rows and of transactions     *)
(* and any bounds.  The argument is in three parts: parent functions, what   *)
(* PostgreSQL's locks and snapshots give, and the serial order, from which   *)
(* it follows that no commit closes a cycle.                                 *)
(***************************************************************************)
EXTENDS Hierarchy, TLAPS

-----------------------------------------------------------------------------
(* Parent functions.                                                        *)

\* A row is among its ancestors: the query starts with it.
LEMMA AncestorsSelf ==
  ASSUME NEW par \in Parents, NEW n \in Nodes
  PROVE  n \in ancestors(par, n)
  BY DEF ancestors

\* The ancestors are rows and hold the parent of each of them: the recursive
\* query goes on until it finds nothing new.
LEMMA AncestorsClosed ==
  ASSUME NEW par \in Parents, NEW n \in Nodes
  PROVE  /\ ancestors(par, n) \subseteq Nodes
         /\ Closed(par, ancestors(par, n))
  BY DEF ancestors, Closed, Parents

\* They are the least such set: the query returns nothing else.
LEMMA AncestorsLeast ==
  ASSUME NEW par \in Parents, NEW n \in Nodes,
         NEW S \in SUBSET Nodes, n \in S, Closed(par, S)
  PROVE  ancestors(par, n) \subseteq S
  BY DEF ancestors

\* The ancestors of an ancestor are ancestors.
LEMMA AncestorsTransitive ==
  ASSUME NEW par \in Parents, NEW n \in Nodes, NEW m \in ancestors(par, n)
  PROVE  ancestors(par, m) \subseteq ancestors(par, n)
<1>1. ancestors(par, n) \in SUBSET Nodes /\ Closed(par, ancestors(par, n))
  BY AncestorsClosed
<1>2. m \in Nodes
  BY <1>1
<1> QED
  BY <1>1, <1>2, AncestorsLeast

\* On a cycle every row has a parent and every row is an ancestor of every
\* other one.
LEMMA CycleIsMutual ==
  ASSUME NEW par \in Parents, NEW n \in Nodes, par[n] # None,
         n \in ancestors(par, par[n]), NEW m \in ancestors(par, par[n])
  PROVE  /\ m \in Nodes /\ par[m] # None
         /\ ancestors(par, m) = ancestors(par, par[n])
<1> DEFINE C == ancestors(par, par[n])
           B == {x \in C : n \in ancestors(par, x)}
<1>1. par[n] \in Nodes
  BY DEF Parents
<1>2. C \subseteq Nodes /\ Closed(par, C)
  BY <1>1, AncestorsClosed
<1>3. Closed(par, B)
  <2> SUFFICES ASSUME NEW x \in B, par[x] # None PROVE par[x] \in B
    BY DEF Closed
  <2>1. par[x] \in C /\ par[x] \in Nodes /\ x \in Nodes
    BY <1>2 DEF Closed
  <2>2. CASE x = n
    BY <2>1, <2>2
  <2>3. CASE x # n
    <3> DEFINE S == {x} \cup ancestors(par, par[x])
    <3>1. S \in SUBSET Nodes /\ x \in S
      BY <2>1, AncestorsClosed
    <3>2. Closed(par, S)
      BY <2>1, AncestorsClosed, AncestorsSelf DEF Closed
    <3>3. ancestors(par, x) \subseteq S
      BY <2>1, <3>1, <3>2, AncestorsLeast
    <3> QED
      BY <2>1, <2>3, <3>3
  <2> QED
    BY <2>2, <2>3
<1>4. par[n] \in B
  BY <1>1, AncestorsSelf
<1>5. C \subseteq B
  BY <1>1, <1>2, <1>3, <1>4, AncestorsLeast
<1>6. n \in ancestors(par, m) /\ m \in Nodes
  BY <1>2, <1>5
<1>7. par[m] # None
  <2> SUFFICES ASSUME par[m] = None PROVE FALSE
    OBVIOUS
  <2>1. Closed(par, {m}) /\ {m} \in SUBSET Nodes
    BY <1>6 DEF Closed
  <2>2. ancestors(par, m) \subseteq {m}
    BY <1>6, <2>1, AncestorsLeast
  <2> QED
    BY <1>6, <2>2
<1>8. par[n] \in ancestors(par, m)
  BY <1>6, AncestorsClosed DEF Closed
<1>9. C \subseteq ancestors(par, m)
  BY <1>6, <1>8, AncestorsTransitive
<1>10. ancestors(par, m) \subseteq C
  BY <1>1, AncestorsTransitive
<1> QED
  BY <1>6, <1>7, <1>9, <1>10

\* Removing parents closes no cycle.
LEMMA DetachKeepsAcyclic ==
  ASSUME NEW par \in Parents, NEW new \in Parents, Acyclic(par),
         \A n \in Nodes : new[n] \in {None, par[n]}
  PROVE  Acyclic(new)
<1> SUFFICES ASSUME NEW n \in Nodes, new[n] # None
             PROVE  n \notin ancestors(new, new[n])
  BY DEF Acyclic
<1>1. new[n] = par[n] /\ par[n] \in Nodes
  BY DEF Parents
<1>2. Closed(new, ancestors(par, par[n])) /\ ancestors(par, par[n]) \in SUBSET Nodes
  BY <1>1, AncestorsClosed DEF Closed
<1>3. ancestors(new, new[n]) \subseteq ancestors(par, par[n])
  BY <1>1, <1>2, AncestorsSelf, AncestorsLeast
<1> QED
  BY <1>1, <1>3 DEF Acyclic

\* What an update of one parent can add to the ancestors of a row are the
\* ancestors of the new parent.
LEMMA AttachAncestors ==
  ASSUME NEW par \in Parents, NEW c \in Nodes, NEW p \in Nodes, NEW n \in Nodes
  PROVE  ancestors([par EXCEPT ![c] = p], n)
           \subseteq ancestors(par, n) \cup ancestors(par, p)
<1> DEFINE new == [par EXCEPT ![c] = p]
           S == ancestors(par, n) \cup ancestors(par, p)
<1>1. new \in Parents
  BY DEF Parents
<1>2. S \in SUBSET Nodes /\ n \in S
  BY AncestorsClosed, AncestorsSelf
<1>3. Closed(new, S)
  <2> SUFFICES ASSUME NEW m \in S, new[m] # None PROVE new[m] \in S
    BY DEF Closed
  <2>1. CASE m = c
    BY <2>1, AncestorsSelf DEF Parents
  <2>2. CASE m # c
    <3>1. new[m] = par[m]
      BY <1>2, <2>2 DEF Parents
    <3> QED
      BY <3>1, AncestorsClosed DEF Closed
  <2> QED
    BY <2>1, <2>2
<1> QED
  BY <1>1, <1>2, <1>3, AncestorsLeast

\* The trigger's check is enough on what the transaction sees: a row given a
\* parent that it is not an ancestor of closes no cycle.
LEMMA AttachKeepsAcyclic ==
  ASSUME NEW par \in Parents, NEW c \in Nodes, NEW p \in Nodes,
         Acyclic(par), c \notin ancestors(par, p)
  PROVE  Acyclic([par EXCEPT ![c] = p])
<1> DEFINE new == [par EXCEPT ![c] = p]
<1> SUFFICES ASSUME NEW n \in Nodes, new[n] # None, n \in ancestors(new, new[n])
             PROVE  FALSE
  BY DEF Acyclic
<1> DEFINE C == ancestors(new, new[n])
           A == ancestors(par, new[n])
<1>1. new \in Parents /\ new[n] \in Nodes
  BY DEF Parents
<1>2. C \in SUBSET Nodes /\ Closed(new, C)
  BY <1>1, AncestorsClosed
<1>3. c \notin ancestors(new, p)
  BY AttachAncestors
<1>4. c \notin C
  <2> SUFFICES ASSUME c \in C PROVE FALSE
    OBVIOUS
  <2>1. p \in C
    <3>1. new[c] # None => new[c] \in C
      BY <1>2 DEF Closed
    <3>2. new[c] = p /\ p # None
      BY NoneAssumption DEF Parents
    <3> QED
      BY <3>1, <3>2
  <2>2. ancestors(new, p) = C
    BY <1>1, <2>1, CycleIsMutual
  <2> QED
    BY <1>3, <2>2
<1>5. \A m \in Nodes : m # c => new[m] = par[m]
  BY DEF Parents
<1>6. Closed(par, C)
  BY <1>2, <1>4, <1>5 DEF Closed
<1>7. A \subseteq C
  <2>1. new[n] \in C
    BY <1>1, AncestorsSelf
  <2> HIDE DEF new, C
  <2> QED
    BY <1>1, <1>2, <1>6, <2>1, AncestorsLeast
<1>8. A \in SUBSET Nodes /\ Closed(par, A)
  BY <1>1, AncestorsClosed
<1>9. Closed(new, A)
  BY <1>4, <1>5, <1>7, <1>8 DEF Closed
<1>10. C \subseteq A
  <2>1. new[n] \in A
    BY <1>1, AncestorsSelf
  <2> HIDE DEF new, A
  <2> QED
    BY <1>1, <1>8, <1>9, <2>1, AncestorsLeast
<1>11. n # c
  BY <1>4
<1>12. new[n] = par[n]
  BY <1>5, <1>11
<1> QED
  BY <1>10, <1>12 DEF Acyclic

-----------------------------------------------------------------------------
(* The serial order.  Constant-level: C are the committed transactions, S   *)
(* the serializable ones among them, b, e, R and W their begins, ends, reads *)
(* and writes, H[t] what t saw when it committed, par the committed table    *)
(* and k the number of commits when migration 2 was applied.                *)

\* Nobody has written row n after the first i commits.
unchangedSince(C, e, W, n, i) == \A u \in C : n \in W[u] => e[u] <= i

\* Each row that has been written has a last writer.
lastWriters(C, e, W) ==
  \A n \in Nodes : \A u \in C : n \in W[u] =>
    \E w \in C : n \in W[w] /\ unchangedSince(C, e, W, n, e[w])

\* The queries of a transaction that saw V in the end have read the ancestors
\* of every parent it has given.
covered(V, W, R) == \A n \in W : V[n] # None => ancestors(V, V[n]) \subseteq R

\* A serializable transaction since migration 2 saw a forest, and the table
\* holds what it saw or wrote as long as nobody has written the row since.
recordedSerializable(t, C, b, e, R, W, V, par, k) ==
  /\ b[t] >= k /\ b[t] < e[t]
  /\ Acyclic(V)
  /\ covered(V, W[t], R[t])
  /\ \A n \in Nodes \ W[t] : unchangedSince(C, e, W, n, b[t]) => V[n] = par[n]
  /\ \A n \in W[t] : unchangedSince(C, e, W, n, e[t]) => V[n] = par[n]

\* Another transaction since migration 2 has only detached rows.
recordedOther(t, C, e, W, par) ==
  \A n \in W[t] : unchangedSince(C, e, W, n, e[t]) => par[n] = None

recorded(C, S, b, e, R, W, H, par, k) ==
  \A t \in C : e[t] > k =>
    IF t \in S THEN recordedSerializable(t, C, b, e, R, W, H[t], par, k)
    ELSE recordedOther(t, C, e, W, par)

\* The part of the serializability of S that the argument needs: the last
\* transaction of each part of S has not missed what the others wrote.
missedNothing(S, b, e, R, W) ==
  \A P \in SUBSET S : P # {} =>
    \E t \in P : \A u \in P \ {t} : R[t] \cap W[u] # {} => e[u] <= b[t]

\* No serial history has a cycle through a row that a transaction since
\* migration 2 was the last to write: of the writers on the cycle, the last in
\* the serial order saw all of it and was refused by the trigger.
LEMMA SerialHistoryIsAcyclic ==
  ASSUME NEW C \in SUBSET Txns, NEW S \in SUBSET C,
         NEW b \in [Txns -> Nat], NEW e \in [Txns -> Nat],
         NEW R \in [Txns -> SUBSET Nodes], NEW W \in [Txns -> SUBSET Nodes],
         NEW H \in [Txns -> Parents], NEW par \in Parents, NEW k \in Nat,
         recorded(C, S, b, e, R, W, H, par, k),
         lastWriters(C, e, W),
         missedNothing(S, b, e, R, W),
         NEW n \in Nodes, par[n] # None, n \in ancestors(par, par[n]),
         NEW m \in ancestors(par, par[n]),
         NEW t \in S, e[t] > k, m \in W[t], unchangedSince(C, e, W, m, e[t])
  PROVE  FALSE
<1> DEFINE cycle == ancestors(par, par[n])
           last(u, x) == x \in W[u] /\ unchangedSince(C, e, W, x, e[u])
           P == {u \in S : e[u] > k /\ \E x \in cycle : last(u, x)}
<1>1. par[n] \in Nodes
  BY DEF Parents
<1>2. \A x \in cycle : /\ x \in Nodes /\ par[x] # None /\ par[x] \in cycle
                       /\ ancestors(par, x) = cycle
  BY <1>1, CycleIsMutual, AncestorsClosed DEF Closed
<1>3. P \in SUBSET S /\ P # {}
  OBVIOUS
<1>4. PICK z \in P : \A u \in P \ {z} : R[z] \cap W[u] # {} => e[u] <= b[z]
  BY <1>3 DEF missedNothing
<1>5. PICK x \in cycle : last(z, x)
  BY <1>4
<1>6. z \in S /\ z \in C /\ z \in Txns /\ e[z] > k /\ x \in Nodes
  BY <1>2, <1>4, <1>5
<1>7. recordedSerializable(z, C, b, e, R, W, H[z], par, k)
  BY <1>6 DEF recorded
<1>8. H[z] \in Parents /\ H[z][x] = par[x] /\ par[x] \in Nodes
  BY <1>2, <1>5, <1>6, <1>7 DEF recordedSerializable, Parents
<1> DEFINE seen == ancestors(H[z], par[x])
           D == cycle \cap seen
<1>9. seen \subseteq R[z] /\ Closed(H[z], seen) /\ seen \in SUBSET Nodes
  <2>1. H[z][x] # None
    BY <1>2, <1>8
  <2>2. covered(H[z], W[z], R[z])
    BY <1>7 DEF recordedSerializable
  <2>3. ancestors(H[z], H[z][x]) \subseteq R[z]
    BY <1>5, <2>1, <2>2 DEF covered
  <2> QED
    BY <1>8, <2>3, AncestorsClosed
<1>10. ASSUME NEW y \in D PROVE H[z][y] = par[y]
  <2>1. y \in Nodes /\ y \in R[z] /\ par[y] # None
    BY <1>2, <1>9
  <2>2. \A w \in C : last(w, y) /\ w # z => e[w] <= b[z]
    <3> SUFFICES ASSUME NEW w \in C, last(w, y), w # z, ~(e[w] <= b[z])
                 PROVE  FALSE
      OBVIOUS
    <3>1. e[w] \in Nat /\ b[z] \in Nat /\ b[z] >= k
      BY <1>6, <1>7 DEF recordedSerializable
    <3>2. e[w] > k
      BY <3>1
    <3>3. w \in S
      BY <2>1, <3>2 DEF recorded, recordedOther
    <3>4. w \in P \ {z}
      BY <3>2, <3>3
    <3>5. y \in R[z] \cap W[w]
      BY <2>1
    <3> QED
      BY <1>4, <3>4, <3>5
  <2>3. b[z] < e[z] /\ b[z] \in Nat /\ e[z] \in Nat /\ \A u \in C : e[u] \in Nat
    BY <1>6, <1>7 DEF recordedSerializable
  <2>4. CASE y \in W[z]
    <3>1. PICK w \in C : last(w, y)
      BY <1>6, <2>1, <2>4 DEF lastWriters
    <3>2. e[z] <= e[w]
      BY <1>6, <2>4, <3>1 DEF unchangedSince
    <3>3. w = z
      BY <2>2, <2>3, <3>1, <3>2
    <3> QED
      BY <1>7, <2>4, <3>1, <3>3 DEF recordedSerializable
  <2>5. CASE y \notin W[z]
    <3>1. unchangedSince(C, e, W, y, b[z])
      <4> SUFFICES ASSUME NEW u \in C, y \in W[u] PROVE e[u] <= b[z]
        BY DEF unchangedSince
      <4>1. PICK w \in C : last(w, y)
        BY <2>1 DEF lastWriters
      <4>2. w # z
        BY <2>5, <4>1
      <4>3. e[w] <= b[z] /\ e[u] <= e[w]
        BY <2>2, <4>1, <4>2 DEF unchangedSince
      <4> QED
        BY <2>3, <4>3
    <3> QED
      BY <1>7, <2>1, <2>5, <3>1 DEF recordedSerializable
  <2> QED
    BY <2>4, <2>5
<1>11. par[x] \in D
  BY <1>2, <1>8, AncestorsSelf
<1>12. Closed(par, D)
  BY <1>2, <1>9, <1>10 DEF Closed
<1>13. cycle \subseteq D
  <2>1. par[x] \in cycle /\ ancestors(par, par[x]) = cycle
    BY <1>2
  <2>2. D \in SUBSET Nodes
    BY <1>9
  <2> HIDE DEF D, cycle
  <2> QED
    BY <1>8, <1>11, <1>12, <2>1, <2>2, AncestorsLeast
<1>14. x \in ancestors(H[z], H[z][x])
  BY <1>8, <1>13
<1> QED
  BY <1>2, <1>6, <1>7, <1>8, <1>14 DEF recordedSerializable, Acyclic

-----------------------------------------------------------------------------
(* The inductive invariant.                                                 *)

Committed == {t \in Txns : st[t] = "committed"}
CommittedSerializable == {t \in Committed : iso[t] = "serializable"}

\* The committed table has the row n of the first i commits.
current(n, i) == unchangedSince(Committed, end, wset, n, i)

\* What snapshots and first-updater-wins give a transaction.
Isolated(t) ==
  /\ begin[t] <= commits /\ end[t] <= commits
  /\ st[t] = "committed" => begin[t] < end[t]
  /\ st[t] \in {"idle", "aborted"} =>
       iso[t] = "serializable" /\ wset[t] = {} /\ reads[t] = {}
  /\ st[t] = "active" /\ iso[t] = "serializable" =>
       /\ \A n \in wset[t] : current(n, begin[t])
       /\ \A n \in Nodes : current(n, begin[t]) => snap[t][n] = parent[n]

\* Row locks: no two transactions have updated the same row.
Locked ==
  \A t, u \in Txns : t # u /\ st[t] = "active" /\ st[u] = "active" =>
                       wset[t] \cap wset[u] = {}

\* Under the trigger of migration 2 a read committed transaction only detaches.
Detaches(t) ==
  st[t] = "active" /\ iso[t] # "serializable" => \A n \in wset[t] : wval[t][n] = None

\* What that trigger has made of a serializable one that does not straddle the
\* upgrade.
Checked(t) ==
  st[t] = "active" /\ iso[t] = "serializable" /\ begin[t] >= since =>
    Acyclic(view(t)) /\ covered(view(t), wset[t], reads[t])

History(H) ==
  /\ \A t \in Txns : Checked(t)
  /\ recorded(Committed, CommittedSerializable, begin, end, reads, wset, H, parent, since)

\* H holds what the transactions saw when they committed, which the state does
\* not keep.
Serial == Acyclic(parent) /\ \E H \in [Txns -> Parents] : History(H)

IInv ==
  /\ TypeOK
  /\ since <= commits
  /\ \A t \in Txns : Isolated(t)
  /\ Locked
  /\ lastWriters(Committed, end, wset)
  /\ version = 2 => \A t \in Txns : Detaches(t)
  /\ version = 2 /\ windowKept => Serial

\* What a statement sees is a table.
LEMMA ViewType == ASSUME TypeOK, NEW t \in Txns PROVE view(t) \in Parents
  BY DEF TypeOK, view, Parents

\* The initial states satisfy the invariant.
LEMMA InitInvariant == Init => IInv
<1> SUFFICES ASSUME Init PROVE IInv
  OBVIOUS
<1>1. noParents \in Parents
  BY DEF noParents, Parents
<1>2. TypeOK
  BY <1>1 DEF Init, TypeOK
<1>3. \A t \in Txns : Isolated(t)
  BY DEF Init, Isolated
<1>4. Locked /\ since <= commits
  BY DEF Init, Locked
<1>5. Committed = {}
  BY DEF Init, Committed
<1>6. lastWriters(Committed, end, wset)
  BY <1>5 DEF lastWriters
<1>7. version # 2
  BY DEF Init
<1> QED
  BY <1>2, <1>3, <1>4, <1>6, <1>7 DEF IInv

\* Every step keeps the types.
LEMMA StepType == ASSUME TypeOK, Next PROVE TypeOK'
<1> USE DEF TypeOK
<1>1. noParents \in Parents /\ \A f \in Parents, c \in Nodes, p \in Nodes \cup {None} :
                                 [f EXCEPT ![c] = p] \in Parents
  BY DEF noParents, Parents
<1>2. CASE Migrate
  BY <1>2 DEF Migrate
<1>3. ASSUME NEW t \in Txns, Begin(t) PROVE TypeOK'
  BY <1>3 DEF Begin
<1>4. ASSUME NEW t \in Txns, Commit(t) PROVE TypeOK'
  <2>1. parent' \in Parents
    BY <1>4 DEF Commit, Parents
  <2> QED
    BY <1>1, <1>4, <2>1 DEF Commit
<1>5. ASSUME NEW t \in Txns, rollback(t) PROVE TypeOK'
  BY <1>1, <1>5 DEF rollback
<1>6. ASSUME NEW t \in Txns, NEW c \in Nodes, Detach(t, c) PROVE TypeOK'
  BY <1>1, <1>6 DEF Detach, write
<1>7. ASSUME NEW t \in Txns, NEW c \in Nodes, NEW p \in Nodes, Attach(t, c, p)
      PROVE  TypeOK'
  <2>1. ancestors(view(t), p) \subseteq Nodes
    BY ViewType, AncestorsClosed
  <2>2. wval' \in [Txns -> Parents] /\ wset' \in [Txns -> SUBSET Nodes]
    BY <1>1, <1>7 DEF Attach, write
  <2>3. reads' \in [Txns -> SUBSET Nodes]
    BY <1>7, <2>1 DEF Attach, sireadLock
  <2> QED
    BY <1>7, <2>2, <2>3 DEF Attach, write
<1> QED
  BY <1>2, <1>3, <1>4, <1>5, <1>6, <1>7 DEF Next, Abort, Refuse

-----------------------------------------------------------------------------
(* Steps that commit nothing.                                               *)

\* Only t moves, and it is not committed.
Moves(t) ==
  /\ st[t] # "committed" /\ st'[t] # "committed"
  /\ UNCHANGED <<version, since, parent, commits, end>>
  /\ \A u \in Txns \ {t} :
       /\ st'[u] = st[u] /\ iso'[u] = iso[u] /\ snap'[u] = snap[u]
       /\ begin'[u] = begin[u] /\ reads'[u] = reads[u] /\ wset'[u] = wset[u]
       /\ wval'[u] = wval[u]

\* What is committed stays what it is.
LEMMA MoveKeepsCommitted ==
  ASSUME NEW t \in Txns, Moves(t)
  PROVE  /\ Committed' = Committed
         /\ CommittedSerializable' = CommittedSerializable
         /\ \A u \in Committed : /\ u # t /\ begin'[u] = begin[u]
                                 /\ reads'[u] = reads[u] /\ wset'[u] = wset[u]
         /\ \A n, i : current(n, i)' <=> current(n, i)
         /\ lastWriters(Committed, end, wset) => lastWriters(Committed, end, wset)'
<1>1. Committed' = Committed /\ CommittedSerializable' = CommittedSerializable
  BY DEF Moves, Committed, CommittedSerializable
<1>2. \A u \in Committed : /\ u # t /\ begin'[u] = begin[u]
                           /\ reads'[u] = reads[u] /\ wset'[u] = wset[u]
  BY DEF Moves, Committed
<1>3. end' = end
  BY DEF Moves
<1>4. \A n, i : current(n, i)' <=> current(n, i)
  BY <1>1, <1>2, <1>3 DEF current, unchangedSince
<1>5. lastWriters(Committed, end, wset) => lastWriters(Committed, end, wset)'
  BY <1>1, <1>2, <1>3 DEF lastWriters, unchangedSince
<1> QED
  BY <1>1, <1>2, <1>4, <1>5

\* The others stay isolated.
LEMMA MoveKeepsOthers ==
  ASSUME NEW t \in Txns, Moves(t), NEW u \in Txns \ {t}, Isolated(u)
  PROVE  Isolated(u)'
<1>1. \A n, i : current(n, i)' <=> current(n, i)
  BY MoveKeepsCommitted
<1> QED
  BY <1>1 DEF Moves, Isolated

\* The others stay checked, and no maintenance window is kept again.
LEMMA MoveKeepsChecked ==
  ASSUME NEW t \in Txns, Moves(t)
  PROVE  /\ \A u \in Txns \ {t} : Checked(u) => Checked(u)'
         /\ \A u \in Txns \ {t} : Detaches(u) => Detaches(u)'
         /\ windowKept' => windowKept
<1>1. ASSUME NEW u \in Txns \ {t} PROVE view(u)' = view(u)
  BY DEF Moves, view
<1>2. ASSUME NEW u \in Txns \ {t}
      PROVE  /\ Checked(u) => Checked(u)'
             /\ Detaches(u) => Detaches(u)'
  BY <1>1 DEF Moves, Checked, Detaches
<1>3. windowKept' => windowKept
  BY DEF Moves, windowKept, straddles
<1> QED
  BY <1>2, <1>3

\* The history stays the same.
LEMMA MoveKeepsRecorded ==
  ASSUME NEW t \in Txns, Moves(t), NEW H,
         recorded(Committed, CommittedSerializable, begin, end, reads, wset, H, parent, since)
  PROVE  recorded(Committed, CommittedSerializable, begin, end, reads, wset, H, parent, since)'
<1>1. /\ Committed' = Committed
      /\ CommittedSerializable' = CommittedSerializable
      /\ \A u \in Committed : /\ begin'[u] = begin[u] /\ reads'[u] = reads[u]
                              /\ wset'[u] = wset[u]
      /\ end' = end /\ parent' = parent /\ since' = since
  BY MoveKeepsCommitted DEF Moves
<1>2. \A n, i : unchangedSince(Committed', end', wset', n, i)
                  <=> unchangedSince(Committed, end, wset, n, i)
  BY <1>1 DEF unchangedSince
<1> QED
  BY <1>1, <1>2 DEF recorded, recordedSerializable, recordedOther

\* A move keeps the invariant if it keeps what t itself must satisfy.
LEMMA MoveKeepsInvariant ==
  ASSUME IInv, TypeOK', NEW t \in Txns, Moves(t), Isolated(t)',
         \A u \in Txns \ {t} : st'[t] = "active" /\ st[u] = "active" =>
                                 wset'[t] \cap wset[u] = {},
         version = 2 /\ Detaches(t) => Detaches(t)',
         version = 2 /\ Acyclic(parent) /\ Checked(t) => Checked(t)'
  PROVE  IInv'
<1>1. \A u \in Txns : Isolated(u)'
  BY MoveKeepsOthers DEF IInv
<1>2. Locked'
  BY DEF IInv, Locked, Moves
<1>3. lastWriters(Committed, end, wset)'
  BY MoveKeepsCommitted DEF IInv
<1>4. since' <= commits'
  BY DEF IInv, Moves
<1>5. ASSUME version' = 2 PROVE \A u \in Txns : Detaches(u)'
  BY <1>5, MoveKeepsChecked DEF IInv, Moves
<1>6. ASSUME version' = 2, windowKept' PROVE Serial'
  <2>1. version = 2 /\ parent' = parent /\ since' = since
    BY <1>6 DEF Moves
  <2>2. Serial
    BY <1>6, <2>1, MoveKeepsChecked DEF IInv
  <2>3. PICK H \in [Txns -> Parents] : History(H)
    BY <2>2 DEF Serial
  <2>4. \A u \in Txns : Checked(u)'
    BY <2>1, <2>2, <2>3, MoveKeepsChecked DEF Serial, History
  <2>5. recorded(Committed, CommittedSerializable, begin, end, reads, wset, H, parent, since)'
    BY <2>3, MoveKeepsRecorded DEF History
  <2>6. History(H)'
    BY <2>4, <2>5 DEF History
  <2>7. Acyclic(parent)'
    BY <2>1, <2>2 DEF Serial
  <2> QED
    BY <2>6, <2>7 DEF Serial
<1> QED
  BY <1>1, <1>2, <1>3, <1>4, <1>5, <1>6 DEF IInv

\* BEGIN: the snapshot is the committed table, which is a forest.
LEMMA BeginStep == ASSUME IInv, TypeOK', NEW t \in Txns, Begin(t) PROVE IInv'
<1>1. Moves(t)
  BY DEF Begin, Moves, IInv, TypeOK
<1>2. /\ st[t] = "idle" /\ st'[t] = "active" /\ wset'[t] = {} /\ reads'[t] = {}
      /\ commits \in Nat /\ parent \in Parents
      /\ begin'[t] <= commits /\ end'[t] <= commits
      /\ iso'[t] = "serializable" => begin'[t] = commits /\ snap'[t] = parent
  <2>1. Isolated(t)
    BY DEF IInv
  <2> QED
    BY <2>1 DEF IInv, TypeOK, Isolated, Begin
<1>3. Isolated(t)'
  BY <1>1, <1>2 DEF Isolated, Moves
<1>4. ASSUME Acyclic(parent) PROVE Checked(t)'
  <2> SUFFICES ASSUME iso'[t] = "serializable"
               PROVE  Acyclic(view(t)') /\ covered(view(t)', wset'[t], reads'[t])
    BY DEF Checked
  <2>1. view(t)' = parent
    BY <1>2 DEF view, Parents
  <2> QED
    BY <1>2, <1>4, <2>1 DEF covered
<1>5. Detaches(t)'
  BY <1>2 DEF Detaches
<1> QED
  BY <1>1, <1>2, <1>3, <1>4, <1>5, MoveKeepsInvariant

\* A transaction that is rolled back leaves nothing behind.
LEMMA RollbackStep ==
  ASSUME IInv, TypeOK', NEW t \in Txns, st[t] = "active", rollback(t)
  PROVE  IInv'
<1>1. Moves(t)
  BY DEF rollback, Moves, IInv, TypeOK
<1>2. /\ st'[t] = "aborted" /\ iso'[t] = "serializable" /\ begin'[t] = 0
      /\ wset'[t] = {} /\ reads'[t] = {}
  BY DEF rollback, IInv, TypeOK
<1>3. end[t] <= commits /\ commits \in Nat
  BY DEF IInv, TypeOK, Isolated
<1>4. Isolated(t)'
  BY <1>1, <1>2, <1>3 DEF Isolated, Moves
<1>5. Checked(t)' /\ Detaches(t)'
  BY <1>2 DEF Checked, Detaches
<1> QED
  BY <1>1, <1>2, <1>4, <1>5, MoveKeepsInvariant

\* What an update of row c by t changes.
LEMMA WriteMoves ==
  ASSUME IInv, NEW t \in Txns, NEW c \in Nodes, NEW p \in Nodes \cup {None},
         st[t] = "active", write(t, c, p),
         \A u \in Txns \ {t} : reads'[u] = reads[u]
  PROVE  /\ Moves(t)
         /\ wset'[t] = wset[t] \cup {c}
         /\ wval'[t] = [wval[t] EXCEPT ![c] = p]
         /\ iso'[t] = iso[t] /\ begin'[t] = begin[t] /\ st'[t] = "active"
<1>1. Moves(t)
  BY DEF write, Moves, IInv, TypeOK
<1>2. /\ wset'[t] = wset[t] \cup {c}
      /\ wval'[t] = [wval[t] EXCEPT ![c] = p]
      /\ iso' = iso /\ begin' = begin /\ st' = st /\ snap' = snap /\ parent' = parent
  BY DEF write, IInv, TypeOK
<1> QED
  BY <1>1, <1>2

\* What t sees after the update.
LEMMA WriteView ==
  ASSUME IInv, NEW t \in Txns, NEW c \in Nodes, NEW p, write(t, c, p)
  PROVE  view(t)' = [view(t) EXCEPT ![c] = p]
<1>1. /\ wset'[t] = wset[t] \cup {c}
      /\ wval'[t] = [wval[t] EXCEPT ![c] = p]
      /\ iso' = iso /\ snap' = snap /\ parent' = parent
  BY DEF write, IInv, TypeOK
<1>2. wval[t] \in [Nodes -> Nodes \cup {None}]
  BY DEF IInv, TypeOK, Parents
<1> QED
  BY <1>1, <1>2 DEF view

\* An update of a free row that is not outdated keeps t isolated.
LEMMA WriteIsolated ==
  ASSUME IInv, NEW t \in Txns, NEW c \in Nodes, NEW p \in Nodes \cup {None},
         st[t] = "active", rowFree(t, c), ~outdated(t, c), write(t, c, p),
         \A u \in Txns \ {t} : reads'[u] = reads[u]
  PROVE  /\ Isolated(t)'
         /\ \A u \in Txns \ {t} : st'[t] = "active" /\ st[u] = "active" =>
                                    wset'[t] \cap wset[u] = {}
<1>1. /\ Moves(t) /\ wset'[t] = wset[t] \cup {c}
      /\ iso'[t] = iso[t] /\ begin'[t] = begin[t] /\ st'[t] = "active"
  BY WriteMoves
<1>2. \A n, i : current(n, i)' <=> current(n, i)
  BY <1>1, MoveKeepsCommitted
<1>3. iso[t] = "serializable" => current(c, begin[t])
  <2> SUFFICES ASSUME iso[t] = "serializable", NEW u \in Committed, c \in wset[u]
               PROVE  end[u] <= begin[t]
    BY DEF current, unchangedSince
  <2>1. u \in Txns /\ st[u] = "committed"
    BY DEF Committed
  <2>2. end[u] \in Nat /\ begin[t] \in Nat
    BY <2>1 DEF IInv, TypeOK
  <2> QED
    BY <2>1, <2>2 DEF outdated
<1>4. Isolated(t)'
  BY <1>1, <1>2, <1>3 DEF IInv, Isolated, Moves, write
<1>5. \A u \in Txns \ {t} : st[u] = "active" => wset'[t] \cap wset[u] = {}
  BY <1>1 DEF IInv, Locked, rowFree
<1> QED
  BY <1>4, <1>5

\* A detachment: accepted at every level, and closes no cycle.
LEMMA DetachStep ==
  ASSUME IInv, TypeOK', NEW t \in Txns, NEW c \in Nodes, Detach(t, c)
  PROVE  IInv'
<1>1. /\ st[t] = "active" /\ rowFree(t, c) /\ ~outdated(t, c)
      /\ write(t, c, None) /\ reads' = reads
  BY DEF Detach
<1>2. /\ Moves(t)
      /\ wset'[t] = wset[t] \cup {c}
      /\ wval'[t] = [wval[t] EXCEPT ![c] = None]
      /\ iso'[t] = iso[t] /\ begin'[t] = begin[t]
      /\ view(t)' = [view(t) EXCEPT ![c] = None]
  BY <1>1, WriteMoves, WriteView
<1>3. ASSUME Checked(t) PROVE Checked(t)'
  <2>1. view(t) \in Parents /\ view(t)' \in Parents
    BY <1>2, ViewType DEF IInv, Parents
  <2>2. CASE iso[t] = "serializable" /\ begin[t] >= since
    <3>1. Acyclic(view(t)) /\ covered(view(t), wset[t], reads[t])
      BY <1>1, <1>3, <2>2 DEF Checked
    <3>2. \A n \in Nodes : view(t)'[n] \in {None, view(t)[n]}
      BY <1>2, <2>1 DEF Parents
    <3>3. Acyclic(view(t)')
      BY <2>1, <3>1, <3>2, DetachKeepsAcyclic
    <3>4. covered(view(t)', wset'[t], reads'[t])
      <4> SUFFICES ASSUME NEW n \in wset'[t], view(t)'[n] # None
                   PROVE  ancestors(view(t)', view(t)'[n]) \subseteq reads[t]
        BY <1>1 DEF covered
      <4>1. n # c /\ n \in wset[t] /\ n \in Nodes /\ view(t)'[n] = view(t)[n]
        BY <1>2, <2>1 DEF Parents, IInv, TypeOK
      <4>2. view(t)[n] \in Nodes
        BY <2>1, <4>1 DEF Parents
      <4>3. ancestors(view(t), view(t)[n]) \subseteq reads[t]
        BY <3>1, <4>1 DEF covered
      <4>4. Closed(view(t)', ancestors(view(t), view(t)[n]))
        BY <2>1, <3>2, <4>2, AncestorsClosed DEF Closed
      <4>5. ancestors(view(t)', view(t)[n]) \subseteq ancestors(view(t), view(t)[n])
        BY <2>1, <4>2, <4>4, AncestorsClosed, AncestorsSelf, AncestorsLeast
      <4> QED
        BY <4>1, <4>3, <4>5
    <3> QED
      BY <3>3, <3>4 DEF Checked
  <2>3. CASE ~(iso[t] = "serializable" /\ begin[t] >= since)
    BY <1>2, <2>3 DEF Checked, Moves
  <2> QED
    BY <2>2, <2>3
<1>4. ASSUME Detaches(t) PROVE Detaches(t)'
  <2>1. wval[t] \in [Nodes -> Nodes \cup {None}] /\ wset[t] \subseteq Nodes
    BY DEF IInv, TypeOK, Parents
  <2> QED
    BY <1>1, <1>2, <1>4, <2>1 DEF Detaches
<1>5. /\ Isolated(t)'
      /\ \A u \in Txns \ {t} : st'[t] = "active" /\ st[u] = "active" =>
                                 wset'[t] \cap wset[u] = {}
  BY <1>1, WriteIsolated
<1> QED
  BY <1>2, <1>3, <1>4, <1>5, MoveKeepsInvariant

\* An attachment that the trigger accepts.
LEMMA AttachStep ==
  ASSUME IInv, TypeOK', NEW t \in Txns, NEW c \in Nodes, NEW p \in Nodes,
         Attach(t, c, p)
  PROVE  IInv'
<1>1. /\ st[t] = "active" /\ rowFree(t, c) /\ ~outdated(t, c)
      /\ levelAllowed(t) /\ c \notin ancestors(view(t), p)
      /\ write(t, c, p) /\ sireadLock(t, ancestors(view(t), p))
  BY DEF Attach, accepts
<1>2. /\ \A u \in Txns \ {t} : reads'[u] = reads[u]
      /\ iso[t] = "serializable" => reads'[t] = reads[t] \cup ancestors(view(t), p)
  BY <1>1 DEF sireadLock, IInv, TypeOK
<1>3. /\ Moves(t)
      /\ wset'[t] = wset[t] \cup {c}
      /\ iso'[t] = iso[t] /\ begin'[t] = begin[t]
      /\ view(t)' = [view(t) EXCEPT ![c] = p]
  <2>1. p \in Nodes \cup {None}
    OBVIOUS
  <2>2. view(t)' = [view(t) EXCEPT ![c] = p]
    BY <1>1, WriteView
  <2> QED
    BY <1>1, <1>2, <2>1, <2>2, WriteMoves
<1>4. ASSUME version = 2, Checked(t), iso[t] = "serializable", begin[t] >= since
      PROVE  Acyclic(view(t)') /\ covered(view(t)', wset'[t], reads'[t])
  <2>1. view(t) \in Parents /\ wset[t] \subseteq Nodes
    BY ViewType DEF IInv, TypeOK
  <2>2. iso[t] = "serializable"
    BY <1>4
  <2>3. Acyclic(view(t)) /\ covered(view(t), wset[t], reads[t])
    BY <1>1, <1>4 DEF Checked
  <2>4. Acyclic(view(t)')
    <3>1. Acyclic([view(t) EXCEPT ![c] = p])
      BY <1>1, <2>1, <2>3, AttachKeepsAcyclic
    <3> QED
      BY <1>3, <3>1
  <2>5. covered(view(t)', wset'[t], reads'[t])
    <3> SUFFICES ASSUME NEW n \in wset'[t], view(t)'[n] # None
                 PROVE  ancestors(view(t)', view(t)'[n]) \subseteq reads'[t]
      BY DEF covered
    <3>1. CASE n = c
      <4>1. view(t)'[n] = p
        BY <1>3, <2>1, <3>1 DEF Parents
      <4>2. ancestors(view(t)', p) \subseteq ancestors(view(t), p)
        BY <1>3, <2>1, AttachAncestors
      <4> QED
        BY <1>2, <2>2, <4>1, <4>2
    <3>2. CASE n # c
      <4>1. n \in wset[t] /\ view(t)'[n] = view(t)[n] /\ view(t)[n] \in Nodes
        BY <1>3, <2>1, <3>2 DEF Parents
      <4>2. ancestors(view(t), view(t)[n]) \subseteq reads[t]
        BY <2>3, <4>1 DEF covered
      <4>3. ancestors(view(t)', view(t)[n])
              \subseteq ancestors(view(t), view(t)[n]) \cup ancestors(view(t), p)
        BY <1>3, <2>1, <4>1, AttachAncestors
      <4> QED
        BY <1>2, <2>2, <4>1, <4>2, <4>3
    <3> QED
      BY <3>1, <3>2
  <2> QED
    BY <2>4, <2>5
<1>5. version = 2 /\ Checked(t) => Checked(t)'
  BY <1>3, <1>4 DEF Checked, Moves
<1>6. version = 2 => Detaches(t)'
  BY <1>1, <1>3 DEF Detaches, levelAllowed
<1>7. /\ Isolated(t)'
      /\ \A u \in Txns \ {t} : st'[t] = "active" /\ st[u] = "active" =>
                                 wset'[t] \cap wset[u] = {}
  <2>1. p \in Nodes \cup {None}
    OBVIOUS
  <2> QED
    BY <1>1, <1>2, <2>1, WriteIsolated
<1> QED
  BY <1>3, <1>5, <1>6, <1>7, MoveKeepsInvariant

-----------------------------------------------------------------------------
(* Commits.                                                                 *)

\* What a commit changes: t is committed after all the others.
LEMMA CommitMoves ==
  ASSUME IInv, NEW t \in Txns, Commit(t)
  PROVE  /\ st[t] = "active" /\ st'[t] = "committed"
         /\ \A u \in Txns \ {t} : st'[u] = st[u] /\ end'[u] = end[u]
         /\ end'[t] = commits + 1 /\ commits' = commits + 1
         /\ UNCHANGED <<version, since, iso, begin, reads, wset>>
         /\ \A u \in Txns \ {t} : snap'[u] = snap[u] /\ wval'[u] = wval[u]
         /\ t \notin Committed /\ Committed' = Committed \cup {t}
         /\ \A u \in Committed : /\ u \in Txns /\ u # t /\ end'[u] = end[u]
                                 /\ end[u] <= commits /\ end[u] \in Nat
         /\ \A n \in wset[t] : n \in Nodes /\ parent'[n] = wval[t][n]
         /\ \A n \in Nodes \ wset[t] : parent'[n] = parent[n]
<1>1. /\ st[t] = "active" /\ st'[t] = "committed"
      /\ \A u \in Txns \ {t} : st'[u] = st[u] /\ end'[u] = end[u]
      /\ end'[t] = commits + 1 /\ commits' = commits + 1
      /\ UNCHANGED <<version, since, iso, begin, reads, wset>>
      /\ \A u \in Txns \ {t} : snap'[u] = snap[u] /\ wval'[u] = wval[u]
  BY DEF Commit, IInv, TypeOK
<1>2. t \notin Committed /\ Committed' = Committed \cup {t}
  BY <1>1 DEF Committed
<1>3. \A u \in Committed : /\ u \in Txns /\ u # t /\ end'[u] = end[u]
                           /\ end[u] <= commits /\ end[u] \in Nat
  BY <1>1 DEF Committed, IInv, Isolated, TypeOK
<1>4. /\ \A n \in wset[t] : n \in Nodes /\ parent'[n] = wval[t][n]
      /\ \A n \in Nodes \ wset[t] : parent'[n] = parent[n]
  BY DEF Commit, IInv, TypeOK
<1> QED
  BY <1>1, <1>2, <1>3, <1>4

\* A row not written since the first i commits, i before this one, has not
\* been written by t either.
LEMMA CommitCurrent ==
  ASSUME IInv, NEW t \in Txns, Commit(t), NEW n \in Nodes, NEW i \in Nat, i <= commits
  PROVE  current(n, i)' <=> current(n, i) /\ n \notin wset[t]
<1>1. /\ t \notin Committed /\ Committed' = Committed \cup {t}
      /\ \A u \in Committed : u # t /\ end'[u] = end[u]
      /\ end'[t] = commits + 1 /\ wset' = wset
  BY CommitMoves
<1>2. ~(commits + 1 <= i)
  BY DEF IInv, TypeOK
<1> QED
  BY <1>1, <1>2 DEF current, unchangedSince

\* A commit keeps everyone isolated: a row lock is held to the end, and who
\* missed the commit of a row cannot update it any more.
LEMMA CommitIsolated ==
  ASSUME IInv, NEW t \in Txns, Commit(t), NEW u \in Txns
  PROVE  Isolated(u)'
<1>1. /\ st[t] = "active" /\ st'[t] = "committed"
      /\ \A v \in Txns \ {t} : st'[v] = st[v] /\ end'[v] = end[v]
      /\ end'[t] = commits + 1 /\ commits' = commits + 1
      /\ UNCHANGED <<iso, begin, reads, wset>>
      /\ \A v \in Txns \ {t} : snap'[v] = snap[v]
      /\ \A n \in Nodes \ wset[t] : parent'[n] = parent[n]
  BY CommitMoves
<1>2. /\ commits \in Nat /\ begin[u] \in Nat /\ end[u] \in Nat
      /\ begin[u] <= commits /\ end[u] <= commits /\ wset[u] \subseteq Nodes
  BY DEF IInv, TypeOK, Isolated
<1>3. begin'[u] <= commits' /\ end'[u] <= commits'
  <2>1. begin'[u] <= commits'
    BY <1>1, <1>2
  <2>2. CASE u = t
    BY <1>1, <1>2, <2>1, <2>2
  <2>3. CASE u # t
    BY <1>1, <1>2, <2>1, <2>3
  <2> QED
    BY <2>2, <2>3
<1>4. CASE u = t
  <2>1. begin'[u] < end'[u]
    BY <1>1, <1>2, <1>4
  <2> QED
    BY <1>1, <1>3, <1>4, <2>1 DEF Isolated
<1>5. CASE u # t
  <2>1. ASSUME st[u] = "active", iso[u] = "serializable"
        PROVE  /\ \A n \in wset[u] : current(n, begin[u])'
               /\ \A n \in Nodes : current(n, begin[u])' => snap'[u][n] = parent'[n]
    <3>1. wset[t] \cap wset[u] = {}
      BY <1>1, <1>5, <2>1 DEF IInv, Locked
    <3>2. /\ \A n \in wset[u] : current(n, begin[u])
          /\ \A n \in Nodes : current(n, begin[u]) => snap[u][n] = parent[n]
      BY <2>1 DEF IInv, Isolated
    <3>3. \A n \in Nodes : current(n, begin[u])' <=> current(n, begin[u]) /\ n \notin wset[t]
      <4> SUFFICES ASSUME NEW n \in Nodes
                   PROVE  current(n, begin[u])' <=> current(n, begin[u]) /\ n \notin wset[t]
        OBVIOUS
      <4>1. \A i \in Nat : i <= commits => (current(n, i)' <=> current(n, i) /\ n \notin wset[t])
        BY CommitCurrent
      <4>2. begin'[u] = begin[u]
        BY <1>1
      <4> QED
        BY <1>2, <4>1, <4>2 DEF current
    <3> QED
      BY <1>1, <1>2, <1>5, <3>1, <3>2, <3>3
  <2>2. st[u] = "committed" => begin[u] < end[u]
    BY DEF IInv, Isolated
  <2>3. st[u] \in {"idle", "aborted"} =>
          iso[u] = "serializable" /\ wset[u] = {} /\ reads[u] = {}
    BY DEF IInv, Isolated
  <2> QED
    BY <1>1, <1>3, <1>5, <2>1, <2>2, <2>3 DEF Isolated
<1> QED
  BY <1>4, <1>5

\* t is the last writer of the rows it wrote.
LEMMA CommitLastWriters ==
  ASSUME IInv, NEW t \in Txns, Commit(t)
  PROVE  lastWriters(Committed, end, wset)'
<1>1. /\ t \notin Committed /\ Committed' = Committed \cup {t}
      /\ \A u \in Committed : /\ u # t /\ end'[u] = end[u] /\ end[u] <= commits
                              /\ end[u] \in Nat
      /\ end'[t] = commits + 1 /\ wset' = wset
  BY CommitMoves
<1>2. commits \in Nat
  BY DEF IInv, TypeOK
<1> SUFFICES ASSUME NEW n \in Nodes, NEW u \in Committed', n \in wset[u]
             PROVE  \E w \in Committed' : /\ n \in wset[w]
                                          /\ unchangedSince(Committed', end', wset, n, end'[w])
  BY <1>1 DEF lastWriters
<1>3. CASE n \in wset[t]
  <2>1. \A v \in Committed' : end'[v] <= end'[t]
    BY <1>1, <1>2
  <2> QED
    BY <1>1, <1>3, <2>1 DEF unchangedSince
<1>4. CASE n \notin wset[t]
  <2>1. u \in Committed
    BY <1>1, <1>4
  <2>2. PICK w \in Committed : n \in wset[w] /\ unchangedSince(Committed, end, wset, n, end[w])
    BY <1>4, <2>1 DEF IInv, lastWriters
  <2>3. unchangedSince(Committed', end', wset, n, end'[w])
    BY <1>1, <1>4, <2>2 DEF unchangedSince
  <2> QED
    BY <1>1, <2>2, <2>3
<1> QED
  BY <1>3, <1>4

\* The transactions that go on stay checked.
LEMMA CommitChecked ==
  ASSUME IInv, NEW t \in Txns, Commit(t), NEW u \in Txns
  PROVE  (Checked(u) => Checked(u)') /\ (Detaches(u) => Detaches(u)')
<1>1. /\ st'[t] = "committed"
      /\ UNCHANGED <<since, iso, begin, reads, wset>>
      /\ \A v \in Txns \ {t} : st'[v] = st[v] /\ snap'[v] = snap[v] /\ wval'[v] = wval[v]
  BY CommitMoves
<1>2. CASE u = t
  BY <1>1, <1>2 DEF Checked, Detaches
<1>3. CASE u # t /\ iso[u] = "serializable"
  <2>1. view(u)' = view(u)
    BY <1>1, <1>3 DEF view
  <2> QED
    BY <1>1, <1>3, <2>1 DEF Checked, Detaches
<1>4. CASE u # t /\ iso[u] # "serializable"
  BY <1>1, <1>4 DEF Checked, Detaches
<1> QED
  BY <1>2, <1>3, <1>4

\* Once broken, the maintenance window stays so, and a transaction that
\* straddles the upgrade breaks it with its commit.
LEMMA CommitWindow ==
  ASSUME IInv, NEW t \in Txns, Commit(t), windowKept'
  PROVE  windowKept /\ ~straddles(t)
<1>1. /\ st[t] = "active" /\ st'[t] = "committed" /\ end'[t] = commits + 1
      /\ UNCHANGED <<since, iso, begin>>
      /\ \A u \in Txns \ {t} : st'[u] = st[u] /\ end'[u] = end[u]
  BY CommitMoves
<1>2. commits + 1 > since
  BY DEF IInv, TypeOK
<1> QED
  BY <1>1, <1>2 DEF windowKept, straddles

\* The history with t at its end is recorded, if H remembers what t saw.
LEMMA CommitRecorded ==
  ASSUME IInv, NEW t \in Txns, Commit(t), ~straddles(t), Detaches(t),
         NEW H \in [Txns -> Parents], History(H)
  PROVE  recorded(Committed', CommittedSerializable', begin', end', reads', wset',
                  [H EXCEPT ![t] = view(t)], parent', since')
<1> DEFINE G == [H EXCEPT ![t] = view(t)]
<1>1. /\ st[t] = "active"
      /\ t \notin Committed /\ Committed' = Committed \cup {t}
      /\ \A u \in Committed : /\ u \in Txns /\ u # t /\ end'[u] = end[u]
                              /\ end[u] <= commits /\ end[u] \in Nat
      /\ end'[t] = commits + 1 /\ UNCHANGED <<since, iso, begin, reads, wset>>
      /\ \A n \in wset[t] : n \in Nodes /\ parent'[n] = wval[t][n]
      /\ \A n \in Nodes \ wset[t] : parent'[n] = parent[n]
  BY CommitMoves
<1>2. /\ commits \in Nat /\ since \in Nat /\ \A u \in Txns : begin[u] \in Nat /\ begin[u] <= commits
      /\ \A u \in Txns : wset[u] \subseteq Nodes
  BY DEF IInv, TypeOK, Isolated
<1>3. /\ G[t] = view(t)
      /\ \A u \in Committed : G[u] = H[u]
  BY <1>1
<1>4. /\ \A u \in Committed : u \in CommittedSerializable' <=> u \in CommittedSerializable
      /\ t \in CommittedSerializable' <=> iso[t] = "serializable"
  BY <1>1 DEF CommittedSerializable
<1>5. recorded(Committed, CommittedSerializable, begin, end, reads, wset, H, parent, since)
  BY DEF History
<1>6. Checked(t) /\ (iso[t] = "serializable" => begin[t] >= since)
  BY <1>2 DEF History, straddles
<1>7. \A n \in Nodes, i \in Nat : i <= commits =>
        (unchangedSince(Committed', end', wset, n, i) <=>
           unchangedSince(Committed, end, wset, n, i) /\ n \notin wset[t])
  <2> SUFFICES ASSUME NEW n \in Nodes, NEW i \in Nat, i <= commits
               PROVE  unchangedSince(Committed', end', wset, n, i) <=>
                        unchangedSince(Committed, end, wset, n, i) /\ n \notin wset[t]
    OBVIOUS
  <2>1. ~(commits + 1 <= i)
    BY <1>2
  <2> QED
    BY <1>1, <2>1 DEF unchangedSince
<1> HIDE DEF G
<1> SUFFICES ASSUME NEW u \in Committed', end'[u] > since
             PROVE  IF u \in CommittedSerializable'
                    THEN recordedSerializable(u, Committed', begin, end', reads, wset,
                                              G[u], parent', since)
                    ELSE recordedOther(u, Committed', end', wset, parent')
  BY <1>1 DEF recorded, G
<1>8. CASE u = t
  <2>1. CASE iso[t] = "serializable"
    <3>1. /\ begin[t] >= since /\ Acyclic(view(t))
          /\ covered(view(t), wset[t], reads[t])
      BY <1>1, <1>6, <2>1 DEF Checked
    <3>2. begin[t] < end'[t]
      BY <1>1, <1>2
    <3>3. \A n \in wset[t] : view(t)[n] = parent'[n]
      BY <1>1 DEF view
    <3>4. ASSUME NEW n \in Nodes \ wset[t],
                 unchangedSince(Committed', end', wset, n, begin[t])
          PROVE  view(t)[n] = parent'[n]
      <4>1. view(t)[n] = snap[t][n] /\ parent'[n] = parent[n]
        BY <1>1, <2>1 DEF view
      <4>2. current(n, begin[t])
        BY <1>2, <1>7, <3>4 DEF current
      <4>3. snap[t][n] = parent[n]
        BY <1>1, <2>1, <4>2 DEF IInv, Isolated
      <4> QED
        BY <4>1, <4>3
    <3>5. recordedSerializable(t, Committed', begin, end', reads, wset, view(t), parent', since)
      BY <3>1, <3>2, <3>3, <3>4 DEF recordedSerializable
    <3> QED
      BY <1>3, <1>4, <1>8, <2>1, <3>5
  <2>2. CASE iso[t] # "serializable"
    <3>1. \A n \in wset[t] : parent'[n] = None
      BY <1>1, <2>2 DEF Detaches
    <3> QED
      BY <1>4, <1>8, <2>2, <3>1 DEF recordedOther
  <2> QED
    BY <2>1, <2>2
<1>9. CASE u # t
  <2>1. /\ u \in Committed /\ u \in Txns /\ end'[u] = end[u] /\ end[u] > since
        /\ end[u] <= commits /\ end[u] \in Nat
    BY <1>1, <1>9
  <2>2. \A n \in Nodes : unchangedSince(Committed', end', wset, n, end[u]) =>
                           /\ unchangedSince(Committed, end, wset, n, end[u])
                           /\ parent'[n] = parent[n]
    BY <1>1, <1>7, <2>1
  <2>3. CASE u \in CommittedSerializable
    <3>1. recordedSerializable(u, Committed, begin, end, reads, wset, H[u], parent, since)
      BY <1>5, <2>1, <2>3 DEF recorded
    <3>2. \A n \in Nodes : unchangedSince(Committed', end', wset, n, begin[u]) =>
                             /\ unchangedSince(Committed, end, wset, n, begin[u])
                             /\ parent'[n] = parent[n]
      BY <1>1, <1>2, <1>7, <2>1
    <3>3. recordedSerializable(u, Committed', begin, end', reads, wset, H[u], parent', since)
      BY <1>2, <2>1, <2>2, <3>1, <3>2 DEF recordedSerializable
    <3> QED
      BY <1>3, <1>4, <2>1, <2>3, <3>3
  <2>4. CASE u \notin CommittedSerializable
    <3>1. recordedOther(u, Committed, end, wset, parent)
      BY <1>5, <2>1, <2>4 DEF recorded
    <3>2. recordedOther(u, Committed', end', wset, parent')
      BY <1>2, <2>1, <2>2, <3>1 DEF recordedOther
    <3> QED
      BY <1>4, <2>1, <2>4, <3>2
  <2> QED
    BY <2>3, <2>4
<1> QED
  BY <1>8, <1>9

\* PostgreSQL commits a serializable transaction only if the committed ones
\* stay serializable.
LEMMA CommitMissedNothing ==
  ASSUME IInv, NEW t \in Txns, Commit(t), iso[t] = "serializable"
  PROVE  missedNothing(CommittedSerializable', begin', end', reads', wset')
<1>1. Committed' = Committed \cup {t} /\ UNCHANGED <<iso, begin, reads, wset>>
  BY CommitMoves
<1> DEFINE S == {u \in Txns : u = t \/ (st[u] = "committed" /\ iso[u] = "serializable")}
<1>2. serializable(S, end')
  BY DEF Commit
<1>3. CommittedSerializable' = S
  BY <1>1 DEF CommittedSerializable, Committed
<1> HIDE DEF S
<1> SUFFICES ASSUME NEW P \in SUBSET S, P # {}
             PROVE  \E u \in P : \A v \in P \ {u} :
                      reads[u] \cap wset[v] # {} => end'[v] <= begin[u]
  BY <1>1, <1>3 DEF missedNothing
<1>4. PICK u \in P : \A v \in P \ {u} : ~precedes(u, v, end')
  BY <1>2 DEF serializable
<1>5. \A v \in P \ {u} : reads[u] \cap wset[v] # {} => ~(end'[v] > begin[u])
  BY <1>4 DEF precedes
<1>6. \A v \in Txns : end'[v] \in Nat /\ begin[v] \in Nat
  <2>1. \A v \in Txns : end[v] \in Nat /\ begin[v] \in Nat /\ commits + 1 \in Nat
    BY DEF IInv, TypeOK
  <2>2. /\ end'[t] = commits + 1
        /\ \A v \in Txns \ {t} : end'[v] = end[v]
    BY CommitMoves
  <2> QED
    BY <2>1, <2>2
<1>7. P \subseteq Txns
  BY DEF S
<1>8. \A v \in P \ {u} : reads[u] \cap wset[v] # {} => end'[v] <= begin[u]
  BY <1>5, <1>6, <1>7
<1> QED
  BY <1>8

\* A commit closes no cycle.
LEMMA CommitKeepsForest ==
  ASSUME IInv, TypeOK', NEW t \in Txns, Commit(t), ~straddles(t), Detaches(t),
         Acyclic(parent), NEW H \in [Txns -> Parents], History(H)
  PROVE  Acyclic(parent')
<1>1. /\ st[t] = "active"
      /\ t \notin Committed /\ Committed' = Committed \cup {t}
      /\ \A u \in Committed : u \in Txns /\ end'[u] = end[u] /\ end[u] <= commits /\ end[u] \in Nat
      /\ end'[t] = commits + 1 /\ UNCHANGED <<since, iso, begin, reads, wset>>
      /\ \A n \in wset[t] : n \in Nodes /\ parent'[n] = wval[t][n]
      /\ \A n \in Nodes \ wset[t] : parent'[n] = parent[n]
  BY CommitMoves
<1>2. /\ parent \in Parents /\ parent' \in Parents /\ wset[t] \subseteq Nodes
      /\ commits \in Nat /\ since \in Nat /\ since <= commits
  BY DEF IInv, TypeOK
<1>3. CASE iso[t] # "serializable"
  <2>1. \A n \in wset[t] : wval[t][n] = None
    BY <1>1, <1>3 DEF Detaches
  <2>2. \A n \in Nodes : parent'[n] \in {None, parent[n]}
    BY <1>1, <2>1
  <2> QED
    BY <1>2, <2>2, DetachKeepsAcyclic
<1>4. CASE iso[t] = "serializable"
  <2> SUFFICES ASSUME NEW n \in Nodes, parent'[n] # None,
                      n \in ancestors(parent', parent'[n])
               PROVE  FALSE
    BY DEF Acyclic
  <2> DEFINE cycle == ancestors(parent', parent'[n])
  <2>1. parent'[n] \in Nodes
    BY <1>2 DEF Parents
  <2>2. cycle \in SUBSET Nodes /\ Closed(parent', cycle)
    BY <1>2, <2>1, AncestorsClosed
  <2>3. CASE cycle \cap wset[t] = {}
    <3>1. \A m \in cycle : parent'[m] = parent[m]
      BY <1>1, <2>2, <2>3
    <3>2. parent[n] = parent'[n]
      BY <3>1
    <3> DEFINE A == ancestors(parent, parent'[n])
    <3>3. A \subseteq cycle
      <4>1. Closed(parent, cycle)
        BY <2>2, <3>1 DEF Closed
      <4>2. parent'[n] \in cycle
        BY <1>2, <2>1, AncestorsSelf
      <4> HIDE DEF cycle
      <4> QED
        BY <1>2, <2>1, <2>2, <4>1, <4>2, AncestorsLeast
    <3>4. A \in SUBSET Nodes /\ Closed(parent, A) /\ parent'[n] \in A
      BY <1>2, <2>1, AncestorsClosed, AncestorsSelf
    <3>5. Closed(parent', A)
      BY <3>1, <3>3, <3>4 DEF Closed
    <3>6. cycle \subseteq A
      <4> HIDE DEF A
      <4> QED
        BY <1>2, <2>1, <3>4, <3>5, AncestorsLeast
    <3> QED
      BY <3>2, <3>6 DEF Acyclic
  <2>4. CASE cycle \cap wset[t] # {}
    <3>1. PICK m \in cycle : m \in wset[t]
      BY <2>4
    <3>2. \A u \in Committed' : end'[u] <= end'[t]
      BY <1>1, <1>2
    <3>3. unchangedSince(Committed', end', wset', m, end'[t])
      BY <3>2 DEF unchangedSince
    <3>4. t \in CommittedSerializable' /\ end'[t] > since
      BY <1>1, <1>2, <1>4 DEF CommittedSerializable
    <3>5. PICK G : G = [H EXCEPT ![t] = view(t)]
      OBVIOUS
    <3>6. G \in [Txns -> Parents]
      BY <3>5, ViewType DEF IInv
    <3>7. recorded(Committed', CommittedSerializable', begin', end', reads', wset', G,
                   parent', since)
      BY <1>1, <3>5, CommitRecorded
    <3>8. lastWriters(Committed', end', wset')
      BY CommitLastWriters DEF lastWriters, unchangedSince
    <3>9. missedNothing(CommittedSerializable', begin', end', reads', wset')
      BY <1>4, CommitMissedNothing
    <3>10. /\ Committed' \in SUBSET Txns
           /\ CommittedSerializable' \in SUBSET Committed'
           /\ begin' \in [Txns -> Nat] /\ end' \in [Txns -> Nat]
           /\ reads' \in [Txns -> SUBSET Nodes] /\ wset' \in [Txns -> SUBSET Nodes]
      BY DEF Committed, CommittedSerializable, TypeOK
    <3>11. m \in wset'[t]
      BY <1>1, <3>1
    <3> QED
      BY <1>2, <3>1, <3>3, <3>4, <3>6, <3>7, <3>8, <3>9, <3>10, <3>11,
         SerialHistoryIsAcyclic
  <2> QED
    BY <2>3, <2>4
<1> QED
  BY <1>3, <1>4

\* COMMIT keeps the invariant.
LEMMA CommitStep == ASSUME IInv, TypeOK', NEW t \in Txns, Commit(t) PROVE IInv'
<1>1. \A u \in Txns : Isolated(u)'
  BY CommitIsolated
<1>2. Locked'
  BY CommitMoves DEF IInv, Locked
<1>3. lastWriters(Committed, end, wset)'
  BY CommitLastWriters
<1>4. since' <= commits'
  BY CommitMoves DEF IInv, TypeOK
<1>5. ASSUME version' = 2 PROVE \A u \in Txns : Detaches(u)'
  BY <1>5, CommitMoves, CommitChecked DEF IInv
<1>6. ASSUME version' = 2, windowKept' PROVE Serial'
  <2>1. version = 2 /\ windowKept /\ ~straddles(t)
    BY <1>6, CommitMoves, CommitWindow
  <2>2. Acyclic(parent) /\ Detaches(t)
    BY <2>1 DEF IInv, Serial
  <2>3. PICK H \in [Txns -> Parents] : History(H)
    BY <2>1 DEF IInv, Serial
  <2>4. Acyclic(parent')
    BY <2>1, <2>2, <2>3, CommitKeepsForest
  <2>5. PICK G : G = [H EXCEPT ![t] = view(t)]
    OBVIOUS
  <2>6. G \in [Txns -> Parents]
    BY <2>5, ViewType DEF IInv
  <2>7. recorded(Committed, CommittedSerializable, begin, end, reads, wset, G, parent, since)'
    BY <2>1, <2>2, <2>3, <2>5, CommitRecorded
  <2>8. \A u \in Txns : Checked(u)'
    BY <2>3, CommitChecked DEF History
  <2>9. History(G)'
    BY <2>7, <2>8 DEF History
  <2> QED
    BY <2>4, <2>6, <2>9 DEF Serial
<1> QED
  BY <1>1, <1>2, <1>3, <1>4, <1>5, <1>6 DEF IInv

-----------------------------------------------------------------------------
(* The theorems.                                                            *)

\* Migration 2 starts a new history: nobody who is active has written, and the
\* table has been searched for cycles.
LEMMA MigrateStep == ASSUME IInv, TypeOK', Migrate PROVE IInv'
<1>1. /\ UNCHANGED <<parent, commits, st, iso, snap, begin, end, reads, wset, wval>>
      /\ since' = commits /\ Acyclic(parent)
      /\ \A t \in Txns : st[t] = "active" => wset[t] = {}
  BY DEF Migrate
<1>2. \A t \in Txns : Isolated(t)'
  BY <1>1 DEF IInv, Isolated, current, Committed, unchangedSince
<1>3. Locked' /\ lastWriters(Committed, end, wset)'
  BY <1>1 DEF IInv, Locked, lastWriters, Committed, unchangedSince
<1>4. /\ commits \in Nat /\ parent \in Parents
      /\ \A t \in Txns : /\ begin[t] \in Nat /\ begin[t] <= commits /\ end[t] \in Nat
                         /\ end[t] <= commits /\ snap[t] \in Parents
  BY DEF IInv, TypeOK, Isolated
<1>5. since' <= commits'
  BY <1>1, <1>4
<1>6. \A t \in Txns : Detaches(t)'
  BY <1>1 DEF Detaches
<1>7. ASSUME NEW t \in Txns PROVE Checked(t)'
  <2> SUFFICES ASSUME st[t] = "active", iso[t] = "serializable", begin[t] >= commits
               PROVE  Acyclic(view(t)') /\ covered(view(t)', wset'[t], reads'[t])
    BY <1>1 DEF Checked
  <2>1. begin[t] = commits
    BY <1>4
  <2>2. \A n \in Nodes : current(n, begin[t])
    BY <1>4, <2>1 DEF current, unchangedSince, Committed
  <2>3. \A n \in Nodes : snap[t][n] = parent[n]
    BY <2>2 DEF IInv, Isolated
  <2>4. view(t)' = parent
    BY <1>1, <1>4, <2>3 DEF view, Parents
  <2> QED
    BY <1>1, <2>4 DEF covered
<1>8. PICK G : G = [t \in Txns |-> noParents]
  OBVIOUS
<1>9. G \in [Txns -> Parents]
  BY <1>8 DEF noParents, Parents
<1>10. \A t \in Committed' : ~(end'[t] > since')
  BY <1>1, <1>4 DEF Committed
<1>11. recorded(Committed, CommittedSerializable, begin, end, reads, wset, G, parent, since)'
  BY <1>10 DEF recorded
<1>12. History(G)'
  BY <1>7, <1>11 DEF History
<1>13. Serial'
  BY <1>1, <1>9, <1>12 DEF Serial
<1> QED
  BY <1>2, <1>3, <1>5, <1>6, <1>13 DEF IInv

\* Every step keeps the invariant.
LEMMA StepInvariant == ASSUME IInv, [Next]_vars PROVE IInv'
<1>1. CASE Next
  <2>1. TypeOK'
    BY <1>1, StepType DEF IInv
  <2>2. CASE Migrate
    BY <2>1, <2>2, MigrateStep
  <2>3. ASSUME NEW t \in Txns, Begin(t) PROVE IInv'
    BY <2>1, <2>3, BeginStep
  <2>4. ASSUME NEW t \in Txns, Commit(t) PROVE IInv'
    BY <2>1, <2>4, CommitStep
  <2>5. ASSUME NEW t \in Txns, Abort(t) PROVE IInv'
    BY <2>1, <2>5, RollbackStep DEF Abort
  <2>6. ASSUME NEW t \in Txns, NEW c \in Nodes, Detach(t, c) PROVE IInv'
    BY <2>1, <2>6, DetachStep
  <2>7. ASSUME NEW t \in Txns, NEW c \in Nodes, NEW p \in Nodes, Attach(t, c, p)
        PROVE  IInv'
    BY <2>1, <2>7, AttachStep
  <2>8. ASSUME NEW t \in Txns, Refuse(t) PROVE IInv'
    BY <2>1, <2>8, RollbackStep DEF Refuse
  <2> QED
    BY <1>1, <2>2, <2>3, <2>4, <2>5, <2>6, <2>7, <2>8 DEF Next
<1>2. CASE UNCHANGED vars
  <2>1. UNCHANGED <<version, since, parent, commits, st, iso, snap, begin, end, reads, wset, wval>>
    BY <1>2 DEF vars
  <2>2. TypeOK'
    BY <2>1 DEF IInv, TypeOK
  <2>3. (\A t \in Txns : Isolated(t))' /\ Locked' /\ lastWriters(Committed, end, wset)'
    BY <2>1 DEF IInv, Isolated, Locked, lastWriters, current, Committed, unchangedSince
  <2>4. since' <= commits' /\ (version' = 2 => \A t \in Txns : Detaches(t)')
    BY <2>1 DEF IInv, Detaches
  <2>5. ASSUME version' = 2, windowKept' PROVE Serial'
    <3>1. Serial
      BY <2>1, <2>5 DEF IInv, windowKept, straddles
    <3>2. PICK H \in [Txns -> Parents] : History(H)
      BY <3>1 DEF Serial
    <3>3. Committed' = Committed /\ CommittedSerializable' = CommittedSerializable
      BY <2>1 DEF Committed, CommittedSerializable
    <3>4. \A t \in Txns : Checked(t)'
      BY <2>1, <3>2 DEF History, Checked, view
    <3>5. History(H)'
      BY <2>1, <3>2, <3>3, <3>4 DEF History
    <3> QED
      BY <2>1, <3>1, <3>5 DEF Serial
  <2> QED
    BY <2>2, <2>3, <2>4, <2>5 DEF IInv
<1> QED
  BY <1>1, <1>2

\* The inductive invariant: types, snapshot isolation and row locks, the last
\* writer of each row, read committed transactions that only detach after
\* migration 2, and a serial history of forests since then (Begin, Commit,
\* rollback, Detach, Attach, Migrate).
THEOREM Invariant == Spec => []IInv
  BY InitInvariant, StepInvariant, PTL DEF Spec

\* The variables of the model keep their types.
THEOREM TypeCorrect == Spec => []TypeOK
<1>1. IInv => TypeOK
  BY DEF IInv
<1> QED
  BY <1>1, Invariant, PTL

\* The trigger of migration 2, with the isolation level it insists on and
\* PostgreSQL's serializability, keeps the committed hierarchy free of cycles
\* until a transaction that straddles the upgrade commits, for any number of
\* rows and of concurrent transactions.
THEOREM ForestKeptAlways == Spec => []ForestKept
<1>1. IInv => ForestKept
  BY DEF IInv, Serial, ForestKept
<1> QED
  BY <1>1, Invariant, PTL

\* What a transaction that does not straddle the upgrade sees after migration 2
\* is free of cycles, also between its own updates.
THEOREM ViewsAcyclicAlways == Spec => []ViewsAcyclic
<1>1. ASSUME IInv PROVE ViewsAcyclic
  <2> SUFFICES ASSUME version = 2, windowKept, NEW t \in Txns, st[t] = "active",
                      ~straddles(t)
               PROVE  Acyclic(view(t))
    BY DEF ViewsAcyclic
  <2>1. Acyclic(parent) /\ parent \in Parents /\ view(t) \in Parents
    BY <1>1, ViewType DEF IInv, Serial, TypeOK
  <2>2. Checked(t) /\ Detaches(t) /\ begin[t] \in Nat /\ since \in Nat
    BY <1>1 DEF IInv, Serial, History, TypeOK
  <2>3. CASE iso[t] = "serializable"
    BY <2>2, <2>3 DEF Checked, straddles
  <2>4. CASE iso[t] # "serializable"
    <3>1. \A n \in Nodes : view(t)[n] \in {None, parent[n]}
      BY <2>2, <2>4 DEF Detaches, view
    <3> QED
      BY <2>1, <3>1, DetachKeepsAcyclic
  <2> QED
    BY <2>3, <2>4
<1> QED
  BY <1>1, Invariant, PTL

\* After migration 2 no commit replaces a parent its transaction has not seen:
\* who has the row lock has the row's last value in its snapshot.
THEOREM NoLostParentAlways == Spec => NoLostParent
<1> DEFINE seen(n) ==
      version = 2 /\ parent'[n] # parent[n] /\ parent'[n] # None =>
        \E t \in Txns : /\ st[t] = "active" /\ st'[t] = "committed"
                        /\ n \in wset[t] /\ snap[t][n] = parent[n]
<1>1. ASSUME IInv, [Next]_vars PROVE [\A n \in Nodes : seen(n)]_vars
  <2> SUFFICES ASSUME NEW n \in Nodes, version = 2, parent'[n] # parent[n],
                      parent'[n] # None
               PROVE  \E t \in Txns : /\ st[t] = "active" /\ st'[t] = "committed"
                                      /\ n \in wset[t] /\ snap[t][n] = parent[n]
    OBVIOUS
  <2>1. PICK t \in Txns : Commit(t)
    BY <1>1, ZenonT(60) DEF Next, vars, Migrate, Begin, Abort, rollback, Detach, Attach, Refuse, write
  <2>2. /\ st[t] = "active" /\ st'[t] = "committed"
        /\ n \in wset[t] /\ parent'[n] = wval[t][n]
    BY <1>1, <2>1, CommitMoves
  <2>3. Detaches(t)
    BY <1>1 DEF IInv
  <2>4. iso[t] = "serializable"
    BY <2>2, <2>3 DEF Detaches
  <2>5. snap[t][n] = parent[n]
    BY <1>1, <2>2, <2>4 DEF IInv, Isolated
  <2> QED
    BY <2>2, <2>5
<1> QED
  BY <1>1, Invariant, PTL DEF Spec, NoLostParent
=============================================================================
