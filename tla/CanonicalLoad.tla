--------------------------- MODULE CanonicalLoad ---------------------------
(***************************************************************************)
(* What the source import promises to the rest of the platform: the         *)
(* canonical units of one accepted directory, their external references and *)
(* their outbox events appear in ONE step, at most once, beside the units   *)
(* other writers create; nothing else ever changes them.                    *)
(***************************************************************************)
EXTENDS SourceFiles

VARIABLES units, refs, events

vars == <<units, refs, events>>

\* The canonical unit of a row.
unitOf(r) == [code |-> r.code, parent |-> r.parent, active |-> r.area = 2,
              src |-> r.src]

Init == units = {} /\ refs = {} /\ events = {}

Load(d) ==
  /\ accepted(d)
  /\ \A u \in units : \A r \in adminRows(d) : u.code # r.code
  /\ units' = units \cup {unitOf(r) : r \in adminRows(d)}
  /\ refs' = refs \cup {<<r.src, r.code>> : r \in adminRows(d)}
  /\ events' = events \cup {r.code : r \in adminRows(d)}

\* Another writer's unit comes without a source.
Foreign ==
  /\ \E u \in units' \ units : units' = units \cup {u} /\ u.src = NoHash
  /\ UNCHANGED <<refs, events>>

Next == Foreign \/ \E d \in Dirs : Load(d)

Spec == Init /\ [][Next]_vars

=============================================================================
