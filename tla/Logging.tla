------------------------------ MODULE Logging ------------------------------
(***************************************************************************)
(* Loggers derived from one another (internal/platform/logging/logging.go).  *)
(* A contextHandler keeps the operations of its derivation, With and         *)
(* WithGroup, in a Go slice and replays them for every record.  Slices are   *)
(* modelled as such: a logger has an array of the heap and a length.         *)
(***************************************************************************)
EXTENDS Naturals, SequencesExt

CONSTANTS
  Groups,     \* names of groups
  IDs,        \* request and trace identifiers
  MaxLoggers  \* bound on the loggers of a process

ASSUME LoggingAssumption == MaxLoggers \in Nat /\ "" \notin Groups \cup IDs

VARIABLES
  heap,    \* the backing arrays; a slot that is not used is NoOp
  loggers, \* the contextHandlers: [array, len]
  lazy,    \* what a slog.LogValuer would answer now
  record,  \* the last record that was handled
  path     \* history: of each logger, the calls it is the result of

logVars == <<heap, loggers, lazy, record, path>>

attr(v) == [op |-> "attr", what |-> v]
group(g) == [op |-> "group", what |-> g]
NoOp == [op |-> "none", what |-> ""]
NoRecord == [logger |-> 0, fields |-> {}]

\* The correlation that a context carries.
background == [requestID |-> "", traceID |-> ""]
WithRequestID(c, id) == [c EXCEPT !.requestID = id]
WithTraceID(c, id) == [c EXCEPT !.traceID = id]

operations(l) == SubSeq(heap[loggers[l].array], 1, loggers[l].len)

\* The replay: every attribute under the groups opened before it.
replay(ops) ==
  {<<SelectSeq(SubSeq(ops, 1, i), LAMBDA o : o.op = "group"), ops[i].what>> :
     i \in {j \in DOMAIN ops : ops[j].op = "attr"}}

\* The identifiers of the context are attached first, outside every group.
handled(l, c, ops) ==
  [logger |-> l, fields |-> {<<<<>>, id>> : id \in {c.requestID, c.traceID} \ {""}} \cup replay(ops)]

-----------------------------------------------------------------------------

LogInit ==
  /\ heap = <<>> /\ loggers = <<>> /\ path = <<>>
  /\ lazy = "old" /\ record = NoRecord

\* New: a handler without operations, and With the identity of the process.
New ==
  /\ heap' = <<<<>>, <<attr("service")>>>>
  /\ loggers' = <<[array |-> 1, len |-> 0], [array |-> 2, len |-> 1]>>
  /\ path' = <<<<>>, <<attr("service")>>>>
  /\ UNCHANGED lazy

\* Failure: a logger of its own and one record outside any request.
Failure == New /\ record' = handled(2, background, <<attr("service")>>)

\* Mutant: append to the operations of the parent, which copies them only when
\* its array is full and then leaves room for as many again.
withOperationShared(l, op) ==
  LET a == loggers[l].array
      n == loggers[l].len
  IN IF n < Len(heap[a])
     THEN /\ heap' = [heap EXCEPT ![a][n + 1] = op]
          /\ loggers' = Append(loggers, [array |-> a, len |-> n + 1])
     ELSE /\ heap' = Append(heap, Append(operations(l), op) \o [i \in 1..(n - 1) |-> NoOp])
          /\ loggers' = Append(loggers, [array |-> Len(heap) + 1, len |-> n + 1])

\* A copy with room for one operation more.
withOperation(l, op) ==
  /\ heap' = Append(heap, Append(operations(l), op))
  /\ loggers' = Append(loggers, [array |-> Len(heap) + 1, len |-> loggers[l].len + 1])

derive(l, op) ==
  /\ Len(loggers) < MaxLoggers
  /\ withOperation(l, op)
  /\ path' = Append(path, Append(path[l], op))
  /\ UNCHANGED <<lazy, record>>

\* Values are resolved now, not when a record is written.
WithAttrs(l) == derive(l, attr(lazy))

\* WithGroup("") is the logger itself.
WithGroup(l, g) == derive(l, group(g))

Handle(l, c) ==
  /\ record' = handled(l, c, operations(l))
  /\ UNCHANGED <<heap, loggers, lazy, path>>

\* The value behind a LogValuer changes.
Change ==
  /\ lazy = "old" /\ lazy' = "new"
  /\ UNCHANGED <<heap, loggers, record, path>>

LogNext ==
  \/ Change
  \/ \E l \in 2..Len(loggers) :
       \/ WithAttrs(l)
       \/ \E g \in Groups : WithGroup(l, g)
       \/ \E i, j \in IDs : Handle(l, WithTraceID(WithRequestID(background, i), j))

=============================================================================
