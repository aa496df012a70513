-------------------------- MODULE LifecycleProofs --------------------------
(***************************************************************************)
(* TLAPS proofs about Lifecycle for any set of HTTP connections.            *)
(***************************************************************************)
EXTENDS Lifecycle, SequenceTheorems, TLAPS

-----------------------------------------------------------------------------
(* Types.                                                                   *)

\* Pushing and popping closers keeps a stack of resources.
LEMMA PopKeepsStack ==
  ASSUME owned \in Seq(Resources), owned # <<>>
  PROVE  SubSeq(owned, 1, Len(owned) - 1) \in Seq(Resources)
  OBVIOUS

\* The initial states are well typed.
LEMMA InitType == Init => TypeOK
<1> SUFFICES ASSUME Init PROVE TypeOK
  OBVIOUS
<1>1. pc \in PCs /\ reruns \in 0..MaxReruns
  BY LifecycleAssumption DEF Init, PCs
<1>2. owned \in Seq(Resources) /\ err \in SUBSET Errors
  BY DEF Init
<1> QED
  BY <1>1, <1>2 DEF Init, TypeOK

\* The acquisitions of the Run goroutine keep the types.
LEMMA StartupType == ASSUME TypeOK, Startup PROVE TypeOK'
<1> USE DEF TypeOK, PCs, Errors, Resources, cfgVars, srvVars, httpVars, add,
            returnWith
<1>1. CASE RunFirst BY <1>1 DEF RunFirst
<1>2. CASE OpenOK BY <1>2 DEF OpenOK
<1>3. CASE OpenFails BY <1>3 DEF OpenFails
<1>4. CASE RunWait BY <1>4 DEF RunWait
<1>5. CASE ListenOK BY <1>5 DEF ListenOK
<1>6. CASE ListenFails
  <2>1. err' \in SUBSET Errors /\ faults' \in SUBSET Errors
    BY <1>6 DEF ListenFails
  <2>2. pc' \in PCs /\ owned' \in Seq(Resources)
    BY <1>6 DEF ListenFails
  <2> HIDE DEF Errors, PCs
  <2> QED
    BY <1>6, <2>1, <2>2 DEF ListenFails
<1>7. CASE TracingOK BY <1>7 DEF TracingOK
<1>8. CASE TracingFails BY <1>8 DEF TracingFails
<1>9. CASE ServerOK BY <1>9 DEF ServerOK
<1>10. CASE ServerFails BY <1>10 DEF ServerFails
<1>11. CASE Wait BY <1>11 DEF Wait
<1> QED
  BY <1>1, <1>2, <1>3, <1>4, <1>5, <1>6, <1>7, <1>8, <1>9, <1>10, <1>11
     DEF Startup

\* The closers keep the types.
LEMMA CleanupType == ASSUME TypeOK, Cleanup PROVE TypeOK'
<1> USE DEF TypeOK, PCs, Errors, cfgVars, srvVars, httpVars, pop, Running
<1>1. CASE CloseDone BY <1>1 DEF CloseDone
<1>2. CASE CloseServer BY <1>2, PopKeepsStack DEF CloseServer
<1>3. CASE ShutdownListeners BY <1>3 DEF ShutdownListeners
<1>4. CASE ShutdownPoll BY <1>4 DEF ShutdownPoll
<1>5. CASE ShutdownRetry BY <1>5 DEF ShutdownRetry
<1>6. CASE ShutdownExpired BY <1>6 DEF ShutdownExpired
<1>7. CASE ForceClose BY <1>7 DEF ForceClose
<1>8. CASE JoinServe BY <1>8 DEF JoinServe
<1>9. CASE CloseTracing BY <1>9, PopKeepsStack DEF CloseTracing
<1>10. CASE TracingStopped
  <2>1. err' \in SUBSET Errors /\ faults' \in SUBSET Errors
    BY <1>10 DEF TracingStopped
  <2>2. pc' \in PCs /\ owned' \in Seq(Resources)
    BY <1>10 DEF TracingStopped
  <2> HIDE DEF Errors, PCs
  <2> QED
    BY <1>10, <2>1, <2>2 DEF TracingStopped
<1>11. CASE TracingExpired BY <1>11 DEF TracingExpired
<1>12. CASE CloseListener
  <2>1. err' \in SUBSET Errors /\ faults' \in SUBSET Errors
    BY <1>12 DEF CloseListener
  <2>2. pc' \in PCs /\ owned' \in Seq(Resources)
    BY <1>12, PopKeepsStack DEF CloseListener
  <2> HIDE DEF Errors, PCs
  <2> QED
    BY <1>12, <2>1, <2>2 DEF CloseListener
<1>13. CASE ClosePool BY <1>13, PopKeepsStack DEF ClosePool
<1>14. CASE PoolJoined BY <1>14 DEF PoolJoined
<1>15. CASE PoolExpired BY <1>15 DEF PoolExpired
<1> QED
  BY <1>1, <1>2, <1>3, <1>4, <1>5, <1>6, <1>7, <1>8, <1>9, <1>10, <1>11,
     <1>12, <1>13, <1>14, <1>15 DEF Cleanup

\* The Serve goroutine keeps the types.
LEMMA ServingType == ASSUME TypeOK, Serving PROVE TypeOK'
  <1> USE DEF TypeOK, runVars, cfgVars, httpVars
  <1>1. CASE ServeStart BY <1>1 DEF ServeStart
  <1>2. CASE ServeClosed BY <1>2 DEF ServeClosed
  <1>3. CASE ServeFails BY <1>3 DEF ServeFails, Errors
  <1>4. CASE ServeReturns BY <1>4 DEF ServeReturns
  <1> QED BY <1>1, <1>2, <1>3, <1>4 DEF Serving

\* The connections and their handlers keep the types.
LEMMA HttpType == ASSUME TypeOK, NEW c \in Conns,
                         \/ Accept(c) \/ StartRequest(c) \/ AcquireDB(c)
                         \/ FinishRequest(c) \/ TimeoutRequest(c)
                         \/ FinishDetached(c) \/ ConnEnds(c)
                  PROVE  TypeOK'
  <1> USE DEF TypeOK, runVars, cfgVars, srvVars, afterResponse
  <1>1. CASE Accept(c) BY <1>1 DEF Accept
  <1>2. CASE StartRequest(c) BY <1>2 DEF StartRequest
  <1>3. CASE AcquireDB(c) BY <1>3 DEF AcquireDB
  <1>4. CASE FinishRequest(c) BY <1>4 DEF FinishRequest
  <1>5. CASE TimeoutRequest(c) BY <1>5 DEF TimeoutRequest
  <1>6. CASE FinishDetached(c) BY <1>6 DEF FinishDetached
  <1>7. CASE ConnEnds(c) BY <1>7 DEF ConnEnds
  <1> QED BY <1>1, <1>2, <1>3, <1>4, <1>5, <1>6, <1>7

\* Every step of every goroutine keeps the state within its types.
THEOREM TypeCorrect == Spec => []TypeOK
<1>1. TypeOK /\ [Next]_vars => TypeOK'
  <2> SUFFICES ASSUME TypeOK, [Next]_vars PROVE TypeOK'
    OBVIOUS
  <2>1. CASE Startup BY <2>1, StartupType
  <2>2. CASE Cleanup BY <2>2, CleanupType
  <2>3. CASE Serving BY <2>3, ServingType
  <2>4. CASE Http BY <2>4, HttpType DEF Http
  <2> USE DEF TypeOK, runVars, cfgVars, srvVars, httpVars
  <2>5. CASE Signal BY <2>5 DEF Signal
  <2>6. CASE Expire BY <2>6 DEF Expire
  <2>7. CASE PoolCloses BY <2>7 DEF PoolCloses
  <2>8. CASE RunAgain BY <2>8, LifecycleAssumption DEF RunAgain
  <2>9. CASE UNCHANGED vars BY <2>9 DEF vars
  <2>10. CASE Stopped BY <2>10 DEF vars, Stopped
  <2> QED
    BY <2>1, <2>2, <2>3, <2>4, <2>5, <2>6, <2>7, <2>8, <2>9, <2>10 DEF Next
<1> QED
  BY InitType, <1>1, PTL DEF Spec

-----------------------------------------------------------------------------
(* The stack of closers.                                                    *)

\* Registering anything but the server leaves the server unregistered.
LEMMA PushOther ==
  ASSUME owned \in Seq(Resources), ~ServerOwned,
         NEW name \in Resources, name # "HTTPServer",
         owned' = Append(owned, name)
  PROVE  ~ServerOwned'
  BY DEF ServerOwned

\* The server is registered once, on top.
LEMMA PushServer ==
  ASSUME owned \in Seq(Resources), ~ServerOwned,
         owned' = Append(owned, "HTTPServer")
  PROVE  /\ ServerOwned'
         /\ \A i \in 1..Len(owned') :
              owned'[i] = "HTTPServer" => i = Len(owned')
<1>1. /\ Len(owned') = Len(owned) + 1 /\ Len(owned) \in Nat
      /\ owned'[Len(owned) + 1] = "HTTPServer"
      /\ \A i \in 1..Len(owned) : owned'[i] = owned[i]
  OBVIOUS
<1> QED
  BY <1>1 DEF ServerOwned

\* Whatever is popped, the server is not left below it.
LEMMA PopNoServer ==
  ASSUME owned \in Seq(Resources), owned # <<>>, ServerOnTop, pop
  PROVE  ~ServerOwned'
<1>1. /\ Len(owned) \in Nat \ {0}
      /\ Len(owned') = Len(owned) - 1
      /\ \A i \in 1..Len(owned) - 1 : owned'[i] = owned[i]
  <2>1. Len(owned) \in Nat \ {0}
    OBVIOUS
  <2>2. Len(owned') = Len(owned) - 1
    <3> DEFINE n == Len(owned) - 1
    <3>1. n \in Nat /\ \A i \in 1..n : owned[i] \in Resources
      BY <2>1
    <3>2. owned' = SubSeq(owned, 1, n)
      BY DEF pop
    <3> HIDE DEF n
    <3>3. Len(SubSeq(owned, 1, n)) = IF 1 <= n THEN n - 1 + 1 ELSE 0
      BY <3>1, SubSeqProperties
    <3>4. (IF 1 <= n THEN n - 1 + 1 ELSE 0) = n
      BY <3>1
    <3>5. Len(owned') = n
      BY <3>2, <3>3, <3>4, Zenon
    <3> QED
      BY <3>5 DEF n
  <2>3. ASSUME NEW i \in 1..Len(owned) - 1 PROVE owned'[i] = owned[i]
    BY <2>1 DEF pop
  <2> QED
    BY <2>1, <2>2, <2>3, Zenon
<1>2. \A i \in 1..Len(owned) - 1 : owned[i] # "HTTPServer"
  BY <1>1 DEF ServerOnTop
<1> QED
  BY <1>1, <1>2 DEF ServerOwned

\* When another closer is on top, the server's has run.
LEMMA OtherOnTop ==
  ASSUME owned \in Seq(Resources), owned # <<>>, ServerOnTop,
         top # "HTTPServer"
  PROVE  ~ServerOwned
  BY DEF ServerOwned, ServerOnTop, top

\* A server on top of the stack is a registered one.
LEMMA ServerOnTopAt ==
  ASSUME owned \in Seq(Resources), owned # <<>>, top = "HTTPServer"
  PROVE  ServerOwned
  BY DEF ServerOwned, top

\* Without a registered server the one on top is no question.
LEMMA NoServerOnTop ==
  (~ServerOwned => ServerOnTop) /\ (~ServerOwned' => ServerOnTop')
  BY DEF ServerOwned, ServerOnTop

\* A step that leaves the stack alone leaves the server's place alone.
LEMMA StackUnchanged ==
  ASSUME owned' = owned
  PROVE  (ServerOwned' <=> ServerOwned) /\ (ServerOnTop' <=> ServerOnTop)
  BY DEF ServerOwned, ServerOnTop

-----------------------------------------------------------------------------
(* The inductive invariant, one group of actions at a time.                 *)

\* The initial states satisfy the invariant.
LEMMA InitInv == Init => IInv
<1> SUFFICES ASSUME Init PROVE IInv
  OBVIOUS
<1>1. ~ServerOwned
  BY DEF Init, ServerOwned
<1>2. ServerOnTop
  BY <1>1, NoServerOnTop
<1> QED
  BY <1>1, <1>2, InitType DEF Init, IInv, NoHttpBeforeServe,
     DependenciesInOrder, DrainInOrder, ServerClosing, Running

\* Requests come and go: only the connections and the handlers change.
LEMMA HttpInv == ASSUME IInv, Http PROVE IInv'
<1> PICK c \in Conns : \/ Accept(c) \/ StartRequest(c) \/ AcquireDB(c)
                       \/ FinishRequest(c) \/ TimeoutRequest(c)
                       \/ FinishDetached(c) \/ ConnEnds(c)
  BY DEF Http
<1>1. UNCHANGED <<pc, owned, useDB, expired, db, tracing, inShutdown, serve,
                  reqCancel>>
  BY DEF Accept, StartRequest, AcquireDB, FinishRequest, TimeoutRequest,
         FinishDetached, ConnEnds, runVars, cfgVars, srvVars
<1>2. TypeOK /\ TypeOK'
  BY HttpType DEF IInv
<1>3. ServerOnTop' /\ DependenciesInOrder'
  BY <1>1, StackUnchanged
     DEF IInv, DependenciesInOrder, DependenciesUp, ServerClosing
<1>4. NoHttpBeforeServe'
  BY <1>1, <1>2 DEF IInv, NoHttpBeforeServe, Accept, StartRequest, AcquireDB,
     FinishRequest, TimeoutRequest, FinishDetached, ConnEnds, TypeOK
<1>5. DrainInOrder'
  <2> USE <1>1, <1>2 DEF IInv, DrainInOrder, ServerClosing, Running, TypeOK
  <2>1. CASE Accept(c) BY <2>1 DEF Accept
  <2>2. CASE StartRequest(c) BY <2>2 DEF StartRequest
  <2>3. CASE AcquireDB(c) BY <2>3 DEF AcquireDB
  <2>4. CASE FinishRequest(c) BY <2>4 DEF FinishRequest, afterResponse
  <2>5. CASE TimeoutRequest(c) BY <2>5 DEF TimeoutRequest, afterResponse
  <2>6. CASE FinishDetached(c) BY <2>6 DEF FinishDetached
  <2>7. CASE ConnEnds(c) BY <2>7 DEF ConnEnds
  <2> QED BY <2>1, <2>2, <2>3, <2>4, <2>5, <2>6, <2>7
<1> QED
  BY <1>2, <1>3, <1>4, <1>5 DEF IInv

\* The Serve goroutine: it begins to serve only a server not shutting down.
LEMMA ServingInv == ASSUME IInv, Serving PROVE IInv'
<1>1. UNCHANGED <<pc, owned, useDB, expired, db, tracing, inShutdown,
                  reqCancel, conn, handler>>
  BY DEF Serving, ServeStart, ServeClosed, ServeFails, ServeReturns, runVars,
         cfgVars, srvVars, httpVars
<1>2. /\ serve # "none" /\ serve' # "none"
      /\ serve' = "serving" => ~inShutdown
  BY DEF Serving, ServeStart, ServeClosed, ServeFails, ServeReturns
<1>3. TypeOK /\ TypeOK'
  BY ServingType DEF IInv
<1>4. ServerOnTop' /\ DependenciesInOrder'
  BY <1>1, <1>2, StackUnchanged
     DEF IInv, DependenciesInOrder, DependenciesUp, ServerClosing
<1>5. NoHttpBeforeServe'
  BY <1>2 DEF NoHttpBeforeServe
<1>6. DrainInOrder'
  BY <1>1, <1>2 DEF IInv, DrainInOrder, ServerClosing, Running
<1> QED
  BY <1>3, <1>4, <1>5, <1>6 DEF IInv

\* Startup: the server comes last, when its dependencies are up.
LEMMA StartupInv == ASSUME IInv, Startup PROVE IInv'
<1>1. TypeOK /\ TypeOK'
  BY StartupType DEF IInv
<1>2. /\ UNCHANGED <<useDB, expired, inShutdown, conn, handler>>
      /\ pc \in {"ready", "open", "run", "newTracing", "newServer", "wait"}
      /\ pc' \in {"open", "run", "newTracing", "newServer", "wait", "close",
                  "returned"}
  BY DEF Startup, RunFirst, OpenOK, OpenFails, RunWait, ListenOK, ListenFails,
         TracingOK, TracingFails, ServerOK, ServerFails, Wait, returnWith,
         cfgVars, srvVars, httpVars
<1>3. DrainInOrder'
  <2>1. reqCancel => reqCancel'
    BY DEF Startup, RunFirst, OpenOK, OpenFails, RunWait, ListenOK,
           ListenFails, TracingOK, TracingFails, ServerOK, ServerFails, Wait
  <2> QED
    BY <1>1, <1>2, <2>1 DEF IInv, DrainInOrder, ServerClosing, Running, TypeOK
<1> USE <1>1, <1>2 DEF IInv, NoHttpBeforeServe, DependenciesInOrder,
                       DependenciesUp, ServerClosing, cfgVars, srvVars,
                       httpVars
<1>4. pc # "wait" => serve = "none" /\ ~ServerOwned
  OBVIOUS
<1>5. CASE RunFirst BY <1>3, <1>4, <1>5, StackUnchanged DEF RunFirst
<1>6. CASE OpenOK
  <2>1. ~ServerOwned'
    <3>1. /\ owned' = Append(owned, "database")
          /\ owned \in Seq(Resources) /\ ~ServerOwned
      BY <1>4, <1>6 DEF OpenOK, add, TypeOK
    <3>2. "database" \in Resources /\ "database" # "HTTPServer"
      BY DEF Resources
    <3> QED
      BY <3>1, <3>2, PushOther
  <2> QED BY <1>3, <1>4, <1>6, <2>1, NoServerOnTop DEF OpenOK
<1>7. CASE OpenFails
  BY <1>3, <1>4, <1>7, StackUnchanged DEF OpenFails, returnWith
<1>8. CASE RunWait
  BY <1>3, <1>4, <1>8, StackUnchanged DEF RunWait, returnWith
<1>9. CASE ListenOK
  <2>1. ~ServerOwned'
    <3>1. /\ owned' = Append(owned, "HTTPListener")
          /\ owned \in Seq(Resources) /\ ~ServerOwned
      BY <1>4, <1>9 DEF ListenOK, add, TypeOK
    <3>2. "HTTPListener" \in Resources /\ "HTTPListener" # "HTTPServer"
      BY DEF Resources
    <3> QED
      BY <3>1, <3>2, PushOther
  <2> QED BY <1>3, <1>4, <1>9, <2>1, NoServerOnTop DEF ListenOK
<1>10. CASE ListenFails
  BY <1>3, <1>4, <1>10, StackUnchanged DEF ListenFails, returnWith
<1>11. CASE TracingOK
  <2>1. ~ServerOwned'
    <3>1. /\ owned' = Append(owned, "tracing")
          /\ owned \in Seq(Resources) /\ ~ServerOwned
      BY <1>4, <1>11 DEF TracingOK, add, TypeOK
    <3>2. "tracing" \in Resources /\ "tracing" # "HTTPServer"
      BY DEF Resources
    <3> QED
      BY <3>1, <3>2, PushOther
  <2> QED BY <1>3, <1>4, <1>11, <2>1, NoServerOnTop DEF TracingOK
<1>12. CASE TracingFails
  BY <1>3, <1>4, <1>12, StackUnchanged DEF TracingFails, returnWith
<1>13. CASE ServerOK
  <2>1. ServerOwned' /\ ServerOnTop'
    BY <1>4, <1>13, PushServer DEF ServerOK, add, TypeOK, ServerOnTop
  <2> QED BY <1>3, <1>4, <1>13, <2>1 DEF ServerOK
<1>14. CASE ServerFails
  BY <1>3, <1>4, <1>14, StackUnchanged DEF ServerFails, returnWith
<1>15. CASE Wait BY <1>3, <1>15, StackUnchanged DEF Wait, returnWith
<1> QED
  BY <1>5, <1>6, <1>7, <1>8, <1>9, <1>10, <1>11, <1>12, <1>13, <1>14, <1>15
     DEF Startup

\* Cleanup: the server goes first, and leaves no request uncancelled behind.
LEMMA CleanupInv == ASSUME IInv, Cleanup PROVE IInv'
<1>1. TypeOK /\ TypeOK'
  BY CleanupType DEF IInv
<1> USE <1>1 DEF IInv, NoHttpBeforeServe, DependenciesInOrder, DrainInOrder,
                 DependenciesUp, ServerClosing, Running, cfgVars, srvVars,
                 httpVars
<1>2. CASE CloseDone
  <2>1. ~ServerOwned
    BY <1>2 DEF CloseDone, ServerOwned
  <2> QED BY <1>2, <2>1, StackUnchanged DEF CloseDone
<1>3. CASE CloseServer
  <2>1. ServerOwned /\ ~ServerOwned'
    BY <1>3, PopNoServer, ServerOnTopAt DEF CloseServer, TypeOK
  <2> QED BY <1>3, <2>1, NoServerOnTop DEF CloseServer
<1>4. CASE ShutdownListeners BY <1>4, StackUnchanged DEF ShutdownListeners
<1>5. CASE ShutdownPoll
  <2>1. /\ pc = "drain" /\ pc' \in {"polled", "join"}
        /\ UNCHANGED <<owned, useDB, db, tracing, inShutdown, serve, reqCancel,
                       handler>>
    BY <1>5 DEF ShutdownPoll
  <2>2. ServerOnTop' /\ DependenciesInOrder' /\ NoHttpBeforeServe'
    <3>1. \A c \in Conns : conn[c] = "none" => conn'[c] = "none"
      BY <1>5 DEF ShutdownPoll
    <3> QED BY <2>1, <3>1, StackUnchanged
  <2>3. \A c \in Conns : conn[c] = "active" => conn'[c] = "active"
    BY <1>5 DEF ShutdownPoll
  <2>4. pc' = "join" => \A c \in Conns : conn'[c] \in {"none", "closed"}
    BY <1>5 DEF ShutdownPoll, TypeOK
  <2>5. DrainInOrder'
    BY <2>1, <2>3, <2>4
  <2> QED BY <2>2, <2>5
<1>6. CASE ShutdownRetry BY <1>6, StackUnchanged DEF ShutdownRetry
<1>7. CASE ShutdownExpired BY <1>7, StackUnchanged DEF ShutdownExpired
<1>8. CASE ForceClose BY <1>8, StackUnchanged DEF ForceClose
<1>9. CASE JoinServe BY <1>9, StackUnchanged DEF JoinServe
<1>10. CASE CloseTracing
  <2>1. ~ServerOwned /\ ~ServerOwned'
    BY <1>10, PopNoServer, OtherOnTop DEF CloseTracing, TypeOK
  <2> QED BY <1>10, <2>1, NoServerOnTop DEF CloseTracing
<1>11. CASE TracingStopped BY <1>11, StackUnchanged DEF TracingStopped
<1>12. CASE TracingExpired BY <1>12, StackUnchanged DEF TracingExpired
<1>13. CASE CloseListener
  <2>1. ~ServerOwned /\ ~ServerOwned'
    BY <1>13, PopNoServer, OtherOnTop DEF CloseListener, TypeOK
  <2> QED BY <1>13, <2>1, NoServerOnTop DEF CloseListener
<1>14. CASE ClosePool
  <2>1. ~ServerOwned /\ ~ServerOwned'
    BY <1>14, PopNoServer, OtherOnTop DEF ClosePool, TypeOK
  <2> QED BY <1>14, <2>1, NoServerOnTop DEF ClosePool
<1>15. CASE PoolJoined BY <1>15, StackUnchanged DEF PoolJoined
<1>16. CASE PoolExpired BY <1>16, StackUnchanged DEF PoolExpired
<1> QED
  BY <1>2, <1>3, <1>4, <1>5, <1>6, <1>7, <1>8, <1>9, <1>10, <1>11, <1>12,
     <1>13, <1>14, <1>15, <1>16 DEF Cleanup

\* The signal, the clock and the pool's goroutine.
LEMMA EnvironmentInv ==
  ASSUME IInv, Signal \/ Expire \/ PoolCloses \/ RunAgain \/ UNCHANGED vars
  PROVE  IInv'
<1>1. /\ UNCHANGED <<pc, owned, useDB, tracing, inShutdown, serve, reqCancel,
                     conn, handler>>
      /\ expired => expired'
      /\ db = "open" => db' = "open"
  BY DEF Signal, Expire, PoolCloses, RunAgain, vars, runVars, cfgVars,
         srvVars, httpVars
<1>2. TypeOK'
  <2> USE DEF IInv, TypeOK, runVars, cfgVars, srvVars, httpVars
  <2>1. CASE Signal BY <2>1 DEF Signal
  <2>2. CASE Expire BY <2>2 DEF Expire
  <2>3. CASE PoolCloses BY <2>3 DEF PoolCloses
  <2>4. CASE RunAgain BY <2>4, LifecycleAssumption DEF RunAgain
  <2>5. CASE UNCHANGED vars BY <2>5 DEF vars
  <2> QED BY <2>1, <2>2, <2>3, <2>4, <2>5
<1> QED
  BY <1>1, <1>2, StackUnchanged DEF IInv, NoHttpBeforeServe,
     DependenciesInOrder, DrainInOrder, DependenciesUp, ServerClosing, Running

\* Every step keeps the invariant.
LEMMA NextInv == IInv /\ [Next]_vars => IInv'
  BY StartupInv, CleanupInv, ServingInv, HttpInv, EnvironmentInv
     DEF Next, Stopped

-----------------------------------------------------------------------------
(* The theorems.                                                            *)

\* No closer of a dependency runs while a request that was not cancelled is
\* still being served.
THEOREM DependenciesKept == Spec => []DependenciesOutliveRequests
<1>1. IInv => DependenciesOutliveRequests
  BY DEF IInv, DependenciesOutliveRequests, NoHttpBeforeServe,
     DependenciesInOrder, DependenciesUp, Running
<1> QED
  BY InitInv, NextInv, <1>1, PTL DEF Spec

\* The drain is graceful: no running request is cut off before the deadline.
THEOREM DrainIsGraceful == Spec => CutOnlyAtDeadline
<1>1. IInv /\ [Next]_vars => [aborted' # aborted => expired]_vars
  <2> SUFFICES ASSUME IInv, Next, aborted' # aborted PROVE expired
    OBVIOUS
  <2>1. ShutdownExpired \/ ForceClose \/ JoinServe
    BY DEF Next, Startup, RunFirst, OpenOK, OpenFails, RunWait, ListenOK,
       ListenFails, TracingOK, TracingFails, ServerOK, ServerFails, Wait,
       Cleanup, CloseDone, CloseServer, ShutdownListeners, ShutdownPoll,
       ShutdownRetry, CloseTracing, TracingStopped, TracingExpired,
       CloseListener, ClosePool, PoolJoined, PoolExpired, Serving, ServeStart,
       ServeClosed, ServeFails, ServeReturns, Http, Accept, StartRequest,
       AcquireDB, FinishRequest, TimeoutRequest, FinishDetached, ConnEnds,
       Signal, Expire, PoolCloses, RunAgain, Stopped, vars
  <2>2. CASE ShutdownExpired BY <2>2 DEF ShutdownExpired
  <2>3. CASE ForceClose BY <2>3 DEF ForceClose, IInv, DrainInOrder
  <2>4. CASE JoinServe
    <3>1. ~reqCancel => Running = {}
      BY <2>4 DEF JoinServe, IInv, DrainInOrder, Running
    <3> QED BY <2>4, <3>1 DEF JoinServe
  <2> QED BY <2>1, <2>2, <2>3, <2>4
<1> QED
  BY InitInv, NextInv, <1>1, PTL DEF Spec, CutOnlyAtDeadline

-----------------------------------------------------------------------------
(* What Run leaves behind, and what it says about it: the second invariant.  *)

\* name is in the stack of closers.
Owned(name) == \E i \in 1..Len(owned) : owned[i] = name

\* What is acquired has its closer in the stack, or the closer is running.
Releasable ==
  /\ pc \in {"ready", "returned"} => owned = <<>>
  /\ listener = "open" => Owned("HTTPListener")
  /\ tracing = "live" => Owned("tracing") \/ pc = "tracing"
  /\ db = "open" => Owned("database")
  /\ serve \in {"none", "returned"} \/ ServerOwned \/ ServerClosing

\* No connection is there before the server, and none after its closer.
Quieted ==
  \/ ServerOwned \/ pc \in {"shutdown", "drain", "polled", "force"}
  \/ \A c \in Conns : conn[c] \in {"none", "closed"}

\* What goes wrong is in the result, or the closer that reports it is to come.
Reported ==
  /\ pc = "force" \/ aborted # {} => "shutdown" \in err
  /\ db = "closing" => pc = "pool" \/ "closeDatabase" \in err
  /\ faults \ {"serve"} \subseteq err
  /\ "serve" \in faults =>
       \/ "serve" \in err \/ serve = "failing"
       \/ serve = "returned" /\ serveErr = "failed" /\ (ServerOwned \/ ServerClosing)

\* What is in the result went wrong, or the deadline has passed, or the trace
\* exporter was asked to start after the signal.
Justified ==
  /\ serve = "failing" \/ serveErr = "failed" => "serve" \in faults
  /\ ~expired => err \subseteq faults \cup (IF useOTLP THEN {"newTracing"} ELSE {})

Outcome == Releasable /\ Quieted /\ Reported /\ Justified

\* Registering a closer adds its name and no other.
LEMMA PushOwned ==
  ASSUME owned \in Seq(Resources), NEW name \in Resources, owned' = Append(owned, name)
  PROVE  \A x : Owned(x)' <=> Owned(x) \/ x = name
<1>1. /\ Len(owned') = Len(owned) + 1 /\ Len(owned) \in Nat
      /\ owned'[Len(owned) + 1] = name
      /\ \A i \in 1..Len(owned) : owned'[i] = owned[i]
  OBVIOUS
<1> QED
  BY <1>1 DEF Owned

\* Running a closer takes away its name and no other.
LEMMA PopOwned ==
  ASSUME owned \in Seq(Resources), owned # <<>>, pop
  PROVE  \A x : x # top => (Owned(x)' <=> Owned(x))
<1> DEFINE n == Len(owned)
<1>1. /\ n \in Nat \ {0} /\ Len(owned') = n - 1
      /\ \A i \in 1..n - 1 : owned'[i] = owned[i]
  <2>1. n \in Nat \ {0}
    OBVIOUS
  <2>2. ASSUME NEW i \in 1..n - 1 PROVE owned'[i] = owned[i]
    BY <2>1 DEF pop
  <2>3. Len(owned') = n - 1
    <3> DEFINE m == n - 1
    <3>1. m \in Nat /\ \A i \in 1..m : owned[i] \in Resources
      BY <2>1
    <3>2. owned' = SubSeq(owned, 1, m)
      BY DEF pop
    <3> HIDE DEF m
    <3>3. Len(SubSeq(owned, 1, m)) = IF 1 <= m THEN m - 1 + 1 ELSE 0
      BY <3>1, SubSeqProperties
    <3>4. (IF 1 <= m THEN m - 1 + 1 ELSE 0) = m
      BY <3>1
    <3>5. Len(owned') = m
      BY <3>2, <3>3, <3>4, Zenon
    <3> QED
      BY <3>5 DEF m
  <2> QED
    BY <2>1, <2>2, <2>3, Zenon
<1> HIDE DEF n
<1> QED
  BY <1>1 DEF Owned, top, n

\* Leaving the stack alone leaves the names alone.
LEMMA SameOwned ==
  ASSUME owned' = owned PROVE \A x : Owned(x)' <=> Owned(x)
  BY DEF Owned

\* An empty stack has no names.
LEMMA EmptyOwned ==
  ASSUME owned = <<>> PROVE \A x : ~Owned(x)
  BY DEF Owned

\* The initial states satisfy the second invariant.
LEMMA InitOutcome == Init => Outcome
  BY DEF Init, Outcome, Releasable, Quieted, Reported, Justified

\* Requests change only the connections, and none lives outside the server's
\* time.
LEMMA HttpOutcome == ASSUME IInv, Outcome, Http PROVE Outcome'
<1> PICK c \in Conns : \/ Accept(c) \/ StartRequest(c) \/ AcquireDB(c)
                       \/ FinishRequest(c) \/ TimeoutRequest(c)
                       \/ FinishDetached(c) \/ ConnEnds(c)
  BY DEF Http
<1>1. UNCHANGED <<pc, owned, useOTLP, expired, db, listener, tracing, inShutdown, serve,
                  serveErr, reqCancel, err, faults, aborted>>
  BY DEF Accept, StartRequest, AcquireDB, FinishRequest, TimeoutRequest,
         FinishDetached, ConnEnds, runVars, cfgVars, srvVars
<1>2. Releasable' /\ Reported' /\ Justified'
  BY <1>1, StackUnchanged, SameOwned
     DEF Outcome, Releasable, Reported, Justified, ServerClosing
<1>3. Quieted'
  <2>1. CASE ServerOwned \/ pc \in {"shutdown", "drain", "polled", "force"}
    BY <1>1, <2>1, StackUnchanged DEF Quieted
  <2>2. CASE /\ ~ServerOwned /\ pc \notin {"shutdown", "drain", "polled", "force"}
             /\ \A d \in Conns : conn[d] \in {"none", "closed"}
    <3>1. serve # "serving"
      BY <2>2 DEF Outcome, Releasable, ServerClosing, IInv, DrainInOrder
    <3>2. conn[c] \in {"none", "closed"} /\ conn \in [Conns -> {"none", "new", "idle", "active", "closed"}]
      BY <2>2 DEF IInv, TypeOK
    <3>3. \A d \in Conns : conn'[d] \in {"none", "closed"}
      BY <2>2, <3>1, <3>2 DEF Accept, StartRequest, AcquireDB, FinishRequest,
         TimeoutRequest, FinishDetached, ConnEnds, afterResponse
    <3> QED BY <3>3 DEF Quieted
  <2> QED BY <2>1, <2>2 DEF Outcome, Quieted
<1> QED
  BY <1>2, <1>3 DEF Outcome

\* The Serve goroutine: its failure is remembered until its closer reports it.
LEMMA ServingOutcome == ASSUME IInv, Outcome, Serving PROVE Outcome'
<1>1. /\ UNCHANGED <<pc, owned, useOTLP, expired, db, tracing, inShutdown, reqCancel,
                     conn, err, aborted>>
      /\ listener' \in {listener, "closed"}
  BY DEF Serving, ServeStart, ServeClosed, ServeFails, ServeReturns, runVars,
         cfgVars, srvVars, httpVars
<1>2. serve \notin {"none", "returned"} /\ (ServerOwned \/ ServerClosing)
  BY DEF Serving, ServeStart, ServeClosed, ServeFails, ServeReturns, Outcome, Releasable
<1>3. Releasable' /\ Quieted'
  BY <1>1, <1>2, StackUnchanged, SameOwned DEF Outcome, Releasable, Quieted, ServerClosing
<1>4. Reported' /\ Justified'
  <2>1. CASE ServeStart \/ ServeClosed
    BY <1>1, <1>2, <2>1, StackUnchanged
       DEF ServeStart, ServeClosed, Outcome, Reported, Justified, ServerClosing
  <2>2. CASE ServeFails
    BY <1>1, <2>2 DEF ServeFails, Outcome, Reported, Justified
  <2>3. CASE ServeReturns
    BY <1>1, <1>2, <2>3, StackUnchanged
       DEF ServeReturns, Outcome, Reported, Justified, ServerClosing
  <2> QED BY <2>1, <2>2, <2>3 DEF Serving
<1> QED
  BY <1>3, <1>4 DEF Outcome

\* The signal, the clock and the pool's goroutine.
LEMMA EnvironmentOutcome ==
  ASSUME IInv, Outcome, Signal \/ Expire \/ PoolCloses \/ RunAgain \/ UNCHANGED vars
  PROVE  Outcome'
<1>1. /\ UNCHANGED <<pc, owned, useOTLP, listener, tracing, serve, serveErr, conn, err,
                     faults, aborted>>
      /\ ~expired' => ~expired
      /\ db' = db \/ db' = "closed"
  BY DEF Signal, Expire, PoolCloses, RunAgain, vars, runVars, cfgVars,
         srvVars, httpVars
<1> QED
  BY <1>1, StackUnchanged, SameOwned
     DEF Outcome, Releasable, Quieted, Reported, Justified, ServerClosing

\* Startup: every acquisition is followed by its closer, every failure returned.
LEMMA StartupOutcome == ASSUME IInv, Outcome, Startup PROVE Outcome'
<1>1. owned \in Seq(Resources)
  BY DEF IInv, TypeOK
<1>2. (ServerOwned <=> Owned("HTTPServer")) /\ (ServerOwned' <=> Owned("HTTPServer")')
  BY DEF ServerOwned, Owned
<1>3. pc # "wait" => serve = "none" /\ \A c \in Conns : conn[c] \in {"none", "closed"}
  BY DEF Startup, RunFirst, OpenOK, OpenFails, RunWait, ListenOK, ListenFails,
         TracingOK, TracingFails, ServerOK, ServerFails, Wait, IInv,
         DependenciesInOrder, NoHttpBeforeServe
<1> USE <1>3 DEF Outcome, Releasable, Quieted, Reported, Justified, ServerClosing, cfgVars,
                 srvVars, httpVars
<1>4. CASE RunFirst BY <1>4, <1>2, SameOwned DEF RunFirst, returnWith
<1>5. CASE OpenOK
  <2>1. owned' = Append(owned, "database") /\ "database" \in Resources
    BY <1>5 DEF OpenOK, add, Resources
  <2>2. \A x : Owned(x)' <=> Owned(x) \/ x = "database"
    BY <1>1, <2>1, PushOwned
  <2> QED BY <1>2, <1>5, <2>2 DEF OpenOK
<1>6. CASE OpenFails BY <1>6, <1>2, SameOwned DEF OpenFails, returnWith
<1>7. CASE RunWait BY <1>7, <1>2, SameOwned DEF RunWait, returnWith
<1>8. CASE ListenOK
  <2>1. owned' = Append(owned, "HTTPListener") /\ "HTTPListener" \in Resources
    BY <1>8 DEF ListenOK, add, Resources
  <2>2. \A x : Owned(x)' <=> Owned(x) \/ x = "HTTPListener"
    BY <1>1, <2>1, PushOwned
  <2> QED BY <1>2, <1>8, <2>2 DEF ListenOK
<1>9. CASE ListenFails BY <1>9, <1>2, SameOwned DEF ListenFails, returnWith
<1>10. CASE TracingOK
  <2>1. owned' = Append(owned, "tracing") /\ "tracing" \in Resources
    BY <1>10 DEF TracingOK, add, Resources
  <2>2. \A x : Owned(x)' <=> Owned(x) \/ x = "tracing"
    BY <1>1, <2>1, PushOwned
  <2> QED BY <1>2, <1>10, <2>2 DEF TracingOK
<1>11. CASE TracingFails BY <1>11, <1>2, SameOwned DEF TracingFails, returnWith
<1>12. CASE ServerOK
  <2>1. owned' = Append(owned, "HTTPServer") /\ "HTTPServer" \in Resources
    BY <1>12 DEF ServerOK, add, Resources
  <2>2. \A x : Owned(x)' <=> Owned(x) \/ x = "HTTPServer"
    BY <1>1, <2>1, PushOwned
  <2> QED BY <1>2, <1>12, <2>2 DEF ServerOK
<1>13. CASE ServerFails BY <1>13, <1>2, SameOwned DEF ServerFails, returnWith
<1>14. CASE Wait BY <1>14, <1>2, SameOwned DEF Wait, returnWith
<1> QED
  BY <1>4, <1>5, <1>6, <1>7, <1>8, <1>9, <1>10, <1>11, <1>12, <1>13, <1>14 DEF Startup

\* Cleanup: a closer gives up what it closes and reports what goes wrong.
LEMMA CleanupOutcome == ASSUME IInv, Outcome, Cleanup PROVE Outcome'
<1>1. owned \in Seq(Resources)
  BY DEF IInv, TypeOK
<1>2. (ServerOwned <=> Owned("HTTPServer")) /\ (ServerOwned' <=> Owned("HTTPServer")')
  BY DEF ServerOwned, Owned
<1>3. ServerOwned => pc \in {"wait", "close"}
  BY DEF IInv, DependenciesInOrder
<1> USE DEF Outcome, Releasable, Quieted, Reported, Justified, ServerClosing, cfgVars,
            srvVars, httpVars
<1>4. CASE CloseDone BY <1>4, <1>2, SameOwned, EmptyOwned DEF CloseDone
<1>5. CASE CloseServer
  <2>1. \A x : x # "HTTPServer" => (Owned(x)' <=> Owned(x))
    BY <1>1, <1>5, PopOwned DEF CloseServer
  <2> QED BY <1>2, <1>5, <2>1 DEF CloseServer
<1>6. CASE ShutdownListeners BY <1>6, <1>2, <1>3, SameOwned DEF ShutdownListeners
<1>7. CASE ShutdownPoll
  <2>1. /\ pc = "drain" /\ pc' \in {"polled", "join"}
        /\ UNCHANGED <<owned, err, useOTLP, expired, db, listener, tracing, serve, serveErr,
                       faults, aborted>>
    BY <1>7 DEF ShutdownPoll
  <2>2. pc' = "join" => \A c \in Conns : conn'[c] \in {"none", "closed"}
    BY <1>7 DEF ShutdownPoll, IInv, TypeOK
  <2> QED BY <1>2, <1>3, <2>1, <2>2, SameOwned
<1>8. CASE ShutdownRetry BY <1>8, <1>2, <1>3, SameOwned DEF ShutdownRetry
<1>9. CASE ShutdownExpired BY <1>9, <1>2, <1>3, SameOwned DEF ShutdownExpired
<1>10. CASE ForceClose
  <2>1. \A c \in Conns : conn'[c] \in {"none", "closed"}
    BY <1>10 DEF ForceClose
  <2> QED BY <1>2, <1>3, <1>10, <2>1, SameOwned DEF ForceClose
<1>11. CASE JoinServe
  <2>1. ~reqCancel => Running = {}
    BY <1>11 DEF JoinServe, IInv, DrainInOrder, Running
  <2> QED BY <1>2, <1>3, <1>11, <2>1, SameOwned DEF JoinServe
<1>12. CASE CloseTracing
  <2>1. \A x : x # "tracing" => (Owned(x)' <=> Owned(x))
    BY <1>1, <1>12, PopOwned DEF CloseTracing
  <2> QED BY <1>2, <1>12, <2>1 DEF CloseTracing
<1>13. CASE TracingStopped BY <1>13, <1>2, <1>3, SameOwned DEF TracingStopped
<1>14. CASE TracingExpired BY <1>14, <1>2, <1>3, SameOwned DEF TracingExpired
<1>15. CASE CloseListener
  <2>1. \A x : x # "HTTPListener" => (Owned(x)' <=> Owned(x))
    BY <1>1, <1>15, PopOwned DEF CloseListener
  <2> QED BY <1>2, <1>15, <2>1 DEF CloseListener
<1>16. CASE ClosePool
  <2>1. \A x : x # "database" => (Owned(x)' <=> Owned(x))
    BY <1>1, <1>16, PopOwned DEF ClosePool
  <2> QED BY <1>2, <1>16, <2>1 DEF ClosePool
<1>17. CASE PoolJoined BY <1>17, <1>2, <1>3, SameOwned DEF PoolJoined
<1>18. CASE PoolExpired BY <1>18, <1>2, <1>3, SameOwned DEF PoolExpired
<1> QED
  BY <1>4, <1>5, <1>6, <1>7, <1>8, <1>9, <1>10, <1>11, <1>12, <1>13, <1>14, <1>15, <1>16, <1>17, <1>18 DEF Cleanup

\* Every step keeps the second invariant.
LEMMA NextOutcome == IInv /\ Outcome /\ [Next]_vars => Outcome'
  BY StartupOutcome, CleanupOutcome, ServingOutcome, HttpOutcome, EnvironmentOutcome
     DEF Next, Stopped

\* Both invariants hold always.
LEMMA OutcomeAlways == Spec => [](IInv /\ Outcome)
  BY InitInv, NextInv, InitOutcome, NextOutcome, PTL DEF Spec

\* Run returns only when everything it acquired was handed to its closer.
THEOREM ReleasedAlways == Spec => []ReleasedOnReturn
<1>1. IInv /\ Outcome => ReleasedOnReturn
  <2> SUFFICES ASSUME IInv, Outcome, pc = "returned"
               PROVE  /\ listener # "open" /\ tracing # "live" /\ db # "open"
                      /\ serve \in {"none", "returned"}
                      /\ \A c \in Conns : conn[c] \notin Live
    BY DEF ReleasedOnReturn
  <2>1. owned = <<>> /\ ~ServerClosing
    BY DEF Outcome, Releasable, ServerClosing
  <2>2. (\A x : ~Owned(x)) /\ ~ServerOwned
    BY <2>1, EmptyOwned DEF ServerOwned, Owned
  <2> QED BY <2>1, <2>2 DEF Outcome, Releasable, Quieted, Live
<1> QED
  BY <1>1, OutcomeAlways, PTL

\* Run returns nil only after a clean stop.
THEOREM NilIsClean == Spec => []NilMeansClean
<1>1. IInv /\ Outcome => NilMeansClean
  <2> SUFFICES ASSUME IInv, Outcome, pc = "returned", err = {}
               PROVE  db \in {"none", "closed"} /\ aborted = {}
    BY DEF NilMeansClean
  <2>1. db # "open"
    BY EmptyOwned DEF Outcome, Releasable
  <2>2. db # "closing" /\ aborted = {}
    BY DEF Outcome, Reported
  <2> QED BY <2>1, <2>2 DEF IInv, TypeOK
<1> QED
  BY <1>1, OutcomeAlways, PTL

\* No failure of startup, Serve or cleanup is swallowed.
THEOREM FailuresReported == Spec => []FailureReported
<1>1. IInv /\ Outcome => FailureReported
  <2> SUFFICES ASSUME IInv, Outcome, pc = "returned"
               PROVE  faults \subseteq err /\ (db = "closing" => "closeDatabase" \in err)
    BY DEF FailureReported
  <2>1. ~ServerOwned /\ ~ServerClosing
    BY DEF Outcome, Releasable, ServerClosing, ServerOwned
  <2>2. "serve" \in faults => "serve" \in err
    BY <2>1 DEF Outcome, Releasable, Reported
  <2> QED BY <2>2 DEF Outcome, Reported
<1> QED
  BY <1>1, OutcomeAlways, PTL

\* A stop without a failure, within the deadline, is reported as a clean one.
THEOREM NothingSpurious == Spec => []NoSpuriousFailure
<1>1. IInv /\ Outcome => NoSpuriousFailure
  BY DEF Outcome, Justified, NoSpuriousFailure
<1> QED
  BY <1>1, OutcomeAlways, PTL

=============================================================================
