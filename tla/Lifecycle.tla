----------------------------- MODULE Lifecycle -----------------------------
(***************************************************************************)
(* One bootstrap runtime from App.Run to its return value                   *)
(* (internal/bootstrap/app.go, api.go, resources.go, worker.go,             *)
(* indexer.go).  Four kinds of goroutine interleave:                        *)
(*                                                                          *)
(*   - the Run goroutine: acquire the resources in order, wait, then run    *)
(*     the registered closers in reverse order under ONE deadline;          *)
(*   - the Serve goroutine started by serveHTTP;                            *)
(*   - one goroutine per HTTP connection, and the handler goroutine that    *)
(*     http.TimeoutHandler runs beside it;                                  *)
(*   - the goroutine the "database" closer starts for pgxpool's Close.      *)
(*                                                                          *)
(* net/http, pgxpool and the trace exporter are external: they are modelled *)
(* by the part of their behaviour this code relies on.                      *)
(***************************************************************************)
EXTENDS Naturals, Sequences, FiniteSets

CONSTANTS
  Conns,      \* the HTTP connections a client may open
  MaxReruns   \* bound on the further calls of Run that are modelled

ASSUME LifecycleAssumption ==
  /\ IsFiniteSet(Conns)
  /\ MaxReruns \in Nat

Resources == {"database", "HTTPListener", "tracing", "HTTPServer"}

\* The errors Run can join, named for the step or the closer they come from.
Errors == {"open", "listen", "newTracing", "newServer", "serve",
           "shutdown", "closeListener", "closeTracing", "closeDatabase"}

VARIABLES
  kind,      \* which a.run the App was built with: "api" or "wait"
  useDB,     \* DatabaseURL # ""
  useOTLP,   \* OTLPEndpoint # ""
  cancelled, \* the context given to Run (SIGINT/SIGTERM) is done
  reruns,    \* calls of Run rejected because the App already ran
  pc,        \* where the Run goroutine is
  owned,     \* resources.entries, the stack of registered closers
  err,       \* the errors joined into Run's result so far
  expired,   \* the one shutdown deadline has passed
  db,        \* the connection pool
  listener,  \* the TCP listener
  tracing,   \* the tracer provider
  inShutdown,\* http.Server.inShutdown
  serve,     \* the Serve goroutine; "closing"/"failing": Serve has left its
             \* accept loop, "returned": serveErr is set and done is closed
  serveErr,  \* what Serve returned
  reqCancel, \* cancelRequests was called
  conn,      \* net/http's state of each connection
  handler,   \* the handler goroutine of each connection
  holds,     \* the connections whose handler holds a pool connection
  faults,    \* history: the failures of the environment that happened
  aborted    \* history: connections whose running request was cut off

runVars  == <<pc, owned, err, reruns>>
cfgVars  == <<kind, useDB, useOTLP>>
srvVars  == <<inShutdown, serve, serveErr>>
httpVars == <<conn, handler, holds>>
vars == <<runVars, cfgVars, cancelled, expired, db, listener, tracing,
          srvVars, reqCancel, httpVars, faults, aborted>>

PCs == {"ready", "open", "run", "newTracing", "newServer", "wait", "close",
        "shutdown", "drain", "polled", "force", "join", "tracing", "pool",
        "returned"}

TypeOK ==
  /\ kind \in {"api", "wait"} /\ useDB \in BOOLEAN /\ useOTLP \in BOOLEAN
  /\ cancelled \in BOOLEAN /\ expired \in BOOLEAN
  /\ reruns \in 0..MaxReruns
  /\ pc \in PCs
  /\ owned \in Seq(Resources)
  /\ err \in SUBSET Errors
  /\ db \in {"none", "open", "closing", "closed"}
  /\ listener \in {"none", "open", "closed"}
  /\ tracing \in {"none", "live", "stopped"}
  /\ inShutdown \in BOOLEAN
  /\ serve \in {"none", "spawned", "serving", "closing", "failing", "returned"}
  /\ serveErr \in {"nil", "closed", "failed"}
  /\ reqCancel \in BOOLEAN
  /\ conn \in [Conns -> {"none", "new", "idle", "active", "closed"}]
  /\ handler \in [Conns -> {"none", "running", "detached"}]
  /\ holds \in SUBSET Conns
  /\ faults \in SUBSET Errors
  /\ aborted \in SUBSET Conns

Init ==
  /\ kind \in {"api", "wait"} /\ useDB \in BOOLEAN /\ useOTLP \in BOOLEAN
  /\ cancelled = FALSE /\ expired = FALSE
  /\ reruns = 0 /\ pc = "ready" /\ owned = <<>> /\ err = {}
  /\ db = "none" /\ listener = "none" /\ tracing = "none"
  /\ inShutdown = FALSE /\ serve = "none" /\ serveErr = "nil"
  /\ reqCancel = FALSE
  /\ conn = [c \in Conns |-> "none"]
  /\ handler = [c \in Conns |-> "none"]
  /\ holds = {} /\ faults = {} /\ aborted = {}

-----------------------------------------------------------------------------
(* Startup: App.Run and a.run, one action per acquisition.                  *)

\* Mutant: resources.close runs the closers in the order of registration.
addFirst(name) == owned' = <<name>> \o owned

\* resources.add: push a closer right after the acquisition.
add(name) == owned' = Append(owned, name)

\* Mutant: the error of Run's body is shadowed.
returnShadowed(e) == pc' = "close" /\ err' = err

\* return e from Run's body: the deferred cleanup starts the deadline.
returnWith(e) == pc' = "close" /\ err' = err \cup e

\* Run: a started App rejects every further call, before it looks at anything
\* else; the first call marks the App started even if it then does nothing.
RunFirst ==
  /\ pc = "ready"
  /\ pc' = IF cancelled THEN "returned" ELSE IF useDB THEN "open" ELSE "run"
  /\ UNCHANGED <<owned, err, reruns, cfgVars, cancelled, expired, db, listener,
                 tracing, srvVars, reqCancel, httpVars, faults, aborted>>

RunAgain ==
  /\ pc # "ready"
  /\ reruns < MaxReruns
  /\ reruns' = reruns + 1
  /\ UNCHANGED <<pc, owned, err, cfgVars, cancelled, expired, db, listener,
                 tracing, srvVars, reqCancel, httpVars, faults, aborted>>

\* database.Open succeeds (also when the signal arrives too late for it).
OpenOK ==
  /\ pc = "open"
  /\ db' = "open" /\ add("database") /\ pc' = "run"
  /\ UNCHANGED <<err, reruns, cfgVars, cancelled, expired, listener, tracing,
                 srvVars, reqCancel, httpVars, faults, aborted>>

\* database.Open fails: it has closed its own pool; once the context is
\* cancelled every failure counts as the cancellation.
OpenFails ==
  /\ pc = "open"
  /\ returnWith(IF cancelled THEN {} ELSE {"open"})
  /\ faults' = IF cancelled THEN faults ELSE faults \cup {"open"}
  /\ UNCHANGED <<owned, reruns, cfgVars, cancelled, expired, db, listener,
                 tracing, srvVars, reqCancel, httpVars, aborted>>

\* NewWorker's and NewIndexer's a.run: wait for the signal.
RunWait ==
  /\ pc = "run" /\ kind = "wait"
  /\ cancelled
  /\ returnWith({})
  /\ UNCHANGED <<owned, reruns, cfgVars, cancelled, expired, db, listener,
                 tracing, srvVars, reqCancel, httpVars, faults, aborted>>

\* NewAPI's a.run: ListenConfig.Listen.
ListenOK ==
  /\ pc = "run" /\ kind = "api"
  /\ listener' = "open" /\ add("HTTPListener") /\ pc' = "newTracing"
  /\ UNCHANGED <<err, reruns, cfgVars, cancelled, expired, db, tracing,
                 srvVars, reqCancel, httpVars, faults, aborted>>

\* Only the context's own error is taken for a cancellation here.
ListenFails ==
  /\ pc = "run" /\ kind = "api"
  /\ \/ cancelled /\ returnWith({}) /\ UNCHANGED faults
     \/ returnWith({"listen"}) /\ faults' = faults \cup {"listen"}
  /\ UNCHANGED <<owned, reruns, cfgVars, cancelled, expired, db, listener,
                 tracing, srvVars, reqCancel, httpVars, aborted>>

\* telemetry.NewTracing: without an endpoint it cannot fail; with one the
\* exporter's Start returns the context's error when the context is done.
TracingOK ==
  /\ pc = "newTracing"
  /\ ~(useOTLP /\ cancelled)
  /\ tracing' = "live" /\ add("tracing") /\ pc' = "newServer"
  /\ UNCHANGED <<err, reruns, cfgVars, cancelled, expired, db, listener,
                 srvVars, reqCancel, httpVars, faults, aborted>>

\* serveHTTP returns NewTracing's error as it is, cancelled or not.
TracingFails ==
  /\ pc = "newTracing" /\ useOTLP
  /\ returnWith({"newTracing"})
  /\ faults' = IF cancelled THEN faults ELSE faults \cup {"newTracing"}
  /\ UNCHANGED <<owned, reruns, cfgVars, cancelled, expired, db, listener,
                 tracing, srvVars, reqCancel, httpVars, aborted>>

\* httpserver.New, the "HTTPServer" closer, go server.Serve(listener).
ServerOK ==
  /\ pc = "newServer"
  /\ add("HTTPServer") /\ serve' = "spawned" /\ pc' = "wait"
  /\ UNCHANGED <<err, reruns, cfgVars, cancelled, expired, db, listener,
                 tracing, inShutdown, serveErr, reqCancel, httpVars, faults,
                 aborted>>

ServerFails ==
  /\ pc = "newServer"
  /\ reqCancel' = TRUE /\ returnWith({"newServer"})
  /\ faults' = faults \cup {"newServer"}
  /\ UNCHANGED <<owned, reruns, cfgVars, cancelled, expired, db, listener,
                 tracing, srvVars, httpVars, aborted>>

\* Mutant: serveHTTP waits for the signal only.
WaitSignal ==
  /\ pc = "wait" /\ cancelled
  /\ returnWith({})
  /\ UNCHANGED <<owned, reruns, cfgVars, cancelled, expired, db, listener,
                 tracing, srvVars, reqCancel, httpVars, faults, aborted>>

\* serveHTTP's select: the signal, or Serve ended by itself.  It returns nil
\* either way; the closer reports what Serve returned.
Wait ==
  /\ pc = "wait"
  /\ cancelled \/ serve = "returned"
  /\ returnWith({})
  /\ UNCHANGED <<owned, reruns, cfgVars, cancelled, expired, db, listener,
                 tracing, srvVars, reqCancel, httpVars, faults, aborted>>

-----------------------------------------------------------------------------
(* Cleanup: resources.close runs the closers in reverse order of their      *)
(* registration; every error is joined and none stops the loop.             *)

top == owned[Len(owned)]

pop == owned' = SubSeq(owned, 1, Len(owned) - 1)

\* The cleanup loop with nothing left to close: Run returns.
CloseDone ==
  /\ pc = "close" /\ owned = <<>>
  /\ pc' = "returned"
  /\ UNCHANGED <<owned, err, reruns, cfgVars, cancelled, expired, db, listener,
                 tracing, srvVars, reqCancel, httpVars, faults, aborted>>

\* "HTTPServer": Shutdown marks the server and closes the listener it tracks
\* (none, if the Serve goroutine has not got that far yet).
CloseServer ==
  /\ pc = "close" /\ owned # <<>> /\ top = "HTTPServer"
  /\ pop /\ pc' = "shutdown"
  /\ inShutdown' = TRUE
  /\ listener' = IF serve = "serving" THEN "closed" ELSE listener
  /\ UNCHANGED <<err, reruns, cfgVars, cancelled, expired, db, tracing, serve,
                 serveErr, reqCancel, httpVars, faults, aborted>>

\* Shutdown waits until no Serve loop tracks a listener any more.
ShutdownListeners ==
  /\ pc = "shutdown" /\ serve # "serving"
  /\ pc' = "drain"
  /\ UNCHANGED <<owned, err, reruns, cfgVars, cancelled, expired, db, listener,
                 tracing, srvVars, reqCancel, httpVars, faults, aborted>>

\* Shutdown's poll closes the idle connections, and the new ones that sent
\* nothing for five seconds (old); it returns nil when no other is left.
ShutdownPoll ==
  /\ pc = "drain"
  /\ \E old \in SUBSET {c \in Conns : conn[c] = "new"} :
       conn' = [c \in Conns |-> IF conn[c] = "idle" \/ c \in old THEN "closed"
                                ELSE conn[c]]
  /\ pc' = IF \E c \in Conns : conn'[c] \in {"new", "active"} THEN "polled"
           ELSE "join"
  /\ UNCHANGED <<owned, err, reruns, cfgVars, cancelled, expired, db, listener,
                 tracing, srvVars, reqCancel, handler, holds, faults, aborted>>

ShutdownRetry ==
  /\ pc = "polled"
  /\ pc' = "drain"
  /\ UNCHANGED <<owned, err, reruns, cfgVars, cancelled, expired, db, listener,
                 tracing, srvVars, reqCancel, httpVars, faults, aborted>>

Running == {c \in Conns : handler[c] = "running"}

\* Mutant: Shutdown is given a context that is already done.
ShutdownAtOnce ==
  /\ pc = "polled"
  /\ pc' = "force" /\ err' = err \cup {"shutdown"}
  /\ reqCancel' = TRUE /\ aborted' = aborted \cup Running
  /\ UNCHANGED <<owned, reruns, cfgVars, cancelled, expired, db, listener,
                 tracing, srvVars, httpVars, faults>>

\* Shutdown gives up at the deadline: the closer cancels the requests ...
ShutdownExpired ==
  /\ pc = "polled" /\ expired
  /\ pc' = "force" /\ err' = err \cup {"shutdown"}
  /\ reqCancel' = TRUE /\ aborted' = aborted \cup Running
  /\ UNCHANGED <<owned, reruns, cfgVars, cancelled, expired, db, listener,
                 tracing, srvVars, httpVars, faults>>

\* ... and server.Close drops every connection the server still tracks.
ForceClose ==
  /\ pc = "force"
  /\ pc' = "join"
  /\ conn' = [c \in Conns |-> IF conn[c] = "none" THEN "none" ELSE "closed"]
  /\ aborted' = aborted \cup Running
  /\ UNCHANGED <<owned, err, reruns, cfgVars, cancelled, expired, db, listener,
                 tracing, srvVars, reqCancel, handler, holds, faults>>

\* Mutant: the closer does not wait for done.
JoinNothing ==
  /\ pc = "join"
  /\ err' = IF serveErr = "failed" THEN err \cup {"serve"} ELSE err
  /\ reqCancel' = TRUE
  /\ aborted' = IF reqCancel THEN aborted ELSE aborted \cup Running
  /\ pc' = "close"
  /\ UNCHANGED <<owned, reruns, cfgVars, cancelled, expired, db, listener,
                 tracing, srvVars, httpVars, faults>>

\* <-done, the verdict on serveErr, and the deferred cancelRequests.
JoinServe ==
  /\ pc = "join" /\ serve = "returned"
  /\ err' = IF serveErr = "failed" THEN err \cup {"serve"} ELSE err
  /\ reqCancel' = TRUE
  /\ aborted' = IF reqCancel THEN aborted ELSE aborted \cup Running
  /\ pc' = "close"
  /\ UNCHANGED <<owned, reruns, cfgVars, cancelled, expired, db, listener,
                 tracing, srvVars, httpVars, faults>>

\* "tracing": provider.Shutdown exports what is buffered.
CloseTracing ==
  /\ pc = "close" /\ owned # <<>> /\ top = "tracing"
  /\ pop /\ pc' = "tracing"
  /\ UNCHANGED <<err, reruns, cfgVars, cancelled, expired, db, listener,
                 tracing, srvVars, reqCancel, httpVars, faults, aborted>>

\* The export ends in time, well or with the collector's error.
TracingStopped ==
  /\ pc = "tracing"
  /\ pc' = "close" /\ tracing' = "stopped"
  /\ \/ UNCHANGED <<err, faults>>
     \/ /\ useOTLP
        /\ err' = err \cup {"closeTracing"}
        /\ faults' = faults \cup {"closeTracing"}
  /\ UNCHANGED <<owned, reruns, cfgVars, cancelled, expired, db, listener,
                 srvVars, reqCancel, httpVars, aborted>>

\* provider.Shutdown returns at the deadline whatever the collector does.
TracingExpired ==
  /\ pc = "tracing" /\ expired
  /\ pc' = "close" /\ tracing' = "stopped"
  /\ err' = IF useOTLP THEN err \cup {"closeTracing"} ELSE err
  /\ UNCHANGED <<owned, reruns, cfgVars, cancelled, expired, db, listener,
                 srvVars, reqCancel, httpVars, faults, aborted>>

\* Mutant: a listener that is closed already is an error.
CloseListenerStrict ==
  /\ pc = "close" /\ owned # <<>> /\ top = "HTTPListener"
  /\ pop /\ UNCHANGED pc
  /\ listener' = "closed"
  /\ err' = IF listener = "closed" THEN err \cup {"closeListener"} ELSE err
  /\ UNCHANGED <<reruns, cfgVars, cancelled, expired, db, tracing, srvVars,
                 reqCancel, httpVars, faults, aborted>>

\* "HTTPListener": a listener the server has closed already is no error.
CloseListener ==
  /\ pc = "close" /\ owned # <<>> /\ top = "HTTPListener"
  /\ pop /\ UNCHANGED pc
  /\ listener' = "closed"
  /\ \/ UNCHANGED <<err, faults>>
     \/ /\ listener = "open"
        /\ err' = err \cup {"closeListener"}
        /\ faults' = faults \cup {"closeListener"}
  /\ UNCHANGED <<reruns, cfgVars, cancelled, expired, db, tracing, srvVars,
                 reqCancel, httpVars, aborted>>

\* "database": the pool is closed by a goroutine of its own.
ClosePool ==
  /\ pc = "close" /\ owned # <<>> /\ top = "database"
  /\ pop /\ pc' = "pool" /\ db' = "closing"
  /\ UNCHANGED <<err, reruns, cfgVars, cancelled, expired, listener, tracing,
                 srvVars, reqCancel, httpVars, faults, aborted>>

PoolJoined ==
  /\ pc = "pool" /\ db = "closed"
  /\ pc' = "close"
  /\ UNCHANGED <<owned, err, reruns, cfgVars, cancelled, expired, db, listener,
                 tracing, srvVars, reqCancel, httpVars, faults, aborted>>

\* Mutant: the closer returns nil at the deadline.
PoolExpiredSilent ==
  /\ pc = "pool" /\ expired
  /\ pc' = "close"
  /\ UNCHANGED <<owned, err, reruns, cfgVars, cancelled, expired, db, listener,
                 tracing, srvVars, reqCancel, httpVars, faults, aborted>>

\* Mutant: the closer has no deadline of its own.
PoolUnbounded ==
  /\ pc = "pool" /\ expired /\ db = "closed"
  /\ pc' = "close" /\ err' = err \cup {"closeDatabase"}
  /\ UNCHANGED <<owned, reruns, cfgVars, cancelled, expired, db, listener,
                 tracing, srvVars, reqCancel, httpVars, faults, aborted>>

\* The closer leaves the goroutine behind at the deadline.
PoolExpired ==
  /\ pc = "pool" /\ expired
  /\ pc' = "close" /\ err' = err \cup {"closeDatabase"}
  /\ UNCHANGED <<owned, reruns, cfgVars, cancelled, expired, db, listener,
                 tracing, srvVars, reqCancel, httpVars, faults, aborted>>

-----------------------------------------------------------------------------
(* The other goroutines and the environment.                                *)

\* SIGINT or SIGTERM.
Signal ==
  /\ ~cancelled /\ cancelled' = TRUE
  /\ UNCHANGED <<runVars, cfgVars, expired, db, listener, tracing, srvVars,
                 reqCancel, httpVars, faults, aborted>>

\* ShutdownTimeout passes; the deadline exists only during the cleanup.
Expire ==
  /\ pc \in {"close", "shutdown", "drain", "polled", "force", "join",
             "tracing", "pool"}
  /\ ~expired /\ expired' = TRUE
  /\ UNCHANGED <<runVars, cfgVars, cancelled, db, listener, tracing, srvVars,
                 reqCancel, httpVars, faults, aborted>>

\* pgxpool.Pool.Close refuses new acquisitions at once and ends when every
\* acquired connection is back.
PoolCloses ==
  /\ db = "closing" /\ holds = {}
  /\ db' = "closed"
  /\ UNCHANGED <<runVars, cfgVars, cancelled, expired, listener, tracing,
                 srvVars, reqCancel, httpVars, faults, aborted>>

\* http.Server.Serve: a server that is shutting down is refused, and the
\* listener closed; otherwise the listener is tracked and the loop begins.
ServeStart ==
  /\ serve = "spawned"
  /\ IF inShutdown THEN serve' = "closing" /\ listener' = "closed"
                   ELSE serve' = "serving" /\ UNCHANGED listener
  /\ UNCHANGED <<runVars, cfgVars, cancelled, expired, db, tracing, inShutdown,
                 serveErr, reqCancel, httpVars, faults, aborted>>

\* Accept fails because Shutdown closed the listener.
ServeClosed ==
  /\ serve = "serving" /\ listener = "closed"
  /\ serve' = "closing"
  /\ UNCHANGED <<runVars, cfgVars, cancelled, expired, db, listener, tracing,
                 inShutdown, serveErr, reqCancel, httpVars, faults, aborted>>

\* Accept fails for good on an open listener.
ServeFails ==
  /\ serve = "serving" /\ listener = "open"
  /\ serve' = "failing" /\ listener' = "closed"
  /\ faults' = faults \cup {"serve"}
  /\ UNCHANGED <<runVars, cfgVars, cancelled, expired, db, tracing, inShutdown,
                 serveErr, reqCancel, httpVars, aborted>>

\* serveErr = server.Serve(listener); close(done)
ServeReturns ==
  /\ serve \in {"closing", "failing"}
  /\ serve' = "returned"
  /\ serveErr' = IF serve = "failing" THEN "failed" ELSE "closed"
  /\ UNCHANGED <<runVars, cfgVars, cancelled, expired, db, listener, tracing,
                 inShutdown, reqCancel, httpVars, faults, aborted>>

\* The loop registers an accepted connection before its next Accept, so one
\* may still appear after Shutdown closed the listener.
Accept(c) ==
  /\ serve = "serving" /\ conn[c] = "none"
  /\ conn' = [conn EXCEPT ![c] = "new"]
  /\ UNCHANGED <<runVars, cfgVars, cancelled, expired, db, listener, tracing,
                 srvVars, reqCancel, handler, holds, faults, aborted>>

\* A request on a live connection: TimeoutHandler runs the handler in a
\* goroutine.  At most one left-behind handler per connection is modelled.
StartRequest(c) ==
  /\ conn[c] \in {"new", "idle"} /\ handler[c] = "none"
  /\ conn' = [conn EXCEPT ![c] = "active"]
  /\ handler' = [handler EXCEPT ![c] = "running"]
  /\ UNCHANGED <<runVars, cfgVars, cancelled, expired, db, listener, tracing,
                 srvVars, reqCancel, holds, faults, aborted>>

\* The handler takes a pool connection (the readiness probe's queries).
AcquireDB(c) ==
  /\ handler[c] = "running" /\ ~reqCancel
  /\ db = "open" /\ c \notin holds
  /\ holds' = holds \cup {c}
  /\ UNCHANGED <<runVars, cfgVars, cancelled, expired, db, listener, tracing,
                 srvVars, reqCancel, conn, handler, faults, aborted>>

\* The response is complete: no keep-alive once the server is shutting down.
afterResponse(c) ==
  IF conn[c] = "active" /\ ~inShutdown THEN {"idle", "closed"} ELSE {"closed"}

FinishRequest(c) ==
  /\ handler[c] = "running"
  /\ handler' = [handler EXCEPT ![c] = "none"]
  /\ holds' = holds \ {c}
  /\ \E s \in afterResponse(c) : conn' = [conn EXCEPT ![c] = s]
  /\ UNCHANGED <<runVars, cfgVars, cancelled, expired, db, listener, tracing,
                 srvVars, reqCancel, faults, aborted>>

\* TimeoutHandler answers 503 and cancels the handler's context, but the
\* handler goroutine, and what it holds, stays until it notices.
TimeoutRequest(c) ==
  /\ handler[c] = "running"
  /\ handler' = [handler EXCEPT ![c] = "detached"]
  /\ \E s \in afterResponse(c) : conn' = [conn EXCEPT ![c] = s]
  /\ UNCHANGED <<runVars, cfgVars, cancelled, expired, db, listener, tracing,
                 srvVars, reqCancel, holds, faults, aborted>>

FinishDetached(c) ==
  /\ handler[c] = "detached"
  /\ handler' = [handler EXCEPT ![c] = "none"]
  /\ holds' = holds \ {c}
  /\ UNCHANGED <<runVars, cfgVars, cancelled, expired, db, listener, tracing,
                 srvVars, reqCancel, conn, faults, aborted>>

\* The client, IdleTimeout or ReadHeaderTimeout ends a quiet connection.
ConnEnds(c) ==
  /\ conn[c] \in {"new", "idle"}
  /\ conn' = [conn EXCEPT ![c] = "closed"]
  /\ UNCHANGED <<runVars, cfgVars, cancelled, expired, db, listener, tracing,
                 srvVars, reqCancel, handler, holds, faults, aborted>>

\* Run has returned and no goroutine is left with anything to do.
Stopped ==
  /\ pc = "returned"
  /\ UNCHANGED vars

-----------------------------------------------------------------------------
Startup ==
  \/ RunFirst \/ OpenOK \/ OpenFails \/ RunWait \/ ListenOK \/ ListenFails
  \/ TracingOK \/ TracingFails \/ ServerOK \/ ServerFails \/ Wait

Cleanup ==
  \/ CloseDone \/ CloseServer \/ ShutdownListeners \/ ShutdownPoll
  \/ ShutdownRetry \/ ShutdownExpired \/ ForceClose \/ JoinServe
  \/ CloseTracing \/ TracingStopped \/ TracingExpired \/ CloseListener
  \/ ClosePool \/ PoolJoined \/ PoolExpired

Serving == ServeStart \/ ServeClosed \/ ServeFails \/ ServeReturns

Http ==
  \E c \in Conns :
    \/ Accept(c) \/ StartRequest(c) \/ AcquireDB(c) \/ FinishRequest(c)
    \/ TimeoutRequest(c) \/ FinishDetached(c) \/ ConnEnds(c)

Next ==
  \/ Startup \/ Cleanup \/ Serving \/ Http
  \/ Signal \/ Expire \/ PoolCloses \/ RunAgain \/ Stopped

Spec == Init /\ [][Next]_vars

\* The scheduler runs every runnable goroutine and timers fire.  Nothing is
\* assumed of the signal, the clients, the handlers or the trace collector:
\* a handler may hold its pool connection for ever.
Fairness ==
  /\ WF_vars(Startup)
  /\ WF_vars(CloseDone \/ CloseServer \/ CloseTracing \/ CloseListener
             \/ ClosePool)
  /\ WF_vars(ShutdownListeners) /\ WF_vars(ShutdownPoll)
  /\ SF_vars(ShutdownExpired)
  /\ WF_vars(ForceClose) /\ WF_vars(JoinServe)
  /\ WF_vars(TracingExpired) /\ WF_vars(PoolExpired)
  /\ WF_vars(Expire)
  /\ WF_vars(ServeStart) /\ WF_vars(ServeClosed) /\ WF_vars(ServeReturns)

FairSpec == Spec /\ Fairness

-----------------------------------------------------------------------------
(* Properties.                                                              *)

Live == {"new", "idle", "active"}

\* A request that is still being served, and whose context the closer has not
\* cancelled, has its dependencies: no closer registered before the "HTTP
\* server" one (tracing, database) runs ahead of the draining.
DependenciesOutliveRequests ==
  \A c \in Running : ~reqCancel => tracing = "live" /\ (useDB => db = "open")

\* On every path out of Run, failed startups included, everything that was
\* acquired has been handed to its closer: no listener, Serve goroutine,
\* connection or tracer survives, and the pool accepts nothing any more.
ReleasedOnReturn ==
  pc = "returned" =>
    /\ listener # "open" /\ tracing # "live" /\ db # "open"
    /\ serve \in {"none", "returned"}
    /\ \A c \in Conns : conn[c] \notin Live

\* "runtime stopped" without an error is the truth: Run returns nil only if
\* the pool is really closed and no running request was cut off.
NilMeansClean ==
  pc = "returned" /\ err = {} => db \in {"none", "closed"} /\ aborted = {}

\* No failure of startup, Serve or cleanup is swallowed on the way through
\* the select, the closers and errors.Join.
FailureReported ==
  pc = "returned" =>
    /\ faults \subseteq err
    /\ db = "closing" => "closeDatabase" \in err

\* Without a failure and within the deadline a stop is a clean stop, wherever
\* the signal hits, except for what the trace exporter makes of it.
NoSpuriousFailure ==
  pc = "returned" /\ faults = {} /\ ~expired =>
    err \subseteq (IF useOTLP THEN {"newTracing"} ELSE {})

\* Run's comment, "Cancellation is a normal stop": no exception.
CancellationIsNormal ==
  pc = "returned" /\ faults = {} /\ ~expired => err = {}

\* Draining is graceful: a running request is cut off only once the shutdown
\* deadline has passed.
CutOnlyAtDeadline == [][aborted' # aborted => expired]_vars

\* The signal ends Run, whatever the handlers and the collector do.
StopReturns == cancelled ~> pc = "returned"

\* A Serve that fails by itself ends Run as well: nobody waits for a signal.
ServeFailureStops == serve = "failing" ~> pc = "returned"

-----------------------------------------------------------------------------
(* The inductive invariant behind DependenciesOutliveRequests and            *)
(* CutOnlyAtDeadline (proved in LifecycleProofs).                           *)

\* Nothing exists on the HTTP side before the Serve goroutine does.
NoHttpBeforeServe ==
  serve = "none" => \A c \in Conns : conn[c] = "none" /\ handler[c] = "none"

\* The "HTTPServer" closer is the last one registered.
ServerOnTop ==
  \A i \in 1..Len(owned) : owned[i] = "HTTPServer" => i = Len(owned)

ServerOwned == \E i \in 1..Len(owned) : owned[i] = "HTTPServer"

\* The "HTTPServer" closer is running.
ServerClosing == pc \in {"shutdown", "drain", "polled", "force", "join"}

DependenciesUp == tracing = "live" /\ (useDB => db = "open")

\* Dependencies are up from their acquisition to the end of that closer, which
\* cancels the requests.
DependenciesInOrder ==
  /\ pc \in {"run", "newTracing", "newServer"} => (useDB => db = "open")
  /\ pc \in {"ready", "open", "run", "newTracing", "newServer"} =>
       serve = "none"
  /\ pc = "newServer" => tracing = "live"
  /\ pc = "wait" => ServerOwned
  /\ ServerOwned => pc \in {"wait", "close"} /\ serve # "none"
  /\ ServerOwned \/ ServerClosing => DependenciesUp
  /\ serve # "none" => ServerOwned \/ ServerClosing \/ reqCancel

\* While Shutdown runs nothing new is served, and a request that is neither
\* answered nor cancelled keeps its connection, hence Shutdown, waiting.
DrainInOrder ==
  /\ ServerClosing => inShutdown
  /\ pc \in {"drain", "polled", "force", "join"} => serve # "serving"
  /\ pc = "force" => expired /\ reqCancel
  /\ pc = "join" /\ ~reqCancel => \A c \in Conns : conn[c] \in {"none", "closed"}
  /\ \A c \in Running : ~reqCancel => conn[c] = "active"

IInv ==
  /\ TypeOK /\ NoHttpBeforeServe /\ ServerOnTop /\ DependenciesInOrder
  /\ DrainInOrder

=============================================================================
