------------------------------ MODULE Dashboard ------------------------------
(***************************************************************************)
(* The dashboard process (cmd/dashboard, internal/web): a lifecycle App    *)
(* over one service, a web server that shows the fix history, while the    *)
(* deployer of the same repository appends to it.                          *)
(*                                                                         *)
(* Composes Lifecycle and History.  net/http is external: Serve accepts    *)
(* until it fails or the server is shut down; Shutdown closes the listener *)
(* and waits for the requests in flight, as long as its context lets it.   *)
(* One request is followed at a time.                                      *)
(***************************************************************************)
EXTENDS Integers, Sequences

CONSTANTS
    MaxAppends, Sizes, MaxLine, PromptLimit     \* see History

ASSUME DashboardAssumption ==
    /\ MaxAppends \in Nat
    /\ Sizes \subseteq Nat \ {0}
    /\ MaxLine \in Nat \ {0}
    /\ PromptLimit \in Nat \ {0}

VARIABLES
    svc, ctxDone, interrupted, appPc, toStop, closed, errCh, errs,  \* Lifecycle
    file, sizes, status,    \* History
    startPc,    \* where main and Start are
    serve,      \* the listener and the goroutine that serves it
    inShutdown, \* Shutdown was called
    stopPc,     \* where Stop is
    request,    \* where handleDashboard is
    opened,     \* the entries that could be read when it opened the file
    page,       \* what it renders
    exit        \* exit code, or Alive

appVars == <<svc, ctxDone, interrupted, appPc, toStop, closed, errCh, errs>>
fileVars == <<file, sizes, status>>
requestVars == <<request, opened, page>>
vars == <<appVars, fileVars, startPc, serve, inShutdown, stopPc, requestVars, exit>>

L == INSTANCE Lifecycle WITH NumServices <- 1, NumClosers <- 0
H == INSTANCE History

server == 1
Alive == "alive"
Starting(at) == exit = Alive /\ svc[server] = "running" /\ startPc = at

Init ==
    /\ L!Init
    /\ H!Init
    /\ startPc = "main"
    /\ serve = "none"
    /\ inShutdown = FALSE
    /\ stopPc = "none"
    /\ request = "none"
    /\ opened = <<>>
    /\ page = <<>>
    /\ exit = Alive

\* The deployer appends to the history.
DeployerAppends ==
    /\ H!Next
    /\ UNCHANGED <<appVars, startPc, serve, inShutdown, stopPc, requestVars, exit>>

\* SIGINT or SIGTERM.
Signal ==
    /\ exit = Alive
    /\ L!Interrupt
    /\ UNCHANGED <<fileVars, startPc, serve, inShutdown, stopPc, requestVars, exit>>

\* NewServer fails to parse its templates.
NewServerFails ==
    /\ Starting("main")
    /\ exit' = "1"
    /\ UNCHANGED <<appVars, fileVars, startPc, serve, inShutdown, stopPc, requestVars>>

RegisterServer ==
    /\ Starting("main")
    /\ startPc' = "start"
    /\ UNCHANGED <<appVars, fileVars, serve, inShutdown, stopPc, requestVars, exit>>
-----------------------------------------------------------------------------
(* Start.                                                                  *)

\* s.server = &http.Server{...}
Publish ==
    /\ Starting("start")
    /\ startPc' = "listen"
    /\ UNCHANGED <<appVars, fileVars, serve, inShutdown, stopPc, requestVars, exit>>

ListenFails ==
    /\ Starting("listen")
    /\ startPc' = "returned"
    /\ L!StartFails(server)
    /\ UNCHANGED <<fileVars, serve, inShutdown, stopPc, requestVars, exit>>

Listen ==
    /\ Starting("listen")
    /\ startPc' = "log"
    /\ serve' = "listening"
    /\ UNCHANGED <<appVars, fileVars, inShutdown, stopPc, requestVars, exit>>

\* Logs that it listens and starts the goroutine.
GoServe ==
    /\ Starting("log")
    /\ startPc' = "select"
    /\ UNCHANGED <<appVars, fileVars, serve, inShutdown, stopPc, requestVars, exit>>

\* The goroutine calls Serve, which returns at once after a Shutdown.
Serve ==
    /\ exit = Alive
    /\ startPc \in {"select", "returned"}
    /\ serve = "listening"
    /\ serve' = IF inShutdown THEN "closed" ELSE "accepting"
    /\ UNCHANGED <<appVars, fileVars, startPc, inShutdown, stopPc, requestVars, exit>>

\* Accept fails for good: its error is on its way to Start.
AcceptFails ==
    /\ exit = Alive
    /\ serve = "accepting"
    /\ serve' = "failed"
    /\ UNCHANGED <<appVars, fileVars, startPc, inShutdown, stopPc, requestVars, exit>>

\* Mutation: Start waits for the server alone.
StartReturnsCtxNever == FALSE /\ UNCHANGED vars

\* The case <-ctx.Done() of the select.
StartReturnsCtx ==
    /\ Starting("select")
    /\ ctxDone
    /\ startPc' = "returned"
    /\ L!StartFails(server)
    /\ UNCHANGED <<fileVars, serve, inShutdown, stopPc, requestVars, exit>>

\* The case <-errCh: an error of Serve, or nil once it was shut down.
StartReturnsServe ==
    /\ Starting("select")
    /\ startPc' = "returned"
    /\ \/ serve = "failed" /\ L!StartFails(server)
       \/ serve = "closed" /\ L!StartReturnsNil(server)
    /\ UNCHANGED <<fileVars, serve, inShutdown, stopPc, requestVars, exit>>
-----------------------------------------------------------------------------
(* Stop.                                                                   *)

\* Whether Stop finds s.server set.  Nothing orders the two but the mutex of
\* the logger, which Start takes after it has the listener and App takes
\* before it calls Stop: until then the read races with the write.
FindsServer ==
    IF startPc = "start" THEN {FALSE}
    ELSE IF serve = "none" \/ startPc = "log" THEN BOOLEAN ELSE {TRUE}

StopFindsNothing ==
    /\ exit = Alive
    /\ FALSE \in FindsServer
    /\ stopPc = "none"
    /\ stopPc' = "nothing"
    /\ UNCHANGED errs
    /\ L!StopNext
    /\ UNCHANGED <<fileVars, startPc, serve, inShutdown, requestVars, exit>>

\* Shutdown closes the listener it knows, and Serve returns.
Shutdown ==
    /\ exit = Alive
    /\ appPc = "stop"
    /\ TRUE \in FindsServer
    /\ stopPc = "none"
    /\ stopPc' = "shutdown"
    /\ inShutdown' = TRUE
    /\ serve' = IF serve = "accepting" THEN "closed" ELSE serve
    /\ UNCHANGED <<appVars, fileVars, startPc, requestVars, exit>>

\* Mutation: the requests in flight are not waited for.
ShutdownReturnsAtOnce ==
    /\ exit = Alive
    /\ stopPc = "shutdown"
    /\ stopPc' = "idle"
    /\ UNCHANGED errs
    /\ L!StopNext
    /\ UNCHANGED <<fileVars, startPc, serve, inShutdown, requestVars, exit>>

\* No request is left.
ShutdownReturns ==
    /\ exit = Alive
    /\ stopPc = "shutdown"
    /\ request = "none"
    /\ stopPc' = "idle"
    /\ UNCHANGED errs
    /\ L!StopNext
    /\ UNCHANGED <<fileVars, startPc, serve, inShutdown, requestVars, exit>>

\* The shutdown timeout of App passes first: Stop returns an error.
ShutdownTimesOut ==
    /\ exit = Alive
    /\ stopPc = "shutdown"
    /\ stopPc' = "timedout"
    /\ L!StopNext
    /\ errs' # errs
    /\ UNCHANGED <<fileVars, startPc, serve, inShutdown, requestVars, exit>>
-----------------------------------------------------------------------------
(* App.Run and main.                                                       *)

AppSteps ==
    /\ exit = Alive
    /\ startPc # "main"
    /\ \/ L!Goroutine(server)
       \/ L!BeginShutdown
       \/ L!WaitGoroutines
       \/ L!CloseErrCh
       \/ L!Collect
    /\ UNCHANGED <<fileVars, startPc, serve, inShutdown, stopPc, requestVars, exit>>

Exit ==
    /\ exit = Alive
    /\ appPc = "returned"
    /\ exit' = IF errs = {} THEN "0" ELSE "1"
    /\ UNCHANGED <<appVars, fileVars, startPc, serve, inShutdown, stopPc, requestVars>>
-----------------------------------------------------------------------------
(* A request.                                                              *)

\* It is accepted, and handleDashboard opens the history.
Accept ==
    /\ exit = Alive
    /\ serve = "accepting"
    /\ request = "none"
    /\ request' = "read"
    /\ opened' = H!Items
    /\ UNCHANGED <<appVars, fileVars, startPc, serve, inShutdown, stopPc, page, exit>>

\* Reads to the end of the file, which may grow meanwhile, but not change.
ReadHistory ==
    /\ exit = Alive
    /\ request = "read"
    /\ request' = "render"
    /\ page' = H!Page
    /\ UNCHANGED <<appVars, fileVars, startPc, serve, inShutdown, stopPc, opened, exit>>

\* The page is written, if the client takes it.
Respond ==
    /\ exit = Alive
    /\ request = "render"
    /\ request' = "none"
    /\ opened' = <<>>
    /\ page' = <<>>
    /\ UNCHANGED <<appVars, fileVars, startPc, serve, inShutdown, stopPc, exit>>
-----------------------------------------------------------------------------
Start == Publish \/ ListenFails \/ Listen \/ GoServe \/ StartReturnsCtx \/ StartReturnsServe
Stop == StopFindsNothing \/ Shutdown \/ ShutdownReturns \/ ShutdownTimesOut
Process == NewServerFails \/ RegisterServer \/ Start \/ Serve \/ Stop \/ AppSteps \/ Exit
Request == Accept \/ ReadHistory \/ Respond

Next == DeployerAppends \/ Signal \/ AcceptFails \/ Process \/ Request

Spec == Init /\ [][Next]_vars

\* The scheduler runs main and every goroutine, and the shutdown timer fires.
\* No request has to end.
FairSpec == Spec /\ WF_vars(Process)
-----------------------------------------------------------------------------
\* A page shows each fix once, the newest first, and misses none that could be
\* read when the file was opened, however the deployer goes on writing; except
\* that an append that was cut short makes one of itself and the next entry.
PageHonest ==
    request = "render" =>
      /\ \A j, k \in 1..Len(page) : j < k => page[j] > page[k]
      /\ \A j \in 1..Len(opened) :
           status[opened[j]] = "whole" => \E k \in 1..Len(page) : page[k] = opened[j]

\* See History.
LossIsBounded == H!LossIsBounded
PromptIsFresh == H!PromptIsFresh

\* The dashboard exits with 0 only after a signal, and then has cut off no
\* request, unless Stop came before Start had published the server.
GracefulExit ==
    exit = "0" => interrupted /\ (stopPc = "nothing" \/ request = "none")

\* A signal ends the process, even while a client does not take its page, and
\* even if Stop came too early to shut the server down; so does a server that
\* cannot listen.
Exits == (ctxDone \/ startPc = "returned") ~> exit # Alive

\* The App behaves in the process as it does alone.
LifecycleImplemented == L!Spec
=============================================================================
