-------------------------- MODULE DashboardProofs --------------------------
(***************************************************************************)
(* The dashboard process implements the lifecycle App it is built on, so   *)
(* what is proved of the App holds of the dashboard, whatever its requests *)
(* do and whatever the deployer writes meanwhile; it exits gracefully; and *)
(* what its readers and those of the deployer make of the fix history is   *)
(* what was recorded, however the file was left.                           *)
(*                                                                         *)
(* The scanner is a recursive function over the file, so the last part     *)
(* rests on an induction over the units read.  It is carried out within    *)
(* one state: the invariant that steps preserve, FileInv, speaks of the    *)
(* file alone, and implies in every state what a scan of it yields.        *)
(***************************************************************************)
EXTENDS Dashboard, FiniteSetTheorems, SequenceTheorems, WellFoundedInduction, TLAPS

\* Every step of the process is a step of App.Run or leaves it alone.
LEMMA LifecycleStep == [Next]_vars => [L!Next]_(L!vars)
<1> SUFFICES ASSUME [Next]_vars PROVE L!Next \/ UNCHANGED L!vars
  OBVIOUS
<1>1. server \in L!Service
  BY DEF L!Service, server
<1>2. CASE Signal
  BY <1>2 DEF Signal, L!Next
<1>3. CASE ListenFails \/ StartReturnsCtx \/ StartReturnsServe
  BY <1>1, <1>3 DEF ListenFails, StartReturnsCtx, StartReturnsServe, L!Next, L!StartEnds
<1>4. CASE StopFindsNothing \/ ShutdownReturns \/ ShutdownTimesOut
  BY <1>4 DEF StopFindsNothing, ShutdownReturns, ShutdownTimesOut, L!Next, L!Run
<1>5. CASE AppSteps
  BY <1>1, <1>5 DEF AppSteps, L!Next, L!Run
<1>6. CASE \/ NewServerFails \/ RegisterServer \/ Publish \/ Listen \/ GoServe \/ Serve
           \/ Shutdown \/ Exit \/ DeployerAppends \/ AcceptFails \/ Request \/ UNCHANGED vars
  <2>1. UNCHANGED appVars
    BY <1>6 DEF NewServerFails, RegisterServer, Publish, Listen, GoServe, Serve, Shutdown, Exit,
                DeployerAppends, AcceptFails, Request, Accept, ReadHistory, Respond, vars
  <2> QED BY <2>1 DEF appVars, L!vars, L!appVars
<1> QED BY <1>2, <1>3, <1>4, <1>5, <1>6 DEF Next, Process, Start, Stop

\* The App behaves in the dashboard as it does alone.
THEOREM ImplementsLifecycle == Spec => LifecycleImplemented
<1>1. Init => L!Init
  BY DEF Init
<1> QED BY <1>1, LifecycleStep, PTL DEF Spec, LifecycleImplemented, L!Spec
-----------------------------------------------------------------------------
\* The App over its one service: past wg.Wait the server has returned, its
\* error is in the channel until Run returns it, and only an interrupt or a
\* reported error ends the context.
AppInv ==
    /\ svc \in [L!Service -> L!SvcState]
    /\ appPc \in {"wait", "stop", "close", "collect", "returned"}
    /\ toStop \in 0..1
    /\ appPc \in {"close", "collect", "returned"} => L!Joined(server) /\ toStop = 0
    /\ appPc # "returned" => /\ server \in errCh <=> svc[server] \in {"cancel", "reported"}
                             /\ <<"start", server>> \notin errs
    /\ appPc = "returned" => (<<"start", server>> \in errs <=> svc[server] = "reported")
    /\ ctxDone => interrupted \/ svc[server] = "reported"
    /\ appPc # "wait" => ctxDone

\* Stop is called once, and a Stop that gave up is never forgotten.
StopInv ==
    /\ toStop = 1 => stopPc \in {"none", "shutdown"}
    /\ toStop = 0 => stopPc \in {"nothing", "idle", "timedout"}
    /\ stopPc = "timedout" => errs # {}

\* From its call on, Shutdown lets no request in.
ShutdownInv ==
    /\ stopPc \in {"shutdown", "idle", "timedout"} => inShutdown
    /\ inShutdown => serve # "accepting"
    /\ stopPc = "idle" => request = "none"

\* The exit code is what main made of the result of App.Run.
ExitInv == exit = "0" => appPc = "returned" /\ errs = {}

\* A request survives the exit only if Stop gave up on it, which the App then
\* returns as an error: so the invariant follows Stop through the App.
IInv == AppInv /\ StopInv /\ ShutdownInv /\ ExitInv

\* Nothing has moved.
LEMMA InitHolds == Init => IInv
BY DEF Init, L!Init, L!Service, L!SvcState, IInv, AppInv, StopInv, ShutdownInv, ExitInv, Alive, server

\* A step of the App, whoever takes it.
LEMMA AppStep == AppInv /\ [L!Next]_(L!vars) => AppInv'
<1> SUFFICES ASSUME AppInv, L!Next \/ UNCHANGED L!vars PROVE AppInv'
  OBVIOUS
<1>0. 1 \in L!Service /\ 1 \in DOMAIN svc /\ \A i \in L!Service : i = 1
  BY DEF L!Service, AppInv
<1> USE DEF server
<1>1. CASE L!Interrupt
  BY <1>1 DEF L!Interrupt, L!appVars, L!Joined, AppInv
<1>2. CASE L!StartReturnsNil(1) \/ L!StartFails(1) \/ L!CheckCtx(1)
  <2>1. PICK from \in {"running", "returned"}, to \in {"stopped", "returned", "dropped", "send"} :
          svc[1] = from /\ svc' = [svc EXCEPT ![1] = to]
    BY <1>2 DEF L!StartReturnsNil, L!StartFails, L!CheckCtx, L!Goto
  <2>2. svc' \in [L!Service -> L!SvcState] /\ svc'[1] = to
    BY <1>0, <2>1 DEF AppInv, L!SvcState
  <2>3. UNCHANGED <<ctxDone, interrupted, appPc, toStop, closed, errCh, errs>>
    BY <1>2 DEF L!StartReturnsNil, L!StartFails, L!CheckCtx, L!appVars
  <2> QED BY <2>1, <2>2, <2>3 DEF AppInv, L!Joined
<1>3. CASE L!SendError(1)
  <2>1. svc[1] = "send" /\ svc' = [svc EXCEPT ![1] = "cancel"] /\ svc'[1] = "cancel"
    BY <1>0, <1>3 DEF L!SendError, L!Goto
  <2>2. svc' \in [L!Service -> L!SvcState]
    BY <1>0, <2>1 DEF AppInv, L!SvcState
  <2>3. appPc \in {"wait", "stop"}
    BY <2>1 DEF AppInv, L!Joined
  <2>4. errCh' = errCh \cup {1} /\ UNCHANGED <<ctxDone, interrupted, appPc, toStop, closed, errs>>
    BY <1>3, <2>3 DEF L!SendError
  <2> QED BY <2>1, <2>2, <2>3, <2>4 DEF AppInv, L!Joined
<1>4. CASE L!CancelOthers(1)
  <2>1. svc[1] = "cancel" /\ svc' = [svc EXCEPT ![1] = "reported"] /\ svc'[1] = "reported"
    BY <1>0, <1>4 DEF L!CancelOthers, L!Goto
  <2>2. svc' \in [L!Service -> L!SvcState]
    BY <1>0, <2>1 DEF AppInv, L!SvcState
  <2>3. appPc \in {"wait", "stop"}
    BY <2>1 DEF AppInv, L!Joined
  <2> QED BY <1>4, <2>1, <2>2, <2>3 DEF L!CancelOthers, L!appVars, AppInv, L!Joined
<1>5. CASE L!BeginShutdown \/ L!CloseErrCh
  BY <1>5 DEF L!BeginShutdown, L!CloseErrCh, AppInv, L!Joined
<1>6. CASE L!WaitGoroutines
  BY <1>0, <1>6 DEF L!WaitGoroutines, AppInv, L!Joined
<1>7. CASE L!StopNext
  <2>1. <<"start", 1>> \in errs' <=> <<"start", 1>> \in errs
    BY <1>7 DEF L!StopNext
  <2> QED BY <1>7, <2>1 DEF L!StopNext, AppInv, L!Joined
<1>8. CASE L!CloseNext
  <2>1. <<"start", 1>> \in errs' <=> <<"start", 1>> \in errs
    BY <1>8 DEF L!CloseNext
  <2> QED BY <1>8, <2>1 DEF L!CloseNext, AppInv, L!Joined
<1>9. CASE L!Collect
  <2>1. appPc = "collect" /\ errs' = errs \cup {<<"start", i>> : i \in errCh}
    BY <1>9 DEF L!Collect
  <2>2. <<"start", 1>> \in errs' <=> 1 \in errCh
    BY <2>1 DEF AppInv
  <2> QED BY <1>9, <2>1, <2>2 DEF L!Collect, AppInv, L!Joined
<1>10. CASE UNCHANGED L!vars
  BY <1>10 DEF L!vars, L!appVars, AppInv, L!Joined
<1> QED
  BY <1>0, <1>1, <1>2, <1>3, <1>4, <1>5, <1>6, <1>7, <1>8, <1>9, <1>10
  DEF L!Next, L!StartEnds, L!Goroutine, L!Run

\* The inductive step, one case per group of actions.
LEMMA StepHolds == IInv /\ [Next]_vars => IInv'
<1> SUFFICES ASSUME IInv, [Next]_vars PROVE IInv'
  OBVIOUS
<1>1. AppInv'
  BY AppStep, LifecycleStep DEF IInv
<1>2. CASE ListenFails \/ StartReturnsCtx \/ StartReturnsServe \/ Signal
  BY <1>1, <1>2 DEF ListenFails, StartReturnsCtx, StartReturnsServe, Signal, L!StartFails,
     L!StartReturnsNil, L!Interrupt, L!appVars, requestVars, Starting, IInv, StopInv, ShutdownInv, ExitInv
<1>3. CASE StopFindsNothing \/ ShutdownReturns \/ ShutdownTimesOut
  <2>1. /\ toStop = 1 /\ toStop' = 0 /\ appPc = "stop" /\ appPc' = "stop"
        /\ UNCHANGED <<serve, inShutdown, request, exit>>
    <3>1. L!StopNext /\ UNCHANGED <<serve, inShutdown, request, exit>>
      BY <1>3 DEF StopFindsNothing, ShutdownReturns, ShutdownTimesOut, requestVars
    <3>2. toStop > 0 /\ toStop' = toStop - 1 /\ appPc = "stop" /\ appPc' = "stop"
      BY <3>1 DEF L!StopNext
    <3> QED BY <3>1, <3>2 DEF IInv, AppInv
  <2>2. \/ stopPc' = "nothing"
        \/ stopPc = "shutdown" /\ stopPc' = "idle" /\ request = "none"
        \/ stopPc = "shutdown" /\ stopPc' = "timedout" /\ errs' # {}
    BY <1>3 DEF StopFindsNothing, ShutdownReturns, ShutdownTimesOut, L!StopNext
  <2> QED BY <1>1, <2>1, <2>2 DEF IInv, StopInv, ShutdownInv, ExitInv
<1>4. CASE AppSteps
  <2>1. /\ toStop' = toStop /\ (errs # {} => errs' # {})
        /\ UNCHANGED <<stopPc, serve, inShutdown, request, exit>> /\ exit = Alive
    BY <1>4 DEF AppSteps, L!Goroutine, L!CheckCtx, L!SendError, L!CancelOthers, L!BeginShutdown,
       L!WaitGoroutines, L!CloseErrCh, L!Collect, L!appVars, requestVars
  <2> QED BY <1>1, <2>1 DEF IInv, StopInv, ShutdownInv, ExitInv, Alive
<1>5. CASE Shutdown
  BY <1>1, <1>5 DEF Shutdown, appVars, requestVars, IInv, AppInv, StopInv, ShutdownInv, ExitInv
<1>6. CASE Serve \/ AcceptFails \/ Accept \/ ReadHistory \/ Respond
  BY <1>1, <1>6 DEF Serve, AcceptFails, Accept, ReadHistory, Respond, appVars, requestVars,
     IInv, StopInv, ShutdownInv, ExitInv
<1>7. CASE Exit
  BY <1>1, <1>7 DEF Exit, appVars, requestVars, IInv, StopInv, ShutdownInv, ExitInv
<1>8. CASE \/ NewServerFails \/ RegisterServer \/ Publish \/ Listen \/ GoServe
           \/ DeployerAppends \/ UNCHANGED vars
  BY <1>1, <1>8 DEF NewServerFails, RegisterServer, Publish, Listen, GoServe, DeployerAppends, vars,
     appVars, requestVars, IInv, StopInv, ShutdownInv, ExitInv
<1> QED
  BY <1>2, <1>3, <1>4, <1>5, <1>6, <1>7, <1>8 DEF Next, Process, Start, Stop, Request

-----------------------------------------------------------------------------
\* The strengthened invariant holds throughout.
THEOREM InductiveInvariant == Spec => []IInv
BY InitHolds, StepHolds, PTL DEF Spec

\* Exit code 0 means that a signal came and that no request was cut off: see
\* GracefulExit in Dashboard.
THEOREM ExitIsGraceful == Spec => []GracefulExit
<1>1. IInv => GracefulExit
  BY DEF IInv, AppInv, StopInv, ShutdownInv, ExitInv, L!Joined, GracefulExit
<1> QED BY <1>1, InductiveInvariant, PTL
-----------------------------------------------------------------------------
(* The file.                                                               *)

AppendStatus == {"writing", "whole", "cut"}

\* The units of the file: an append writes its entry's number, the newest yet,
\* and one entry's units are separated by no newline.
UnitsInv ==
    /\ status \in Seq(AppendStatus)
    /\ sizes \in Seq(Nat \ {0}) /\ Len(sizes) = Len(status)
    /\ file \in Seq(Nat)
    /\ \A k \in 1..Len(file) : file[k] <= H!Latest
    /\ \A j, k \in 1..Len(file) :
         j < k /\ file[j] # H!Newline /\ file[k] # H!Newline => file[j] <= file[k]
    /\ \A j, k, m \in 1..Len(file) :
         j < k /\ k < m /\ file[j] = file[m] /\ file[m] # H!Newline => file[k] # H!Newline

\* After unit p begins a line.
LineBegins(p) == p = 0 \/ file[p] = H!Newline

\* Entry i was written from unit p + 1 on, with its newline.
WholeAt(i, p) ==
    /\ p + sizes[i] < Len(file)
    /\ \A k \in (p + 1)..(p + sizes[i]) : file[k] = i
    /\ file[p + sizes[i] + 1] = H!Newline

\* The latest entry is all that follows unit p.
WritingAt(p) ==
    /\ Len(file) - p \in 1..sizes[H!Latest]
    /\ \A k \in 1..Len(file) : file[k] = H!Latest <=> k > p

\* Where each entry is: on a line of its own, unless that before it was cut.
PlacesInv ==
    /\ \A i \in 1..H!Latest :
         /\ status[i] = "writing" => i = H!Latest
         /\ status[i] = "whole" =>
              \E p \in 0..Len(file) : WholeAt(i, p) /\ (H!AfterCut(i) \/ LineBegins(p))
    /\ H!Writing => \E p \in 0..Len(file) : WritingAt(p) /\ (H!AfterCut(H!Latest) \/ LineBegins(p))
    /\ H!Latest = 0 => file = <<>>
    /\ H!Latest > 0 /\ status[H!Latest] = "whole" => LineBegins(Len(file))

FileInv == UnitsInv /\ PlacesInv

(* What the scanner makes of it.                                           *)

\* A line too long for the scanner begins within n units.
LongBy(n) == \E a \in 1..n : a + MaxLine <= n /\ \A k \in a..(a + MaxLine) : file[k] # H!Newline

\* The scanner reaches entry i, which begins the line after unit p.
ReachedAt(i, p) ==
    /\ p + sizes[i] <= Len(file)
    /\ \A k \in (p + 1)..(p + sizes[i]) : file[k] = i
    /\ LineBegins(p)
    /\ ~LongBy(p + sizes[i])

\* The entries whose line has ended within n units, and those whose line ends
\* if the file does there.
EndedBy(n) ==
    {i \in 1..H!Latest : \E p \in 0..n : /\ ReachedAt(i, p)
                                         /\ p + sizes[i] < n
                                         /\ file[p + sizes[i] + 1] = H!Newline}
DoneBy(n) == EndedBy(n) \cup {i \in 1..H!Latest : \E p \in 0..n : ReachedAt(i, p) /\ p + sizes[i] = n}

\* Those of some stages.
Wanted(S, stages) == {i \in S : H!StageOf(i) \in stages}

\* The items are the entries of S, each once, in order.
Lists(items, S) ==
    /\ items \in Seq(Nat)
    /\ \A j, k \in 1..Len(items) : j < k => items[j] < items[k]
    /\ \A i \in Nat : i \in S <=> \E k \in 1..Len(items) : items[k] = i

\* What the scanner holds after n units.
ScanInv(scan, n, stages) ==
    /\ scan = [line |-> scan.line, items |-> scan.items, on |-> scan.on]
    /\ scan.on \in BOOLEAN /\ (scan.on <=> ~LongBy(n))
    /\ scan.line \in Seq(Nat) /\ Len(scan.line) <= MaxLine /\ Len(scan.line) <= n
    /\ \A k \in 1..Len(scan.line) :
         scan.line[k] = file[n - Len(scan.line) + k] /\ scan.line[k] # H!Newline
    /\ IF scan.on THEN LineBegins(n - Len(scan.line)) ELSE scan.line = <<>>
    /\ Lists(scan.items, Wanted(EndedBy(n), stages))

\* A request found the entries that it opened the file on, and renders those
\* that it read, in reverse; one that is being written may be cut short yet.
RequestInv ==
    /\ request \in {"none", "read", "render"}
    /\ opened \in Seq(Nat) /\ page \in Seq(Nat)
    /\ \A j \in 1..Len(opened) : opened[j] \in 1..H!Latest
    /\ request = "read" =>
         \A j \in 1..Len(opened) : status[opened[j]] # "cut" => opened[j] \in DoneBy(Len(file))
    /\ request = "render" =>
         /\ \A j, k \in 1..Len(page) : j < k => page[j] > page[k]
         /\ \A j \in 1..Len(opened) :
              status[opened[j]] # "cut" => \E k \in 1..Len(page) : page[k] = opened[j]

-----------------------------------------------------------------------------
(* Induction over the units read.                                          *)

\* The order of the natural numbers is well-founded.
LEMMA LeastNat ==
  ASSUME NEW S \in SUBSET Nat, S # {}
  PROVE  \E n \in S : \A m \in S : n <= m
<1> DEFINE R == OpToRel(<, Nat)
<1>1. IsWellFoundedOn(R, Nat)
  BY NatLessThanWellFounded
<1> HIDE DEF R
<1>2. PICK n \in S : \A m \in S : ~(<<m, n>> \in R)
  BY <1>1, WFMin
<1>3. \A m \in S : ~(m < n)
  BY <1>2 DEF R, OpToRel
<1> QED BY <1>3

\* Induction, over a set instead of a predicate: no operator is a parameter.
LEMMA Induction ==
  ASSUME NEW S, 0 \in S, \A n \in Nat : n \in S => n + 1 \in S
  PROVE  Nat \subseteq S
<1> SUFFICES ASSUME Nat \ S # {} PROVE FALSE
  OBVIOUS
<1>1. PICK n \in Nat \ S : \A m \in Nat \ S : n <= m
  BY LeastNat
<1>2. n # 0 /\ n - 1 \in Nat
  BY <1>1
<1>3. n - 1 \in S
  BY <1>1, <1>2
<1> QED BY <1>1, <1>2, <1>3

\* The recursion of Scan has a solution, so that Scan is one: it begins with
\* nothing and takes one unit at a time.
LEMMA ScanSteps ==
  ASSUME file \in Seq(Nat), NEW stages
  PROVE  /\ H!Scan(stages)[0] = [line |-> <<>>, items |-> <<>>, on |-> TRUE]
         /\ \A n \in 0..(Len(file) - 1) :
              H!Scan(stages)[n + 1] = H!ScanUnit(H!Scan(stages)[n], file[n + 1], stages)
<1> DEFINE first == [line |-> <<>>, items |-> <<>>, on |-> TRUE]
           Fits(g, m) == g = [n \in 0..m |-> IF n = 0 THEN first ELSE H!ScanUnit(g[n - 1], file[n], stages)]
           S == {m \in Nat : \E g : Fits(g, m)}
<1>1. H!Scan(stages) = CHOOSE g : Fits(g, Len(file))
  BY DEF H!Scan
<1> HIDE DEF first
<1>2. 0 \in S
  <2>1. Fits([n \in 0..0 |-> first], 0)
    OBVIOUS
  <2> QED BY <2>1
<1>3. ASSUME NEW m \in Nat, m \in S PROVE m + 1 \in S
  <2>1. PICK g : Fits(g, m)
    BY <1>3
  <2> DEFINE h == [n \in 0..(m + 1) |->
                     IF n = m + 1 THEN H!ScanUnit(g[m], file[n], stages) ELSE g[n]]
  <2>2. Fits(h, m + 1)
    <3>1. ASSUME NEW n \in 0..(m + 1)
          PROVE  h[n] = IF n = 0 THEN first ELSE H!ScanUnit(h[n - 1], file[n], stages)
      BY <2>1
    <3> QED BY <3>1
  <2> HIDE DEF h, Fits
  <2> QED BY <2>2
<1>4. \E g : Fits(g, Len(file))
  <2>1. Len(file) \in Nat
    OBVIOUS
  <2> HIDE DEF S
  <2>2. Len(file) \in S
    BY <1>2, <1>3, <2>1, Induction
  <2> QED BY <2>2 DEF S
<1>5. Fits(H!Scan(stages), Len(file))
  <2> HIDE DEF Fits
  <2> QED BY <1>1, <1>4
<1> DEFINE sc == H!Scan(stages)
<1>6. sc = [n \in 0..Len(file) |-> IF n = 0 THEN first ELSE H!ScanUnit(sc[n - 1], file[n], stages)]
  BY <1>5
<1> HIDE DEF sc
<1>7. sc[0] = first
  BY <1>6
<1>8. ASSUME NEW n \in 0..(Len(file) - 1) PROVE sc[n + 1] = H!ScanUnit(sc[n], file[n + 1], stages)
  <2>1. n + 1 \in 0..Len(file) /\ n + 1 # 0 /\ (n + 1) - 1 = n
    OBVIOUS
  <2> QED BY <1>6, <2>1
<1> QED BY <1>7, <1>8 DEF sc, first
-----------------------------------------------------------------------------
\* The entry of a line that has ended is older than that of the line after p.
LEMMA EndedBefore ==
  ASSUME DashboardAssumption, UnitsInv, NEW n \in 0..Len(file), NEW i \in EndedBy(n),
         NEW p \in 0..(n - 1), LineBegins(p), file[p + 1] # H!Newline,
         \A k \in (p + 1)..n : file[k] # H!Newline
  PROVE  i < file[p + 1]
<1>1. PICK q \in 0..n : ReachedAt(i, q) /\ q + sizes[i] < n /\ file[q + sizes[i] + 1] = H!Newline
  BY DEF EndedBy
<1>2. i \in 1..Len(status) /\ sizes[i] \in Nat \ {0}
  BY DEF EndedBy, UnitsInv, H!Latest
<1>0. Len(file) \in Nat /\ \A k \in 1..Len(file) : file[k] \in Nat
  BY DEF UnitsInv
<1>3. PICK first, last, start \in 1..Len(file) :
        /\ first = q + 1 /\ last = q + sizes[i] + 1 /\ start = p + 1
        /\ file[first] = i /\ file[last] = H!Newline
  <2>1. q + 1 \in 1..Len(file) /\ q + sizes[i] + 1 \in 1..Len(file) /\ p + 1 \in 1..Len(file)
    <3>1. PICK size \in Nat \ {0}, end \in Nat : size = sizes[i] /\ end = Len(file)
      BY <1>0, <1>2
    <3>2. n \in 0..end /\ q \in 0..n /\ q + size < n /\ p \in 0..(n - 1)
      BY <1>1, <3>1
    <3>3. q + 1 \in 1..end /\ q + size + 1 \in 1..end /\ p + 1 \in 1..end
      BY <3>2
    <3> QED BY <3>1, <3>3
  <2>2. file[q + 1] = i
    BY <1>1, <1>2 DEF ReachedAt
  <2> QED BY <1>1, <2>1, <2>2
<1>4. last < start
  <2>1. last <= n /\ last \in Int /\ n \in Int
    BY <1>0, <1>1, <1>2, <1>3
  <2>2. \A k \in start..n : file[k] # H!Newline
    BY <1>3
  <2>3. ~(last \in start..n)
    BY <1>3, <2>2
  <2> QED BY <1>3, <2>1, <2>3
<1>5. first < last /\ file[first] # H!Newline /\ file[start] # H!Newline
  <2>1. first < last
    BY <1>2, <1>3
  <2>2. i # H!Newline
    BY <1>2 DEF H!Newline
  <2> QED BY <1>3, <2>1, <2>2
<1>6. file[first] <= file[start]
  BY <1>0, <1>4, <1>5 DEF UnitsInv
<1>7. file[first] # file[start]
  BY <1>3, <1>4, <1>5 DEF UnitsInv
<1> QED BY <1>0, <1>3, <1>6, <1>7

\* A line is valid exactly if it is an entry that the scanner reaches.
LEMMA ValidIsReached ==
  ASSUME DashboardAssumption, UnitsInv, NEW n \in 0..Len(file), NEW stages,
         NEW scan, ScanInv(scan, n, stages)
  PROVE  /\ H!Valid(scan.line) =>
              /\ scan.line[1] \in 1..H!Latest
              /\ sizes[scan.line[1]] = Len(scan.line)
              /\ ReachedAt(scan.line[1], n - Len(scan.line))
         /\ \A i \in 1..H!Latest, p \in 0..n :
              ReachedAt(i, p) /\ p + sizes[i] = n => H!Valid(scan.line) /\ scan.line[1] = i
<1> DEFINE line == scan.line
           begin == n - Len(line)
<1>0. Len(file) \in Nat /\ n \in Nat /\ n <= Len(file) /\ \A k \in 1..Len(file) : file[k] \in 0..H!Latest
  BY DEF UnitsInv, H!Latest
<1>. H!Latest \in Nat
  BY DEF UnitsInv, H!Latest
<1>1. /\ line \in Seq(Nat) /\ Len(line) \in Nat /\ Len(line) <= n /\ begin \in 0..n /\ begin + Len(line) = n
      /\ \A k \in 1..Len(line) : line[k] = file[begin + k] /\ line[k] # H!Newline
      /\ scan.on <=> ~LongBy(n)
      /\ IF scan.on THEN LineBegins(begin) ELSE line = <<>>
  BY <1>0 DEF ScanInv
<1> HIDE DEF line, begin
<1>2. ASSUME H!Valid(line)
      PROVE  line[1] \in 1..H!Latest /\ sizes[line[1]] = Len(line) /\ ReachedAt(line[1], begin)
  <2>1. line # <<>> /\ (\A k \in 1..Len(line) : line[k] = line[1]) /\ sizes[line[1]] = Len(line)
    <3>1. line # <<>> /\ \A k \in 1..Len(line) : line[k] = line[1] /\ Len(line) = sizes[line[1]]
      BY <1>2 DEF H!Valid
    <3>2. 1 \in 1..Len(line)
      BY <1>1, <3>1
    <3> QED BY <3>1, <3>2
  <2>2. 1 \in 1..Len(line) /\ scan.on
    BY <1>1, <2>1
  <2>3. line[1] = file[begin + 1] /\ line[1] # 0 /\ begin + 1 \in 1..Len(file)
    <3>1. begin + 1 \in 1..Len(file)
      BY <1>0, <1>1, <2>2
    <3>2. line[1] = file[begin + 1] /\ line[1] # H!Newline
      BY <1>1, <2>2
    <3> QED BY <3>1, <3>2 DEF H!Newline
  <2>4. line[1] \in 1..H!Latest
    BY <1>0, <2>3
  <2>5. ASSUME NEW k \in (begin + 1)..(begin + Len(line)) PROVE file[k] = line[1]
    <3>1. k - begin \in 1..Len(line) /\ begin + (k - begin) = k
      BY <1>1
    <3> QED BY <1>1, <2>1, <3>1
  <2> QED BY <1>1, <2>1, <2>2, <2>4, <2>5 DEF ReachedAt
<1>3. ASSUME NEW i \in 1..H!Latest, NEW p \in 0..n, ReachedAt(i, p), p + sizes[i] = n
      PROVE  H!Valid(line) /\ line[1] = i
  <2>1. sizes[i] \in Nat \ {0} /\ i # H!Newline
    BY DEF UnitsInv, H!Latest, H!Newline
  <2>2. scan.on /\ LineBegins(begin)
    BY <1>1, <1>3 DEF ReachedAt
  <2>3. \A k \in (p + 1)..n : file[k] = i
    BY <1>3 DEF ReachedAt
  <2>4. begin = p
    <3>1. CASE begin > p
      BY <1>1, <2>1, <2>2, <2>3, <3>1 DEF LineBegins
    <3>2. CASE begin < p
      <4>1. p - begin \in 1..Len(line) /\ begin + (p - begin) = p
        BY <1>1, <3>2
      <4>2. file[p] # H!Newline
        BY <1>1, <4>1
      <4> QED BY <1>1, <1>3, <3>2, <4>2 DEF ReachedAt, LineBegins
    <3> QED BY <1>1, <3>1, <3>2
  <2>5. Len(line) = sizes[i]
    BY <1>1, <1>3, <2>1, <2>4
  <2>6. ASSUME NEW k \in 1..Len(line) PROVE line[k] = i
    <3>1. begin + k \in (p + 1)..n
      BY <1>1, <2>4
    <3> QED BY <1>1, <2>3, <3>1
  <2>7. 1 \in 1..Len(line) /\ line # <<>>
    BY <1>1, <2>1, <2>5
  <2> QED BY <2>5, <2>6, <2>7 DEF H!Valid
<1> QED BY <1>2, <1>3 DEF line, begin

\* The end of a line adds its entry to the list, at the end of it.
LEMMA LineEndsHolds ==
  ASSUME DashboardAssumption, UnitsInv, NEW n \in 0..Len(file), NEW stages,
         NEW scan, ScanInv(scan, n, stages)
  PROVE  Lists(H!LineEnds(scan, stages).items, Wanted(DoneBy(n), stages))
<1> DEFINE line == scan.line
           i == line[1]
           items == scan.items
           new == H!Valid(line) /\ H!StageOf(i) \in stages
<1>1. H!LineEnds(scan, stages).items = IF new THEN Append(items, i) ELSE items
  <2>1. scan = [line |-> scan.line, items |-> scan.items, on |-> scan.on]
    BY DEF ScanInv
  <2> QED BY <2>1 DEF H!LineEnds
<1>2. Lists(items, Wanted(EndedBy(n), stages))
  BY DEF ScanInv
<1>3. CASE ~new
  <2>1. Wanted(DoneBy(n), stages) = Wanted(EndedBy(n), stages)
    <3> SUFFICES ASSUME NEW j \in 1..H!Latest, H!StageOf(j) \in stages,
                        NEW p \in 0..n, ReachedAt(j, p), p + sizes[j] = n
                 PROVE  FALSE
      BY DEF Wanted, DoneBy
    <3> QED BY <1>3, ValidIsReached
  <2> QED BY <1>1, <1>2, <1>3, <2>1
<1>4. CASE new
  <2> DEFINE begin == n - Len(line)
  <2>1. i \in 1..H!Latest /\ sizes[i] = Len(line) /\ ReachedAt(i, begin)
    BY <1>4, ValidIsReached
  <2>2. /\ n \in Nat /\ n <= Len(file) /\ begin \in Nat /\ Len(line) \in Nat \ {0}
        /\ begin + Len(line) = n
    <3>1. line # <<>> /\ line \in Seq(Nat)
      BY <1>4 DEF H!Valid, ScanInv
    <3>2. Len(line) \in Nat /\ Len(line) # 0 /\ Len(line) <= n /\ n \in Nat /\ n <= Len(file)
      BY <3>1 DEF ScanInv, UnitsInv
    <3> QED BY <3>2
  <2>3. /\ \A k \in 1..Len(line) : line[k] = file[begin + k] /\ line[k] # H!Newline
        /\ LineBegins(begin)
    <3>1. line # <<>>
      BY <1>4 DEF H!Valid
    <3> QED BY <3>1 DEF ScanInv
  <2> HIDE DEF line, begin
  <2>4. /\ begin \in 0..(n - 1) /\ i = file[begin + 1]
        /\ \A k \in (begin + 1)..n : file[k] # H!Newline
    <3>1. ASSUME NEW k \in (begin + 1)..n PROVE file[k] # H!Newline
      <4>1. k - begin \in 1..Len(line) /\ begin + (k - begin) = k
        BY <2>2
      <4>2. file[begin + (k - begin)] # H!Newline
        BY <2>3, <4>1
      <4> QED BY <4>1, <4>2
    <3>2. begin \in 0..(n - 1) /\ 1 \in 1..Len(line)
      BY <2>2
    <3> QED BY <2>3, <3>1, <3>2
  <2>5. \A j \in EndedBy(n) : j < i
    <3>1. file[begin + 1] # H!Newline
      BY <2>2, <2>4
    <3> QED BY <2>3, <2>4, <3>1, EndedBefore
  <2>6. DoneBy(n) = EndedBy(n) \cup {i}
    <3>1. i \in DoneBy(n)
      <4>1. begin \in 0..n /\ begin + sizes[i] = n
        BY <2>1, <2>2
      <4> QED BY <2>1, <4>1 DEF DoneBy
    <3>2. ASSUME NEW j \in 1..H!Latest, NEW p \in 0..n, ReachedAt(j, p), p + sizes[j] = n PROVE j = i
      BY <3>2, ValidIsReached DEF line
    <3> QED BY <3>1, <3>2 DEF DoneBy
  <2>7. Wanted(DoneBy(n), stages) = Wanted(EndedBy(n), stages) \cup {i}
    BY <1>4, <2>6 DEF Wanted
  <2>8. Lists(Append(items, i), Wanted(EndedBy(n), stages) \cup {i})
    <3> DEFINE S == Wanted(EndedBy(n), stages)
               longer == Append(items, i)
    <3>1. \A j \in S : j \in Nat /\ j < i
      BY <2>5 DEF Wanted, EndedBy, H!Latest
    <3> HIDE DEF S
    <3>2. /\ items \in Seq(Nat) /\ i \in Nat
          /\ longer \in Seq(Nat) /\ Len(longer) = Len(items) + 1
          /\ \A k \in 1..Len(items) : longer[k] = items[k]
          /\ longer[Len(items) + 1] = i
      BY <1>2, <2>1 DEF Lists, H!Latest
    <3>3. \A k \in 1..Len(items) : items[k] \in S
      BY <1>2, <3>2 DEF Lists, S
    <3> HIDE DEF longer, items, i
    <3>4. \A j, k \in 1..Len(longer) : j < k => longer[j] < longer[k]
      <4> SUFFICES ASSUME NEW j \in 1..Len(longer), NEW k \in 1..Len(longer), j < k PROVE longer[j] < longer[k]
        OBVIOUS
      <4>n. Len(items) \in Nat /\ Len(longer) = Len(items) + 1
        BY <3>2
      <4>0. Len(items) \in Nat /\ j \in 1..Len(items) /\ k \in 1..(Len(items) + 1)
        BY <4>n
      <4>1. CASE k = Len(items) + 1
        BY <3>1, <3>2, <3>3, <4>0, <4>1
      <4>2. CASE k # Len(items) + 1
        <5>1. k \in 1..Len(items)
          BY <4>0, <4>2
        <5> QED BY <1>2, <3>2, <4>0, <5>1 DEF Lists
      <4> QED BY <4>1, <4>2
    <3>5. \A j \in Nat : j \in S \cup {i} <=> \E k \in 1..Len(longer) : longer[k] = j
      <4> SUFFICES ASSUME NEW j \in Nat PROVE j \in S \cup {i} <=> \E k \in 1..Len(longer) : longer[k] = j
        OBVIOUS
      <4>1. j \in S <=> \E k \in 1..Len(items) : items[k] = j
        BY <1>2 DEF Lists, S
      <4>2. Len(items) \in Nat
        BY <3>2
      <4>3. ASSUME j \in S PROVE \E k \in 1..Len(longer) : longer[k] = j
        BY <3>2, <4>1, <4>2, <4>3
      <4>4. \E k \in 1..Len(longer) : longer[k] = i
        BY <3>2, <4>2
      <4>5. ASSUME NEW k \in 1..Len(longer), longer[k] = j PROVE j \in S \cup {i}
        <5>1. CASE k = Len(items) + 1
          BY <3>2, <4>5, <5>1
        <5>2. CASE k # Len(items) + 1
          <6>1. k \in 1..Len(items)
            BY <3>2, <4>2, <5>2
          <6> QED BY <3>2, <4>1, <4>5, <6>1
        <5> QED BY <5>1, <5>2
      <4> QED BY <4>3, <4>4, <4>5
    <3> QED BY <3>2, <3>4, <3>5 DEF Lists, S, longer
  <2> QED BY <1>1, <1>4, <2>7, <2>8
<1> QED BY <1>3, <1>4
-----------------------------------------------------------------------------
\* One unit more ends the entries of the line that it ends, and no others.
LEMMA EndedGrows ==
  ASSUME UnitsInv, NEW n \in 0..(Len(file) - 1)
  PROVE  EndedBy(n + 1) = IF file[n + 1] = H!Newline THEN DoneBy(n) ELSE EndedBy(n)
<1>0. Len(file) \in Nat /\ n \in Nat /\ n + 1 \in 1..Len(file)
  BY DEF UnitsInv
<1>1. \A i \in 1..H!Latest : sizes[i] \in Nat \ {0}
  BY DEF UnitsInv, H!Latest
<1> DEFINE Ends(i, p, m) == ReachedAt(i, p) /\ p + sizes[i] < m /\ file[p + sizes[i] + 1] = H!Newline
<1>2. \A m : EndedBy(m) = {i \in 1..H!Latest : \E p \in 0..m : Ends(i, p, m)}
  BY DEF EndedBy
<1>3. ASSUME NEW i \in 1..H!Latest, NEW p \in Nat
      PROVE  /\ Ends(i, p, n) => Ends(i, p, n + 1)
             /\ Ends(i, p, n + 1) => 
               p <= n /\ (Ends(i, p, n) \/ (p + sizes[i] = n /\ file[n + 1] = H!Newline))
             /\ ReachedAt(i, p) /\ p + sizes[i] = n /\ file[n + 1] = H!Newline => Ends(i, p, n + 1)
  <2>1. sizes[i] \in Nat \ {0}
    BY <1>1
  <2>2. p + sizes[i] < n + 1 <=> p + sizes[i] < n \/ p + sizes[i] = n
    BY <1>0, <2>1
  <2>3. p + sizes[i] < n + 1 => p <= n
    BY <1>0, <2>1
  <2> QED BY <2>2, <2>3
<1> HIDE DEF Ends
<1>4. \A p : p \in 0..n => p \in Nat /\ p \in 0..(n + 1)
  BY <1>0
<1>5. \A p : p \in 0..(n + 1) => p \in Nat /\ (p <= n => p \in 0..n)
  BY <1>0
<1>6. EndedBy(n) \subseteq EndedBy(n + 1)
  BY <1>2, <1>3, <1>4
<1>7. ASSUME NEW i \in EndedBy(n + 1), i \notin EndedBy(n)
      PROVE  i \in DoneBy(n) /\ file[n + 1] = H!Newline
  <2>1. PICK p \in 0..(n + 1) : i \in 1..H!Latest /\ Ends(i, p, n + 1)
    BY <1>2
  <2>2. p \in 0..n /\ p + sizes[i] = n /\ file[n + 1] = H!Newline
    BY <1>2, <1>3, <1>5, <1>7, <2>1
  <2>3. ReachedAt(i, p)
    BY <2>1 DEF Ends
  <2> QED BY <2>1, <2>2, <2>3 DEF DoneBy
<1>8. ASSUME NEW i \in DoneBy(n), file[n + 1] = H!Newline PROVE i \in EndedBy(n + 1)
  <2>1. CASE i \in EndedBy(n)
    BY <1>6, <2>1
  <2>2. CASE i \notin EndedBy(n)
    <3>1. PICK p \in 0..n : i \in 1..H!Latest /\ ReachedAt(i, p) /\ p + sizes[i] = n
      BY <2>2 DEF DoneBy
    <3> QED BY <1>2, <1>3, <1>4, <1>8, <3>1
  <2> QED BY <2>1, <2>2
<1>9. EndedBy(n) \subseteq DoneBy(n)
  BY DEF DoneBy
<1> QED BY <1>6, <1>7, <1>8, <1>9

\* The scanner holds the line it is in, and the entries whose line has ended.
LEMMA ScanHolds ==
  ASSUME DashboardAssumption, UnitsInv, NEW stages
  PROVE  \A n \in 0..Len(file) : ScanInv(H!Scan(stages)[n], n, stages)
<1> DEFINE sc == H!Scan(stages)
           S == {n \in Nat : n <= Len(file) => ScanInv(sc[n], n, stages)}
<1>0. Len(file) \in Nat /\ file \in Seq(Nat) /\ MaxLine \in Nat \ {0}
  BY DEF UnitsInv, DashboardAssumption
<1>1. /\ sc[0] = [line |-> <<>>, items |-> <<>>, on |-> TRUE]
      /\ \A n \in 0..(Len(file) - 1) : sc[n + 1] = H!ScanUnit(sc[n], file[n + 1], stages)
  BY <1>0, ScanSteps
<1> HIDE DEF sc
<1>2. ScanInv(sc[0], 0, stages)
  <2>1. EndedBy(0) = {}
    <3>1. \A i \in 1..H!Latest : sizes[i] \in Nat
      BY DEF UnitsInv, H!Latest
    <3> QED BY <3>1 DEF EndedBy
  <2>2. Lists(<<>>, Wanted(EndedBy(0), stages))
    BY <2>1 DEF Lists, Wanted
  <2>3. ~LongBy(0)
    BY DEF LongBy
  <2>4. sc[0].line = <<>> /\ sc[0].items = <<>> /\ sc[0].on = TRUE
    BY <1>1
  <2>5. <<>> \in Seq(Nat) /\ Len(<<>>) = 0 /\ 0 <= MaxLine /\ 0 - 0 = 0
    BY <1>0
  <2>6. LineBegins(0)
    BY DEF LineBegins
  <2> QED BY <1>1, <2>2, <2>3, <2>4, <2>5, <2>6 DEF ScanInv
<1>3. ASSUME NEW n \in 0..(Len(file) - 1), ScanInv(sc[n], n, stages)
      PROVE  ScanInv(sc[n + 1], n + 1, stages)
  <2> DEFINE old == sc[n]
             new == sc[n + 1]
             begin == n - Len(old.line)
  <2>0. /\ n \in Nat /\ n \in 0..Len(file) /\ n + 1 \in 1..Len(file)
        /\ new = H!ScanUnit(old, file[n + 1], stages)
    BY <1>0, <1>1
  <2>1. /\ old = [line |-> old.line, items |-> old.items, on |-> old.on]
        /\ old.on \in BOOLEAN /\ (old.on <=> ~LongBy(n))
        /\ old.line \in Seq(Nat)
        /\ \A k \in 1..Len(old.line) :
             old.line[k] = file[begin + k] /\ old.line[k] # H!Newline
        /\ IF old.on THEN LineBegins(begin) ELSE old.line = <<>>
        /\ Lists(old.items, Wanted(EndedBy(n), stages))
    BY <1>3 DEF ScanInv
  <2>7. /\ begin \in Nat /\ Len(old.line) \in Nat /\ Len(old.line) <= MaxLine /\ begin <= n
        /\ begin + Len(old.line) = n
    <3>1. Len(old.line) \in Nat /\ Len(old.line) <= n /\ Len(old.line) <= MaxLine
      BY <1>3 DEF ScanInv
    <3> QED BY <2>0, <3>1
  <2> HIDE DEF old, new, begin
  <2> SUFFICES ScanInv(new, n + 1, stages)
    BY DEF new
  <2>2. LongBy(n) => LongBy(n + 1)
    <3>1. \A a \in 1..n : a \in 1..(n + 1) /\ (a + MaxLine <= n => a + MaxLine <= n + 1)
      BY <1>0, <2>0
    <3> QED BY <3>1 DEF LongBy
  <2>3. LongBy(n + 1) /\ ~LongBy(n) =>
          n + 1 - MaxLine \in 1..n /\ \A k \in (n + 1 - MaxLine)..(n + 1) : file[k] # H!Newline
    <3> SUFFICES ASSUME ~LongBy(n), NEW a \in 1..(n + 1), a + MaxLine <= n + 1,
                        \A k \in a..(a + MaxLine) : file[k] # H!Newline
                 PROVE  a = n + 1 - MaxLine /\ a \in 1..n /\ a + MaxLine = n + 1
      BY DEF LongBy
    <3>1. a \in 1..n
      BY <1>0, <2>0
    <3>2. ~(a + MaxLine <= n)
      BY <3>1 DEF LongBy
    <3> QED BY <1>0, <2>0, <3>1, <3>2
  <2>4. CASE ~old.on
    <3>1. new = old
      BY <2>0, <2>4 DEF H!ScanUnit
    <3>2. EndedBy(n + 1) = EndedBy(n)
      <4>1. \A i, p : ReachedAt(i, p) /\ p + sizes[i] = n => FALSE
        BY <2>1, <2>4 DEF ReachedAt
      <4>2. DoneBy(n) = EndedBy(n)
        BY <4>1 DEF DoneBy
      <4> QED BY <4>2, EndedGrows
    <3>3. old.line = <<>> /\ Len(old.line) = 0 /\ LongBy(n + 1)
      BY <2>1, <2>2, <2>4
    <3>4. Len(<<>>) = 0 /\ <<>> \in Seq(Nat) /\ 0 <= MaxLine /\ 0 <= n + 1
      BY <1>0, <2>0
    <3>5. new = [line |-> <<>>, items |-> old.items, on |-> FALSE]
      BY <2>1, <2>4, <3>1, <3>3
    <3> QED BY <2>1, <3>2, <3>3, <3>4, <3>5 DEF ScanInv, new
  <2>5. CASE old.on /\ file[n + 1] = H!Newline
    <3>1. new = H!LineEnds(old, stages)
      BY <2>0, <2>5 DEF H!ScanUnit
    <3>2. new = [line |-> <<>>, items |-> new.items, on |-> TRUE]
      BY <2>1, <2>5, <3>1 DEF H!LineEnds
    <3>3. Lists(new.items, Wanted(EndedBy(n + 1), stages))
      <4>1. Lists(new.items, Wanted(DoneBy(n), stages))
        BY <1>3, <2>0, <3>1, LineEndsHolds DEF old
      <4> QED BY <2>5, <4>1, EndedGrows
    <3>4. ~LongBy(n + 1)
      <4>1. n + 1 \in (n + 1 - MaxLine)..(n + 1)
        BY <1>0, <2>0
      <4> QED BY <2>1, <2>3, <2>5, <4>1
    <3>5. LineBegins(n + 1 - 0)
      BY <2>0, <2>5 DEF LineBegins
    <3>6. Len(<<>>) = 0 /\ <<>> \in Seq(Nat) /\ 0 <= MaxLine /\ 0 <= n + 1
      BY <1>0, <2>0
    <3>7. /\ new.line = <<>> /\ new.on = TRUE
          /\ new = [line |-> new.line, items |-> new.items, on |-> new.on]
      BY <3>2
    <3>8. /\ LineBegins(n + 1 - Len(new.line)) /\ new.line \in Seq(Nat)
          /\ Len(new.line) <= MaxLine /\ Len(new.line) <= n + 1
      BY <3>5, <3>6, <3>7
    <3>9. \A k \in 1..Len(new.line) : FALSE
      BY <3>6, <3>7
    <3>10. new.on \in BOOLEAN /\ (new.on <=> ~LongBy(n + 1))
      BY <3>4, <3>7
    <3>11. IF new.on THEN LineBegins(n + 1 - Len(new.line)) ELSE new.line = <<>>
      BY <3>7, <3>8
    <3>12. new = [line |-> new.line, items |-> new.items, on |-> new.on]
      BY <3>7
    <3> QED BY <3>3, <3>8, <3>9, <3>10, <3>11, <3>12 DEF ScanInv
  <2>6. CASE old.on /\ file[n + 1] # H!Newline
    <3>1. EndedBy(n + 1) = EndedBy(n)
      BY <2>6, EndedGrows
    <3>2. ASSUME NEW k \in (begin + 1)..n PROVE file[k] # H!Newline
      <4> DEFINE j == k - begin
      <4>1. j \in 1..Len(old.line) /\ begin + j = k
        BY <2>0, <2>7
      <4> HIDE DEF j
      <4> QED BY <2>1, <4>1
    <3>3. CASE Len(old.line) = MaxLine
      <4>1. new = [line |-> <<>>, items |-> old.items, on |-> FALSE]
        BY <2>0, <2>1, <2>6, <3>3 DEF H!ScanUnit
      <4>2. LongBy(n + 1)
        <5>1. PICK a \in 1..(n + 1) : a = begin + 1 /\ a + MaxLine = n + 1 /\ a + MaxLine <= n + 1
          BY <1>0, <2>0, <2>7, <3>3
        <5>2. \A k \in a..(n + 1) : k \in a..n \/ k = n + 1
          BY <2>0, <2>7
        <5>3. \A k \in a..(a + MaxLine) : file[k] # H!Newline
          BY <2>6, <3>2, <5>1, <5>2
        <5> QED BY <2>0, <5>1, <5>3 DEF LongBy
      <4>3. Len(<<>>) = 0 /\ <<>> \in Seq(Nat) /\ 0 <= MaxLine /\ 0 <= n + 1
        BY <1>0, <2>0
      <4> QED BY <2>1, <3>1, <4>1, <4>2, <4>3 DEF ScanInv, new
    <3>4. CASE Len(old.line) # MaxLine
      <4>1. new = [line |-> Append(old.line, file[n + 1]), items |-> old.items, on |-> TRUE]
        BY <2>0, <2>1, <2>6, <3>4 DEF H!ScanUnit
      <4>2. file[n + 1] \in Nat
        BY <1>0, <2>0
      <4>3. /\ new.line \in Seq(Nat) /\ Len(new.line) = Len(old.line) + 1
            /\ \A k \in 1..Len(old.line) : new.line[k] = old.line[k]
            /\ new.line[Len(old.line) + 1] = file[n + 1]
        BY <2>1, <4>1, <4>2
      <4>4. /\ Len(new.line) <= MaxLine /\ Len(new.line) <= n + 1
            /\ n + 1 - Len(new.line) = begin
        <5>1. Len(new.line) = Len(old.line) + 1
          BY <4>3
        <5>2. n \in Nat /\ MaxLine \in Nat
          BY <1>0, <2>0
        <5> HIDE DEF new
        <5> QED BY <2>7, <3>4, <5>1, <5>2
      <4>5. ASSUME NEW k \in 1..Len(new.line)
            PROVE  new.line[k] = file[begin + k] /\ new.line[k] # H!Newline
        <5>1. CASE k = Len(old.line) + 1
          <6>1. begin + k = n + 1
            BY <2>0, <2>7, <5>1
          <6> QED BY <2>6, <4>3, <5>1, <6>1
        <5>2. CASE k # Len(old.line) + 1
          <6>1. k \in 1..(Len(old.line) + 1)
            BY <4>3
          <6>2. k \in 1..Len(old.line)
            BY <2>7, <5>2, <6>1
          <6> QED BY <2>1, <4>3, <6>2
        <5> QED BY <5>1, <5>2
      <4>6. ~LongBy(n + 1)
        <5> SUFFICES ASSUME LongBy(n + 1) PROVE FALSE
          OBVIOUS
        <5>1. /\ n + 1 - MaxLine \in 1..n
              /\ \A k \in (n + 1 - MaxLine)..(n + 1) : file[k] # H!Newline
          BY <2>1, <2>3, <2>6
        <5>2. begin \in (n + 1 - MaxLine)..(n + 1) /\ begin # 0
          BY <1>0, <2>0, <2>7, <3>4, <5>1
        <5> QED BY <2>1, <2>6, <5>1, <5>2 DEF LineBegins
      <4>7. LineBegins(begin)
        BY <2>1, <2>6
      <4>8. LineBegins(n + 1 - Len(new.line))
        BY <4>4, <4>7
      <4>9. \A k \in 1..Len(new.line) :
              new.line[k] = file[n + 1 - Len(new.line) + k] /\ new.line[k] # H!Newline
        BY <4>4, <4>5
      <4>10. /\ new.on = TRUE /\ new.items = old.items
             /\ new = [line |-> new.line, items |-> new.items, on |-> new.on]
        BY <4>1
      <4>11. Lists(new.items, Wanted(EndedBy(n + 1), stages))
        BY <2>1, <3>1, <4>10
      <4>12. new.on \in BOOLEAN /\ (new.on <=> ~LongBy(n + 1))
        BY <4>6, <4>10
      <4>13. IF new.on THEN LineBegins(n + 1 - Len(new.line)) ELSE new.line = <<>>
        BY <4>8, <4>10
      <4>14. /\ new.line \in Seq(Nat) /\ Len(new.line) <= MaxLine /\ Len(new.line) <= n + 1
             /\ new = [line |-> new.line, items |-> new.items, on |-> new.on]
        BY <4>3, <4>4, <4>10
      <4> HIDE DEF new
      <4> QED BY <4>9, <4>11, <4>12, <4>13, <4>14 DEF ScanInv
    <3> QED BY <3>3, <3>4
  <2> QED BY <2>1, <2>4, <2>5, <2>6
<1>4. Nat \subseteq S
  <2>1. 0 \in S
    BY <1>2
  <2>2. ASSUME NEW n \in Nat, n \in S PROVE n + 1 \in S
    <3>1. n + 1 <= Len(file) => n \in 0..(Len(file) - 1) /\ n <= Len(file)
      BY <1>0
    <3> QED BY <1>3, <2>2, <3>1
  <2> HIDE DEF S
  <2> QED BY <2>1, <2>2, Induction
<1>5. ASSUME NEW n \in 0..Len(file) PROVE ScanInv(sc[n], n, stages)
  <2>1. n \in Nat /\ n <= Len(file)
    BY <1>0
  <2> QED BY <1>4, <2>1
<1> QED BY <1>5 DEF sc

\* A reader gets the entries of its stages whose line has ended or ends with
\* the file, in the order in which they were appended.
LEMMA ItemsListed ==
  ASSUME DashboardAssumption, UnitsInv, NEW stages
  PROVE  Lists(H!ItemsOf(stages), Wanted(DoneBy(Len(file)), stages))
<1>1. Len(file) \in 0..Len(file)
  BY DEF UnitsInv
<1> QED BY <1>1, ScanHolds, LineEndsHolds DEF H!ItemsOf
-----------------------------------------------------------------------------
(* The deployer's appends.                                                 *)

\* What is in the file stays there, and entries keep their number and length.
Grows ==
    /\ file \in Seq(Nat) /\ file' \in Seq(Nat) /\ Len(file) <= Len(file')
    /\ \A k \in 1..Len(file) : file'[k] = file[k]
    /\ H!Latest \in Nat /\ H!Latest' \in Nat /\ H!Latest <= H!Latest'
    /\ \A i \in 1..H!Latest : sizes'[i] = sizes[i] /\ sizes[i] \in Nat \ {0}

\* The entry being written is the whole of its line so far.
LEMMA WrittenIsLength ==
  ASSUME UnitsInv, NEW p \in 0..Len(file), \A k \in 1..Len(file) : file[k] = H!Latest <=> k > p
  PROVE  H!Written(H!Latest) = Len(file) - p
<1>0. Len(file) \in Nat /\ p \in Nat /\ p <= Len(file)
  BY DEF UnitsInv
<1>1. {k \in 1..Len(file) : file[k] = H!Latest} = (p + 1)..Len(file)
  <2>1. ASSUME NEW k PROVE k \in 1..Len(file) /\ k > p <=> k \in (p + 1)..Len(file)
    BY <1>0
  <2> QED BY <2>1
<1>2. Cardinality((p + 1)..Len(file)) = Len(file) - p
  <2>1. Cardinality((p + 1)..Len(file)) = IF p + 1 > Len(file) THEN 0 ELSE Len(file) - (p + 1) + 1
    <3>1. p + 1 \in Int /\ Len(file) \in Int
      BY <1>0
    <3> QED BY <3>1, FS_Interval
  <2> QED BY <1>0, <2>1
<1>3. H!Written(H!Latest) = Cardinality({k \in 1..Len(file) : file[k] = H!Latest})
  BY DEF H!Written, H!Cardinality, Cardinality
<1> QED BY <1>1, <1>2, <1>3

\* Nothing is there yet.
LEMMA FileInit == H!Init => FileInv
<1> SUFFICES ASSUME H!Init PROVE FileInv
  OBVIOUS
<1>1. file = <<>> /\ sizes = <<>> /\ status = <<>> /\ H!Latest = 0
  BY DEF H!Init, H!Latest
<1>2. UnitsInv
  BY <1>1 DEF UnitsInv
<1>3. PlacesInv
  BY <1>1 DEF PlacesInv, H!Writing
<1> QED BY <1>2, <1>3 DEF FileInv

\* A place keeps what was written there.
LEMMA PlacesStay ==
  ASSUME Grows, NEW i \in 1..H!Latest, NEW p \in 0..Len(file)
  PROVE  /\ p \in 0..Len(file')
         /\ LineBegins(p)' <=> LineBegins(p)
         /\ WholeAt(i, p) => WholeAt(i, p)'
         /\ ReachedAt(i, p) => ReachedAt(i, p)'
<1>0. /\ Len(file) \in Nat /\ Len(file') \in Nat /\ Len(file) <= Len(file') /\ p \in Nat /\ p <= Len(file)
      /\ sizes[i] \in Nat \ {0} /\ sizes'[i] = sizes[i]
      /\ \A k \in 1..Len(file) : file'[k] = file[k]
  BY DEF Grows
<1>1. LineBegins(p)' <=> LineBegins(p)
  BY <1>0 DEF LineBegins, H!Newline
<1>2. WholeAt(i, p) => WholeAt(i, p)'
  <2> SUFFICES ASSUME WholeAt(i, p) PROVE WholeAt(i, p)'
    OBVIOUS
  <2>1. p + sizes[i] < Len(file') /\ p + sizes[i] + 1 \in 1..Len(file)
    BY <1>0 DEF WholeAt
  <2>2. ASSUME NEW k \in (p + 1)..(p + sizes[i]) PROVE file'[k] = i
    <3>1. k \in 1..Len(file)
      BY <1>0 DEF WholeAt
    <3> QED BY <1>0, <3>1 DEF WholeAt
  <2> QED BY <1>0, <2>1, <2>2 DEF WholeAt, H!Newline
<1>3. ReachedAt(i, p) => ReachedAt(i, p)'
  <2> SUFFICES ASSUME ReachedAt(i, p) PROVE ReachedAt(i, p)'
    OBVIOUS
  <2>1. p + sizes[i] <= Len(file) /\ p + sizes[i] <= Len(file') /\ p + sizes[i] \in Nat
    BY <1>0 DEF ReachedAt
  <2>2. ASSUME NEW k \in (p + 1)..(p + sizes[i]) PROVE file'[k] = i
    <3>1. k \in 1..Len(file)
      BY <1>0, <2>1
    <3> QED BY <1>0, <3>1 DEF ReachedAt
  <2>3. ~LongBy(p + sizes[i])'
    <3> DEFINE n == p + sizes[i]
    <3> SUFFICES ASSUME NEW a \in 1..n, a + MaxLine <= n, \A k \in a..(a + MaxLine) : file'[k] # 0
                 PROVE  FALSE
      BY <1>0 DEF LongBy, H!Newline
    <3>1. ASSUME NEW k \in a..(a + MaxLine), MaxLine \in Nat PROVE k \in 1..Len(file)
      BY <2>1, <3>1
    <3>2. \A k \in a..(a + MaxLine) : file[k] # 0
      BY <1>0, <3>1, DashboardAssumption DEF DashboardAssumption
    <3> QED BY <3>2 DEF ReachedAt, LongBy, H!Newline
  <2> QED BY <1>0, <1>1, <2>1, <2>2, <2>3 DEF ReachedAt
<1> QED BY <1>0, <1>1, <1>2, <1>3

\* The deployer begins an entry.
LEMMA BeginAppendHolds == DashboardAssumption /\ FileInv /\ H!BeginAppend => FileInv' /\ Grows
<1> SUFFICES ASSUME DashboardAssumption, FileInv, H!BeginAppend PROVE FileInv' /\ Grows
  OBVIOUS
<1>0. PICK top \in Nat, n \in Nat : top = H!Latest /\ n = Len(file)
  BY DEF FileInv, UnitsInv, H!Latest
<1>u. /\ status \in Seq(AppendStatus) /\ Len(status) = top
      /\ sizes \in Seq(Nat \ {0}) /\ Len(sizes) = top
      /\ file \in Seq(Nat) /\ Len(file) = n
  BY <1>0 DEF FileInv, UnitsInv, H!Latest
<1>f. \A k \in 1..n : file[k] \in Nat /\ file[k] <= top
  BY <1>0, <1>u DEF FileInv, UnitsInv
<1>1. PICK size \in Nat \ {0} : sizes' = Append(sizes, size)
  BY DEF H!BeginAppend, DashboardAssumption
<1>2. /\ status' = Append(status, "writing")
      /\ file' = Append(file, top + 1)
      /\ ~H!Writing
  BY <1>0 DEF H!BeginAppend
<1>3. /\ sizes' \in Seq(Nat \ {0}) /\ Len(sizes') = top + 1 /\ sizes'[top + 1] = size
      /\ \A i \in 1..top : sizes'[i] = sizes[i]
  BY <1>u, <1>1
<1>4. /\ status' \in Seq(AppendStatus) /\ Len(status') = top + 1 /\ H!Latest' = top + 1
      /\ status'[top + 1] = "writing"
      /\ \A i \in 1..top : status'[i] = status[i]
  <2>1. "writing" \in AppendStatus /\ status \in Seq(AppendStatus)
    BY <1>u DEF AppendStatus
  <2>2. /\ Append(status, "writing") \in Seq(AppendStatus)
        /\ Len(Append(status, "writing")) = Len(status) + 1
        /\ \A i \in 1..Len(status) : Append(status, "writing")[i] = status[i]
        /\ Append(status, "writing")[Len(status) + 1] = "writing"
    BY <2>1, AppendProperties
  <2> QED BY <1>2, <1>u, <2>2 DEF H!Latest
<1>5. /\ file' \in Seq(Nat) /\ Len(file') = n + 1 /\ file'[n + 1] = top + 1
      /\ \A k \in 1..n : file'[k] = file[k]
  <2>1. top + 1 \in Nat /\ file \in Seq(Nat)
    BY <1>u
  <2>2. /\ Append(file, top + 1) \in Seq(Nat)
        /\ Len(Append(file, top + 1)) = Len(file) + 1
        /\ \A k \in 1..Len(file) : Append(file, top + 1)[k] = file[k]
        /\ Append(file, top + 1)[Len(file) + 1] = top + 1
    BY <2>1, AppendProperties
  <2> QED BY <1>2, <1>u, <2>2
<1>6. \A i \in 1..top : sizes[i] \in Nat \ {0}
  BY <1>u
<1>7. Grows
  BY <1>0, <1>u, <1>3, <1>4, <1>5, <1>6  DEF Grows
<1>8. UnitsInv'
  <2>1. \A k \in 1..(n + 1) : k \in 1..n \/ k = n + 1
    BY <1>0
  <2>2. ASSUME NEW k \in 1..(n + 1) PROVE file'[k] <= top + 1
    <3>1. CASE k \in 1..n
      <4>1. file'[k] \in Nat /\ file'[k] <= top
        BY <1>5, <1>f, <3>1
      <4> QED BY <4>1
    <3>2. CASE k = n + 1
      BY <1>5, <3>2
    <3> QED BY <2>1, <3>1, <3>2
  <2>3. ASSUME NEW j \in 1..(n + 1), NEW k \in 1..(n + 1), j < k,
               file'[j] # H!Newline, file'[k] # H!Newline
        PROVE  file'[j] <= file'[k]
    <3>1. j \in 1..n
      BY <1>0, <2>3
    <3>2. CASE k = n + 1
      BY <1>0, <1>f, <1>5, <3>1, <3>2
    <3>3. CASE k \in 1..n
      BY <1>0, <1>f, <1>5, <2>3, <3>1, <3>3 DEF FileInv, UnitsInv
    <3> QED BY <2>1, <3>2, <3>3
  <2>4. ASSUME NEW j \in 1..(n + 1), NEW k \in 1..(n + 1), NEW m \in 1..(n + 1), j < k, k < m,
               file'[j] = file'[m], file'[m] # H!Newline
        PROVE  file'[k] # H!Newline
    <3>1. j \in 1..n /\ k \in 1..n
      BY <1>0, <2>4
    <3>2. m # n + 1
      BY <1>0, <1>f, <1>5, <2>4, <3>1
    <3>3. m \in 1..n
      BY <2>1, <3>2
    <3> QED BY <1>0, <1>f, <1>5, <2>4, <3>1, <3>3 DEF FileInv, UnitsInv
  <2> QED BY <1>3, <1>4, <1>5, <2>2, <2>3, <2>4 DEF UnitsInv, H!Newline
<1>9. PlacesInv'
  <2>1. ASSUME NEW i \in 1..(top + 1)
        PROVE  /\ status'[i] = "writing" => i = top + 1
               /\ status'[i] = "whole" =>
                    \E p \in 0..Len(file') : WholeAt(i, p)' /\ (H!AfterCut(i)' \/ LineBegins(p)')
    <3>1. CASE i = top + 1
      BY <1>4, <3>1
    <3>2. CASE i # top + 1
      <4>1. i \in 1..top /\ i \in 1..H!Latest
        BY <1>0, <3>2
      <4>2. status'[i] = status[i]
        BY <1>4, <4>1
      <4>3. status[i] # "writing"
        BY <1>0, <1>2, <4>1 DEF FileInv, PlacesInv, H!Writing
      <4>4. H!AfterCut(i) => H!AfterCut(i)'
        <5>1. i > 1 => i - 1 \in 1..top
          BY <1>0, <4>1
        <5> QED BY <1>4, <5>1 DEF H!AfterCut
      <4>5. ASSUME status[i] = "whole"
            PROVE  \E p \in 0..Len(file') : WholeAt(i, p)' /\ (H!AfterCut(i)' \/ LineBegins(p)')
        <5>1. PICK p \in 0..Len(file) : WholeAt(i, p) /\ (H!AfterCut(i) \/ LineBegins(p))
          BY <4>1, <4>5 DEF FileInv, PlacesInv
        <5> QED BY <1>7, <4>1, <4>4, <5>1, PlacesStay
      <4> QED BY <4>2, <4>3, <4>5
    <3> QED BY <3>1, <3>2
  <2>2. n \in 0..Len(file') /\ WritingAt(n)'
    <3>1. n \in 0..(n + 1) /\ (n + 1) - n = 1 /\ 1 \in 1..size
      BY <1>0, <1>1
    <3>2. ASSUME NEW k \in 1..(n + 1) PROVE file'[k] = top + 1 <=> k > n
      <4>1. CASE k = n + 1
        BY <1>0, <1>f, <1>5, <4>1
      <4>2. CASE k # n + 1
        <5>1. k \in 1..n
          BY <1>0, <4>2
        <5> QED BY <1>0, <1>f, <1>5, <5>1
      <4> QED BY <4>1, <4>2
    <3> QED BY <1>3, <1>4, <1>5, <3>1, <3>2 DEF WritingAt
  <2>3. H!AfterCut(top + 1)' \/ LineBegins(n)'
    <3>1. CASE top = 0
      BY <1>0, <3>1 DEF FileInv, PlacesInv, LineBegins
    <3>2. CASE top > 0
      <4>1. top \in 1..top /\ top + 1 > 1 /\ (top + 1) - 1 = top
        BY <1>0, <3>2
      <4>2. status[top] \in {"whole", "cut"}
        <5>1. status[top] \in AppendStatus
          BY <1>u, <4>1, ElementOfSeq
        <5>2. status[top] # "writing"
          BY <1>0, <1>2, <3>2 DEF H!Writing
        <5> QED BY <5>1, <5>2 DEF AppendStatus
      <4>3. CASE status[top] = "cut"
        BY <1>4, <4>1, <4>3 DEF H!AfterCut
      <4>4. CASE status[top] = "whole"
        <5>1. LineBegins(n)
          BY <1>0, <3>2, <4>4 DEF FileInv, PlacesInv
        <5>2. n # 0 => n \in 1..n
          BY <1>0
        <5> QED BY <1>5, <5>1, <5>2 DEF LineBegins, H!Newline
      <4> QED BY <4>2, <4>3, <4>4
    <3> QED BY <1>0, <3>1, <3>2
  <2>4. top + 1 # 0 /\ status'[top + 1] # "whole"
    BY <1>0, <1>4
  <2> QED BY <1>4, <2>1, <2>2, <2>3, <2>4 DEF PlacesInv
<1> QED BY <1>7, <1>8, <1>9 DEF FileInv
-----------------------------------------------------------------------------
\* The facts about the entry being written that its next steps need.
LEMMA WritingFacts ==
  ASSUME FileInv, H!Writing
  PROVE  /\ H!Latest \in Nat \ {0} /\ H!Latest = Len(status)
         /\ Len(file) \in Nat /\ sizes[H!Latest] \in Nat \ {0}
         /\ \E p \in 0..Len(file) :
              /\ Len(file) - p \in 1..sizes[H!Latest]
              /\ \A k \in 1..Len(file) : file[k] = H!Latest <=> k > p
              /\ H!Written(H!Latest) = Len(file) - p
              /\ H!AfterCut(H!Latest) \/ LineBegins(p)
<1>1. /\ H!Latest \in Nat \ {0} /\ H!Latest = Len(status) /\ Len(file) \in Nat
      /\ sizes[H!Latest] \in Nat \ {0}
  BY DEF FileInv, UnitsInv, H!Writing, H!Latest
<1>2. PICK p \in 0..Len(file) : WritingAt(p) /\ (H!AfterCut(H!Latest) \/ LineBegins(p))
  BY DEF FileInv, PlacesInv
<1>3. H!Written(H!Latest) = Len(file) - p
  BY <1>2, WrittenIsLength DEF FileInv, WritingAt
<1> QED BY <1>1, <1>2, <1>3 DEF WritingAt

\* The deployer writes a unit more of the latest entry, or its newline.
LEMMA WriteHolds == FileInv /\ (H!WriteUnit \/ H!WriteNewline) => FileInv' /\ Grows
<1> SUFFICES ASSUME FileInv, H!WriteUnit \/ H!WriteNewline PROVE FileInv' /\ Grows
  OBVIOUS
<1>1. PICK top \in Nat \ {0}, n \in Nat : top = H!Latest /\ n = Len(file)
  BY WritingFacts DEF H!WriteUnit, H!WriteNewline
<1>2. /\ status \in Seq(AppendStatus) /\ Len(status) = top /\ status[top] = "writing"
      /\ sizes' = sizes /\ sizes \in Seq(Nat \ {0}) /\ Len(sizes) = top
      /\ file \in Seq(Nat) /\ Len(file) = n
      /\ sizes[top] \in Nat \ {0}
  BY <1>1 DEF FileInv, UnitsInv, H!Latest, H!WriteUnit, H!WriteNewline, H!Writing
<1>3. \A k \in 1..n : file[k] \in Nat /\ file[k] <= top
  BY <1>1, <1>2 DEF FileInv, UnitsInv
<1>4. PICK p \in 0..n :
        /\ n - p \in 1..sizes[top]
        /\ \A k \in 1..n : file[k] = top <=> k > p
        /\ H!Written(top) = n - p
        /\ H!AfterCut(top) \/ LineBegins(p)
  BY <1>1, WritingFacts DEF H!WriteUnit, H!WriteNewline
<1>5. PICK unit \in {top, H!Newline} :
        /\ file' = Append(file, unit)
        /\ unit = top => n - p < sizes[top] /\ status' = status
        /\ unit = H!Newline => n - p = sizes[top] /\ status' = [status EXCEPT ![top] = "whole"]
  BY <1>1, <1>4 DEF H!WriteUnit, H!WriteNewline, H!Newline
<1>6. unit \in Nat /\ unit <= top /\ H!Newline = 0
  BY <1>5 DEF H!Newline
<1>7. /\ file' \in Seq(Nat) /\ Len(file') = n + 1 /\ file'[n + 1] = unit
      /\ \A k \in 1..n : file'[k] = file[k]
  BY <1>2, <1>5, <1>6, AppendProperties
<1>8. /\ status' \in Seq(AppendStatus) /\ Len(status') = top /\ H!Latest' = top
      /\ \A i \in 1..top : i # top => status'[i] = status[i]
      /\ status'[top] = IF unit = top THEN "writing" ELSE "whole"
  <2>1. CASE unit = top
    BY <1>2, <1>5, <2>1 DEF H!Latest
  <2>2. CASE unit = H!Newline
    <3>1. "whole" \in AppendStatus
      BY DEF AppendStatus
    <3>2. top \in 1..Len(status) /\ unit # top
      BY <1>2, <1>6, <2>2
    <3>3. status' = [status EXCEPT ![top] = "whole"]
      BY <1>5, <2>2
    <3> QED BY <1>2, <3>1, <3>2, <3>3, ExceptSeq DEF H!Latest
  <2> QED BY <1>5, <2>1, <2>2
<1>9. Grows
  <2>1. \A i \in 1..top : sizes[i] \in Nat \ {0}
    BY <1>2
  <2> QED BY <1>1, <1>2, <1>7, <1>8, <2>1 DEF Grows
<1>10. \A k \in 1..(n + 1) : k \in 1..n \/ k = n + 1
  OBVIOUS
<1>11. UnitsInv'
  <2>1. ASSUME NEW k \in 1..(n + 1) PROVE file'[k] <= top
    BY <1>3, <1>6, <1>7, <1>10
  <2>2. ASSUME NEW j \in 1..(n + 1), NEW k \in 1..(n + 1), j < k,
               file'[j] # H!Newline, file'[k] # H!Newline
        PROVE  file'[j] <= file'[k]
    <3>1. j \in 1..n
      BY <2>2
    <3>2. CASE k = n + 1
      BY <1>3, <1>5, <1>7, <2>2, <3>1, <3>2
    <3>3. CASE k \in 1..n
      BY <1>1, <1>7, <2>2, <3>1, <3>3 DEF FileInv, UnitsInv
    <3> QED BY <1>10, <3>2, <3>3
  <2>3. ASSUME NEW j \in 1..(n + 1), NEW k \in 1..(n + 1), NEW m \in 1..(n + 1), j < k, k < m,
               file'[j] = file'[m], file'[m] # H!Newline
        PROVE  file'[k] # H!Newline
    <3>1. j \in 1..n /\ k \in 1..n
      BY <2>3
    <3>2. CASE m = n + 1
      <4>1. file[j] = top
        BY <1>5, <1>7, <2>3, <3>1, <3>2
      <4>2. k > p
        BY <1>4, <2>3, <3>1, <4>1
      <4> QED BY <1>4, <1>6, <1>7, <3>1, <4>2
    <3>3. CASE m \in 1..n
      BY <1>1, <1>7, <2>3, <3>1, <3>3 DEF FileInv, UnitsInv
    <3> QED BY <1>10, <3>2, <3>3
  <2>4. H!Newline' = H!Newline
    BY DEF H!Newline
  <2> QED BY <1>2, <1>7, <1>8, <2>1, <2>2, <2>3, <2>4 DEF UnitsInv
<1>12. H!AfterCut(top) => \A i : i = top => H!AfterCut(i)'
  <2>1. top > 1 => top - 1 \in 1..top /\ top - 1 # top
    OBVIOUS
  <2> QED BY <1>8, <2>1 DEF H!AfterCut
<1>13. p \in 0..n /\ (LineBegins(p) => LineBegins(p)')
  BY <1>1, <1>9, PlacesStay DEF Grows
<1>14. PlacesInv'
  <2>1. ASSUME NEW i \in 1..top
        PROVE  /\ status'[i] = "writing" => i = top
               /\ status'[i] = "whole" =>
                    \E q \in 0..Len(file') : WholeAt(i, q)' /\ (H!AfterCut(i)' \/ LineBegins(q)')
    <3>1. CASE i = top
      <4> SUFFICES ASSUME status'[i] = "whole"
                   PROVE  \E q \in 0..Len(file') : WholeAt(i, q)' /\ (H!AfterCut(i)' \/ LineBegins(q)')
        BY <3>1
      <4>1. unit = H!Newline /\ n - p = sizes[top]
        BY <1>5, <1>8, <3>1
      <4>2. p + sizes[top] = n /\ p + sizes[top] < n + 1 /\ p \in 0..(n + 1)
        BY <1>2, <4>1
      <4>3. ASSUME NEW k \in (p + 1)..n PROVE file'[k] = top
        <5>1. k \in 1..n /\ k > p
          OBVIOUS
        <5> QED BY <1>4, <1>7, <5>1
      <4>4. WholeAt(i, p)'
        BY <1>2, <1>6, <1>7, <3>1, <4>1, <4>2, <4>3 DEF WholeAt, H!Newline
      <4> QED BY <1>4, <1>7, <1>12, <1>13, <3>1, <4>2, <4>4
    <3>2. CASE i # top
      <4>1. i \in 1..H!Latest /\ status'[i] = status[i]
        BY <1>1, <1>8, <3>2
      <4>2. status[i] # "writing"
        BY <1>1, <3>2, <4>1 DEF FileInv, PlacesInv
      <4>3. H!AfterCut(i) => H!AfterCut(i)'
        <5>1. i > 1 => i - 1 \in 1..top /\ i - 1 # top
          OBVIOUS
        <5> QED BY <1>8, <5>1 DEF H!AfterCut
      <4>4. ASSUME status[i] = "whole"
            PROVE  \E q \in 0..Len(file') : WholeAt(i, q)' /\ (H!AfterCut(i)' \/ LineBegins(q)')
        <5>1. PICK q \in 0..Len(file) : WholeAt(i, q) /\ (H!AfterCut(i) \/ LineBegins(q))
          BY <4>1, <4>4 DEF FileInv, PlacesInv
        <5> QED BY <1>9, <4>1, <4>3, <5>1, PlacesStay
      <4> QED BY <4>1, <4>2, <4>4
    <3> QED BY <3>1, <3>2
  <2>2. ASSUME status'[top] = "writing"
        PROVE  \E q \in 0..Len(file') : WritingAt(q)' /\ (H!AfterCut(H!Latest)' \/ LineBegins(q)')
    <3>1. unit = top /\ n - p < sizes[top]
      BY <1>5, <1>8, <2>2
    <3>2. (n + 1) - p \in 1..sizes[top] /\ p \in 0..(n + 1)
      BY <1>2, <1>4, <3>1
    <3>3. ASSUME NEW k \in 1..(n + 1) PROVE file'[k] = top <=> k > p
      <4>1. CASE k \in 1..n
        BY <1>4, <1>7, <4>1
      <4>2. CASE k = n + 1
        BY <1>7, <3>1, <4>2
      <4> QED BY <1>10, <4>1, <4>2
    <3>4. WritingAt(p)'
      BY <1>2, <1>7, <1>8, <3>2, <3>3 DEF WritingAt
    <3>5. H!AfterCut(H!Latest)' \/ LineBegins(p)'
      BY <1>4, <1>8, <1>12, <1>13
    <3> QED BY <1>7, <3>2, <3>4, <3>5
  <2>3. status'[top] = "whole" => LineBegins(Len(file))'
    BY <1>5, <1>7, <1>8 DEF LineBegins, H!Newline
  <2> QED BY <1>8, <2>1, <2>2, <2>3 DEF PlacesInv, H!Writing
<1> QED BY <1>9, <1>11, <1>14 DEF FileInv

\* The deployer leaves the latest entry as it is.
LEMMA CutShortHolds == FileInv /\ H!CutShort => FileInv' /\ Grows
<1> SUFFICES ASSUME FileInv, H!CutShort PROVE FileInv' /\ Grows
  OBVIOUS
<1>1. PICK top \in Nat \ {0} : top = H!Latest
  BY WritingFacts DEF H!CutShort
<1>2. /\ status \in Seq(AppendStatus) /\ Len(status) = top
      /\ file' = file /\ sizes' = sizes /\ status' = [status EXCEPT ![top] = "cut"]
  BY <1>1 DEF FileInv, UnitsInv, H!Latest, H!CutShort
<1>3. /\ status' \in Seq(AppendStatus) /\ Len(status') = top /\ H!Latest' = top
      /\ \A i \in 1..top : i # top => status'[i] = status[i]
      /\ status'[top] = "cut"
  <2>1. "cut" \in AppendStatus /\ top \in 1..Len(status)
    BY <1>2 DEF AppendStatus
  <2> QED BY <1>2, <2>1, ExceptSeq DEF H!Latest
<1>4. UnitsInv'
  BY <1>1, <1>2, <1>3 DEF FileInv, UnitsInv, H!Newline
<1>5. Grows
  BY <1>1, <1>2, <1>3 DEF FileInv, UnitsInv, Grows
<1>6. ASSUME NEW i \in 1..top
      PROVE  /\ status'[i] # "writing"
             /\ status'[i] = "whole" =>
                  \E q \in 0..Len(file') : WholeAt(i, q)' /\ (H!AfterCut(i)' \/ LineBegins(q)')
  <2>1. CASE i = top
    BY <1>3, <2>1
  <2>2. CASE i # top
    <3>1. i \in 1..H!Latest /\ status'[i] = status[i]
      BY <1>1, <1>3, <2>2
    <3>2. status[i] # "writing"
      BY <1>1, <2>2, <3>1 DEF FileInv, PlacesInv
    <3>3. H!AfterCut(i) => H!AfterCut(i)'
      <4>1. i > 1 => i - 1 \in 1..top /\ i - 1 # top
        OBVIOUS
      <4> QED BY <1>3, <4>1 DEF H!AfterCut
    <3>4. ASSUME status[i] = "whole"
          PROVE  \E q \in 0..Len(file') : WholeAt(i, q)' /\ (H!AfterCut(i)' \/ LineBegins(q)')
      <4>1. PICK q \in 0..Len(file) : WholeAt(i, q) /\ (H!AfterCut(i) \/ LineBegins(q))
        BY <3>1, <3>4 DEF FileInv, PlacesInv
      <4> QED BY <1>5, <3>1, <3>3, <4>1, PlacesStay
    <3> QED BY <3>1, <3>2, <3>4
  <2> QED BY <2>1, <2>2
<1>7. PlacesInv'
  <2>1. top \in 1..top
    OBVIOUS
  <2> QED BY <1>3, <1>6, <2>1 DEF PlacesInv, H!Writing
<1> QED BY <1>4, <1>5, <1>7 DEF FileInv
-----------------------------------------------------------------------------
\* An entry that could be read can be read until its line is cut short.
LEMMA DoneStays ==
  ASSUME DashboardAssumption, FileInv, FileInv', Grows, H!Next \/ UNCHANGED fileVars,
         NEW i \in DoneBy(Len(file)), status'[i] # "cut"
  PROVE  i \in DoneBy(Len(file))'
<1>1. PICK p \in 0..Len(file) :
        /\ i \in 1..H!Latest /\ ReachedAt(i, p)
        /\ \/ p + sizes[i] < Len(file) /\ file[p + sizes[i] + 1] = H!Newline
           \/ p + sizes[i] = Len(file)
  BY DEF DoneBy, EndedBy
<1>2. /\ Len(file) \in Nat /\ Len(file') \in Nat /\ Len(file) <= Len(file') /\ p \in Nat
      /\ H!Latest \in Nat /\ H!Latest' \in Nat /\ H!Latest <= H!Latest'
      /\ sizes[i] \in Nat \ {0} /\ sizes'[i] = sizes[i]
      /\ \A k \in 1..Len(file) : file'[k] = file[k]
  BY <1>1 DEF Grows
<1>3. i \in 1..H!Latest' /\ p \in 0..Len(file') /\ ReachedAt(i, p)'
  BY <1>1, <1>2, PlacesStay
<1>4. CASE p + sizes[i] < Len(file) /\ file[p + sizes[i] + 1] = H!Newline
  <2>1. p + sizes[i] + 1 \in 1..Len(file) /\ p + sizes[i] < Len(file')
    BY <1>2, <1>4
  <2> QED BY <1>2, <1>3, <1>4, <2>1 DEF DoneBy, EndedBy, H!Newline
<1>5. CASE p + sizes[i] = Len(file)
  <2>1. CASE file' = file
    BY <1>2, <1>3, <1>5, <2>1 DEF DoneBy
  <2>2. CASE file' # file
    <3>0. Len(file) \in 1..Len(file) /\ file[Len(file)] = i /\ i # H!Newline
      BY <1>1, <1>2, <1>5 DEF ReachedAt, H!Newline
    <3>1. H!BeginAppend \/ H!WriteUnit \/ H!WriteNewline
      BY <2>2 DEF H!Next, H!CutShort, fileVars
    <3>2. status[i] = "writing"
      <4>1. status[i] \in AppendStatus
        BY <1>1 DEF FileInv, UnitsInv, H!Latest
      <4>2. status[i] # "cut"
        <5>1. CASE H!BeginAppend
          <6>1. status' = Append(status, "writing") /\ i \in 1..Len(status) /\ status \in Seq(AppendStatus)
            BY <1>1, <5>1 DEF H!BeginAppend, H!Latest, FileInv, UnitsInv
          <6> QED BY <6>1
        <5>2. CASE H!WriteUnit
          BY <5>2 DEF H!WriteUnit
        <5>3. CASE H!WriteNewline
          <6>1. status' = [status EXCEPT ![H!Latest] = "whole"] /\ status[H!Latest] = "writing"
            BY <5>3 DEF H!WriteNewline, H!Writing
          <6>2. i # H!Latest => status'[i] = status[i]
            BY <6>1
          <6> QED BY <6>1, <6>2
        <5> QED BY <3>1, <5>1, <5>2, <5>3
      <4>3. status[i] # "whole"
        <5> SUFFICES ASSUME status[i] = "whole" PROVE FALSE
          OBVIOUS
        <5>1. PICK q \in 0..Len(file) : WholeAt(i, q)
          BY <1>1 DEF FileInv, PlacesInv
        <5>2. PICK first, last \in 1..Len(file) :
                /\ first = q + 1 /\ last = q + sizes[i] + 1
                /\ file[first] = i /\ file[last] = H!Newline
          <6>1. q + 1 \in 1..Len(file) /\ q + sizes[i] + 1 \in 1..Len(file)
            BY <1>2, <5>1 DEF WholeAt
          <6>2. q + 1 \in (q + 1)..(q + sizes[i])
            BY <1>2
          <6> QED BY <5>1, <6>1, <6>2 DEF WholeAt
        <5>3. first < last /\ last # Len(file)
          BY <1>2, <3>0, <5>2
        <5>4. last < Len(file)
          BY <1>2, <5>3
        <5> QED BY <3>0, <5>2, <5>3, <5>4 DEF FileInv, UnitsInv
      <4> QED BY <4>1, <4>2, <4>3 DEF AppendStatus
    <3>3. i = H!Latest /\ H!Writing
      BY <1>1, <1>2, <3>2 DEF FileInv, PlacesInv, H!Writing
    <3>4. H!Written(i) = sizes[i]
      <4>1. PICK q \in 0..Len(file) :
              /\ Len(file) - q \in 1..sizes[i]
              /\ \A k \in 1..Len(file) : file[k] = i <=> k > q
              /\ H!Written(i) = Len(file) - q
        BY <3>3, WritingFacts
      <4>2. p + 1 \in 1..Len(file) /\ file[p + 1] = i
        <5>1. p + 1 \in 1..Len(file) /\ p + 1 \in (p + 1)..(p + sizes[i])
          BY <1>2, <1>5
        <5> QED BY <1>1, <5>1 DEF ReachedAt
      <4>3. p + 1 > q
        BY <4>1, <4>2
      <4> QED BY <1>2, <1>5, <4>1, <4>3
    <3>5. H!WriteNewline
      <4>1. ~H!BeginAppend
        BY <3>3 DEF H!BeginAppend
      <4>2. ~H!WriteUnit
        BY <1>2, <3>3, <3>4 DEF H!WriteUnit
      <4> QED BY <3>1, <4>1, <4>2
    <3>6. Len(file') = Len(file) + 1 /\ file'[Len(file) + 1] = H!Newline
      <4>1. file' = Append(file, H!Newline) /\ file \in Seq(Nat) /\ H!Newline \in Nat
        BY <3>5 DEF H!WriteNewline, Grows, H!Newline
      <4> QED BY <4>1, AppendProperties
    <3>7. p + sizes'[i] < Len(file') /\ file'[p + sizes'[i] + 1] = H!Newline
      BY <1>2, <1>5, <3>6
    <3> QED BY <1>3, <3>7 DEF DoneBy, EndedBy, H!Newline
  <2> QED BY <2>1, <2>2
<1> QED BY <1>1, <1>4, <1>5

\* The reader of an entry that was recorded whole reaches it, unless its line
\* or one before is spoilt.
LEMMA WholeIsDone ==
  ASSUME DashboardAssumption, FileInv, NEW i \in 1..H!Latest,
         status[i] = "whole", ~H!AfterCut(i), ~H!AfterLongLine(i)
  PROVE  i \in DoneBy(Len(file))
<1>1. PICK p \in 0..Len(file) : WholeAt(i, p) /\ LineBegins(p)
  BY DEF FileInv, PlacesInv
<1>2. Len(file) \in Nat /\ p \in Nat /\ sizes[i] \in Nat \ {0} /\ MaxLine \in Nat
  BY DEF FileInv, UnitsInv, H!Latest, DashboardAssumption
<1>3. p + sizes[i] < Len(file) /\ p + sizes[i] \in (p + 1)..(p + sizes[i]) /\ p + sizes[i] \in 1..Len(file)
  BY <1>1, <1>2 DEF WholeAt
<1>4. ~LongBy(p + sizes[i])
  <2> SUFFICES ASSUME NEW a \in 1..(p + sizes[i]), a + MaxLine <= p + sizes[i],
                      \A k \in a..(a + MaxLine) : file[k] # H!Newline
               PROVE  FALSE
    BY DEF LongBy
  <2>1. a \in 1..Len(file) /\ a + MaxLine <= Len(file) /\ p + sizes[i] \in (a + MaxLine)..Len(file)
    BY <1>2, <1>3
  <2>2. file[p + sizes[i]] = i
    BY <1>1, <1>3 DEF WholeAt
  <2> QED BY <2>1, <2>2 DEF H!AfterLongLine
<1>5. ReachedAt(i, p)
  BY <1>1, <1>3, <1>4 DEF WholeAt, ReachedAt
<1> QED BY <1>1, <1>3, <1>5 DEF DoneBy, EndedBy, WholeAt
-----------------------------------------------------------------------------
(* The process.                                                            *)

\* Only the deployer touches the file.
LEMMA FileStep == DashboardAssumption /\ FileInv /\ [Next]_vars => FileInv' /\ Grows
<1> SUFFICES ASSUME DashboardAssumption, FileInv, [Next]_vars PROVE FileInv' /\ Grows
  OBVIOUS
<1>1. CASE DeployerAppends
  BY <1>1, BeginAppendHolds, WriteHolds, CutShortHolds DEF DeployerAppends, H!Next
<1>2. CASE UNCHANGED fileVars
  <2>1. FileInv'
    BY <1>2 DEF fileVars, FileInv, UnitsInv, PlacesInv, WholeAt, WritingAt, LineBegins, H!Latest,
       H!Newline, H!Writing, H!AfterCut
  <2>2. Grows
    BY <1>2 DEF fileVars, FileInv, UnitsInv, Grows, H!Latest
  <2> QED BY <2>1, <2>2
<1>3. DeployerAppends \/ UNCHANGED fileVars
  BY DEF Next, Process, Start, Stop, Request, vars, Signal, AcceptFails, NewServerFails, RegisterServer,
     Publish, ListenFails, Listen, GoServe, StartReturnsCtx, StartReturnsServe, Serve, StopFindsNothing,
     Shutdown, ShutdownReturns, ShutdownTimesOut, AppSteps, Exit, Accept, ReadHistory, Respond
<1> QED BY <1>1, <1>2, <1>3
\* A page shows what could be read when it was read, and so what could be read
\* when the file was opened, but for an entry that was cut short since.
LEMMA RequestStep ==
  DashboardAssumption /\ FileInv /\ FileInv' /\ Grows /\ RequestInv /\ [Next]_vars => RequestInv'
<1> SUFFICES ASSUME DashboardAssumption, FileInv, FileInv', Grows, RequestInv, [Next]_vars
             PROVE  RequestInv'
  OBVIOUS
<1>0. H!Latest \in Nat /\ H!Latest' \in Nat /\ H!Latest <= H!Latest'
  BY DEF Grows
<1>1. Lists(H!Items, DoneBy(Len(file)))
  <2>1. Wanted(DoneBy(Len(file)), H!Stages) = DoneBy(Len(file))
    BY DEF Wanted, H!StageOf, H!Stages
  <2> QED BY <2>1, ItemsListed DEF FileInv, H!Items
<1>2. CASE Accept
  <2>1. request' = "read" /\ opened' = H!Items /\ page' = page /\ UNCHANGED fileVars
    BY <1>2 DEF Accept
  <2>2. opened' \in Seq(Nat) /\ page' \in Seq(Nat)
    BY <1>1, <2>1 DEF Lists, RequestInv
  <2>3. ASSUME NEW j \in 1..Len(opened') PROVE opened'[j] \in DoneBy(Len(file))
    <3>1. opened'[j] \in Nat
      BY <2>2, <2>3
    <3> QED BY <1>1, <2>1, <2>3, <3>1 DEF Lists
  <2>4. DoneBy(Len(file))' = DoneBy(Len(file)) /\ H!Latest' = H!Latest
    BY <2>1 DEF fileVars, DoneBy, EndedBy, ReachedAt, LineBegins, LongBy, H!Latest, H!Newline
  <2>5. DoneBy(Len(file)) \subseteq 1..H!Latest
    BY DEF DoneBy, EndedBy
  <2> QED BY <2>1, <2>2, <2>3, <2>4, <2>5 DEF RequestInv
<1>3. CASE ReadHistory
  <2>1. request' = "render" /\ opened' = opened /\ page' = H!Page /\ UNCHANGED fileVars /\ request = "read"
    BY <1>3 DEF ReadHistory
  <2> DEFINE items == H!Items
  <2>2. /\ items \in Seq(Nat) /\ Len(items) \in Nat
        /\ \A j, k \in 1..Len(items) : j < k => items[j] < items[k]
        /\ \A i \in Nat : i \in DoneBy(Len(file)) => \E k \in 1..Len(items) : items[k] = i
    BY <1>1 DEF Lists
  <2>3. page' = [j \in 1..Len(items) |-> items[Len(items) - j + 1]]
    BY <2>1 DEF H!Page, H!Reverse
  <2> HIDE DEF items
  <2>4. \A j \in 1..Len(items) : Len(items) - j + 1 \in 1..Len(items) /\ page'[j] = items[Len(items) - j + 1]
    BY <2>2, <2>3
  <2>5. page' \in Seq(Nat) /\ Len(page') = Len(items)
    <3>1. \A j \in 1..Len(items) : items[Len(items) - j + 1] \in Nat
      BY <2>2, <2>4
    <3> QED BY <2>2, <2>3, <3>1
  <2>6. ASSUME NEW j \in 1..Len(page'), NEW k \in 1..Len(page'), j < k PROVE page'[j] > page'[k]
    <3>1. PICK a, b \in 1..Len(items) : a = Len(items) - k + 1 /\ b = Len(items) - j + 1
      BY <2>4, <2>5
    <3>2. a < b
      BY <2>2, <2>5, <2>6, <3>1
    <3>3. items[a] \in Nat /\ items[b] \in Nat
      BY <2>2
    <3>4. items[a] < items[b] /\ page'[j] = items[b] /\ page'[k] = items[a]
      BY <2>2, <2>4, <2>5, <3>1, <3>2
    <3> QED BY <3>3, <3>4
  <2>7. ASSUME NEW j \in 1..Len(opened), status[opened[j]] # "cut"
        PROVE  \E k \in 1..Len(page') : page'[k] = opened[j]
    <3>1. opened[j] \in DoneBy(Len(file)) /\ opened[j] \in Nat
      BY <2>1, <2>7 DEF RequestInv
    <3>2. PICK a \in 1..Len(items) : items[a] = opened[j]
      BY <2>2, <3>1
    <3>3. PICK k \in 1..Len(items) : k = Len(items) - a + 1 /\ Len(items) - k + 1 = a
      <4>1. Len(items) - a + 1 \in 1..Len(items) /\ Len(items) - (Len(items) - a + 1) + 1 = a
        BY <2>2
      <4> QED BY <4>1
    <3> QED BY <2>4, <2>5, <3>2, <3>3
  <2>8. status' = status /\ H!Latest' = H!Latest
    BY <2>1 DEF fileVars, H!Latest
  <2> QED BY <2>1, <2>5, <2>6, <2>7, <2>8 DEF RequestInv
<1>4. CASE Respond
  BY <1>4 DEF Respond, RequestInv
<1>5. CASE UNCHANGED requestVars /\ (H!Next \/ UNCHANGED fileVars)
  <2>1. UNCHANGED <<request, opened, page>>
    BY <1>5 DEF requestVars
  <2>2. ASSUME NEW j \in 1..Len(opened)
        PROVE  /\ opened[j] \in 1..H!Latest /\ opened[j] \in 1..H!Latest'
               /\ status'[opened[j]] # "cut" => status[opened[j]] # "cut"
    <3>1. opened[j] \in 1..H!Latest
      BY DEF RequestInv
    <3>2. opened[j] \in 1..H!Latest'
      BY <1>0, <3>1
    <3>3. status[opened[j]] = "cut" => status'[opened[j]] = "cut"
      <4>1. CASE H!BeginAppend
        <5>1. status' = Append(status, "writing") /\ opened[j] \in 1..Len(status) /\ status \in Seq(AppendStatus)
          BY <3>1, <4>1 DEF H!BeginAppend, H!Latest, FileInv, UnitsInv
        <5> QED BY <5>1
      <4>2. CASE H!WriteUnit \/ UNCHANGED fileVars
        BY <4>2 DEF H!WriteUnit, fileVars
      <4>3. CASE H!WriteNewline
        BY <4>3 DEF H!WriteNewline, H!Writing
      <4>4. CASE H!CutShort
        BY <4>4 DEF H!CutShort, H!Writing
      <4> QED BY <1>5, <4>1, <4>2, <4>3, <4>4 DEF H!Next
    <3> QED BY <3>1, <3>2, <3>3
  <2>3. ASSUME NEW i \in DoneBy(Len(file)), status'[i] # "cut" PROVE i \in DoneBy(Len(file))'
    BY <1>5, <2>3, DoneStays
  <2> QED BY <2>1, <2>2, <2>3 DEF RequestInv
<1>6. Accept \/ ReadHistory \/ Respond \/ (UNCHANGED requestVars /\ (H!Next \/ UNCHANGED fileVars))
  BY DEF Next, Process, Start, Stop, Request, vars, Signal, AcceptFails, NewServerFails, RegisterServer,
     Publish, ListenFails, Listen, GoServe, StartReturnsCtx, StartReturnsServe, Serve, StopFindsNothing,
     Shutdown, ShutdownReturns, ShutdownTimesOut, AppSteps, Exit, DeployerAppends, requestVars
<1> QED BY <1>2, <1>3, <1>4, <1>5, <1>6

\* Nothing is written or read yet.
LEMMA HistoryInit == Init => FileInv /\ RequestInv
<1> SUFFICES ASSUME Init PROVE FileInv /\ RequestInv
  OBVIOUS
<1>1. FileInv
  BY FileInit DEF Init
<1>2. RequestInv
  BY DEF Init, RequestInv
<1> QED BY <1>1, <1>2

HistoryInv == FileInv /\ RequestInv

\* The units of the file are where the appends left them, and a request has
\* what the scanner made of them.
THEOREM HistoryInvariant == Spec => []HistoryInv
<1>1. Init => HistoryInv
  BY HistoryInit DEF HistoryInv
<1>2. HistoryInv /\ [Next]_vars => HistoryInv'
  BY FileStep, RequestStep, DashboardAssumption DEF HistoryInv
<1> QED BY <1>1, <1>2, PTL DEF Spec

\* The page of a request in flight shows each fix once, the newest first, and
\* misses none that was whole when handleDashboard opened the file: see
\* PageHonest in Dashboard.
THEOREM PagesAreHonest == Spec => []PageHonest
<1>1. HistoryInv => PageHonest
  <2>1. "whole" # "cut"
    OBVIOUS
  <2> QED BY <2>1 DEF HistoryInv, RequestInv, PageHonest
<1> QED BY <1>1, HistoryInvariant, PTL

\* A reader loses a whole fix only to a line cut short right before it or to a
\* line too long for the scanner: see LossIsBounded in History.
THEOREM LossesAreBounded == Spec => []LossIsBounded
<1>1. HistoryInv => LossIsBounded
  <2> SUFFICES ASSUME HistoryInv, NEW i \in 1..H!Latest,
                      status[i] = "whole", ~H!AfterCut(i), ~H!AfterLongLine(i)
               PROVE  \E k \in 1..Len(H!Items) : H!Items[k] = i
    BY DEF LossIsBounded, H!LossIsBounded
  <2>1. FileInv /\ UnitsInv
    BY DEF HistoryInv, FileInv
  <2>2. i \in DoneBy(Len(file))
    BY <2>1, DashboardAssumption, WholeIsDone
  <2>3. i \in Wanted(DoneBy(Len(file)), H!Stages) /\ i \in Nat
    BY <2>2 DEF Wanted, H!StageOf, H!Stages
  <2>4. Lists(H!Items, Wanted(DoneBy(Len(file)), H!Stages))
    BY <2>1, DashboardAssumption, ItemsListed DEF H!Items
  <2> QED BY <2>3, <2>4 DEF Lists
<1> QED BY <1>1, HistoryInvariant, PTL

\* The prompt of a recovery ends with the newest fix of its stage that can be
\* read, or a newer one, and has none of another stage: see PromptIsFresh in
\* History.
THEOREM PromptsAreFresh == Spec => []PromptIsFresh
<1>1. HistoryInv => PromptIsFresh
  <2> SUFFICES ASSUME HistoryInv, NEW stage \in H!Stages
               PROVE  /\ Len(H!Prompt(stage)) <= PromptLimit
                      /\ \A k \in 1..Len(H!Prompt(stage)) : H!StageOf(H!Prompt(stage)[k]) = stage
                      /\ \A i \in 1..H!Latest :
                           /\ H!StageOf(i) = stage /\ status[i] = "whole"
                           /\ ~H!AfterCut(i) /\ ~H!AfterLongLine(i)
                           => /\ H!Prompt(stage) # <<>>
                              /\ H!Prompt(stage)[Len(H!Prompt(stage))] >= i
    BY DEF PromptIsFresh, H!PromptIsFresh
  <2> DEFINE items == H!ItemsOf({stage})
             size == Len(items)
             first == IF size > PromptLimit THEN size - PromptLimit + 1 ELSE 1
             prompt == H!Prompt(stage)
  <2>1. Lists(items, Wanted(DoneBy(Len(file)), {stage}))
    BY DashboardAssumption, ItemsListed DEF HistoryInv, FileInv
  <2>2. items \in Seq(Nat) /\ size \in Nat
    BY <2>1 DEF Lists
  <2>3. PromptLimit \in Nat \ {0}
    BY DashboardAssumption DEF DashboardAssumption
  <2>4. prompt = SubSeq(items, first, size)
    BY DEF H!Prompt, H!LastItems
  <2> HIDE DEF items, size, prompt
  <2>5. first \in Nat /\ first >= 1 /\ first <= size + 1 /\ size - first + 1 <= PromptLimit
    BY <2>2, <2>3
  <2> HIDE DEF first
  <2>6. \A k \in first..size : items[k] \in Nat
    BY <2>2, <2>5 DEF size
  <2>7. /\ Len(prompt) = IF first <= size THEN size - first + 1 ELSE 0
        /\ \A k \in 1..(size - first + 1) : prompt[k] = items[first + k - 1]
    BY <2>2, <2>4, <2>5, <2>6, SubSeqProperties
  <2>8. Len(prompt) = size - first + 1 /\ Len(prompt) <= PromptLimit /\ Len(prompt) \in Nat
    BY <2>2, <2>3, <2>5, <2>7
  <2>9. ASSUME NEW k \in 1..Len(prompt)
        PROVE  first + k - 1 \in 1..size /\ prompt[k] = items[first + k - 1]
    BY <2>2, <2>5, <2>7, <2>8
  <2>10. ASSUME NEW k \in 1..Len(prompt) PROVE H!StageOf(prompt[k]) = stage
    <3>1. PICK m \in 1..size : prompt[k] = items[m]
      BY <2>9
    <3>2. items[m] \in Nat
      BY <2>2 DEF size
    <3>3. items[m] \in Wanted(DoneBy(Len(file)), {stage})
      BY <2>1, <3>2 DEF Lists, size
    <3> QED BY <3>1, <3>3 DEF Wanted
  <2>11. ASSUME NEW i \in 1..H!Latest, H!StageOf(i) = stage, status[i] = "whole",
                ~H!AfterCut(i), ~H!AfterLongLine(i)
         PROVE  prompt # <<>> /\ prompt[Len(prompt)] >= i
    <3>1. i \in Wanted(DoneBy(Len(file)), {stage}) /\ i \in Nat
      BY <2>11, DashboardAssumption, WholeIsDone DEF Wanted, HistoryInv
    <3>2. PICK m \in 1..size : items[m] = i
      BY <2>1, <3>1 DEF Lists, size
    <3>3. size >= 1 /\ first <= size /\ Len(prompt) \in 1..Len(prompt) /\ first + Len(prompt) - 1 = size
      BY <2>2, <2>3, <2>5, <2>8, <3>2 DEF first
    <3>4. prompt[Len(prompt)] = items[size]
      BY <2>9, <3>3
    <3>5. m < size => items[m] < items[size]
      BY <2>1, <2>2, <3>2, <3>3 DEF Lists, size
    <3>6. items[m] \in Nat /\ items[size] \in Nat
      BY <2>2, <3>2, <3>3 DEF size
    <3>7. items[size] >= i
      BY <2>2, <3>2, <3>5, <3>6
    <3>8. prompt # <<>>
      BY <3>3
    <3> QED BY <3>4, <3>7, <3>8
  <2> QED BY <2>8, <2>10, <2>11 DEF prompt
<1> QED BY <1>1, HistoryInvariant, PTL
=============================================================================
