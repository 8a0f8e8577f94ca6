---------------------------- MODULE ServerProcess ----------------------------
(***************************************************************************)
(* The control plane's process: `quicktun-server serve` from its start to  *)
(* its exit, with Server.Run, its two listeners, the requests in flight,   *)
(* the relay's supervisors and the crash-loop detector that counts their   *)
(* exits.  systemd starts the process again when it exits with an error.   *)
(*                                                                         *)
(* A request is an RPC's handler, an HTTP handler of the gateway, or the   *)
(* one calling the other; RelayManager has the manager in detail, here a   *)
(* project has a supervisor or none.  Exit times are kept as ages; ages of *)
(* a Window and more are not told apart.                                   *)
(***************************************************************************)
EXTENDS Naturals, FiniteSets

CONSTANTS
  Projects,
  Requests,        (* requests in flight, used again and again              *)
  None,            (* no project                                            *)
  Threshold,       (* crash_loop_threshold                                  *)
  Window           (* crash_loop_window                                     *)

ASSUME ConstantsAssumption ==
  None \notin Projects /\ {Threshold, Window} \subseteq Nat \ {0}

VARIABLES
  pc,              (* Run's goroutine                                       *)
  ctx,             (* SIGTERM has come, or Run's context ended with it      *)
  firstErr,        (* what the process ends with                            *)
  errCh,           (* the servers that sent an error                        *)
  grpc, http,      (* the listeners and their goroutines                    *)
  web, rpc,        (* a request's handlers                                  *)
  on,              (* the project whose supervisor its RPC waits for        *)
  sup,             (* a project's supervisor: none, between runs, or up     *)
  cancelled,       (* the projects whose supervisor was told to stop        *)
  events,          (* CrashLoop.events: the ages of exits                   *)
  log,             (* history: the ages of all exits                        *)
  last, before     (* history: the ages of the last two alerts              *)

run == <<pc, ctx, firstErr, errCh>>
listeners == <<grpc, http>>
requests == <<web, rpc, on>>
supervisors == <<sup, cancelled>>
alerts == <<events, log, last, before>>
vars == <<pc, ctx, firstErr, errCh, grpc, http, web, rpc, on, sup, cancelled,
          events, log, last, before>>

PCs == {"down", "open", "start", "listen", "gateway", "serve", "shutdown",
        "graceful", "stop", "wait", "return"}
Sockets == {"off", "bound", "serving", "failed", "closed"}
Ages == 0 .. Window

TypeOK ==
  /\ pc \in PCs /\ ctx \in BOOLEAN /\ firstErr \in {"none", "nil", "error"}
  /\ errCh \subseteq {"grpc", "http"}
  /\ grpc \in Sockets /\ http \in Sockets
  /\ web \in [Requests -> {"idle", "calling", "replying"}]
  /\ rpc \in [Requests -> {"idle", "running", "refreshing", "finishing"}]
  /\ on \in [Requests -> Projects \cup {None}]
  /\ sup \in [Projects -> {"none", "waiting", "up"}]
  /\ cancelled \subseteq Projects
  /\ events \in [Projects -> SUBSET Ages] /\ log \in [Projects -> SUBSET Ages]
  /\ last \in [Projects -> Ages] /\ before \in [Projects -> Ages]
  /\ \A r \in Requests : rpc[r] = "refreshing" => on[r] \in Projects

Idle == [r \in Requests |-> "idle"]
NoSup == [p \in Projects |-> "none"]
LongAgo == [p \in Projects |-> Window]

Init ==
  /\ pc = "down" /\ ctx = FALSE /\ firstErr = "none"
  /\ errCh = {} /\ grpc = "off" /\ http = "off"
  /\ web = Idle /\ rpc = Idle /\ on = [r \in Requests |-> None]
  /\ sup = NoSup /\ cancelled = {}
  /\ events = [p \in Projects |-> {}] /\ log = [p \in Projects |-> {}]
  /\ last = LongAgo /\ before = LongAgo

-----------------------------------------------------------------------------
(* The crash-loop detector                                                 *)

Older(age) == IF age = Window THEN Window ELSE age + 1
Aged(ages) == {Older(a) : a \in ages}

(* Exits within the window of now, this one included; an exit is later     *)
(* than the one before it.                                                 *)
Recent(p) == {a \in Aged(events[p]) : a < Window} \cup {0}

(* Mutant: the window is not reset by an alert.                            *)
RecordKeeps(p) ==
  LET fires == Cardinality(Recent(p)) >= Threshold
      prior(f) == [q \in Projects |-> Older(f[q])] IN
  /\ events' = [q \in Projects |->
       IF q = p THEN Recent(p) ELSE Aged(events[q])]
  /\ log' = [q \in Projects |-> Aged(log[q]) \cup IF q = p THEN {0} ELSE {}]
  /\ last' = [prior(last) EXCEPT ![p] = IF fires THEN 0 ELSE @]
  /\ before' = [prior(before) EXCEPT ![p] = IF fires THEN Older(last[p]) ELSE @]

(* Record: the project's exits are filtered, counted and reset, or kept.   *)
(* The alert's POST is a goroutine's that nothing waits for.               *)
Record(p) ==
  LET fires == Cardinality(Recent(p)) >= Threshold
      prior(f) == [q \in Projects |-> Older(f[q])] IN
  /\ events' = [q \in Projects |->
       IF q # p THEN Aged(events[q]) ELSE IF fires THEN {} ELSE Recent(p)]
  /\ log' = [q \in Projects |-> Aged(log[q]) \cup IF q = p THEN {0} ELSE {}]
  /\ last' = [prior(last) EXCEPT ![p] = IF fires THEN 0 ELSE @]
  /\ before' = [prior(before) EXCEPT ![p] = IF fires THEN Older(last[p]) ELSE @]

TimePasses ==
  /\ pc # "down"
  /\ events' = [p \in Projects |-> Aged(events[p])]
  /\ log' = [p \in Projects |-> Aged(log[p])]
  /\ last' = [p \in Projects |-> Older(last[p])]
  /\ before' = [p \in Projects |-> Older(before[p])]
  /\ UNCHANGED <<run, listeners, requests, supervisors>>

-----------------------------------------------------------------------------
(* Supervisors: every exit, asked for or not, is an OnExit                 *)

Cancelled(p) == ctx \/ p \in cancelled

Ends(p, phase) ==
  /\ sup' = [sup EXCEPT ![p] = phase]
  /\ cancelled' = IF phase = "none" THEN cancelled \ {p} ELSE cancelled
  /\ UNCHANGED <<run, listeners, requests>>

SupLaunch(p) == sup[p] = "waiting" /\ Ends(p, "up") /\ UNCHANGED alerts

(* A launch that fails, a child that dies or one that was told to.         *)
SupExit(p) ==
  /\ sup[p] # "none" /\ Record(p)
  /\ Ends(p, IF Cancelled(p) THEN "none" ELSE "waiting")

SupEnds(p) ==
  /\ sup[p] = "waiting" /\ Cancelled(p) /\ Ends(p, "none")
  /\ UNCHANGED alerts

-----------------------------------------------------------------------------
(* Requests                                                                *)

RpcArrives(r) ==
  /\ grpc = "serving" /\ rpc[r] = "idle" /\ web[r] \in {"idle", "calling"}
  /\ rpc' = [rpc EXCEPT ![r] = "running"]
  /\ UNCHANGED <<run, listeners, web, on, supervisors, alerts>>

(* The handler's call of the manager: it stops the project's supervisor,   *)
(* if there is one.                                                        *)
RpcRefreshes(r, p) ==
  /\ rpc[r] = "running"
  /\ rpc' = [rpc EXCEPT ![r] = "refreshing"] /\ on' = [on EXCEPT ![r] = p]
  /\ cancelled' = IF sup[p] = "none" THEN cancelled ELSE cancelled \cup {p}
  /\ UNCHANGED <<run, listeners, web, sup, alerts>>

(* A removal or a failed render leaves the project without; another call   *)
(* may have been first.                                                    *)
RpcSpawns(r) ==
  /\ rpc[r] = "refreshing" /\ on[r] \notin cancelled
  /\ rpc' = [rpc EXCEPT ![r] = "finishing"] /\ on' = [on EXCEPT ![r] = None]
  /\ \/ sup[on[r]] = "none" /\ sup' = [sup EXCEPT ![on[r]] = "waiting"]
     \/ UNCHANGED sup
  /\ UNCHANGED <<run, listeners, web, cancelled, alerts>>

(* The caller has gone while it waited.                                    *)
RpcGivesUp(r) ==
  /\ rpc[r] = "refreshing"
  /\ rpc' = [rpc EXCEPT ![r] = "finishing"] /\ on' = [on EXCEPT ![r] = None]
  /\ UNCHANGED <<run, listeners, web, supervisors, alerts>>

RpcReturns(r) ==
  /\ rpc[r] \in {"running", "finishing"} /\ rpc' = [rpc EXCEPT ![r] = "idle"]
  /\ web' = [web EXCEPT ![r] = IF @ = "calling" THEN "replying" ELSE @]
  /\ UNCHANGED <<run, listeners, on, supervisors, alerts>>

WebArrives(r) ==
  /\ http = "serving" /\ web[r] = "idle" /\ rpc[r] = "idle"
  /\ web' = [web EXCEPT ![r] = "calling"]
  /\ UNCHANGED <<run, listeners, rpc, on, supervisors, alerts>>

(* The gateway's own connections close with the context, and without a     *)
(* server there is nobody to call.                                         *)
WebCut(r) ==
  /\ web[r] = "calling"
  /\ ctx \/ (grpc \in {"failed", "closed"} /\ rpc[r] = "idle")
  /\ web' = [web EXCEPT ![r] = "replying"]
  /\ UNCHANGED <<run, listeners, rpc, on, supervisors, alerts>>

WebReturns(r) ==
  /\ web[r] = "replying" /\ web' = [web EXCEPT ![r] = "idle"]
  /\ UNCHANGED <<run, listeners, rpc, on, supervisors, alerts>>

-----------------------------------------------------------------------------
(* serve and Run                                                           *)

Goes(from, to) == pc = from /\ pc' = to
Quiet == UNCHANGED <<requests, supervisors, alerts>>

(* By systemd or by hand; then configuration, migration and database.      *)
Boots ==
  /\ Goes("down", "open") /\ ctx' = FALSE /\ firstErr' = "nil"
  /\ UNCHANGED <<errCh, listeners>> /\ Quiet

Opens ==
  /\ \/ Goes("open", "start") /\ UNCHANGED firstErr
     \/ Goes("open", "return") /\ firstErr' = "error"
  /\ UNCHANGED <<ctx, errCh, listeners>> /\ Quiet

(* Manager.Start: an AddProject that fails is only logged.                 *)
RelayStarts ==
  /\ \/ /\ Goes("start", "listen") /\ UNCHANGED firstErr
        /\ sup' \in [Projects -> {"none", "waiting"}]
     \/ Goes("start", "return") /\ firstErr' = "error" /\ UNCHANGED sup
  /\ UNCHANGED <<ctx, errCh, listeners, requests, cancelled, alerts>>

Listens ==
  /\ \/ Goes("listen", "gateway") /\ grpc' = "bound" /\ UNCHANGED firstErr
     \/ Goes("listen", "stop") /\ firstErr' = "error" /\ UNCHANGED grpc
  /\ UNCHANGED <<ctx, errCh, http>> /\ Quiet

RegistersGateways ==
  /\ \/ Goes("gateway", "serve") /\ http' = "bound" /\ UNCHANGED <<firstErr, grpc>>
     \/ /\ Goes("gateway", "stop") /\ grpc' = "closed" /\ firstErr' = "error"
        /\ UNCHANGED http
  /\ UNCHANGED <<ctx, errCh>> /\ Quiet

Serves ==
  /\ \/ pc = "serve" /\ grpc = "bound" /\ grpc' = "serving" /\ UNCHANGED http
     \/ pc = "serve" /\ http = "bound" /\ http' = "serving" /\ UNCHANGED grpc
  /\ UNCHANGED run /\ Quiet

(* A server that ends by itself; http also when its port is taken.         *)
ServerFails ==
  /\ \/ /\ grpc = "serving" /\ grpc' = "failed" /\ UNCHANGED http
        /\ errCh' = errCh \cup {"grpc"}
     \/ /\ http \in {"bound", "serving"} /\ http' = "failed" /\ UNCHANGED grpc
        /\ errCh' = errCh \cup {"http"}
  /\ UNCHANGED <<pc, ctx, firstErr>> /\ Quiet

Signalled ==
  /\ pc \notin {"down", "open", "return"} /\ ctx' = TRUE
  /\ UNCHANGED <<pc, firstErr, errCh, listeners>> /\ Quiet

(* The select, and the call of Shutdown.                                   *)
Shuts ==
  /\ Goes("serve", "shutdown")
  /\ \/ ctx /\ UNCHANGED <<firstErr, errCh>>
     \/ \E x \in errCh : errCh' = errCh \ {x} /\ firstErr' = "error"
  /\ http' = IF http = "failed" THEN http ELSE "closed"
  /\ UNCHANGED <<ctx, grpc>> /\ Quiet

(* Mutant: it waits for the requests however long they take.               *)
ShutdownPatient ==
  /\ Goes("shutdown", "graceful")
  /\ grpc' = IF grpc = "failed" THEN grpc ELSE "closed"
  /\ \A r \in Requests : web[r] = "idle"
  /\ UNCHANGED <<ctx, errCh, http, firstErr>> /\ Quiet

(* Mutant: Shutdown's result becomes the result of Run.                    *)
ShutdownForgets ==
  /\ Goes("shutdown", "graceful")
  /\ grpc' = IF grpc = "failed" THEN grpc ELSE "closed"
  /\ firstErr' = IF \A r \in Requests : web[r] = "idle" THEN "nil" ELSE "error"
  /\ UNCHANGED <<ctx, errCh, http>> /\ Quiet

(* Shutdown returns when no HTTP request is left or its 5 seconds are      *)
(* over; then GracefulStop is called.                                      *)
ShutdownReturns ==
  /\ Goes("shutdown", "graceful")
  /\ grpc' = IF grpc = "failed" THEN grpc ELSE "closed"
  /\ \/ (\A r \in Requests : web[r] = "idle") /\ UNCHANGED firstErr
     \/ firstErr' = "error"
  /\ UNCHANGED <<ctx, errCh, http>> /\ Quiet

(* Mutant: Stop, for GracefulStop.                                         *)
GracefulAtOnce ==
  Goes("graceful", "stop") /\ UNCHANGED <<ctx, firstErr, errCh, listeners>> /\ Quiet

GracefulStopReturns ==
  /\ Goes("graceful", "stop") /\ \A r \in Requests : rpc[r] = "idle"
  /\ UNCHANGED <<ctx, firstErr, errCh, listeners>> /\ Quiet

RelayStop ==
  /\ Goes("stop", "wait")
  /\ cancelled' = {p \in Projects : sup[p] # "none"}
  /\ UNCHANGED <<ctx, firstErr, errCh, listeners, requests, sup, alerts>>

RelayStopReturns ==
  /\ Goes("wait", "return") /\ \A p \in Projects : sup[p] = "none"
  /\ UNCHANGED <<ctx, firstErr, errCh, listeners>> /\ Quiet

(* Nobody remembers the exits of children that the kernel takes down.      *)
Vanishes ==
  /\ pc' = "down" /\ errCh' = {} /\ grpc' = "off" /\ http' = "off"
  /\ web' = Idle /\ rpc' = Idle /\ on' = [r \in Requests |-> None]
  /\ sup' = NoSup /\ cancelled' = {}
  /\ events' = [p \in Projects |-> {}] /\ log' = [p \in Projects |-> {}]
  /\ last' = LongAgo /\ before' = LongAgo

(* The deferred calls, and the exit status.                                *)
Exits == pc = "return" /\ Vanishes /\ UNCHANGED <<ctx, firstErr>>
Killed == pc # "down" /\ Vanishes /\ firstErr' = "error" /\ UNCHANGED ctx

-----------------------------------------------------------------------------
RunStep ==
  \/ Opens \/ RelayStarts \/ Listens \/ RegistersGateways \/ Shuts
  \/ ShutdownReturns \/ GracefulStopReturns \/ RelayStop \/ RelayStopReturns
  \/ Exits

RpcStep(r) == RpcSpawns(r) \/ RpcGivesUp(r) \/ RpcReturns(r)

RequestStep(r) ==
  \/ RpcArrives(r) \/ RpcStep(r) \/ \E p \in Projects : RpcRefreshes(r, p)
  \/ WebArrives(r) \/ WebCut(r) \/ WebReturns(r)

Next ==
  \/ RunStep \/ Boots \/ Serves \/ ServerFails \/ Signalled \/ Killed
  \/ \E r \in Requests : RequestStep(r)
  \/ \E p \in Projects : SupLaunch(p) \/ SupExit(p) \/ SupEnds(p)
  \/ TimePasses

Spec == Init /\ [][Next]_vars

(* Run goes on, RPC handlers end, and a supervisor told to stop does, which *)
(* is Supervisor!CancelEndsRun.  HTTP clients need not read their answers. *)
SupStops(p) == Cancelled(p) /\ (SupExit(p) \/ SupEnds(p))

FairSpec ==
  /\ Spec /\ WF_vars(RunStep)
  /\ \A r \in Requests : WF_vars(RpcStep(r))
  /\ \A p \in Projects : WF_vars(SupStops(p))

-----------------------------------------------------------------------------
(* On every way out of Run, a failed start and a failed listener included, *)
(* no handler is left to use the database that is closed next, and no      *)
(* supervisor and no gRPC listener outlives it.                            *)
NothingOutlivesRun ==
  pc = "return" =>
    /\ \A r \in Requests : rpc[r] = "idle"
    /\ \A p \in Projects : sup[p] = "none"
    /\ {grpc, http} \cap {"bound", "serving"} = {}

(* The process only reports success when it was told to stop: systemd,     *)
(* which restarts it on failure, never takes a lost listener for an end.   *)
StoppedOnlyWhenTold == pc = "down" /\ firstErr = "nil" => ctx

(* An alert stands for Threshold exits of its project within a Window that *)
(* no alert before it counted; and that many never go without one.         *)
Unalerted(p, since) == {a \in log[p] : a < Window /\ a < since}

AlertsAreBursts ==
  \A p \in Projects :
    /\ Cardinality(Unalerted(p, last[p])) < Threshold
    /\ last[p] = 0 => Cardinality(Unalerted(p, before[p])) >= Threshold

(* Told to stop, or without one of its servers, Run ends, though HTTP      *)
(* clients never read and handlers wait for a supervisor that is dying.    *)
RunEnds == pc = "serve" /\ (ctx \/ errCh # {}) ~> pc = "down"
=============================================================================
