----------------------------- MODULE AgentRuntime -----------------------------
(***************************************************************************)
(* internal/agent: the site agent's Runtime.Run, its rathole-client        *)
(* supervisor (through the contract of SupervisedProcess) and its CONNECT  *)
(* bridge, against AgentService.Bootstrap and Heartbeat on the control     *)
(* plane, and the process around it: rt.Close, a kill, systemd's restart.  *)
(*                                                                         *)
(* Abstractions.  A site's services are the version "want" of              *)
(* computeConfigVersion; an RPC is served from the rows of one instant,    *)
(* and its reply is a step of its own.  A bridge connection is one per     *)
(* supervisor, and ends at once with the process at its local end.  Binary *)
(* and auth proxy are configured.  Time is the age counters' only.         *)
(***************************************************************************)
EXTENDS Integers

CONSTANTS
  Versions,     (* config versions: a set of positive numbers               *)
  Sups,         (* bound: names for supervisors, reused once done           *)
  None,         (* a nil supervisor                                         *)
  MaxAttempts,  (* maxBootstrapAttempts: 10 in the code                     *)
  MaxAge,       (* bound: where the age counters saturate, 0 for no clock   *)
  Faults,       (* files, listeners and launches fail                       *)
  Kills         (* the agent is killed                                      *)

ASSUME ConstantsAssumption ==
  /\ Versions \subseteq Nat \ {0}
  /\ None \notin Sups
  /\ MaxAttempts \in Nat \ {0}
  /\ MaxAge \in Nat
  /\ Faults \in BOOLEAN /\ Kills \in BOOLEAN

Torn == -1      (* a config file that was truncated and not written yet     *)

VARIABLES
  want,         (* version of the site's service rows                       *)
  server,       (* what an RPC meets: "ok", "refused" when unauthenticated, *)
                (* "error" otherwise: unreachable, internal, disabled       *)
  diskOk,       (* the state directory can be written                       *)
  apc,          (* where the agent's main goroutine stands, see PCs         *)
  attempt,      (* bootstrapWithRetry's attempt                             *)
  got,          (* config_version of the BootstrapResponse in hand          *)
  stale,        (* should_rebootstrap of the HeartbeatResponse              *)
  curVersion,   (* Runtime.curVersion, 0 before the first apply             *)
  file,         (* version in rathole-client.toml, 0 when missing           *)
  cur,          (* Runtime.supCancel, supDone and sup                       *)
  held,         (* stopSupervisor's snapshot                                *)
  bridge,       (* the bridge's listener: "none", "open", "closed"          *)
  ctxDone,      (* SIGTERM or SIGINT was received                           *)
  failed,       (* Run returned an error: a failed exit status              *)
  phase,        (* SupervisedProcess!phase of a supervisor                  *)
  cancelled,    (* its own context                                          *)
  loaded,       (* the version its child runs, 0 when it has none           *)
  conn,         (* its child's connection through the bridge                *)
  age,          (* heartbeat intervals since lastBootstrapAt                *)
  sinceBeat     (* history: the same since the last heartbeat or apply that *)
                (* succeeded                                                *)

world == <<want, server, diskOk>>
main == <<attempt, got, stale, curVersion, file, bridge, ctxDone, failed>>
slots == <<cur, held>>
sups == <<phase, cancelled, loaded, conn>>
clock == <<age, sinceBeat>>
vars == <<want, server, diskOk, apc, attempt, got, stale, curVersion, file,
          cur, held, bridge, ctxDone, failed, phase, cancelled, loaded, conn,
          age, sinceBeat>>

PCs == {"boot", "booted", "backoff", "truncate", "fill", "publish", "stop",
        "stopping", "start", "loop", "beat", "beaten", "leave", "leaving",
        "closing", "drain", "close", "finishing", "exited"}

Contents == Versions \cup {0, Torn}

FlagTypes ==
  diskOk \in BOOLEAN /\ stale \in BOOLEAN /\ ctxDone \in BOOLEAN /\ failed \in BOOLEAN

MainTypes ==
  /\ want \in Versions /\ server \in {"ok", "refused", "error"}
  /\ apc \in PCs /\ attempt \in 1..MaxAttempts
  /\ got \in Versions \cup {0}
  /\ curVersion \in Versions \cup {0} /\ file \in Contents
  /\ bridge \in {"none", "open", "closed"}

SupTypes ==
  /\ cur \in Sups \cup {None} /\ held \in Sups \cup {None}
  /\ phase \in [Sups -> {"looping", "starting", "up", "done"}]
  /\ cancelled \in [Sups -> BOOLEAN]
  /\ loaded \in [Sups -> Contents]
  /\ conn \in [Sups -> {"none", "dialing", "relaying"}]

ClockTypes ==
  age \in 0..MaxAge /\ sinceBeat \in 0..MaxAge

TypeOK == FlagTypes /\ MainTypes /\ SupTypes /\ ClockTypes

(* A process that has just been started, with the file of an earlier one.  *)
Init ==
  /\ want \in Versions /\ server \in {"ok", "refused", "error"}
  /\ diskOk = TRUE
  /\ apc = "boot" /\ attempt = 1 /\ got = 0 /\ stale = FALSE
  /\ curVersion = 0 /\ file = 0 /\ cur = None /\ held = None
  /\ bridge = "none" /\ ctxDone = FALSE /\ failed = FALSE
  /\ phase = [s \in Sups |-> "done"]
  /\ cancelled = [s \in Sups |-> FALSE]
  /\ loaded = [s \in Sups |-> 0]
  /\ conn = [s \in Sups |-> "none"]
  /\ age = 0 /\ sinceBeat = 0

-----------------------------------------------------------------------------
Goto(from, to) == apc = from /\ apc' = to

(* Run returns an error: its deferred br.close is next.                    *)
Fail(from) == Goto(from, "closing") /\ failed' = TRUE

(* What fails an RPC that is under way.                                    *)
RpcBroken == server = "error" \/ ctxDone

-----------------------------------------------------------------------------
(* bootstrapWithRetry                                                      *)

(* A call is only made, or lasts, with a live context.                      *)
BootstrapServed ==
  /\ server = "ok" /\ ~ctxDone /\ Goto("boot", "booted")
  /\ got' = want
  /\ UNCHANGED <<world, attempt, stale, curVersion, file, bridge, ctxDone,
                 failed, slots, sups, clock>>

BootstrapRefused ==
  /\ server = "refused" /\ Fail("boot")
  /\ UNCHANGED <<world, attempt, got, stale, curVersion, file, bridge, ctxDone,
                 slots, sups, clock>>

BootstrapErrs(from) ==
  /\ RpcBroken
  /\ IF ctxDone THEN Fail(from) ELSE Goto(from, "backoff") /\ UNCHANGED failed
  /\ got' = 0
  /\ UNCHANGED <<world, attempt, stale, curVersion, file, bridge, ctxDone,
                 slots, sups, clock>>

BackoffCancelled ==
  /\ ctxDone /\ Fail("backoff")
  /\ UNCHANGED <<world, attempt, got, stale, curVersion, file, bridge, ctxDone,
                 slots, sups, clock>>

(* Mutant: the attempts are not counted.                                   *)
RetryForever ==
  /\ Goto("backoff", "boot")
  /\ UNCHANGED <<world, main, slots, sups, clock>>

(* time.After fires; the last attempt has waited too before it gives up.   *)
Retry ==
  /\ \/ /\ attempt < MaxAttempts /\ Goto("backoff", "boot")
        /\ attempt' = attempt + 1 /\ UNCHANGED failed
     \/ /\ attempt = MaxAttempts /\ Fail("backoff") /\ UNCHANGED attempt
  /\ UNCHANGED <<world, got, stale, curVersion, file, bridge, ctxDone, slots,
                 sups, clock>>

(* The bridge is started after the first Bootstrap of a process.           *)
BootstrapReturns ==
  /\ Goto("booted", "truncate")
  /\ bridge' = IF bridge = "none" THEN "open" ELSE bridge
  /\ UNCHANGED <<world, attempt, got, stale, curVersion, file, ctxDone, failed,
                 slots, sups, clock>>

BridgeFails ==
  /\ Faults /\ bridge = "none" /\ Fail("booted")
  /\ UNCHANGED <<world, attempt, got, stale, curVersion, file, bridge, ctxDone,
                 slots, sups, clock>>

-----------------------------------------------------------------------------
(* applyBootstrap                                                          *)

(* os.WriteFile truncates, then writes.                                    *)
Truncate ==
  /\ diskOk /\ Goto("truncate", "fill")
  /\ file' = Torn
  /\ UNCHANGED <<world, attempt, got, stale, curVersion, bridge, ctxDone,
                 failed, slots, sups, clock>>

Fill ==
  /\ diskOk /\ Goto("fill", "publish")
  /\ file' = got
  /\ UNCHANGED <<world, attempt, got, stale, curVersion, bridge, ctxDone,
                 failed, slots, sups, clock>>

(* An error of the first apply ends Run, one of a later apply is logged.   *)
ApplyFails(from) ==
  /\ ~diskOk
  /\ IF curVersion = 0 THEN Fail(from) ELSE Goto(from, "loop") /\ UNCHANGED failed
  /\ UNCHANGED <<world, attempt, got, stale, curVersion, file, bridge, ctxDone,
                 slots, sups, clock>>

(* Mutant: the new file is left for the running client to notice.          *)
PublishOnly ==
  /\ Goto("publish", IF cur = None THEN "stop" ELSE "loop")
  /\ curVersion' = got /\ got' = 0
  /\ age' = 0 /\ sinceBeat' = 0
  /\ UNCHANGED <<world, attempt, stale, file, bridge, ctxDone, failed, slots,
                 sups>>

Publish ==
  /\ Goto("publish", "stop")
  /\ curVersion' = got /\ got' = 0
  /\ age' = 0 /\ sinceBeat' = 0
  /\ UNCHANGED <<world, attempt, stale, file, bridge, ctxDone, failed, slots,
                 sups>>

(* stopSupervisor: take the fields, cancel, wait.                          *)
StopSupervisor(from, to) ==
  /\ Goto(from, to)
  /\ held' = cur /\ cur' = None
  /\ cancelled' = IF cur = None THEN cancelled
                                ELSE [cancelled EXCEPT ![cur] = TRUE]
  /\ UNCHANGED <<world, main, phase, loaded, conn, clock>>

(* Mutant: the caller does not wait for the goroutine.                     *)
StoppedAtOnce(from, to) ==
  /\ Goto(from, to) /\ held' = None
  /\ UNCHANGED <<world, main, cur, sups, clock>>

Stopped(from, to) ==
  /\ held # None => phase[held] = "done"
  /\ Goto(from, to) /\ held' = None
  /\ UNCHANGED <<world, main, cur, sups, clock>>

(* A name whose last connection still hangs is not reused: the other one is.*)
StartSupervisor ==
  /\ Goto("start", "loop")
  /\ \E s \in Sups :
       /\ phase[s] = "done" /\ conn[s] = "none"
       /\ cur' = s
       /\ phase' = [phase EXCEPT ![s] = "looping"]
       /\ cancelled' = [cancelled EXCEPT ![s] = FALSE]
  /\ UNCHANGED <<world, main, held, loaded, conn, clock>>

-----------------------------------------------------------------------------
(* The heartbeat loop                                                      *)

(* Mutant: the client is left to rt.Close.                                 *)
LeaveAtOnce ==
  /\ ctxDone /\ Goto("loop", "closing")
  /\ UNCHANGED <<world, main, slots, sups, clock>>

LoopCancelled ==
  /\ ctxDone /\ Goto("loop", "leave")
  /\ UNCHANGED <<world, main, slots, sups, clock>>

Tick ==
  /\ Goto("loop", "beat")
  /\ UNCHANGED <<world, main, slots, sups, clock>>

(* Mutant: versions are compared as if they grew.                          *)
HeartbeatOrdered ==
  /\ server = "ok" /\ ~ctxDone /\ Goto("beat", "beaten")
  /\ stale' = (curVersion < want)
  /\ UNCHANGED <<world, attempt, got, curVersion, file, bridge, ctxDone, failed,
                 slots, sups, clock>>

HeartbeatServed ==
  /\ server = "ok" /\ ~ctxDone /\ Goto("beat", "beaten")
  /\ stale' = (curVersion # want)
  /\ UNCHANGED <<world, attempt, got, curVersion, file, bridge, ctxDone, failed,
                 slots, sups, clock>>

(* Mutant: a failed heartbeat refreshes lastBootstrapAt.                   *)
HeartbeatErrsTouch(from) ==
  /\ RpcBroken \/ (from = "beat" /\ server = "refused")
  /\ Goto(from, IF ctxDone THEN "leave" ELSE "loop")
  /\ stale' = FALSE /\ age' = 0
  /\ UNCHANGED <<world, attempt, got, curVersion, file, bridge, ctxDone, failed,
                 slots, sups, sinceBeat>>

(* Whatever the error, an unauthenticated agent included.                  *)
HeartbeatErrs(from) ==
  /\ RpcBroken \/ (from = "beat" /\ server = "refused")
  /\ Goto(from, IF ctxDone THEN "leave" ELSE "loop")
  /\ stale' = FALSE
  /\ UNCHANGED <<world, attempt, got, curVersion, file, bridge, ctxDone, failed,
                 slots, sups, clock>>

HeartbeatReturns ==
  /\ Goto("beaten", IF stale THEN "boot" ELSE "loop")
  /\ attempt' = 1 /\ stale' = FALSE /\ sinceBeat' = 0
  /\ UNCHANGED <<world, got, curVersion, file, bridge, ctxDone, failed, slots,
                 sups, age>>

-----------------------------------------------------------------------------
(* The way out: Run's deferred br.close, then the command's rt.Close       *)

CloseBridge ==
  /\ Goto("closing", "drain")
  /\ bridge' = IF bridge = "none" THEN "none" ELSE "closed"
  /\ UNCHANGED <<world, attempt, got, stale, curVersion, file, ctxDone, failed,
                 slots, sups, clock>>

(* Mutant: no rt.Close.                                                    *)
DrainedForGood ==
  /\ \A s \in Sups : conn[s] = "none"
  /\ Goto("drain", "exited")
  /\ UNCHANGED <<world, main, slots, sups, clock>>

(* wg.Wait of the connections being handled.                               *)
Drained ==
  /\ \A s \in Sups : conn[s] = "none"
  /\ Goto("drain", "close")
  /\ UNCHANGED <<world, main, slots, sups, clock>>

AgentStep ==
  \/ BootstrapServed \/ BootstrapRefused
  \/ BootstrapErrs("boot") \/ BootstrapErrs("booted")
  \/ BackoffCancelled \/ Retry \/ BootstrapReturns \/ BridgeFails
  \/ Truncate \/ Fill \/ ApplyFails("truncate") \/ ApplyFails("fill")
  \/ Publish
  \/ StopSupervisor("stop", "stopping") \/ Stopped("stopping", "start")
  \/ StartSupervisor
  \/ LoopCancelled \/ Tick \/ HeartbeatServed
  \/ HeartbeatErrs("beat") \/ HeartbeatErrs("beaten") \/ HeartbeatReturns
  \/ StopSupervisor("leave", "leaving") \/ Stopped("leaving", "closing")
  \/ CloseBridge \/ Drained
  \/ StopSupervisor("close", "finishing") \/ Stopped("finishing", "exited")

-----------------------------------------------------------------------------
(* The supervisor's goroutine and child                                    *)

SupMoves(s, from, to) == phase[s] = from /\ phase' = [phase EXCEPT ![s] = to]

SupCheck(s) ==
  /\ SupMoves(s, "looping", IF cancelled[s] THEN "done" ELSE "starting")
  /\ UNCHANGED <<world, apc, main, slots, cancelled, loaded, conn, clock>>

SupLaunch(s) ==
  /\ SupMoves(s, "starting", "up")
  /\ loaded' = [loaded EXCEPT ![s] = file]
  /\ UNCHANGED <<world, apc, main, slots, cancelled, conn, clock>>

SupLaunchFails(s) ==
  /\ Faults /\ SupMoves(s, "starting", "looping")
  /\ UNCHANGED <<world, apc, main, slots, cancelled, loaded, conn, clock>>

(* The bridge's handler of an open connection returns with its local end;  *)
(* one that still waits for the auth proxy does not notice.                *)
ChildDies(s) ==
  /\ SupMoves(s, "up", "looping")
  /\ loaded' = [loaded EXCEPT ![s] = 0]
  /\ conn' = [conn EXCEPT ![s] = IF @ = "relaying" THEN "none" ELSE @]
  /\ UNCHANGED <<world, apc, main, slots, cancelled, clock>>

CancelledChildDies(s) == cancelled[s] /\ ChildDies(s)

-----------------------------------------------------------------------------
(* The bridge                                                              *)

ConnMoves(s, from, to) ==
  /\ conn[s] = from /\ conn' = [conn EXCEPT ![s] = to]
  /\ UNCHANGED <<world, apc, main, slots, phase, cancelled, loaded, clock>>

(* Accept: the child dials the address in its configuration.               *)
ConnOpens(s) ==
  /\ phase[s] = "up" /\ loaded[s] \in Versions /\ bridge = "open"
  /\ ConnMoves(s, "none", "dialing")

(* The dial and the CONNECT preamble, which the auth proxy bounds in time. *)
ConnAnswered(s) ==
  \/ phase[s] = "up" /\ ConnMoves(s, "dialing", "relaying")
  \/ ConnMoves(s, "dialing", "none")

UpstreamCloses(s) == ConnMoves(s, "relaying", "none")

(* serve's goroutine closes the listener once the context is done.         *)
BridgeSeesCtx ==
  /\ ctxDone /\ bridge = "open" /\ bridge' = "closed"
  /\ UNCHANGED <<world, apc, attempt, got, stale, curVersion, file, ctxDone,
                 failed, slots, sups, clock>>

SupStep(s) == SupCheck(s) \/ SupLaunch(s) \/ SupLaunchFails(s) \/ ChildDies(s)
ConnStep(s) == ConnOpens(s) \/ ConnAnswered(s) \/ UpstreamCloses(s)

-----------------------------------------------------------------------------
(* The world: operators change services, the control plane and the disk    *)
(* come and go, a signal, a kill, systemd's restart of a failed process.   *)

OperatorChanges ==
  /\ \E v \in Versions \ {want} : want' = v
  /\ UNCHANGED <<server, diskOk, apc, main, slots, sups, clock>>

ControlPlaneTurns ==
  /\ \E a \in {"ok", "refused", "error"} \ {server} : server' = a
  /\ UNCHANGED <<want, diskOk, apc, main, slots, sups, clock>>

DiskTurns ==
  /\ Faults /\ diskOk' = ~diskOk
  /\ UNCHANGED <<want, server, apc, main, slots, sups, clock>>

Signal ==
  /\ apc # "exited" /\ ~ctxDone /\ ctxDone' = TRUE
  /\ UNCHANGED <<world, apc, attempt, got, stale, curVersion, file, bridge,
                 failed, slots, sups, clock>>

TimePasses ==
  /\ apc # "exited" /\ (age < MaxAge \/ sinceBeat < MaxAge)
  /\ age' = IF age < MaxAge THEN age + 1 ELSE age
  /\ sinceBeat' = IF sinceBeat < MaxAge THEN sinceBeat + 1 ELSE sinceBeat
  /\ UNCHANGED <<world, apc, main, slots, sups>>

(* The kernel, through Pdeathsig, and systemd take the client down too.    *)
Kill ==
  /\ Kills /\ apc # "exited" /\ apc' = "exited" /\ failed' = TRUE
  /\ cur' = None /\ held' = None
  /\ phase' = [s \in Sups |-> "done"]
  /\ loaded' = [s \in Sups |-> 0]
  /\ conn' = [s \in Sups |-> "none"]
  /\ UNCHANGED <<world, attempt, got, stale, curVersion, file, bridge, ctxDone,
                 cancelled, clock>>

Restart ==
  /\ failed /\ Goto("exited", "boot")
  /\ attempt' = 1 /\ got' = 0 /\ stale' = FALSE /\ curVersion' = 0
  /\ bridge' = "none" /\ ctxDone' = FALSE /\ failed' = FALSE
  /\ age' = 0 /\ sinceBeat' = 0
  /\ UNCHANGED <<world, file, slots, sups>>

WorldStep ==
  \/ OperatorChanges \/ ControlPlaneTurns \/ DiskTurns \/ Signal
  \/ TimePasses \/ Kill \/ Restart

-----------------------------------------------------------------------------
Next ==
  \/ AgentStep \/ WorldStep \/ BridgeSeesCtx
  \/ \E s \in Sups : SupStep(s) \/ ConnStep(s)

(* Goroutines run, timers fire, RPCs end, a cancelled child dies and the   *)
(* auth proxy answers or hangs up.  Nothing makes an open connection end.  *)
Fairness ==
  /\ WF_vars(AgentStep) /\ WF_vars(BridgeSeesCtx)
  /\ \A s \in Sups : /\ WF_vars(SupCheck(s)) /\ WF_vars(SupLaunch(s))
                     /\ WF_vars(CancelledChildDies(s))
                     /\ WF_vars(ConnAnswered(s))

Spec == Init /\ [][Next]_vars
FairSpec == Spec /\ Fairness

-----------------------------------------------------------------------------
(* At most one supervisor goroutine is alive at a time, and it is in the   *)
(* runtime's fields or in the hands of the stopSupervisor that waits for   *)
(* it: neither a rebootstrap nor an exit can lose a rathole client.        *)
OneClient ==
  /\ \A s, u \in Sups : phase[s] # "done" /\ phase[u] # "done" => s = u
  /\ \A s \in Sups : phase[s] # "done" => s \in {cur, held}

(* The process leaves nothing behind: no client and no connection through  *)
(* its bridge, on every way out of Run.                                    *)
NothingLeft ==
  apc = "exited" => \A s \in Sups : phase[s] = "done" /\ conn[s] = "none"

(* The version reported in heartbeats is what the client runs: between two *)
(* applies the running client, and the file it would restart from, carry   *)
(* curVersion, although either may change under the other; or they carry   *)
(* nothing, when a later apply failed with the file truncated.             *)
Settled == apc \in {"loop", "beat", "beaten"}

VersionHonest ==
  Settled =>
    /\ cur # None /\ ~cancelled[cur]
    /\ file \in {curVersion, Torn}
    /\ loaded[cur] \in {0, curVersion, Torn}

(* The retry loop is no trap: a bootstrap gets its answer or gives up.     *)
Bootstrapping == apc \in {"boot", "booted", "backoff"}
BootstrapEnds == Bootstrapping ~> ~Bootstrapping

(* Once services stop changing and the control plane and disk stay sound,  *)
(* an agent that stays up converges: file, report and client reach the     *)
(* wanted version for good, and the client runs again and again.           *)
Sound(v) == want = v /\ server = "ok" /\ diskOk /\ ~ctxDone
StaysUp == apc \notin {"closing", "drain", "close", "finishing", "exited"}
Converged(v) ==
  /\ curVersion = v /\ file = v /\ cur # None
  /\ \A s \in Sups : s = cur => loaded[s] \in {0, v} /\ ~cancelled[s]
ClientUp == \E s \in Sups : s = cur /\ phase[s] = "up"

Settles ==
  \A v \in Versions :
    <>[](Sound(v) /\ StaysUp) => <>[]Converged(v) /\ []<>ClientUp

(* From the heartbeat loop a signal ends the process, however many         *)
(* connections its client holds open through the bridge.                   *)
SignalEndsLoop == apc = "loop" /\ ctxDone ~> apc = "exited"

(* Run returns when its context is cancelled.                              *)
SignalEndsRun == ctxDone ~> apc = "exited"

(* Health: a heartbeat loop silent for over two intervals is reported, as  *)
(* the bootstrap is then at least as old.                                  *)
StaleBootstrap == age > 2
StallReported == Settled /\ sinceBeat > 2 => StaleBootstrap
=============================================================================
