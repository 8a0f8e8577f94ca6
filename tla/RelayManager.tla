----------------------------- MODULE RelayManager -----------------------------
(***************************************************************************)
(* internal/relay: the Manager that keeps one rathole server per active    *)
(* project, driven by the project, site and service RPC handlers after     *)
(* they committed their database write, with the supervisors (through the  *)
(* contract of SupervisedProcess) and the server's start and shutdown.     *)
(*                                                                         *)
(* One action per critical section of Manager.mu, per database read, per   *)
(* file write and per cancel: everything between two of them is local.     *)
(*                                                                         *)
(* Abstractions.  A project's configuration is the version "ver" of the    *)
(* rows it is rendered from; a render reads them at one instant, its       *)
(* first query (a later query that sees a newer row is followed by that    *)
(* row's own Refresh); a handler's database work is one step, its own read *)
(* to write races being the registry's.  A supervisor runs its child from  *)
(* the file it finds when it launches it.  Binary is set: render-only mode *)
(* has no supervisors.  OnStart and OnExit happen with the launch and the  *)
(* exit.                                                                   *)
(***************************************************************************)
EXTENDS Integers

CONSTANTS
  Projects,     (* project row ids                                          *)
  Handlers,     (* concurrent RPC handlers                                  *)
  Boot,         (* the goroutine that runs Manager.Start                    *)
  Sups,         (* bound: names for supervisors, reused once unreferenced   *)
  None,         (* a nil project or supervisor                              *)
  MaxVer,       (* bound: configuration versions per project                *)
  Ops,          (* which RPCs are called                                    *)
  Faults,       (* request contexts expire, renders and launches fail       *)
  Drain         (* Stop follows GracefulStop, as in Server.Run              *)

AllOps == {"create", "mutate", "activate", "disable", "delete"}

ASSUME ConstantsAssumption ==
  /\ Boot \notin Handlers
  /\ None \notin Projects /\ None \notin Sups
  /\ MaxVer \in Nat \ {0}
  /\ Ops \subseteq AllOps
  /\ Faults \in BOOLEAN /\ Drain \in BOOLEAN

Threads == Handlers \cup {Boot}

VARIABLES
  status,       (* projects.status, or "absent" / "deleted"                 *)
  ver,          (* version of the rows the config is rendered from          *)
  file,         (* version in <slug>.toml, 0 when never written             *)
  slot,         (* Manager.sups                                             *)
  closed,       (* Manager.closed                                           *)
  rootDone,     (* Manager.rootCtx, the context given to Start              *)
  owner,        (* the project a supervisor was made for                    *)
  phase,        (* SupervisedProcess!phase of its Run goroutine             *)
  cancelled,    (* its own cancel function was called                       *)
  loaded,       (* version its child runs, 0 when it has none               *)
  gauge,        (* quicktun_server_supervisor_alive{project_id}             *)
  pc, arg, held, seen,   (* a thread: place, project, supervisor, version   *)
  todo,         (* active projects Start has still to add                   *)
  stopPc,       (* the shutdown sequence                                    *)
  stopSet       (* supervisors Stop took from the map, not cancelled yet    *)

dbVars == <<status, ver>>
mgrVars == <<slot, closed>>
supVars == <<owner, phase, cancelled, loaded, gauge>>
thVars == <<pc, arg, held, seen>>
stopVars == <<rootDone, todo, stopPc, stopSet>>
vars == <<status, ver, file, slot, closed, rootDone, owner, phase, cancelled,
          loaded, gauge, pc, arg, held, seen, todo, stopPc, stopSet>>

Live == {"active", "disabled"}

PCs == {"idle", "add", "render", "write", "register", "launch", "refresh",
        "rerender", "rewrite", "cancel", "wait", "swap", "remove", "drop",
        "forget"}

DataTypes ==
  /\ status \in [Projects -> {"absent", "active", "disabled", "deleted"}]
  /\ ver \in [Projects -> 1..MaxVer]
  /\ file \in [Projects -> 0..MaxVer]

MgrTypes == slot \in [Projects -> Sups \cup {None}] /\ closed \in BOOLEAN

SupTypes ==
  /\ owner \in [Sups -> Projects \cup {None}]
  /\ phase \in [Sups -> {"queued", "looping", "starting", "up", "done"}]
  /\ cancelled \in [Sups -> BOOLEAN]
  /\ loaded \in [Sups -> 0..MaxVer]
  /\ gauge \in [Projects -> {"absent", "down", "up"}]

ThreadTypes ==
  /\ pc \in [Threads -> PCs]
  /\ arg \in [Threads -> Projects \cup {None}]
  /\ held \in [Threads -> Sups \cup {None}]
  /\ seen \in [Threads -> 0..MaxVer]

StopTypes ==
  /\ rootDone \in BOOLEAN
  /\ todo \subseteq Projects
  /\ stopPc \in {"serving", "draining", "cancelling", "waiting", "stopped"}
  /\ stopSet \subseteq Sups

TypeOK == DataTypes /\ MgrTypes /\ SupTypes /\ ThreadTypes /\ StopTypes

(* Start's SELECT of the active projects is the initial value of todo.     *)
Init ==
  /\ status \in [Projects -> {"absent", "active", "disabled"}]
  /\ ver = [p \in Projects |-> 1]
  /\ file = [p \in Projects |-> 0]
  /\ slot = [p \in Projects |-> None]
  /\ closed = FALSE /\ rootDone = FALSE
  /\ owner = [s \in Sups |-> None]
  /\ phase = [s \in Sups |-> "done"]
  /\ cancelled = [s \in Sups |-> FALSE]
  /\ loaded = [s \in Sups |-> 0]
  /\ gauge = [p \in Projects |-> "absent"]
  /\ pc = [t \in Threads |-> "idle"]
  /\ arg = [t \in Threads |-> None]
  /\ held = [t \in Threads |-> None]
  /\ seen = [t \in Threads |-> 0]
  /\ todo = {p \in Projects : status[p] = "active"}
  /\ stopPc = "serving" /\ stopSet = {}

-----------------------------------------------------------------------------
(* Control flow of a thread                                                *)

Goto(t, from, to) == pc[t] = from /\ pc' = [pc EXCEPT ![t] = to]

(* The call returns, with or without an error: no handler does more than   *)
(* log what the manager returned.                                          *)
Return(t, from) ==
  /\ Goto(t, from, "idle")
  /\ arg' = [arg EXCEPT ![t] = None]
  /\ held' = [held EXCEPT ![t] = None]
  /\ seen' = [seen EXCEPT ![t] = 0]

Started == todo = {} /\ pc[Boot] = "idle"

Call(h, p, entry) ==
  /\ h \in Handlers
  /\ Started
  /\ Drain => stopPc = "serving"
  /\ Goto(h, "idle", entry)
  /\ arg' = [arg EXCEPT ![h] = p]
  /\ UNCHANGED <<held, seen, file, mgrVars, supVars, stopVars>>

-----------------------------------------------------------------------------
(* The handlers, up to their call of the manager: the database write.      *)

CreateProject(h, p) ==
  /\ "create" \in Ops /\ status[p] = "absent"
  /\ status' = [status EXCEPT ![p] = "active"]
  /\ Call(h, p, "add") /\ UNCHANGED ver

(* Create, update or delete a site or service, rotate or revoke a site     *)
(* token, or update an active project: the rows behind the config change.  *)
(* The site and service handlers do not look at the project's status.      *)
ChangeConfig(h, p) ==
  /\ "mutate" \in Ops /\ status[p] \in Live /\ ver[p] < MaxVer
  /\ ver' = [ver EXCEPT ![p] = @ + 1]
  /\ Call(h, p, "refresh") /\ UNCHANGED status

ActivateProject(h, p) ==
  /\ "activate" \in Ops /\ status[p] \in Live
  /\ status' = [status EXCEPT ![p] = "active"]
  /\ Call(h, p, "refresh") /\ UNCHANGED ver

DisableProject(h, p) ==
  /\ "disable" \in Ops /\ status[p] \in Live
  /\ status' = [status EXCEPT ![p] = "disabled"]
  /\ Call(h, p, "remove") /\ UNCHANGED ver

DeleteProject(h, p) ==
  /\ "delete" \in Ops /\ status[p] \in Live
  /\ status' = [status EXCEPT ![p] = "deleted"]
  /\ Call(h, p, "remove") /\ UNCHANGED ver

Request(h, p) ==
  \/ CreateProject(h, p) \/ ChangeConfig(h, p) \/ ActivateProject(h, p)
  \/ DisableProject(h, p) \/ DeleteProject(h, p)

(* Start: one AddProject after the other, errors only logged.              *)
StartNext(p) ==
  /\ p \in todo /\ todo' = todo \ {p}
  /\ Goto(Boot, "idle", "add")
  /\ arg' = [arg EXCEPT ![Boot] = p]
  /\ UNCHANGED <<held, seen, file, dbVars, mgrVars, supVars, rootDone, stopPc,
                 stopSet>>

-----------------------------------------------------------------------------
(* AddProject and spawn                                                    *)

(* Mutant: a manager that forgot it was stopped.                           *)
VacantThoughClosed(p) == slot[p] = None

(* The test both critical sections of AddProject and spawn make.           *)
Vacant(p) == ~closed /\ slot[p] = None

(* AddProject's critical section.                                          *)
AddCheck(t) ==
  /\ pc[t] = "add"
  /\ IF Vacant(arg[t])
     THEN Goto(t, "add", "render") /\ UNCHANGED <<arg, held, seen>>
     ELSE Return(t, "add")
  /\ UNCHANGED <<file, dbVars, mgrVars, supVars, stopVars>>

(* renderToFile's reads: a deleted project is an error, a disabled one is  *)
(* not.                                                                    *)
Render(t, from, to) ==
  /\ pc[t] = from
  /\ IF status[arg[t]] \in Live
     THEN Goto(t, from, to) /\ seen' = [seen EXCEPT ![t] = ver[arg[t]]]
                            /\ UNCHANGED <<arg, held>>
     ELSE Return(t, from)
  /\ UNCHANGED <<file, dbVars, mgrVars, supVars, stopVars>>

RenderFails(t, from) ==
  /\ Faults /\ Return(t, from)
  /\ UNCHANGED <<file, dbVars, mgrVars, supVars, stopVars>>

Write(t, from, to) ==
  /\ Goto(t, from, to)
  /\ file' = [file EXCEPT ![arg[t]] = seen[t]]
  /\ seen' = [seen EXCEPT ![t] = 0]
  /\ UNCHANGED <<arg, held, dbVars, mgrVars, supVars, stopVars>>

Unused(s) ==
  /\ phase[s] = "done" /\ s \notin stopSet
  /\ \A p \in Projects : slot[p] # s
  /\ \A t \in Threads : held[t] # s

(* spawn's critical section: register, unless Stop or another caller came  *)
(* first.  The goroutine is launched after the unlock.                     *)
Register(t) ==
  /\ pc[t] = "register"
  /\ \/ /\ ~Vacant(arg[t])
        /\ Return(t, "register")
        /\ UNCHANGED <<slot, owner, phase, cancelled>>
     \/ /\ Vacant(arg[t])
        /\ \E s \in Sups :
             /\ Unused(s)
             /\ slot' = [slot EXCEPT ![arg[t]] = s]
             /\ owner' = [owner EXCEPT ![s] = arg[t]]
             /\ phase' = [phase EXCEPT ![s] = "queued"]
             /\ cancelled' = [cancelled EXCEPT ![s] = FALSE]
             /\ held' = [held EXCEPT ![t] = s]
        /\ Goto(t, "register", "launch") /\ UNCHANGED <<arg, seen>>
  /\ UNCHANGED <<file, dbVars, closed, loaded, gauge, stopVars>>

(* wg.Add and the go statement.                                            *)
LaunchRun(t) ==
  /\ Return(t, "launch")
  /\ phase' = [phase EXCEPT ![held[t]] = "looping"]
  /\ UNCHANGED <<file, dbVars, mgrVars, owner, cancelled, loaded, gauge,
                 stopVars>>

-----------------------------------------------------------------------------
(* Refresh                                                                 *)

(* Mutant: Refresh leaves a project that has a supervisor alone.           *)
RefreshOnlyAdds(t) ==
  /\ Goto(t, "refresh", "add")
  /\ UNCHANGED <<arg, held, seen, file, dbVars, mgrVars, supVars, stopVars>>

RefreshLookup(t) ==
  /\ pc[t] = "refresh"
  /\ \/ closed /\ Return(t, "refresh")
     \/ /\ ~closed /\ slot[arg[t]] = None
        /\ Goto(t, "refresh", "add") /\ UNCHANGED <<arg, held, seen>>
     \/ /\ ~closed /\ slot[arg[t]] # None
        /\ Goto(t, "refresh", "rerender")
        /\ held' = [held EXCEPT ![t] = slot[arg[t]]]
        /\ UNCHANGED <<arg, seen>>
  /\ UNCHANGED <<file, dbVars, mgrVars, supVars, stopVars>>

(* Mutant: Refresh waits for a supervisor nobody cancelled.                *)
RefreshNoCancel(t) ==
  /\ Goto(t, "cancel", "wait")
  /\ UNCHANGED <<arg, held, seen, file, dbVars, mgrVars, supVars, stopVars>>

RefreshCancel(t) ==
  /\ Goto(t, "cancel", "wait")
  /\ cancelled' = [cancelled EXCEPT ![held[t]] = TRUE]
  /\ UNCHANGED <<arg, held, seen, file, dbVars, mgrVars, owner, phase, loaded,
                 gauge, stopVars>>

(* Mutant: Refresh does not wait for the old supervisor.                   *)
RefreshNoWait(t) ==
  /\ Goto(t, "wait", "swap")
  /\ UNCHANGED <<arg, held, seen, file, dbVars, mgrVars, supVars, stopVars>>

RefreshWait(t) ==
  /\ Goto(t, "wait", "swap")
  /\ phase[held[t]] = "done"
  /\ UNCHANGED <<arg, held, seen, file, dbVars, mgrVars, supVars, stopVars>>

(* The request's context ends first: the cancelled supervisor stays in the *)
(* map.                                                                    *)
RefreshGivesUp(t) ==
  /\ Faults /\ Return(t, "wait")
  /\ UNCHANGED <<file, dbVars, mgrVars, supVars, stopVars>>

(* Mutant: Refresh deletes whatever is there.                              *)
RefreshDropsAny(t) ==
  /\ Goto(t, "swap", "add")
  /\ slot' = [slot EXCEPT ![arg[t]] = None]
  /\ held' = [held EXCEPT ![t] = None]
  /\ UNCHANGED <<arg, seen, file, dbVars, closed, supVars, stopVars>>

RefreshSwap(t) ==
  /\ Goto(t, "swap", "add")
  /\ slot' = IF slot[arg[t]] = held[t] THEN [slot EXCEPT ![arg[t]] = None]
                                       ELSE slot
  /\ held' = [held EXCEPT ![t] = None]
  /\ UNCHANGED <<arg, seen, file, dbVars, closed, supVars, stopVars>>

-----------------------------------------------------------------------------
(* RemoveProject: delete from the map, cancel, drop the metric series.  It *)
(* does not wait for the supervisor.                                       *)

(* Mutant: the entry is not deleted.                                       *)
RemoveKeepsEntry(t) ==
  /\ LET s == slot[arg[t]] IN
     /\ Goto(t, "remove", IF s = None THEN "forget" ELSE "drop")
     /\ held' = [held EXCEPT ![t] = s]
  /\ UNCHANGED <<arg, seen, file, dbVars, mgrVars, supVars, stopVars>>

RemoveLookup(t) ==
  /\ LET s == slot[arg[t]] IN
     /\ Goto(t, "remove", IF s = None THEN "forget" ELSE "drop")
     /\ held' = [held EXCEPT ![t] = s]
  /\ slot' = [slot EXCEPT ![arg[t]] = None]
  /\ UNCHANGED <<arg, seen, file, dbVars, closed, supVars, stopVars>>

RemoveCancel(t) ==
  /\ Goto(t, "drop", "forget")
  /\ cancelled' = [cancelled EXCEPT ![held[t]] = TRUE]
  /\ held' = [held EXCEPT ![t] = None]
  /\ UNCHANGED <<arg, seen, file, dbVars, mgrVars, owner, phase, loaded,
                 gauge, stopVars>>

RemoveForget(t) ==
  /\ Return(t, "forget")
  /\ gauge' = [gauge EXCEPT ![arg[t]] = "absent"]
  /\ UNCHANGED <<file, dbVars, mgrVars, owner, phase, cancelled, loaded,
                 stopVars>>

ThreadStep(t) ==
  \/ AddCheck(t) \/ Register(t) \/ LaunchRun(t)
  \/ Render(t, "render", "write") \/ Write(t, "write", "register")
  \/ RefreshLookup(t)
  \/ Render(t, "rerender", "rewrite") \/ Write(t, "rewrite", "cancel")
  \/ RefreshCancel(t) \/ RefreshWait(t) \/ RefreshSwap(t)
  \/ RemoveLookup(t) \/ RemoveCancel(t) \/ RemoveForget(t)

ThreadFault(t) ==
  \/ RenderFails(t, "render") \/ RenderFails(t, "write")
  \/ RenderFails(t, "rerender") \/ RenderFails(t, "rewrite")
  \/ RefreshGivesUp(t)

-----------------------------------------------------------------------------
(* The supervisors' goroutines and children                                *)

(* Its own context, or the root context it was derived from.               *)
Cancelled(s) == cancelled[s] \/ rootDone

SupMoves(s, from, to) == phase[s] = from /\ phase' = [phase EXCEPT ![s] = to]

(* Mutant: the loop does not look at its context.                          *)
SupCheckBlind(s) ==
  /\ SupMoves(s, "looping", "starting")
  /\ UNCHANGED <<file, dbVars, mgrVars, thVars, owner, cancelled, loaded,
                 gauge, stopVars>>

SupCheck(s) ==
  /\ SupMoves(s, "looping", IF Cancelled(s) THEN "done" ELSE "starting")
  /\ UNCHANGED <<file, dbVars, mgrVars, thVars, owner, cancelled, loaded,
                 gauge, stopVars>>

(* Mutant: OnStart is not wired to the gauge.                              *)
SupLaunchSilent(s) ==
  /\ SupMoves(s, "starting", "up")
  /\ loaded' = [loaded EXCEPT ![s] = file[owner[s]]]
  /\ UNCHANGED <<file, dbVars, mgrVars, thVars, owner, cancelled, gauge, stopVars>>

SupLaunch(s) ==
  /\ SupMoves(s, "starting", "up")
  /\ loaded' = [loaded EXCEPT ![s] = file[owner[s]]]
  /\ gauge' = [gauge EXCEPT ![owner[s]] = "up"]
  /\ UNCHANGED <<file, dbVars, mgrVars, thVars, owner, cancelled, stopVars>>

SupDown(s, from) ==
  /\ SupMoves(s, from, "looping")
  /\ loaded' = [loaded EXCEPT ![s] = 0]
  /\ gauge' = [gauge EXCEPT ![owner[s]] = "down"]
  /\ UNCHANGED <<file, dbVars, mgrVars, thVars, owner, cancelled, stopVars>>

SupLaunchFails(s) == Faults /\ SupDown(s, "starting")
ChildDies(s) == SupDown(s, "up")
CancelledChildDies(s) == Cancelled(s) /\ ChildDies(s)

SupStep(s) ==
  SupCheck(s) \/ SupLaunch(s) \/ SupLaunchFails(s) \/ ChildDies(s)

-----------------------------------------------------------------------------
(* Server.Run's end: the root context, GracefulStop, Manager.Stop          *)

RootCancelled ==
  /\ ~rootDone /\ rootDone' = TRUE
  /\ UNCHANGED <<file, dbVars, mgrVars, supVars, thVars, todo, stopPc, stopSet>>

StopStep(from, to) == stopPc = from /\ stopPc' = to

BeginShutdown ==
  /\ Started /\ StopStep("serving", "draining")
  /\ UNCHANGED <<file, dbVars, mgrVars, supVars, thVars, rootDone, todo,
                 stopSet>>

StopTakesMap ==
  /\ StopStep("draining", "cancelling")
  /\ Drain => \A h \in Handlers : pc[h] = "idle"
  /\ closed' = TRUE
  /\ stopSet' = {slot[p] : p \in Projects} \ {None}
  /\ slot' = [p \in Projects |-> None]
  /\ UNCHANGED <<file, dbVars, supVars, thVars, rootDone, todo>>

StopCancels(s) ==
  /\ stopPc = "cancelling" /\ s \in stopSet
  /\ stopSet' = stopSet \ {s}
  /\ cancelled' = [cancelled EXCEPT ![s] = TRUE]
  /\ UNCHANGED <<file, dbVars, mgrVars, owner, phase, loaded, gauge, thVars,
                 rootDone, todo, stopPc>>

StopAllCancelled ==
  /\ stopSet = {} /\ StopStep("cancelling", "waiting")
  /\ UNCHANGED <<file, dbVars, mgrVars, supVars, thVars, rootDone, todo,
                 stopSet>>

(* Mutant: no wg.Wait.                                                     *)
StopReturnsAtOnce ==
  /\ StopStep("waiting", "stopped")
  /\ UNCHANGED <<file, dbVars, mgrVars, supVars, thVars, rootDone, todo,
                 stopSet>>

(* wg.Wait: a queued goroutine has not been added to the group yet.        *)
StopReturns ==
  /\ \A s \in Sups : phase[s] \in {"queued", "done"}
  /\ StopStep("waiting", "stopped")
  /\ UNCHANGED <<file, dbVars, mgrVars, supVars, thVars, rootDone, todo,
                 stopSet>>

ShutdownStep ==
  \/ StopTakesMap \/ (\E s \in Sups : StopCancels(s))
  \/ StopAllCancelled \/ StopReturns

-----------------------------------------------------------------------------
Next ==
  \/ \E h \in Handlers, p \in Projects : Request(h, p)
  \/ \E p \in Projects : StartNext(p)
  \/ \E t \in Threads : ThreadStep(t) \/ ThreadFault(t)
  \/ \E s \in Sups : SupStep(s)
  \/ RootCancelled \/ BeginShutdown \/ ShutdownStep

(* Goroutines run; a cancelled child dies, which is Supervisor's promise.  *)
(* Requests, faults, crashes and shutdown happen or not.                   *)
Fairness ==
  /\ \A p \in Projects : WF_vars(StartNext(p))
  /\ \A t \in Threads : WF_vars(ThreadStep(t))
  /\ \A s \in Sups : /\ WF_vars(SupCheck(s)) /\ WF_vars(SupLaunch(s))
                     /\ WF_vars(CancelledChildDies(s))
  /\ WF_vars(ShutdownStep)

Spec == Init /\ [][Next]_vars
FairSpec == Spec /\ Fairness

-----------------------------------------------------------------------------
(* Properties that hold under every interleaving                           *)

(* The map is injective and typed by project: a slot's supervisor was made *)
(* for that project, so cancelling by project id never hits another's.     *)
SlotsOwned == \A p \in Projects : slot[p] # None => owner[slot[p]] = p

(* What a place in a call implies: a busy thread knows its project, some   *)
(* hold a supervisor, and a registered goroutine is launched by exactly    *)
(* one thread, before which it does nothing.                               *)
Holding == {"launch", "rerender", "rewrite", "cancel", "wait", "swap", "drop"}

BusyKnowsProject == \A t \in Threads : pc[t] # "idle" => arg[t] \in Projects
HolderHasSup == \A t \in Threads : pc[t] \in Holding => held[t] \in Sups
RunnerHasProject == \A s \in Sups : phase[s] # "done" => owner[s] \in Projects
LaunchesQueued == \A t \in Threads : pc[t] = "launch" => phase[held[t]] = "queued"
LaunchedOnce ==
  \A t, u \in Threads :
    pc[t] = "launch" /\ pc[u] = "launch" /\ held[t] = held[u] => t = u

Wiring ==
  /\ BusyKnowsProject /\ HolderHasSup /\ RunnerHasProject
  /\ LaunchesQueued /\ LaunchedOnce

TypesAndWiring == TypeOK /\ Wiring

(* No rathole server is ever out of reach: a supervisor that still runs,   *)
(* or will, and was not cancelled, is the one in its project's slot, or is *)
(* in the hands of the RemoveProject or Stop call about to cancel it.      *)
(* Hence two uncancelled servers of one project never coexist for longer   *)
(* than that.                                                              *)
BeingDropped(s) == \E t \in Threads : pc[t] = "drop" /\ held[t] = s

NoOrphan ==
  \A s \in Sups : phase[s] # "done" /\ ~cancelled[s] =>
    slot[owner[s]] = s \/ s \in stopSet \/ BeingDropped(s)

(* Once Stop has taken the map nothing is registered again.                *)
ClosedStaysEmpty == closed => \A p \in Projects : slot[p] = None

(* A call that cancelled a supervisor and waits for it only goes on when   *)
(* that very supervisor is gone, although names and slots change under it. *)
SwapAfterExit ==
  \A t \in Threads : pc[t] = "swap" =>
    phase[held[t]] = "done" /\ cancelled[held[t]]

(* Every call returns, so a request never hangs on a dying child.          *)
CallsReturn == \A t \in Threads : pc[t] # "idle" ~> pc[t] = "idle"

(* A shutdown that began ends, and whatever is in flight when Stop returns *)
(* comes to rest: no supervisor runs for ever behind the server's back.    *)
AllDone == \A s \in Sups : phase[s] = "done"
ShutdownSettles == stopPc = "draining" ~> [](stopPc = "stopped" /\ AllDone)

(* Every supervisor the manager makes is used within its contract.         *)
Contract(s) == INSTANCE SupervisedProcess WITH
  phase <- phase[s], cancelled <- Cancelled(s)
SupervisorsKeepContract ==
  /\ \A s \in Sups : Contract(s)!Init
  /\ [][\A s \in Sups : [Contract(s)!Next]_(Contract(s)!vars)]_vars

-----------------------------------------------------------------------------
(* Properties that hold under a discipline the run's constants state       *)

(* In the server, Stop runs when no handler does: then nothing is alive,   *)
(* or about to be, when it returns.                                        *)
NothingAfterStop == stopPc = "stopped" => AllDone

Quiet ==
  /\ Started /\ \A t \in Threads : pc[t] = "idle"
  /\ stopPc = "serving" /\ ~rootDone

(* Between requests, an active project has a supervisor that will keep its *)
(* server running, and a deleted one has none.                             *)
ServedAsAsked ==
  Quiet => \A p \in Projects :
    /\ status[p] = "active" => slot[p] # None /\ ~cancelled[slot[p]]
    /\ status[p] = "deleted" => slot[p] = None

(* Between requests, the file and the running server of an active project  *)
(* carry the newest configuration: what the last request wrote took effect.*)
ConfigApplied ==
  Quiet => \A p \in Projects : status[p] = "active" =>
    /\ file[p] = ver[p]
    /\ slot[p] # None => loaded[slot[p]] \in {0, ver[p]}

(* One rathole server per project: two would fight for the same ports.     *)
OneServerPerProject ==
  \A s, u \in Sups :
    phase[s] = "up" /\ phase[u] = "up" /\ owner[s] = owner[u] => s = u

(* Between requests the alive gauge of a served project tells whether its  *)
(* server runs.                                                            *)
GaugeTruth ==
  Quiet => \A p \in Projects : slot[p] # None =>
    (phase[slot[p]] = "up" => gauge[p] = "up")
=============================================================================
