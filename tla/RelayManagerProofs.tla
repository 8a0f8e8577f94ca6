-------------------------- MODULE RelayManagerProofs --------------------------
(***************************************************************************)
(* Proofs about RelayManager for every set of projects, handlers and       *)
(* supervisors, every bound and every choice of RPCs and faults.           *)
(***************************************************************************)
EXTENDS RelayManager, TLAPS

-----------------------------------------------------------------------------
(* Type correctness, one group of variables at a time                      *)

(* The initial state is typed.                                             *)
LEMMA TypeInit == Init => TypeOK
<1> SUFFICES ASSUME Init PROVE TypeOK OBVIOUS
<1> USE ConstantsAssumption DEF Init
<1>1. DataTypes BY DEF DataTypes
<1>2. MgrTypes BY DEF MgrTypes
<1>3. SupTypes BY DEF SupTypes
<1>4. ThreadTypes BY DEF ThreadTypes, PCs
<1>5. StopTypes BY DEF StopTypes
<1> QED BY <1>1, <1>2, <1>3, <1>4, <1>5 DEF TypeOK

(* A group that a step leaves alone keeps its type.                        *)
LEMMA Frames ==
  /\ DataTypes /\ UNCHANGED file /\ UNCHANGED dbVars => DataTypes'
  /\ MgrTypes /\ UNCHANGED mgrVars => MgrTypes'
  /\ SupTypes /\ UNCHANGED supVars => SupTypes'
  /\ ThreadTypes /\ UNCHANGED thVars => ThreadTypes'
  /\ StopTypes /\ UNCHANGED stopVars => StopTypes'
BY DEF DataTypes, MgrTypes, SupTypes, ThreadTypes, StopTypes, dbVars, mgrVars,
       supVars, thVars, stopVars

(* A thread only moves to places that exist.                               *)
LEMMA GotoTypes ==
  ASSUME ThreadTypes, NEW t \in Threads, NEW from, NEW to \in PCs,
         Goto(t, from, to)
  PROVE  pc' \in [Threads -> PCs]
BY DEF ThreadTypes, Goto

(* A thread that returns drops its locals and stays typed.                 *)
LEMMA ReturnTypes ==
  ASSUME ThreadTypes, NEW t \in Threads, NEW from, Return(t, from)
  PROVE  ThreadTypes'
BY GotoTypes, ConstantsAssumption DEF ThreadTypes, Return, PCs

(* A handler's database write and its call of the manager.                 *)
LEMMA RequestTypes ==
  ASSUME TypeOK, NEW h \in Handlers, NEW p \in Projects, Request(h, p)
  PROVE  TypeOK'
<1> USE DEF TypeOK
<1>1. PICK entry \in {"add", "refresh", "remove"} : Call(h, p, entry)
  BY DEF Request, CreateProject, ChangeConfig, ActivateProject,
         DisableProject, DeleteProject
<1>2. DataTypes'
  BY <1>1, ConstantsAssumption DEF Request, CreateProject, ChangeConfig,
     ActivateProject, DisableProject, DeleteProject, Call, DataTypes
<1>3. ThreadTypes'
  <2>1. h \in Threads BY DEF Threads
  <2>2. pc' \in [Threads -> PCs] BY <1>1, <2>1, GotoTypes DEF Call, PCs
  <2> QED BY <1>1, <2>1, <2>2 DEF Call, ThreadTypes
<1> QED BY <1>1, <1>2, <1>3, Frames DEF Call

(* renderToFile's reads, by a thread that knows its project.               *)
LEMMA RenderTypes ==
  ASSUME TypeOK, Wiring, NEW t \in Threads, NEW from \in {"render", "rerender"},
         NEW to \in PCs, Render(t, from, to)
  PROVE  TypeOK'
<1> USE DEF TypeOK
<1>1. ver[arg[t]] \in 0..MaxVer
  BY ConstantsAssumption DEF Render, DataTypes, Wiring, BusyKnowsProject
<1>2. ThreadTypes'
  <2>1. CASE Return(t, from) BY <2>1, ReturnTypes
  <2>2. CASE Goto(t, from, to) /\ seen' = [seen EXCEPT ![t] = ver[arg[t]]]
               /\ UNCHANGED <<arg, held>>
    BY <1>1, <2>2, GotoTypes DEF ThreadTypes
  <2> QED BY <2>1, <2>2 DEF Render
<1> QED BY <1>2, Frames DEF Render

(* renderToFile's write.                                                   *)
LEMMA WriteTypes ==
  ASSUME TypeOK, NEW t \in Threads, NEW from, NEW to \in PCs, Write(t, from, to)
  PROVE  TypeOK'
<1> USE DEF TypeOK
<1>1. ThreadTypes' BY GotoTypes, ConstantsAssumption DEF Write, ThreadTypes
<1>2. DataTypes' BY DEF Write, DataTypes, ThreadTypes, dbVars
<1> QED BY <1>1, <1>2, Frames DEF Write

(* Every step of a call of the manager.                                    *)
LEMMA ThreadStepTypes ==
  ASSUME TypeOK, Wiring, NEW t \in Threads, ThreadStep(t)
  PROVE  TypeOK'
<1> USE DEF TypeOK
<1>1. CASE AddCheck(t)
  <2>1. ThreadTypes'
    BY <1>1, ReturnTypes, GotoTypes DEF AddCheck, Vacant, ThreadTypes, PCs
  <2> QED BY <1>1, <2>1, Frames DEF AddCheck, Vacant
<1>2. CASE Register(t)
  <2>1. ThreadTypes'
    BY <1>2, ReturnTypes, GotoTypes DEF Register, Vacant, ThreadTypes, PCs
  <2>2. MgrTypes'
    BY <1>2 DEF Register, Vacant, MgrTypes
  <2>3. CASE UNCHANGED <<owner, phase, cancelled>>
    BY <1>2, <2>1, <2>2, <2>3, Frames DEF Register, Vacant, supVars
  <2>4. ASSUME NEW s \in Sups,
               owner' = [owner EXCEPT ![s] = arg[t]],
               phase' = [phase EXCEPT ![s] = "queued"],
               cancelled' = [cancelled EXCEPT ![s] = FALSE]
        PROVE  TypeOK'
    <3>1. arg[t] \in Projects \cup {None} BY DEF ThreadTypes
    <3>2. SupTypes' BY <1>2, <2>4, <3>1 DEF Register, Vacant, SupTypes
    <3> QED BY <1>2, <2>1, <2>2, <3>2, Frames DEF Register, Vacant
  <2> QED BY <1>2, <2>3, <2>4 DEF Register, Vacant
<1>3. CASE LaunchRun(t)
  <2>1. ThreadTypes' BY <1>3, ReturnTypes DEF LaunchRun
  <2>2. SupTypes' BY <1>3 DEF LaunchRun, SupTypes
  <2> QED BY <1>3, <2>1, <2>2, Frames DEF LaunchRun
<1>4. CASE Render(t, "render", "write") \/ Render(t, "rerender", "rewrite")
  BY <1>4, RenderTypes DEF PCs
<1>5. CASE Write(t, "write", "register") \/ Write(t, "rewrite", "cancel")
  BY <1>5, WriteTypes DEF PCs
<1>6. CASE RefreshLookup(t)
  <2>1. CASE UNCHANGED <<arg, held, seen>>
    BY <1>6, <2>1, GotoTypes, ReturnTypes, Frames
    DEF RefreshLookup, ThreadTypes, PCs
  <2>2. CASE Return(t, "refresh")
    BY <1>6, <2>2, ReturnTypes, Frames DEF RefreshLookup
  <2>3. CASE /\ Goto(t, "refresh", "rerender")
             /\ held' = [held EXCEPT ![t] = slot[arg[t]]]
             /\ UNCHANGED <<arg, seen>>
    <3>1. slot[arg[t]] \in Sups \cup {None}
      BY <1>6 DEF RefreshLookup, MgrTypes, Wiring, BusyKnowsProject
    <3>2. ThreadTypes' BY <2>3, <3>1, GotoTypes DEF ThreadTypes, PCs
    <3> QED BY <1>6, <3>2, Frames DEF RefreshLookup
  <2> QED BY <1>6, <2>1, <2>2, <2>3 DEF RefreshLookup
<1>7. CASE RefreshCancel(t)
  <2>1. ThreadTypes' BY <1>7, GotoTypes DEF RefreshCancel, ThreadTypes, PCs
  <2>2. SupTypes' BY <1>7 DEF RefreshCancel, SupTypes
  <2> QED BY <1>7, <2>1, <2>2, Frames DEF RefreshCancel
<1>8. CASE RefreshWait(t)
  <2>1. ThreadTypes' BY <1>8, GotoTypes DEF RefreshWait, ThreadTypes, PCs
  <2> QED BY <1>8, <2>1, Frames DEF RefreshWait
<1>9. CASE RefreshSwap(t)
  <2>1. ThreadTypes' BY <1>9, GotoTypes DEF RefreshSwap, ThreadTypes, PCs
  <2>2. MgrTypes' BY <1>9 DEF RefreshSwap, MgrTypes
  <2> QED BY <1>9, <2>1, <2>2, Frames DEF RefreshSwap
<1>10. CASE RemoveLookup(t)
  <2>1. slot[arg[t]] \in Sups \cup {None}
    BY <1>10 DEF RemoveLookup, Goto, MgrTypes, Wiring, BusyKnowsProject
  <2>2. ThreadTypes'
    BY <1>10, <2>1, GotoTypes DEF RemoveLookup, ThreadTypes, PCs
  <2>3. MgrTypes' BY <1>10 DEF RemoveLookup, MgrTypes
  <2> QED BY <1>10, <2>2, <2>3, Frames DEF RemoveLookup
<1>11. CASE RemoveCancel(t)
  <2>1. ThreadTypes' BY <1>11, GotoTypes DEF RemoveCancel, ThreadTypes, PCs
  <2>2. SupTypes' BY <1>11 DEF RemoveCancel, SupTypes
  <2> QED BY <1>11, <2>1, <2>2, Frames DEF RemoveCancel
<1>12. CASE RemoveForget(t)
  <2>1. ThreadTypes' BY <1>12, ReturnTypes DEF RemoveForget
  <2>2. SupTypes' BY <1>12 DEF RemoveForget, SupTypes
  <2> QED BY <1>12, <2>1, <2>2, Frames DEF RemoveForget
<1> QED BY <1>1, <1>2, <1>3, <1>4, <1>5, <1>6, <1>7, <1>8, <1>9, <1>10, <1>11,
           <1>12 DEF ThreadStep

(* Start, faults, supervisors and the shutdown sequence.                   *)
LEMMA OtherStepTypes ==
  ASSUME TypeOK, Wiring
  PROVE  /\ \A p \in Projects : StartNext(p) => TypeOK'
         /\ \A t \in Threads : ThreadFault(t) => TypeOK'
         /\ \A s \in Sups : SupStep(s) => TypeOK'
         /\ RootCancelled \/ BeginShutdown \/ ShutdownStep => TypeOK'
<1> USE DEF TypeOK
<1>1. ASSUME NEW p \in Projects, StartNext(p)
      PROVE  TypeOK'
  <2>1. ThreadTypes'
    BY <1>1, GotoTypes DEF StartNext, ThreadTypes, Threads, PCs
  <2>2. StopTypes' BY <1>1 DEF StartNext, StopTypes
  <2> QED BY <1>1, <2>1, <2>2, Frames DEF StartNext
<1>2. ASSUME NEW t \in Threads, ThreadFault(t)
      PROVE  TypeOK'
  BY <1>2, ReturnTypes, Frames DEF ThreadFault, RenderFails, RefreshGivesUp
<1>3. ASSUME NEW s \in Sups, SupStep(s)
      PROVE  TypeOK'
  <2>1. SupTypes'
    <3>1. phase[s] # "done" => file[owner[s]] \in 0..MaxVer
      BY DEF Wiring, RunnerHasProject, DataTypes
    <3>2. CASE SupCheck(s) BY <3>2 DEF SupCheck, SupMoves, SupTypes
    <3>3. CASE SupLaunch(s) BY <3>1, <3>3 DEF SupLaunch, SupMoves, SupTypes
    <3>4. CASE SupDown(s, "starting") \/ SupDown(s, "up")
      BY <3>4, ConstantsAssumption DEF SupDown, SupMoves, SupTypes
    <3> QED BY <1>3, <3>2, <3>3, <3>4 DEF SupStep, SupLaunchFails, ChildDies
  <2> QED BY <1>3, <2>1, Frames DEF SupStep, SupCheck, SupLaunch, SupDown,
             SupLaunchFails, ChildDies
<1>4. CASE RootCancelled \/ BeginShutdown \/ StopAllCancelled \/ StopReturns
  <2>1. StopTypes'
    BY <1>4 DEF RootCancelled, BeginShutdown, StopAllCancelled, StopReturns,
       StopStep, StopTypes
  <2> QED BY <1>4, <2>1, Frames DEF RootCancelled, BeginShutdown,
             StopAllCancelled, StopReturns
<1>5. CASE StopTakesMap
  <2>1. StopTypes' BY <1>5 DEF StopTakesMap, StopStep, StopTypes, MgrTypes
  <2>2. MgrTypes' BY <1>5 DEF StopTakesMap, MgrTypes
  <2> QED BY <1>5, <2>1, <2>2, Frames DEF StopTakesMap
<1>6. ASSUME NEW s \in Sups, StopCancels(s)
      PROVE  TypeOK'
  <2>1. StopTypes' BY <1>6 DEF StopCancels, StopTypes
  <2>2. SupTypes' BY <1>6 DEF StopCancels, SupTypes
  <2> QED BY <1>6, <2>1, <2>2, Frames DEF StopCancels
<1> QED BY <1>1, <1>2, <1>3, <1>4, <1>5, <1>6 DEF ShutdownStep

(* Every step keeps the types.                                             *)
LEMMA TypeStep ==
  ASSUME TypeOK, Wiring, [Next]_vars
  PROVE  TypeOK'
<1>1. CASE UNCHANGED vars
  BY <1>1, Frames DEF TypeOK, vars, dbVars, mgrVars, supVars, thVars, stopVars
<1>2. CASE Next
  BY <1>2, RequestTypes, ThreadStepTypes, OtherStepTypes DEF Next
<1> QED BY <1>1, <1>2

-----------------------------------------------------------------------------
(* Wiring                                                                  *)

(* Nobody is busy at first.                                                *)
LEMMA WiringInit == Init => Wiring
BY DEF Init, Wiring, BusyKnowsProject, HolderHasSup, RunnerHasProject,
       LaunchesQueued, LaunchedOnce, Holding

(* A step of neither a thread nor a supervisor keeps the wiring.           *)
LEMMA WiringFrame ==
  ASSUME Wiring, UNCHANGED thVars, UNCHANGED <<owner, phase>>
  PROVE  Wiring'
BY DEF Wiring, BusyKnowsProject, HolderHasSup, RunnerHasProject,
       LaunchesQueued, LaunchedOnce, thVars

(* A thread step that makes and launches no supervisor.                    *)
LEMMA WiringThread ==
  ASSUME TypeOK, Wiring, NEW t \in Threads, UNCHANGED <<owner, phase>>,
         NEW from, NEW to \in PCs \ {"launch"}, Goto(t, from, to),
         to # "idle" => arg'[t] \in Projects,
         to \in Holding => held'[t] \in Sups,
         \A u \in Threads \ {t} : arg'[u] = arg[u] /\ held'[u] = held[u]
  PROVE  Wiring'
<1> USE DEF Wiring, TypeOK, ThreadTypes
<1>1. /\ pc'[t] = to
      /\ \A u \in Threads \ {t} : pc'[u] = pc[u]
  BY DEF Goto
<1>2. BusyKnowsProject' BY <1>1 DEF BusyKnowsProject
<1>3. HolderHasSup' BY <1>1 DEF HolderHasSup, Holding
<1>4. RunnerHasProject' BY DEF RunnerHasProject
<1>5. LaunchesQueued' BY <1>1 DEF LaunchesQueued
<1>6. LaunchedOnce' BY <1>1 DEF LaunchedOnce
<1> QED BY <1>2, <1>3, <1>4, <1>5, <1>6

(* A thread that returns keeps the wiring.                                 *)
LEMMA WiringReturn ==
  ASSUME TypeOK, Wiring, NEW t \in Threads, UNCHANGED <<owner, phase>>,
         NEW from, Return(t, from)
  PROVE  Wiring'
BY WiringThread DEF Return, TypeOK, ThreadTypes, PCs, Holding

(* Every step of a call keeps the wiring.                                  *)
LEMMA WiringThreadStep ==
  ASSUME TypeOK, Wiring, NEW t \in Threads, ThreadStep(t)
  PROVE  Wiring'
<1> USE DEF TypeOK, ThreadTypes
<1>0. /\ pc[t] # "idle" => arg[t] \in Projects
      /\ pc[t] \in Holding => held[t] \in Sups
  BY DEF Wiring, BusyKnowsProject, HolderHasSup
<1>1. CASE AddCheck(t)
  BY <1>0, <1>1, WiringThread, WiringReturn
  DEF AddCheck, Vacant, Goto, PCs, Holding, supVars
<1>2. CASE Register(t)
  <2>1. CASE Return(t, "register") /\ UNCHANGED <<owner, phase, cancelled>>
    BY <2>1, WiringReturn
  <2>2. ASSUME NEW s \in Sups, Unused(s),
               owner' = [owner EXCEPT ![s] = arg[t]],
               phase' = [phase EXCEPT ![s] = "queued"],
               held' = [held EXCEPT ![t] = s],
               Goto(t, "register", "launch"), UNCHANGED arg
        PROVE  Wiring'
    <3>1. /\ pc'[t] = "launch" /\ held'[t] = s /\ arg'[t] \in Projects
          /\ \A u \in Threads \ {t} :
               pc'[u] = pc[u] /\ held'[u] = held[u] /\ arg'[u] = arg[u]
          /\ \A u \in Threads : held[u] # s
      BY <1>0, <2>2 DEF Goto, Unused
    <3>2. /\ phase'[s] = "queued" /\ owner'[s] \in Projects
          /\ \A v \in Sups \ {s} : phase'[v] = phase[v] /\ owner'[v] = owner[v]
      BY <1>0, <2>2 DEF SupTypes, Goto
    <3>3. BusyKnowsProject' BY <3>1 DEF Wiring, BusyKnowsProject
    <3>4. HolderHasSup' BY <3>1 DEF Wiring, HolderHasSup
    <3>5. RunnerHasProject' BY <3>2 DEF Wiring, RunnerHasProject
    <3>6. LaunchesQueued'
      BY <3>1, <3>2 DEF Wiring, LaunchesQueued, HolderHasSup, Holding
    <3>7. LaunchedOnce' BY <3>1 DEF Wiring, LaunchedOnce
    <3> QED BY <3>3, <3>4, <3>5, <3>6, <3>7 DEF Wiring
  <2> QED BY <1>2, <2>1, <2>2 DEF Register, Vacant
<1>3. CASE LaunchRun(t)
  <2>1. /\ pc[t] = "launch" /\ pc'[t] = "idle"
        /\ \A u \in Threads \ {t} :
             pc'[u] = pc[u] /\ held'[u] = held[u] /\ arg'[u] = arg[u]
    BY <1>3 DEF LaunchRun, Return, Goto
  <2>2. held[t] \in Sups /\ phase[held[t]] = "queued"
    BY <2>1 DEF Wiring, HolderHasSup, LaunchesQueued, Holding
  <2>3. /\ \A v \in Sups \ {held[t]} : phase'[v] = phase[v]
        /\ UNCHANGED owner
    BY <1>3, <2>2 DEF LaunchRun, SupTypes
  <2>4. BusyKnowsProject' BY <2>1 DEF Wiring, BusyKnowsProject
  <2>5. HolderHasSup' BY <2>1 DEF Wiring, HolderHasSup, Holding
  <2>6. RunnerHasProject' BY <2>2, <2>3 DEF Wiring, RunnerHasProject
  <2>7. LaunchesQueued'
    BY <2>1, <2>3 DEF Wiring, LaunchesQueued, LaunchedOnce, HolderHasSup, Holding
  <2>8. LaunchedOnce' BY <2>1 DEF Wiring, LaunchedOnce
  <2> QED BY <2>4, <2>5, <2>6, <2>7, <2>8 DEF Wiring
<1>4. ASSUME NEW from \in {"render", "rerender"},
             NEW to \in {"write", "rewrite"}, Render(t, from, to),
             from = "render" => to = "write"
      PROVE  Wiring'
  BY <1>0, <1>4, WiringThread, WiringReturn
  DEF Render, Goto, PCs, Holding, supVars
<1>5. ASSUME NEW from \in {"write", "rewrite"},
             NEW to \in {"register", "cancel"}, Write(t, from, to),
             from = "write" => to = "register"
      PROVE  Wiring'
  BY <1>0, <1>5, WiringThread DEF Write, Goto, PCs, Holding, supVars
<1>6. CASE RefreshLookup(t)
  BY <1>0, <1>6, WiringThread, WiringReturn
  DEF RefreshLookup, Goto, PCs, Holding, supVars, MgrTypes
<1>7. CASE RefreshCancel(t)
  BY <1>0, <1>7, WiringThread DEF RefreshCancel, Goto, PCs, Holding
<1>8. CASE RefreshWait(t)
  BY <1>0, <1>8, WiringThread DEF RefreshWait, Goto, PCs, Holding, supVars
<1>9. CASE RefreshSwap(t)
  BY <1>0, <1>9, WiringThread DEF RefreshSwap, Goto, PCs, Holding, supVars
<1>10. CASE RemoveLookup(t)
  BY <1>0, <1>10, WiringThread
  DEF RemoveLookup, Goto, PCs, Holding, supVars, MgrTypes
<1>11. CASE RemoveCancel(t)
  BY <1>0, <1>11, WiringThread DEF RemoveCancel, Goto, PCs, Holding
<1>12. CASE RemoveForget(t)
  BY <1>12, WiringReturn DEF RemoveForget
<1> QED BY <1>1, <1>2, <1>3, <1>4, <1>5, <1>6, <1>7, <1>8, <1>9, <1>10, <1>11,
           <1>12 DEF ThreadStep

(* Every step keeps the wiring.                                            *)
LEMMA WiringStep ==
  ASSUME TypeOK, Wiring, [Next]_vars
  PROVE  Wiring'
<1>1. ASSUME NEW h \in Handlers, NEW p \in Projects, Request(h, p)
      PROVE  Wiring'
  <2>1. PICK entry \in {"add", "refresh", "remove"} : Call(h, p, entry)
    BY <1>1 DEF Request, CreateProject, ChangeConfig, ActivateProject,
           DisableProject, DeleteProject
  <2> QED BY <2>1, WiringThread
      DEF Call, Goto, Threads, TypeOK, ThreadTypes, PCs, Holding, supVars
<1>2. ASSUME NEW p \in Projects, StartNext(p)
      PROVE  Wiring'
  BY <1>2, WiringThread
  DEF StartNext, Goto, Threads, TypeOK, ThreadTypes, PCs, Holding, supVars
<1>3. ASSUME NEW t \in Threads, ThreadFault(t)
      PROVE  Wiring'
  BY <1>3, WiringReturn DEF ThreadFault, RenderFails, RefreshGivesUp, supVars
<1>4. ASSUME NEW s \in Sups, SupStep(s)
      PROVE  Wiring'
  <2>1. /\ phase[s] \notin {"queued", "done"}
        /\ phase' \in [Sups -> {"queued", "looping", "starting", "up", "done"}]
        /\ \A v \in Sups \ {s} : phase'[v] = phase[v]
        /\ UNCHANGED owner /\ UNCHANGED thVars
    BY <1>4 DEF SupStep, SupCheck, SupLaunch, SupLaunchFails, ChildDies,
       SupDown, SupMoves, TypeOK, SupTypes
  <2> QED BY <2>1 DEF Wiring, BusyKnowsProject, HolderHasSup,
      RunnerHasProject, LaunchesQueued, LaunchedOnce, Holding, thVars
<1>5. CASE RootCancelled \/ BeginShutdown \/ ShutdownStep
  BY <1>5, WiringFrame DEF RootCancelled, BeginShutdown, ShutdownStep,
     StopTakesMap, StopCancels, StopAllCancelled, StopReturns, supVars
<1>6. CASE UNCHANGED vars
  BY <1>6, WiringFrame DEF vars, thVars
<1> QED BY <1>1, <1>2, <1>3, WiringThreadStep, <1>4, <1>5, <1>6 DEF Next

(* Every variable keeps its type; every call knows its project and, where  *)
(* it needs one, its supervisor, in every interleaving of the handlers.    *)
THEOREM TypeCorrect == Spec => []TypesAndWiring
<1>1. Init => TypeOK /\ Wiring BY TypeInit, WiringInit
<1>2. TypeOK /\ Wiring /\ [Next]_vars => (TypeOK /\ Wiring)'
  BY TypeStep, WiringStep
<1>3. TypeOK /\ Wiring => TypesAndWiring
  BY DEF TypesAndWiring
<1> QED BY <1>1, <1>2, <1>3, PTL DEF Spec

-----------------------------------------------------------------------------
(* Safety: the strengthening that makes the properties inductive.  A waiter*)
(* has cancelled what it waits for, and until Stop takes the map there is  *)
(* nothing for it to cancel.                                               *)

WaitsOnCancelled == \A t \in Threads : pc[t] = "wait" => cancelled[held[t]]

StopPhases == stopPc \in {"serving", "draining"} => stopSet = {} /\ ~closed

SafetyInv ==
  /\ SlotsOwned /\ NoOrphan /\ ClosedStaysEmpty /\ SwapAfterExit
  /\ WaitsOnCancelled /\ StopPhases

(* An empty manager is safe.                                               *)
LEMMA SafetyInit == Init => SafetyInv
BY DEF Init, SafetyInv, SlotsOwned, NoOrphan, ClosedStaysEmpty, SwapAfterExit,
       WaitsOnCancelled, StopPhases

(* A thread moves to a place where nothing is claimed of it, and was not   *)
(* dropping a supervisor: the map and the supervisors stand still.         *)
LEMMA SafetyMove ==
  ASSUME TypeOK, SafetyInv, NEW t \in Threads, NEW from \in PCs \ {"drop"},
         NEW to \in PCs \ {"wait", "swap"}, Goto(t, from, to),
         \A u \in Threads \ {t} : held'[u] = held[u],
         UNCHANGED <<slot, closed, owner, phase, cancelled, stopPc, stopSet>>
  PROVE  SafetyInv'
<1> USE DEF SafetyInv, TypeOK, ThreadTypes
<1>1. /\ pc[t] = from /\ pc'[t] = to
      /\ \A u \in Threads \ {t} : pc'[u] = pc[u]
  BY DEF Goto
<1>2. SlotsOwned' BY DEF SlotsOwned
<1>3. NoOrphan'
  <2>1. \A s \in Sups : BeingDropped(s) => BeingDropped(s)'
    BY <1>1 DEF BeingDropped
  <2> QED BY <2>1 DEF NoOrphan
<1>4. ClosedStaysEmpty' BY DEF ClosedStaysEmpty
<1>5. SwapAfterExit' BY <1>1 DEF SwapAfterExit
<1>6. WaitsOnCancelled' BY <1>1 DEF WaitsOnCancelled
<1>7. StopPhases' BY DEF StopPhases
<1> QED BY <1>2, <1>3, <1>4, <1>5, <1>6, <1>7

(* A call that returns, with or without an error, is safe.                 *)
LEMMA SafetyReturn ==
  ASSUME TypeOK, SafetyInv, NEW t \in Threads, NEW from \in PCs \ {"drop"},
         Return(t, from),
         UNCHANGED <<slot, closed, owner, phase, cancelled, stopPc, stopSet>>
  PROVE  SafetyInv'
BY SafetyMove DEF Return, PCs, TypeOK, ThreadTypes

(* Cancelling supervisors and moving goroutines along: the map, the owners *)
(* and the threads stand still, nothing done comes back to life.           *)
LEMMA SafetySups ==
  ASSUME TypeOK, Wiring, SafetyInv, UNCHANGED <<slot, closed, owner, stopPc>>,
         UNCHANGED thVars, SupTypes',
         \A s \in Sups : phase[s] = "done" => phase'[s] = "done",
         \A s \in Sups : cancelled[s] => cancelled'[s],
         \A s \in stopSet : s \in stopSet' \/ cancelled'[s],
         stopSet = {} => stopSet' = {}
  PROVE  SafetyInv'
<1> USE DEF SafetyInv, TypeOK, ThreadTypes, SupTypes, thVars
<1>1. SlotsOwned' BY DEF SlotsOwned
<1>2. NoOrphan'
  <2>1. \A s \in Sups : BeingDropped(s) => BeingDropped(s)'
    BY DEF BeingDropped
  <2> QED BY <2>1 DEF NoOrphan
<1>3. ClosedStaysEmpty' BY DEF ClosedStaysEmpty
<1>4. SwapAfterExit'
  BY DEF SwapAfterExit, Wiring, HolderHasSup, Holding
<1>5. WaitsOnCancelled'
  BY DEF WaitsOnCancelled, Wiring, HolderHasSup, Holding
<1>6. StopPhases' BY DEF StopPhases
<1> QED BY <1>1, <1>2, <1>3, <1>4, <1>5, <1>6

(* spawn fills an empty slot of an open manager.                           *)
LEMMA SafetyRegister ==
  ASSUME TypeOK, Wiring, SafetyInv, NEW t \in Threads, NEW s \in Sups,
         Unused(s), ~closed, slot[arg[t]] = None,
         slot' = [slot EXCEPT ![arg[t]] = s],
         owner' = [owner EXCEPT ![s] = arg[t]],
         phase' = [phase EXCEPT ![s] = "queued"],
         cancelled' = [cancelled EXCEPT ![s] = FALSE],
         held' = [held EXCEPT ![t] = s],
         Goto(t, "register", "launch"),
         UNCHANGED <<closed, stopPc, stopSet>>
  PROVE  SafetyInv'
<1> USE DEF SafetyInv, TypeOK, ThreadTypes, SupTypes, MgrTypes
<1>1. /\ pc[t] = "register" /\ pc'[t] = "launch"
      /\ \A u \in Threads \ {t} : pc'[u] = pc[u] /\ held'[u] = held[u]
      /\ arg[t] \in Projects
      /\ \A u \in Threads : held[u] # s
      /\ \A p \in Projects : slot[p] # s
  BY DEF Goto, Unused, Wiring, BusyKnowsProject
<1>2. /\ slot'[arg[t]] = s /\ owner'[s] = arg[t]
      /\ \A p \in Projects \ {arg[t]} : slot'[p] = slot[p]
      /\ \A v \in Sups \ {s} : /\ owner'[v] = owner[v]
                               /\ phase'[v] = phase[v]
                               /\ cancelled'[v] = cancelled[v]
  BY <1>1
<1>3. SlotsOwned' BY <1>1, <1>2 DEF SlotsOwned
<1>4. NoOrphan'
  <2> SUFFICES ASSUME NEW v \in Sups \ {s}, phase[v] # "done", ~cancelled[v]
               PROVE  slot'[owner[v]] = v \/ v \in stopSet \/ BeingDropped(v)'
    BY <1>2 DEF NoOrphan
  <2>1. owner[v] \in Projects BY DEF Wiring, RunnerHasProject
  <2>2. CASE slot[owner[v]] = v
    BY <1>2, <2>1, <2>2, ConstantsAssumption
  <2>3. CASE BeingDropped(v) BY <1>1, <2>3 DEF BeingDropped
  <2> QED BY <2>2, <2>3 DEF NoOrphan
<1>5. ClosedStaysEmpty' BY DEF ClosedStaysEmpty
<1>6. SwapAfterExit'
  BY <1>1, <1>2 DEF SwapAfterExit, Wiring, HolderHasSup, Holding
<1>7. WaitsOnCancelled'
  BY <1>1, <1>2 DEF WaitsOnCancelled, Wiring, HolderHasSup, Holding
<1>8. StopPhases' BY DEF StopPhases
<1> QED BY <1>3, <1>4, <1>5, <1>6, <1>7, <1>8

(* Every step of a call is safe.                                           *)
LEMMA SafetyThreadStep ==
  ASSUME TypeOK, Wiring, SafetyInv, NEW t \in Threads, ThreadStep(t)
  PROVE  SafetyInv'
<1> USE DEF TypeOK, ThreadTypes, mgrVars, supVars, stopVars, PCs
<1>0. /\ pc[t] # "idle" => arg[t] \in Projects
      /\ pc[t] \in Holding => held[t] \in Sups
  BY DEF Wiring, BusyKnowsProject, HolderHasSup
<1>1. CASE AddCheck(t)
  BY <1>1, SafetyMove, SafetyReturn DEF AddCheck, Vacant
<1>2. CASE Register(t)
  <2>1. CASE Return(t, "register") /\ UNCHANGED <<slot, owner, phase, cancelled>>
    BY <1>2, <2>1, SafetyReturn DEF Register, Vacant
  <2>2. CASE /\ ~closed /\ slot[arg[t]] = None
             /\ \E s \in Sups :
                  /\ Unused(s)
                  /\ slot' = [slot EXCEPT ![arg[t]] = s]
                  /\ owner' = [owner EXCEPT ![s] = arg[t]]
                  /\ phase' = [phase EXCEPT ![s] = "queued"]
                  /\ cancelled' = [cancelled EXCEPT ![s] = FALSE]
                  /\ held' = [held EXCEPT ![t] = s]
             /\ Goto(t, "register", "launch")
    BY <1>2, <2>2, SafetyRegister DEF Register, Vacant
  <2> QED BY <1>2, <2>1, <2>2 DEF Register, Vacant
<1>3. CASE LaunchRun(t)
  <2>1. /\ pc[t] = "launch" /\ pc'[t] = "idle"
        /\ \A u \in Threads \ {t} : pc'[u] = pc[u] /\ held'[u] = held[u]
    BY <1>3 DEF LaunchRun, Return, Goto
  <2>2. held[t] \in Sups /\ phase[held[t]] = "queued"
    BY <2>1 DEF Wiring, HolderHasSup, LaunchesQueued, Holding
  <2>3. /\ \A v \in Sups : phase[v] = "done" <=> phase'[v] = "done"
        /\ UNCHANGED <<slot, closed, owner, cancelled, stopPc, stopSet>>
    BY <1>3, <2>2 DEF LaunchRun, SupTypes
  <2>4. SlotsOwned' BY <2>3 DEF SafetyInv, SlotsOwned
  <2>5. NoOrphan' BY <2>1, <2>3 DEF SafetyInv, NoOrphan, BeingDropped
  <2>6. ClosedStaysEmpty' BY <2>3 DEF SafetyInv, ClosedStaysEmpty
  <2>7. SwapAfterExit'
    BY <2>1, <2>3 DEF SafetyInv, SwapAfterExit, Wiring, HolderHasSup, Holding
  <2>8. WaitsOnCancelled' BY <2>1, <2>3 DEF SafetyInv, WaitsOnCancelled
  <2>9. StopPhases' BY <2>3 DEF SafetyInv, StopPhases
  <2> QED BY <2>4, <2>5, <2>6, <2>7, <2>8, <2>9 DEF SafetyInv
<1>4. CASE Render(t, "render", "write") \/ Render(t, "rerender", "rewrite")
  BY <1>4, SafetyMove, SafetyReturn DEF Render
<1>5. CASE Write(t, "write", "register") \/ Write(t, "rewrite", "cancel")
  BY <1>5, SafetyMove DEF Write
<1>6. CASE RefreshLookup(t)
  BY <1>6, SafetyMove, SafetyReturn DEF RefreshLookup
<1>7. CASE RefreshCancel(t)
  <2>1. /\ pc[t] = "cancel" /\ pc'[t] = "wait" /\ held[t] \in Sups
        /\ \A u \in Threads \ {t} : pc'[u] = pc[u]
        /\ UNCHANGED <<held, slot, closed, owner, phase, stopPc, stopSet>>
    BY <1>0, <1>7 DEF RefreshCancel, Goto, Holding
  <2>2. /\ cancelled'[held[t]]
        /\ \A v \in Sups : cancelled[v] => cancelled'[v]
    BY <1>7, <2>1 DEF RefreshCancel, SupTypes
  <2>3. SlotsOwned' BY <2>1 DEF SafetyInv, SlotsOwned
  <2>4. NoOrphan' BY <2>1, <2>2 DEF SafetyInv, NoOrphan, BeingDropped
  <2>5. ClosedStaysEmpty' BY <2>1 DEF SafetyInv, ClosedStaysEmpty
  <2>6. SwapAfterExit'
    BY <2>1, <2>2 DEF SafetyInv, SwapAfterExit, Wiring, HolderHasSup, Holding
  <2>7. WaitsOnCancelled'
    BY <2>1, <2>2 DEF SafetyInv, WaitsOnCancelled, Wiring, HolderHasSup, Holding
  <2>8. StopPhases' BY <2>1 DEF SafetyInv, StopPhases
  <2> QED BY <2>3, <2>4, <2>5, <2>6, <2>7, <2>8 DEF SafetyInv
<1>8. CASE RefreshWait(t)
  <2>1. /\ pc[t] = "wait" /\ pc'[t] = "swap" /\ phase[held[t]] = "done"
        /\ \A u \in Threads \ {t} : pc'[u] = pc[u]
        /\ UNCHANGED <<held, slot, closed, owner, phase, cancelled, stopPc,
                       stopSet>>
    BY <1>8 DEF RefreshWait, Goto
  <2>2. SlotsOwned' BY <2>1 DEF SafetyInv, SlotsOwned
  <2>3. NoOrphan' BY <2>1 DEF SafetyInv, NoOrphan, BeingDropped
  <2>4. ClosedStaysEmpty' BY <2>1 DEF SafetyInv, ClosedStaysEmpty
  <2>5. SwapAfterExit' BY <2>1 DEF SafetyInv, SwapAfterExit, WaitsOnCancelled
  <2>6. WaitsOnCancelled' BY <2>1 DEF SafetyInv, WaitsOnCancelled
  <2>7. StopPhases' BY <2>1 DEF SafetyInv, StopPhases
  <2> QED BY <2>2, <2>3, <2>4, <2>5, <2>6, <2>7 DEF SafetyInv
<1>9. CASE RefreshSwap(t)
  <2>1. /\ pc[t] = "swap" /\ pc'[t] = "add"
        /\ phase[held[t]] = "done" /\ held[t] \in Sups /\ arg[t] \in Projects
        /\ \A u \in Threads \ {t} : pc'[u] = pc[u] /\ held'[u] = held[u]
        /\ UNCHANGED <<closed, owner, phase, cancelled, stopPc, stopSet>>
    BY <1>0, <1>9 DEF RefreshSwap, Goto, Holding, SafetyInv, SwapAfterExit
  <2>2. \A p \in Projects :
          slot'[p] = slot[p] \/ (slot[p] = held[t] /\ slot'[p] = None)
    BY <1>9, <2>1 DEF RefreshSwap, MgrTypes
  <2>3. SlotsOwned' BY <2>1, <2>2 DEF SafetyInv, SlotsOwned
  <2>4. NoOrphan'
    <3> SUFFICES ASSUME NEW v \in Sups, phase[v] # "done", ~cancelled[v]
                 PROVE  slot'[owner[v]] = v \/ v \in stopSet \/ BeingDropped(v)'
      BY <2>1 DEF NoOrphan
    <3>1. owner[v] \in Projects BY DEF Wiring, RunnerHasProject
    <3>2. CASE slot[owner[v]] = v BY <2>1, <2>2, <3>1, <3>2
    <3>3. CASE BeingDropped(v) BY <2>1, <3>3 DEF BeingDropped
    <3> QED BY <3>2, <3>3 DEF SafetyInv, NoOrphan
  <2>5. ClosedStaysEmpty' BY <2>1, <2>2 DEF SafetyInv, ClosedStaysEmpty
  <2>6. SwapAfterExit' BY <2>1 DEF SafetyInv, SwapAfterExit
  <2>7. WaitsOnCancelled' BY <2>1 DEF SafetyInv, WaitsOnCancelled
  <2>8. StopPhases' BY <2>1 DEF SafetyInv, StopPhases
  <2> QED BY <2>3, <2>4, <2>5, <2>6, <2>7, <2>8 DEF SafetyInv
<1>10. CASE RemoveLookup(t)
  <2>1. /\ pc[t] = "remove" /\ arg[t] \in Projects
        /\ pc'[t] = (IF slot[arg[t]] = None THEN "forget" ELSE "drop")
        /\ held'[t] = slot[arg[t]] /\ slot'[arg[t]] = None
        /\ \A p \in Projects \ {arg[t]} : slot'[p] = slot[p]
        /\ \A u \in Threads \ {t} : pc'[u] = pc[u] /\ held'[u] = held[u]
        /\ UNCHANGED <<closed, owner, phase, cancelled, stopPc, stopSet>>
    BY <1>0, <1>10 DEF RemoveLookup, Goto, MgrTypes
  <2>2. SlotsOwned' BY <2>1 DEF SafetyInv, SlotsOwned
  <2>3. NoOrphan'
    <3> SUFFICES ASSUME NEW v \in Sups, phase[v] # "done", ~cancelled[v]
                 PROVE  slot'[owner[v]] = v \/ v \in stopSet \/ BeingDropped(v)'
      BY <2>1 DEF NoOrphan
    <3>1. owner[v] \in Projects BY DEF Wiring, RunnerHasProject
    <3>2. CASE slot[owner[v]] = v /\ owner[v] = arg[t]
      BY <2>1, <3>2, ConstantsAssumption DEF BeingDropped
    <3>3. CASE slot[owner[v]] = v /\ owner[v] # arg[t] BY <2>1, <3>1, <3>3
    <3>4. CASE BeingDropped(v) BY <2>1, <3>4 DEF BeingDropped
    <3> QED BY <3>2, <3>3, <3>4 DEF SafetyInv, NoOrphan
  <2>4. ClosedStaysEmpty' BY <2>1 DEF SafetyInv, ClosedStaysEmpty
  <2>5. SwapAfterExit' BY <2>1 DEF SafetyInv, SwapAfterExit
  <2>6. WaitsOnCancelled' BY <2>1 DEF SafetyInv, WaitsOnCancelled
  <2>7. StopPhases' BY <2>1 DEF SafetyInv, StopPhases
  <2> QED BY <2>2, <2>3, <2>4, <2>5, <2>6, <2>7 DEF SafetyInv
<1>11. CASE RemoveCancel(t)
  <2>1. /\ pc[t] = "drop" /\ pc'[t] = "forget" /\ held[t] \in Sups
        /\ \A u \in Threads \ {t} : pc'[u] = pc[u] /\ held'[u] = held[u]
        /\ UNCHANGED <<slot, closed, owner, phase, stopPc, stopSet>>
    BY <1>0, <1>11 DEF RemoveCancel, Goto, Holding
  <2>2. /\ cancelled'[held[t]]
        /\ \A v \in Sups : cancelled[v] => cancelled'[v]
    BY <1>11, <2>1 DEF RemoveCancel, SupTypes
  <2>3. SlotsOwned' BY <2>1 DEF SafetyInv, SlotsOwned
  <2>4. NoOrphan' BY <2>1, <2>2 DEF SafetyInv, NoOrphan, BeingDropped
  <2>5. ClosedStaysEmpty' BY <2>1 DEF SafetyInv, ClosedStaysEmpty
  <2>6. SwapAfterExit'
    BY <2>1, <2>2 DEF SafetyInv, SwapAfterExit, Wiring, HolderHasSup, Holding
  <2>7. WaitsOnCancelled'
    BY <2>1, <2>2 DEF SafetyInv, WaitsOnCancelled, Wiring, HolderHasSup, Holding
  <2>8. StopPhases' BY <2>1 DEF SafetyInv, StopPhases
  <2> QED BY <2>3, <2>4, <2>5, <2>6, <2>7, <2>8 DEF SafetyInv
<1>12. CASE RemoveForget(t)
  BY <1>12, SafetyReturn DEF RemoveForget
<1> QED BY <1>1, <1>2, <1>3, <1>4, <1>5, <1>6, <1>7, <1>8, <1>9, <1>10, <1>11,
           <1>12 DEF ThreadStep

(* Every step keeps the safety invariant.                                  *)
LEMMA SafetyStep ==
  ASSUME TypeOK, TypeOK', Wiring, SafetyInv, [Next]_vars
  PROVE  SafetyInv'
<1> USE DEF TypeOK
<1>1. ASSUME NEW h \in Handlers, NEW p \in Projects, Request(h, p)
      PROVE  SafetyInv'
  <2>1. PICK entry \in {"add", "refresh", "remove"} : Call(h, p, entry)
    BY <1>1 DEF Request, CreateProject, ChangeConfig, ActivateProject,
           DisableProject, DeleteProject
  <2> QED BY <2>1, SafetyMove
      DEF Call, Threads, PCs, mgrVars, supVars, stopVars
<1>2. ASSUME NEW p \in Projects, StartNext(p)
      PROVE  SafetyInv'
  BY <1>2, SafetyMove DEF StartNext, Threads, PCs, mgrVars, supVars
<1>3. ASSUME NEW t \in Threads, ThreadFault(t)
      PROVE  SafetyInv'
  BY <1>3, SafetyReturn
  DEF ThreadFault, RenderFails, RefreshGivesUp, mgrVars, supVars, stopVars, PCs
<1>4. ASSUME NEW s \in Sups, SupStep(s)
      PROVE  SafetyInv'
  <2>1. /\ UNCHANGED <<slot, closed, owner, stopPc, cancelled, stopSet>>
        /\ UNCHANGED thVars
        /\ \A v \in Sups : phase[v] = "done" => phase'[v] = "done"
    BY <1>4 DEF SupStep, SupCheck, SupLaunch, SupLaunchFails, ChildDies,
       SupDown, SupMoves, SupTypes, mgrVars, stopVars
  <2> QED BY <2>1, SafetySups
<1>5. CASE RootCancelled \/ StopAllCancelled \/ StopReturns \/ BeginShutdown
  <2>1. /\ UNCHANGED <<slot, closed, owner, phase, cancelled, stopSet>>
        /\ UNCHANGED thVars
        /\ stopPc' \in {"serving", "draining"} => stopPc \in {"serving", "draining"}
    BY <1>5 DEF RootCancelled, StopAllCancelled, StopReturns, BeginShutdown,
       StopStep, mgrVars, supVars
  <2> QED BY <2>1 DEF SafetyInv, SlotsOwned, NoOrphan, BeingDropped,
             ClosedStaysEmpty, SwapAfterExit, WaitsOnCancelled, StopPhases, thVars
<1>6. CASE StopTakesMap
  <2>1. /\ UNCHANGED <<owner, phase, cancelled>> /\ UNCHANGED thVars
        /\ stopSet = {} /\ stopPc' = "cancelling"
        /\ stopSet' = {slot[p] : p \in Projects} \ {None}
        /\ slot' = [p \in Projects |-> None]
    BY <1>6 DEF StopTakesMap, StopStep, supVars, SafetyInv, StopPhases
  <2>2. SlotsOwned' BY <2>1 DEF SlotsOwned
  <2>3. NoOrphan'
    BY <2>1, ConstantsAssumption
    DEF SafetyInv, NoOrphan, BeingDropped, thVars, Wiring, RunnerHasProject
  <2>4. ClosedStaysEmpty' BY <2>1 DEF ClosedStaysEmpty
  <2>5. SwapAfterExit' BY <2>1 DEF SafetyInv, SwapAfterExit, thVars
  <2>6. WaitsOnCancelled' BY <2>1 DEF SafetyInv, WaitsOnCancelled, thVars
  <2>7. StopPhases' BY <2>1 DEF StopPhases
  <2> QED BY <2>2, <2>3, <2>4, <2>5, <2>6, <2>7 DEF SafetyInv
<1>7. ASSUME NEW s \in Sups, StopCancels(s)
      PROVE  SafetyInv'
  <2>1. /\ UNCHANGED <<slot, closed, owner, phase, stopPc>> /\ UNCHANGED thVars
        /\ stopSet' = stopSet \ {s} /\ cancelled'[s]
        /\ \A v \in Sups : cancelled[v] => cancelled'[v]
    BY <1>7 DEF StopCancels, mgrVars, SupTypes
  <2> QED BY <2>1, SafetySups
<1>8. CASE UNCHANGED vars
  BY <1>8, SafetySups DEF vars, thVars
<1> QED BY <1>1, <1>2, <1>3, SafetyThreadStep, <1>4, <1>5, <1>6, <1>7, <1>8
    DEF Next, ShutdownStep

(* No server escapes the manager, a slot only ever names its own project's *)
(* supervisor, a call that waited goes on only after that supervisor's end *)
(* and a closed manager stays empty.                                       *)
THEOREM SafetyInvariant == Spec => []SafetyInv
<1>1. Init => SafetyInv BY SafetyInit
<1>2. TypeOK /\ TypeOK' /\ Wiring /\ SafetyInv /\ [Next]_vars => SafetyInv'
  BY SafetyStep
<1>3. TypesAndWiring => TypeOK /\ Wiring BY DEF TypesAndWiring
<1> QED BY <1>1, <1>2, <1>3, TypeCorrect, PTL DEF Spec

(* No rathole server is ever out of the manager's reach.                   *)
THEOREM NoOrphanServer == Spec => []NoOrphan
<1>1. SafetyInv => NoOrphan BY DEF SafetyInv
<1> QED BY <1>1, SafetyInvariant, PTL

(* Refresh replaces a server only after the one it cancelled has exited.   *)
THEOREM ReplacedAfterExit == Spec => []SwapAfterExit
<1>1. SafetyInv => SwapAfterExit BY DEF SafetyInv
<1> QED BY <1>1, SafetyInvariant, PTL

-----------------------------------------------------------------------------
(* One server per project, as long as no project is disabled or deleted.   *)
(* The wait in Refresh is what makes it true, concurrent Refreshes of one  *)
(* project and crashes included: whoever runs is in its project's slot, so *)
(* an empty slot means that nobody does.  RemoveProject, which does not    *)
(* wait, is excluded by the assumption, and with it the property fails.    *)

RefreshOnly == Ops \cap {"disable", "delete"} = {}

NobodyRemoves == \A t \in Threads : pc[t] \notin {"remove", "drop", "forget"}
RunnersInSlots ==
  ~closed => \A s \in Sups : phase[s] # "done" => slot[owner[s]] = s
SoleRunner ==
  \A s, u \in Sups :
    phase[s] # "done" /\ phase[u] # "done" /\ owner[s] = owner[u] => s = u

SoleInv == NobodyRemoves /\ RunnersInSlots /\ SoleRunner

(* Moves that touch neither the map nor a supervisor.                      *)
LEMMA SoleMove ==
  ASSUME TypeOK, SoleInv, NEW t \in Threads, NEW from,
         NEW to \in PCs \ {"remove", "drop", "forget"}, Goto(t, from, to),
         UNCHANGED <<slot, closed, owner, phase>>
  PROVE  SoleInv'
BY DEF SoleInv, NobodyRemoves, RunnersInSlots, SoleRunner, Goto, TypeOK,
       ThreadTypes

(* Every step of a call, when none removes.                                *)
LEMMA SoleThreadStep ==
  ASSUME RefreshOnly, TypeOK, Wiring, SafetyInv, SoleInv, NEW t \in Threads,
         ThreadStep(t)
  PROVE  SoleInv'
<1> USE DEF TypeOK, ThreadTypes, mgrVars, supVars, PCs
<1>1. CASE \/ AddCheck(t) \/ RefreshLookup(t) \/ RefreshCancel(t)
           \/ RefreshWait(t)
           \/ Render(t, "render", "write") \/ Write(t, "write", "register")
           \/ Render(t, "rerender", "rewrite") \/ Write(t, "rewrite", "cancel")
  BY <1>1, SoleMove
  DEF AddCheck, Vacant, RefreshLookup, RefreshCancel, RefreshWait, Render,
      Write, Return
<1>2. CASE Register(t)
  <2>1. CASE Return(t, "register") /\ UNCHANGED <<slot, owner, phase, cancelled>>
    BY <1>2, <2>1, SoleMove DEF Register, Vacant, Return
  <2>2. ASSUME NEW s \in Sups, Unused(s), ~closed, slot[arg[t]] = None,
               slot' = [slot EXCEPT ![arg[t]] = s],
               owner' = [owner EXCEPT ![s] = arg[t]],
               phase' = [phase EXCEPT ![s] = "queued"],
               Goto(t, "register", "launch"), UNCHANGED closed
        PROVE  SoleInv'
    <3>1. arg[t] \in Projects BY <2>2 DEF Goto, Wiring, BusyKnowsProject
    <3>2. /\ slot'[arg[t]] = s /\ owner'[s] = arg[t]
          /\ \A p \in Projects \ {arg[t]} : slot'[p] = slot[p]
          /\ \A v \in Sups \ {s} : owner'[v] = owner[v] /\ phase'[v] = phase[v]
      BY <2>2, <3>1 DEF MgrTypes, SupTypes
    <3>3. \A v \in Sups \ {s} : phase[v] # "done" =>
            owner[v] # arg[t] /\ owner[v] \in Projects /\ slot[owner[v]] = v
      BY <2>2, ConstantsAssumption
      DEF SoleInv, RunnersInSlots, Wiring, RunnerHasProject
    <3>4. NobodyRemoves' BY <2>2 DEF SoleInv, NobodyRemoves, Goto
    <3>5. RunnersInSlots' BY <3>2, <3>3 DEF RunnersInSlots
    <3>6. SoleRunner' BY <3>2, <3>3 DEF SoleInv, SoleRunner
    <3> QED BY <3>4, <3>5, <3>6 DEF SoleInv
  <2> QED BY <1>2, <2>1, <2>2 DEF Register, Vacant
<1>3. CASE LaunchRun(t)
  <2>1. /\ held[t] \in Sups /\ phase[held[t]] = "queued"
        /\ Goto(t, "launch", "idle")
    BY <1>3 DEF LaunchRun, Return, Goto, Wiring, HolderHasSup, LaunchesQueued,
       Holding
  <2>2. /\ \A v \in Sups : phase[v] = "done" <=> phase'[v] = "done"
        /\ UNCHANGED <<slot, closed, owner>>
    BY <1>3, <2>1 DEF LaunchRun, SupTypes
  <2> QED BY <2>1, <2>2 DEF SoleInv, NobodyRemoves, RunnersInSlots, SoleRunner,
             Goto
<1>4. CASE RefreshSwap(t)
  <2>1. /\ phase[held[t]] = "done" /\ Goto(t, "swap", "add")
        /\ UNCHANGED <<closed, owner, phase>>
    BY <1>4 DEF RefreshSwap, Goto, SafetyInv, SwapAfterExit
  <2>2. \A p \in Projects : slot'[p] = slot[p] \/ slot[p] = held[t]
    BY <1>4 DEF RefreshSwap, MgrTypes
  <2> QED BY <2>1, <2>2 DEF SoleInv, NobodyRemoves, RunnersInSlots, SoleRunner,
             Goto, Wiring, RunnerHasProject
<1>5. CASE RemoveLookup(t) \/ RemoveCancel(t) \/ RemoveForget(t)
  BY <1>5 DEF RemoveLookup, RemoveCancel, RemoveForget, Return, Goto, SoleInv,
     NobodyRemoves
<1> QED BY <1>1, <1>2, <1>3, <1>4, <1>5 DEF ThreadStep

(* Every step, when no RPC disables or deletes.                            *)
LEMMA SoleStep ==
  ASSUME RefreshOnly, TypeOK, Wiring, SafetyInv, SoleInv, [Next]_vars
  PROVE  SoleInv'
<1> USE DEF TypeOK, PCs, mgrVars, supVars
<1>1. ASSUME NEW h \in Handlers, NEW p \in Projects, Request(h, p)
      PROVE  SoleInv'
  <2>1. PICK entry \in {"add", "refresh"} : Call(h, p, entry)
    BY <1>1 DEF RefreshOnly, Request, CreateProject, ChangeConfig,
           ActivateProject, DisableProject, DeleteProject
  <2> QED BY <2>1, SoleMove DEF Call, Threads
<1>2. ASSUME NEW p \in Projects, StartNext(p)
      PROVE  SoleInv'
  BY <1>2, SoleMove DEF StartNext, Threads
<1>3. ASSUME NEW t \in Threads, ThreadFault(t)
      PROVE  SoleInv'
  BY <1>3, SoleMove DEF ThreadFault, RenderFails, RefreshGivesUp, Return
<1>4. ASSUME NEW s \in Sups, SupStep(s)
      PROVE  SoleInv'
  <2>1. /\ UNCHANGED <<slot, closed, owner>> /\ UNCHANGED thVars
        /\ \A v \in Sups : phase[v] = "done" => phase'[v] = "done"
    BY <1>4 DEF SupStep, SupCheck, SupLaunch, SupLaunchFails, ChildDies,
       SupDown, SupMoves, SupTypes
  <2> QED BY <2>1 DEF SoleInv, NobodyRemoves, RunnersInSlots, SoleRunner, thVars
<1>5. CASE StopTakesMap
  <2>1. closed' = TRUE /\ UNCHANGED <<owner, phase>> /\ UNCHANGED thVars
    BY <1>5 DEF StopTakesMap
  <2> QED BY <2>1 DEF SoleInv, NobodyRemoves, RunnersInSlots, SoleRunner, thVars
<1>6. CASE \/ RootCancelled \/ BeginShutdown \/ StopAllCancelled \/ StopReturns
           \/ (\E s \in Sups : StopCancels(s)) \/ UNCHANGED vars
  <2>1. UNCHANGED <<slot, closed, owner, phase>> /\ UNCHANGED thVars
    BY <1>6 DEF RootCancelled, BeginShutdown, StopAllCancelled, StopReturns,
       StopCancels, vars, thVars
  <2> QED BY <2>1 DEF SoleInv, NobodyRemoves, RunnersInSlots, SoleRunner, thVars
<1> QED BY <1>1, <1>2, <1>3, SoleThreadStep, <1>4, <1>5, <1>6
    DEF Next, ShutdownStep

(* Under the same assumption, at most one supervisor of a project runs.     *)
LEMMA SoleRunners ==
  ASSUME RefreshOnly PROVE Spec => []SoleInv
<1>1. Init => SoleInv
  BY DEF Init, SoleInv, NobodyRemoves, RunnersInSlots, SoleRunner
<1>2. TypeOK /\ Wiring /\ SafetyInv /\ SoleInv /\ [Next]_vars => SoleInv'
  BY SoleStep
<1>3. TypesAndWiring => TypeOK /\ Wiring BY DEF TypesAndWiring
<1> QED BY <1>1, <1>2, <1>3, TypeCorrect, SafetyInvariant, PTL DEF Spec

(* Where projects are only created, activated and changed, two rathole     *)
(* servers of one project never run at the same time.                      *)
THEOREM OneServer ==
  ASSUME RefreshOnly PROVE Spec => []OneServerPerProject
<1>1. SoleInv => OneServerPerProject
  BY DEF SoleInv, SoleRunner, OneServerPerProject
<1> QED BY <1>1, SoleRunners, PTL

(* The gauge, which every supervisor of a project writes: only because no  *)
(* other one of the project runs is what the running one wrote still there.*)
GaugeInv == \A s \in Sups : phase[s] = "up" => gauge[owner[s]] = "up"

(* Every step, when no RPC disables or deletes.                            *)
LEMMA GaugeStep ==
  ASSUME TypeOK, Wiring, SoleInv, GaugeInv, [Next]_vars
  PROVE  GaugeInv'
<1> USE DEF supVars, TypeOK
<1>1. CASE UNCHANGED <<owner, phase, gauge>>
  BY <1>1 DEF GaugeInv
<1>2. ASSUME NEW h \in Handlers, NEW p \in Projects, Request(h, p)
      PROVE  UNCHANGED <<owner, phase, gauge>>
  BY <1>2 DEF Request, CreateProject, ChangeConfig, ActivateProject,
     DisableProject, DeleteProject, Call
<1>3. ASSUME NEW t \in Threads, Register(t)
      PROVE  GaugeInv'
  <2>1. ASSUME NEW s \in Sups, owner' = [owner EXCEPT ![s] = arg[t]],
               phase' = [phase EXCEPT ![s] = "queued"]
        PROVE  GaugeInv'
    BY <1>3, <2>1 DEF Register, SupTypes, GaugeInv
  <2> QED BY <1>3, <1>1, <2>1 DEF Register
<1>4. ASSUME NEW t \in Threads, LaunchRun(t)
      PROVE  GaugeInv'
  BY <1>4 DEF LaunchRun, SupTypes, GaugeInv
<1>5. ASSUME NEW t \in Threads, RemoveForget(t)
      PROVE  GaugeInv'
  BY <1>5 DEF RemoveForget, Return, Goto, SoleInv, NobodyRemoves
<1>6. ASSUME NEW t \in Threads, ThreadStep(t), ~Register(t), ~LaunchRun(t),
             ~RemoveForget(t)
      PROVE  UNCHANGED <<owner, phase, gauge>>
  BY <1>6 DEF ThreadStep, AddCheck, Render, Write, RefreshLookup, RefreshCancel,
     RefreshWait, RefreshSwap, RemoveLookup, RemoveCancel
<1>7. ASSUME NEW s \in Sups, SupStep(s)
      PROVE  GaugeInv'
  <2>1. CASE SupCheck(s) BY <2>1 DEF SupCheck, SupMoves, SupTypes, GaugeInv
  <2>2. CASE SupLaunch(s)
    <3>1. owner[s] \in Projects
      BY <2>2 DEF SupLaunch, SupMoves, Wiring, RunnerHasProject
    <3> QED BY <2>2, <3>1 DEF SupLaunch, SupMoves, SupTypes, GaugeInv
  <2>3. CASE SupDown(s, "starting") \/ SupDown(s, "up")
    <3>1. \A v \in Sups \ {s} : phase[v] = "up" => owner[v] # owner[s]
      BY <2>3 DEF SupDown, SupMoves, SoleInv, SoleRunner
    <3>2. \A v \in Sups \ {s} : phase[v] = "up" => owner[v] \in Projects
      BY DEF Wiring, RunnerHasProject
    <3> QED BY <2>3, <3>1, <3>2 DEF SupDown, SupMoves, SupTypes, GaugeInv
  <2> QED BY <1>7, <2>1, <2>2, <2>3 DEF SupStep, SupLaunchFails, ChildDies
<1>8. ASSUME \/ \E p \in Projects : StartNext(p)
             \/ \E t \in Threads : ThreadFault(t)
             \/ RootCancelled \/ BeginShutdown \/ ShutdownStep
             \/ UNCHANGED vars
      PROVE  UNCHANGED <<owner, phase, gauge>>
  BY <1>8 DEF StartNext, ThreadFault, RenderFails, RefreshGivesUp, RootCancelled,
     BeginShutdown, ShutdownStep, StopTakesMap, StopCancels, StopAllCancelled,
     StopReturns, vars
<1> QED BY <1>1, <1>2, <1>3, <1>4, <1>5, <1>6, <1>7, <1>8 DEF Next

(* Where projects are only created, activated and changed, the alive gauge *)
(* of a served project whose server runs says so.                          *)
THEOREM GaugeTells ==
  ASSUME RefreshOnly PROVE Spec => []GaugeTruth
<1>1. Init => GaugeInv BY DEF Init, GaugeInv
<1>2. TypeOK /\ Wiring /\ SoleInv /\ GaugeInv /\ [Next]_vars => GaugeInv'
  BY GaugeStep
<1>3. TypeOK /\ SafetyInv /\ GaugeInv => GaugeTruth
  BY DEF TypeOK, MgrTypes, SafetyInv, SlotsOwned, GaugeInv, GaugeTruth
<1>4. TypesAndWiring => TypeOK /\ Wiring BY DEF TypesAndWiring
<1> QED BY <1>1, <1>2, <1>3, <1>4, TypeCorrect, SafetyInvariant, SoleRunners,
           PTL DEF Spec

-----------------------------------------------------------------------------
(* Nothing is left when Stop returns, in the server, where Stop follows    *)
(* GracefulStop.  wg.Wait alone does not say so: a goroutine that was      *)
(* registered but not added to the group yet is not waited for.  Every     *)
(* such one is in the hands of a call, and no call is left once Stop runs. *)

StopAfterStart == stopPc # "serving" => Started
StopAlone ==
  stopPc \in {"cancelling", "waiting", "stopped"} =>
    \A t \in Threads : pc[t] = "idle"
QueuedInHand ==
  \A s \in Sups : phase[s] = "queued" =>
    \E t \in Threads : pc[t] = "launch" /\ held[t] = s

DrainInv == StopAfterStart /\ StopAlone /\ QueuedInHand /\ NothingAfterStop

(* A call that is not about to launch moves on or returns.                 *)
LEMMA DrainMove ==
  ASSUME TypeOK, DrainInv, NEW t \in Threads,
         NEW from \in PCs \ {"idle", "launch"}, NEW to \in PCs,
         Goto(t, from, to), \A u \in Threads \ {t} : held'[u] = held[u],
         UNCHANGED <<phase, todo, stopPc>>
  PROVE  DrainInv'
<1> USE DEF DrainInv, TypeOK, ThreadTypes
<1>1. /\ pc[t] = from /\ pc'[t] = to
      /\ \A u \in Threads \ {t} : pc'[u] = pc[u]
  BY DEF Goto
<1>2. stopPc \notin {"cancelling", "waiting", "stopped"}
  BY <1>1 DEF StopAlone
<1>3. StopAfterStart'
  BY <1>1 DEF StopAfterStart, Started, Threads
<1>4. StopAlone' /\ NothingAfterStop' BY <1>2 DEF StopAlone, NothingAfterStop
<1>5. QueuedInHand' BY <1>1 DEF QueuedInHand
<1> QED BY <1>3, <1>4, <1>5

(* Every step of a call.                                                   *)
LEMMA DrainThreadStep ==
  ASSUME TypeOK, Wiring, DrainInv, NEW t \in Threads, ThreadStep(t)
  PROVE  DrainInv'
<1> USE DEF TypeOK, ThreadTypes, supVars, stopVars, PCs
<1>1. CASE \/ AddCheck(t) \/ RefreshLookup(t) \/ RefreshCancel(t)
           \/ RefreshWait(t) \/ RefreshSwap(t)
           \/ Render(t, "render", "write") \/ Write(t, "write", "register")
           \/ Render(t, "rerender", "rewrite") \/ Write(t, "rewrite", "cancel")
  BY <1>1, DrainMove
  DEF AddCheck, Vacant, RefreshLookup, RefreshCancel, RefreshWait, RefreshSwap,
      Render, Write, Return
<1>2. CASE RemoveLookup(t) \/ RemoveCancel(t) \/ RemoveForget(t)
  BY <1>2, DrainMove DEF RemoveLookup, RemoveCancel, RemoveForget, Return
<1>3. CASE Register(t)
  <2>1. CASE Return(t, "register") /\ UNCHANGED <<slot, owner, phase, cancelled>>
    BY <1>3, <2>1, DrainMove DEF Register, Return
  <2>2. ASSUME NEW s \in Sups, Unused(s),
               phase' = [phase EXCEPT ![s] = "queued"],
               held' = [held EXCEPT ![t] = s], Goto(t, "register", "launch"),
               UNCHANGED <<todo, stopPc>>
        PROVE  DrainInv'
    <3>1. /\ pc[t] = "register" /\ pc'[t] = "launch" /\ held'[t] = s
          /\ \A u \in Threads \ {t} : pc'[u] = pc[u] /\ held'[u] = held[u]
      BY <2>2 DEF Goto
    <3>2. StopAfterStart' /\ StopAlone'
      BY <2>2, <3>1 DEF DrainInv, StopAfterStart, StopAlone, Started, Threads
    <3>3. NothingAfterStop'
      BY <2>2, <3>1 DEF DrainInv, StopAlone, NothingAfterStop
    <3>4. QueuedInHand'
      BY <2>2, <3>1 DEF DrainInv, QueuedInHand, SupTypes
    <3> QED BY <3>2, <3>3, <3>4 DEF DrainInv
  <2> QED BY <1>3, <2>1, <2>2 DEF Register
<1>4. CASE LaunchRun(t)
  <2>1. /\ pc[t] = "launch" /\ pc'[t] = "idle" /\ held[t] \in Sups
        /\ \A u \in Threads \ {t} : pc'[u] = pc[u] /\ held'[u] = held[u]
        /\ UNCHANGED <<todo, stopPc>>
    BY <1>4 DEF LaunchRun, Return, Goto, Wiring, HolderHasSup, Holding
  <2>2. /\ phase'[held[t]] = "looping"
        /\ \A s \in Sups \ {held[t]} : phase'[s] = phase[s]
    BY <1>4, <2>1 DEF LaunchRun, SupTypes
  <2>3. StopAfterStart' /\ StopAlone'
    BY <2>1 DEF DrainInv, StopAfterStart, StopAlone, Started, Threads
  <2>4. NothingAfterStop' BY <2>1 DEF DrainInv, StopAlone, NothingAfterStop
  <2>5. QueuedInHand' BY <2>1, <2>2 DEF DrainInv, QueuedInHand
  <2> QED BY <2>3, <2>4, <2>5 DEF DrainInv
<1> QED BY <1>1, <1>2, <1>3, <1>4 DEF ThreadStep

(* Every step of a server that drains its requests before it stops.        *)
LEMMA DrainStep ==
  ASSUME Drain, TypeOK, Wiring, DrainInv, [Next]_vars
  PROVE  DrainInv'
<1> USE DEF TypeOK, supVars, stopVars
<1>1. ASSUME NEW h \in Handlers, NEW p \in Projects, Request(h, p)
      PROVE  DrainInv'
  <2>1. PICK entry \in {"add", "refresh", "remove"} : Call(h, p, entry)
    BY <1>1 DEF Request, CreateProject, ChangeConfig, ActivateProject,
           DisableProject, DeleteProject
  <2>2. /\ stopPc = "serving" /\ pc[h] = "idle"
        /\ \A u \in Threads \ {h} : pc'[u] = pc[u]
        /\ UNCHANGED <<held, phase, stopPc>>
    BY <2>1 DEF Call, Goto, Threads, ThreadTypes
  <2> QED BY <2>2 DEF DrainInv, StopAfterStart, StopAlone, QueuedInHand,
             NothingAfterStop
<1>2. ASSUME NEW p \in Projects, StartNext(p)
      PROVE  DrainInv'
  <2>1. /\ stopPc = "serving" /\ pc[Boot] = "idle"
        /\ \A u \in Threads \ {Boot} : pc'[u] = pc[u]
        /\ UNCHANGED <<held, phase, stopPc>>
    BY <1>2 DEF StartNext, Goto, Threads, ThreadTypes, DrainInv, StopAfterStart,
       Started
  <2> QED BY <2>1 DEF DrainInv, StopAfterStart, StopAlone, QueuedInHand,
             NothingAfterStop
<1>3. ASSUME NEW t \in Threads, ThreadFault(t)
      PROVE  DrainInv'
  BY <1>3, DrainMove
  DEF ThreadFault, RenderFails, RefreshGivesUp, Return, PCs, ThreadTypes
<1>4. ASSUME NEW s \in Sups, SupStep(s)
      PROVE  DrainInv'
  <2>1. /\ UNCHANGED thVars /\ UNCHANGED <<todo, stopPc>> /\ phase[s] # "done"
        /\ \A v \in Sups : phase'[v] = "queued" => phase[v] = "queued"
    BY <1>4 DEF SupStep, SupCheck, SupLaunch, SupLaunchFails, ChildDies,
       SupDown, SupMoves, SupTypes
  <2> QED BY <2>1 DEF DrainInv, StopAfterStart, StopAlone, QueuedInHand,
             NothingAfterStop, AllDone, Started, thVars
<1>5. CASE BeginShutdown \/ StopAllCancelled
  BY <1>5 DEF BeginShutdown, StopAllCancelled, StopStep, DrainInv,
     StopAfterStart, StopAlone, QueuedInHand, NothingAfterStop, Started, thVars
<1>6. CASE StopTakesMap
  <2>1. \A t \in Threads : pc[t] = "idle"
    BY <1>6 DEF StopTakesMap, StopStep, DrainInv, StopAfterStart, Started, Threads
  <2> QED BY <1>6, <2>1 DEF StopTakesMap, StopStep, DrainInv, StopAfterStart,
             StopAlone, QueuedInHand, NothingAfterStop, Started, thVars
<1>7. CASE StopReturns
  <2>1. AllDone
    BY <1>7 DEF StopReturns, StopStep, DrainInv, StopAlone, QueuedInHand, AllDone
  <2> QED BY <1>7, <2>1 DEF StopReturns, StopStep, DrainInv, StopAfterStart,
             StopAlone, QueuedInHand, NothingAfterStop, AllDone, Started, thVars
<1>8. CASE RootCancelled \/ (\E s \in Sups : StopCancels(s)) \/ UNCHANGED vars
  BY <1>8 DEF RootCancelled, StopCancels, vars, DrainInv, StopAfterStart,
     StopAlone, QueuedInHand, NothingAfterStop, AllDone, Started, thVars
<1> QED BY <1>1, <1>2, <1>3, DrainThreadStep, <1>4, <1>5, <1>6, <1>7, <1>8
    DEF Next, ShutdownStep

(* In the server, no supervisor runs, or will, when Manager.Stop returns.  *)
THEOREM StopLeavesNothing ==
  ASSUME Drain PROVE Spec => []NothingAfterStop
<1>1. Init => DrainInv
  BY DEF Init, DrainInv, StopAfterStart, StopAlone, QueuedInHand,
     NothingAfterStop
<1>2. TypeOK /\ Wiring /\ DrainInv /\ [Next]_vars => DrainInv' BY DrainStep
<1>3. TypesAndWiring => TypeOK /\ Wiring BY DEF TypesAndWiring
<1>4. DrainInv => NothingAfterStop BY DEF DrainInv
<1> QED BY <1>1, <1>2, <1>3, <1>4, TypeCorrect, PTL DEF Spec

-----------------------------------------------------------------------------
(* What the last request wrote takes effect, when requests come one at a   *)
(* time and none of their steps fails.  With two handlers on one project,  *)
(* or a request that is given up, it does not hold: the assumption is what *)
(* the manager relies on, and what the argument needs is all of the path   *)
(* of a call, stated place by place.                                       *)

OneAtATime == ~Faults /\ \A g, h \in Handlers : g = h

OneBusy == \A t, u \in Threads : pc[t] # "idle" /\ pc[u] # "idle" => t = u
StartFirst ==
  /\ todo # {} => \A h \in Handlers : pc[h] = "idle"
  /\ \A t \in Threads : pc[t] # "idle" => arg[t] \notin todo
IdleUnloaded == \A s \in Sups : phase[s] # "up" => loaded[s] = 0

SeqShape == OneBusy /\ StartFirst /\ IdleUnloaded

Adding == {"add", "render", "write", "register"}
Replacing == {"rerender", "rewrite", "cancel", "wait", "swap"}
Dropping == {"drop", "forget"}

AtPlace(t) ==
  /\ pc[t] \in Adding \cup Replacing \cup {"launch", "refresh"} =>
       status[arg[t]] \in Live
  /\ pc[t] \in Dropping \cup {"remove"} =>
       status[arg[t]] \in {"disabled", "deleted"}
  /\ pc[t] \in Adding \cup Dropping => slot[arg[t]] = None
  /\ pc[t] \in Replacing \cup {"launch"} => slot[arg[t]] = held[t]
  /\ pc[t] = "drop" => \A p \in Projects : slot[p] # held[t]
  /\ pc[t] \in {"write", "rewrite"} => seen[t] = ver[arg[t]]
  /\ pc[t] \in {"register", "launch", "cancel", "wait", "swap"} =>
       file[arg[t]] = ver[arg[t]]

AtWork(p, places) == \E t \in Threads : pc[t] \in places /\ arg[t] = p
Settled(p) ==
  /\ status[p] = "active" => slot[p] # None
  /\ slot[p] # None => status[p] \in Live /\ file[p] = ver[p]

CallsInOrder == \A t \in Threads : AtPlace(t)
ToDoVacant == \A p \in todo : status[p] = "active" /\ slot[p] = None
RestSettled ==
  \A p \in Projects \ todo : Settled(p) \/ AtWork(p, PCs \ {"idle"})
Replaced ==
  \A p \in Projects : slot[p] # None /\ cancelled[slot[p]] =>
    AtWork(p, {"wait", "swap"})
Fresh ==
  \A p \in Projects : slot[p] # None /\ loaded[slot[p]] \notin {0, file[p]} =>
    AtWork(p, {"cancel", "wait", "swap"})

SeqServing == CallsInOrder /\ ToDoVacant /\ RestSettled /\ Replaced /\ Fresh

SeqInv == SeqShape /\ (stopPc = "serving" => SeqServing)

(* A busy thread moves on: nobody else is busy, then or now.               *)
LEMMA ShapeMove ==
  ASSUME TypeOK, SeqShape, NEW t \in Threads, NEW from \in PCs \ {"idle"},
         NEW to \in PCs, Goto(t, from, to), to # "idle" => arg'[t] = arg[t],
         \A u \in Threads \ {t} : arg'[u] = arg[u], UNCHANGED <<todo, loaded>>,
         \A s \in Sups : phase'[s] = "up" <=> phase[s] = "up"
  PROVE  SeqShape'
<1> USE DEF TypeOK, ThreadTypes
<1>1. /\ pc[t] # "idle" /\ pc'[t] = to
      /\ \A u \in Threads \ {t} : pc'[u] = pc[u]
  BY DEF Goto
<1>2. OneBusy' BY <1>1 DEF SeqShape, OneBusy
<1>3. StartFirst' BY <1>1 DEF SeqShape, StartFirst, Threads
<1>4. IdleUnloaded' BY DEF SeqShape, IdleUnloaded
<1> QED BY <1>2, <1>3, <1>4 DEF SeqShape

(* Every step of a call keeps the shape.                                   *)
LEMMA ShapeThreadStep ==
  ASSUME TypeOK, Wiring, SeqShape, NEW t \in Threads, ThreadStep(t)
  PROVE  SeqShape'
<1> USE DEF TypeOK, ThreadTypes, SupTypes, supVars, stopVars, PCs
<1>1. CASE \/ AddCheck(t) \/ RefreshLookup(t) \/ RefreshCancel(t)
           \/ RefreshWait(t) \/ RefreshSwap(t)
           \/ Render(t, "render", "write") \/ Write(t, "write", "register")
           \/ Render(t, "rerender", "rewrite") \/ Write(t, "rewrite", "cancel")
  BY <1>1, ShapeMove
  DEF AddCheck, RefreshLookup, RefreshCancel, RefreshWait, RefreshSwap, Render,
      Write, Return
<1>2. CASE RemoveLookup(t) \/ RemoveCancel(t) \/ RemoveForget(t)
  BY <1>2, ShapeMove DEF RemoveLookup, RemoveCancel, RemoveForget, Return
<1>3. CASE Register(t)
  <2>1. \A s \in Sups : phase'[s] = "up" <=> phase[s] = "up"
    BY <1>3 DEF Register, Unused
  <2> QED BY <1>3, <2>1, ShapeMove DEF Register, Return
<1>4. CASE LaunchRun(t)
  <2>1. held[t] \in Sups /\ phase[held[t]] = "queued"
    BY <1>4 DEF LaunchRun, Return, Goto, Wiring, HolderHasSup, LaunchesQueued,
       Holding
  <2>2. \A s \in Sups : phase'[s] = "up" <=> phase[s] = "up"
    BY <1>4, <2>1 DEF LaunchRun
  <2> QED BY <1>4, <2>2, ShapeMove DEF LaunchRun, Return
<1> QED BY <1>1, <1>2, <1>3, <1>4 DEF ThreadStep

(* The step of a busy thread only concerns its own project.                *)
LEMMA ServingMove ==
  ASSUME TypeOK, SeqShape, SeqServing, NEW t \in Threads,
         NEW p \in Projects, p = arg[t],
         NEW from \in PCs \ {"idle"}, NEW to \in PCs, Goto(t, from, to),
         to # "idle" => arg'[t] = arg[t],
         \A u \in Threads \ {t} : arg'[u] = arg[u],
         UNCHANGED <<status, ver, todo, loaded>>,
         \A q \in Projects \ {p} :
           /\ slot'[q] = slot[q] /\ file'[q] = file[q]
           /\ slot[q] # None => cancelled'[slot[q]] = cancelled[slot[q]],
         AtPlace(t)', to = "idle" => Settled(p)',
         LET s == slot'[p] IN s # None =>
           /\ cancelled'[s] => to \in {"wait", "swap"}
           /\ loaded[s] \notin {0, file'[p]} => to \in {"cancel", "wait", "swap"}
  PROVE  SeqServing'
<1> USE DEF TypeOK, ThreadTypes
<1>1. /\ pc[t] = from /\ pc'[t] = to
      /\ \A u \in Threads \ {t} : pc'[u] = "idle" /\ pc[u] = "idle"
  BY DEF Goto, SeqShape, OneBusy
<1>2. p \notin todo BY <1>1 DEF SeqShape, StartFirst
<1>3. CallsInOrder'
  BY <1>1 DEF CallsInOrder, AtPlace, Adding, Replacing, Dropping
<1>4. ToDoVacant' BY <1>2 DEF SeqServing, ToDoVacant, StopTypes
<1>5. \A q \in Projects \ {p}, places \in SUBSET (PCs \ {"idle"}) :
        ~AtWork(q, places)
  BY <1>1 DEF AtWork
<1>6. \A places \in SUBSET PCs : to \in places /\ to # "idle" => AtWork(p, places)'
  BY <1>1 DEF AtWork
<1>7. RestSettled'
  <2> SUFFICES ASSUME NEW q \in Projects \ todo
               PROVE  Settled(q)' \/ AtWork(q, PCs \ {"idle"})'
    BY DEF RestSettled
  <2>1. CASE q # p
    BY <1>5, <2>1 DEF SeqServing, RestSettled, Settled
  <2>2. CASE q = p
    <3>1. CASE to = "idle" BY <2>2, <3>1
    <3>2. CASE to # "idle" BY <1>1, <2>2, <3>2 DEF AtWork
    <3> QED BY <3>1, <3>2
  <2> QED BY <2>1, <2>2
<1>8. Replaced'
  <2> SUFFICES ASSUME NEW q \in Projects, slot'[q] # None, cancelled'[slot'[q]]
               PROVE  AtWork(q, {"wait", "swap"})'
    BY DEF Replaced
  <2>1. CASE q # p BY <1>5, <2>1 DEF SeqServing, Replaced, PCs
  <2>2. CASE q = p BY <1>6, <2>2 DEF PCs
  <2> QED BY <2>1, <2>2
<1>9. Fresh'
  <2> SUFFICES ASSUME NEW q \in Projects, slot'[q] # None,
                      loaded[slot'[q]] \notin {0, file'[q]}
               PROVE  AtWork(q, {"cancel", "wait", "swap"})'
    BY DEF Fresh
  <2>1. CASE q # p BY <1>5, <2>1 DEF SeqServing, Fresh, PCs
  <2>2. CASE q = p BY <1>6, <2>2 DEF PCs
  <2> QED BY <2>1, <2>2
<1> QED BY <1>3, <1>4, <1>7, <1>8, <1>9 DEF SeqServing

(* What the invariant says where a busy thread stands.                     *)
LEMMA WhereItStands ==
  ASSUME TypeOK, Wiring, SeqShape, SeqServing, NEW t \in Threads,
         pc[t] # "idle"
  PROVE  /\ AtPlace(t) /\ arg[t] \in Projects /\ arg[t] \notin todo
         /\ pc[t] \in Holding => held[t] \in Sups
         /\ slot[arg[t]] # None =>
              /\ cancelled[slot[arg[t]]] => pc[t] \in {"wait", "swap"}
              /\ loaded[slot[arg[t]]] \notin {0, file[arg[t]]} =>
                   pc[t] \in {"cancel", "wait", "swap"}
<1>1. \A u \in Threads : pc[u] # "idle" => u = t
  BY DEF SeqShape, OneBusy
<1>2. arg[t] \in Projects BY DEF Wiring, BusyKnowsProject
<1> QED BY <1>1, <1>2 DEF SeqServing, CallsInOrder, SeqShape, StartFirst, Wiring,
           HolderHasSup, Replaced, Fresh, AtWork

(* Every step of a call of a manager that serves.                          *)
LEMMA ServingThreadStep ==
  ASSUME TypeOK, Wiring, SafetyInv, SeqShape, SeqServing, stopPc = "serving",
         NEW t \in Threads, ThreadStep(t)
  PROVE  SeqServing'
<1> USE DEF TypeOK, ThreadTypes, dbVars, mgrVars, supVars, stopVars
<1>1. pc[t] # "idle"
  BY DEF ThreadStep, AddCheck, Register, LaunchRun, Render, Write, RefreshLookup,
     RefreshCancel, RefreshWait, RefreshSwap, RemoveLookup, RemoveCancel,
     RemoveForget, Return, Goto
<1>2. PICK p \in Projects : p = arg[t]
  BY <1>1, WhereItStands
<1>3. /\ AtPlace(t)
      /\ pc[t] \in Holding => held[t] \in Sups
      /\ slot[p] # None =>
           /\ cancelled[slot[p]] => pc[t] \in {"wait", "swap"}
           /\ loaded[slot[p]] \notin {0, file[p]} =>
                pc[t] \in {"cancel", "wait", "swap"}
  BY <1>1, <1>2, WhereItStands
<1>4. ~closed /\ \A q \in Projects : slot[q] # None => owner[slot[q]] = q
  BY DEF SafetyInv, StopPhases, SlotsOwned
<1> DEFINE Moves(to) ==
             /\ Goto(t, pc[t], to) /\ UNCHANGED <<status, ver, todo, loaded>>
             /\ to # "idle" => arg'[t] = arg[t]
             /\ \A u \in Threads \ {t} : arg'[u] = arg[u]
<1>5. CASE AddCheck(t)
  <2>1. Moves("render") /\ UNCHANGED <<slot, held, seen, file, cancelled>>
    BY <1>2, <1>3, <1>4, <1>5 DEF AddCheck, Vacant, Goto, AtPlace, Adding
  <2>2. AtPlace(t)'
    BY <1>3, <1>5, <2>1 DEF AddCheck, Goto, AtPlace, Adding, Replacing, Dropping
  <2>3. pc[t] = "add" /\ slot[p] = None
    BY <1>2, <1>3, <1>5 DEF AddCheck, AtPlace, Adding
  <2> QED BY <1>2, <2>1, <2>2, <2>3, ServingMove DEF PCs
<1>6. CASE Render(t, "render", "write")
  <2>1. /\ Moves("write") /\ seen'[t] = ver[p]
        /\ UNCHANGED <<slot, held, file, cancelled>>
    BY <1>2, <1>3, <1>6 DEF Render, Goto, AtPlace, Adding
  <2>2. AtPlace(t)'
    BY <1>2, <1>3, <1>6, <2>1 DEF Render, Goto, AtPlace, Adding, Replacing, Dropping
  <2>3. pc[t] = "render" /\ slot[p] = None
    BY <1>2, <1>3, <1>6 DEF Render, AtPlace, Adding
  <2> QED BY <1>2, <2>1, <2>2, <2>3, ServingMove DEF PCs
<1>7. CASE Write(t, "write", "register")
  <2>1. /\ Moves("register") /\ file'[p] = ver[p] /\ pc[t] = "write"
        /\ \A q \in Projects \ {p} : file'[q] = file[q]
        /\ UNCHANGED <<slot, held, cancelled>>
    BY <1>2, <1>3, <1>7 DEF Write, Goto, AtPlace, DataTypes
  <2>2. AtPlace(t)'
    BY <1>2, <1>3, <2>1 DEF Goto, AtPlace, Adding, Replacing, Dropping
  <2>3. slot[p] = None BY <1>2, <1>3, <2>1 DEF AtPlace, Adding
  <2> QED BY <1>2, <2>1, <2>2, <2>3, ServingMove DEF PCs
<1>8. CASE Register(t)
  <2>1. pc[t] = "register" /\ slot[p] = None /\ Vacant(p)
    BY <1>2, <1>3, <1>4, <1>8 DEF Register, AtPlace, Adding, Vacant
  <2>2. PICK s \in Sups : /\ Unused(s) /\ slot' = [slot EXCEPT ![p] = s]
                          /\ cancelled' = [cancelled EXCEPT ![s] = FALSE]
                          /\ held' = [held EXCEPT ![t] = s]
    BY <1>2, <1>8, <2>1 DEF Register
  <2>3. Moves("launch") /\ UNCHANGED file /\ held'[t] = s
    BY <1>2, <1>8, <2>1, <2>2 DEF Register, Goto
  <2>4. /\ slot'[p] = s /\ ~cancelled'[s] /\ loaded[s] = 0
        /\ \A q \in Projects \ {p} : slot'[q] = slot[q] /\ slot[q] # s
        /\ \A v \in Sups \ {s} : cancelled'[v] = cancelled[v]
    BY <2>2 DEF MgrTypes, SupTypes, Unused, SeqShape, IdleUnloaded
  <2>5. AtPlace(t)'
    BY <1>2, <1>3, <2>1, <2>3, <2>4 DEF Goto, AtPlace, Adding, Replacing, Dropping
  <2>6. \A q \in Projects \ {p} :
          /\ slot'[q] = slot[q] /\ file'[q] = file[q]
          /\ slot[q] # None => cancelled'[slot[q]] = cancelled[slot[q]]
    BY <2>3, <2>4 DEF MgrTypes
  <2> QED BY <1>2, <2>1, <2>3, <2>4, <2>5, <2>6, ServingMove DEF PCs
<1>9. CASE LaunchRun(t)
  <2>1. Moves("idle") /\ UNCHANGED <<slot, file, cancelled>> /\ pc[t] = "launch"
    BY <1>9 DEF LaunchRun, Return, Goto
  <2>2. slot[p] \in Sups /\ status[p] \in Live /\ file[p] = ver[p]
    BY <1>2, <1>3, <2>1 DEF AtPlace, Holding
  <2>3. Settled(p)'
    BY <2>1, <2>2, ConstantsAssumption DEF Settled
  <2>4. AtPlace(t)'
    BY <2>1 DEF Goto, AtPlace, Adding, Replacing, Dropping
  <2> QED BY <1>2, <1>3, <2>1, <2>3, <2>4, ServingMove DEF PCs
<1>10. CASE RefreshLookup(t)
  <2>1. /\ pc[t] = "refresh" /\ UNCHANGED <<slot, file, cancelled>>
        /\ \/ slot[p] = None /\ Moves("add")
           \/ slot[p] # None /\ Moves("rerender") /\ held'[t] = slot[p]
    BY <1>2, <1>4, <1>10 DEF RefreshLookup, Goto
  <2>2. AtPlace(t)'
    BY <1>2, <1>3, <2>1 DEF Goto, AtPlace, Adding, Replacing, Dropping
  <2> QED BY <1>2, <1>3, <2>1, <2>2, ServingMove DEF PCs
<1>11. CASE Render(t, "rerender", "rewrite")
  <2>1. /\ Moves("rewrite") /\ seen'[t] = ver[p]
        /\ UNCHANGED <<slot, held, file, cancelled>>
    BY <1>2, <1>3, <1>11 DEF Render, Goto, AtPlace, Replacing
  <2>2. AtPlace(t)'
    BY <1>2, <1>3, <1>11, <2>1 DEF Render, Goto, AtPlace, Adding, Replacing, Dropping
  <2> QED BY <1>2, <1>3, <1>11, <2>1, <2>2, ServingMove DEF Render, Goto, PCs
<1>12. CASE Write(t, "rewrite", "cancel")
  <2>1. /\ Moves("cancel") /\ file'[p] = ver[p] /\ pc[t] = "rewrite"
        /\ \A q \in Projects \ {p} : file'[q] = file[q]
        /\ UNCHANGED <<slot, held, cancelled>>
    BY <1>2, <1>3, <1>12 DEF Write, Goto, AtPlace, DataTypes
  <2>2. AtPlace(t)'
    BY <1>2, <1>3, <2>1 DEF Goto, AtPlace, Adding, Replacing, Dropping
  <2> QED BY <1>2, <1>3, <2>1, <2>2, ServingMove DEF PCs
<1>13. CASE RefreshCancel(t)
  <2>1. /\ Moves("wait") /\ pc[t] = "cancel"
        /\ cancelled' = [cancelled EXCEPT ![held[t]] = TRUE]
        /\ UNCHANGED <<slot, held, file>>
    BY <1>13 DEF RefreshCancel, Goto
  <2>2. held[t] \in Sups /\ slot[p] = held[t]
    BY <1>2, <1>3, <2>1 DEF AtPlace, Replacing, Holding
  <2>3. \A q \in Projects \ {p} : slot[q] # None => slot[q] # held[t]
    BY <1>4, <2>2, ConstantsAssumption
  <2>4. \A q \in Projects \ {p} :
          slot[q] # None => cancelled'[slot[q]] = cancelled[slot[q]]
    BY <2>1, <2>3 DEF SupTypes, MgrTypes
  <2>5. AtPlace(t)'
    BY <1>2, <1>3, <2>1 DEF Goto, AtPlace, Adding, Replacing, Dropping
  <2> QED BY <1>2, <1>3, <2>1, <2>4, <2>5, ServingMove DEF PCs
<1>14. CASE RefreshWait(t)
  <2>1. Moves("swap") /\ pc[t] = "wait" /\ UNCHANGED <<slot, held, file, cancelled>>
    BY <1>14 DEF RefreshWait, Goto
  <2>2. AtPlace(t)'
    BY <1>2, <1>3, <2>1 DEF Goto, AtPlace, Adding, Replacing, Dropping
  <2> QED BY <1>2, <1>3, <2>1, <2>2, ServingMove DEF PCs
<1>15. CASE RefreshSwap(t)
  <2>1. /\ Moves("add") /\ pc[t] = "swap" /\ UNCHANGED <<file, cancelled>>
        /\ slot' = [slot EXCEPT ![p] = None]
    BY <1>2, <1>3, <1>15 DEF RefreshSwap, Goto, AtPlace, Replacing
  <2>2. slot'[p] = None /\ \A q \in Projects \ {p} : slot'[q] = slot[q]
    BY <2>1 DEF MgrTypes
  <2>3. AtPlace(t)'
    BY <1>2, <1>3, <2>1, <2>2 DEF Goto, AtPlace, Adding, Replacing, Dropping
  <2> QED BY <1>2, <2>1, <2>2, <2>3, ServingMove DEF PCs
<1>16. CASE RemoveLookup(t)
  <2>1. PICK to \in {"forget", "drop"} :
          /\ Moves(to) /\ pc[t] = "remove" /\ (to = "drop" => slot[p] # None)
          /\ held'[t] = slot[p] /\ slot' = [slot EXCEPT ![p] = None]
          /\ UNCHANGED <<file, cancelled>>
    BY <1>2, <1>16 DEF RemoveLookup, Goto
  <2>2. slot'[p] = None /\ \A q \in Projects \ {p} : slot'[q] = slot[q]
    BY <2>1 DEF MgrTypes
  <2>3. to = "drop" => \A q \in Projects : slot'[q] # held'[t]
    BY <1>4, <2>1, <2>2
  <2>4. AtPlace(t)'
    BY <1>2, <1>3, <2>1, <2>2, <2>3 DEF Goto, AtPlace, Adding, Replacing, Dropping
  <2> QED BY <1>2, <2>1, <2>2, <2>4, ServingMove DEF PCs
<1>17. CASE RemoveCancel(t)
  <2>1. /\ Moves("forget") /\ pc[t] = "drop" /\ UNCHANGED <<slot, file>>
        /\ cancelled' = [cancelled EXCEPT ![held[t]] = TRUE]
    BY <1>17 DEF RemoveCancel, Goto
  <2>2. slot[p] = None /\ \A q \in Projects : slot[q] # held[t]
    BY <1>2, <1>3, <2>1 DEF AtPlace, Dropping
  <2>3. \A q \in Projects \ {p} :
          slot[q] # None => cancelled'[slot[q]] = cancelled[slot[q]]
    BY <2>1, <2>2 DEF SupTypes, MgrTypes
  <2>4. AtPlace(t)'
    BY <1>2, <1>3, <2>1, <2>2 DEF Goto, AtPlace, Adding, Replacing, Dropping
  <2> QED BY <1>2, <2>1, <2>2, <2>3, <2>4, ServingMove DEF PCs
<1>18. CASE RemoveForget(t)
  <2>1. Moves("idle") /\ UNCHANGED <<slot, file, cancelled>> /\ pc[t] = "forget"
    BY <1>18 DEF RemoveForget, Return, Goto
  <2>2. slot[p] = None /\ status[p] # "active"
    BY <1>2, <1>3, <2>1 DEF AtPlace, Dropping
  <2>3. Settled(p)' BY <2>1, <2>2 DEF Settled
  <2>4. AtPlace(t)'
    BY <2>1 DEF Goto, AtPlace, Adding, Replacing, Dropping
  <2> QED BY <1>2, <2>1, <2>2, <2>3, <2>4, ServingMove DEF PCs
<1> QED BY <1>5, <1>6, <1>7, <1>8, <1>9, <1>10, <1>11, <1>12, <1>13, <1>14,
           <1>15, <1>16, <1>17, <1>18 DEF ThreadStep

(* Every step, when requests come one at a time.                           *)
LEMMA SeqStep ==
  ASSUME OneAtATime, TypeOK, Wiring, SafetyInv, SeqInv, [Next]_vars
  PROVE  SeqInv'
<1> USE DEF TypeOK, dbVars, mgrVars, supVars, stopVars
<1>1. ASSUME NEW h \in Handlers, NEW p \in Projects, Request(h, p)
      PROVE  SeqInv'
  <2>1. PICK entry \in {"add", "refresh", "remove"} : Call(h, p, entry)
    BY <1>1 DEF Request, CreateProject, ChangeConfig, ActivateProject,
           DisableProject, DeleteProject
  <2>2. /\ todo = {} /\ \A t \in Threads : pc[t] = "idle"
        /\ pc'[h] = entry /\ arg'[h] = p
        /\ \A u \in Threads \ {h} : pc'[u] = "idle"
        /\ UNCHANGED <<slot, file, cancelled, loaded, phase, todo, stopPc>>
    BY <2>1, ConstantsAssumption
    DEF Call, Started, Goto, OneAtATime, Threads, ThreadTypes
  <2>3. SeqShape'
    BY <2>2 DEF SeqInv, SeqShape, OneBusy, StartFirst, IdleUnloaded
  <2>4. ASSUME stopPc = "serving"
        PROVE  SeqServing'
    <3>1. \A q \in Projects, places \in SUBSET (PCs \ {"idle"}) : ~AtWork(q, places)
      BY <2>2 DEF AtWork
    <3>2. /\ \A q \in Projects \ {p} : status'[q] = status[q] /\ ver'[q] = ver[q]
          /\ entry \in {"add", "refresh"} => status'[p] \in Live
          /\ entry = "remove" => status'[p] \in {"disabled", "deleted"}
          /\ entry = "add" => status[p] = "absent"
      BY <1>1, <2>1, <2>2 DEF Request, CreateProject, ChangeConfig,
         ActivateProject, DisableProject, DeleteProject, Call, Goto, DataTypes,
         Live, ThreadTypes, Threads
    <3>3. entry = "add" => slot[p] = None
      BY <2>2, <2>4, <3>1, <3>2 DEF SeqInv, SeqServing, RestSettled, Settled, Live
    <3>4. CallsInOrder'
      BY <2>2, <3>2, <3>3
      DEF CallsInOrder, AtPlace, Adding, Replacing, Dropping
    <3>5. ToDoVacant' BY <2>2 DEF ToDoVacant
    <3>6. RestSettled'
      <4> SUFFICES ASSUME NEW q \in Projects
                   PROVE  Settled(q)' \/ AtWork(q, PCs \ {"idle"})'
        BY DEF RestSettled
      <4>1. CASE q = p BY <2>2, <4>1 DEF AtWork, PCs, Threads
      <4>2. CASE q # p
        BY <2>2, <2>4, <3>1, <3>2, <4>2 DEF SeqInv, SeqServing, RestSettled, Settled
      <4> QED BY <4>1, <4>2
    <3>7. Replaced' /\ Fresh'
      BY <2>2, <2>4, <3>1 DEF SeqInv, SeqServing, Replaced, Fresh, PCs
    <3> QED BY <3>4, <3>5, <3>6, <3>7 DEF SeqServing
  <2> QED BY <2>2, <2>3, <2>4 DEF SeqInv
<1>2. ASSUME NEW p \in Projects, StartNext(p)
      PROVE  SeqInv'
  <2>1. /\ p \in todo /\ todo' = todo \ {p} /\ \A t \in Threads : pc[t] = "idle"
        /\ pc'[Boot] = "add" /\ arg'[Boot] = p
        /\ \A u \in Threads \ {Boot} : pc'[u] = "idle"
        /\ UNCHANGED <<slot, file, cancelled, loaded, phase, stopPc, status, ver>>
    BY <1>2 DEF StartNext, Goto, SeqInv, SeqShape, StartFirst, Threads, ThreadTypes
  <2>2. SeqShape'
    BY <2>1, ConstantsAssumption
    DEF SeqInv, SeqShape, OneBusy, StartFirst, IdleUnloaded, Threads
  <2>3. ASSUME stopPc = "serving"
        PROVE  SeqServing'
    <3>1. \A q \in Projects, places \in SUBSET (PCs \ {"idle"}) : ~AtWork(q, places)
      BY <2>1 DEF AtWork
    <3>2. status[p] = "active" /\ slot[p] = None
      BY <2>1, <2>3 DEF SeqInv, SeqServing, ToDoVacant
    <3>3. CallsInOrder'
      BY <2>1, <3>2 DEF CallsInOrder, AtPlace, Adding, Replacing, Dropping, Live
    <3>4. ToDoVacant' BY <2>1, <2>3 DEF SeqInv, SeqServing, ToDoVacant
    <3>5. RestSettled'
      <4> SUFFICES ASSUME NEW q \in Projects \ todo'
                   PROVE  Settled(q)' \/ AtWork(q, PCs \ {"idle"})'
        BY DEF RestSettled
      <4>1. CASE q = p BY <2>1, <4>1 DEF AtWork, PCs, Threads
      <4>2. CASE q # p
        BY <2>1, <2>3, <3>1, <4>2 DEF SeqInv, SeqServing, RestSettled, Settled
      <4> QED BY <4>1, <4>2
    <3>6. Replaced' /\ Fresh'
      BY <2>1, <2>3, <3>1 DEF SeqInv, SeqServing, Replaced, Fresh, PCs
    <3> QED BY <3>3, <3>4, <3>5, <3>6 DEF SeqServing
  <2> QED BY <2>1, <2>2, <2>3 DEF SeqInv
<1>3. ASSUME NEW t \in Threads, ThreadStep(t)
      PROVE  SeqInv'
  <2>1. UNCHANGED stopPc
    BY <1>3 DEF ThreadStep, AddCheck, Register, LaunchRun, Render, Write,
       RefreshLookup, RefreshCancel, RefreshWait, RefreshSwap, RemoveLookup,
       RemoveCancel, RemoveForget
  <2> QED BY <1>3, <2>1, ShapeThreadStep, ServingThreadStep DEF SeqInv
<1>4. ASSUME NEW t \in Threads, ThreadFault(t)
      PROVE  FALSE
  BY <1>4 DEF ThreadFault, RenderFails, RefreshGivesUp, OneAtATime
<1>5. ASSUME NEW s \in Sups, SupStep(s)
      PROVE  SeqInv'
  <2>1. /\ UNCHANGED <<file, status, ver, slot, cancelled, todo, stopPc>>
        /\ UNCHANGED thVars /\ phase[s] # "done"
        /\ \A v \in Sups \ {s} : phase'[v] = phase[v] /\ loaded'[v] = loaded[v]
        /\ \/ loaded'[s] = 0
           \/ loaded'[s] = file[owner[s]] /\ phase'[s] = "up"
           \/ loaded'[s] = loaded[s] /\ phase[s] # "up"
    BY <1>5, ConstantsAssumption DEF SupStep, SupCheck, SupLaunch, SupLaunchFails,
       ChildDies, SupDown, SupMoves, SupTypes
  <2>2. SeqShape'
    BY <2>1 DEF SeqInv, SeqShape, OneBusy, StartFirst, IdleUnloaded, thVars
  <2>3. ASSUME stopPc = "serving"
        PROVE  SeqServing'
    <3>1. \A q \in Projects, places \in SUBSET PCs :
            AtWork(q, places) => AtWork(q, places)'
      BY <2>1 DEF AtWork, thVars
    <3>2. CallsInOrder' /\ ToDoVacant'
      BY <2>1, <2>3 DEF SeqInv, SeqServing, CallsInOrder, AtPlace, ToDoVacant, thVars
    <3>3. RestSettled' /\ Replaced'
      BY <2>1, <2>3 DEF SeqInv, SeqServing, RestSettled, Replaced, Settled, AtWork,
         thVars
    <3>4. Fresh'
      <4> SUFFICES ASSUME NEW q \in Projects, slot[q] # None,
                          loaded'[slot[q]] \notin {0, file[q]}
                   PROVE  AtWork(q, {"cancel", "wait", "swap"})'
        BY <2>1 DEF Fresh
      <4>1. loaded'[slot[q]] = loaded[slot[q]]
        BY <2>1 DEF SafetyInv, SlotsOwned, MgrTypes, SeqInv, SeqShape, IdleUnloaded
      <4> QED BY <2>3, <3>1, <4>1 DEF SeqInv, SeqServing, Fresh, PCs
    <3> QED BY <3>2, <3>3, <3>4 DEF SeqServing
  <2> QED BY <2>1, <2>2, <2>3 DEF SeqInv
<1>6. CASE RootCancelled \/ BeginShutdown \/ ShutdownStep \/ UNCHANGED vars
  <2>1. /\ UNCHANGED <<phase, loaded, todo>> /\ UNCHANGED thVars
        /\ \/ stopPc' # "serving"
           \/ UNCHANGED <<file, status, ver, slot, cancelled, stopPc>>
    BY <1>6 DEF RootCancelled, BeginShutdown, ShutdownStep, StopTakesMap,
       StopCancels, StopAllCancelled, StopReturns, StopStep, vars, thVars
  <2>2. SeqShape'
    BY <2>1 DEF SeqInv, SeqShape, OneBusy, StartFirst, IdleUnloaded, thVars
  <2>3. CASE UNCHANGED <<file, status, ver, slot, cancelled, stopPc>>
    BY <2>1, <2>2, <2>3 DEF SeqInv, SeqServing, CallsInOrder, AtPlace, ToDoVacant,
       RestSettled, Replaced, Fresh, Settled, AtWork, thVars
  <2> QED BY <2>1, <2>2, <2>3 DEF SeqInv
<1> QED BY <1>1, <1>2, <1>3, <1>4, <1>5, <1>6 DEF Next

(* The strengthened invariant, for any number of projects.                 *)
LEMMA Sequential ==
  ASSUME OneAtATime PROVE Spec => []SeqInv
<1>1. ASSUME Init PROVE SeqInv
  <2>1. SeqShape
    BY <1>1 DEF Init, SeqShape, OneBusy, StartFirst, IdleUnloaded, Threads
  <2>2. CallsInOrder
    BY <1>1 DEF Init, CallsInOrder, AtPlace, Adding, Replacing, Dropping
  <2>3. ToDoVacant /\ RestSettled /\ Replaced /\ Fresh
    BY <1>1 DEF Init, ToDoVacant, RestSettled, Settled, Replaced, Fresh
  <2> QED BY <2>1, <2>2, <2>3 DEF SeqInv, SeqServing
<1>2. TypeOK /\ Wiring /\ SafetyInv /\ SeqInv /\ [Next]_vars => SeqInv'
  BY SeqStep
<1>3. TypesAndWiring => TypeOK /\ Wiring BY DEF TypesAndWiring
<1> QED BY <1>1, <1>2, <1>3, TypeCorrect, SafetyInvariant, PTL DEF Spec

(* When requests come one at a time and no step of one fails, an active    *)
(* project has, between requests, a supervisor that nobody cancelled, and  *)
(* a deleted project has none.                                             *)
THEOREM RequestsServed ==
  ASSUME OneAtATime PROVE Spec => []ServedAsAsked
<1>1. SeqInv => ServedAsAsked
  BY DEF SeqInv, SeqServing, ServedAsAsked, Quiet, Started, RestSettled, Settled,
     Replaced, AtWork, Live, PCs
<1> QED BY <1>1, Sequential, PTL

(* Under the same assumption, the file of an active project and what its   *)
(* running server was started from are, between requests, the newest.      *)
THEOREM RequestsApplied ==
  ASSUME OneAtATime PROVE Spec => []ConfigApplied
<1>1. SeqInv => ConfigApplied
  <2> SUFFICES ASSUME SeqInv, Quiet, NEW p \in Projects, status[p] = "active"
               PROVE  /\ file[p] = ver[p]
                      /\ slot[p] # None => loaded[slot[p]] \in {0, ver[p]}
    BY DEF ConfigApplied
  <2>1. \A places \in SUBSET (PCs \ {"idle"}) : ~AtWork(p, places)
    BY DEF Quiet, AtWork
  <2>2. SeqServing /\ p \notin todo BY DEF SeqInv, Quiet, Started
  <2>3. slot[p] # None /\ file[p] = ver[p]
    BY <2>1, <2>2 DEF SeqServing, RestSettled, Settled
  <2> QED BY <2>1, <2>2, <2>3 DEF SeqServing, Fresh, PCs
<1> QED BY <1>1, Sequential, PTL

-----------------------------------------------------------------------------
(* The supervisors of the manager keep within SupervisedProcess, so what   *)
(* Supervisor is proved to do is what the manager's model relies on.       *)

InContract(s) == [Contract(s)!Next]_(Contract(s)!vars)

(* A supervisor whose goroutine stands still may only be cancelled.        *)
LEMMA ContractStill ==
  ASSUME TypeOK, NEW s \in Sups, phase'[s] = phase[s], Cancelled(s)' \in BOOLEAN,
         Cancelled(s) => Cancelled(s)'
  PROVE  InContract(s)
<1>1. Cancelled(s) \in BOOLEAN BY DEF Cancelled, TypeOK, SupTypes, StopTypes
<1>2. CASE Cancelled(s)' = Cancelled(s)
  BY <1>2 DEF InContract, Contract!vars
<1>3. CASE ~Cancelled(s) /\ Cancelled(s)' = TRUE
  BY <1>3 DEF InContract, Contract!Next, Contract!Cancel
<1> QED BY <1>1, <1>2, <1>3

(* The goroutine's own moves.                                              *)
LEMMA ContractMoves ==
  ASSUME TypeOK, NEW s \in Sups, Cancelled(s)' = Cancelled(s),
         \/ phase[s] = "queued" /\ phase'[s] = "looping"
         \/ phase[s] = "looping" /\ Cancelled(s) /\ phase'[s] = "done"
         \/ phase[s] = "looping" /\ ~Cancelled(s) /\ phase'[s] = "starting"
         \/ phase[s] = "starting" /\ phase'[s] \in {"up", "looping"}
         \/ phase[s] = "up" /\ phase'[s] = "looping"
  PROVE  InContract(s)
BY DEF InContract, Contract!Next, Contract!Goto, Contract!Begin, Contract!GiveUp,
       Contract!GoOn, Contract!Launch, Contract!LaunchFails, Contract!ChildDies

(* Nothing happens to a supervisor.                                        *)
LEMMA ContractFrame ==
  ASSUME TypeOK, NEW s \in Sups, UNCHANGED <<phase, cancelled, rootDone>>
  PROVE  InContract(s)
<1>1. Cancelled(s)' = Cancelled(s) BY DEF Cancelled
<1> QED BY <1>1 DEF InContract, Contract!vars

(* What the calls of the manager do to a supervisor.                       *)
LEMMA ContractThreadStep ==
  ASSUME TypeOK, TypeOK', Wiring, NEW s \in Sups, NEW t \in Threads, ThreadStep(t)
  PROVE  InContract(s)
<1> USE DEF stopVars, supVars
<1>1. CASE \/ AddCheck(t) \/ RefreshLookup(t) \/ RefreshWait(t) \/ RefreshSwap(t)
           \/ Render(t, "render", "write") \/ Write(t, "write", "register")
           \/ Render(t, "rerender", "rewrite") \/ Write(t, "rewrite", "cancel")
           \/ RemoveLookup(t) \/ RemoveForget(t)
  BY <1>1, ContractFrame DEF AddCheck, RefreshLookup, RefreshWait, RefreshSwap,
     Render, Write, RemoveLookup, RemoveForget
<1>2. CASE Register(t)
  <2>1. CASE UNCHANGED <<slot, owner, phase, cancelled>>
    BY <1>2, <2>1, ContractFrame DEF Register
  <2>2. ASSUME NEW v \in Sups, Unused(v), phase' = [phase EXCEPT ![v] = "queued"],
               cancelled' = [cancelled EXCEPT ![v] = FALSE], UNCHANGED rootDone
        PROVE  InContract(s)
    <3>1. CASE s = v
      <4>1. phase[s] = "done" /\ phase'[s] = "queued" /\ Cancelled(s)' \in BOOLEAN
        BY <2>2, <3>1 DEF Unused, TypeOK, SupTypes, Cancelled, StopTypes
      <4> QED BY <4>1 DEF InContract, Contract!Next, Contract!Renew, Contract!Goto
    <3>2. CASE s # v
      <4>1. phase'[s] = phase[s] /\ Cancelled(s)' = Cancelled(s)
        BY <2>2, <3>2 DEF TypeOK, SupTypes, Cancelled
      <4> QED BY <4>1 DEF InContract, Contract!vars
    <3> QED BY <3>1, <3>2
  <2> QED BY <1>2, <2>1, <2>2 DEF Register
<1>3. CASE LaunchRun(t)
  <2>1. held[t] \in Sups /\ phase[held[t]] = "queued"
    BY <1>3 DEF LaunchRun, Return, Goto, Wiring, HolderHasSup, LaunchesQueued,
       Holding
  <2>2. Cancelled(s)' = Cancelled(s)
    BY <1>3 DEF LaunchRun, Cancelled
  <2>3. CASE s = held[t]
    <3>1. phase[s] = "queued" /\ phase'[s] = "looping"
      BY <1>3, <2>1, <2>3 DEF LaunchRun, TypeOK, SupTypes
    <3> QED BY <2>2, <3>1, ContractMoves
  <2>4. CASE s # held[t]
    <3>1. phase'[s] = phase[s]
      BY <1>3, <2>4 DEF LaunchRun, TypeOK, SupTypes
    <3> QED BY <2>2, <3>1 DEF InContract, Contract!vars
  <2> QED BY <2>3, <2>4
<1>4. CASE RefreshCancel(t) \/ RemoveCancel(t)
  <2>1. phase'[s] = phase[s] /\ Cancelled(s)' \in BOOLEAN /\ (Cancelled(s) => Cancelled(s)')
    BY <1>4 DEF RefreshCancel, RemoveCancel, Cancelled, TypeOK, SupTypes, StopTypes
  <2> QED BY <2>1, ContractStill
<1> QED BY <1>1, <1>2, <1>3, <1>4 DEF ThreadStep

(* Every step of the system is one of the contract, or none, for each of   *)
(* the supervisors.                                                        *)
LEMMA ContractStep ==
  ASSUME TypeOK, TypeOK', Wiring, NEW s \in Sups, [Next]_vars
  PROVE  InContract(s)
<1> USE DEF stopVars, supVars
<1>1. ASSUME NEW h \in Handlers, NEW p \in Projects, Request(h, p)
      PROVE  InContract(s)
  BY <1>1, ContractFrame DEF Request, CreateProject, ChangeConfig,
     ActivateProject, DisableProject, DeleteProject, Call
<1>2. ASSUME NEW p \in Projects, StartNext(p)
      PROVE  InContract(s)
  BY <1>2, ContractFrame DEF StartNext
<1>3. ASSUME NEW t \in Threads, ThreadFault(t)
      PROVE  InContract(s)
  BY <1>3, ContractFrame DEF ThreadFault, RenderFails, RefreshGivesUp
<1>4. ASSUME NEW v \in Sups, SupStep(v)
      PROVE  InContract(s)
  <2>1. Cancelled(s)' = Cancelled(s)
    BY <1>4 DEF SupStep, SupCheck, SupLaunch, SupLaunchFails, ChildDies, SupDown,
       Cancelled
  <2>2. CASE s = v
    BY <1>4, <2>1, <2>2, ContractMoves DEF SupStep, SupCheck, SupLaunch,
       SupLaunchFails, ChildDies, SupDown, SupMoves, TypeOK, SupTypes
  <2>3. CASE s # v
    <3>1. phase'[s] = phase[s]
      BY <1>4, <2>3 DEF SupStep, SupCheck, SupLaunch, SupLaunchFails, ChildDies,
         SupDown, SupMoves, TypeOK, SupTypes
    <3> QED BY <2>1, <3>1 DEF InContract, Contract!vars
  <2> QED BY <2>2, <2>3
<1>5. CASE RootCancelled \/ \E v \in Sups : StopCancels(v)
  <2>1. phase'[s] = phase[s] /\ Cancelled(s)' \in BOOLEAN /\ (Cancelled(s) => Cancelled(s)')
    BY <1>5 DEF RootCancelled, StopCancels, Cancelled, TypeOK, SupTypes, StopTypes
  <2> QED BY <2>1, ContractStill
<1>6. CASE BeginShutdown \/ StopTakesMap \/ StopAllCancelled \/ StopReturns
  BY <1>6, ContractFrame DEF BeginShutdown, StopTakesMap, StopAllCancelled,
     StopReturns
<1>7. CASE UNCHANGED vars
  BY <1>7, ContractFrame DEF vars
<1> QED BY <1>1, <1>2, <1>3, ContractThreadStep, <1>4, <1>5, <1>6, <1>7
    DEF Next, ShutdownStep

(* Whatever handlers, faults and the shutdown do, each supervisor is made, *)
(* begun, cancelled and reused as the contract has it.                     *)
THEOREM ContractKept == Spec => SupervisorsKeepContract
<1> DEFINE Step == \A s \in Sups : [Contract(s)!Next]_(Contract(s)!vars)
<1>1. Init => \A s \in Sups : Contract(s)!Init
  BY DEF Init, Contract!Init, Cancelled
<1>2. TypesAndWiring /\ TypesAndWiring' /\ [Next]_vars => Step
  BY ContractStep DEF TypesAndWiring, InContract
<1>3. Spec => [][Step]_vars
  BY <1>2, TypeCorrect, PTL DEF Spec
<1> QED BY <1>1, <1>3, PTL DEF Spec, SupervisorsKeepContract

-----------------------------------------------------------------------------
(* What is at rest when Stop has returned stays at rest: the map is closed *)
(* for good, and only a queued goroutine is still to be launched.          *)
ClosedByStop == stopPc \in {"cancelling", "waiting", "stopped"} => closed

(* Every step: the map is closed with the one step that leaves "draining". *)
LEMMA ClosedStep ==
  ASSUME ClosedByStop, [Next]_vars
  PROVE  ClosedByStop'
<1> USE DEF ClosedByStop, mgrVars, stopVars
<1>1. ASSUME NEW h \in Handlers, NEW p \in Projects, Request(h, p)
      PROVE  ClosedByStop'
  BY <1>1 DEF Request, CreateProject, ChangeConfig, ActivateProject,
     DisableProject, DeleteProject, Call
<1>2. ASSUME NEW p \in Projects, StartNext(p)
      PROVE  ClosedByStop'
  BY <1>2 DEF StartNext
<1>3. ASSUME NEW t \in Threads, ThreadStep(t) \/ ThreadFault(t)
      PROVE  ClosedByStop'
  BY <1>3 DEF ThreadStep, AddCheck, Register, LaunchRun, Render, Write,
     RefreshLookup, RefreshCancel, RefreshWait, RefreshSwap, RemoveLookup,
     RemoveCancel, RemoveForget, ThreadFault, RenderFails, RefreshGivesUp
<1>4. ASSUME NEW s \in Sups, SupStep(s)
      PROVE  ClosedByStop'
  BY <1>4 DEF SupStep, SupCheck, SupLaunch, SupLaunchFails, ChildDies, SupDown
<1>5. CASE RootCancelled \/ BeginShutdown \/ ShutdownStep
  BY <1>5 DEF RootCancelled, BeginShutdown, ShutdownStep, StopStep, StopTakesMap,
     StopCancels, StopAllCancelled, StopReturns
<1>6. CASE UNCHANGED vars
  BY <1>6 DEF vars
<1> QED BY <1>1, <1>2, <1>3, <1>4, <1>5, <1>6 DEF Next

(* At rest, no call can register or launch a goroutine.                    *)
LEMMA RestStep ==
  ASSUME Wiring, ClosedByStop, [Next]_vars, stopPc = "stopped", AllDone
  PROVE  AllDone'
<1> USE DEF AllDone, supVars
<1>1. ASSUME NEW h \in Handlers, NEW p \in Projects, Request(h, p)
      PROVE  AllDone'
  BY <1>1 DEF Request, CreateProject, ChangeConfig, ActivateProject,
     DisableProject, DeleteProject, Call
<1>2. ASSUME NEW p \in Projects, StartNext(p)
      PROVE  AllDone'
  BY <1>2 DEF StartNext
<1>3. ASSUME NEW t \in Threads, ThreadStep(t)
      PROVE  AllDone'
  <2>1. CASE Register(t)
    BY <2>1 DEF ClosedByStop, Register, Vacant
  <2>2. ~LaunchRun(t)
    BY DEF LaunchRun, Return, Goto, Wiring, LaunchesQueued, HolderHasSup, Holding
  <2>3. CASE ThreadStep(t) /\ ~Register(t)
    BY <2>2, <2>3 DEF ThreadStep, AddCheck, Render, Write, RefreshLookup,
       RefreshCancel, RefreshWait, RefreshSwap, RemoveLookup, RemoveCancel,
       RemoveForget
  <2> QED BY <1>3, <2>1, <2>3
<1>4. ASSUME NEW t \in Threads, ThreadFault(t)
      PROVE  AllDone'
  BY <1>4 DEF ThreadFault, RenderFails, RefreshGivesUp
<1>5. ASSUME NEW s \in Sups
      PROVE  ~SupStep(s)
  BY DEF SupStep, SupCheck, SupLaunch, SupLaunchFails, ChildDies, SupDown, SupMoves
<1>6. CASE RootCancelled \/ BeginShutdown \/ ShutdownStep
  BY <1>6 DEF RootCancelled, BeginShutdown, ShutdownStep, StopTakesMap,
     StopCancels, StopAllCancelled, StopReturns
<1>7. CASE UNCHANGED vars
  BY <1>7 DEF vars
<1> QED BY <1>1, <1>2, <1>3, <1>4, <1>5, <1>6, <1>7 DEF Next

(* At rest it stays, whatever calls are still in flight: nothing starts    *)
(* again after a Stop that returned.                                       *)
RestIsFinal == [][stopPc = "stopped" /\ AllDone => AllDone']_vars

(* Nothing starts again after a Stop that returned with everything at      *)
(* rest, however many calls are still in flight.                           *)
THEOREM RestKept == Spec => RestIsFinal
<1> DEFINE Stay == stopPc = "stopped" /\ AllDone => AllDone'
<1>1. Init => ClosedByStop
  BY DEF Init, ClosedByStop
<1>2. Spec => []ClosedByStop
  BY <1>1, ClosedStep, PTL DEF Spec
<1>3. TypesAndWiring /\ ClosedByStop /\ [Next]_vars => Stay
  BY RestStep DEF TypesAndWiring
<1>4. Spec => [][Stay]_vars
  BY <1>2, <1>3, TypeCorrect, PTL DEF Spec
<1> QED BY <1>4 DEF RestIsFinal

-----------------------------------------------------------------------------
(* Whom a call waits for: the map Stop took is told to the last entry by   *)
(* the time Stop waits.                                                    *)
AllTold == stopPc \in {"waiting", "stopped"} => stopSet = {}

(* Every step: Stop goes on to wait when it has no entry left, and only    *)
(* taking the map adds any.                                                *)
LEMMA ToldStep ==
  ASSUME AllTold, [Next]_vars
  PROVE  AllTold'
<1> USE DEF AllTold, stopVars
<1>1. ASSUME NEW h \in Handlers, NEW p \in Projects, Request(h, p)
      PROVE  AllTold'
  BY <1>1 DEF Request, CreateProject, ChangeConfig, ActivateProject,
     DisableProject, DeleteProject, Call
<1>2. ASSUME NEW p \in Projects, StartNext(p)
      PROVE  AllTold'
  BY <1>2 DEF StartNext
<1>3. ASSUME NEW t \in Threads, ThreadStep(t) \/ ThreadFault(t)
      PROVE  AllTold'
  BY <1>3 DEF ThreadStep, AddCheck, Register, LaunchRun, Render, Write,
     RefreshLookup, RefreshCancel, RefreshWait, RefreshSwap, RemoveLookup,
     RemoveCancel, RemoveForget, ThreadFault, RenderFails, RefreshGivesUp
<1>4. ASSUME NEW s \in Sups, SupStep(s)
      PROVE  AllTold'
  BY <1>4 DEF SupStep, SupCheck, SupLaunch, SupLaunchFails, ChildDies, SupDown
<1>5. CASE RootCancelled \/ BeginShutdown \/ ShutdownStep
  BY <1>5 DEF RootCancelled, BeginShutdown, ShutdownStep, StopStep, StopTakesMap,
     StopCancels, StopAllCancelled, StopReturns
<1>6. CASE UNCHANGED vars
  BY <1>6 DEF vars
<1> QED BY <1>1, <1>2, <1>3, <1>4, <1>5, <1>6 DEF Next

(* No call waits on a supervisor that was not told to stop: a Refresh has  *)
(* cancelled the one it waits for, and when Stop waits for all of them,    *)
(* those it found no longer in the map included, each was cancelled or is  *)
(* about to be by the RemoveProject call that took it out.                 *)
WaitsForTold ==
  /\ \A t \in Threads : pc[t] = "wait" => cancelled[held[t]]
  /\ stopPc \in {"waiting", "stopped"} =>
       \A s \in Sups : phase[s] # "done" => cancelled[s] \/ BeingDropped(s)

(* Whatever runs beside it, a call that waits for a supervisor waits for   *)
(* one that was told to stop.                                              *)
THEOREM WaitersTold == Spec => []WaitsForTold
<1>1. Init => ClosedByStop /\ AllTold
  BY DEF Init, ClosedByStop, AllTold
<1>2. Spec => [](ClosedByStop /\ AllTold)
  BY <1>1, ClosedStep, ToldStep, PTL DEF Spec
<1>3. TypesAndWiring /\ SafetyInv /\ ClosedByStop /\ AllTold => WaitsForTold
  <2> SUFFICES ASSUME TypesAndWiring, SafetyInv, ClosedByStop, AllTold
               PROVE  WaitsForTold
    OBVIOUS
  <2>1. \A t \in Threads : pc[t] = "wait" => cancelled[held[t]]
    BY DEF SafetyInv, WaitsOnCancelled
  <2>2. ASSUME stopPc \in {"waiting", "stopped"}, NEW s \in Sups,
               phase[s] # "done"
        PROVE  cancelled[s] \/ BeingDropped(s)
    <3>1. owner[s] \in Projects
      BY <2>2 DEF TypesAndWiring, Wiring, RunnerHasProject
    <3>2. slot[owner[s]] = None
      BY <2>2, <3>1 DEF SafetyInv, ClosedStaysEmpty, ClosedByStop
    <3>3. slot[owner[s]] # s /\ s \notin stopSet
      BY <2>2, <3>2, ConstantsAssumption DEF AllTold
    <3> QED BY <2>2, <3>3 DEF SafetyInv, NoOrphan
  <2> QED BY <2>1, <2>2 DEF WaitsForTold
<1> QED BY <1>2, <1>3, TypeCorrect, SafetyInvariant, PTL
=============================================================================
