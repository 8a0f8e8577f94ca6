-------------------------- MODULE AgentRuntimeProofs --------------------------
(***************************************************************************)
(* Proofs about AgentRuntime: for all sets of versions and supervisors and *)
(* any number of attempts, with faults and kills, at most one rathole      *)
(* client is alive, none is left when the process has ended, the version   *)
(* reported is the one that runs, a silent loop is reported, and the       *)
(* supervisors are used within the contract of SupervisedProcess.          *)
(***************************************************************************)
EXTENDS AgentRuntime, TLAPS

(* While it waits for a supervisor the main goroutine has it, and only     *)
(* then; a live supervisor is in one of its hands.                         *)
Stopping == {"stopping", "leaving", "finishing"}

LiveIsHeld == \A s \in Sups : phase[s] # "done" => s = cur \/ s = held
OneHand ==
  /\ held # None => apc \in Stopping
  /\ apc \in Stopping \cup {"start", "exited"} => cur = None

(* The bridge accepts nothing once it drains, so it stays drained.         *)
DoorShut == apc \in {"drain", "close", "finishing"} => bridge # "open"
Emptied ==
  apc \in {"close", "finishing", "exited"} => \A s \in Sups : conn[s] = "none"

Hands == LiveIsHeld /\ OneHand
Bridge == DoorShut /\ Emptied
IInv == TypeOK /\ Hands /\ Bridge

(* The initial states: nothing has been started.                           *)
LEMMA InitIInv == Init => IInv
<1> SUFFICES ASSUME Init PROVE IInv
  OBVIOUS
<1>1. TypeOK
  <2>1. FlagTypes BY DEF Init, FlagTypes
  <2>2. MainTypes
    BY ConstantsAssumption DEF ConstantsAssumption, Init, MainTypes, PCs, Contents
  <2>3. SupTypes BY DEF Init, SupTypes, Contents
  <2>4. ClockTypes
    BY ConstantsAssumption DEF ConstantsAssumption, Init, ClockTypes
  <2> QED BY <2>1, <2>2, <2>3, <2>4 DEF TypeOK
<1>2. Hands
  BY DEF Init, Hands, LiveIsHeld, OneHand, Stopping
<1>3. Bridge
  BY DEF Init, Bridge, DoorShut, Emptied
<1> QED BY <1>1, <1>2, <1>3 DEF IInv

(* The main goroutine keeps the types, variable group by variable group.   *)
LEMMA AgentTypes == TypeOK /\ AgentStep => TypeOK'
<1> SUFFICES ASSUME TypeOK, AgentStep PROVE TypeOK'
  OBVIOUS
<1> USE ConstantsAssumption
    DEF ConstantsAssumption, TypeOK, Contents, world, main, slots, sups, clock,
        Goto, Fail
<1>1. ASSUME \/ BootstrapServed \/ BootstrapRefused \/ BackoffCancelled \/ Retry
             \/ BootstrapReturns \/ BridgeFails
             \/ (\E from \in {"boot", "booted"} : BootstrapErrs(from))
      PROVE  TypeOK'
  <2> USE <1>1 DEF BootstrapServed, BootstrapRefused, BackoffCancelled, Retry,
                   BootstrapReturns, BridgeFails, BootstrapErrs
  <2>1. MainTypes' BY DEF MainTypes, PCs
  <2>2. FlagTypes' BY DEF FlagTypes
  <2>3. (SupTypes /\ ClockTypes)' BY DEF SupTypes, ClockTypes
  <2> QED BY <2>1, <2>2, <2>3
<1>2. ASSUME \/ Truncate \/ Fill \/ Publish
             \/ (\E from \in {"truncate", "fill"} : ApplyFails(from))
      PROVE  TypeOK'
  <2> USE <1>2 DEF Truncate, Fill, ApplyFails, Publish
  <2>1. MainTypes' BY DEF MainTypes, PCs
  <2>2. FlagTypes' BY DEF FlagTypes
  <2>3. (SupTypes /\ ClockTypes)' BY DEF SupTypes, ClockTypes
  <2> QED BY <2>1, <2>2, <2>3
<1>3. ASSUME NEW from \in PCs, NEW to \in PCs,
             StopSupervisor(from, to) \/ Stopped(from, to)
      PROVE TypeOK'
  <2> USE <1>3 DEF StopSupervisor, Stopped
  <2>1. MainTypes' BY DEF MainTypes
  <2>2. SupTypes' BY DEF SupTypes
  <2>3. (FlagTypes /\ ClockTypes)' BY DEF FlagTypes, ClockTypes
  <2> QED BY <2>1, <2>2, <2>3
<1>4. ASSUME StartSupervisor PROVE TypeOK'
  <2> USE <1>4 DEF StartSupervisor
  <2>1. MainTypes' BY DEF MainTypes, PCs
  <2>2. SupTypes' BY DEF SupTypes
  <2>3. (FlagTypes /\ ClockTypes)' BY DEF FlagTypes, ClockTypes
  <2> QED BY <2>1, <2>2, <2>3
<1>5. ASSUME \/ LoopCancelled \/ Tick \/ HeartbeatServed \/ HeartbeatReturns
             \/ (\E from \in {"beat", "beaten"} : HeartbeatErrs(from))
             \/ CloseBridge \/ Drained
      PROVE  TypeOK'
  <2> USE <1>5 DEF LoopCancelled, Tick, HeartbeatServed, HeartbeatReturns,
                   HeartbeatErrs, CloseBridge, Drained
  <2>1. MainTypes' BY DEF MainTypes, PCs
  <2>2. FlagTypes' BY DEF FlagTypes
  <2>3. (SupTypes /\ ClockTypes)' BY DEF SupTypes, ClockTypes
  <2> QED BY <2>1, <2>2, <2>3
<1> QED BY <1>1, <1>2, <1>3, <1>4, <1>5 DEF AgentStep, PCs

(* So does every step of a supervisor, of the bridge and of the world.     *)
LEMMA OtherTypes ==
  ASSUME TypeOK,
         \/ WorldStep \/ BridgeSeesCtx
         \/ \E s \in Sups : SupStep(s) \/ ConnStep(s)
  PROVE  TypeOK'
<1> USE ConstantsAssumption
    DEF ConstantsAssumption, TypeOK, Contents, world, main, slots, sups, clock
<1>1. ASSUME \E s \in Sups : SupStep(s) \/ ConnStep(s) PROVE TypeOK'
  <2> USE <1>1 DEF SupStep, SupCheck, SupLaunch, SupLaunchFails, ChildDies,
                   SupMoves, ConnStep, ConnOpens, ConnAnswered, UpstreamCloses,
                   ConnMoves
  <2>1. SupTypes' BY DEF SupTypes, MainTypes
  <2>2. (FlagTypes /\ MainTypes /\ ClockTypes)'
    BY DEF FlagTypes, MainTypes, ClockTypes
  <2> QED BY <2>1, <2>2
<1>2. ASSUME \/ BridgeSeesCtx \/ OperatorChanges \/ ControlPlaneTurns
             \/ DiskTurns \/ Signal
      PROVE  TypeOK'
  <2> USE <1>2 DEF BridgeSeesCtx, OperatorChanges, ControlPlaneTurns, DiskTurns,
                   Signal
  <2>1. MainTypes' BY DEF MainTypes
  <2>2. FlagTypes' BY DEF FlagTypes
  <2>3. (SupTypes /\ ClockTypes)' BY DEF SupTypes, ClockTypes
  <2> QED BY <2>1, <2>2, <2>3
<1>3. ASSUME TimePasses PROVE TypeOK'
  <2>1. ClockTypes' BY <1>3 DEF TimePasses, ClockTypes
  <2>2. (FlagTypes /\ MainTypes /\ SupTypes)'
    BY <1>3 DEF TimePasses, FlagTypes, MainTypes, SupTypes
  <2> QED BY <2>1, <2>2
<1>4. ASSUME Kill \/ Restart PROVE TypeOK'
  <2> USE <1>4 DEF Kill, Restart, Goto
  <2>1. MainTypes' BY DEF MainTypes, PCs
  <2>2. SupTypes' BY DEF SupTypes
  <2>3. FlagTypes' BY DEF FlagTypes
  <2>4. ClockTypes' BY DEF ClockTypes
  <2> QED BY <2>1, <2>2, <2>3, <2>4
<1> QED BY <1>1, <1>2, <1>3, <1>4 DEF WorldStep

(* Every step leaves a live supervisor where it can be reached: the main   *)
(* goroutine's steps.                                                      *)
LEMMA AgentHands == IInv /\ AgentStep => Hands'
<1> SUFFICES ASSUME TypeOK, Hands, AgentStep PROVE Hands'
  BY DEF IInv
<1> USE ConstantsAssumption
    DEF Hands, LiveIsHeld, OneHand, Stopping, Goto, Fail, main, slots, sups
<1>1. CASE \/ BootstrapServed \/ BootstrapRefused \/ BackoffCancelled \/ Retry
           \/ BootstrapReturns \/ BridgeFails
           \/ (\E from \in {"boot", "booted"} : BootstrapErrs(from))
  BY <1>1 DEF BootstrapServed, BootstrapRefused, BackoffCancelled, Retry,
              BootstrapReturns, BridgeFails, BootstrapErrs
<1>2. CASE \/ Truncate \/ Fill \/ Publish
           \/ (\E from \in {"truncate", "fill"} : ApplyFails(from))
  BY <1>2 DEF Truncate, Fill, Publish, ApplyFails
<1>3. ASSUME NEW from \in {"stop", "leave", "close"}, NEW to \in Stopping,
             StopSupervisor(from, to)
      PROVE Hands'
  BY <1>3 DEF StopSupervisor
<1>4. ASSUME NEW from \in Stopping, NEW to \in {"start", "closing", "exited"},
             Stopped(from, to)
      PROVE Hands'
  BY <1>4 DEF Stopped, TypeOK, SupTypes
<1>5. CASE StartSupervisor
  BY <1>5 DEF StartSupervisor, TypeOK, SupTypes
<1>6. CASE \/ LoopCancelled \/ Tick \/ HeartbeatServed \/ HeartbeatReturns
           \/ (\E from \in {"beat", "beaten"} : HeartbeatErrs(from))
  BY <1>6 DEF LoopCancelled, Tick, HeartbeatServed, HeartbeatReturns,
              HeartbeatErrs
<1>7. CASE CloseBridge \/ Drained
  BY <1>7 DEF CloseBridge, Drained
<1> QED BY <1>1, <1>2, <1>3, <1>4, <1>5, <1>6, <1>7 DEF AgentStep

(* The other steps: a supervisor that is done stays done.                  *)
LEMMA OtherHands ==
  ASSUME IInv,
         \/ WorldStep \/ BridgeSeesCtx
         \/ \E s \in Sups : SupStep(s) \/ ConnStep(s)
  PROVE  Hands'
<1> USE DEF IInv, Hands, LiveIsHeld, OneHand, Stopping, main, slots, sups
<1>1. CASE \E s \in Sups : SupStep(s)
  BY <1>1 DEF SupStep, SupCheck, SupLaunch, SupLaunchFails, ChildDies, SupMoves,
              TypeOK, SupTypes
<1>2. CASE \E s \in Sups : ConnStep(s)
  BY <1>2 DEF ConnStep, ConnOpens, ConnAnswered, UpstreamCloses, ConnMoves
<1>3. CASE BridgeSeesCtx
  BY <1>3 DEF BridgeSeesCtx
<1>4. CASE OperatorChanges \/ ControlPlaneTurns \/ DiskTurns \/ Signal \/ TimePasses
  BY <1>4 DEF OperatorChanges, ControlPlaneTurns, DiskTurns, Signal, TimePasses
<1>5. CASE Kill \/ Restart
  BY <1>5 DEF Kill, Restart, Goto
<1> QED BY <1>1, <1>2, <1>3, <1>4, <1>5 DEF WorldStep

(* A bridge that drains is shut, and a drained one stays empty: the main   *)
(* goroutine's steps.                                                      *)
LEMMA AgentBridge == IInv /\ AgentStep => Bridge'
<1> SUFFICES ASSUME TypeOK, Bridge, AgentStep PROVE Bridge'
  BY DEF IInv
<1> USE DEF Bridge, DoorShut, Emptied, Goto, Fail, main, sups
<1>1. CASE \/ BootstrapServed \/ BootstrapRefused \/ BackoffCancelled \/ Retry
           \/ BootstrapReturns \/ BridgeFails
           \/ (\E from \in {"boot", "booted"} : BootstrapErrs(from))
  BY <1>1 DEF BootstrapServed, BootstrapRefused, BackoffCancelled, Retry,
              BootstrapReturns, BridgeFails, BootstrapErrs
<1>2. CASE \/ Truncate \/ Fill \/ Publish
           \/ (\E from \in {"truncate", "fill"} : ApplyFails(from))
  BY <1>2 DEF Truncate, Fill, Publish, ApplyFails
<1>3. CASE \/ StopSupervisor("stop", "stopping")
           \/ StopSupervisor("leave", "leaving")
           \/ StopSupervisor("close", "finishing")
  BY <1>3 DEF StopSupervisor
<1>4. CASE \/ Stopped("stopping", "start") \/ Stopped("leaving", "closing")
           \/ Stopped("finishing", "exited")
  BY <1>4 DEF Stopped
<1>5. CASE StartSupervisor
  BY <1>5 DEF StartSupervisor
<1>6. CASE \/ LoopCancelled \/ Tick \/ HeartbeatServed \/ HeartbeatReturns
           \/ (\E from \in {"beat", "beaten"} : HeartbeatErrs(from))
  BY <1>6 DEF LoopCancelled, Tick, HeartbeatServed, HeartbeatReturns,
              HeartbeatErrs
<1>7. CASE CloseBridge \/ Drained
  BY <1>7 DEF CloseBridge, Drained
<1> QED BY <1>1, <1>2, <1>3, <1>4, <1>5, <1>6, <1>7 DEF AgentStep

(* The other steps: no connection opens without a listener and a client.   *)
LEMMA OtherBridge ==
  ASSUME IInv,
         \/ WorldStep \/ BridgeSeesCtx
         \/ \E s \in Sups : SupStep(s) \/ ConnStep(s)
  PROVE  Bridge'
<1> USE DEF Bridge, DoorShut, Emptied, main, sups
<1>1. CASE \E s \in Sups : SupStep(s)
  BY <1>1 DEF IInv, TypeOK, SupTypes, SupStep, SupCheck, SupLaunch, SupLaunchFails,
              ChildDies, SupMoves
<1>2. ASSUME NEW s \in Sups, ConnStep(s) PROVE Bridge'
  <2>1. bridge' = bridge /\ apc' = apc
    BY <1>2 DEF ConnStep, ConnOpens, ConnAnswered, UpstreamCloses, ConnMoves
  <2>2. CASE apc \in {"close", "finishing", "exited"}
    <3>1. conn[s] = "none"
      BY <2>2 DEF IInv
    <3>2. ~ConnOpens(s)
      <4>1. CASE apc = "exited"
        BY <4>1, ConstantsAssumption
           DEF IInv, Hands, LiveIsHeld, OneHand, Stopping, ConnOpens
      <4>2. CASE apc # "exited"
        BY <4>2, <2>2 DEF IInv, ConnOpens
      <4> QED BY <4>1, <4>2
    <3> QED
      BY <1>2, <3>1, <3>2 DEF ConnStep, ConnAnswered, UpstreamCloses, ConnMoves
  <2>3. CASE apc \notin {"close", "finishing", "exited"}
    BY <2>1, <2>3 DEF IInv
  <2> QED BY <2>2, <2>3
<1>3. CASE BridgeSeesCtx
  BY <1>3 DEF IInv, BridgeSeesCtx
<1>4. CASE OperatorChanges \/ ControlPlaneTurns \/ DiskTurns \/ Signal \/ TimePasses
  BY <1>4 DEF IInv, OperatorChanges, ControlPlaneTurns, DiskTurns, Signal,
              TimePasses
<1>5. CASE Kill \/ Restart
  BY <1>5 DEF IInv, Kill, Restart, Goto
<1> QED BY <1>1, <1>2, <1>3, <1>4, <1>5 DEF WorldStep

(* The invariant is inductive.                                             *)
LEMMA NextIInv == IInv /\ [Next]_vars => IInv'
<1> SUFFICES ASSUME IInv, [Next]_vars PROVE IInv'
  OBVIOUS
<1>1. CASE AgentStep
  BY <1>1, AgentTypes, AgentHands, AgentBridge DEF IInv
<1>2. CASE \/ WorldStep \/ BridgeSeesCtx
           \/ \E s \in Sups : SupStep(s) \/ ConnStep(s)
  BY <1>2, OtherTypes, OtherHands, OtherBridge DEF IInv
<1>3. CASE UNCHANGED vars
  BY <1>3 DEF vars, IInv, TypeOK, FlagTypes, MainTypes, SupTypes, ClockTypes, Hands, LiveIsHeld, OneHand, Bridge, DoorShut,
              Emptied
<1> QED BY <1>1, <1>2, <1>3 DEF Next

(* IInv holds in every reachable state.                                    *)
THEOREM SafetyInvariant == Spec => []IInv
BY InitIInv, NextIInv, PTL DEF Spec

(* The runtime's comment, "at most one supervisor goroutine is alive at a  *)
(* time", for any number of rebootstraps, faults, signals and kills.       *)
THEOREM OneClientAlive == Spec => []OneClient
<1>1. IInv => OneClient
  BY ConstantsAssumption
     DEF IInv, OneClient, Hands, LiveIsHeld, OneHand, TypeOK, SupTypes, Stopping
<1> QED BY <1>1, SafetyInvariant, PTL

(* On every way out of Run, with or without an error, the process ends     *)
(* with no rathole client and no connection of its bridge.                 *)
THEOREM ExitsClean == Spec => []NothingLeft
<1>1. IInv => NothingLeft
  BY ConstantsAssumption
     DEF IInv, NothingLeft, Hands, LiveIsHeld, OneHand, Bridge, Emptied, Stopping
<1> QED BY <1>1, SafetyInvariant, PTL

-----------------------------------------------------------------------------
(* What an apply does to the version in the file, in the report and in the *)
(* client.  A child runs only while its supervisor is up, and the runtime  *)
(* has no supervisor that it has cancelled.                                *)
ChildIsUp == \A s \in Sups : loaded[s] # 0 => phase[s] = "up"
CurrentLives == cur # None => ~cancelled[cur]
FetchedKept == apc \in {"booted", "truncate", "fill", "publish"} => got # 0

(* The file from its truncation on until the new client is started.        *)
FileWritten ==
  /\ apc = "fill" => file = Torn
  /\ apc = "publish" => file = got
  /\ apc \in {"stop", "stopping", "start"} => curVersion # 0 /\ file = curVersion

(* Until the new version is filled in, the last one applied is the one in  *)
(* the file and in the client.                                             *)
Fetching == apc \in {"boot", "booted", "backoff", "truncate", "fill"}
ReportMatches ==
  /\ cur # None
  /\ file \in {curVersion, Torn}
  /\ loaded[cur] \in {0, curVersion, Torn}
LastApplied ==
  /\ Settled => curVersion # 0
  /\ (Settled \/ Fetching) /\ curVersion # 0 => ReportMatches

Versioned == ChildIsUp /\ CurrentLives /\ FetchedKept /\ FileWritten /\ LastApplied

(* The initial states: no child, no version applied.                       *)
LEMMA InitVersioned == Init => Versioned
BY DEF Init, Versioned, ChildIsUp, CurrentLives, FetchedKept, FileWritten,
       LastApplied, Settled

(* The main goroutine keeps the version honest.                            *)
LEMMA AgentVersioned == IInv /\ Versioned /\ AgentStep => Versioned'
<1> SUFFICES ASSUME IInv, TypeOK, Versioned, AgentStep PROVE Versioned'
  BY DEF IInv
<1> USE ConstantsAssumption
    DEF ConstantsAssumption, Versioned, ChildIsUp, CurrentLives, FetchedKept,
        FileWritten, Settled, Fetching, ReportMatches, LastApplied, Goto, Fail,
        world, main, slots, sups
<1>1. CASE \/ BootstrapServed \/ BootstrapRefused \/ BackoffCancelled \/ Retry
           \/ BootstrapReturns \/ BridgeFails
           \/ (\E from \in {"boot", "booted"} : BootstrapErrs(from))
  BY <1>1 DEF BootstrapServed, BootstrapRefused, BackoffCancelled, Retry,
              BootstrapReturns, BridgeFails, BootstrapErrs, TypeOK, MainTypes
<1>2. CASE Truncate \/ Fill
  BY <1>2 DEF Truncate, Fill
<1>3. CASE Publish
  BY <1>3 DEF Publish
<1>4. CASE \E from \in {"truncate", "fill"} : ApplyFails(from)
  BY <1>4 DEF ApplyFails
<1>5. ASSUME NEW from \in {"stop", "leave", "close"}, NEW to \in Stopping,
             StopSupervisor(from, to), from = "stop" <=> to = "stopping"
      PROVE Versioned'
  BY <1>5 DEF StopSupervisor, Stopping
<1>6. ASSUME NEW from \in Stopping, NEW to \in {"start", "closing", "exited"},
             Stopped(from, to), from = "stopping" <=> to = "start"
      PROVE Versioned'
  BY <1>6 DEF Stopped, Stopping
<1>7. CASE StartSupervisor
  BY <1>7 DEF StartSupervisor, IInv, Hands, OneHand, TypeOK, SupTypes
<1>8. CASE \/ LoopCancelled \/ Tick \/ HeartbeatServed \/ HeartbeatReturns
           \/ (\E from \in {"beat", "beaten"} : HeartbeatErrs(from))
  BY <1>8 DEF LoopCancelled, Tick, HeartbeatServed, HeartbeatReturns,
              HeartbeatErrs
<1>9. CASE CloseBridge \/ Drained
  BY <1>9 DEF CloseBridge, Drained
<1> QED
  BY <1>1, <1>2, <1>3, <1>4, <1>5, <1>6, <1>7, <1>8, <1>9 DEF AgentStep, Stopping

(* So do the other steps: a child is launched with the file of that time.  *)
LEMMA OtherVersioned ==
  ASSUME IInv, Versioned,
         \/ WorldStep \/ BridgeSeesCtx
         \/ \E s \in Sups : SupStep(s) \/ ConnStep(s)
  PROVE  Versioned'
<1> USE ConstantsAssumption
    DEF ConstantsAssumption, Versioned, ChildIsUp, CurrentLives, FetchedKept,
        FileWritten, Settled, Fetching, ReportMatches, LastApplied, world, main,
        slots, sups
<1>1. ASSUME NEW s \in Sups, SupStep(s) PROVE Versioned'
  BY <1>1 DEF SupStep, SupCheck, SupLaunch, SupLaunchFails, ChildDies, SupMoves,
              IInv, TypeOK, SupTypes
<1>2. CASE \E s \in Sups : ConnStep(s)
  BY <1>2 DEF ConnStep, ConnOpens, ConnAnswered, UpstreamCloses, ConnMoves
<1>3. CASE \/ BridgeSeesCtx \/ OperatorChanges \/ ControlPlaneTurns
           \/ DiskTurns \/ Signal \/ TimePasses
  BY <1>3 DEF BridgeSeesCtx, OperatorChanges, ControlPlaneTurns, DiskTurns,
              Signal, TimePasses
<1>4. CASE Kill \/ Restart
  BY <1>4 DEF Kill, Restart, Goto
<1> QED BY <1>1, <1>2, <1>3, <1>4 DEF WorldStep

(* Between two applies the version in the heartbeat is the one in the file *)
(* and in the running client, or these are torn by an apply that failed.   *)
THEOREM VersionReported == Spec => []VersionHonest
<1> DEFINE V == IInv /\ Versioned
<1>1. Init => V
  BY InitIInv, InitVersioned
<1>2. V /\ [Next]_vars => V'
  <2> SUFFICES ASSUME IInv, Versioned, [Next]_vars PROVE Versioned'
    BY NextIInv
  <2>1. CASE Next
    BY <2>1, AgentVersioned, OtherVersioned DEF Next
  <2>2. CASE UNCHANGED vars
    BY <2>2 DEF vars, Versioned, ChildIsUp, CurrentLives, FetchedKept, FileWritten,
                LastApplied, Settled, Fetching, ReportMatches
  <2> QED BY <2>1, <2>2
<1>3. V => VersionHonest
  BY DEF Versioned, CurrentLives, LastApplied, Settled, ReportMatches, VersionHonest
<1> HIDE DEF V
<1> QED BY <1>1, <1>2, <1>3, PTL DEF Spec

-----------------------------------------------------------------------------
(* Health looks at the time since the last bootstrap only, yet that is     *)
(* enough to notice a silent heartbeat loop: whatever makes the bootstrap  *)
(* young, an apply or the start of a process, is a sign of life as well.   *)
SilenceAges == sinceBeat <= age

(* Every step: no step sets lastBootstrapAt without a sign of life.        *)
LEMMA SilenceStep ==
  ASSUME TypeOK, SilenceAges, [Next]_vars
  PROVE  SilenceAges'
<1> USE ConstantsAssumption
    DEF ConstantsAssumption, TypeOK, ClockTypes, SilenceAges, clock
<1>1. CASE AgentStep
  <2>1. CASE Publish BY <2>1 DEF Publish
  <2>2. CASE HeartbeatReturns BY <2>2 DEF HeartbeatReturns
  <2>3. CASE AgentStep /\ ~Publish /\ ~HeartbeatReturns
    <3>1. UNCHANGED clock
      BY <2>3 DEF AgentStep, BootstrapServed, BootstrapRefused, BootstrapErrs,
         BackoffCancelled, Retry, BootstrapReturns, BridgeFails, Truncate, Fill,
         ApplyFails, StopSupervisor, Stopped, StartSupervisor, LoopCancelled,
         Tick, HeartbeatServed, HeartbeatErrs, CloseBridge, Drained
    <3> QED BY <3>1
  <2> QED BY <1>1, <2>1, <2>2, <2>3
<1>2. CASE TimePasses BY <1>2 DEF TimePasses
<1>3. CASE Restart BY <1>3 DEF Restart
<1>4. CASE OperatorChanges \/ ControlPlaneTurns \/ DiskTurns \/ Signal \/ Kill
  BY <1>4 DEF OperatorChanges, ControlPlaneTurns, DiskTurns, Signal, Kill
<1>5. CASE BridgeSeesCtx \/ UNCHANGED vars
  BY <1>5 DEF BridgeSeesCtx, vars
<1>6. CASE \E s \in Sups : SupStep(s) \/ ConnStep(s)
  BY <1>6 DEF SupStep, SupCheck, SupLaunch, SupLaunchFails, ChildDies, ConnStep,
     ConnOpens, ConnAnswered, UpstreamCloses, ConnMoves
<1> QED BY <1>1, <1>2, <1>3, <1>4, <1>5, <1>6 DEF Next, WorldStep

(* A heartbeat loop silent for over two intervals is reported, wherever    *)
(* the counters of the model saturate.                                     *)
THEOREM StallsShow == Spec => []StallReported
<1>1. Init => SilenceAges
  BY DEF Init, SilenceAges
<1>2. IInv /\ SilenceAges /\ [Next]_vars => SilenceAges'
  BY SilenceStep DEF IInv
<1>3. IInv /\ SilenceAges => StallReported
  BY ConstantsAssumption
     DEF ConstantsAssumption, IInv, TypeOK, ClockTypes, SilenceAges, StallReported,
         StaleBootstrap
<1> QED BY <1>1, <1>2, <1>3, SafetyInvariant, PTL DEF Spec

-----------------------------------------------------------------------------
(* The rathole client's supervisor keeps within SupervisedProcess, so what *)
(* Supervisor is proved to do is what the agent's model relies on.         *)
Contract(s) == INSTANCE SupervisedProcess WITH
  phase <- phase[s], cancelled <- cancelled[s]
InContract(s) == [Contract(s)!Next]_(Contract(s)!vars)

(* The steps that leave all supervisors alone.                             *)
LEMMA ContractFrame ==
  ASSUME NEW s \in Sups, UNCHANGED <<phase, cancelled>>
  PROVE  InContract(s)
BY DEF InContract, Contract!vars

(* What the main goroutine does: it cancels the one it has, and makes a    *)
(* new one under the name of one that is done.                             *)
LEMMA ContractAgentStep ==
  ASSUME TypeOK, NEW s \in Sups, AgentStep
  PROVE  InContract(s)
<1> USE DEF slots, sups
<1>1. ASSUME NEW from \in PCs, NEW to \in PCs, StopSupervisor(from, to)
      PROVE  InContract(s)
  <2>1. CASE cur = s
    <3>1. phase'[s] = phase[s] /\ cancelled'[s] = TRUE /\ cancelled[s] \in BOOLEAN
      BY <1>1, <2>1, ConstantsAssumption
         DEF ConstantsAssumption, StopSupervisor, TypeOK, SupTypes
    <3>2. CASE cancelled[s]
      BY <3>1, <3>2 DEF InContract, Contract!vars
    <3>3. CASE ~cancelled[s]
      BY <3>1, <3>3 DEF InContract, Contract!Next, Contract!Cancel
    <3> QED BY <3>1, <3>2, <3>3
  <2>2. CASE cur # s
    <3>1. phase'[s] = phase[s] /\ cancelled'[s] = cancelled[s]
      BY <1>1, <2>2 DEF StopSupervisor, TypeOK, SupTypes
    <3> QED BY <3>1 DEF InContract, Contract!vars
  <2> QED BY <2>1, <2>2
<1>2. CASE StartSupervisor
  <2> PICK u \in Sups : /\ phase[u] = "done"
                        /\ phase' = [phase EXCEPT ![u] = "looping"]
                        /\ cancelled' = [cancelled EXCEPT ![u] = FALSE]
    BY <1>2 DEF StartSupervisor
  <2>1. CASE u = s
    <3>1. phase[s] = "done" /\ phase'[s] = "looping" /\ cancelled'[s] = FALSE
      BY <2>1 DEF TypeOK, SupTypes
    <3> QED BY <3>1 DEF InContract, Contract!Next, Contract!Renew
  <2>2. CASE u # s
    <3>1. phase'[s] = phase[s] /\ cancelled'[s] = cancelled[s]
      BY <2>2 DEF TypeOK, SupTypes
    <3> QED BY <3>1 DEF InContract, Contract!vars
  <2> QED BY <2>1, <2>2
<1>3. ASSUME NEW from \in PCs, NEW to \in PCs,
             \/ BootstrapErrs(from) \/ ApplyFails(from) \/ Stopped(from, to)
             \/ HeartbeatErrs(from)
      PROVE  InContract(s)
  BY <1>3, ContractFrame DEF BootstrapErrs, ApplyFails, Stopped, HeartbeatErrs
<1>4. CASE \/ BootstrapServed \/ BootstrapRefused \/ BackoffCancelled \/ Retry
           \/ BootstrapReturns \/ BridgeFails \/ Truncate \/ Fill \/ Publish
           \/ LoopCancelled \/ Tick \/ HeartbeatServed \/ HeartbeatReturns
           \/ CloseBridge \/ Drained
  BY <1>4, ContractFrame DEF BootstrapServed, BootstrapRefused, BackoffCancelled,
     Retry, BootstrapReturns, BridgeFails, Truncate, Fill, Publish, LoopCancelled,
     Tick, HeartbeatServed, HeartbeatReturns, CloseBridge, Drained
<1> QED BY <1>1, <1>2, <1>3, <1>4 DEF AgentStep, PCs

(* Every step but a kill is one of the contract, or none, for each of them.*)
LEMMA ContractStep ==
  ASSUME TypeOK, NEW s \in Sups, [Next]_vars, ~Kill
  PROVE  InContract(s)
<1> USE DEF slots, sups
<1>1. ASSUME NEW u \in Sups, SupStep(u)
      PROVE  InContract(s)
  <2>1. cancelled' = cancelled
    BY <1>1 DEF SupStep, SupCheck, SupLaunch, SupLaunchFails, ChildDies
  <2>2. CASE s = u
    <3>1. \/ phase[s] = "looping" /\ cancelled[s] /\ phase'[s] = "done"
          \/ phase[s] = "looping" /\ ~cancelled[s] /\ phase'[s] = "starting"
          \/ phase[s] = "starting" /\ phase'[s] \in {"up", "looping"}
          \/ phase[s] = "up" /\ phase'[s] = "looping"
      BY <1>1, <2>2 DEF SupStep, SupCheck, SupLaunch, SupLaunchFails, ChildDies,
         SupMoves, TypeOK, SupTypes
    <3> QED BY <2>1, <3>1 DEF InContract, Contract!Next, Contract!Goto,
         Contract!GiveUp, Contract!GoOn, Contract!Launch, Contract!LaunchFails,
         Contract!ChildDies
  <2>3. CASE s # u
    <3>1. phase'[s] = phase[s]
      BY <1>1, <2>3 DEF SupStep, SupCheck, SupLaunch, SupLaunchFails, ChildDies,
         SupMoves, TypeOK, SupTypes
    <3> QED BY <2>1, <3>1 DEF InContract, Contract!vars
  <2> QED BY <2>2, <2>3
<1>2. ASSUME NEW u \in Sups, ConnStep(u)
      PROVE  InContract(s)
  BY <1>2, ContractFrame DEF ConnStep, ConnOpens, ConnAnswered, UpstreamCloses,
     ConnMoves
<1>3. CASE \/ OperatorChanges \/ ControlPlaneTurns \/ DiskTurns \/ Signal
           \/ TimePasses \/ Restart \/ BridgeSeesCtx \/ UNCHANGED vars
  BY <1>3, ContractFrame DEF OperatorChanges, ControlPlaneTurns, DiskTurns,
     Signal, TimePasses, Restart, BridgeSeesCtx, vars
<1> QED BY ContractAgentStep, <1>1, <1>2, <1>3 DEF Next, WorldStep

(* The runtime uses its supervisors within their contract, and a new one   *)
(* only under the name of one that has ended; a kill ends all of them.     *)
ClientKeepsContract ==
  /\ \A s \in Sups : Contract(s)!Init
  /\ [][~Kill => \A s \in Sups : [Contract(s)!Next]_(Contract(s)!vars)]_vars

(* Whatever the control plane, the disk and signals do, each supervisor is *)
(* made, cancelled and replaced as the contract has it, until a kill.      *)
THEOREM ContractKept == Spec => ClientKeepsContract
<1> DEFINE Step == ~Kill => \A s \in Sups : [Contract(s)!Next]_(Contract(s)!vars)
<1>1. Init => \A s \in Sups : Contract(s)!Init
  BY DEF Init, Contract!Init
<1>2. IInv /\ [Next]_vars => Step
  BY ContractStep DEF IInv, InContract
<1>3. Spec => [][Step]_vars
  BY <1>2, SafetyInvariant, PTL DEF Spec
<1> QED BY <1>1, <1>3, PTL DEF Spec, ClientKeepsContract

-----------------------------------------------------------------------------
(* What the main goroutine waits for.  The supervisor in its hand was told *)
(* to stop, a connection is relayed for a child that runs, and the way out *)
(* of the heartbeat loop has stopped the client before the bridge drains.  *)
HandTold == held # None => cancelled[held]
RelayedForChild == \A s \in Sups : conn[s] = "relaying" => phase[s] = "up"

WayOut == {"closing", "drain", "close", "finishing"}
ClientStopped == apc \in WayOut /\ ~failed => \A s \in Sups : phase[s] = "done"

Told == HandTold /\ RelayedForChild /\ ClientStopped

(* The main goroutine: it takes a supervisor in hand with its cancel, and  *)
(* leaves the loop with none alive.                                        *)
LEMMA AgentTold == IInv /\ Told /\ AgentStep => Told'
<1> SUFFICES ASSUME IInv, TypeOK, Hands, Told, AgentStep PROVE Told'
  BY DEF IInv
<1> USE ConstantsAssumption
    DEF ConstantsAssumption, Told, HandTold, RelayedForChild, ClientStopped,
        WayOut, Goto, Fail, main, slots, sups
<1>1. CASE \/ BootstrapServed \/ BootstrapRefused \/ BackoffCancelled \/ Retry
           \/ BootstrapReturns \/ BridgeFails
           \/ (\E from \in {"boot", "booted"} : BootstrapErrs(from))
  BY <1>1 DEF BootstrapServed, BootstrapRefused, BackoffCancelled, Retry,
              BootstrapReturns, BridgeFails, BootstrapErrs
<1>2. CASE \/ Truncate \/ Fill \/ Publish
           \/ (\E from \in {"truncate", "fill"} : ApplyFails(from))
  BY <1>2 DEF Truncate, Fill, Publish, ApplyFails
<1>3. ASSUME NEW from \in {"stop", "leave", "close"}, NEW to \in Stopping,
             StopSupervisor(from, to), from = "close" <=> to = "finishing"
      PROVE Told'
  BY <1>3 DEF StopSupervisor, Stopping, TypeOK, SupTypes
<1>4. ASSUME NEW from \in Stopping, NEW to \in {"start", "closing", "exited"},
             Stopped(from, to)
      PROVE Told'
  <2>1. HandTold' /\ RelayedForChild'
    BY <1>4 DEF Stopped
  <2>2. \A s \in Sups : phase[s] = "done"
    BY <1>4 DEF Stopped, Hands, LiveIsHeld, OneHand
  <2> QED BY <1>4, <2>1, <2>2 DEF Stopped
<1>5. CASE StartSupervisor
  BY <1>5 DEF StartSupervisor, Hands, OneHand, Stopping, TypeOK, SupTypes
<1>6. CASE \/ LoopCancelled \/ Tick \/ HeartbeatServed \/ HeartbeatReturns
           \/ (\E from \in {"beat", "beaten"} : HeartbeatErrs(from))
  BY <1>6 DEF LoopCancelled, Tick, HeartbeatServed, HeartbeatReturns,
              HeartbeatErrs
<1>7. CASE CloseBridge \/ Drained
  BY <1>7 DEF CloseBridge, Drained
<1> QED
  BY <1>1, <1>2, <1>3, <1>4, <1>5, <1>6, <1>7 DEF AgentStep, Stopping

(* The other steps: a dial is only answered to a child that runs.          *)
LEMMA OtherTold ==
  ASSUME IInv, Told,
         \/ WorldStep \/ BridgeSeesCtx
         \/ \E s \in Sups : SupStep(s) \/ ConnStep(s)
  PROVE  Told'
<1> USE DEF Told, HandTold, RelayedForChild, ClientStopped, WayOut, main, slots,
            sups
<1>1. ASSUME NEW s \in Sups, SupStep(s) PROVE Told'
  BY <1>1 DEF SupStep, SupCheck, SupLaunch, SupLaunchFails, ChildDies, SupMoves,
              IInv, TypeOK, SupTypes
<1>2. ASSUME NEW s \in Sups, ConnStep(s) PROVE Told'
  BY <1>2 DEF ConnStep, ConnOpens, ConnAnswered, UpstreamCloses, ConnMoves, IInv,
              TypeOK, SupTypes
<1>3. CASE \/ BridgeSeesCtx \/ OperatorChanges \/ ControlPlaneTurns
           \/ DiskTurns \/ Signal \/ TimePasses
  BY <1>3 DEF BridgeSeesCtx, OperatorChanges, ControlPlaneTurns, DiskTurns,
              Signal, TimePasses
<1>4. CASE Kill \/ Restart
  BY <1>4 DEF Kill, Restart, Goto
<1> QED BY <1>1, <1>2, <1>3, <1>4 DEF WorldStep

(* The main goroutine waits for no supervisor it did not tell to stop, and *)
(* after the heartbeat loop the bridge's drain meets no open connection:   *)
(* the deferred stopSupervisor has run before br.close, so only dials are  *)
(* left, which the auth proxy bounds.  Where Run fails, br.close is first  *)
(* and a client that is still up can hold the drain.                       *)
WaitsForTold ==
  /\ apc \in Stopping /\ held # None => cancelled[held]
  /\ apc = "drain" /\ ~failed => \A s \in Sups : conn[s] # "relaying"

(* In every run, with faults and kills, whatever the main goroutine waits  *)
(* for was told to stop, unless Run failed and the bridge drains first.    *)
THEOREM WaitersTold == Spec => []WaitsForTold
<1> DEFINE T == IInv /\ Told
<1>1. Init => T
  BY InitIInv DEF Init, Told, HandTold, RelayedForChild, ClientStopped
<1>2. T /\ [Next]_vars => T'
  <2> SUFFICES ASSUME IInv, Told, [Next]_vars PROVE Told'
    BY NextIInv
  <2>1. CASE Next
    BY <2>1, AgentTold, OtherTold DEF Next
  <2>2. CASE UNCHANGED vars
    BY <2>2 DEF vars, Told, HandTold, RelayedForChild, ClientStopped
  <2> QED BY <2>1, <2>2
<1>3. T => WaitsForTold
  BY DEF Told, HandTold, RelayedForChild, ClientStopped, WayOut, WaitsForTold
<1> HIDE DEF T
<1> QED BY <1>1, <1>2, <1>3, PTL DEF Spec
=============================================================================
