------------------------- MODULE ServerProcessProofs -------------------------
(***************************************************************************)
(* What Server.Run leaves behind, what its exit status says, and what an   *)
(* alert of the crash-loop detector stands for: for any projects, requests *)
(* in flight, thresholds and windows.                                      *)
(***************************************************************************)
EXTENDS ServerProcess, FiniteSetTheorems, TLAPS

Open == {"bound", "serving"}
AllIdle == \A r \in Requests : rpc[r] = "idle"
NoneUp == \A p \in Projects : sup[p] = "none"

(* Which listeners there are at each step of Run.                          *)
Listeners ==
  /\ pc \in {"down", "open", "start", "listen"} => grpc = "off"
  /\ pc = "gateway" => grpc = "bound"
  /\ pc \in {"graceful", "stop", "wait", "return"} => grpc \notin Open
  /\ pc \in {"down", "open", "start", "listen", "gateway"} => http = "off"
  /\ pc \in {"shutdown", "graceful", "stop", "wait", "return"} => http \notin Open

(* No RPC before there is a server for it or after GracefulStop, and no    *)
(* supervisor before Manager.Start or after Manager.Stop.                  *)
Workers ==
  /\ pc \notin {"serve", "shutdown", "graceful"} => AllIdle
  /\ pc \in {"down", "open", "start", "return"} => NoneUp

(* Past its select, a Run without an error has seen the signal.            *)
Told ==
  pc \in {"shutdown", "graceful", "stop", "wait", "return", "down"}
    /\ firstErr = "nil" => ctx

(* What the detector keeps and what it should know are the same exits.     *)
Counted(p) == {a \in events[p] : a < Window}

Windows ==
  \A p \in Projects :
    /\ Counted(p) = Unalerted(p, last[p])
    /\ Cardinality(Unalerted(p, last[p])) < Threshold
    /\ last[p] = 0 => Cardinality(Unalerted(p, before[p])) >= Threshold

Lifecycle == Listeners /\ Workers /\ Told
IInv == TypeOK /\ Lifecycle /\ Windows

-----------------------------------------------------------------------------
(* Ages                                                                    *)

LEMMA Constants ==
  /\ Threshold \in Nat /\ Threshold > 0 /\ Window \in Nat /\ Window > 0
  /\ None \notin Projects
BY ConstantsAssumption DEF ConstantsAssumption

LEMMA AgesGrow ==
  /\ \A a \in Ages : Older(a) \in Ages /\ Older(a) > 0
  /\ \A S \in SUBSET Ages : Aged(S) \subseteq Ages
BY Constants DEF Older, Aged, Ages

(* When time passes, the exits after an alert stay the exits after it.     *)
LEMMA Shift ==
  ASSUME NEW S \in SUBSET Ages, NEW since \in Ages
  PROVE  {a \in Aged(S) : a < Window /\ a < Older(since)}
           = {b + 1 : b \in {a \in S : a + 1 < Window /\ a < since}}
BY Constants DEF Aged, Older, Ages

LEMMA ShiftAll ==
  ASSUME NEW S \in SUBSET Ages
  PROVE  {a \in Aged(S) : a < Window}
           = {b + 1 : b \in {a \in S : a + 1 < Window}}
BY Constants DEF Aged, Older, Ages

(* None is added to them.                                                  *)
LEMMA ShiftFewer ==
  ASSUME NEW S \in SUBSET Ages, NEW since \in Ages
  PROVE  Cardinality({a \in Aged(S) : a < Window /\ a < Older(since)})
           <= Cardinality({a \in S : a < Window /\ a < since})
<1>. DEFINE U == {a \in S : a < Window /\ a < since}
            V == {a \in S : a + 1 < Window /\ a < since}
            T == {b + 1 : b \in V}
            f == [b \in V |-> b + 1]
<1>1. IsFiniteSet(U)
  <2>1. IsFiniteSet(0 .. Window)
    BY FS_Interval, Constants
  <2>2. U \in SUBSET (0 .. Window)
    BY DEF Ages
  <2>. QED  BY <2>1, <2>2, FS_Subset
<1>2. V \in SUBSET U
  <2>1. \A a \in S : a + 1 < Window => a < Window
    BY Constants DEF Ages
  <2>. QED  BY <2>1
<1>3. IsFiniteSet(V) /\ Cardinality(V) <= Cardinality(U)
  BY <1>1, <1>2, FS_Subset
<1>4. f \in Surjection(V, T)
  BY DEF Surjection
<1>5. IsFiniteSet(T) /\ Cardinality(T) <= Cardinality(V)
  <2>. HIDE DEF f, T, V
  <2>. QED  BY <1>3, <1>4, FS_Surjection
<1>6. Cardinality(T) \in Nat /\ Cardinality(V) \in Nat /\ Cardinality(U) \in Nat
  BY <1>1, <1>3, <1>5, FS_CardinalityType
<1>7. {a \in Aged(S) : a < Window /\ a < Older(since)} = T
  BY Shift
<1>. QED  BY <1>3, <1>5, <1>6, <1>7

LEMMA Natural ==
  ASSUME NEW S \in SUBSET Ages
  PROVE  Cardinality(S) \in Nat
<1>1. IsFiniteSet(0 .. Window)
  BY FS_Interval, Constants
<1>. QED  BY <1>1, FS_Subset, FS_CardinalityType DEF Ages

(* A project whose exits only grow older.                                  *)
LEMMA Quietly ==
  ASSUME TypeOK, Windows, NEW p \in Projects,
         events'[p] = Aged(events[p]), log'[p] = Aged(log[p]),
         last'[p] = Older(last[p])
  PROVE  /\ Counted(p)' = Unalerted(p, last[p])'
         /\ Cardinality(Unalerted(p, last[p])') < Threshold
         /\ last'[p] # 0
<1>1. events[p] \in SUBSET Ages /\ log[p] \in SUBSET Ages /\ last[p] \in Ages
  BY DEF TypeOK
<1>2. Counted(p) = Unalerted(p, last[p])
      /\ Cardinality(Unalerted(p, last[p])) < Threshold
  BY DEF Windows
<1>3. Unalerted(p, last[p])' = {a \in Aged(log[p]) : a < Window /\ a < Older(last[p])}
  BY DEF Unalerted
<1>4. Counted(p)' = {a \in Aged(events[p]) : a < Window}
  BY DEF Counted
<1>5. {a \in events[p] : a + 1 < Window}
        = {a \in log[p] : a + 1 < Window /\ a < last[p]}
  BY <1>1, <1>2, Constants DEF Counted, Unalerted, Ages
<1>6. Counted(p)' = Unalerted(p, last[p])'
  BY <1>1, <1>3, <1>4, <1>5, Shift, ShiftAll
<1>7. Cardinality(Unalerted(p, last[p])') <= Cardinality(Unalerted(p, last[p]))
  BY <1>1, <1>3, ShiftFewer DEF Unalerted
<1>8. Cardinality(Unalerted(p, last[p])) \in Nat
      /\ Cardinality(Unalerted(p, last[p])') \in Nat
  <2>1. Unalerted(p, last[p]) \in SUBSET Ages
    BY <1>1 DEF Unalerted
  <2>2. Unalerted(p, last[p])' \in SUBSET Ages
    BY <1>1, <1>3, AgesGrow
  <2>. QED  BY <2>1, <2>2, Natural
<1>. QED  BY <1>1, <1>2, <1>6, <1>7, <1>8, Constants, AgesGrow

(* The exits that Record counts are those after the last alert.            *)
LEMMA Counts ==
  ASSUME TypeOK, Windows, NEW p \in Projects
  PROVE  {a \in Aged(log[p]) \cup {0} : a < Window /\ a < Older(last[p])}
           = Recent(p)
<1>1. events[p] \in SUBSET Ages /\ log[p] \in SUBSET Ages /\ last[p] \in Ages
  BY DEF TypeOK
<1>2. {a \in events[p] : a + 1 < Window}
        = {a \in log[p] : a + 1 < Window /\ a < last[p]}
  <2>1. Counted(p) = Unalerted(p, last[p])
    BY DEF Windows
  <2>. QED  BY <1>1, <2>1, Constants DEF Counted, Unalerted, Ages
<1>3. {a \in Aged(log[p]) : a < Window /\ a < Older(last[p])}
        = {a \in Aged(events[p]) : a < Window}
  BY <1>1, <1>2, Shift, ShiftAll
<1>4. 0 < Window /\ 0 < Older(last[p])
  BY <1>1, Constants, AgesGrow
<1>. QED  BY <1>3, <1>4 DEF Recent

LEMMA RecordKeepsWindows ==
  ASSUME TypeOK, Windows, NEW p \in Projects, Record(p)
  PROVE  /\ Windows'
         /\ events' \in [Projects -> SUBSET Ages] /\ log' \in [Projects -> SUBSET Ages]
         /\ last' \in [Projects -> Ages] /\ before' \in [Projects -> Ages]
<1>. DEFINE fires == Cardinality(Recent(p)) >= Threshold
<1>1. /\ events \in [Projects -> SUBSET Ages] /\ log \in [Projects -> SUBSET Ages]
      /\ last \in [Projects -> Ages] /\ before \in [Projects -> Ages]
  BY DEF TypeOK
<1>2. 0 \in Ages /\ Recent(p) \in SUBSET Ages /\ Cardinality(Recent(p)) \in Nat
  <2>1. 0 \in Ages /\ Recent(p) \in SUBSET Ages
    BY <1>1, AgesGrow, Constants DEF Recent, Ages
  <2>. QED  BY <2>1, Natural
<1>3. /\ events' = [q \in Projects |->
           IF q # p THEN Aged(events[q]) ELSE IF fires THEN {} ELSE Recent(p)]
      /\ log' = [q \in Projects |-> Aged(log[q]) \cup IF q = p THEN {0} ELSE {}]
      /\ last' = [q \in Projects |->
           IF q = p /\ fires THEN 0 ELSE Older(last[q])]
      /\ before' = [q \in Projects |->
           IF q = p /\ fires THEN Older(last[p]) ELSE Older(before[q])]
  BY <1>1 DEF Record
<1>. HIDE DEF fires
<1>4. /\ events' \in [Projects -> SUBSET Ages] /\ log' \in [Projects -> SUBSET Ages]
      /\ last' \in [Projects -> Ages] /\ before' \in [Projects -> Ages]
  BY <1>1, <1>2, <1>3, AgesGrow
<1>5. ASSUME NEW q \in Projects, q # p
      PROVE  /\ Counted(q)' = Unalerted(q, last[q])'
             /\ Cardinality(Unalerted(q, last[q])') < Threshold
             /\ last'[q] # 0
  BY <1>3, <1>5, Quietly
<1>6. Counted(p)' = Unalerted(p, last[p])'
      /\ Cardinality(Unalerted(p, last[p])') < Threshold
      /\ (last'[p] = 0 => Cardinality(Unalerted(p, before[p])') >= Threshold)
  <2>1. log'[p] = Aged(log[p]) \cup {0}
    BY <1>3
  <2>2. CASE fires
    <3>1. last'[p] = 0 /\ before'[p] = Older(last[p]) /\ events'[p] = {}
      BY <1>3, <2>2
    <3>2. Counted(p)' = {} /\ Unalerted(p, last[p])' = {}
      BY <3>1, <2>1, <1>4 DEF Counted, Unalerted, Ages
    <3>3. Unalerted(p, before[p])' = Recent(p)
      BY <3>1, <2>1, Counts DEF Unalerted
    <3>. QED  BY <2>2, <3>2, <3>3, FS_EmptySet, Constants DEF fires
  <2>3. CASE ~fires
    <3>1. last'[p] = Older(last[p]) /\ events'[p] = Recent(p)
      BY <1>3, <2>3
    <3>2. Unalerted(p, last[p])' = Recent(p)
      BY <3>1, <2>1, Counts DEF Unalerted
    <3>3. Counted(p)' = Recent(p)
      BY <3>1, Constants DEF Counted, Recent
    <3>. QED  BY <1>1, <1>2, <2>3, <3>1, <3>2, <3>3, AgesGrow, Constants DEF fires
  <2>. QED  BY <2>2, <2>3
<1>7. Windows'
  BY <1>5, <1>6 DEF Windows
<1>. QED  BY <1>4, <1>7

-----------------------------------------------------------------------------
(* The detector at a step                                                  *)

LEMMA TimeKeepsWindows ==
  ASSUME TypeOK, Windows, TimePasses
  PROVE  /\ Windows'
         /\ events' \in [Projects -> SUBSET Ages] /\ log' \in [Projects -> SUBSET Ages]
         /\ last' \in [Projects -> Ages] /\ before' \in [Projects -> Ages]
<1>1. /\ events \in [Projects -> SUBSET Ages] /\ log \in [Projects -> SUBSET Ages]
      /\ last \in [Projects -> Ages] /\ before \in [Projects -> Ages]
  BY DEF TypeOK
<1>2. /\ events' \in [Projects -> SUBSET Ages] /\ log' \in [Projects -> SUBSET Ages]
      /\ last' \in [Projects -> Ages] /\ before' \in [Projects -> Ages]
  BY <1>1, AgesGrow DEF TimePasses
<1>3. ASSUME NEW p \in Projects
      PROVE  /\ Counted(p)' = Unalerted(p, last[p])'
             /\ Cardinality(Unalerted(p, last[p])') < Threshold
             /\ last'[p] # 0
  BY Quietly DEF TimePasses
<1>. QED  BY <1>2, <1>3 DEF Windows

LEMMA VanishKeepsWindows ==
  ASSUME Vanishes
  PROVE  /\ Windows'
         /\ events' \in [Projects -> SUBSET Ages] /\ log' \in [Projects -> SUBSET Ages]
         /\ last' \in [Projects -> Ages] /\ before' \in [Projects -> Ages]
<1>1. Window \in Ages
  BY Constants DEF Ages
<1>2. ASSUME NEW p \in Projects
      PROVE  /\ Counted(p)' = Unalerted(p, last[p])'
             /\ Cardinality(Unalerted(p, last[p])') < Threshold
             /\ last'[p] # 0
  <2>1. events'[p] = {} /\ log'[p] = {} /\ last'[p] = Window
    BY DEF Vanishes, LongAgo
  <2>2. Counted(p)' = {} /\ Unalerted(p, last[p])' = {}
    BY <2>1 DEF Counted, Unalerted
  <2>. QED  BY <2>1, <2>2, FS_EmptySet, Constants
<1>3. Windows'
  BY <1>2 DEF Windows
<1>. QED  BY <1>1, <1>3 DEF Vanishes, LongAgo

LEMMA SameWindows ==
  ASSUME TypeOK, Windows, UNCHANGED alerts
  PROVE  /\ Windows'
         /\ events' \in [Projects -> SUBSET Ages] /\ log' \in [Projects -> SUBSET Ages]
         /\ last' \in [Projects -> Ages] /\ before' \in [Projects -> Ages]
BY DEF TypeOK, Windows, Counted, Unalerted, alerts

-----------------------------------------------------------------------------
(* The steps                                                               *)

(* The part of the type that is not the detector's.                        *)
RunTyped ==
  /\ pc \in PCs /\ ctx \in BOOLEAN /\ firstErr \in {"none", "nil", "error"}
  /\ errCh \subseteq {"grpc", "http"}
  /\ grpc \in Sockets /\ http \in Sockets
RequestsTyped ==
  /\ web \in [Requests -> {"idle", "calling", "replying"}]
  /\ rpc \in [Requests -> {"idle", "running", "refreshing", "finishing"}]
  /\ on \in [Requests -> Projects \cup {None}]
  /\ \A r \in Requests : rpc[r] = "refreshing" => on[r] \in Projects
SupervisorsTyped ==
  /\ sup \in [Projects -> {"none", "waiting", "up"}]
  /\ cancelled \subseteq Projects
AlertsTyped ==
  /\ events \in [Projects -> SUBSET Ages] /\ log \in [Projects -> SUBSET Ages]
  /\ last \in [Projects -> Ages] /\ before \in [Projects -> Ages]

Typed == RunTyped /\ RequestsTyped /\ SupervisorsTyped

LEMMA TypeParts == TypeOK <=> Typed /\ AlertsTyped
BY DEF TypeOK, Typed, RunTyped, RequestsTyped, SupervisorsTyped, AlertsTyped

(* What a step of each kind does.                                          *)
LEMMA SupStep ==
  ASSUME Typed, Lifecycle, NEW p \in Projects,
         SupLaunch(p) \/ SupExit(p) \/ SupEnds(p)
  PROVE  Typed' /\ Lifecycle'
<1>1. /\ sup[p] # "none"
      /\ UNCHANGED <<run, listeners, requests>>
      /\ \E phase \in {"none", "waiting", "up"} : sup' = [sup EXCEPT ![p] = phase]
      /\ cancelled' \subseteq cancelled
  BY DEF SupLaunch, SupExit, SupEnds, Ends
<1>2. RunTyped' /\ RequestsTyped' /\ SupervisorsTyped'
  BY <1>1 DEF Typed, RunTyped, RequestsTyped, SupervisorsTyped, run, listeners, requests
<1>3. Listeners' /\ Told'
  BY <1>1 DEF Lifecycle, Listeners, Told, run, listeners
<1>4. Workers'
  <2>1. pc \notin {"down", "open", "start", "return"}
    BY <1>1 DEF Lifecycle, Workers, NoneUp
  <2>. QED  BY <1>1, <2>1 DEF Lifecycle, Workers, AllIdle, run, requests
<1>. QED  BY <1>2, <1>3, <1>4 DEF Typed, Lifecycle

LEMMA ReqStep ==
  ASSUME Typed, Lifecycle, NEW r \in Requests, RequestStep(r)
  PROVE  Typed' /\ Lifecycle'
<1>. USE DEF Typed
<1>1. UNCHANGED <<run, listeners>>
  BY DEF RequestStep, RpcStep, RpcArrives, RpcSpawns, RpcGivesUp, RpcReturns,
         RpcRefreshes, WebArrives, WebCut, WebReturns
<1>2. RunTyped' /\ Listeners' /\ Told'
  BY <1>1 DEF RunTyped, Lifecycle, Listeners, Told, run, listeners
<1>3. SupervisorsTyped'
  BY DEF RequestStep, RpcStep, RpcArrives, RpcSpawns, RpcGivesUp, RpcReturns,
         RpcRefreshes, WebArrives, WebCut, WebReturns, SupervisorsTyped,
         RequestsTyped, supervisors
<1>4. RequestsTyped'
  BY DEF RequestStep, RpcStep, RpcArrives, RpcSpawns, RpcGivesUp, RpcReturns,
         RpcRefreshes, WebArrives, WebCut, WebReturns, RequestsTyped
<1>5. Workers'
  <2>1. ASSUME RpcArrives(r) \/ RpcStep(r) \/ \E p \in Projects : RpcRefreshes(r, p)
        PROVE  pc \in {"serve", "shutdown", "graceful"}
    <3>1. CASE RpcArrives(r)
      BY <3>1 DEF RpcArrives, Lifecycle, Listeners, RunTyped, PCs, Open
    <3>2. CASE RpcStep(r) \/ \E p \in Projects : RpcRefreshes(r, p)
      <4>1. rpc[r] # "idle"
        BY <3>2 DEF RpcStep, RpcSpawns, RpcGivesUp, RpcReturns, RpcRefreshes
      <4>. QED  BY <4>1 DEF Lifecycle, Workers, AllIdle
    <3>. QED  BY <2>1, <3>1, <3>2
  <2>2. CASE RpcArrives(r) \/ RpcStep(r) \/ \E p \in Projects : RpcRefreshes(r, p)
    BY <1>1, <2>1, <2>2 DEF Workers, run
  <2>3. CASE WebArrives(r) \/ WebCut(r) \/ WebReturns(r)
    BY <1>1, <2>3 DEF WebArrives, WebCut, WebReturns, Lifecycle, Workers, AllIdle,
       NoneUp, run, supervisors
  <2>. QED  BY <2>2, <2>3 DEF RequestStep
<1>. QED  BY <1>2, <1>3, <1>4, <1>5 DEF Lifecycle

(* The steps of serve, of Run and of its servers.                          *)
ServeStep ==
  \/ RunStep \/ Boots \/ Serves \/ ServerFails \/ Signalled \/ Killed

LEMMA VanishStep ==
  ASSUME Typed, Exits \/ Killed, Told
  PROVE  Typed' /\ Lifecycle'
<1>1. RunTyped' /\ RequestsTyped' /\ SupervisorsTyped'
  BY DEF Exits, Killed, Vanishes, Idle, NoSup, Typed, RunTyped, RequestsTyped,
         SupervisorsTyped, PCs, Sockets
<1>2. Listeners' /\ Workers'
  BY DEF Exits, Killed, Vanishes, Idle, NoSup, Listeners, Workers, AllIdle, NoneUp
<1>3. Told'
  BY DEF Exits, Killed, Vanishes, Told
<1>. QED  BY <1>1, <1>2, <1>3 DEF Typed, Lifecycle

LEMMA ServeTyped ==
  ASSUME Typed, ServeStep, ~Exits, ~Killed
  PROVE  Typed'
<1>1. RunTyped'
  <2>. USE DEF Typed, RunTyped, PCs, Sockets, Goes
  <2>1. CASE Opens \/ RelayStarts \/ Listens \/ RegistersGateways
    BY <2>1 DEF Opens, RelayStarts, Listens, RegistersGateways, listeners
  <2>2. CASE Shuts
    BY <2>2 DEF Shuts
  <2>3. CASE ShutdownReturns
    BY <2>3 DEF ShutdownReturns
  <2>4. CASE GracefulStopReturns \/ RelayStop \/ RelayStopReturns
    BY <2>4 DEF GracefulStopReturns, RelayStop, RelayStopReturns, listeners
  <2>5. CASE Boots \/ Signalled
    BY <2>5 DEF Boots, Signalled, listeners
  <2>6. CASE Serves \/ ServerFails
    BY <2>6 DEF Serves, ServerFails, run
  <2>. QED  BY <2>1, <2>2, <2>3, <2>4, <2>5, <2>6 DEF ServeStep, RunStep
<1>2. UNCHANGED requests
  BY DEF ServeStep, RunStep, Opens, RelayStarts, Listens, RegistersGateways, Shuts,
         ShutdownReturns, GracefulStopReturns, RelayStop, RelayStopReturns, Boots,
         Serves, ServerFails, Signalled, Quiet
<1>3. RequestsTyped'
  BY <1>2 DEF Typed, RequestsTyped, requests
<1>4. \/ UNCHANGED supervisors
      \/ sup' \in [Projects -> {"none", "waiting"}] /\ UNCHANGED cancelled
      \/ UNCHANGED sup /\ cancelled' \subseteq Projects
  BY DEF ServeStep, RunStep, Opens, RelayStarts, Listens, RegistersGateways, Shuts,
         ShutdownReturns, GracefulStopReturns, RelayStop, RelayStopReturns, Boots,
         Serves, ServerFails, Signalled, Quiet, supervisors
<1>5. SupervisorsTyped'
  <2>1. ASSUME sup' \in [Projects -> {"none", "waiting"}]
        PROVE  sup' \in [Projects -> {"none", "waiting", "up"}]
    BY <2>1
  <2>. QED  BY <1>4, <2>1 DEF Typed, SupervisorsTyped, supervisors
<1>. QED  BY <1>1, <1>3, <1>5 DEF Typed

LEMMA ServeLifecycle ==
  ASSUME Typed, Lifecycle, ServeStep, ~Exits, ~Killed
  PROVE  Lifecycle'
<1>. USE DEF Lifecycle
<1>1. Listeners'
  <2>. USE DEF Listeners, Open, Goes
  <2>1. CASE Opens \/ RelayStarts \/ Listens \/ RegistersGateways
    BY <2>1 DEF Opens, RelayStarts, Listens, RegistersGateways, listeners
  <2>2. CASE Shuts \/ ShutdownReturns
    BY <2>2 DEF Shuts, ShutdownReturns
  <2>3. CASE GracefulStopReturns \/ RelayStop \/ RelayStopReturns
    BY <2>3 DEF GracefulStopReturns, RelayStop, RelayStopReturns, listeners
  <2>4. CASE Boots \/ Signalled
    BY <2>4 DEF Boots, Signalled, listeners
  <2>5. CASE Serves
    BY <2>5 DEF Serves, run
  <2>6. CASE ServerFails
    BY <2>6 DEF ServerFails, Typed, RunTyped, PCs
  <2>. QED  BY <2>1, <2>2, <2>3, <2>4, <2>5, <2>6 DEF ServeStep, RunStep
<1>2. Workers'
  <2>. USE DEF Workers, AllIdle, NoneUp, Goes, Quiet, requests, supervisors
  <2>1. CASE Opens \/ RelayStarts \/ Listens \/ RegistersGateways
    BY <2>1 DEF Opens, RelayStarts, Listens, RegistersGateways
  <2>2. CASE Shuts \/ ShutdownReturns
    BY <2>2 DEF Shuts, ShutdownReturns
  <2>3. CASE GracefulStopReturns \/ RelayStop \/ RelayStopReturns
    BY <2>3 DEF GracefulStopReturns, RelayStop, RelayStopReturns
  <2>4. CASE Boots \/ Signalled
    BY <2>4 DEF Boots, Signalled
  <2>5. CASE Serves \/ ServerFails
    BY <2>5 DEF Serves, ServerFails, run
  <2>. QED  BY <2>1, <2>2, <2>3, <2>4, <2>5 DEF ServeStep, RunStep
<1>3. Told'
  <2>. USE DEF Told, Goes
  <2>1. CASE Opens \/ RelayStarts \/ Listens \/ RegistersGateways
    BY <2>1 DEF Opens, RelayStarts, Listens, RegistersGateways
  <2>2. CASE Shuts \/ ShutdownReturns
    BY <2>2 DEF Shuts, ShutdownReturns
  <2>3. CASE GracefulStopReturns \/ RelayStop \/ RelayStopReturns
    BY <2>3 DEF GracefulStopReturns, RelayStop, RelayStopReturns
  <2>4. CASE Boots \/ Signalled
    BY <2>4 DEF Boots, Signalled
  <2>5. CASE Serves \/ ServerFails
    BY <2>5 DEF Serves, ServerFails, run
  <2>. QED  BY <2>1, <2>2, <2>3, <2>4, <2>5 DEF ServeStep, RunStep
<1>. QED  BY <1>1, <1>2, <1>3

-----------------------------------------------------------------------------
(* The invariant                                                           *)

LEMMA InitIInv == Init => IInv
<1>. SUFFICES ASSUME Init PROVE IInv
  OBVIOUS
<1>1. Typed
  BY DEF Init, Idle, NoSup, Typed, RunTyped, RequestsTyped, SupervisorsTyped, PCs,
         Sockets
<1>2. AlertsTyped
  BY Constants DEF Init, LongAgo, AlertsTyped, Ages
<1>3. Lifecycle
  BY DEF Init, Idle, NoSup, Lifecycle, Listeners, Workers, Told, AllIdle, NoneUp
<1>4. Windows
  <2>1. ASSUME NEW p \in Projects
        PROVE  /\ Counted(p) = {} /\ Unalerted(p, last[p]) = {}
               /\ last[p] = Window
    BY DEF Init, LongAgo, Counted, Unalerted
  <2>. QED  BY <2>1, FS_EmptySet, Constants DEF Windows
<1>. QED  BY <1>1, <1>2, <1>3, <1>4, TypeParts DEF IInv

(* What a step does to the detector's state.                               *)
LEMMA DetectorStep ==
  ASSUME TypeOK, Windows, Next
  PROVE  Windows' /\ AlertsTyped'
<1>1. CASE TimePasses
  BY <1>1, TimeKeepsWindows DEF AlertsTyped
<1>2. CASE Exits \/ Killed
  BY <1>2, VanishKeepsWindows DEF AlertsTyped, Exits, Killed
<1>3. ASSUME NEW p \in Projects, SupExit(p)
      PROVE  Windows' /\ AlertsTyped'
  BY <1>3, RecordKeepsWindows DEF AlertsTyped, SupExit
<1>4. CASE UNCHANGED alerts
  BY <1>4, SameWindows DEF AlertsTyped
<1>5. ASSUME NEW p \in Projects, SupLaunch(p) \/ SupEnds(p)
      PROVE  UNCHANGED alerts
  BY <1>5 DEF SupLaunch, SupEnds
<1>6. ASSUME NEW r \in Requests, RequestStep(r)
      PROVE  UNCHANGED alerts
  BY <1>6 DEF RequestStep, RpcStep, RpcArrives, RpcSpawns, RpcGivesUp, RpcReturns,
     RpcRefreshes, WebArrives, WebCut, WebReturns
<1>7. ASSUME ServeStep, ~Exits, ~Killed
      PROVE  UNCHANGED alerts
  BY <1>7 DEF ServeStep, RunStep, Opens, RelayStarts, Listens, RegistersGateways,
     Shuts, ShutdownReturns, GracefulStopReturns, RelayStop, RelayStopReturns, Boots,
     Serves, ServerFails, Signalled, Quiet
<1>8. CASE ServeStep
  BY <1>2, <1>4, <1>7, <1>8
<1>9. CASE \E r \in Requests : RequestStep(r)
  BY <1>4, <1>6, <1>9
<1>10. CASE \E p \in Projects : SupLaunch(p) \/ SupExit(p) \/ SupEnds(p)
  BY <1>3, <1>4, <1>5, <1>10
<1>. QED  BY <1>1, <1>8, <1>9, <1>10 DEF Next, ServeStep

LEMMA NextIInv == IInv /\ [Next]_vars => IInv'
<1>. SUFFICES ASSUME IInv, [Next]_vars PROVE IInv'
  OBVIOUS
<1>. USE DEF IInv
<1>0. Typed /\ AlertsTyped
  BY TypeParts
<1>3. Typed' /\ AlertsTyped' => TypeOK'
  BY DEF TypeOK, Typed, RunTyped, RequestsTyped, SupervisorsTyped, AlertsTyped
<1>1. CASE UNCHANGED vars
  <2>1. UNCHANGED <<run, listeners, requests, supervisors, alerts>>
    BY <1>1 DEF vars, run, listeners, requests, supervisors, alerts
  <2>2. TypeOK'
    BY <1>1 DEF vars, TypeOK
  <2>3. Lifecycle'
    BY <1>1 DEF vars, Lifecycle, Listeners, Workers, Told, AllIdle, NoneUp
  <2>. QED  BY <2>1, <2>2, <2>3, SameWindows
<1>2. CASE Next
  <2>1. Windows' /\ AlertsTyped'
    BY <1>2, DetectorStep
  <2>2. CASE ServeStep
    <3>1. Exits \/ Killed => Typed' /\ Lifecycle'
      BY <1>0, VanishStep DEF Lifecycle
    <3>2. ~Exits /\ ~Killed => Typed' /\ Lifecycle'
      BY <2>2, <1>0, ServeTyped, ServeLifecycle
    <3>. QED  BY <3>1, <3>2, <2>1, <1>3
  <2>3. CASE \E r \in Requests : RequestStep(r)
    <3>1. Typed' /\ Lifecycle'
      BY <2>3, <1>0, ReqStep
    <3>. QED  BY <3>1, <2>1, <1>3
  <2>4. CASE \E p \in Projects : SupLaunch(p) \/ SupExit(p) \/ SupEnds(p)
    <3>1. Typed' /\ Lifecycle'
      BY <2>4, <1>0, SupStep
    <3>. QED  BY <3>1, <2>1, <1>3
  <2>5. CASE TimePasses
    <3>1. Typed'
      BY <2>5, <1>0 DEF TimePasses, Typed, RunTyped, RequestsTyped, SupervisorsTyped,
         run, listeners, requests, supervisors
    <3>2. Lifecycle'
      BY <2>5 DEF TimePasses, Lifecycle, Listeners, Workers, Told, AllIdle, NoneUp,
         run, listeners, requests, supervisors
    <3>. QED  BY <3>1, <3>2, <2>1, <1>3
  <2>. QED  BY <1>2, <2>2, <2>3, <2>4, <2>5 DEF Next, ServeStep
<1>. QED  BY <1>1, <1>2

LEMMA Invariance == Spec => []IInv
BY InitIInv, NextIInv, PTL DEF Spec

-----------------------------------------------------------------------------
(* The state keeps its type: a request that waits for a supervisor waits   *)
(* for a project's.                                                        *)
THEOREM TypeCorrect == Spec => []TypeOK
<1>1. IInv => TypeOK
  BY DEF IInv
<1>. QED  BY <1>1, Invariance, PTL

(* When Run returns, by whichever of its ways, no handler is left to use   *)
(* the database that is closed next, and no supervisor and no listener     *)
(* outlives it.                                                            *)
THEOREM NothingIsLeft == Spec => []NothingOutlivesRun
<1>1. IInv => NothingOutlivesRun
  BY DEF IInv, Lifecycle, Listeners, Workers, NothingOutlivesRun, AllIdle, NoneUp, Open
<1>. QED  BY <1>1, Invariance, PTL

(* The exit status of Run is success only after a signal: systemd restarts *)
(* the server after everything else.                                       *)
THEOREM ExitStatusTold == Spec => []StoppedOnlyWhenTold
<1>1. IInv => StoppedOnlyWhenTold
  BY DEF IInv, Lifecycle, Told, StoppedOnlyWhenTold
<1>. QED  BY <1>1, Invariance, PTL

(* The alerts of the crash-loop detector count every exit once, and leave  *)
(* no burst of them without one.                                           *)
THEOREM AlertsStandForBursts == Spec => []AlertsAreBursts
<1>1. IInv => AlertsAreBursts
  BY DEF IInv, Windows, AlertsAreBursts
<1>. QED  BY <1>1, Invariance, PTL

(* When Manager.Stop is called, and while it waits, no RPC is in flight:   *)
(* what RelayManager calls Drain is what this server does.                 *)
THEOREM StopsAlone == Spec => [](pc \in {"stop", "wait"} => AllIdle)
<1>1. IInv => (pc \in {"stop", "wait"} => AllIdle)
  BY DEF IInv, Lifecycle, Workers
<1>. QED  BY <1>1, Invariance, PTL

-----------------------------------------------------------------------------
(* What Manager.Stop waits for.                                            *)
StopTold == pc = "wait" => \A p \in Projects : sup[p] # "none" => p \in cancelled

(* Whoever waits for a project's supervisor waits for one that exists and  *)
(* was told to stop: an RPC goes on once its project is no longer in       *)
(* "cancelled", Manager.Stop once there is no supervisor.                  *)
WaitsForTold ==
  /\ \A p \in cancelled : sup[p] # "none"
  /\ StopTold

(* A supervisor's end takes its name from the list with it.                *)
LEMMA SupTold ==
  ASSUME Typed, WaitsForTold, NEW p \in Projects,
         SupLaunch(p) \/ SupExit(p) \/ SupEnds(p)
  PROVE  WaitsForTold'
<1>1. /\ pc' = pc
      /\ \E phase \in {"none", "waiting", "up"} :
           /\ sup' = [sup EXCEPT ![p] = phase]
           /\ cancelled' = IF phase = "none" THEN cancelled \ {p} ELSE cancelled
           /\ sup[p] # "none"
  BY DEF SupLaunch, SupExit, SupEnds, Ends, run
<1>. QED  BY <1>1 DEF Typed, SupervisorsTyped, WaitsForTold, StopTold

(* An RPC cancels what is there; none is in flight while Stop waits.       *)
LEMMA ReqTold ==
  ASSUME Typed, Lifecycle, WaitsForTold, NEW r \in Requests, RequestStep(r)
  PROVE  WaitsForTold'
<1>. USE DEF Typed, RequestsTyped, SupervisorsTyped, WaitsForTold, StopTold
<1>1. CASE RpcSpawns(r)
  <2>1. pc' = pc /\ pc # "wait" /\ cancelled' = cancelled
    BY <1>1 DEF RpcSpawns, Lifecycle, Workers, AllIdle, run
  <2>2. \A p \in Projects : sup[p] # "none" => sup'[p] # "none"
    BY <1>1 DEF RpcSpawns
  <2>. QED  BY <2>1, <2>2
<1>2. ASSUME NEW p \in Projects, RpcRefreshes(r, p)
      PROVE  WaitsForTold'
  BY <1>2 DEF RpcRefreshes, run
<1>3. CASE RpcArrives(r) \/ RpcGivesUp(r) \/ RpcReturns(r)
  BY <1>3 DEF RpcArrives, RpcGivesUp, RpcReturns, run, supervisors
<1>4. CASE WebArrives(r) \/ WebCut(r) \/ WebReturns(r)
  BY <1>4 DEF WebArrives, WebCut, WebReturns, run, supervisors
<1>. QED  BY <1>1, <1>2, <1>3, <1>4 DEF RequestStep, RpcStep

(* Run: Start finds no name on the list, Stop puts every one there.        *)
LEMMA ServeTold ==
  ASSUME Typed, Lifecycle, WaitsForTold, ServeStep
  PROVE  WaitsForTold'
<1>. USE DEF Typed, SupervisorsTyped, WaitsForTold, StopTold
<1>1. CASE RelayStarts
  <2>1. cancelled = {} /\ cancelled' = cancelled /\ pc' # "wait"
    BY <1>1 DEF RelayStarts, Goes, Lifecycle, Workers, NoneUp
  <2>. QED  BY <2>1
<1>2. CASE RelayStop
  BY <1>2 DEF RelayStop
<1>3. CASE Exits \/ Killed
  BY <1>3 DEF Exits, Killed, Vanishes
<1>4. CASE ServeStep /\ ~RelayStarts /\ ~RelayStop /\ ~Exits /\ ~Killed
  <2>1. UNCHANGED supervisors /\ (pc' = pc \/ pc' # "wait")
    BY <1>4 DEF ServeStep, RunStep, Opens, Listens, RegistersGateways, Shuts,
       ShutdownReturns, GracefulStopReturns, RelayStopReturns, Boots, Serves,
       ServerFails, Signalled, Quiet, Goes, run
  <2>. QED  BY <2>1 DEF supervisors
<1>. QED  BY <1>1, <1>2, <1>3, <1>4

(* In every run of the process, killed ones included, nobody waits for a   *)
(* supervisor that does not exist or that was not told to stop.            *)
THEOREM WaitersTold == Spec => []WaitsForTold
<1>1. Init => WaitsForTold
  BY DEF Init, WaitsForTold, StopTold
<1>2. IInv /\ WaitsForTold /\ [Next]_vars => WaitsForTold'
  <2>. SUFFICES ASSUME IInv, WaitsForTold, [Next]_vars PROVE WaitsForTold'
    OBVIOUS
  <2>0. Typed /\ Lifecycle
    BY TypeParts DEF IInv
  <2>1. CASE ServeStep
    BY <2>0, <2>1, ServeTold
  <2>2. CASE \E r \in Requests : RequestStep(r)
    BY <2>0, <2>2, ReqTold
  <2>3. CASE \E p \in Projects : SupLaunch(p) \/ SupExit(p) \/ SupEnds(p)
    BY <2>0, <2>3, SupTold
  <2>4. CASE TimePasses \/ UNCHANGED vars
    BY <2>4 DEF TimePasses, vars, WaitsForTold, StopTold, run, supervisors
  <2>. QED  BY <2>1, <2>2, <2>3, <2>4 DEF Next, ServeStep
<1>. QED  BY <1>1, <1>2, Invariance, PTL DEF Spec
=============================================================================
