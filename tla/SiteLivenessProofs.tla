-------------------------- MODULE SiteLivenessProofs --------------------------
(***************************************************************************)
(* The sweeper never flips a site that beats in time, for every cadence    *)
(* and limit with room for one heartbeat's work before and after its tick. *)
(***************************************************************************)
EXTENDS SiteLiveness, TLAPS

(* How old the stamp of a steady site can be: between calls it was set in  *)
(* the work of the last tick, during one it may be that of the tick before *)
(* until the call has set its own.                                         *)
InTime(s) ==
  /\ s \in live /\ status[s] = "online" /\ agent[s] = "beating"
  /\ seen[s] \in Nat
  /\ waiting[s] = None => seen[s] + due[s] <= MaxWork + HeartbeatEvery
  /\ waiting[s] # None =>
       /\ HeartbeatEvery <= due[s] + MaxWork
       /\ seen[s] + due[s] <= MaxWork + 2 * HeartbeatEvery
       /\ pc[waiting[s]] = "raise" => seen[s] + due[s] <= HeartbeatEvery

SweepsLate == threshold # Null => OfflineAfter <= threshold

IInv == TypeOK /\ SweepsLate /\ \A s \in steady : InTime(s)

(* The numbers, as facts about naturals.                                   *)
LEMMA Numbers ==
  /\ HeartbeatEvery \in Nat /\ OfflineAfter \in Nat /\ MaxWork \in Nat
  /\ MaxAge \in Nat /\ MaxWork > 0 /\ MaxWork < HeartbeatEvery
  /\ HeartbeatEvery + 2 * MaxWork <= OfflineAfter /\ OfflineAfter < MaxAge
  /\ None \notin Sites /\ None \notin Handlers /\ Null \notin Nat
BY ConstantsAssumption DEF ConstantsAssumption

(* A steady site's stamp is never old enough for a sweep.                  *)
LEMMA NeverStale ==
  ASSUME IInv, threshold # Null, NEW s \in steady
  PROVE  ~Stale(s)
<1>1. InTime(s) /\ threshold \in Nat /\ OfflineAfter <= threshold
      /\ due[s] \in Nat
  BY Numbers DEF IInv, SweepsLate, TypeOK, Ages
<1>2. seen[s] <= OfflineAfter
  BY <1>1, Numbers DEF InTime
<1>. QED  BY <1>1, <1>2, Numbers DEF Stale, InTime

(* Every step keeps the types, and the wiring of the calls.                *)
LEMMA TypeStep == TypeOK /\ [Next]_vars => TypeOK'
<1>. SUFFICES ASSUME TypeOK, [Next]_vars PROVE TypeOK'  OBVIOUS
<1>. USE Numbers DEF Statuses, Tokens, Ages, AgentQueries, Columns, rows, agents,
       handlers, calls
<1>1. ASSUME NEW h \in Handlers, HandlerStep(h) PROVE TypeOK'
  <2>1. CASE TokenLookup(h)
    BY <2>1 DEF TypeOK, TokenLookup, Step, Refused, Answer
  <2>2. CASE SiteLookup(h)
    BY <2>2 DEF TypeOK, SiteLookup, Step, Refused, Answer
  <2>3. CASE ProjectCheck(h)
    BY <2>3 DEF TypeOK, ProjectCheck, Step, Refused, Answer
  <2>4. CASE UpdateAgentMeta(h)
    BY <2>4 DEF TypeOK, UpdateAgentMeta, Step, Refused, Answer
  <2>5. CASE SetStatus(h)
    <3>1. site[h] \in Sites
      BY <2>5 DEF TypeOK, SetStatus, Accepted, Answer
    <3>2. /\ status' \in [Sites -> Statuses] /\ steady' \subseteq Sites
          /\ UNCHANGED <<live, active, seen, token, fits, copy, up, threshold>>
      BY <2>5, <3>1 DEF TypeOK, SetStatus
    <3>3. /\ agent' \in [Sites -> {"down", "booting", "beating"}]
          /\ due' \in [Sites -> 0 .. HeartbeatEvery]
          /\ \A s \in Sites : agent'[s] = "down" => agent[s] = "down"
      BY <2>5, <3>1 DEF TypeOK, SetStatus, Accepted
    <3>4. Answer(h, "raise")
      BY <2>5 DEF SetStatus, Accepted
    <3>5. /\ waiting' \in [Sites -> Handlers \cup {None}]
          /\ pc' \in [Handlers -> AgentQueries \cup {"idle"}]
          /\ site' \in [Handlers -> Sites \cup {None}]
          /\ \A u \in Handlers : pc'[u] = "idle" <=> site'[u] = None
          /\ \A s \in Sites :
               /\ waiting'[s] # None =>
                    pc'[waiting'[s]] # "idle" /\ site'[waiting'[s]] = s
               /\ waiting[s] = None => waiting'[s] = None
      BY <3>4 DEF TypeOK, Answer
    <3>. QED  BY <3>2, <3>3, <3>5 DEF TypeOK
  <2>. QED  BY <1>1, <2>1, <2>2, <2>3, <2>4, <2>5 DEF HandlerStep
<1>2. ASSUME NEW s \in Sites, SiteStep(s) PROVE TypeOK'
  <2>1. ASSUME NEW h \in Handlers, AgentCalls(h, s) PROVE TypeOK'
    BY <2>1 DEF TypeOK, AgentCalls
  <2>2. CASE ReadSite(s)
    BY <2>2 DEF TypeOK, ReadSite
  <2>3. CASE SaveSite(s)
    BY <2>3 DEF TypeOK, SaveSite
  <2>4. ASSUME NEW kind \in Tokens, Issue(s, kind) PROVE TypeOK'
    BY <2>4 DEF TypeOK, Issue
  <2>5. CASE TokenExpires(s) \/ ProjectTurns(s) \/ DeleteSite(s)
    BY <2>5 DEF TypeOK, TokenExpires, ProjectTurns, DeleteSite
  <2>6. CASE AgentStarts(s)
    BY <2>6 DEF TypeOK, AgentStarts
  <2>7. CASE AgentStops(s)
    BY <2>7 DEF TypeOK, AgentStops
  <2>. QED  BY <1>2, <2>1, <2>2, <2>3, <2>4, <2>5, <2>6, <2>7 DEF SiteStep
<1>3. CASE SweepBegins
  BY <1>3 DEF TypeOK, SweepBegins
<1>4. CASE MarkStaleOffline
  BY <1>4 DEF TypeOK, MarkStaleOffline
<1>5. CASE ServerCrashes
  BY <1>5 DEF TypeOK, ServerCrashes
<1>6. CASE ServerStarts
  BY <1>6 DEF TypeOK, ServerStarts
<1>7. CASE TimePasses
  <2>1. /\ \A a \in Ages \cup {Null} : Older(a) \in Ages \cup {Null}
        /\ \A n \in 0 .. HeartbeatEvery : Sooner(n) \in 0 .. HeartbeatEvery
    BY DEF Older, Sooner
  <2>2. /\ seen' \in [Sites -> Ages \cup {Null}]
        /\ due' \in [Sites -> 0 .. HeartbeatEvery]
        /\ threshold' \in Ages \cup {Null}
    BY <1>7, <2>1 DEF TypeOK, TimePasses
  <2>3. copy' \in [Sites -> Columns \cup {Null}]
    <3>1. ASSUME NEW s \in Sites, copy[s] # Null
          PROVE  <<copy[s][1], Older(copy[s][2])>> \in Columns
      <4>1. copy[s] \in Statuses \X (Ages \cup {Null})
        BY <3>1 DEF TypeOK
      <4>2. /\ copy[s][1] \in Statuses
            /\ Older(copy[s][2]) \in Ages \cup {Null}
        BY <2>1, <4>1
      <4>. QED  BY <4>2
    <3>. QED  BY <1>7, <3>1 DEF TimePasses
  <2>. QED  BY <1>7, <2>2, <2>3 DEF TypeOK, TimePasses
<1>8. CASE UNCHANGED vars
  BY <1>8 DEF TypeOK, vars
<1>. QED  BY <1>1, <1>2, <1>3, <1>4, <1>5, <1>6, <1>7, <1>8 DEF Next

(* A sweep's threshold only grows until the sweep is over.                 *)
LEMMA SweepStep == IInv /\ [Next]_vars => SweepsLate'
<1>. SUFFICES ASSUME IInv, [Next]_vars PROVE SweepsLate'  OBVIOUS
<1>. USE Numbers DEF IInv, SweepsLate, TypeOK, Ages
<1>1. CASE SweepBegins \/ MarkStaleOffline \/ ServerCrashes
  BY <1>1 DEF SweepBegins, MarkStaleOffline, ServerCrashes
<1>2. CASE TimePasses
  BY <1>2 DEF TimePasses, Older
<1>3. CASE UNCHANGED threshold
  BY <1>3
<1>. QED
  BY <1>1, <1>2, <1>3 DEF Next, vars, HandlerStep, SiteStep, TokenLookup, SiteLookup,
     ProjectCheck, UpdateAgentMeta, SetStatus, AgentCalls, ReadSite, SaveSite, Issue,
     TokenExpires, ProjectTurns, DeleteSite, AgentStarts, AgentStops, ServerStarts

(* What InTime(s) reads, unchanged.                                        *)
LEMMA InTimeKept ==
  ASSUME IInv, NEW s \in steady, s \in live',
         status'[s] = status[s], seen'[s] = seen[s], agent'[s] = agent[s],
         due'[s] = due[s], waiting'[s] = waiting[s],
         waiting[s] # None => pc'[waiting[s]] = pc[waiting[s]]
  PROVE  InTime(s)'
BY DEF IInv, InTime

(* A query of a handler: an error ends steadiness, the stamp starts anew,  *)
(* the answer leaves the age and the next tick less than a heartbeat apart *)
(* from it.                                                                *)
LEMMA CallStep ==
  ASSUME IInv, NEW h \in Handlers, HandlerStep(h), NEW s \in steady'
  PROVE  InTime(s)'
<1>. USE Numbers DEF rows, agents, handlers, calls
<1>1. ASSUME NEW from, NEW to, Step(h, from, to), s \in steady, to # "raise",
             UNCHANGED rows
      PROVE  InTime(s)'
  BY <1>1 DEF Step, InTime, IInv, TypeOK
<1>2. ASSUME NEW from, Refused(h, from), UNCHANGED rows
      PROVE  InTime(s)'
  <2>1. s \in steady /\ s # site[h] /\ waiting[s] # h
    BY <1>2 DEF Refused, IInv, TypeOK
  <2>2. waiting'[s] = waiting[s] /\ UNCHANGED <<agent, due>>
    BY <1>2, <2>1 DEF Refused, Answer, IInv, TypeOK
  <2>3. waiting[s] # None => pc'[waiting[s]] = pc[waiting[s]]
    BY <1>2, <2>1 DEF Refused, Answer, IInv, TypeOK
  <2>4. s \in live'
    BY <1>2, <2>1 DEF IInv, InTime
  <2>. QED  BY <1>2, <2>1, <2>2, <2>3, <2>4, InTimeKept
<1>3. CASE TokenLookup(h) \/ SiteLookup(h) \/ ProjectCheck(h)
  BY <1>1, <1>2, <1>3 DEF TokenLookup, SiteLookup, ProjectCheck
<1>4. CASE UpdateAgentMeta(h)
  <2>1. CASE Refused(h, "touch") /\ UNCHANGED seen
    BY <1>2, <1>4, <2>1 DEF UpdateAgentMeta
  <2>2. CASE Step(h, "touch", "raise") /\ s # site[h]
    <3>1. s \in steady /\ UNCHANGED <<live, status, agent, due, waiting>>
          /\ seen'[s] = seen[s]
      BY <1>4, <2>2 DEF UpdateAgentMeta, Step, Refused, Answer, IInv, TypeOK
    <3>2. waiting[s] # None => pc'[waiting[s]] = pc[waiting[s]]
      BY <2>2, <3>1 DEF Step, IInv, TypeOK
    <3>. QED  BY <3>1, <3>2, InTimeKept DEF IInv, InTime
  <2>3. CASE Step(h, "touch", "raise") /\ s = site[h]
    <3>1. /\ s \in steady /\ UNCHANGED <<live, status, agent, due, waiting>>
          /\ InTime(s) /\ due[s] \in 0 .. HeartbeatEvery
      BY <1>4, <2>3 DEF UpdateAgentMeta, Step, Refused, Answer, IInv, TypeOK
    <3>2. seen'[s] = 0
      BY <1>4, <2>3, <3>1 DEF UpdateAgentMeta, Step, Refused, Answer, IInv, TypeOK,
         InTime
    <3>. QED  BY <3>1, <3>2 DEF InTime
  <2>. QED  BY <1>4, <2>1, <2>2, <2>3 DEF UpdateAgentMeta
<1>5. CASE SetStatus(h)
  <2>1. /\ site[h] \in Sites /\ pc[h] = "raise" /\ Answer(h, "raise")
        /\ UNCHANGED <<live, seen>>
    BY <1>5 DEF SetStatus, Accepted, Answer, IInv, TypeOK
  <2>2. CASE s # site[h]
    <3>1. /\ s \in steady /\ status'[s] = status[s]
          /\ agent'[s] = agent[s] /\ due'[s] = due[s] /\ waiting[s] # h
      BY <1>5, <2>1, <2>2 DEF SetStatus, Accepted, IInv, TypeOK
    <3>2. /\ waiting'[s] = waiting[s]
          /\ waiting[s] # None => pc'[waiting[s]] = pc[waiting[s]]
      BY <2>1, <3>1 DEF Answer, IInv, TypeOK
    <3>. QED  BY <2>1, <3>1, <3>2, InTimeKept DEF IInv, InTime
  <2>3. CASE s = site[h] /\ s \in steady /\ waiting[s] # h
    <3>1. InTime(s) /\ status'[s] = "online"
      BY <1>5, <2>1, <2>3 DEF SetStatus, IInv, InTime, TypeOK
    <3>2. agent'[s] = agent[s] /\ due'[s] = due[s]
      BY <1>5, <2>3 DEF SetStatus, Accepted
    <3>3. /\ waiting'[s] = waiting[s]
          /\ waiting[s] # None => pc'[waiting[s]] = pc[waiting[s]]
      BY <2>1, <2>3 DEF Answer, IInv, TypeOK
    <3>. QED  BY <2>1, <2>3, <3>1, <3>2, <3>3, InTimeKept DEF InTime
  <2>4. CASE s = site[h] /\ s \in steady /\ waiting[s] = h
    <3>1. InTime(s) /\ status'[s] = "online" /\ waiting'[s] = None
          /\ due[s] \in Nat
      BY <1>5, <2>1, <2>4 DEF SetStatus, Answer, IInv, InTime, TypeOK
    <3>2. agent'[s] = agent[s] /\ due'[s] = due[s]
      BY <1>5, <2>4, <3>1 DEF SetStatus, Accepted, InTime
    <3>. QED  BY <2>1, <2>4, <3>1, <3>2 DEF InTime
  <2>5. CASE s = site[h] /\ s \notin steady
    <3>1. Beaten(h) /\ s \in live /\ status'[s] = "online"
      BY <1>5, <2>1, <2>5 DEF SetStatus, IInv, TypeOK
    <3>2. /\ waiting[s] = h /\ seen[s] \in Nat /\ seen[s] <= MaxWork
          /\ agent[s] # "down" /\ waiting'[s] = None
      BY <2>1, <2>5, <3>1 DEF Beaten, Answer, IInv, TypeOK, Ages
    <3>3. /\ agent'[s] = "beating"
          /\ due'[s] \in 0 .. HeartbeatEvery
      BY <1>5, <2>1, <2>5, <3>2 DEF SetStatus, Accepted, IInv, TypeOK
    <3>. QED  BY <2>1, <3>1, <3>2, <3>3 DEF InTime
  <2>. QED  BY <2>2, <2>3, <2>4, <2>5
<1>. QED  BY <1>3, <1>4, <1>5 DEF HandlerStep

(* What operators, agents and tokens do to a steady site leaves it as it   *)
(* is or ends its steadiness; a tick starts a call.                        *)
LEMMA OutsideStep ==
  ASSUME IInv, NEW t \in Sites, SiteStep(t), NEW s \in steady'
  PROVE  InTime(s)'
<1>. USE Numbers DEF rows, agents, handlers, calls
<1>1. ASSUME NEW h \in Handlers, AgentCalls(h, t) PROVE InTime(s)'
  <2>1. CASE s # t
    <3>1. /\ s \in steady /\ UNCHANGED <<live, status, seen, agent>>
          /\ due'[s] = due[s] /\ waiting'[s] = waiting[s]
          /\ waiting[s] # None => pc'[waiting[s]] = pc[waiting[s]]
      BY <1>1, <2>1 DEF AgentCalls, IInv, TypeOK
    <3>. QED  BY <3>1, InTimeKept DEF IInv, InTime
  <2>2. CASE s = t
    <3>1. /\ s \in steady /\ UNCHANGED <<live, status, seen, agent>>
          /\ due'[s] = HeartbeatEvery /\ due[s] = 0 /\ waiting[s] = None
          /\ waiting'[s] = h /\ pc'[h] = "token" /\ h # None
      BY <1>1, <2>2 DEF AgentCalls, IInv, TypeOK
    <3>2. InTime(s)
      BY <3>1 DEF IInv
    <3>. QED  BY <3>1, <3>2 DEF InTime
  <2>. QED  BY <2>1, <2>2
<1>2. CASE ReadSite(t) \/ TokenExpires(t) \/ ProjectTurns(t)
  BY <1>2 DEF ReadSite, TokenExpires, ProjectTurns, IInv, InTime
<1>3. CASE \E kind \in Tokens : Issue(t, kind)
  BY <1>3 DEF Issue, IInv, InTime
<1>4. CASE SaveSite(t)
  <2>1. s \in steady /\ s \in live' /\ UNCHANGED <<agent, due, waiting, pc>>
    BY <1>4 DEF SaveSite, IInv, InTime
  <2>2. CASE s # t
    <3>1. status'[s] = status[s] /\ seen'[s] = seen[s]
      BY <1>4, <2>2 DEF SaveSite, IInv, TypeOK
    <3>. QED  BY <2>1, <3>1, InTimeKept
  <2>3. CASE s = t
    <3>1. copy[t] = <<status[t], seen[t]>>
      BY <1>4, <2>3 DEF SaveSite
    <3>2. status'[s] = status[s] /\ seen'[s] = seen[s]
      BY <1>4, <2>3, <3>1 DEF SaveSite, IInv, TypeOK
    <3>. QED  BY <2>1, <3>2, InTimeKept
  <2>. QED  BY <2>2, <2>3
<1>5. CASE DeleteSite(t)
  BY <1>5 DEF DeleteSite, IInv, InTime
<1>6. CASE AgentStarts(t)
  <2>1. s # t /\ s \in steady /\ UNCHANGED <<live, status, seen, waiting, pc>>
    BY <1>6 DEF AgentStarts, IInv, InTime
  <2>2. agent'[s] = agent[s] /\ due'[s] = due[s]
    BY <1>6, <2>1 DEF AgentStarts, IInv, TypeOK
  <2>. QED  BY <2>1, <2>2, InTimeKept DEF IInv, InTime
<1>7. CASE AgentStops(t)
  <2>1. s # t /\ s \in steady /\ UNCHANGED <<live, status, seen, due, pc>>
    BY <1>7 DEF AgentStops
  <2>2. agent'[s] = agent[s] /\ waiting'[s] = waiting[s]
    BY <1>7, <2>1 DEF AgentStops, IInv, TypeOK
  <2>. QED  BY <2>1, <2>2, InTimeKept DEF IInv, InTime
<1>. QED  BY <1>1, <1>2, <1>3, <1>4, <1>5, <1>6, <1>7 DEF SiteStep

(* Time: what the stamp gains in age, the tick comes nearer.               *)
LEMMA TimeStep ==
  ASSUME IInv, TimePasses, NEW s \in steady'
  PROVE  InTime(s)'
<1>1. /\ s \in steady /\ ~Late(s) /\ InTime(s)
      /\ s \in Sites /\ due[s] \in 0 .. HeartbeatEvery
      /\ seen'[s] = Older(seen[s]) /\ due'[s] = Sooner(due[s])
      /\ UNCHANGED <<live, status, agent, waiting, pc>>
  BY DEF TimePasses, IInv, TypeOK, calls
<1>2. seen[s] \in Ages
  BY <1>1, Numbers DEF IInv, TypeOK, InTime
<1>3. seen'[s] \in Nat /\ seen'[s] <= seen[s] + 1
  BY <1>1, <1>2, Numbers DEF Older, Ages
<1>4. due[s] > 0 /\ due'[s] = due[s] - 1
  BY <1>1, Numbers DEF Late, Sooner, InTime
<1>5. waiting[s] # None => HeartbeatEvery < due[s] + MaxWork
  BY <1>1, Numbers DEF Late
<1>. QED  BY <1>1, <1>2, <1>3, <1>4, <1>5, Numbers DEF InTime, Ages

(* The server's own steps.                                                 *)
LEMMA ServerStep ==
  ASSUME IInv, SweepBegins \/ MarkStaleOffline \/ ServerCrashes \/ ServerStarts,
         NEW s \in steady'
  PROVE  InTime(s)'
<1>. USE Numbers DEF rows, agents, handlers, calls
<1>1. CASE SweepBegins \/ ServerStarts
  BY <1>1 DEF SweepBegins, ServerStarts, IInv, InTime
<1>2. CASE MarkStaleOffline
  <2>1. s \in steady /\ threshold # Null /\ s \in Sites
        /\ UNCHANGED <<live, seen, agent, due, waiting, pc>>
    BY <1>2 DEF MarkStaleOffline, IInv, TypeOK
  <2>2. status'[s] = status[s]
    BY <1>2, <2>1, NeverStale DEF MarkStaleOffline
  <2>. QED  BY <2>1, <2>2, InTimeKept DEF IInv, InTime
<1>3. CASE ServerCrashes
  <2>1. /\ s \in steady /\ waiting[s] = None /\ waiting'[s] = None
        /\ UNCHANGED <<live, status, seen, agent, due>>
    BY <1>3 DEF ServerCrashes, IInv, TypeOK
  <2>. QED  BY <2>1, InTimeKept DEF IInv, InTime
<1>. QED  BY <1>1, <1>2, <1>3

(* A site that was never seen is not steady.                               *)
LEMMA InitInTime == Init => IInv
<1>. SUFFICES ASSUME Init PROVE IInv  OBVIOUS
<1>1. TypeOK
  BY Numbers DEF Init, TypeOK, Statuses, Tokens, Ages, Columns
<1>2. SweepsLate /\ \A s \in steady : InTime(s)
  BY DEF Init, SweepsLate
<1>. QED  BY <1>1, <1>2 DEF IInv

LEMMA NextInTime == IInv /\ [Next]_vars => IInv'
<1>. SUFFICES ASSUME IInv, [Next]_vars PROVE IInv'  OBVIOUS
<1>1. TypeOK' /\ SweepsLate'
  BY TypeStep, SweepStep DEF IInv
<1>2. ASSUME NEW s \in steady' PROVE InTime(s)'
  <2>1. CASE UNCHANGED vars
    BY <2>1, <1>2 DEF vars, IInv, InTime
  <2>2. CASE Next
    BY <2>2, <1>2, CallStep, OutsideStep, TimeStep, ServerStep DEF Next
  <2>. QED  BY <2>1, <2>2
<1>. QED  BY <1>1, <1>2 DEF IInv

(* Rows, calls and open saves are well formed, and a call is served by the *)
(* one handler that is about its site.                                     *)
THEOREM TypeCorrect == Spec => []TypeOK
<1>1. Init => IInv  BY InitInTime
<1>2. IInv => TypeOK  BY DEF IInv
<1>. QED  BY <1>1, <1>2, NextInTime, PTL DEF Spec

(* However heartbeats, sweeps, saves and crashes cross, a site that beats  *)
(* in time is online.                                                      *)
THEOREM NeverSweptInTime == Spec => []BeatingIsOnline
<1>1. Init => IInv  BY InitInTime
<1>2. IInv => BeatingIsOnline  BY DEF IInv, InTime, BeatingIsOnline
<1>. QED  BY <1>1, <1>2, NextInTime, PTL DEF Spec

-----------------------------------------------------------------------------
(* A silent site: what is offline is left so by the handlers and saves of  *)
(* other sites and by every sweep, and its stamp only grows older, so that *)
(* a sweep that found it stale would find it stale again.                  *)
StaysSilent(s) ==
  /\ status[s] # "online" => status'[s] # "online"
  /\ seen'[s] \in {seen[s], Older(seen[s])}

OfflineIsKept == [][\A s \in Sites : Silent(s) => StaysSilent(s)]_vars

LEMMA SilentStep ==
  ASSUME TypeOK, NEW s \in Sites, Silent(s), [Next]_vars
  PROVE  StaysSilent(s)
<1>. USE DEF StaysSilent, Silent, TypeOK, rows, agents, handlers
<1>1. ASSUME NEW h \in Handlers, HandlerStep(h)
      PROVE  StaysSilent(s)
  <2>1. site[h] # s
    OBVIOUS
  <2>2. CASE TokenLookup(h) \/ SiteLookup(h) \/ ProjectCheck(h)
    BY <2>2 DEF TokenLookup, SiteLookup, ProjectCheck
  <2>3. CASE UpdateAgentMeta(h)
    BY <2>1, <2>3 DEF UpdateAgentMeta
  <2>4. CASE SetStatus(h)
    BY <2>1, <2>4 DEF SetStatus
  <2>. QED  BY <1>1, <2>2, <2>3, <2>4 DEF HandlerStep
<1>2. ASSUME NEW u \in Sites, SiteStep(u)
      PROVE  StaysSilent(s)
  <2>1. CASE SaveSite(u)
    <3>1. u # s
      BY <2>1 DEF SaveSite
    <3>. QED  BY <2>1, <3>1 DEF SaveSite
  <2>2. CASE SiteStep(u) /\ ~SaveSite(u)
    BY <2>2 DEF SiteStep, AgentCalls, ReadSite, Issue, TokenExpires, ProjectTurns,
       DeleteSite, AgentStarts, AgentStops
  <2>. QED  BY <1>2, <2>1, <2>2
<1>3. CASE MarkStaleOffline
  BY <1>3 DEF MarkStaleOffline
<1>4. CASE SweepBegins \/ ServerCrashes \/ ServerStarts
  BY <1>4 DEF SweepBegins, ServerCrashes, ServerStarts
<1>5. CASE TimePasses
  BY <1>5 DEF TimePasses
<1>6. CASE UNCHANGED vars
  BY <1>6 DEF vars
<1>. QED  BY <1>1, <1>2, <1>3, <1>4, <1>5, <1>6 DEF Next

(* A silent site that is offline is not raised again, whatever sweeps and  *)
(* the calls and saves of other sites do.                                  *)
THEOREM SilentStaysOffline == Spec => OfflineIsKept
<1>. DEFINE Kept == \A s \in Sites : Silent(s) => StaysSilent(s)
<1>1. TypeOK /\ [Next]_vars => Kept
  BY SilentStep
<1>2. Spec => [][Kept]_vars
  BY <1>1, TypeCorrect, PTL DEF Spec
<1>. QED  BY <1>2 DEF OfflineIsKept
=============================================================================
