--------------------------- MODULE AuthProxyProofs ----------------------------
(***************************************************************************)
(* The routing of the auth proxy, for any tables and any connections.  The *)
(* invariant says, for each place of a handler, what the queries so far    *)
(* have shown (Shown), and where a request that has had a right all along  *)
(* can be (Entitled); both need that the histories are up to date while    *)
(* the request is being routed (Recorded).                                 *)
(***************************************************************************)
EXTENDS AuthProxy, TLAPS

Recorded(c) ==
  /\ pc[c] \in Routing => TrueNow(c) \subseteq ever[c] /\ right[c] \subseteq Rights(c)
  /\ pc[c] \in {"idle", "request", "open"} => right[c] = {}

Knows(c, kind, x) == <<kind, x>> \in ever[c]

Shown(c) ==
  /\ pc[c] \in {"service", "site", "project", "access", "dial"} /\ who[c] \in Operators =>
       /\ Knows(c, "session", who[c])
       /\ isAdmin[c] => \A p \in Projects : Knows(c, "access", p)
  /\ pc[c] \in {"site", "project", "access", "dial"} =>
       \/ who[c] \in Operators /\ Knows(c, "service", found[c])
       \/ who[c] \in Sites /\ Knows(c, "token", who[c])
  /\ pc[c] \in {"project", "access", "dial"} => Knows(c, "site", SiteFor(c))
  /\ pc[c] \in {"access", "dial"} => Knows(c, "project", ProjectFor(c))
  /\ pc[c] = "dial" /\ who[c] \in Operators => Knows(c, "access", ProjectFor(c))

Entitled(c) ==
  \A r \in right[c] : ~Knows(c, "shadow", r[1]) =>
    /\ pc[c] # "refuse"
    /\ pc[c] \in {"session", "service", "access"} => who[c] \in Operators
    /\ pc[c] \in {"site", "project", "access"} /\ who[c] \in Operators
         => found[c] = r[1]
    /\ pc[c] \in {"service", "site", "project", "access"} /\ r[2] = "admin"
         => isAdmin[c]
    /\ isAdmin[c] => pc[c] # "access"

ConnInv(c) == Recorded(c) /\ Shown(c) /\ Entitled(c)

IInv == TypeOK /\ \A c \in Conns : ConnInv(c)

(* What the handler of c has in its hands.                                 *)
hand(c) == <<who[c], dst[c], pc[c], found[c], isAdmin[c]>>

-----------------------------------------------------------------------------
(* The tables, that only the control plane changes.                        *)
LEMMA TableStep == TypeOK /\ [Next]_vars => TableTypes'
<1>. SUFFICES ASSUME TypeOK, [Next]_vars PROVE TableTypes'  OBVIOUS
<1>. USE DEF TypeOK, TableTypes, Changes, Turn
<1>1. CASE \E s \in Services :
             DeleteService(s) \/ \E p \in Ports : CreateService(s, p)
  BY <1>1 DEF DeleteService, CreateService
<1>2. CASE \E x \in Sites : DeleteSite(x) \/ TokenTurns(x)
  BY <1>2 DEF DeleteSite, TokenTurns
<1>3. CASE \E p \in Projects : ProjectTurns(p)
  BY <1>3 DEF ProjectTurns
<1>4. ASSUME NEW p \in Projects, NEW o \in Operators, AccessTurns(o, p)
      PROVE  TableTypes'
  <2>1. <<o, p>> \in Operators \X Projects
    OBVIOUS
  <2>2. access' \subseteq Operators \X Projects
    BY <1>4, <2>1 DEF AccessTurns
  <2>. QED  BY <1>4, <2>2 DEF AccessTurns
<1>5. CASE \E o \in Operators : AdminTurns(o) \/ SessionTurns(o)
  BY <1>5 DEF AdminTurns, SessionTurns
<1>6. CASE UNCHANGED <<tables, changes>>
  BY <1>6 DEF tables
<1>7. CASE TableChange
  BY <1>1, <1>2, <1>3, <1>4, <1>5, <1>7 DEF TableChange
<1>8. CASE Next /\ ~TableChange
  BY <1>6, <1>8 DEF Next, ForwarderStarts, Interrupt, ForwarderEnds, ForwarderKilled,
     ForwarderAccepts, ForwarderStep, ForwarderDials, ForwarderAnswered,
     HandleForwardReturns, AgentConnects, ReadRequest, ProxyStep, BadRequest, RouteStep,
     ValidateAgentToken, ValidateSession, FindService, FindSite, FindProject,
     FindAccess, QueryFails, DialBackend, HandleReturns, Moves, Asks, ProxyStarts,
     ProxySignalled, ServeReturns, ProxyKilled, HangsUp
<1>9. CASE UNCHANGED vars
  BY <1>6, <1>9 DEF vars, tables
<1>. QED  BY <1>7, <1>8, <1>9

LEMMA ChangesOnly ==
  ASSUME TableChange
  PROVE  UNCHANGED <<processes, chain, pc, found, isAdmin>> /\ Remember
BY DEF Changes, TableChange, DeleteService, CreateService, DeleteSite, TokenTurns,
   ProjectTurns, AccessTurns, AdminTurns, SessionTurns

(* The processes, the handlers and their wiring.                           *)
LEMMA HandlerTypeStep == TypeOK /\ [Next]_vars => ProcessTypes' /\ HandlerTypes'
<1>. SUFFICES ASSUME TypeOK, [Next]_vars PROVE ProcessTypes' /\ HandlerTypes'
  OBVIOUS
<1>. DEFINE Typed == ProcessTypes' /\ HandlerTypes'
<1>. USE ConstantsAssumption
     DEF TypeOK, ProcessTypes, HandlerTypes, ProxyStates, Routing, Answering,
         ForwarderStates, Parties, processes, chain, ConstantsAssumption
<1>1. CASE TableChange
  BY <1>1, ChangesOnly
<1>2. ASSUME NEW o \in Operators, NEW s \in Services, ForwarderStarts(o, s)
      PROVE  Typed
  BY <1>2 DEF ForwarderStarts, TableTypes
<1>3. ASSUME NEW o \in Operators,
             Interrupt(o) \/ ForwarderEnds(o) \/ ForwarderKilled(o)
      PROVE  Typed
  BY <1>3 DEF Interrupt, ForwarderEnds, ForwarderKilled
<1>4. ASSUME NEW o \in Operators, NEW c \in Conns, ForwarderAccepts(c, o)
      PROVE  Typed
  BY <1>4 DEF ForwarderAccepts, Free
<1>5. ASSUME NEW c \in Conns, ForwarderStep(c) PROVE Typed
  <2>1. CASE ForwarderDials(c)
    BY <2>1 DEF ForwarderDials
  <2>2. CASE ForwarderAnswered(c)
    BY <2>2 DEF ForwarderAnswered
  <2>3. CASE HandleForwardReturns(c)
    BY <2>3 DEF HandleForwardReturns
  <2>. QED  BY <1>5, <2>1, <2>2, <2>3 DEF ForwarderStep
<1>6. ASSUME NEW c \in Conns, ReadRequest(c) \/ BadRequest(c) \/ QueryFails(c)
      PROVE  Typed
  BY <1>6 DEF ReadRequest, BadRequest, QueryFails, Moves
<1>7. ASSUME NEW c \in Conns, ValidateAgentToken(c) \/ ValidateSession(c)
      PROVE  Typed
  <2>1. CASE ValidateAgentToken(c)
    <3>1. who[c] \in tokens => who[c] \notin Operators
      BY DEF TableTypes
    <3>. QED  BY <2>1, <3>1 DEF ValidateAgentToken, Moves
  <2>2. CASE ValidateSession(c)
    <3>1. who[c] \in sessions => who[c] \in Operators
      BY DEF TableTypes
    <3>. QED  BY <2>2, <3>1 DEF ValidateSession, Asks, Moves
  <2>. QED  BY <1>7, <2>1, <2>2
<1>8. ASSUME NEW c \in Conns, FindService(c) PROVE Typed
  BY <1>8 DEF FindService, Asks, Moves, OnPort
<1>9. ASSUME NEW c \in Conns, FindSite(c) \/ FindProject(c) \/ FindAccess(c)
      PROVE  Typed
  BY <1>9 DEF FindSite, FindProject, FindAccess, Asks, Moves
<1>10. ASSUME NEW c \in Conns, DialBackend(c) PROVE Typed
  BY <1>10 DEF DialBackend, Clears
<1>11. ASSUME NEW c \in Conns, HandleReturns(c) PROVE Typed
  BY <1>11 DEF HandleReturns, Clears
<1>12. ASSUME NEW c \in Conns, NEW x \in Sites, AgentConnects(c, x) PROVE Typed
  BY <1>12 DEF AgentConnects, Free
<1>13. ASSUME NEW c \in Conns, NEW end \in Parties, HangsUp(c, end) PROVE Typed
  BY <1>13 DEF HangsUp
<1>14. CASE ProxyStarts \/ ProxySignalled \/ ServeReturns
  BY <1>14 DEF ProxyStarts, ProxySignalled, ServeReturns
<1>17. CASE ProxyKilled
  BY <1>17 DEF ProxyKilled
<1>15. CASE UNCHANGED vars
  BY <1>15 DEF vars
<1>16. ASSUME NEW c \in Conns, ProxyStep(c) PROVE Typed
  BY <1>16, <1>6, <1>7, <1>8, <1>9, <1>10, <1>11 DEF ProxyStep, RouteStep
<1>18. ASSUME NEW o \in Operators,
              \/ \E s \in Services : ForwarderStarts(o, s)
              \/ Interrupt(o) \/ ForwarderEnds(o) \/ ForwarderKilled(o)
              \/ \E c \in Conns : ForwarderAccepts(c, o)
       PROVE  Typed
  BY <1>2, <1>3, <1>4, <1>18
<1>19. ASSUME NEW c \in Conns,
              \/ ForwarderStep(c) \/ ReadRequest(c) \/ ProxyStep(c)
              \/ \E x \in Sites : AgentConnects(c, x)
              \/ \E end \in Parties : HangsUp(c, end)
       PROVE  Typed
  BY <1>5, <1>6, <1>12, <1>13, <1>16, <1>19
<1>. HIDE DEF Typed
<1>. QED  BY <1>1, <1>14, <1>15, <1>17, <1>18, <1>19 DEF Next, Typed

(* The histories stay sets of what they are about.                         *)
LEMMA HistoryStep == TypeOK /\ [Next]_vars => HistoryTypes'
<1>. SUFFICES ASSUME TypeOK, [Next]_vars PROVE HistoryTypes'  OBVIOUS
<1>. USE DEF TypeOK, HistoryTypes
<1>1. ASSUME NEW c \in Conns PROVE TrueNow(c)' \subseteq Facts
  <2>1. OnPort(c)' \subseteq Services
    BY DEF OnPort
  <2>2. /\ sessions' \subseteq Operators /\ sites' \subseteq Sites
        /\ active' \subseteq Projects /\ tokens' \subseteq Sites
    BY TableStep DEF TableTypes
  <2>. QED  BY <2>1, <2>2 DEF TrueNow, Facts
<1>2. CASE Remember
  <2>1. ever' \in [Conns -> SUBSET Facts]
    BY <1>1, <1>2 DEF Remember
  <2>2. right' \in [Conns -> SUBSET Entitlements]
    BY <1>2 DEF Remember
  <2>. QED  BY <2>1, <2>2
<1>3. ASSUME NEW c \in Conns, ReadRequest(c) PROVE HistoryTypes'
  <2>1. TrueNow(c) \subseteq Facts
    <3>1. OnPort(c) \subseteq Services
      BY DEF OnPort
    <3>. QED  BY <3>1 DEF TrueNow, Facts, TableTypes
  <2>. QED  BY <1>3, <2>1 DEF ReadRequest, Rights
<1>4. CASE ProxyKilled
  BY <1>4 DEF ProxyKilled
<1>5. ASSUME NEW c \in Conns, QueryFails(c) \/ DialBackend(c) \/ HandleReturns(c)
      PROVE  HistoryTypes'
  BY <1>5 DEF QueryFails, DialBackend, HandleReturns, Clears
<1>6. CASE UNCHANGED vars
  BY <1>6 DEF vars
<1>7. CASE TableChange
  BY <1>2, <1>7, ChangesOnly
<1>8. CASE Next /\ ~TableChange
  BY <1>2, <1>3, <1>4, <1>5, <1>8 DEF Next, ForwarderStarts, Interrupt, ForwarderEnds,
     ForwarderKilled, ForwarderAccepts, ForwarderStep, ForwarderDials,
     ForwarderAnswered, HandleForwardReturns, AgentConnects, ProxyStep, BadRequest,
     RouteStep, ValidateAgentToken, ValidateSession, FindService, FindSite,
     FindProject, FindAccess, Asks, ProxyStarts, ProxySignalled, ServeReturns, HangsUp
<1>. QED  BY <1>6, <1>7, <1>8

LEMMA TypeStep == TypeOK /\ [Next]_vars => TypeOK'
BY TableStep, HandlerTypeStep, HistoryStep DEF TypeOK

-----------------------------------------------------------------------------
(* A connection whose handler does not move keeps the invariant, whatever  *)
(* happens to the tables.                                                  *)
LEMMA Still ==
  ASSUME TypeOK, NEW u \in Conns, ConnInv(u), hand(u)' = hand(u),
         \/ Remember
         \/ right'[u] = right[u] /\ ever'[u] = ever[u] /\ UNCHANGED tables
  PROVE  ConnInv(u)'
<1>1. /\ who'[u] = who[u] /\ dst'[u] = dst[u] /\ pc'[u] = pc[u]
      /\ found'[u] = found[u] /\ isAdmin'[u] = isAdmin[u]
  BY DEF hand
<1>2. ever[u] \subseteq ever'[u] /\ right'[u] \subseteq right[u]
  BY DEF Remember
<1>3. Recorded(u)'
  <2>1. CASE Remember
    BY <1>1, <2>1 DEF Remember, Recorded, ConnInv
  <2>2. CASE right'[u] = right[u] /\ ever'[u] = ever[u] /\ UNCHANGED tables
    <3>1. TrueNow(u)' = TrueNow(u) /\ Rights(u)' = Rights(u)
      BY <1>1, <2>2 DEF TrueNow, Rights, Right, OnPort, MayUse, tables
    <3>. QED  BY <1>1, <2>2, <3>1 DEF Recorded, ConnInv
  <2>. QED  BY <2>1, <2>2
<1>4. Shown(u)'
  BY <1>1, <1>2 DEF ConnInv, Shown, Knows, SiteFor, ProjectFor
<1>5. Entitled(u)'
  BY <1>1, <1>2 DEF ConnInv, Entitled, Knows
<1>. QED  BY <1>3, <1>4, <1>5 DEF ConnInv

(* A handler that is not routing has nothing to show.                      *)
LEMMA AtRest ==
  ASSUME NEW c \in Conns, pc'[c] \in {"idle", "request", "open"}, right'[c] = {}
  PROVE  ConnInv(c)'
BY DEF ConnInv, Recorded, Shown, Entitled, Routing

(* What a query's step leaves for the next: histories that hold all that   *)
(* is true now, as nothing has changed.                                    *)
LEMMA QueryStep ==
  ASSUME TypeOK, NEW c \in Conns, ConnInv(c), pc[c] \in Routing,
         NEW from, NEW to, Moves(c, from, to), Remember
  PROVE  /\ Recorded(c)' \/ to \notin Routing
         /\ TrueNow(c) \subseteq ever[c] /\ right[c] \subseteq Rights(c)
         /\ ever[c] \subseteq ever'[c] /\ right'[c] \subseteq right[c]
         /\ who'[c] = who[c] /\ dst'[c] = dst[c] /\ pc[c] = from /\ pc'[c] = to
<1>1. who'[c] = who[c] /\ dst'[c] = dst[c] /\ pc[c] = from /\ pc'[c] = to
  BY DEF Moves, chain, TypeOK, TableTypes, HandlerTypes, HistoryTypes
<1>2. ever[c] \subseteq ever'[c] /\ right'[c] \subseteq right[c]
  BY DEF Remember
<1>3. Recorded(c)' \/ to \notin Routing
  BY <1>1 DEF Remember, Recorded, Routing
<1>4. TrueNow(c) \subseteq ever[c] /\ right[c] \subseteq Rights(c)
  BY DEF ConnInv, Recorded
<1>. QED  BY <1>1, <1>2, <1>3, <1>4

(* The queries one by one: each adds to what is shown, and none refuses    *)
(* who has had a right all along.                                          *)
LEMMA TokenQuery ==
  ASSUME TypeOK, NEW c \in Conns, ConnInv(c), ValidateAgentToken(c)
  PROVE  ConnInv(c)'
<1>1. /\ pc[c] = "token" /\ found'[c] = found[c] /\ isAdmin'[c] = isAdmin[c]
      /\ Moves(c, "token", IF who[c] \in tokens THEN "site" ELSE "session")
      /\ Remember
  BY DEF ValidateAgentToken, Moves, TypeOK, TableTypes, HandlerTypes, HistoryTypes
<1>2. CASE who[c] \in tokens
  <2>1. /\ Recorded(c)' /\ TrueNow(c) \subseteq ever[c] /\ ever[c] \subseteq ever'[c]
        /\ right[c] \subseteq Rights(c) /\ right'[c] \subseteq right[c]
        /\ who'[c] = who[c] /\ pc'[c] = "site" /\ who[c] \in Sites
    BY <1>1, <1>2, QueryStep DEF Routing, TypeOK, TableTypes, HandlerTypes, HistoryTypes
  <2>2. <<"token", who[c]>> \in TrueNow(c)
    BY <1>2 DEF TrueNow
  <2>3. who[c] \notin Operators
    BY <2>1, ConstantsAssumption DEF ConstantsAssumption
  <2>4. \A r \in right[c] : r[2] # "admin"
    BY <2>1, <2>3 DEF Rights, Right, TypeOK, TableTypes, HandlerTypes, HistoryTypes
  <2>. QED  BY <2>1, <2>2, <2>3, <2>4 DEF ConnInv, Shown, Entitled, Knows
<1>3. CASE who[c] \notin tokens
  <2>1. /\ Recorded(c)' /\ ever[c] \subseteq ever'[c]
        /\ right[c] \subseteq Rights(c) /\ right'[c] \subseteq right[c]
        /\ who'[c] = who[c] /\ pc'[c] = "session"
    BY <1>1, <1>3, QueryStep DEF Routing
  <2>2. \A r \in right[c] : who[c] \in Operators
    BY <1>3, <2>1 DEF Rights, Right, TypeOK, TableTypes, HandlerTypes, HistoryTypes
  <2>. QED  BY <2>1, <2>2 DEF ConnInv, Shown, Entitled, Knows
<1>. QED  BY <1>2, <1>3

LEMMA SessionQuery ==
  ASSUME TypeOK, NEW c \in Conns, ConnInv(c), ValidateSession(c)
  PROVE  ConnInv(c)'
<1>1. /\ pc[c] = "session" /\ found'[c] = found[c]
      /\ isAdmin'[c] = (who[c] \in admins)
      /\ Moves(c, "session", IF who[c] \in sessions THEN "service" ELSE "refuse")
      /\ Remember
  BY DEF ValidateSession, Asks, Moves, TypeOK, TableTypes, HandlerTypes, HistoryTypes
<1>2. CASE who[c] \in sessions
  <2>1. /\ Recorded(c)' /\ TrueNow(c) \subseteq ever[c] /\ ever[c] \subseteq ever'[c]
        /\ right[c] \subseteq Rights(c) /\ right'[c] \subseteq right[c]
        /\ who'[c] = who[c] /\ pc'[c] = "service" /\ who[c] \in Operators
    BY <1>1, <1>2, QueryStep DEF Routing, TypeOK, TableTypes, HandlerTypes, HistoryTypes
  <2>2. <<"session", who[c]>> \in TrueNow(c)
    BY <1>2, <2>1 DEF TrueNow
  <2>3. who[c] \in admins => \A p \in Projects : <<"access", p>> \in TrueNow(c)
    BY <2>1 DEF TrueNow, MayUse
  <2>4. \A r \in right[c] : r[2] = "admin" => who[c] \in admins
    BY <2>1 DEF Rights, Right
  <2>. QED  BY <1>1, <2>1, <2>2, <2>3, <2>4 DEF ConnInv, Shown, Entitled, Knows
<1>3. CASE who[c] \notin sessions
  <2>1. /\ right[c] \subseteq Rights(c) /\ right'[c] \subseteq right[c]
        /\ ever[c] \subseteq ever'[c] /\ who'[c] = who[c] /\ pc'[c] = "refuse"
    BY <1>1, <1>3, QueryStep DEF Routing
  <2>2. \A r \in right[c] : who[c] \notin Operators
    BY <1>3, <2>1, ConstantsAssumption DEF Rights, Right, TypeOK, TableTypes, HandlerTypes, HistoryTypes, ConstantsAssumption
  <2>3. \A r \in right[c] : ~Knows(c, "shadow", r[1]) => who[c] \in Operators
    BY <1>1 DEF ConnInv, Entitled
  <2>. QED  BY <2>1, <2>2, <2>3 DEF ConnInv, Recorded, Shown, Entitled, Knows, Routing
<1>. QED  BY <1>2, <1>3

LEMMA ServiceQuery ==
  ASSUME TypeOK, NEW c \in Conns, ConnInv(c), FindService(c)
  PROVE  ConnInv(c)'
<1>1. /\ pc[c] = "service" /\ isAdmin'[c] = isAdmin[c] /\ who[c] \in Operators
      /\ Moves(c, "service", IF OnPort(c) # {} THEN "site" ELSE "refuse")
      /\ Remember
  BY DEF FindService, Asks, Moves, TypeOK, TableTypes, HandlerTypes, HistoryTypes
<1>2. \A r \in right[c] : r[1] \in OnPort(c)
  <2>1. right[c] \subseteq Rights(c) /\ who[c] \notin Sites
    BY <1>1, ConstantsAssumption DEF ConnInv, Recorded, Routing, ConstantsAssumption
  <2>. QED  BY <2>1 DEF Rights, Right, TypeOK, TableTypes, HandlerTypes, HistoryTypes
<1>3. CASE OnPort(c) # {}
  <2>1. PICK s \in OnPort(c) :
          (\A t \in OnPort(c) : s <= t) /\ found' = [found EXCEPT ![c] = s]
    BY <1>3 DEF FindService
  <2>2. /\ Recorded(c)' /\ TrueNow(c) \subseteq ever[c] /\ ever[c] \subseteq ever'[c]
        /\ right'[c] \subseteq right[c] /\ found'[c] = s
        /\ who'[c] = who[c] /\ pc'[c] = "site"
    BY <1>1, <1>3, <2>1, QueryStep DEF Routing, TypeOK, TableTypes, HandlerTypes, HistoryTypes
  <2>3. <<"service", s>> \in TrueNow(c)
    BY <1>1, <2>1 DEF TrueNow
  <2>4. ASSUME NEW r \in right[c], ~Knows(c, "shadow", r[1]) PROVE r[1] = s
    <3>1. ~ \E t \in OnPort(c) : t < r[1]
      BY <1>1, <1>2, <2>2, <2>4 DEF TrueNow, Knows, OnPort
    <3>2. s \in Nat /\ r[1] \in Nat /\ s <= r[1] /\ ~(s < r[1])
      BY <1>2, <2>1, <3>1, ConstantsAssumption DEF OnPort, ConstantsAssumption
    <3>. QED  BY <3>2
  <2>. QED  BY <1>1, <2>2, <2>3, <2>4 DEF ConnInv, Shown, Entitled, Knows
<1>4. CASE OnPort(c) = {}
  <2>1. right'[c] = {} /\ pc'[c] = "refuse"
    BY <1>1, <1>2, <1>4, QueryStep DEF Routing
  <2>. QED  BY <2>1 DEF ConnInv, Recorded, Shown, Entitled, Routing
<1>. QED  BY <1>3, <1>4

(* What the handler knows of its site is what those with a right mean.     *)
LEMMA RightSite ==
  ASSUME TypeOK, NEW c \in Conns, ConnInv(c), pc[c] \in {"site", "project", "access"},
         NEW r \in right[c], ~Knows(c, "shadow", r[1])
  PROVE  /\ SiteFor(c) \in sites /\ ProjectFor(c) \in active
         /\ \/ r[2] = "token" /\ who[c] \in Sites
            \/ r[2] = "admin" /\ isAdmin[c]
            \/ r[2] = "access" /\ <<who[c], ProjectFor(c)>> \in access
<1>1. Right(c, r[1], r[2])
  BY DEF ConnInv, Recorded, Rights, Routing
<1>2. CASE who[c] \in Sites
  <2>1. who[c] \notin sessions
    BY <1>2, ConstantsAssumption DEF TypeOK, TableTypes, HandlerTypes, HistoryTypes, ConstantsAssumption
  <2>. QED  BY <1>1, <1>2, <2>1 DEF Right, SiteFor, ProjectFor
<1>3. CASE who[c] \notin Sites
  <2>1. /\ who[c] \in sessions /\ SiteOf[r[1]] \in sites
        /\ ProjectOf[SiteOf[r[1]]] \in active
        /\ r[2] = "admin" \/ (r[2] = "access" /\ <<who[c], ProjectOf[SiteOf[r[1]]]>> \in access)
    BY <1>1, <1>3 DEF Right, TypeOK, TableTypes, HandlerTypes, HistoryTypes
  <2>2. found[c] = r[1]
    BY <2>1 DEF ConnInv, Entitled, TypeOK, TableTypes, HandlerTypes, HistoryTypes
  <2>3. r[2] = "admin" => isAdmin[c]
    BY DEF ConnInv, Entitled
  <2>. QED  BY <1>3, <2>1, <2>2, <2>3 DEF SiteFor, ProjectFor
<1>. QED  BY <1>2, <1>3

LEMMA SiteQuery ==
  ASSUME TypeOK, NEW c \in Conns, ConnInv(c), FindSite(c)
  PROVE  ConnInv(c)'
<1>1. /\ pc[c] = "site" /\ found'[c] = found[c] /\ isAdmin'[c] = isAdmin[c]
      /\ Moves(c, "site", IF SiteFor(c) \in sites THEN "project" ELSE "refuse")
      /\ Remember
  BY DEF FindSite, Asks, Moves, TypeOK, TableTypes, HandlerTypes, HistoryTypes
<1>2. CASE SiteFor(c) \in sites
  <2>1. /\ Recorded(c)' /\ TrueNow(c) \subseteq ever[c] /\ ever[c] \subseteq ever'[c]
        /\ right'[c] \subseteq right[c] /\ who'[c] = who[c] /\ pc'[c] = "project"
    BY <1>1, <1>2, QueryStep DEF Routing
  <2>2. SiteFor(c)' = SiteFor(c) /\ <<"site", SiteFor(c)>> \in TrueNow(c)
    BY <1>1, <1>2, <2>1 DEF TrueNow, SiteFor
  <2>3. Shown(c)'
    BY <1>1, <2>1, <2>2 DEF ConnInv, Shown, Knows
  <2>4. Entitled(c)'
    BY <1>1, <2>1 DEF ConnInv, Entitled, Knows
  <2>. QED  BY <2>1, <2>3, <2>4 DEF ConnInv
<1>3. CASE SiteFor(c) \notin sites
  <2>1. /\ right'[c] \subseteq right[c] /\ ever[c] \subseteq ever'[c]
        /\ pc'[c] = "refuse"
    BY <1>1, <1>3, QueryStep DEF Routing
  <2>2. \A r \in right[c] : Knows(c, "shadow", r[1])
    BY <1>1, <1>3, RightSite
  <2>. QED  BY <2>1, <2>2 DEF ConnInv, Recorded, Shown, Entitled, Knows, Routing
<1>. QED  BY <1>2, <1>3

LEMMA ProjectQuery ==
  ASSUME TypeOK, NEW c \in Conns, ConnInv(c), FindProject(c)
  PROVE  ConnInv(c)'
<1>1. /\ pc[c] = "project" /\ found'[c] = found[c] /\ isAdmin'[c] = isAdmin[c]
      /\ Moves(c, "project",
               IF ProjectFor(c) \in active
               THEN IF who[c] \in Sites \/ isAdmin[c] THEN "dial" ELSE "access"
               ELSE "refuse")
      /\ Remember
  BY DEF FindProject, Asks, Moves, TypeOK, TableTypes, HandlerTypes, HistoryTypes
<1>2. CASE ProjectFor(c) \in active
  <2>1. /\ Recorded(c)' \/ pc'[c] = "dial"
        /\ TrueNow(c) \subseteq ever[c] /\ ever[c] \subseteq ever'[c]
        /\ right'[c] \subseteq right[c] /\ who'[c] = who[c]
        /\ pc'[c] \in {"access", "dial"}
        /\ pc'[c] = "dial" <=> who[c] \in Sites \/ isAdmin[c]
    BY <1>1, <1>2, QueryStep DEF Routing
  <2>2. /\ SiteFor(c)' = SiteFor(c) /\ ProjectFor(c)' = ProjectFor(c)
        /\ <<"project", ProjectFor(c)>> \in TrueNow(c)
    BY <1>1, <1>2, <2>1 DEF TrueNow, SiteFor, ProjectFor
  <2>3. Recorded(c)'
    BY <2>1 DEF Recorded, Routing
  <2>4. ProjectFor(c) \in Projects
    BY <1>2 DEF TypeOK, TableTypes, HandlerTypes, HistoryTypes
  <2>5. who[c] \in Operators => who[c] \notin Sites
    BY ConstantsAssumption DEF ConstantsAssumption
  <2>6. Shown(c)'
    BY <1>1, <2>1, <2>2, <2>4, <2>5 DEF ConnInv, Shown, Knows
  <2>7. who[c] \in Sites \/ who[c] \in Operators
    BY <1>1 DEF ConnInv, Shown
  <2>8. Entitled(c)'
    BY <1>1, <2>1, <2>7 DEF ConnInv, Entitled, Knows
  <2>. QED  BY <2>3, <2>6, <2>8 DEF ConnInv
<1>3. CASE ProjectFor(c) \notin active
  <2>1. /\ right'[c] \subseteq right[c] /\ ever[c] \subseteq ever'[c]
        /\ pc'[c] = "refuse"
    BY <1>1, <1>3, QueryStep DEF Routing
  <2>2. \A r \in right[c] : Knows(c, "shadow", r[1])
    BY <1>1, <1>3, RightSite
  <2>. QED  BY <2>1, <2>2 DEF ConnInv, Recorded, Shown, Entitled, Knows, Routing
<1>. QED  BY <1>2, <1>3

LEMMA AccessQuery ==
  ASSUME TypeOK, NEW c \in Conns, ConnInv(c), FindAccess(c)
  PROVE  ConnInv(c)'
<1>1. /\ pc[c] = "access" /\ found'[c] = found[c] /\ isAdmin'[c] = isAdmin[c]
      /\ Moves(c, "access",
               IF <<who[c], ProjectFor(c)>> \in access THEN "dial" ELSE "refuse")
      /\ Remember /\ who[c] \in Operators
  BY DEF FindAccess, Asks, Moves, TypeOK, TableTypes, HandlerTypes, HistoryTypes
<1>2. CASE <<who[c], ProjectFor(c)>> \in access
  <2>1. /\ TrueNow(c) \subseteq ever[c] /\ ever[c] \subseteq ever'[c]
        /\ right'[c] \subseteq right[c] /\ who'[c] = who[c] /\ pc'[c] = "dial"
    BY <1>1, <1>2, QueryStep DEF Routing
  <2>2. ProjectFor(c) \in Projects
    BY <1>2 DEF TypeOK, TableTypes, HandlerTypes, HistoryTypes
  <2>3. /\ SiteFor(c)' = SiteFor(c) /\ ProjectFor(c)' = ProjectFor(c)
        /\ <<"access", ProjectFor(c)>> \in TrueNow(c)
    BY <1>1, <1>2, <2>1, <2>2 DEF TrueNow, SiteFor, ProjectFor, MayUse
  <2>4. Shown(c)'
    BY <1>1, <2>1, <2>3 DEF ConnInv, Shown, Knows
  <2>5. Recorded(c)' /\ Entitled(c)'
    BY <1>1, <2>1 DEF Recorded, Entitled, Routing
  <2>. QED  BY <2>4, <2>5 DEF ConnInv
<1>3. CASE <<who[c], ProjectFor(c)>> \notin access
  <2>1. /\ right'[c] \subseteq right[c] /\ ever[c] \subseteq ever'[c]
        /\ pc'[c] = "refuse"
    BY <1>1, <1>3, QueryStep DEF Routing
  <2>2. \A r \in right[c] : ~Knows(c, "shadow", r[1]) => ~isAdmin[c]
    BY <1>1 DEF ConnInv, Entitled
  <2>3. who[c] \notin Sites
    BY <1>1, ConstantsAssumption DEF ConstantsAssumption
  <2>4. \A r \in right[c] : Knows(c, "shadow", r[1])
    BY <1>1, <1>3, <2>2, <2>3, RightSite
  <2>. QED  BY <2>1, <2>4 DEF ConnInv, Recorded, Shown, Entitled, Knows, Routing
<1>. QED  BY <1>2, <1>3

-----------------------------------------------------------------------------
(* A step of the handler of c leaves the others' hands and histories to    *)
(* Remember, or alone.                                                     *)
LEMMA HandlerStep ==
  ASSUME IInv, NEW c \in Conns, ReadRequest(c) \/ ProxyStep(c), NEW u \in Conns
  PROVE  ConnInv(u)'
<1>. USE DEF IInv, tables, chain, processes
<1>1. CASE u # c
  <2>1. hand(u)' = hand(u)
    BY <1>1 DEF hand, TypeOK, TableTypes, HandlerTypes, HistoryTypes, ReadRequest, ProxyStep, BadRequest, RouteStep,
       ValidateAgentToken, ValidateSession, FindService, FindSite, FindProject,
       FindAccess, QueryFails, DialBackend, HandleReturns, Moves, Asks, Clears
  <2>2. \/ Remember
        \/ right'[u] = right[u] /\ ever'[u] = ever[u] /\ UNCHANGED tables
    <3>1. CASE RouteStep(c) \/ BadRequest(c)
      BY <1>1, <3>1 DEF BadRequest, RouteStep, ValidateAgentToken, ValidateSession,
         FindService, FindSite, FindProject, FindAccess, QueryFails, Asks, Moves,
         TypeOK, HistoryTypes
    <3>2. CASE ReadRequest(c) \/ DialBackend(c) \/ HandleReturns(c)
      BY <1>1, <3>2 DEF ReadRequest, DialBackend, HandleReturns, Moves, Clears, TypeOK, TableTypes, HandlerTypes, HistoryTypes
    <3>. QED  BY <3>1, <3>2 DEF ProxyStep
  <2>. QED  BY <2>1, <2>2, Still
<1>2. CASE u = c
  <2>1. CASE ReadRequest(c)
    <3>1. /\ pc'[c] = "token" /\ right'[c] = Rights(c) /\ ever'[c] = TrueNow(c)
          /\ who'[c] = who[c] /\ dst'[c] = dst[c] /\ UNCHANGED tables
      BY <2>1 DEF ReadRequest, Moves, TypeOK, TableTypes, HandlerTypes, HistoryTypes
    <3>2. TrueNow(c)' = TrueNow(c) /\ Rights(c)' = Rights(c)
      BY <3>1 DEF TrueNow, Rights, Right, OnPort, MayUse
    <3>. QED  BY <1>2, <3>1, <3>2 DEF ConnInv, Recorded, Shown, Entitled, Routing
  <2>2. CASE BadRequest(c)
    <3>1. right'[c] = {} /\ pc'[c] = "refuse"
      BY <2>2 DEF BadRequest, Moves, Remember, TypeOK, TableTypes, HandlerTypes, HistoryTypes, ConnInv, Recorded
    <3>. QED  BY <1>2, <3>1 DEF ConnInv, Recorded, Shown, Entitled, Routing
  <2>3. CASE QueryFails(c)
    <3>1. right'[c] = {} /\ pc'[c] = "refuse"
      BY <2>3 DEF QueryFails, Moves, TypeOK, TableTypes, HandlerTypes, HistoryTypes
    <3>. QED  BY <1>2, <3>1 DEF ConnInv, Recorded, Shown, Entitled, Routing
  <2>4. CASE DialBackend(c) \/ HandleReturns(c)
    <3>1. pc'[c] \in {"idle", "open"} /\ right'[c] = {}
      BY <2>4 DEF DialBackend, HandleReturns, Clears, TypeOK, TableTypes, HandlerTypes, HistoryTypes
    <3>. QED  BY <1>2, <3>1, AtRest
  <2>5. CASE RouteStep(c) /\ ~QueryFails(c)
    BY <1>2, <2>5, TokenQuery, SessionQuery, ServiceQuery, SiteQuery, ProjectQuery,
       AccessQuery DEF RouteStep
  <2>. QED  BY <2>1, <2>2, <2>3, <2>4, <2>5 DEF ProxyStep
<1>. QED  BY <1>1, <1>2

(* All other steps: the connections they take up are at rest.              *)
LEMMA OtherStep ==
  ASSUME IInv, NEW u \in Conns,
         \/ TableChange \/ ProxyStarts \/ ProxySignalled \/ ServeReturns \/ ProxyKilled
         \/ \E o \in Operators :
              \/ \E s \in Services : ForwarderStarts(o, s)
              \/ Interrupt(o) \/ ForwarderEnds(o) \/ ForwarderKilled(o)
              \/ \E c \in Conns : ForwarderAccepts(c, o)
         \/ \E c \in Conns :
              \/ ForwarderStep(c) \/ \E x \in Sites : AgentConnects(c, x)
              \/ \E end \in Parties : HangsUp(c, end)
  PROVE  ConnInv(u)'
<1>. USE DEF IInv, chain, processes
<1>1. CASE ProxyKilled
  <2>1. pc'[u] = "idle" /\ right'[u] = {}
    BY <1>1 DEF ProxyKilled
  <2>. QED  BY <2>1, AtRest
<1>2. CASE Remember /\ hand(u)' = hand(u)
  BY <1>2, Still
<1>3. CASE Remember /\ pc[u] = "idle" /\ pc'[u] \in {"idle", "request"}
  <2>1. right'[u] = {}
    BY <1>3 DEF Remember, ConnInv, Recorded, Routing
  <2>. QED  BY <1>3, <2>1, AtRest
<1>4. CASE Remember /\ pc[u] = "request" /\ pc'[u] = "request"
  <2>1. right'[u] = {}
    BY <1>4 DEF Remember, ConnInv, Recorded, Routing
  <2>. QED  BY <1>4, <2>1, AtRest
<1>5. CASE TableChange
  BY <1>2, <1>5, ChangesOnly DEF hand
<1>6. CASE ProxyStarts \/ ProxySignalled \/ ServeReturns
  BY <1>2, <1>6 DEF ProxyStarts, ProxySignalled, ServeReturns, hand
<1>7. ASSUME NEW o \in Operators, (\E s \in Services : ForwarderStarts(o, s))
               \/ Interrupt(o) \/ ForwarderEnds(o) \/ ForwarderKilled(o)
      PROVE  ConnInv(u)'
  BY <1>2, <1>7 DEF ForwarderStarts, Interrupt, ForwarderEnds, ForwarderKilled, hand
<1>8. ASSUME NEW o \in Operators, NEW c \in Conns, ForwarderAccepts(c, o)
      PROVE  ConnInv(u)'
  <2>1. Remember /\ UNCHANGED <<pc, found, isAdmin>>
        /\ (u # c => who'[u] = who[u] /\ dst'[u] = dst[u]) /\ pc[c] = "idle"
    BY <1>8 DEF ForwarderAccepts, Free, TypeOK, TableTypes, HandlerTypes, HistoryTypes
  <2>. QED  BY <2>1, <1>2, <1>3 DEF hand
<1>9. ASSUME NEW c \in Conns, ForwarderStep(c) PROVE ConnInv(u)'
  <2>1. CASE ForwarderDials(c)
    <3>1. Remember /\ UNCHANGED <<who, dst, found, isAdmin>>
          /\ (u # c => pc'[u] = pc[u]) /\ pc'[c] = "request"
      BY <2>1 DEF ForwarderDials, TypeOK, TableTypes, HandlerTypes, HistoryTypes
    <3>2. pc[c] = "idle"
      BY <2>1 DEF ForwarderDials, TypeOK, TableTypes, HandlerTypes, HistoryTypes
    <3>. QED  BY <3>1, <3>2, <1>2, <1>3 DEF hand
  <2>2. CASE ForwarderAnswered(c) \/ HandleForwardReturns(c)
    BY <1>2, <2>2 DEF ForwarderAnswered, HandleForwardReturns, hand
  <2>. QED  BY <1>9, <2>1, <2>2 DEF ForwarderStep
<1>10. ASSUME NEW c \in Conns, NEW x \in Sites, AgentConnects(c, x)
       PROVE  ConnInv(u)'
  <2>1. Remember /\ UNCHANGED <<found, isAdmin>> /\ pc[c] = "idle"
        /\ (u # c => who'[u] = who[u] /\ dst'[u] = dst[u] /\ pc'[u] = pc[u])
        /\ pc'[c] = "request"
    BY <1>10 DEF AgentConnects, Free, TypeOK, TableTypes, HandlerTypes, HistoryTypes
  <2>. QED  BY <2>1, <1>2, <1>3 DEF hand
<1>11. ASSUME NEW c \in Conns, NEW end \in Parties, HangsUp(c, end)
       PROVE  ConnInv(u)'
  BY <1>2, <1>11 DEF HangsUp, hand
<1>. QED  BY <1>1, <1>5, <1>6, <1>7, <1>8, <1>9, <1>10, <1>11

LEMMA InitIInv == Init => IInv
<1>. SUFFICES ASSUME Init PROVE IInv  OBVIOUS
<1>1. TypeOK
  BY ConstantsAssumption
     DEF Init, TypeOK, ProcessTypes, TableTypes, HandlerTypes, HistoryTypes, ProxyStates, ForwarderStates, ConstantsAssumption
<1>2. ASSUME NEW c \in Conns PROVE ConnInv(c)
  BY <1>2 DEF Init, ConnInv, Recorded, Shown, Entitled, Routing
<1>. QED  BY <1>1, <1>2 DEF IInv

LEMMA NextIInv == IInv /\ [Next]_vars => IInv'
<1>. SUFFICES ASSUME IInv, [Next]_vars PROVE IInv'  OBVIOUS
<1>1. TypeOK'
  BY TypeStep DEF IInv
<1>2. ASSUME NEW u \in Conns PROVE ConnInv(u)'
  <2>1. CASE UNCHANGED vars
    <3>1. hand(u)' = hand(u) /\ right'[u] = right[u] /\ ever'[u] = ever[u]
          /\ UNCHANGED tables
      BY <2>1 DEF vars, hand, tables
    <3>. QED  BY <3>1, Still DEF IInv
  <2>2. CASE \E c \in Conns : ReadRequest(c) \/ ProxyStep(c)
    BY <2>2, HandlerStep
  <2>3. CASE Next /\ ~ \E c \in Conns : ReadRequest(c) \/ ProxyStep(c)
    BY <2>3, OtherStep DEF Next
  <2>. QED  BY <2>1, <2>2, <2>3
<1>. QED  BY <1>1, <1>2 DEF IInv

(* Handlers and forwarders keep their types, and their wiring.             *)
THEOREM TypeCorrect == Spec => []TypeOK
<1>1. Init => IInv  BY InitIInv
<1>2. IInv => TypeOK  BY DEF IInv
<1>. QED  BY <1>1, <1>2, NextIInv, PTL DEF Spec

(* Who gets through had what it takes, each fact since its request came.   *)
THEOREM RoutesAreOwned == Spec => []RouteWasOwned
<1>1. Init => IInv  BY InitIInv
<1>2. IInv => RouteWasOwned
  BY DEF IInv, ConnInv, Shown, RouteWasOwned, Knows
<1>. QED  BY <1>1, <1>2, NextIInv, PTL DEF Spec

(* Who had a right all along is only refused for a shadowing row.          *)
THEOREM NoneFalselyRefused == Spec => []NoFalseRefusal
<1>1. Init => IInv  BY InitIInv
<1>2. IInv => NoFalseRefusal
  BY DEF IInv, ConnInv, Entitled, NoFalseRefusal, Knows
<1>. QED  BY <1>1, <1>2, NextIInv, PTL DEF Spec

-----------------------------------------------------------------------------
(* Whose end of a chain is open has a handler that will close it.          *)
Attended(c) ==
  /\ "proxy" \in present[c] => pc[c] # "idle"
  /\ "forwarder" \in present[c] => fpc[c] # "idle"

(* A chain that is neither a whole tunnel nor over is never stuck: one of  *)
(* its handlers is at a step of its own, the forwarder has an answer to    *)
(* read, or the one that is left sees that the other end is gone, however  *)
(* forwarder, proxy, application and backend went away.                    *)
NeverStuck ==
  \A c \in Conns :
    \/ Free(c) \/ Linked(c)
    \/ pc[c] \in {"request"} \cup Routing \cup Answering
    \/ pc[c] = "open" /\ ~Whole(c)
    \/ pc[c] = "open" /\ fpc[c] = "wait"
    \/ ForwarderDone(c)

(* A handler that ends takes its end with it, and no other step opens an   *)
(* end or frees a handler.                                                 *)
LEMMA AttendedStep ==
  ASSUME TypeOK, NEW u \in Conns, Attended(u), [Next]_vars
  PROVE  Attended(u)'
<1>. USE DEF Attended, TypeOK, HandlerTypes, processes, chain
<1>1. CASE TableChange
  BY <1>1, ChangesOnly
<1>2. ASSUME NEW o \in Operators, NEW s \in Services, ForwarderStarts(o, s)
      PROVE  Attended(u)'
  BY <1>2 DEF ForwarderStarts
<1>3. ASSUME NEW o \in Operators,
             Interrupt(o) \/ ForwarderEnds(o) \/ ForwarderKilled(o)
      PROVE  Attended(u)'
  BY <1>3 DEF Interrupt, ForwarderEnds, ForwarderKilled
<1>4. ASSUME NEW o \in Operators, NEW c \in Conns, ForwarderAccepts(c, o)
      PROVE  Attended(u)'
  BY <1>4 DEF ForwarderAccepts
<1>5. ASSUME NEW c \in Conns, ForwarderStep(c)
      PROVE  Attended(u)'
  BY <1>5 DEF ForwarderStep, ForwarderDials, ForwarderAnswered, HandleForwardReturns
<1>6. ASSUME NEW c \in Conns, NEW from \in ProxyStates, NEW to \in ProxyStates,
             Moves(c, from, to), to # "idle"
      PROVE  Attended(u)'
  BY <1>6 DEF Moves
<1>7. ASSUME NEW c \in Conns, ReadRequest(c) \/ BadRequest(c) \/ RouteStep(c)
      PROVE  Attended(u)'
  BY <1>6, <1>7 DEF ReadRequest, BadRequest, RouteStep, ValidateAgentToken,
     ValidateSession, FindService, FindSite, FindProject, FindAccess, QueryFails,
     Asks, ProxyStates, Routing, Answering
<1>8. ASSUME NEW c \in Conns, DialBackend(c) \/ HandleReturns(c)
      PROVE  Attended(u)'
  BY <1>8 DEF DialBackend, HandleReturns
<1>9. ASSUME NEW c \in Conns, NEW x \in Sites, AgentConnects(c, x)
      PROVE  Attended(u)'
  BY <1>9 DEF AgentConnects
<1>10. ASSUME NEW c \in Conns, NEW end \in Parties, HangsUp(c, end)
       PROVE  Attended(u)'
  BY <1>10 DEF HangsUp
<1>11. CASE ProxyStarts \/ ProxySignalled \/ ServeReturns
  BY <1>11 DEF ProxyStarts, ProxySignalled, ServeReturns
<1>12. CASE ProxyKilled
  BY <1>12 DEF ProxyKilled
<1>13. CASE UNCHANGED vars
  BY <1>13 DEF vars
<1>14. ASSUME NEW c \in Conns, ProxyStep(c)
       PROVE  Attended(u)'
  BY <1>7, <1>8, <1>14 DEF ProxyStep
<1>. HIDE DEF Attended
<1>. QED  BY <1>1, <1>2, <1>3, <1>4, <1>5, <1>7, <1>9, <1>10, <1>11, <1>12, <1>13,
          <1>14 DEF Next

LEMMA AttendedNotStuck ==
  ASSUME TypeOK, \A c \in Conns : Attended(c)
  PROVE  NeverStuck
<1>. SUFFICES ASSUME NEW c \in Conns, ~Free(c),
                     pc[c] \notin {"request"} \cup Routing \cup Answering,
                     ~(pc[c] = "open" /\ ~Whole(c)),
                     ~(pc[c] = "open" /\ fpc[c] = "wait"), ~ForwarderDone(c)
              PROVE  Linked(c)
  BY DEF NeverStuck
<1>. USE DEF TypeOK, HandlerTypes
<1>1. pc[c] \in {"idle", "open"} /\ fpc[c] \in {"idle", "open"}
  BY DEF ProxyStates, ForwarderStates, ForwarderDone, Attended
<1>2. pc[c] = "open" /\ Whole(c)
  BY <1>1 DEF Free, ForwarderDone, Attended
<1>3. CASE who[c] \in Sites
  BY <1>2, <1>3, ConstantsAssumption
     DEF ConstantsAssumption, Linked, Whole, Client
<1>4. CASE who[c] \in Operators
  <2>1. fpc[c] = "open"
    BY <1>1, <1>2, <1>4, ConstantsAssumption
       DEF ConstantsAssumption, Whole, Client, Attended
  <2>2. "application" \in present[c]
    BY <2>1 DEF ForwarderDone
  <2>. QED  BY <1>2, <2>1, <2>2 DEF Linked
<1>. QED  BY <1>2, <1>3, <1>4

(* Whatever is killed, interrupted or hung up, no handler of a chain waits *)
(* for one that is gone.                                                   *)
THEOREM ChainsNeverStuck == Spec => []NeverStuck
<1>. DEFINE A == TypeOK /\ \A c \in Conns : Attended(c)
<1>1. Init => A
  BY InitIInv DEF IInv, Init, Attended
<1>2. A /\ [Next]_vars => A'
  BY TypeStep, AttendedStep
<1>3. A => NeverStuck
  BY AttendedNotStuck
<1>. HIDE DEF A
<1>. QED  BY <1>1, <1>2, <1>3, PTL DEF Spec
=============================================================================
