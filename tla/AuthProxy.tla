------------------------------- MODULE AuthProxy -------------------------------
(***************************************************************************)
(* The auth proxy and those who come through it: agents on their way to    *)
(* the relay's control port, and the connections of `quicktun forward` to  *)
(* a service's relay port.  A request is routed by one query after the     *)
(* other while the tables change; a tunnel is a chain of connections       *)
(*                                                                         *)
(*     application -- forwarder -- proxy -- backend                        *)
(*                                                                         *)
(* (an agent's has no forwarder) that ends when either end hangs up.       *)
(* A service id stands for its row's place in the table.                   *)
(***************************************************************************)
EXTENDS Naturals

CONSTANTS
  Conns,           (* connections of the proxy, used again and again        *)
  Operators,       (* each with the forwarder it may run                    *)
  Services,        (* service ids                                           *)
  Sites, Projects,
  Ports,           (* relay ports                                           *)
  SiteOf,          (* the site of a service                                 *)
  ProjectOf,       (* the project of a site                                 *)
  None,
  MaxChanges       (* bound: changes of the tables                          *)

ASSUME ConstantsAssumption ==
  /\ Services \subseteq Nat /\ MaxChanges \in Nat
  /\ SiteOf \in [Services -> Sites] /\ ProjectOf \in [Sites -> Projects]
  /\ None \notin Operators \cup Services \cup Sites \cup Ports
  /\ Operators \cap Sites = {} /\ Services \cap Sites = {}

VARIABLES
  port,            (* services.relay_port, None without a row               *)
  sites, active,   (* sites not deleted, projects that are active           *)
  sessions,        (* operators whose forwarder's session token is good     *)
  admins, access,  (* admins, and pairs of an operator and a project        *)
  tokens,          (* sites whose agent's token is good                     *)
  changes,
  forwarder,       (* an operator's `quicktun forward`                      *)
  target,          (* the port it forwards to                               *)
  proxy,           (* the proxy's process                                   *)
  who,             (* of a connection: the operator, or the agent's site    *)
  dst,             (* of an operator's connection: the port in its request  *)
  pc,              (* the next step of the proxy's handler                  *)
  fpc,             (* the next step of the forwarder's handler              *)
  present,         (* who still has its end of the chain open               *)
  found,           (* the handler's service                                 *)
  isAdmin,         (* the handler's flag of the operator                    *)
  right,           (* history: what the request had a right to all along    *)
  ever             (* history: what was true at some time since it arrived  *)

tables == <<port, sites, active, sessions, admins, access, tokens>>
processes == <<forwarder, target, proxy>>
chain == <<who, dst, fpc, present>>
history == <<right, ever>>
vars == <<port, sites, active, sessions, admins, access, tokens, changes,
          forwarder, target, proxy, who, dst, pc, fpc, present, found,
          isAdmin, right, ever>>

Routing == {"token", "session", "service", "site", "project", "access"}
Answering == {"refuse", "dial"}
ProxyStates == {"idle", "request", "open"} \cup Routing \cup Answering
ForwarderStates == {"idle", "dial", "wait", "open"}
Parties == {"application", "forwarder", "proxy", "backend"}

Entitlements == (Services \cup Sites) \X {"token", "admin", "access"}
Facts == {"token", "session", "service", "site", "project", "access", "shadow"}
           \X (Operators \cup Services \cup Sites \cup Projects)

TableTypes ==
  /\ port \in [Services -> Ports \cup {None}]
  /\ sites \subseteq Sites /\ active \subseteq Projects
  /\ sessions \subseteq Operators /\ admins \subseteq Operators
  /\ access \subseteq Operators \X Projects /\ tokens \subseteq Sites
  /\ changes \in Nat

ProcessTypes ==
  /\ forwarder \in [Operators -> {"down", "listening", "closing"}]
  /\ target \in [Operators -> Ports \cup {None}]
  /\ proxy \in {"down", "serving", "closing"}

HandlerTypes ==
  /\ who \in [Conns -> Operators \cup Sites \cup {None}]
  /\ dst \in [Conns -> Ports \cup {None}]
  /\ pc \in [Conns -> ProxyStates] /\ fpc \in [Conns -> ForwarderStates]
  /\ present \in [Conns -> SUBSET Parties]
  /\ found \in [Conns -> Services \cup {None}]
  /\ isAdmin \in [Conns -> BOOLEAN]
  /\ \A c \in Conns :
       /\ pc[c] # "idle" => who[c] # None
       /\ fpc[c] # "idle" => who[c] \in Operators
       /\ fpc[c] = "dial" => pc[c] = "idle"
       /\ pc[c] \in {"service", "access"} => who[c] \in Operators
       /\ pc[c] \in {"site", "project", "access", "dial"} /\ who[c] \in Operators
            => found[c] # None

HistoryTypes ==
  right \in [Conns -> SUBSET Entitlements] /\ ever \in [Conns -> SUBSET Facts]

TypeOK == TableTypes /\ ProcessTypes /\ HandlerTypes /\ HistoryTypes

Init ==
  /\ port \in [Services -> Ports \cup {None}]
  /\ \A s, t \in Services : port[s] = port[t] /\ s # t => port[s] = None
  /\ sites = Sites /\ active = Projects
  /\ sessions = Operators /\ tokens = Sites
  /\ admins \in SUBSET Operators /\ access \in SUBSET (Operators \X Projects)
  /\ changes = 0
  /\ forwarder = [o \in Operators |-> "down"]
  /\ target = [o \in Operators |-> None]
  /\ proxy = "down"
  /\ who = [c \in Conns |-> None] /\ dst = [c \in Conns |-> None]
  /\ pc = [c \in Conns |-> "idle"] /\ fpc = [c \in Conns |-> "idle"]
  /\ present = [c \in Conns |-> {}]
  /\ found = [c \in Conns |-> None] /\ isAdmin = [c \in Conns |-> FALSE]
  /\ right = [c \in Conns |-> {}] /\ ever = [c \in Conns |-> {}]

-----------------------------------------------------------------------------
(* What a request needs                                                    *)

MayUse(o, p) == o \in admins \/ <<o, p>> \in access
OnPort(c) == {s \in Services : port[s] = dst[c]}

(* Why a request has a right to x: the service an operator asks for, or    *)
(* the site whose agent asks.                                              *)
Right(c, x, why) ==
  \/ /\ why = "token" /\ who[c] = x /\ x \in tokens \cap sites
     /\ ProjectOf[x] \in active
  \/ /\ who[c] \in sessions /\ x \in OnPort(c)
     /\ SiteOf[x] \in sites /\ ProjectOf[SiteOf[x]] \in active
     /\ \/ why = "admin" /\ who[c] \in admins
        \/ why = "access" /\ <<who[c], ProjectOf[SiteOf[x]]>> \in access

Rights(c) == {r \in Entitlements : Right(c, r[1], r[2])}

(* What is true of the tables now, one fact for each query.                *)
TrueNow(c) ==
  LET o == who[c] IN
  ({"token"} \X (tokens \cap {o})) \cup ({"site"} \X sites)
    \cup ({"project"} \X active)
    \cup (IF o \notin Operators THEN {} ELSE
            ({"session"} \X (sessions \cap {o})) \cup ({"service"} \X OnPort(c))
              \cup ({"access"} \X {p \in Projects : MayUse(o, p)})
              \cup ({"shadow"} \X {s \in OnPort(c) : \E t \in OnPort(c) : t < s}))

(* The histories of requests that are being routed.                        *)
Remember ==
  /\ right' = [c \in Conns |->
       IF pc'[c] \in Routing THEN right[c] \cap Rights(c)' ELSE right[c]]
  /\ ever' = [c \in Conns |->
       IF pc'[c] \in Routing THEN ever[c] \cup TrueNow(c)' ELSE ever[c]]

-----------------------------------------------------------------------------
(* The control plane changes the tables                                    *)

Changes ==
  /\ changes < MaxChanges /\ changes' = changes + 1
  /\ UNCHANGED <<processes, chain, pc, found, isAdmin>> /\ Remember

(* The port is one that no service of a live site has.                     *)
CreateService(s, p) ==
  /\ \A t \in Services : t >= s => port[t] = None
  /\ \A t \in Services : port[t] = p => SiteOf[t] \notin sites
  /\ SiteOf[s] \in sites
  /\ port' = [port EXCEPT ![s] = p]
  /\ UNCHANGED <<sites, active, sessions, admins, access, tokens>> /\ Changes

DeleteService(s) ==
  /\ port[s] # None /\ port' = [port EXCEPT ![s] = None]
  /\ UNCHANGED <<sites, active, sessions, admins, access, tokens>> /\ Changes

(* With force the rows of its services stay.                               *)
DeleteSite(x) ==
  /\ x \in sites /\ sites' = sites \ {x}
  /\ UNCHANGED <<port, active, sessions, admins, access, tokens>> /\ Changes

Turn(set, x) == IF x \in set THEN set \ {x} ELSE set \cup {x}

ProjectTurns(p) ==
  /\ active' = Turn(active, p)
  /\ UNCHANGED <<port, sites, sessions, admins, access, tokens>> /\ Changes

(* Grant and Revoke                                                        *)
AccessTurns(o, p) ==
  /\ access' = Turn(access, <<o, p>>)
  /\ UNCHANGED <<port, sites, active, sessions, admins, tokens>> /\ Changes

AdminTurns(o) ==
  /\ admins' = Turn(admins, o)
  /\ UNCHANGED <<port, sites, active, sessions, access, tokens>> /\ Changes

(* A session ends by logout, in time or with its operator; a running       *)
(* forwarder does not see a new one.                                       *)
SessionTurns(o) ==
  /\ o \in sessions \/ forwarder[o] = "down"
  /\ sessions' = Turn(sessions, o)
  /\ UNCHANGED <<port, sites, active, admins, access, tokens>> /\ Changes

TokenTurns(x) ==
  /\ tokens' = Turn(tokens, x)
  /\ UNCHANGED <<port, sites, active, sessions, admins, access>> /\ Changes

-----------------------------------------------------------------------------
(* The forwarder                                                           *)

(* The port is looked up once, through the control plane.                  *)
ForwarderStarts(o, s) ==
  /\ forwarder[o] = "down" /\ o \in sessions
  /\ port[s] # None /\ SiteOf[s] \in sites
  /\ forwarder' = [forwarder EXCEPT ![o] = "listening"]
  /\ target' = [target EXCEPT ![o] = port[s]]
  /\ UNCHANGED <<tables, changes, proxy, chain, pc, found, isAdmin>> /\ Remember

Interrupt(o) ==
  /\ forwarder[o] = "listening"
  /\ forwarder' = [forwarder EXCEPT ![o] = "closing"]
  /\ UNCHANGED <<tables, changes, target, proxy, chain, pc, found, isAdmin>>
  /\ Remember

(* The accept loop ends with wg.Wait.                                      *)
ForwarderEnds(o) ==
  /\ forwarder[o] = "closing"
  /\ \A c \in Conns : who[c] = o => fpc[c] = "idle"
  /\ forwarder' = [forwarder EXCEPT ![o] = "down"]
  /\ UNCHANGED <<tables, changes, target, proxy, chain, pc, found, isAdmin>>
  /\ Remember

ForwarderKilled(o) ==
  /\ forwarder[o] # "down"
  /\ forwarder' = [forwarder EXCEPT ![o] = "down"]
  /\ fpc' = [c \in Conns |-> IF who[c] = o THEN "idle" ELSE fpc[c]]
  /\ present' = [c \in Conns |-> IF who[c] = o THEN present[c] \ {"forwarder"}
                                ELSE present[c]]
  /\ UNCHANGED <<tables, changes, target, proxy, who, dst, pc, found, isAdmin>>
  /\ Remember

Free(c) == pc[c] = "idle" /\ fpc[c] = "idle"

ForwarderAccepts(c, o) ==
  /\ Free(c) /\ forwarder[o] = "listening"
  /\ who' = [who EXCEPT ![c] = o] /\ dst' = [dst EXCEPT ![c] = target[o]]
  /\ present' = [present EXCEPT ![c] = {"application", "forwarder"}]
  /\ fpc' = [fpc EXCEPT ![c] = "dial"]
  /\ UNCHANGED <<tables, changes, processes, pc, found, isAdmin>> /\ Remember

(* DialTimeout, then the CONNECT request.                                  *)
ForwarderDials(c) ==
  /\ fpc[c] = "dial" /\ proxy = "serving"
  /\ fpc' = [fpc EXCEPT ![c] = "wait"]
  /\ pc' = [pc EXCEPT ![c] = "request"]
  /\ present' = [present EXCEPT ![c] = @ \cup {"proxy"}]
  /\ UNCHANGED <<tables, changes, processes, who, dst, found, isAdmin>> /\ Remember

ForwarderAnswered(c) ==
  /\ fpc[c] = "wait" /\ pc[c] = "open"
  /\ fpc' = [fpc EXCEPT ![c] = "open"]
  /\ UNCHANGED <<tables, changes, processes, who, dst, pc, present, found, isAdmin>>
  /\ Remember

(* Mutant: the dial has no timeout.                                        *)
ForwarderDoneLater(c) ==
  \/ fpc[c] = "wait" /\ "proxy" \notin present[c]
  \/ fpc[c] = "open" /\ ~({"application", "proxy"} \subseteq present[c])

(* The dial has failed, the answer was a refusal, the proxy is gone or, as *)
(* the first of the two copies to end, the application is.                 *)
ForwarderDone(c) ==
  \/ fpc[c] = "dial"
  \/ fpc[c] = "wait" /\ "proxy" \notin present[c]
  \/ fpc[c] = "open" /\ ~({"application", "proxy"} \subseteq present[c])

HandleForwardReturns(c) ==
  /\ ForwarderDone(c) /\ fpc' = [fpc EXCEPT ![c] = "idle"]
  /\ present' = [present EXCEPT ![c] = @ \ {"forwarder"}]
  /\ UNCHANGED <<tables, changes, processes, who, dst, pc, found, isAdmin>>
  /\ Remember

-----------------------------------------------------------------------------
(* The proxy's handler                                                     *)

AgentConnects(c, x) ==
  /\ Free(c) /\ proxy = "serving"
  /\ who' = [who EXCEPT ![c] = x] /\ dst' = [dst EXCEPT ![c] = None]
  /\ present' = [present EXCEPT ![c] = {"application", "proxy"}]
  /\ pc' = [pc EXCEPT ![c] = "request"]
  /\ UNCHANGED <<tables, changes, processes, fpc, found, isAdmin>> /\ Remember

(* A step of a handler that only moves on.                                 *)
Moves(c, from, to) ==
  /\ pc[c] = from /\ pc' = [pc EXCEPT ![c] = to]
  /\ UNCHANGED <<tables, changes, processes, chain>>

ReadRequest(c) ==
  /\ Moves(c, "request", "token")
  /\ right' = [right EXCEPT ![c] = Rights(c)]
  /\ ever' = [ever EXCEPT ![c] = TrueNow(c)]
  /\ UNCHANGED <<found, isAdmin>>

(* 405, or a request line that does not come before the deadline.          *)
BadRequest(c) ==
  Moves(c, "request", "refuse") /\ UNCHANGED <<found, isAdmin>> /\ Remember

(* A query that fails refuses too (401 or 500), but says nothing about the *)
(* request's right.                                                        *)
QueryFails(c) ==
  /\ \E from \in Routing : Moves(c, from, "refuse")
  /\ right' = [right EXCEPT ![c] = {}]
  /\ UNCHANGED <<found, isAdmin, ever>>

(* A query that leads on, or to a 401.                                     *)
Asks(c, from, row, to) ==
  Moves(c, from, IF row THEN to ELSE "refuse") /\ Remember

ValidateAgentToken(c) ==
  /\ Moves(c, "token", IF who[c] \in tokens THEN "site" ELSE "session")
  /\ UNCHANGED <<found, isAdmin>> /\ Remember

(* Mutant: the flag is not carried over from the joined row.               *)
ValidateSessionAlone(c) ==
  /\ Asks(c, "session", who[c] \in sessions, "service")
  /\ UNCHANGED <<found, isAdmin>>

(* One query: the session, with its operator's row.                        *)
ValidateSession(c) ==
  /\ Asks(c, "session", who[c] \in sessions, "service")
  /\ isAdmin' = [isAdmin EXCEPT ![c] = who[c] \in admins]
  /\ UNCHANGED found

(* The first row with the port.                                            *)
FindService(c) ==
  /\ Asks(c, "service", OnPort(c) # {}, "site")
  /\ \/ OnPort(c) = {} /\ UNCHANGED found
     \/ \E s \in OnPort(c) :
          /\ \A t \in OnPort(c) : s <= t
          /\ found' = [found EXCEPT ![c] = s]
  /\ UNCHANGED isAdmin

SiteFor(c) == IF who[c] \in Sites THEN who[c] ELSE SiteOf[found[c]]
ProjectFor(c) == ProjectOf[SiteFor(c)]

FindSite(c) ==
  /\ Asks(c, "site", SiteFor(c) \in sites, "project")
  /\ UNCHANGED <<found, isAdmin>>

(* Mutant: nobody is asked for a grant.                                    *)
FindProjectOnly(c) ==
  /\ Asks(c, "project", ProjectFor(c) \in active, "dial")
  /\ UNCHANGED <<found, isAdmin>>

(* Agents, and admins, are not asked for a grant.                          *)
FindProject(c) ==
  /\ Asks(c, "project", ProjectFor(c) \in active,
          IF who[c] \in Sites \/ isAdmin[c] THEN "dial" ELSE "access")
  /\ UNCHANGED <<found, isAdmin>>

FindAccess(c) ==
  /\ Asks(c, "access", <<who[c], ProjectFor(c)>> \in access, "dial")
  /\ UNCHANGED <<found, isAdmin>>

Clears(c) ==
  /\ found' = [found EXCEPT ![c] = None]
  /\ isAdmin' = [isAdmin EXCEPT ![c] = FALSE]
  /\ right' = [right EXCEPT ![c] = {}] /\ ever' = [ever EXCEPT ![c] = {}]

DialBackend(c) ==
  /\ pc[c] = "dial" /\ pc' = [pc EXCEPT ![c] = "open"]
  /\ present' = [present EXCEPT ![c] = @ \cup {"backend"}]
  /\ Clears(c) /\ UNCHANGED <<tables, changes, processes, who, dst, fpc>>

Client(c) == IF who[c] \in Sites THEN "application" ELSE "forwarder"

(* Mutant: it waits for both copies.                                       *)
WholeUntilBoth(c) == {Client(c), "backend"} \cap present[c] # {}

(* Both ends of an open tunnel have to be there: the first of the two      *)
(* copies that ends ends the handler.                                      *)
Whole(c) == {Client(c), "backend"} \subseteq present[c]

(* The answer is out, the dial has failed (502), or a copy has ended.      *)
HandleReturns(c) ==
  /\ pc[c] \in {"refuse", "dial"} \/ (pc[c] = "open" /\ ~Whole(c))
  /\ pc' = [pc EXCEPT ![c] = "idle"]
  /\ present' = [present EXCEPT ![c] = @ \ {"proxy"}]
  /\ Clears(c) /\ UNCHANGED <<tables, changes, processes, who, dst, fpc>>

-----------------------------------------------------------------------------
(* The proxy's process, and the ends of a tunnel                           *)

ProxyStarts ==
  /\ proxy = "down" /\ proxy' = "serving"
  /\ UNCHANGED <<tables, changes, forwarder, target, chain, pc, found, isAdmin>>
  /\ Remember

ProxySignalled ==
  /\ proxy = "serving" /\ proxy' = "closing"
  /\ UNCHANGED <<tables, changes, forwarder, target, chain, pc, found, isAdmin>>
  /\ Remember

(* Serve returns after wg.Wait.                                            *)
ServeReturns ==
  /\ proxy = "closing" /\ \A c \in Conns : pc[c] = "idle"
  /\ proxy' = "down"
  /\ UNCHANGED <<tables, changes, forwarder, target, chain, pc, found, isAdmin>>
  /\ Remember

ProxyKilled ==
  /\ proxy # "down" /\ proxy' = "down"
  /\ pc' = [c \in Conns |-> "idle"]
  /\ present' = [c \in Conns |-> present[c] \ {"proxy"}]
  /\ found' = [c \in Conns |-> None] /\ isAdmin' = [c \in Conns |-> FALSE]
  /\ right' = [c \in Conns |-> {}] /\ ever' = [c \in Conns |-> {}]
  /\ UNCHANGED <<tables, changes, forwarder, target, who, dst, fpc>>

HangsUp(c, end) ==
  /\ end \in {"application", "backend"} \cap present[c]
  /\ ~Free(c) /\ present' = [present EXCEPT ![c] = @ \ {end}]
  /\ UNCHANGED <<tables, changes, processes, who, dst, pc, fpc, found, isAdmin>>
  /\ Remember

-----------------------------------------------------------------------------
TableChange ==
  \/ \E s \in Services : DeleteService(s) \/ \E p \in Ports : CreateService(s, p)
  \/ \E x \in Sites : DeleteSite(x) \/ TokenTurns(x)
  \/ \E p \in Projects : ProjectTurns(p) \/ \E o \in Operators : AccessTurns(o, p)
  \/ \E o \in Operators : AdminTurns(o) \/ SessionTurns(o)

ForwarderStep(c) ==
  ForwarderDials(c) \/ ForwarderAnswered(c) \/ HandleForwardReturns(c)

RouteStep(c) ==
  \/ ValidateAgentToken(c) \/ ValidateSession(c) \/ FindService(c)
  \/ FindSite(c) \/ FindProject(c) \/ FindAccess(c) \/ QueryFails(c)

ProxyStep(c) ==
  \/ BadRequest(c) \/ RouteStep(c) \/ DialBackend(c) \/ HandleReturns(c)

Next ==
  \/ TableChange
  \/ \E o \in Operators :
       \/ \E s \in Services : ForwarderStarts(o, s)
       \/ Interrupt(o) \/ ForwarderEnds(o) \/ ForwarderKilled(o)
       \/ \E c \in Conns : ForwarderAccepts(c, o)
  \/ \E c \in Conns :
       \/ ForwarderStep(c) \/ ReadRequest(c) \/ ProxyStep(c)
       \/ \E x \in Sites : AgentConnects(c, x)
       \/ \E end \in Parties : HangsUp(c, end)
  \/ ProxyStarts \/ ProxySignalled \/ ServeReturns \/ ProxyKilled

Spec == Init /\ [][Next]_vars

(* Goroutines go on, queries and dials come back or time out; applications *)
(* and backends need never hang up, nor clients write a request.           *)
FairSpec ==
  /\ Spec /\ WF_vars(ServeReturns)
  /\ \A c \in Conns : WF_vars(ForwarderStep(c)) /\ WF_vars(ProxyStep(c))
  /\ \A o \in Operators : WF_vars(ForwarderEnds(o))

-----------------------------------------------------------------------------
(* Who gets through had what it takes: each of the facts that let it       *)
(* through, about one and the same service, was true at some time since    *)
(* its request arrived, however the tables changed between the queries.    *)
RouteWasOwned ==
  \A c \in Conns : pc[c] = "dial" =>
    LET has(kind, x) == <<kind, x>> \in ever[c] IN
    /\ has("site", SiteFor(c)) /\ has("project", ProjectFor(c))
    /\ \/ has("token", who[c])
       \/ /\ has("session", who[c]) /\ has("service", found[c])
          /\ has("access", ProjectFor(c))

(* Who had a right to a port all along gets through, unless a row of a     *)
(* deleted site was in front of its service's.                             *)
NoFalseRefusal ==
  \A c \in Conns : pc[c] = "refuse" =>
    \A r \in right[c] : <<"shadow", r[1]>> \in ever[c]

(* A connection becomes a whole tunnel or ends: no mute client, refusal or *)
(* dial keeps a handler without one, and a hang-up at either end takes the *)
(* whole chain down.                                                       *)
Linked(c) ==
  /\ pc[c] = "open" /\ Whole(c) /\ "application" \in present[c]
  /\ who[c] \in Operators => fpc[c] = "open"

TunnelOrNothing == \A c \in Conns : ~Free(c) ~> Free(c) \/ Linked(c)

(* A proxy, or a forwarder, that was told to stop does so when the tunnels *)
(* end: nobody waits for a handler that nothing will end.                  *)
StopsWithTunnels ==
  (\A c \in Conns : []<>~Linked(c)) =>
    /\ (proxy = "closing") ~> (proxy = "down")
    /\ \A o \in Operators : (forwarder[o] = "closing") ~> (forwarder[o] = "down")
=============================================================================
