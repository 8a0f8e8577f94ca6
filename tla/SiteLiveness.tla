----------------------------- MODULE SiteLiveness -----------------------------
(***************************************************************************)
(* What sites.status says of a site: the agents' Bootstrap and Heartbeat   *)
(* calls through the agent interceptor, with their two writes of the row;  *)
(* the sweeper; UpdateSite, which reads the row and saves all of it; and   *)
(* the agent tokens, which are replaced and expire.  Every query is a      *)
(* step, so handlers, the sweeper and a crash of the server meet anywhere. *)
(*                                                                         *)
(* Time is kept as ages: seen is the age of last_seen_at, threshold that   *)
(* of the sweeper's, due counts down to the next heartbeat.                *)
(* Nothing has to happen in time; the history `steady` says where it did.  *)
(***************************************************************************)
EXTENDS Naturals

CONSTANTS
  Sites,           (* sites of live projects                                *)
  Handlers,        (* handlers of agent calls                               *)
  None,            (* no site, or no handler                                *)
  Null,            (* SQL's NULL: a site never seen                         *)
  HeartbeatEvery,  (* heartbeatSeconds                                      *)
  OfflineAfter,    (* site_offline_after                                    *)
  MaxWork,         (* what steady grants the calls of one heartbeat         *)
  MaxAge           (* bound: older ages are not told apart                  *)

(* The default settings are 15, 30 and 90 seconds, so that the calls of a  *)
(* heartbeat may take 37 of them.                                          *)
ASSUME ConstantsAssumption ==
  /\ None \notin Sites \cup Handlers /\ Null \notin Nat
  /\ {HeartbeatEvery, OfflineAfter, MaxWork, MaxAge} \subseteq Nat
  /\ MaxWork > 0 /\ MaxWork < HeartbeatEvery
  /\ HeartbeatEvery + 2 * MaxWork <= OfflineAfter
  /\ OfflineAfter < MaxAge

VARIABLES
  live,        (* site rows not deleted                                     *)
  active,      (* sites whose project is active                             *)
  status,      (* sites.status                                              *)
  seen,        (* the age of sites.last_seen_at                             *)
  token,       (* the site's live agent token, unless it has expired        *)
  agent,       (* the agent's process                                       *)
  fits,        (* agents whose configured token is the live one             *)
  due,         (* time until the agent's next tick                          *)
  waiting,     (* the handler that serves the agent's call                  *)
  pc, site,    (* handlers: their next query, and the site they are about   *)
  copy,        (* the status columns of the row an UpdateSite has in hand;  *)
               (* bound: one of each site is open at a time                 *)
  up,          (* the server's process                                      *)
  threshold,   (* the age a sweep compares with, Null between sweeps        *)
  steady       (* history: sites that have beaten and done so in time since *)

rows == <<live, active, status, seen>>
agents == <<agent, due, waiting>>
handlers == <<pc, site, copy>>
calls == <<pc, site>>
vars == <<live, active, status, seen, token, agent, fits, due, waiting, pc,
          site, copy, up, threshold, steady>>

Statuses == {"pending", "online", "offline"}
Tokens == {"none", "install", "permanent"}
Ages == 0 .. MaxAge
AgentQueries == {"token", "site", "find", "project", "touch", "raise"}
Columns == Statuses \X (Ages \cup {Null})

TypeOK ==
  /\ live \subseteq Sites /\ active \subseteq Sites
  /\ status \in [Sites -> Statuses] /\ seen \in [Sites -> Ages \cup {Null}]
  /\ token \in [Sites -> Tokens] /\ fits \subseteq Sites
  /\ agent \in [Sites -> {"down", "booting", "beating"}]
  /\ due \in [Sites -> 0 .. HeartbeatEvery]
  /\ waiting \in [Sites -> Handlers \cup {None}]
  /\ pc \in [Handlers -> AgentQueries \cup {"idle"}]
  /\ site \in [Handlers -> Sites \cup {None}]
  /\ copy \in [Sites -> Columns \cup {Null}]
  /\ up \in BOOLEAN /\ threshold \in Ages \cup {Null}
  /\ steady \subseteq Sites
  /\ \A h \in Handlers : pc[h] = "idle" <=> site[h] = None
  /\ \A s \in Sites :
       /\ waiting[s] # None =>
            pc[waiting[s]] # "idle" /\ site[waiting[s]] = s
       /\ agent[s] = "down" => waiting[s] = None

(* A site is created pending; its first token is issued later.             *)
Init ==
  /\ live = Sites /\ active = Sites
  /\ status = [s \in Sites |-> "pending"] /\ seen = [s \in Sites |-> Null]
  /\ token = [s \in Sites |-> "none"] /\ fits = {}
  /\ agent = [s \in Sites |-> "down"] /\ due = [s \in Sites |-> 0]
  /\ waiting = [s \in Sites |-> None]
  /\ pc = [h \in Handlers |-> "idle"] /\ site = [h \in Handlers |-> None]
  /\ copy = [s \in Sites |-> Null]
  /\ up = TRUE /\ threshold = Null
  /\ steady = {}

-----------------------------------------------------------------------------
(* The agent's calls                                                       *)

(* Run's first bootstrap, or the tick of its heartbeat loop.               *)
AgentCalls(h, s) ==
  /\ up /\ pc[h] = "idle"
  /\ agent[s] # "down" /\ waiting[s] = None /\ due[s] = 0
  /\ waiting' = [waiting EXCEPT ![s] = h]
  /\ due' = [due EXCEPT ![s] = HeartbeatEvery]
  /\ pc' = [pc EXCEPT ![h] = "token"] /\ site' = [site EXCEPT ![h] = s]
  /\ UNCHANGED <<rows, token, agent, fits, copy, up, threshold, steady>>

Step(h, from, to) ==
  /\ pc[h] = from /\ pc' = [pc EXCEPT ![h] = to]
  /\ UNCHANGED <<site, agents>>

(* The answer; the bootstrap's starts the ticker of the loop.              *)
Answer(h, from) ==
  /\ pc[h] = from
  /\ pc' = [pc EXCEPT ![h] = "idle"] /\ site' = [site EXCEPT ![h] = None]
  /\ waiting' = [s \in Sites |-> IF waiting[s] = h THEN None ELSE waiting[s]]

Accepted(h) ==
  LET s == site[h] IN
  /\ Answer(h, "raise")
  /\ IF waiting[s] = h /\ agent[s] = "booting"
     THEN /\ agent' = [agent EXCEPT ![s] = "beating"]
          /\ due' = [due EXCEPT ![s] = HeartbeatEvery]
     ELSE UNCHANGED <<agent, due>>

(* Any error status: the agent tries again at its next tick.               *)
Refused(h, from) ==
  /\ Answer(h, from)
  /\ UNCHANGED <<agent, due>>
  /\ steady' = steady \ {site[h]}

(* AgentInterceptor: the token, then the site it belongs to.               *)
TokenValid(s) == s \in fits /\ token[s] # "none"

TokenLookup(h) ==
  /\ \/ TokenValid(site[h]) /\ Step(h, "token", "site") /\ UNCHANGED steady
     \/ ~TokenValid(site[h]) /\ Refused(h, "token")
  /\ UNCHANGED <<rows, token, fits, copy, up, threshold>>

(* Bootstrap looks the site up once more, Heartbeat does not.              *)
SiteLookup(h) ==
  /\ \/ /\ site[h] \in live /\ UNCHANGED steady
        /\ \/ Step(h, "site", "find") \/ Step(h, "site", "project")
           \/ Step(h, "find", "project")
     \/ site[h] \notin live /\ (Refused(h, "site") \/ Refused(h, "find"))
  /\ UNCHANGED <<rows, token, fits, copy, up, threshold>>

ProjectCheck(h) ==
  /\ \/ site[h] \in active /\ Step(h, "project", "touch") /\ UNCHANGED steady
     \/ site[h] \notin active /\ Refused(h, "project")
  /\ UNCHANGED <<rows, token, fits, copy, up, threshold>>

(* An UPDATE of live rows: a row deleted meanwhile is no error.            *)
UpdateAgentMeta(h) ==
  /\ \/ /\ Step(h, "touch", "raise") /\ UNCHANGED steady
        /\ seen' = IF site[h] \in live
                   THEN [seen EXCEPT ![site[h]] = 0] ELSE seen
     \/ Refused(h, "touch") /\ UNCHANGED seen
  /\ UNCHANGED <<live, active, status, token, fits, copy, up, threshold>>

(* The heartbeat is in force: the caller got it in time, and no save has   *)
(* undone its stamp.                                                       *)
Beaten(h) ==
  LET s == site[h] IN
  /\ waiting[s] = h /\ due[s] + MaxWork >= HeartbeatEvery
  /\ s \in live \cap active /\ TokenValid(s)
  /\ seen[s] # Null /\ seen[s] <= MaxWork

(* A failure of SetStatus is only logged; the call succeeds.               *)
SetStatus(h) ==
  LET s == site[h] IN
  /\ Accepted(h)
  /\ \/ /\ s \in live /\ status' = [status EXCEPT ![s] = "online"]
        /\ steady' = IF Beaten(h) THEN steady \cup {s} ELSE steady
     \/ UNCHANGED <<status, steady>>
  /\ UNCHANGED <<live, active, seen, token, fits, copy, up, threshold>>

-----------------------------------------------------------------------------
(* UpdateSite                                                              *)

ReadSite(s) ==
  /\ up /\ copy[s] = Null /\ s \in live
  /\ copy' = [copy EXCEPT ![s] = <<status[s], seen[s]>>]
  /\ UNCHANGED <<rows, token, agents, fits, calls, up, threshold, steady>>

(* gorm's Save: every column as it was read, and the row itself if it was  *)
(* deleted meanwhile.                                                      *)
SaveSite(s) ==
  /\ copy[s] # Null /\ copy' = [copy EXCEPT ![s] = Null]
  /\ live' = live \cup {s}
  /\ status' = [status EXCEPT ![s] = copy[s][1]]
  /\ seen' = [seen EXCEPT ![s] = copy[s][2]]
  /\ steady' = IF copy[s] = <<status[s], seen[s]>> THEN steady
               ELSE steady \ {s}
  /\ UNCHANGED <<active, token, agents, fits, calls, up, threshold>>

-----------------------------------------------------------------------------
(* The sweeper                                                             *)

(* Mutant: the limit is a heartbeat's, not several of them.                *)
SweepBeginsEager ==
  /\ up /\ threshold = Null /\ threshold' = HeartbeatEvery
  /\ UNCHANGED <<rows, token, agents, fits, handlers, up, steady>>

(* Tick, at any time: nothing here depends on the ticker's interval.       *)
SweepBegins ==
  /\ up /\ threshold = Null /\ threshold' = OfflineAfter
  /\ UNCHANGED <<rows, token, agents, fits, handlers, up, steady>>

(* Mutant: IS NULL for IS NOT NULL.                                        *)
StaleUnseen(s) == s \in live /\ status[s] = "online" /\ seen[s] = Null

Stale(s) ==
  s \in live /\ status[s] = "online" /\ seen[s] # Null /\ seen[s] > threshold

(* One UPDATE over all sites; its failure leaves them to the next tick.    *)
MarkStaleOffline ==
  /\ threshold # Null /\ threshold' = Null
  /\ \/ status' = [s \in Sites |-> IF Stale(s) THEN "offline" ELSE status[s]]
     \/ UNCHANGED status
  /\ UNCHANGED <<live, active, seen, token, agents, fits, handlers, up,
                 steady>>

-----------------------------------------------------------------------------
(* Operators, agents, the server's process and time                        *)

(* Issue replaces the token in one transaction: RotateSiteAgentToken gives *)
(* a permanent one, GetSiteInstallCommand one that lives an hour.          *)
Issue(s, kind) ==
  /\ up /\ s \in live /\ kind \in {"install", "permanent"}
  /\ token' = [token EXCEPT ![s] = kind]
  /\ fits' = fits \ {s} /\ steady' = steady \ {s}
  /\ UNCHANGED <<rows, agents, handlers, up, threshold>>

TokenExpires(s) ==
  /\ token[s] = "install" /\ token' = [token EXCEPT ![s] = "none"]
  /\ steady' = steady \ {s}
  /\ UNCHANGED <<rows, agents, fits, handlers, up, threshold>>

ProjectTurns(s) ==
  /\ up /\ active' = IF s \in active THEN active \ {s} ELSE active \cup {s}
  /\ steady' = steady \cap active'
  /\ UNCHANGED <<live, status, seen, token, agents, fits, handlers, up, threshold>>

DeleteSite(s) ==
  /\ up /\ s \in live /\ live' = live \ {s} /\ steady' = steady \ {s}
  /\ UNCHANGED <<active, status, seen, token, agents, fits, handlers, up, threshold>>

(* Installed with the newest token, or restarted with the one it has.      *)
AgentStarts(s) ==
  /\ agent[s] = "down" /\ token[s] # "none"
  /\ agent' = [agent EXCEPT ![s] = "booting"] /\ due' = [due EXCEPT ![s] = 0]
  /\ fits' \in {fits, fits \cup {s}}
  /\ UNCHANGED <<rows, token, waiting, handlers, up, threshold, steady>>

(* Its handler does not notice.                                            *)
AgentStops(s) ==
  /\ agent[s] # "down" /\ agent' = [agent EXCEPT ![s] = "down"]
  /\ waiting' = [waiting EXCEPT ![s] = None]
  /\ steady' = steady \ {s}
  /\ UNCHANGED <<rows, token, due, fits, handlers, up, threshold>>

ServerCrashes ==
  /\ up /\ up' = FALSE
  /\ pc' = [h \in Handlers |-> "idle"] /\ site' = [h \in Handlers |-> None]
  /\ copy' = [s \in Sites |-> Null]
  /\ waiting' = [s \in Sites |-> None]
  /\ threshold' = Null
  /\ steady' = {s \in steady : waiting[s] = None}
  /\ UNCHANGED <<rows, token, agent, fits, due>>

ServerStarts ==
  /\ ~up /\ up' = TRUE
  /\ UNCHANGED <<rows, token, agents, fits, handlers, threshold, steady>>

Older(age) == IF age = Null \/ age = MaxAge THEN age ELSE age + 1
Sooner(n) == IF n = 0 THEN 0 ELSE n - 1

(* A tick not taken at once, or calls that are still not answered.         *)
Late(s) ==
  \/ waiting[s] = None /\ due[s] = 0
  \/ waiting[s] # None /\ due[s] + MaxWork <= HeartbeatEvery

TimePasses ==
  /\ seen' = [s \in Sites |-> Older(seen[s])]
  /\ copy' = [s \in Sites |->
                IF copy[s] = Null THEN Null
                ELSE <<copy[s][1], Older(copy[s][2])>>]
  /\ due' = [s \in Sites |-> Sooner(due[s])]
  /\ threshold' = Older(threshold)
  /\ steady' = {s \in steady : ~Late(s)}
  /\ UNCHANGED <<live, active, status, token, agent, fits, waiting, calls, up>>

-----------------------------------------------------------------------------
HandlerStep(h) ==
  \/ TokenLookup(h) \/ SiteLookup(h) \/ ProjectCheck(h)
  \/ UpdateAgentMeta(h) \/ SetStatus(h)

SiteStep(s) ==
  \/ \E h \in Handlers : AgentCalls(h, s)
  \/ ReadSite(s) \/ SaveSite(s)
  \/ \E kind \in Tokens : Issue(s, kind)
  \/ TokenExpires(s) \/ ProjectTurns(s) \/ DeleteSite(s)
  \/ AgentStarts(s) \/ AgentStops(s)

Next ==
  \/ \E h \in Handlers : HandlerStep(h)
  \/ \E s \in Sites : SiteStep(s)
  \/ SweepBegins \/ MarkStaleOffline
  \/ ServerCrashes \/ ServerStarts \/ TimePasses

Spec == Init /\ [][Next]_vars

(* Time passes, the sweeper's goroutine runs, and not all its UPDATEs fail *)
(* or are held up.                                                         *)
Sweeps ==
  /\ threshold = OfflineAfter /\ MarkStaleOffline
  /\ \A s \in Sites : Stale(s) => status'[s] = "offline"

FairSpec ==
  /\ Spec /\ WF_vars(TimePasses) /\ WF_vars(SweepBegins)
  /\ WF_vars(MarkStaleOffline) /\ SF_vars(Sweeps)

-----------------------------------------------------------------------------
(* A site that beats in time is online: whatever the threshold, earlier    *)
(* calls, crashes in between and the two separate writes of a heartbeat    *)
(* do, while its token, project and row are untouched and no save of a row *)
(* read earlier undoes a heartbeat.                                        *)
BeatingIsOnline == \A s \in steady : status[s] = "online"

(* A site that has gone silent on a running server is offline for good in  *)
(* the end, except one whose first heartbeat's stamp a save has undone     *)
(* with the NULL it had read: no sweep ever looks at it.                   *)
Silent(s) ==
  up /\ s \in live /\ agent[s] = "down"
  /\ copy[s] = Null /\ \A h \in Handlers : site[h] # s

DeadGoesOffline ==
  \A s \in Sites :
    <>[]Silent(s) => <>[](status[s] # "online" \/ seen[s] = Null)

=============================================================================
