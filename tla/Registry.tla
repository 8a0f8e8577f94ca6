-------------------------------- MODULE Registry --------------------------------
(***************************************************************************)
(* The rows of projects, sites and services and the handlers that create,  *)
(* update and delete them: project_service.go, site_service.go and         *)
(* service_service.go over the queries of internal/dao.  Handlers run      *)
(* concurrently, none has a transaction, every query is a step of its own, *)
(* and what a handler has read stays in its locals.                        *)
(*                                                                         *)
(* Abstractions.  A live row is named by its id, as the unique indexes let *)
(* one live row have a name, and every parent has ids of its own for its   *)
(* children.  The columns kept are those that feed back: deleted_at, the   *)
(* port range and the relay port.  The caller's rights and the call of the *)
(* relay manager that ends a handler do not; RelayManager has the call.    *)
(***************************************************************************)
EXTENDS Integers

CONSTANTS
  Projects,     (* bound: ids of project rows                               *)
  Sites,        (* bound: ids of site rows                                  *)
  Services,     (* bound: ids of service rows                               *)
  ProjectOf,    (* sites.project_id                                         *)
  SiteOf,       (* services.site_id                                         *)
  Ranges,       (* the relay_port_range values asked for                    *)
  Handlers,     (* concurrent RPC handlers                                  *)
  MaxRequests,  (* bound: requests                                          *)
  None          (* no row                                                   *)

MaxPort == 65535        (* of uint16 *)
Port == 0..MaxPort

(* ParsePortRange takes no range without a service port.                   *)
ASSUME ConstantsAssumption ==
  /\ ProjectOf \in [Sites -> Projects] /\ SiteOf \in [Services -> Sites]
  /\ Ranges \subseteq [min : Port, max : Port]
  /\ \A r \in Ranges : r.min < r.max
  /\ MaxRequests \in Nat
  /\ None \notin Projects \cup Sites \cup Services

VARIABLES
  project,      (* state of a project row: see States                       *)
  range,        (* projects.relay_port_range                                *)
  site,         (* state of a site row                                      *)
  service,      (* state of a service row                                   *)
  port,         (* services.relay_port                                      *)
  task,         (* a handler's method, next query and locals: see Tasks     *)
  begun,        (* requests so far                                          *)
  moved,        (* history: projects whose range has changed                *)
  forced,       (* history: projects and sites deleted with force           *)
  disturbed,    (* history: handlers whose request a write has crossed,     *)
                (* empty once one of them has written                       *)
  crossed       (* history: a disturbed handler has written                 *)

rows == <<project, range, site, service, port>>
vars == <<project, range, site, service, port, task, begun, moved, forced, disturbed,
          crossed>>

(* Not inserted yet, live, soft-deleted.                                   *)
States == {"free", "live", "deleted"}

(* Updates of a project differ in whether their mask has relay_port_range, *)
(* deletes in their force flag.                                            *)
ProjectOps == {"createProject", "updateProject", "moveProject", "deleteProject",
               "forceProject"}
SiteOps == {"createSite", "updateSite", "deleteSite", "forceSite"}
ServiceOps == {"createService", "updateService", "deleteService"}
Ops == ProjectOps \cup SiteOps \cup ServiceOps

NoRange == [min |-> 0, max |-> 0]

(* The range is the one of the project row in hand, if it is of use.       *)
Tasks ==
  [op : Ops \cup {"none"},
   pc : {"idle", "overlap", "site", "service", "count", "allocate", "write"},
   project : Projects \cup {None}, site : Sites \cup {None},
   service : Services \cup {None}, range : Ranges \cup {NoRange}, port : Port]

Idle == [op |-> "none", pc |-> "idle", project |-> None, site |-> None,
         service |-> None, range |-> NoRange, port |-> 0]

RowTypes ==
  /\ project \in [Projects -> States] /\ site \in [Sites -> States]
  /\ service \in [Services -> States]
  /\ range \in [Projects -> Ranges \cup {NoRange}]
  /\ port \in [Services -> Port] /\ begun \in 0..MaxRequests

HistoryTypes ==
  /\ moved \subseteq Projects /\ forced \subseteq Projects \cup Sites
  /\ disturbed \subseteq Handlers /\ crossed \in BOOLEAN

(* What a request is about, and the rows found so far, exist and fit.      *)
OnSite == {"updateSite", "deleteSite", "forceSite"} \cup ServiceOps
OnService == {"updateService", "deleteService"}

Named(t) ==
  /\ t.op \notin {"createProject", "none"} =>
       t.project # None /\ project[t.project] # "free"
  /\ t.op \in OnSite => t.site # None /\ ProjectOf[t.site] = t.project
  /\ t.op \in OnService => t.service # None /\ SiteOf[t.service] = t.site

Found(t) ==
  /\ t.op \in OnSite /\ t.pc # "site" => site[t.site] # "free"
  /\ t.op \in OnService /\ t.pc = "write" => service[t.service] # "free"

TaskTypes ==
  /\ task \in [Handlers -> Tasks]
  /\ \A h \in Handlers : Named(task[h]) /\ Found(task[h])

TypeOK == RowTypes /\ TaskTypes /\ HistoryTypes

(* A registry before its first service, set up one request after another.  *)
Init ==
  /\ project \in [Projects -> {"free", "live"}]
  /\ range \in [Projects -> Ranges \cup {NoRange}]
  /\ \A p \in Projects : project[p] = "free" <=> range[p] = NoRange
  /\ \A p, q \in Projects : p # q /\ project[p] = "live" /\ project[q] = "live" =>
       range[p].max < range[q].min \/ range[q].max < range[p].min
  /\ site \in [Sites -> {"free", "live"}]
  /\ \A s \in Sites : site[s] = "live" => project[ProjectOf[s]] = "live"
  /\ service = [v \in Services |-> "free"] /\ port = [v \in Services |-> 0]
  /\ task = [h \in Handlers |-> Idle] /\ begun = 0
  /\ moved = {} /\ forced = {} /\ disturbed = {} /\ crossed = FALSE

-----------------------------------------------------------------------------
(* The queries that read                                                   *)

(* Mutant: ranges that share an end do not overlap.                        *)
OverlapsInside(r, exclude) ==
  \E p \in Projects \ {exclude} :
    project[p] = "live" /\ r.min < range[p].max /\ range[p].min < r.max

(* ProjectDAO.OverlapsAny                                                  *)
OverlapsAny(r, exclude) ==
  \E p \in Projects \ {exclude} :
    project[p] = "live" /\ r.min <= range[p].max /\ range[p].min <= r.max

(* A service of a deleted site does not count as a user of its port.       *)
Served(v) == service[v] = "live" /\ site[SiteOf[v]] = "live"
ProjectOfService(v) == ProjectOf[SiteOf[v]]
UsedPorts(p) == {port[v] : v \in {w \in Services : Served(w) /\ ProjectOfService(w) = p}}

Read(h, t) ==
  task' = [task EXCEPT ![h] = t] /\ UNCHANGED <<rows, begun, moved, forced, crossed>>

Begin(h, t) ==
  /\ task[h] = Idle /\ begun < MaxRequests
  /\ begun' = begun + 1 /\ disturbed' = disturbed
  /\ task' = [task EXCEPT ![h] = t]
  /\ UNCHANGED <<rows, moved, forced, crossed>>

Continue(h, pc) == task[h].pc = pc /\ UNCHANGED disturbed

(* CreateProject begins with its overlap check.                            *)
CheckNewRange(h) ==
  \E r \in Ranges :
    /\ ~OverlapsAny(r, None)
    /\ Begin(h, [Idle EXCEPT !.op = "createProject", !.pc = "write", !.range = r])

(* The others begin with FindBySlug, which loads the project's row; the    *)
(* range in it is used by some.                                            *)
UsesRange == {"updateProject", "createService"}

FirstStop(o) ==
  CASE o = "moveProject" -> "overlap"
    [] o = "deleteProject" -> "count"
    [] o \in {"updateProject", "forceProject", "createSite"} -> "write"
    [] OTHER -> "site"

FindProject(h) ==
  \E o \in Ops \ {"createProject"}, p \in Projects, s \in Sites \cup {None},
     v \in Services \cup {None} :
    /\ project[p] = "live"
    /\ IF o \in OnSite THEN s # None /\ ProjectOf[s] = p ELSE s = None
    /\ IF o \in OnService THEN v # None /\ SiteOf[v] = s ELSE v = None
    /\ Begin(h, [Idle EXCEPT !.op = o, !.pc = FirstStop(o), !.project = p,
                             !.site = s, !.service = v,
                             !.range = IF o \in UsesRange THEN range[p] ELSE @])

CheckMovedRange(h) ==
  \E r \in Ranges :
    /\ Continue(h, "overlap") /\ ~OverlapsAny(r, task[h].project)
    /\ Read(h, [task[h] EXCEPT !.pc = "write", !.range = r])

AfterSite(o) ==
  CASE o = "deleteSite" -> "count"
    [] o \in {"updateSite", "forceSite"} -> "write"
    [] o = "createService" -> "allocate"
    [] OTHER -> "service"

FindSite(h) ==
  /\ Continue(h, "site") /\ site[task[h].site] = "live"
  /\ Read(h, [task[h] EXCEPT !.pc = AfterSite(task[h].op)])

FindService(h) ==
  /\ Continue(h, "service") /\ service[task[h].service] = "live"
  /\ Read(h, [task[h] EXCEPT !.pc = "write"])

(* Mutant: the number of children is not looked at.                        *)
CountNothing(h) ==
  /\ Continue(h, "count")
  /\ Read(h, [task[h] EXCEPT !.pc = "write"])

(* CountSites and CountServices, without force: the row is childless.      *)
CountChildren(h) ==
  /\ Continue(h, "count")
  /\ IF task[h].op = "deleteProject"
     THEN \A s \in Sites : ProjectOf[s] = task[h].project => site[s] # "live"
     ELSE \A v \in Services : SiteOf[v] = task[h].site => service[v] # "live"
  /\ Read(h, [task[h] EXCEPT !.pc = "write"])

(* Mutant: the control port is given away.                                 *)
AllocateFromControl(h) ==
  \E q \in task[h].range.min..task[h].range.max \ UsedPorts(task[h].project) :
    /\ Continue(h, "allocate")
    /\ \A x \in task[h].range.min..task[h].range.max \ UsedPorts(task[h].project) : q <= x
    /\ Read(h, [task[h] EXCEPT !.pc = "write", !.port = q])

(* Mutant: the highest port in use is not skipped.                         *)
AllocateUpToUsed(h) ==
  \E q \in task[h].range.min + 1..task[h].range.max :
    /\ Continue(h, "allocate")
    /\ \A x \in UsedPorts(task[h].project) : x <= q
    /\ Read(h, [task[h] EXCEPT !.pc = "write", !.port = q])

(* ServiceDAO.AllocateRelayPort: the lowest free port but the control port. *)
AllocateRelayPort(h) ==
  LET t == task[h]
      free == (t.range.min + 1..t.range.max) \ UsedPorts(t.project)
  IN \E q \in free :
       /\ Continue(h, "allocate")
       /\ \A x \in free : q <= x
       /\ Read(h, [t EXCEPT !.pc = "write", !.port = q])

(* NotFound, FailedPrecondition, ResourceExhausted, AlreadyExists, an error *)
(* of the database: the handler returns and has written nothing.           *)
Refuse(h) ==
  task[h] # Idle /\ Read(h, Idle) /\ disturbed' = disturbed \ {h}

-----------------------------------------------------------------------------
(* The queries that write, each the last of its handler                    *)

(* A write crosses the open requests about the same project; requests that *)
(* decide on the rows of projects cross whatever their projects are.       *)
Crosses(u, h) ==
  /\ task[u] # Idle
  /\ \/ task[u].project = task[h].project
     \/ task[u].op \in ProjectOps /\ task[h].op \in ProjectOps

Write(h, ops) ==
  /\ task[h].pc = "write" /\ task[h].op \in ops
  /\ task' = [task EXCEPT ![h] = Idle] /\ begun' = begun
  /\ crossed' = (crossed \/ h \in disturbed)
  /\ disturbed' = IF crossed' THEN {}
                  ELSE (disturbed \cup {u \in Handlers : Crosses(u, h)}) \ {h}

InsertProject(h) ==
  \E p \in Projects :
    /\ Write(h, {"createProject"}) /\ project[p] = "free"
    /\ project' = [project EXCEPT ![p] = "live"]
    /\ range' = [range EXCEPT ![p] = task[h].range]
    /\ UNCHANGED <<site, service, port, moved, forced>>

(* Save writes the whole row in hand, and inserts it again when no live    *)
(* row has its id: a deleted row comes back.                               *)
SaveProject(h) ==
  LET p == task[h].project IN
    /\ Write(h, {"updateProject", "moveProject"})
    /\ project' = [project EXCEPT ![p] = "live"]
    /\ range' = [range EXCEPT ![p] = task[h].range]
    /\ moved' = IF task[h].range = range[p] THEN moved ELSE moved \cup {p}
    /\ UNCHANGED <<site, service, port, forced>>

(* A soft delete; sites stay as they are, with force too.                  *)
DeleteProject(h) ==
  LET p == task[h].project IN
    /\ Write(h, {"deleteProject", "forceProject"})
    /\ project' = [project EXCEPT ![p] = "deleted"]
    /\ forced' = IF task[h].op = "forceProject" THEN forced \cup {p} ELSE forced
    /\ UNCHANGED <<range, site, service, port, moved>>

InsertSite(h) ==
  \E s \in Sites :
    /\ Write(h, {"createSite"}) /\ site[s] = "free"
    /\ ProjectOf[s] = task[h].project
    /\ site' = [site EXCEPT ![s] = "live"]
    /\ UNCHANGED <<project, range, service, port, moved, forced>>

SaveSite(h) ==
  /\ Write(h, {"updateSite"})
  /\ site' = [site EXCEPT ![task[h].site] = "live"]
  /\ UNCHANGED <<project, range, service, port, moved, forced>>

DeleteSite(h) ==
  LET s == task[h].site IN
    /\ Write(h, {"deleteSite", "forceSite"})
    /\ site' = [site EXCEPT ![s] = "deleted"]
    /\ forced' = IF task[h].op = "forceSite" THEN forced \cup {s} ELSE forced
    /\ UNCHANGED <<project, range, service, port, moved>>

InsertService(h) ==
  \E v \in Services :
    /\ Write(h, {"createService"}) /\ service[v] = "free"
    /\ SiteOf[v] = task[h].site
    /\ service' = [service EXCEPT ![v] = "live"]
    /\ port' = [port EXCEPT ![v] = task[h].port]
    /\ UNCHANGED <<project, range, site, moved, forced>>

SaveService(h) ==
  /\ Write(h, {"updateService"})
  /\ service' = [service EXCEPT ![task[h].service] = "live"]
  /\ UNCHANGED <<project, range, site, port, moved, forced>>

DeleteService(h) ==
  /\ Write(h, {"deleteService"})
  /\ service' = [service EXCEPT ![task[h].service] = "deleted"]
  /\ UNCHANGED <<project, range, site, port, moved, forced>>

-----------------------------------------------------------------------------
Reads(h) ==
  \/ CheckNewRange(h) \/ FindProject(h) \/ CheckMovedRange(h) \/ FindSite(h)
  \/ FindService(h) \/ CountChildren(h) \/ AllocateRelayPort(h) \/ Refuse(h)

Writes(h) ==
  \/ InsertProject(h) \/ SaveProject(h) \/ DeleteProject(h)
  \/ InsertSite(h) \/ SaveSite(h) \/ DeleteSite(h)
  \/ InsertService(h) \/ SaveService(h) \/ DeleteService(h)

Next == \E h \in Handlers : Reads(h) \/ Writes(h)

Spec == Init /\ [][Next]_vars

-----------------------------------------------------------------------------
(* Whatever crosses, a service's relay port is one of its project's range  *)
(* and not the control port, until somebody changes the range: the update  *)
(* leaves the ports of existing services where they are.                   *)
PortsInRange ==
  \A v \in Services :
    LET p == ProjectOfService(v) IN
      service[v] # "free" /\ p \notin moved =>
        port[v] \in range[p].min + 1..range[p].max

(* As long as no handler has written what a crossing write outdated, two   *)
(* served services of a project have different relay ports, through range  *)
(* changes and forced deletes, and however other projects are changed.     *)
PortsUnique ==
  ~crossed =>
    \A v, w \in Services :
      /\ Served(v) /\ Served(w) /\ v # w
      /\ ProjectOfService(v) = ProjectOfService(w)
      => port[v] # port[w]

(* Under the same condition the ranges of live projects are disjoint.      *)
RangesDisjoint ==
  ~crossed =>
    \A p, q \in Projects :
      project[p] = "live" /\ project[q] = "live" /\ p # q =>
        range[p].max < range[q].min \/ range[q].max < range[p].min

(* Under the same condition only a delete with force leaves children       *)
(* behind: the count of an unforced one guards their parent.               *)
NoOrphans ==
  ~crossed =>
    /\ \A s \in Sites :
         site[s] = "live" => project[ProjectOf[s]] = "live" \/ ProjectOf[s] \in forced
    /\ \A v \in Services :
         service[v] = "live" => site[SiteOf[v]] = "live" \/ SiteOf[v] \in forced

(* Until then, whatever requests overlap, every change of the rows is what *)
(* one request alone would have done at that instant: what it looked up,   *)
(* counted, compared and allocated still stands when it writes.            *)
Serial == INSTANCE AtomicRegistry
SerialUntilCrossed == [][~crossed' => [Serial!Next]_(Serial!vars)]_vars
=============================================================================
