---------------------------- MODULE RegistryProofs ----------------------------
(***************************************************************************)
(* Proofs about Registry: for any rows, ranges, handlers and number of     *)
(* requests, ports are in range whatever crosses, and as long as no        *)
(* handler writes what another's write has outdated they are unique, the   *)
(* ranges are disjoint and the unforced deletes leave no orphans.          *)
(***************************************************************************)
EXTENDS Registry, TLAPS

(* A row's parent was inserted before it.                                  *)
Rooted ==
  /\ \A s \in Sites : site[s] # "free" => project[ProjectOf[s]] # "free"
  /\ \A v \in Services : service[v] # "free" => site[SiteOf[v]] # "free"

(* Which queries a method makes.                                           *)
OnPath(t) ==
  /\ t.pc = "overlap" => t.op = "moveProject"
  /\ t.pc = "site" => t.op \in OnSite
  /\ t.pc = "service" => t.op \in OnService
  /\ t.pc = "count" => t.op \in {"deleteProject", "deleteSite"}
  /\ t.pc = "allocate" => t.op = "createService"
  /\ t.op = "none" \/ t.pc = "idle" => t = Idle
  /\ t.op = "createProject" => t.project = None

(* A range in hand is the project's until that changes, and the port in    *)
(* hand is one of the range in hand.                                       *)
InHand(t) ==
  /\ t.op \in UsesRange /\ t.project \notin moved => t.range = range[t.project]
  /\ t.op = "createService" /\ t.pc = "write" => t.port \in t.range.min + 1..t.range.max
  /\ t.op \in {"createProject", "moveProject"} /\ t.pc = "write" => t.range \in Ranges

HandsTrue == \A h \in Handlers : OnPath(task[h]) /\ InHand(task[h])

(* What the queries of a request have found, while it is undisturbed.      *)
RangeFound(t) ==
  /\ t.op \in {"createProject", "moveProject"} /\ t.pc = "write" =>
       ~OverlapsAny(t.range, t.project)
  /\ t.op \in UsesRange => t.range = range[t.project]

LiveFound(t) ==
  /\ t.op \notin {"createProject", "none"} => project[t.project] = "live"
  /\ t.op \in OnSite /\ t.pc # "site" => site[t.site] = "live"
  /\ t.op \in OnService /\ t.pc = "write" => service[t.service] = "live"

NoneFound(t) ==
  /\ t.op = "deleteProject" /\ t.pc = "write" =>
       \A s \in Sites : ProjectOf[s] = t.project => site[s] # "live"
  /\ t.op = "deleteSite" /\ t.pc = "write" =>
       \A v \in Services : SiteOf[v] = t.site => service[v] # "live"
  /\ t.op = "createService" /\ t.pc = "write" =>
       /\ t.port \notin UsedPorts(t.project)
       /\ \A x \in (t.range.min + 1..t.range.max) \ UsedPorts(t.project) : t.port <= x

Current(t) == RangeFound(t) /\ LiveFound(t) /\ NoneFound(t)
UndisturbedCurrent ==
  ~crossed => \A h \in Handlers \ disturbed : Current(task[h])

Ports == PortsInRange /\ HandsTrue /\ Rooted
Sound == UndisturbedCurrent /\ PortsUnique /\ RangesDisjoint /\ NoOrphans
IInv == TypeOK /\ Ports /\ Sound

-----------------------------------------------------------------------------
(* Of the largest port the proofs only use that it is one.                 *)
LEMMA PortZero == MaxPort \in Nat /\ 0 \in Port
<1>1. MaxPort \in Nat
  BY DEF MaxPort
<1> QED BY <1>1 DEF Port

LEMMA IdleTask == Idle \in Tasks
BY PortZero DEF Idle, Tasks

(* The initial registries.                                                 *)
LEMMA InitIInv == Init => IInv
<1> SUFFICES ASSUME Init PROVE IInv
  OBVIOUS
<1> USE ConstantsAssumption DEF ConstantsAssumption, Init
<1>1. RowTypes /\ HistoryTypes
  <2>1. project \in [Projects -> States] /\ site \in [Sites -> States]
    BY DEF States
  <2>2. service \in [Services -> States] /\ port \in [Services -> Port]
    BY PortZero DEF States
  <2>3. begun \in 0..MaxRequests
    OBVIOUS
  <2> QED BY <2>1, <2>2, <2>3 DEF RowTypes, HistoryTypes
<1>2. TaskTypes
  BY IdleTask DEF TaskTypes, Idle, Named, Found, OnSite, OnService, ServiceOps
<1>3. Ports
  BY DEF Ports, PortsInRange, HandsTrue, OnPath, InHand, Idle, Rooted, UsesRange
<1>4. UndisturbedCurrent
  BY DEF UndisturbedCurrent, Current, RangeFound, LiveFound, NoneFound, Idle, OnSite,
         OnService, ServiceOps, UsesRange
<1>5. PortsUnique /\ RangesDisjoint /\ NoOrphans
  BY DEF PortsUnique, RangesDisjoint, NoOrphans, Served
<1> QED BY <1>1, <1>2, <1>3, <1>4, <1>5 DEF IInv, TypeOK, Sound

(* A reading step changes one task only.                                   *)
ReadsOnly(h, t) ==
  /\ task' = [task EXCEPT ![h] = t]
  /\ UNCHANGED <<rows, moved, forced, crossed>>
  /\ disturbed' \in {disturbed, disturbed \ {h}}
  /\ begun' \in 0..MaxRequests

(* It keeps the invariant if the new task is well formed, and current if   *)
(* the handler is undisturbed or has just begun.                           *)
LEMMA ReadKeeps ==
  ASSUME IInv, NEW h \in Handlers, NEW t \in Tasks, ReadsOnly(h, t),
         Named(t), Found(t), OnPath(t), InHand(t),
         ~crossed /\ h \notin disturbed' => Current(t)
  PROVE  IInv'
<1> USE DEF ReadsOnly, rows, IInv, TypeOK
<1>1. TaskTypes'
  BY DEF TaskTypes, Named, Found
<1>2. RowTypes' /\ HistoryTypes'
  BY DEF RowTypes, HistoryTypes
<1>3. Ports'
  BY DEF Ports, PortsInRange, HandsTrue, OnPath, InHand, Rooted, TaskTypes, ProjectOfService
<1>4. UndisturbedCurrent'
  <2>1. ASSUME NEW x, Current(x) PROVE Current(x)'
    BY <2>1 DEF Current, RangeFound, LiveFound, NoneFound, OverlapsAny, UsedPorts, Served,
                ProjectOfService
  <2>2. ASSUME ~crossed, NEW u \in Handlers \ disturbed' PROVE Current(task'[u])
    BY <2>2 DEF Sound, UndisturbedCurrent, TaskTypes
  <2> QED BY <2>1, <2>2 DEF UndisturbedCurrent
<1>5. (PortsUnique /\ RangesDisjoint /\ NoOrphans)'
  BY DEF Sound, PortsUnique, RangesDisjoint, NoOrphans, Served, ProjectOfService
<1> QED BY <1>1, <1>2, <1>3, <1>4, <1>5 DEF Sound

(* Every reading step is one of these, with a task that fits.              *)
Fits(t) == Named(t) /\ Found(t) /\ OnPath(t) /\ InHand(t)

LEMMA ReadStep == ASSUME IInv, NEW h \in Handlers, Reads(h) PROVE IInv'
<1> USE ConstantsAssumption, IdleTask, PortZero
    DEF ConstantsAssumption, Fits, Named, Found, OnPath, InHand, OnSite, OnService, ServiceOps,
        UsesRange
<1>1. ASSUME NEW t \in Tasks, ReadsOnly(h, t), Fits(t),
             ~crossed /\ h \notin disturbed' => Current(t)
      PROVE  IInv'
  BY <1>1, ReadKeeps
<1>2. task[h] \in Tasks /\ Fits(task[h]) /\ (~crossed /\ h \notin disturbed => Current(task[h]))
  BY DEF IInv, TypeOK, TaskTypes, Ports, HandsTrue, Sound, UndisturbedCurrent
<1> USE DEF Current, RangeFound, LiveFound, NoneFound
<1>3. CASE CheckNewRange(h)
  <2>1. PICK r \in Ranges :
          /\ ~OverlapsAny(r, None)
          /\ Begin(h, [Idle EXCEPT !.op = "createProject", !.pc = "write", !.range = r])
    BY <1>3 DEF CheckNewRange
  <2> DEFINE t == [Idle EXCEPT !.op = "createProject", !.pc = "write", !.range = r]
  <2>2. t \in Tasks
    BY DEF Idle, Tasks, Ops, ProjectOps
  <2>3. ReadsOnly(h, t)
    BY <2>1 DEF Begin, ReadsOnly, IInv, TypeOK, RowTypes
  <2>4. Fits(t) /\ Current(t)
    BY <2>1 DEF Idle
  <2> QED BY <1>1, <2>2, <2>3, <2>4
<1>4. CASE FindProject(h)
  <2>1. PICK o \in Ops \ {"createProject"}, p \in Projects, s \in Sites \cup {None},
             v \in Services \cup {None} :
          /\ project[p] = "live"
          /\ IF o \in OnSite THEN s # None /\ ProjectOf[s] = p ELSE s = None
          /\ IF o \in OnService THEN v # None /\ SiteOf[v] = s ELSE v = None
          /\ Begin(h, [Idle EXCEPT !.op = o, !.pc = FirstStop(o), !.project = p,
                             !.site = s, !.service = v,
                             !.range = IF o \in UsesRange THEN range[p] ELSE @])
    BY <1>4 DEF FindProject
  <2> DEFINE t == [Idle EXCEPT !.op = o, !.pc = FirstStop(o), !.project = p,
                             !.site = s, !.service = v,
                             !.range = IF o \in UsesRange THEN range[p] ELSE @]
  <2>2. FirstStop(o) \in {"overlap", "count", "write", "site"}
    BY DEF FirstStop
  <2>3. t \in Tasks
    BY <2>2 DEF Idle, Tasks, IInv, TypeOK, RowTypes
  <2>4. ReadsOnly(h, t)
    BY <2>1 DEF Begin, ReadsOnly, IInv, TypeOK, RowTypes
  <2>5. Fits(t) /\ Current(t)
    BY <2>1 DEF Idle, FirstStop, Ops, ProjectOps, SiteOps
  <2> QED BY <1>1, <2>3, <2>4, <2>5
<1>5. CASE CheckMovedRange(h)
  <2>1. PICK r \in Ranges :
          /\ Continue(h, "overlap") /\ ~OverlapsAny(r, task[h].project)
          /\ Read(h, [task[h] EXCEPT !.pc = "write", !.range = r])
    BY <1>5 DEF CheckMovedRange
  <2> DEFINE t == [task[h] EXCEPT !.pc = "write", !.range = r]
  <2>2. t \in Tasks
    BY <1>2 DEF Tasks
  <2>3. ReadsOnly(h, t)
    BY <2>1 DEF Read, Continue, ReadsOnly, IInv, TypeOK, RowTypes
  <2>4. Fits(t) /\ (~crossed /\ h \notin disturbed => Current(t))
    BY <1>2, <2>1 DEF Tasks, Continue, Idle
  <2> QED BY <1>1, <2>1, <2>2, <2>3, <2>4 DEF Continue
<1>6. ASSUME NEW to \in {"write", "count", "allocate", "service"},
             Read(h, [task[h] EXCEPT !.pc = to]), disturbed' = disturbed,
             Fits([task[h] EXCEPT !.pc = to]),
             ~crossed /\ h \notin disturbed => Current([task[h] EXCEPT !.pc = to])
      PROVE  IInv'
  <2> DEFINE t == [task[h] EXCEPT !.pc = to]
  <2>1. t \in Tasks
    BY <1>2 DEF Tasks
  <2>2. ReadsOnly(h, t)
    BY <1>6 DEF Read, ReadsOnly, IInv, TypeOK, RowTypes
  <2> QED BY <1>1, <1>6, <2>1, <2>2
<1>7. CASE FindSite(h)
  <2> DEFINE to == AfterSite(task[h].op)
             t == [task[h] EXCEPT !.pc = to]
  <2>1. to \in {"write", "count", "allocate", "service"}
    BY DEF AfterSite
  <2>2. /\ Read(h, t) /\ disturbed' = disturbed
        /\ task[h].pc = "site" /\ site[task[h].site] = "live"
    BY <1>7 DEF FindSite, Continue
  <2>3. Fits(t) /\ (~crossed /\ h \notin disturbed => Current(t))
    BY <1>2, <2>2 DEF Tasks, AfterSite, Idle
  <2> QED BY <1>6, <2>1, <2>2, <2>3
<1>8. CASE FindService(h)
  <2> DEFINE t == [task[h] EXCEPT !.pc = "write"]
  <2>1. /\ Read(h, t) /\ disturbed' = disturbed
        /\ task[h].pc = "service" /\ service[task[h].service] = "live"
    BY <1>8 DEF FindService, Continue
  <2>2. task[h].op \in {"updateService", "deleteService"}
    BY <1>2, <2>1
  <2>3. Fits(t) /\ (~crossed /\ h \notin disturbed => Current(t))
    BY <1>2, <2>1, <2>2 DEF Tasks, Idle
  <2> QED BY <1>6, <2>1, <2>3
<1>9. CASE CountChildren(h)
  <2> DEFINE t == [task[h] EXCEPT !.pc = "write"]
  <2>1. /\ Read(h, t) /\ disturbed' = disturbed /\ task[h].pc = "count"
        /\ task[h].op = "deleteProject" =>
             \A s \in Sites : ProjectOf[s] = task[h].project => site[s] # "live"
        /\ task[h].op # "deleteProject" =>
             \A v \in Services : SiteOf[v] = task[h].site => service[v] # "live"
    BY <1>9 DEF CountChildren, Continue
  <2>2. Fits(t) /\ (~crossed /\ h \notin disturbed => Current(t))
    BY <1>2, <2>1 DEF Tasks, Idle
  <2> QED BY <1>6, <2>1, <2>2
<1>10. CASE AllocateRelayPort(h)
  <2>1. PICK q \in (task[h].range.min + 1..task[h].range.max) \ UsedPorts(task[h].project) :
          /\ Continue(h, "allocate")
          /\ \A x \in (task[h].range.min + 1..task[h].range.max) \ UsedPorts(task[h].project) :
               q <= x
          /\ Read(h, [task[h] EXCEPT !.pc = "write", !.port = q])
    BY <1>10 DEF AllocateRelayPort
  <2> DEFINE t == [task[h] EXCEPT !.pc = "write", !.port = q]
  <2>2. q \in Port
    <3>1. task[h].range \in [min : Port, max : Port]
      BY <1>2 DEF Tasks, NoRange
    <3>2. task[h].range.min \in 0..MaxPort /\ task[h].range.max \in 0..MaxPort
      BY <3>1 DEF Port
    <3> QED BY <2>1, <3>2 DEF Port
  <2>3. t \in Tasks
    BY <1>2, <2>2 DEF Tasks
  <2>4. ReadsOnly(h, t) /\ disturbed' = disturbed /\ task[h].op = "createService"
    BY <1>2, <2>1 DEF Read, Continue, ReadsOnly, IInv, TypeOK, RowTypes
  <2>5. Fits(t) /\ (~crossed /\ h \notin disturbed => Current(t))
    BY <1>2, <2>1, <2>4 DEF Tasks, Idle, Continue
  <2> QED BY <1>1, <2>3, <2>4, <2>5
<1>11. CASE Refuse(h)
  <2>1. ReadsOnly(h, Idle)
    BY <1>11 DEF Refuse, Read, ReadsOnly, IInv, TypeOK, RowTypes
  <2>2. Fits(Idle) /\ Current(Idle)
    BY DEF Idle
  <2> QED BY <1>1, <2>1, <2>2
<1> QED
  BY <1>3, <1>4, <1>5, <1>7, <1>8, <1>9, <1>10, <1>11 DEF Reads

-----------------------------------------------------------------------------
(* A writing step ends a request; if it was undisturbed, so what it has    *)
(* read is still so, and what the open requests that it does not cross     *)
(* have read is about another project.                                     *)
Apart(t, w) ==
  /\ t.project # w.project
  /\ t.op \in ProjectOps => w.op \notin ProjectOps

LEMMA WriteEnds ==
  ASSUME IInv, NEW h \in Handlers, NEW ops, Write(h, ops)
  PROVE  /\ task[h] \in Tasks /\ task[h].op \in ops /\ task[h].pc = "write"
         /\ Named(task[h]) /\ Found(task[h]) /\ OnPath(task[h]) /\ InHand(task[h])
         /\ task' \in [Handlers -> Tasks] /\ begun' = begun
         /\ \A u \in Handlers : task'[u] = Idle \/ task'[u] = task[u]
         /\ disturbed' \subseteq Handlers /\ crossed' \in BOOLEAN
         /\ ~crossed' => ~crossed /\ Current(task[h])
         /\ ~crossed' => \A u \in Handlers \ disturbed' :
              \/ task'[u] = Idle
              \/ task'[u] = task[u] /\ Current(task[u]) /\ Apart(task[u], task[h])
<1>1. /\ task[h] \in Tasks /\ task[h].op \in ops /\ task[h].pc = "write"
      /\ Named(task[h]) /\ Found(task[h]) /\ OnPath(task[h]) /\ InHand(task[h])
      /\ begun' = begun
  BY DEF Write, IInv, TypeOK, TaskTypes, Ports, HandsTrue
<1>2. /\ task' \in [Handlers -> Tasks]
      /\ \A u \in Handlers : IF u = h THEN task'[u] = Idle ELSE task'[u] = task[u]
  BY IdleTask DEF Write, IInv, TypeOK, TaskTypes
<1>3. disturbed' \subseteq Handlers /\ crossed' \in BOOLEAN
  BY DEF Write, IInv, TypeOK, HistoryTypes
<1>4. ~crossed' => ~crossed /\ h \notin disturbed /\ Current(task[h])
  BY DEF Write, IInv, Sound, UndisturbedCurrent
<1>5. ASSUME ~crossed', NEW u \in Handlers \ disturbed', task'[u] # Idle
      PROVE  task'[u] = task[u] /\ Current(task[u]) /\ Apart(task[u], task[h])
  <2>1. u # h /\ task'[u] = task[u]
    BY <1>2, <1>5
  <2>2. u \notin disturbed /\ ~Crosses(u, h)
    BY <1>5, <2>1 DEF Write
  <2> QED
    BY <1>4, <1>5, <2>1, <2>2 DEF IInv, Sound, UndisturbedCurrent, Crosses, Apart
<1>6. \A u \in Handlers : task'[u] = Idle \/ task'[u] = task[u]
  BY <1>2
<1>7. ~crossed' => \A u \in Handlers \ disturbed' :
         \/ task'[u] = Idle
         \/ task'[u] = task[u] /\ Current(task[u]) /\ Apart(task[u], task[h])
  BY <1>5
<1> QED BY <1>1, <1>2, <1>3, <1>4, <1>6, <1>7

(* A write changes the rows of its project, or a row that is still free,   *)
(* and the rows of projects only if it is of a method on projects.         *)
OwnRows(w) ==
  /\ w.op \notin ProjectOps => UNCHANGED <<project, range>>
  /\ \A p \in Projects :
       p # w.project /\ project[p] # "free" =>
         project'[p] = project[p] /\ range'[p] = range[p]
  /\ \A s \in Sites : ProjectOf[s] = w.project \/ site'[s] = site[s]
  /\ \A v \in Services :
       ProjectOfService(v) # w.project => service'[v] = service[v] /\ port'[v] = port[v]

LEMMA Bystander ==
  ASSUME NEW t \in Tasks, NEW w, Named(t), Current(t), Apart(t, w), OwnRows(w)
  PROVE  Current(t)'
<1> USE ConstantsAssumption DEF ConstantsAssumption, Apart, OwnRows, Named, Current
<1>1. t.site \in Sites \cup {None} /\ t.service \in Services \cup {None}
      /\ t.project \in Projects \cup {None}
  BY DEF Tasks
<1>2. RangeFound(t)'
  <2>1. ASSUME t.op \in {"createProject", "moveProject"} PROVE RangeFound(t)'
    BY <2>1 DEF RangeFound, OverlapsAny, ProjectOps, UsesRange
  <2>2. ASSUME t.op \in UsesRange PROVE range'[t.project] = range[t.project]
    BY <1>1, <2>2 DEF LiveFound, UsesRange
  <2>3. t.op \in UsesRange => t.op \notin {"createProject", "moveProject"}
    BY DEF UsesRange
  <2> QED BY <2>1, <2>2, <2>3 DEF RangeFound
<1>3. LiveFound(t)'
  BY <1>1 DEF LiveFound, OnSite, OnService, ServiceOps, ProjectOfService
<1>4. NoneFound(t)'
  <2>1. ASSUME t.op = "deleteProject" PROVE NoneFound(t)'
    BY <1>1, <2>1 DEF NoneFound
  <2>2. ASSUME t.op = "deleteSite" PROVE NoneFound(t)'
    BY <1>1, <2>2 DEF NoneFound, OnSite, ProjectOfService
  <2>3. ASSUME t.op = "createService" PROVE NoneFound(t)'
    BY <1>1, <2>3 DEF NoneFound, UsedPorts, Served, ProjectOfService
  <2> QED BY <2>1, <2>2, <2>3 DEF NoneFound
<1> QED BY <1>2, <1>3, <1>4

(* What is left to show of a writing step.                                 *)
Grows ==
  /\ \A p \in Projects : project[p] # "free" => project'[p] # "free"
  /\ \A s \in Sites : site[s] # "free" => site'[s] # "free"
  /\ \A v \in Services : service[v] # "free" => service'[v] # "free"
  /\ \A p \in Projects : project[p] # "free" /\ p \notin moved' =>
       p \notin moved /\ range'[p] = range[p]

LEMMA WriteKeeps ==
  ASSUME IInv, NEW h \in Handlers, NEW ops, Write(h, ops), OwnRows(task[h]), Grows,
         RowTypes', moved' \subseteq Projects, forced' \subseteq Projects \cup Sites,
         Rooted', PortsInRange', PortsUnique', RangesDisjoint', NoOrphans'
  PROVE  IInv'
<1>1. /\ task' \in [Handlers -> Tasks]
      /\ \A u \in Handlers : task'[u] = Idle \/ task'[u] = task[u]
      /\ disturbed' \subseteq Handlers /\ crossed' \in BOOLEAN
  BY WriteEnds
<1>2. ASSUME NEW x \in Tasks, Named(x), Found(x), OnPath(x), InHand(x)
      PROVE  (Named(x) /\ Found(x) /\ OnPath(x) /\ InHand(x))'
  BY <1>2, ConstantsAssumption
     DEF ConstantsAssumption, Tasks, Named, Found, OnPath, InHand, OnSite, OnService, ServiceOps,
         UsesRange, Grows
<1>3. (Named(Idle) /\ Found(Idle) /\ OnPath(Idle) /\ InHand(Idle) /\ Current(Idle))'
  BY DEF Idle, Named, Found, OnPath, InHand, Current, RangeFound, LiveFound, NoneFound, OnSite,
         OnService, ServiceOps, UsesRange
<1>4. TaskTypes' /\ HandsTrue'
  BY <1>1, <1>2, <1>3 DEF IInv, TypeOK, TaskTypes, Ports, HandsTrue
<1>5. UndisturbedCurrent'
  <2>1. ASSUME NEW t \in Tasks, Named(t), Current(t), Apart(t, task[h]) PROVE Current(t)'
    BY <2>1, Bystander
  <2>2. \A u \in Handlers : task[u] \in Tasks /\ Named(task[u])
    BY DEF IInv, TypeOK, TaskTypes
  <2> QED BY <1>3, <2>1, <2>2, WriteEnds DEF UndisturbedCurrent
<1> QED BY <1>1, <1>4, <1>5 DEF IInv, TypeOK, HistoryTypes, Ports, Sound

-----------------------------------------------------------------------------
(* The writing steps, one by one.                                          *)
LEMMA RangeEnds ==
  ASSUME NEW r \in Ranges \cup {NoRange}
  PROVE  r.min \in Int /\ r.max \in Int
<1>1. r \in [min : Port, max : Port]
  BY ConstantsAssumption, PortZero DEF ConstantsAssumption, NoRange
<1>2. \A x \in Port : x \in Int
  BY DEF Port
<1> QED BY <1>1, <1>2

LEMMA InsertProjectKeeps ==
  ASSUME IInv, NEW h \in Handlers, InsertProject(h) PROVE IInv'
<1> DEFINE w == task[h]
<1>1. PICK p \in Projects :
        /\ Write(h, {"createProject"}) /\ project[p] = "free"
        /\ project' = [project EXCEPT ![p] = "live"]
        /\ range' = [range EXCEPT ![p] = w.range]
        /\ UNCHANGED <<site, service, port, moved, forced>>
  BY DEF InsertProject
<1>2. /\ w \in Tasks /\ w.op = "createProject" /\ w.pc = "write" /\ w.project = None
      /\ begun' = begun
      /\ ~crossed' => ~crossed /\ ~OverlapsAny(w.range, None)
  BY <1>1, WriteEnds DEF OnPath, Current, RangeFound
<1> USE <1>1, <1>2, ConstantsAssumption DEF ConstantsAssumption, IInv, TypeOK, RowTypes
<1>3. w.range \in Ranges \cup {NoRange}
  BY DEF Tasks
<1>4. RowTypes'
  BY <1>3 DEF States
<1>5. OwnRows(w) /\ Grows
  BY DEF OwnRows, Grows, ProjectOps
<1>6. Rooted' /\ PortsInRange'
  BY DEF Ports, Rooted, PortsInRange, ProjectOfService
<1>7. PortsUnique' /\ NoOrphans'
  BY DEF Sound, PortsUnique, NoOrphans, Served, ProjectOfService
<1>8. RangesDisjoint'
  <2>1. \A q \in Projects : range[q].min \in Int /\ range[q].max \in Int
    BY RangeEnds
  <2>2. w.range.min \in Int /\ w.range.max \in Int
    BY <1>3, RangeEnds
  <2> QED BY <2>1, <2>2 DEF Sound, RangesDisjoint, OverlapsAny
<1> QED
  BY <1>4, <1>5, <1>6, <1>7, <1>8, WriteKeeps DEF HistoryTypes

LEMMA SaveProjectKeeps ==
  ASSUME IInv, NEW h \in Handlers, SaveProject(h) PROVE IInv'
<1> DEFINE w == task[h]
           p == w.project
<1>1. /\ Write(h, {"updateProject", "moveProject"})
      /\ project' = [project EXCEPT ![p] = "live"]
      /\ range' = [range EXCEPT ![p] = w.range]
      /\ moved' = IF w.range = range[p] THEN moved ELSE moved \cup {p}
      /\ UNCHANGED <<site, service, port, forced>>
  BY DEF SaveProject
<1>2. /\ w \in Tasks /\ w.op \in {"updateProject", "moveProject"} /\ w.pc = "write"
      /\ Named(w) /\ begun' = begun
      /\ ~crossed' => ~crossed /\ RangeFound(w) /\ LiveFound(w)
  BY <1>1, WriteEnds DEF Current
<1>3. p \in Projects /\ project[p] # "free" /\ w.range \in Ranges \cup {NoRange}
  BY <1>2 DEF Tasks, Named
<1> USE <1>1, <1>2, <1>3, ConstantsAssumption DEF ConstantsAssumption, IInv, TypeOK, RowTypes
<1>4. RowTypes' /\ moved' \subseteq Projects
  BY DEF States, HistoryTypes
<1>5. OwnRows(w) /\ Grows
  BY DEF OwnRows, Grows, ProjectOps
<1>6. Rooted' /\ PortsInRange'
  BY DEF Ports, Rooted, PortsInRange, ProjectOfService
<1>7. PortsUnique' /\ NoOrphans'
  BY DEF Sound, PortsUnique, NoOrphans, Served, ProjectOfService
<1>8. RangesDisjoint'
  <2>1. ~crossed' => project[p] = "live"
    BY DEF LiveFound
  <2>2. \A q \in Projects : range[q].min \in Int /\ range[q].max \in Int
    BY RangeEnds
  <2>3. w.range.min \in Int /\ w.range.max \in Int
    BY RangeEnds
  <2>4. CASE w.op = "updateProject"
    BY <2>1, <2>4 DEF Sound, RangesDisjoint, RangeFound, UsesRange
  <2>5. CASE w.op = "moveProject"
    BY <2>1, <2>2, <2>3, <2>5 DEF Sound, RangesDisjoint, RangeFound, OverlapsAny
  <2> QED BY <2>4, <2>5
<1> QED
  BY <1>4, <1>5, <1>6, <1>7, <1>8, WriteKeeps DEF HistoryTypes

LEMMA DeleteProjectKeeps ==
  ASSUME IInv, NEW h \in Handlers, DeleteProject(h) PROVE IInv'
<1> DEFINE w == task[h]
           p == w.project
<1>1. /\ Write(h, {"deleteProject", "forceProject"})
      /\ project' = [project EXCEPT ![p] = "deleted"]
      /\ forced' = IF w.op = "forceProject" THEN forced \cup {p} ELSE forced
      /\ UNCHANGED <<range, site, service, port, moved>>
  BY DEF DeleteProject
<1>2. /\ w \in Tasks /\ w.op \in {"deleteProject", "forceProject"} /\ w.pc = "write"
      /\ Named(w) /\ begun' = begun
      /\ ~crossed' => ~crossed /\ NoneFound(w)
  BY <1>1, WriteEnds DEF Current
<1>3. p \in Projects /\ project[p] # "free"
  BY <1>2 DEF Tasks, Named
<1> USE <1>1, <1>2, <1>3, ConstantsAssumption DEF ConstantsAssumption, IInv, TypeOK, RowTypes
<1>4. RowTypes' /\ forced' \subseteq Projects \cup Sites /\ moved' \subseteq Projects
  BY DEF States, HistoryTypes
<1>5. OwnRows(w) /\ Grows
  BY DEF OwnRows, Grows, ProjectOps
<1>6. Rooted' /\ PortsInRange'
  BY DEF Ports, Rooted, PortsInRange, ProjectOfService
<1>7. PortsUnique' /\ RangesDisjoint'
  BY DEF Sound, PortsUnique, RangesDisjoint, Served, ProjectOfService
<1>8. NoOrphans'
  BY DEF Sound, NoOrphans, NoneFound
<1> QED
  BY <1>4, <1>5, <1>6, <1>7, <1>8, WriteKeeps

LEMMA InsertSiteKeeps ==
  ASSUME IInv, NEW h \in Handlers, InsertSite(h) PROVE IInv'
<1> DEFINE w == task[h]
<1>1. PICK s \in Sites :
        /\ Write(h, {"createSite"}) /\ site[s] = "free" /\ ProjectOf[s] = w.project
        /\ site' = [site EXCEPT ![s] = "live"]
        /\ UNCHANGED <<project, range, service, port, moved, forced>>
  BY DEF InsertSite
<1>2. /\ w \in Tasks /\ w.op = "createSite" /\ Named(w) /\ begun' = begun
      /\ ~crossed' => ~crossed /\ LiveFound(w)
  BY <1>1, WriteEnds DEF Current
<1> USE <1>1, <1>2, ConstantsAssumption DEF ConstantsAssumption, IInv, TypeOK, RowTypes
<1>3. RowTypes'
  BY DEF States
<1>4. OwnRows(w) /\ Grows
  BY DEF OwnRows, Grows, ProjectOps
<1>5. Rooted' /\ PortsInRange'
  BY DEF Ports, Rooted, PortsInRange, ProjectOfService, Named
<1>6. PortsUnique' /\ RangesDisjoint' /\ NoOrphans'
  BY DEF Sound, Ports, Rooted, PortsUnique, RangesDisjoint, NoOrphans, LiveFound, Served,
         ProjectOfService
<1> QED
  BY <1>3, <1>4, <1>5, <1>6, WriteKeeps DEF HistoryTypes

LEMMA SaveSiteKeeps ==
  ASSUME IInv, NEW h \in Handlers, SaveSite(h) PROVE IInv'
<1> DEFINE w == task[h]
<1>1. /\ Write(h, {"updateSite"}) /\ site' = [site EXCEPT ![w.site] = "live"]
      /\ UNCHANGED <<project, range, service, port, moved, forced>>
  BY DEF SaveSite
<1>2. /\ w \in Tasks /\ w.op = "updateSite" /\ w.pc = "write" /\ Named(w) /\ Found(w)
      /\ begun' = begun /\ (~crossed' => ~crossed /\ LiveFound(w))
  BY <1>1, WriteEnds DEF Current
<1>3. w.site \in Sites /\ ProjectOf[w.site] = w.project /\ site[w.site] # "free"
  BY <1>2 DEF Tasks, Named, Found, OnSite
<1> USE <1>1, <1>2, <1>3, ConstantsAssumption DEF ConstantsAssumption, IInv, TypeOK, RowTypes
<1>4. RowTypes'
  BY DEF States
<1>5. OwnRows(w) /\ Grows
  BY DEF OwnRows, Grows, ProjectOps
<1>6. Rooted' /\ PortsInRange'
  BY DEF Ports, Rooted, PortsInRange, ProjectOfService
<1>7. ~crossed' => UNCHANGED site
  BY DEF LiveFound, OnSite
<1>8. PortsUnique' /\ RangesDisjoint' /\ NoOrphans'
  BY <1>7 DEF Sound, PortsUnique, RangesDisjoint, NoOrphans, Served, ProjectOfService
<1> QED
  BY <1>4, <1>5, <1>6, <1>8, WriteKeeps DEF HistoryTypes

LEMMA DeleteSiteKeeps ==
  ASSUME IInv, NEW h \in Handlers, DeleteSite(h) PROVE IInv'
<1> DEFINE w == task[h]
<1>1. /\ Write(h, {"deleteSite", "forceSite"}) /\ site' = [site EXCEPT ![w.site] = "deleted"]
      /\ forced' = IF w.op = "forceSite" THEN forced \cup {w.site} ELSE forced
      /\ UNCHANGED <<project, range, service, port, moved>>
  BY DEF DeleteSite
<1>2. /\ w \in Tasks /\ w.op \in {"deleteSite", "forceSite"} /\ w.pc = "write"
      /\ Named(w) /\ Found(w) /\ begun' = begun
      /\ ~crossed' => ~crossed /\ NoneFound(w)
  BY <1>1, WriteEnds DEF Current
<1>3. w.site \in Sites /\ ProjectOf[w.site] = w.project /\ site[w.site] # "free"
  BY <1>2 DEF Tasks, Named, Found, OnSite
<1> USE <1>1, <1>2, <1>3, ConstantsAssumption DEF ConstantsAssumption, IInv, TypeOK, RowTypes
<1>4. RowTypes' /\ forced' \subseteq Projects \cup Sites
  BY DEF States, HistoryTypes
<1>5. OwnRows(w) /\ Grows
  BY DEF OwnRows, Grows, ProjectOps
<1>6. Rooted' /\ PortsInRange'
  BY DEF Ports, Rooted, PortsInRange, ProjectOfService
<1>7. PortsUnique' /\ RangesDisjoint'
  BY DEF Sound, PortsUnique, RangesDisjoint, Served, ProjectOfService
<1>8. NoOrphans'
  BY DEF Sound, NoOrphans, NoneFound
<1> QED
  BY <1>4, <1>5, <1>6, <1>7, <1>8, WriteKeeps DEF HistoryTypes

LEMMA InsertServiceKeeps ==
  ASSUME IInv, NEW h \in Handlers, InsertService(h) PROVE IInv'
<1> DEFINE w == task[h]
<1>1. PICK v \in Services :
        /\ Write(h, {"createService"}) /\ service[v] = "free" /\ SiteOf[v] = w.site
        /\ service' = [service EXCEPT ![v] = "live"]
        /\ port' = [port EXCEPT ![v] = w.port]
        /\ UNCHANGED <<project, range, site, moved, forced>>
  BY DEF InsertService
<1>2. /\ w \in Tasks /\ w.op = "createService" /\ w.pc = "write" /\ begun' = begun
      /\ Named(w) /\ Found(w) /\ InHand(w)
      /\ ~crossed' => ~crossed /\ LiveFound(w) /\ w.port \notin UsedPorts(w.project)
  BY <1>1, WriteEnds DEF Current, NoneFound
<1>3. /\ ProjectOf[w.site] = w.project /\ site[w.site] # "free"
      /\ w.port \in w.range.min + 1..w.range.max
      /\ w.project \notin moved => w.range = range[w.project]
  BY <1>2 DEF Named, Found, InHand, OnSite, ServiceOps, UsesRange
<1> USE <1>1, <1>2, <1>3, ConstantsAssumption DEF ConstantsAssumption, IInv, TypeOK, RowTypes
<1>4. RowTypes'
  BY DEF States, Tasks
<1>5. OwnRows(w) /\ Grows
  BY DEF OwnRows, Grows, ProjectOps, ProjectOfService
<1>6. Rooted' /\ PortsInRange'
  BY DEF Ports, Rooted, PortsInRange, ProjectOfService
<1>7. PortsUnique'
  BY DEF Sound, PortsUnique, UsedPorts, Served, ProjectOfService
<1>8. RangesDisjoint' /\ NoOrphans'
  BY DEF Sound, RangesDisjoint, NoOrphans, LiveFound, OnSite, ServiceOps
<1> QED
  BY <1>4, <1>5, <1>6, <1>7, <1>8, WriteKeeps DEF HistoryTypes

LEMMA SaveServiceKeeps ==
  ASSUME IInv, NEW h \in Handlers, SaveService(h) PROVE IInv'
<1> DEFINE w == task[h]
<1>1. /\ Write(h, {"updateService"}) /\ service' = [service EXCEPT ![w.service] = "live"]
      /\ UNCHANGED <<project, range, site, port, moved, forced>>
  BY DEF SaveService
<1>2. /\ w \in Tasks /\ w.op = "updateService" /\ w.pc = "write" /\ Named(w) /\ Found(w)
      /\ begun' = begun /\ (~crossed' => ~crossed /\ LiveFound(w))
  BY <1>1, WriteEnds DEF Current
<1>3. /\ w.service \in Services /\ ProjectOfService(w.service) = w.project
      /\ service[w.service] # "free"
  BY <1>2 DEF Tasks, Named, Found, OnSite, OnService, ServiceOps, ProjectOfService
<1> USE <1>1, <1>2, <1>3, ConstantsAssumption DEF ConstantsAssumption, IInv, TypeOK, RowTypes
<1>4. RowTypes'
  BY DEF States
<1>5. OwnRows(w) /\ Grows
  BY DEF OwnRows, Grows, ProjectOps
<1>6. Rooted' /\ PortsInRange'
  BY DEF Ports, Rooted, PortsInRange, ProjectOfService
<1>7. ~crossed' => UNCHANGED service
  BY DEF LiveFound, OnService
<1>8. PortsUnique' /\ RangesDisjoint' /\ NoOrphans'
  BY <1>7 DEF Sound, PortsUnique, RangesDisjoint, NoOrphans, Served, ProjectOfService
<1> QED
  BY <1>4, <1>5, <1>6, <1>8, WriteKeeps DEF HistoryTypes

LEMMA DeleteServiceKeeps ==
  ASSUME IInv, NEW h \in Handlers, DeleteService(h) PROVE IInv'
<1> DEFINE w == task[h]
<1>1. /\ Write(h, {"deleteService"}) /\ service' = [service EXCEPT ![w.service] = "deleted"]
      /\ UNCHANGED <<project, range, site, port, moved, forced>>
  BY DEF DeleteService
<1>2. /\ w \in Tasks /\ w.op = "deleteService" /\ w.pc = "write" /\ Named(w) /\ Found(w)
      /\ begun' = begun /\ (~crossed' => ~crossed)
  BY <1>1, WriteEnds
<1>3. /\ w.service \in Services /\ ProjectOfService(w.service) = w.project
      /\ service[w.service] # "free"
  BY <1>2 DEF Tasks, Named, Found, OnSite, OnService, ServiceOps, ProjectOfService
<1> USE <1>1, <1>2, <1>3, ConstantsAssumption DEF ConstantsAssumption, IInv, TypeOK, RowTypes
<1>4. RowTypes'
  BY DEF States
<1>5. OwnRows(w) /\ Grows
  BY DEF OwnRows, Grows, ProjectOps
<1>6. Rooted' /\ PortsInRange'
  BY DEF Ports, Rooted, PortsInRange, ProjectOfService
<1>7. PortsUnique' /\ RangesDisjoint' /\ NoOrphans'
  BY DEF Sound, PortsUnique, RangesDisjoint, NoOrphans, Served, ProjectOfService
<1> QED
  BY <1>4, <1>5, <1>6, <1>7, WriteKeeps DEF HistoryTypes

LEMMA NextIInv == IInv /\ [Next]_vars => IInv'
<1> SUFFICES ASSUME IInv, [Next]_vars PROVE IInv'
  OBVIOUS
<1>1. CASE Next
  <2>1. PICK h \in Handlers : Reads(h) \/ Writes(h)
    BY <1>1 DEF Next
  <2>2. CASE Reads(h)
    BY <2>2, ReadStep
  <2>3. CASE Writes(h)
    BY <2>3, InsertProjectKeeps, SaveProjectKeeps, DeleteProjectKeeps, InsertSiteKeeps,
       SaveSiteKeeps, DeleteSiteKeeps, InsertServiceKeeps, SaveServiceKeeps,
       DeleteServiceKeeps DEF Writes
  <2> QED BY <2>1, <2>2, <2>3
<1>2. CASE UNCHANGED vars
  <2> USE <1>2 DEF vars, rows, IInv, TypeOK
  <2>1. TypeOK'
    BY DEF RowTypes, TaskTypes, HistoryTypes, Named, Found
  <2>2. Ports'
    BY DEF Ports, PortsInRange, HandsTrue, OnPath, InHand, Rooted, ProjectOfService
  <2>3. UndisturbedCurrent'
    <3>1. ASSUME NEW h \in Handlers, Current(task[h]) PROVE Current(task[h])'
      BY <3>1 DEF Current, RangeFound, LiveFound, NoneFound, OverlapsAny, UsedPorts, Served,
                  ProjectOfService
    <3> QED BY <3>1 DEF Sound, UndisturbedCurrent
  <2>4. (PortsUnique /\ RangesDisjoint /\ NoOrphans)'
    BY DEF Sound, PortsUnique, RangesDisjoint, NoOrphans, Served, ProjectOfService
  <2> QED BY <2>1, <2>2, <2>3, <2>4 DEF Sound
<1> QED BY <1>1, <1>2

-----------------------------------------------------------------------------
(* A write that no other has crossed is a step of AtomicRegistry, or a     *)
(* save that changes no row.                                               *)
AtOnce == [Serial!Next]_(Serial!vars)

LEMMA AvailableRange ==
  ASSUME TypeOK, NEW r \in Ranges, NEW p \in Projects, NEW e, e = p \/ e \notin Projects,
         ~OverlapsAny(r, e)
  PROVE  Serial!Available(r, p)
<1>1. \A q \in Projects : range[q].min \in Int /\ range[q].max \in Int
  BY RangeEnds DEF TypeOK, RowTypes
<1>2. r.min \in Int /\ r.max \in Int
  BY RangeEnds
<1> QED BY <1>1, <1>2 DEF OverlapsAny, Serial!Available

LEMMA FreePortsRead ==
  ASSUME NEW p \in Projects
  PROVE  Serial!FreePorts(p) = (range[p].min + 1..range[p].max) \ UsedPorts(p)
<1>1. {v \in Services : Served(v) /\ ProjectOfService(v) = p}
        = UNION {Serial!ServicesOf(s) : s \in Serial!SitesOf(p)}
  BY ConstantsAssumption
     DEF ConstantsAssumption, Served, ProjectOfService, Serial!ServicesOf, Serial!SitesOf
<1>2. UsedPorts(p) = {port[v] : v \in {w \in Services : Served(w) /\ ProjectOfService(w) = p}}
  BY DEF UsedPorts
<1> QED BY <1>1, <1>2 DEF Serial!FreePorts

LEMMA InsertProjectSerial ==
  ASSUME IInv, NEW h \in Handlers, ~crossed', InsertProject(h) PROVE AtOnce
<1> DEFINE w == task[h]
<1>1. PICK p \in Projects :
        /\ Write(h, {"createProject"}) /\ project[p] = "free"
        /\ project' = [project EXCEPT ![p] = "live"]
        /\ range' = [range EXCEPT ![p] = w.range]
        /\ UNCHANGED <<site, service, port, moved, forced>>
  BY DEF InsertProject
<1>2. w.range \in Ranges /\ ~OverlapsAny(w.range, None)
  BY <1>1, WriteEnds DEF OnPath, InHand, Current, RangeFound
<1>3. Serial!Available(w.range, p)
  BY <1>1, <1>2, AvailableRange, ConstantsAssumption DEF ConstantsAssumption, IInv
<1> QED BY <1>1, <1>2, <1>3 DEF AtOnce, Serial!Next, Serial!CreateProject

LEMMA SaveProjectSerial ==
  ASSUME IInv, NEW h \in Handlers, ~crossed', SaveProject(h) PROVE AtOnce
<1> DEFINE w == task[h]
           p == w.project
<1>1. /\ Write(h, {"updateProject", "moveProject"})
      /\ project' = [project EXCEPT ![p] = "live"]
      /\ range' = [range EXCEPT ![p] = w.range]
      /\ UNCHANGED <<site, service, port, forced>>
  BY DEF SaveProject
<1>2. /\ w \in Tasks /\ w.op \in {"updateProject", "moveProject"} /\ w.pc = "write"
      /\ Named(w) /\ InHand(w) /\ RangeFound(w) /\ LiveFound(w)
  BY <1>1, WriteEnds DEF Current
<1>3. p \in Projects /\ project[p] = "live" /\ UNCHANGED project
  BY <1>1, <1>2 DEF Tasks, Named, LiveFound, IInv, TypeOK, RowTypes
<1>4. CASE w.op = "updateProject"
  <2>1. UNCHANGED range
    BY <1>1, <1>2, <1>3, <1>4 DEF RangeFound, UsesRange, IInv, TypeOK, RowTypes
  <2> QED BY <1>1, <1>3, <2>1 DEF AtOnce, Serial!vars
<1>5. CASE w.op = "moveProject"
  <2>1. w.range \in Ranges /\ ~OverlapsAny(w.range, p)
    BY <1>2, <1>5 DEF InHand, RangeFound
  <2>2. Serial!Available(w.range, p)
    BY <1>3, <2>1, AvailableRange DEF IInv
  <2> QED BY <1>1, <1>3, <2>1, <2>2 DEF AtOnce, Serial!Next, Serial!UpdateProject
<1> QED BY <1>2, <1>4, <1>5

LEMMA DeleteProjectSerial ==
  ASSUME IInv, NEW h \in Handlers, ~crossed', DeleteProject(h) PROVE AtOnce
<1> DEFINE w == task[h]
           p == w.project
<1>1. /\ Write(h, {"deleteProject", "forceProject"})
      /\ project' = [project EXCEPT ![p] = "deleted"]
      /\ forced' = IF w.op = "forceProject" THEN forced \cup {p} ELSE forced
      /\ UNCHANGED <<range, site, service, port, moved>>
  BY DEF DeleteProject
<1>2. /\ w \in Tasks /\ w.op \in {"deleteProject", "forceProject"} /\ w.pc = "write"
      /\ Named(w) /\ LiveFound(w) /\ NoneFound(w)
  BY <1>1, WriteEnds DEF Current
<1>3. p \in Projects /\ project[p] = "live"
  BY <1>2 DEF Tasks, Named, LiveFound
<1>4. w.op = "deleteProject" => Serial!SitesOf(p) = {}
  BY <1>2 DEF NoneFound, Serial!SitesOf
<1> QED BY <1>1, <1>2, <1>3, <1>4 DEF AtOnce, Serial!Next, Serial!DeleteProject

LEMMA SitesSerial ==
  ASSUME IInv, NEW h \in Handlers, ~crossed', InsertSite(h) \/ SaveSite(h) \/ DeleteSite(h)
  PROVE  AtOnce
<1> DEFINE w == task[h]
           s == w.site
<1> USE ConstantsAssumption DEF ConstantsAssumption
<1>1. CASE InsertSite(h)
  <2>1. PICK x \in Sites :
          /\ Write(h, {"createSite"}) /\ site[x] = "free" /\ ProjectOf[x] = w.project
          /\ site' = [site EXCEPT ![x] = "live"]
          /\ UNCHANGED <<project, range, service, port, moved, forced>>
    BY <1>1 DEF InsertSite
  <2>2. project[ProjectOf[x]] = "live"
    BY <2>1, WriteEnds DEF Current, LiveFound
  <2> QED BY <2>1, <2>2 DEF AtOnce, Serial!Next, Serial!CreateSite
<1>2. ASSUME NEW ops, Write(h, ops), ops \subseteq {"updateSite", "deleteSite", "forceSite"}
      PROVE  /\ s \in Sites /\ site[s] = "live" /\ project[ProjectOf[s]] = "live"
             /\ w.op \in ops /\ w.pc = "write" /\ NoneFound(w)
  <2>1. /\ w \in Tasks /\ w.op \in ops /\ w.pc = "write"
        /\ Named(w) /\ LiveFound(w) /\ NoneFound(w)
    BY <1>2, WriteEnds DEF Current
  <2>2. w.op \in OnSite /\ w.op \notin {"createProject", "none"} /\ w.pc # "site"
    BY <1>2, <2>1 DEF OnSite
  <2>3. s \in Sites /\ ProjectOf[s] = w.project
    BY <2>1, <2>2 DEF Tasks, Named
  <2> QED BY <2>1, <2>2, <2>3 DEF LiveFound
<1>3. CASE SaveSite(h)
  <2>1. UNCHANGED site
    BY <1>2, <1>3 DEF SaveSite, IInv, TypeOK, RowTypes
  <2> QED BY <1>3, <2>1 DEF SaveSite, AtOnce, Serial!vars
<1>4. CASE DeleteSite(h)
  <2>1. /\ Write(h, {"deleteSite", "forceSite"}) /\ site' = [site EXCEPT ![s] = "deleted"]
        /\ forced' = IF w.op = "forceSite" THEN forced \cup {s} ELSE forced
        /\ UNCHANGED <<project, range, service, port, moved>>
    BY <1>4 DEF DeleteSite
  <2>2. w.op = "deleteSite" => Serial!ServicesOf(s) = {}
    BY <1>2, <2>1 DEF NoneFound, Serial!ServicesOf
  <2>3. s \in Sites /\ Serial!DeleteSite(s)
    BY <1>2, <2>1, <2>2 DEF Serial!DeleteSite
  <2> QED BY <2>3 DEF AtOnce, Serial!Next
<1> QED BY <1>1, <1>3, <1>4

LEMMA ServicesSerial ==
  ASSUME IInv, NEW h \in Handlers, ~crossed',
         InsertService(h) \/ SaveService(h) \/ DeleteService(h)
  PROVE  AtOnce
<1> DEFINE w == task[h]
           v == w.service
<1> USE ConstantsAssumption DEF ConstantsAssumption
<1>1. CASE InsertService(h)
  <2>1. PICK x \in Services :
          /\ Write(h, {"createService"}) /\ service[x] = "free" /\ SiteOf[x] = w.site
          /\ service' = [service EXCEPT ![x] = "live"]
          /\ port' = [port EXCEPT ![x] = w.port]
          /\ UNCHANGED <<project, range, site, moved, forced>>
    BY <1>1 DEF InsertService
  <2>2. /\ w.op = "createService" /\ w.pc = "write" /\ Named(w) /\ InHand(w)
        /\ RangeFound(w) /\ LiveFound(w) /\ NoneFound(w)
    BY <2>1, WriteEnds DEF Current
  <2> DEFINE p == ProjectOf[SiteOf[x]]
  <2>3. /\ p \in Projects /\ p = w.project /\ project[p] = "live"
        /\ site[SiteOf[x]] = "live" /\ w.range = range[p]
    BY <2>1, <2>2 DEF Named, RangeFound, LiveFound, OnSite, ServiceOps, UsesRange
  <2>4. /\ w.port \in Serial!FreePorts(p)
        /\ \A y \in Serial!FreePorts(p) : w.port <= y
    BY <2>2, <2>3, FreePortsRead DEF InHand, NoneFound
  <2>5. Serial!CreateService(x, w.port)
    BY <2>1, <2>3, <2>4 DEF Serial!CreateService
  <2> QED BY <2>4, <2>5 DEF AtOnce, Serial!Next
<1>2. ASSUME NEW ops, Write(h, ops), ops \subseteq {"updateService", "deleteService"}
      PROVE  /\ v \in Services /\ service[v] = "live" /\ site[SiteOf[v]] = "live"
             /\ project[ProjectOf[SiteOf[v]]] = "live"
  <2>1. w \in Tasks /\ w.op \in ops /\ w.pc = "write" /\ Named(w) /\ LiveFound(w)
    BY <1>2, WriteEnds DEF Current
  <2>2. /\ w.op \in OnSite /\ w.op \in OnService
        /\ w.op \notin {"createProject", "none"} /\ w.pc # "site"
    BY <1>2, <2>1 DEF OnSite, OnService, ServiceOps
  <2>3. v \in Services /\ SiteOf[v] = w.site /\ ProjectOf[w.site] = w.project
    BY <2>1, <2>2 DEF Tasks, Named
  <2> QED BY <2>1, <2>2, <2>3 DEF LiveFound
<1>3. CASE SaveService(h)
  <2>1. UNCHANGED service
    BY <1>2, <1>3 DEF SaveService, IInv, TypeOK, RowTypes
  <2> QED BY <1>3, <2>1 DEF SaveService, AtOnce, Serial!vars
<1>4. CASE DeleteService(h)
  <2>1. v \in Services /\ Serial!DeleteService(v)
    BY <1>2, <1>4 DEF DeleteService, Serial!DeleteService
  <2> QED BY <2>1 DEF AtOnce, Serial!Next
<1> QED BY <1>1, <1>3, <1>4

LEMMA ReadSerial == ASSUME NEW h \in Handlers, Reads(h) PROVE AtOnce
<1>1. UNCHANGED <<rows, forced>>
  BY DEF Reads, CheckNewRange, FindProject, CheckMovedRange, FindSite, FindService,
         CountChildren, AllocateRelayPort, Refuse, Begin, Read
<1> QED BY <1>1 DEF rows, AtOnce, Serial!vars

LEMMA NextSerial == IInv /\ [Next]_vars => (~crossed' => AtOnce)
<1> SUFFICES ASSUME IInv, [Next]_vars, ~crossed' PROVE AtOnce
  OBVIOUS
<1>1. CASE UNCHANGED vars
  BY <1>1 DEF vars, rows, AtOnce, Serial!vars
<1>2. ASSUME NEW h \in Handlers, Reads(h) \/ Writes(h) PROVE AtOnce
  BY <1>2, ReadSerial, InsertProjectSerial, SaveProjectSerial, DeleteProjectSerial,
     SitesSerial, ServicesSerial DEF Writes
<1> QED BY <1>1, <1>2 DEF Next

-----------------------------------------------------------------------------
(* The invariant holds of every registry.                                  *)
THEOREM Invariant == Spec => []IInv
BY InitIInv, NextIInv, PTL DEF Spec

(* The rows, the open requests and the histories are well formed; what a   *)
(* request is about exists, in the place that its path names.              *)
THEOREM TypeCorrect == Spec => []TypeOK
<1>1. IInv => TypeOK
  BY DEF IInv
<1> QED BY <1>1, Invariant, PTL

(* Whatever crosses, createService takes the relay port from the range of  *)
(* its project and leaves out the control port (ServiceDAO.               *)
(* AllocateRelayPort), and no other write moves it or the range.           *)
THEOREM PortsStayInRange == Spec => []PortsInRange
<1>1. IInv => PortsInRange
  BY DEF IInv, Ports
<1> QED BY <1>1, Invariant, PTL

(* Unless a handler writes what another's write has outdated, two served   *)
(* services of a project have different relay ports.                       *)
THEOREM PortsAreUnique == Spec => []PortsUnique
<1>1. IInv => PortsUnique
  BY DEF IInv, Sound
<1> QED BY <1>1, Invariant, PTL

(* Unless a handler writes what another's write has outdated, the overlap  *)
(* checks of CreateProject and UpdateProject keep live ranges disjoint.    *)
THEOREM RangesAreDisjoint == Spec => []RangesDisjoint
<1>1. IInv => RangesDisjoint
  BY DEF IInv, Sound
<1> QED BY <1>1, Invariant, PTL

(* Unless a handler writes what another's write has outdated, only a       *)
(* forced delete leaves a live child under a row that is gone.             *)
THEOREM OrphansOnlyByForce == Spec => []NoOrphans
<1>1. IInv => NoOrphans
  BY DEF IInv, Sound
<1> QED BY <1>1, Invariant, PTL

(* Until a handler writes what another's write has outdated, every change  *)
(* of the rows is one that a request of AtomicRegistry makes at once: the  *)
(* handlers, which have no transactions, lose nothing by it.               *)
THEOREM RequestsAreSerial == Spec => SerialUntilCrossed
<1>1. IInv /\ [Next]_vars => (~crossed' => [Serial!Next]_(Serial!vars))
  BY NextSerial DEF AtOnce
<1> QED BY <1>1, Invariant, PTL DEF Spec, SerialUntilCrossed
=============================================================================
