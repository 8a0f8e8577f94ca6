---------------------------- MODULE AtomicRegistry ----------------------------
(***************************************************************************)
(* What the requests on projects, sites and services are to do with the    *)
(* rows, each at one instant, as if its queries were one transaction.      *)
(* Registry has the queries; a request that is refused changes no row.     *)
(***************************************************************************)
EXTENDS Integers

CONSTANTS Projects, Sites, Services, ProjectOf, SiteOf, Ranges

VARIABLES project, range, site, service, port,  (* the rows, as in Registry *)
          forced                                (* rows deleted with force  *)

vars == <<project, range, site, service, port, forced>>

(* A range may be p's if it shares no port with another live project's.    *)
Available(r, p) ==
  \A q \in Projects \ {p} :
    project[q] = "live" => r.max < range[q].min \/ range[q].max < r.min

SitesOf(p) == {s \in Sites : ProjectOf[s] = p /\ site[s] = "live"}
ServicesOf(s) == {v \in Services : SiteOf[v] = s /\ service[v] = "live"}

(* The ports of a project's range but the first, and those that serve.     *)
FreePorts(p) ==
  (range[p].min + 1..range[p].max)
    \ {port[v] : v \in UNION {ServicesOf(s) : s \in SitesOf(p)}}

-----------------------------------------------------------------------------
CreateProject(p, r) ==
  /\ project[p] = "free" /\ Available(r, p)
  /\ project' = [project EXCEPT ![p] = "live"]
  /\ range' = [range EXCEPT ![p] = r]
  /\ UNCHANGED <<site, service, port, forced>>

UpdateProject(p, r) ==
  /\ project[p] = "live" /\ Available(r, p)
  /\ range' = [range EXCEPT ![p] = r]
  /\ UNCHANGED <<project, site, service, port, forced>>

(* Without force the children must be gone, with it they stay as they are. *)
DeleteProject(p) ==
  /\ project[p] = "live"
  /\ project' = [project EXCEPT ![p] = "deleted"]
  /\ \/ SitesOf(p) = {} /\ UNCHANGED forced
     \/ forced' = forced \cup {p}
  /\ UNCHANGED <<range, site, service, port>>

CreateSite(s) ==
  /\ site[s] = "free" /\ project[ProjectOf[s]] = "live"
  /\ site' = [site EXCEPT ![s] = "live"]
  /\ UNCHANGED <<project, range, service, port, forced>>

DeleteSite(s) ==
  /\ site[s] = "live" /\ project[ProjectOf[s]] = "live"
  /\ site' = [site EXCEPT ![s] = "deleted"]
  /\ \/ ServicesOf(s) = {} /\ UNCHANGED forced
     \/ forced' = forced \cup {s}
  /\ UNCHANGED <<project, range, service, port>>

(* A new service gets the lowest port that is free at this instant.        *)
CreateService(v, q) ==
  LET free == FreePorts(ProjectOf[SiteOf[v]]) IN
    /\ service[v] = "free" /\ site[SiteOf[v]] = "live"
    /\ project[ProjectOf[SiteOf[v]]] = "live"
    /\ q \in free /\ \A x \in free : q <= x
    /\ service' = [service EXCEPT ![v] = "live"] /\ port' = [port EXCEPT ![v] = q]
    /\ UNCHANGED <<project, range, site, forced>>

DeleteService(v) ==
  /\ service[v] = "live" /\ site[SiteOf[v]] = "live"
  /\ project[ProjectOf[SiteOf[v]]] = "live"
  /\ service' = [service EXCEPT ![v] = "deleted"]
  /\ UNCHANGED <<project, range, site, port, forced>>

Next ==
  \/ \E p \in Projects :
       \/ \E r \in Ranges : CreateProject(p, r) \/ UpdateProject(p, r)
       \/ DeleteProject(p)
  \/ \E s \in Sites : CreateSite(s) \/ DeleteSite(s)
  \/ \E v \in Services :
       \/ \E q \in FreePorts(ProjectOf[SiteOf[v]]) : CreateService(v, q)
       \/ DeleteService(v)
=============================================================================
