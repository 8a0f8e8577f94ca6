------------------------------ MODULE Operators -------------------------------
(***************************************************************************)
(* The operator accounts: the authentication interceptor, the operator,    *)
(* auth and service-account services over the operators table, the access  *)
(* table of a project and the two token tables.  RPC handlers run          *)
(* concurrently, every database query is a step of its own, and what a     *)
(* handler read stays in its locals.                                       *)
(*                                                                         *)
(* Abstractions.  A token is a session's or a service account's, and the   *)
(* interceptor's two lookups of it are one step; it is good or not, for    *)
(* whatever reason.  CountAdmins is the one bit the handlers use: whether  *)
(* there is more than one.  Passwords and the audit log do not feed back   *)
(* into any of this, and the project whose access is granted stays.        *)
(***************************************************************************)

CONSTANTS
  Operators,    (* operator ids                                             *)
  Handlers,     (* concurrent RPC handlers                                  *)
  Tokens,       (* bound: tokens that are good at once                       *)
  Roles,        (* a grant's: viewer, operator, owner                       *)
  Calls,        (* which RPCs are called                                    *)
  None          (* nobody                                                   *)

AdminRPCs ==
  {"create", "promote", "demote", "delete", "issue", "revoke", "grant", "ungrant"}
RPCs == AdminRPCs \cup {"logout", "login"}

ASSUME ConstantsAssumption ==
  None \notin Operators \cup Tokens \cup Roles /\ Calls \subseteq RPCs

VARIABLES
  row,          (* operators: "absent", "live" or soft-deleted              *)
  admin,        (* operators.is_admin, kept by a soft delete                *)
  owner,        (* operator_id of a token, None when not issued, revoked or *)
                (* expired                                                  *)
  sessions,     (* good tokens in operator_sessions; the others are service *)
                (* account tokens                                           *)
  access,       (* operators: the role of the live grant, or None           *)
  pc, rpc, tok, caller, target,   (* a handler: place, method and locals    *)
  role,         (* a handler: the role it grants                            *)
  found,        (* the handlers that have read a grant which is still live  *)
  said,         (* history: operators: what the last answer made of access  *)
  was,          (* history: the handlers whose caller was an admin at some  *)
                (* instant since the request arrived                        *)
  overlapped    (* history: two removals were ever decided at once          *)

tables == <<row, admin>>
tokens == <<owner, sessions>>
grants == <<access, role, found, said>>
locals == <<pc, rpc, tok, caller, target>>
history == <<was, overlapped>>
vars == <<row, admin, owner, sessions, access, pc, rpc, tok, caller,
          target, role, found, said, was, overlapped>>

PCs == {"idle", "load", "find", "count", "lookup", "write"}

(* Calls whose handler begins with a lookup of the operator they are about. *)
NeedsTarget(r) == r \notin {"create", "revoke", "logout", "ungrant"}

Admins == {o \in Operators : row[o] = "live" /\ admin[o]}

TableTypes ==
  /\ row \in [Operators -> {"absent", "live", "deleted"}]
  /\ admin \in [Operators -> BOOLEAN]

TokenTypes ==
  /\ owner \in [Tokens -> Operators \cup {None}]
  /\ sessions \subseteq Tokens
  /\ \A c \in sessions : owner[c] # None

LocalTypes ==
  /\ pc \in [Handlers -> PCs]
  /\ rpc \in [Handlers -> RPCs \cup {"none"}]
  /\ tok \in [Handlers -> Tokens \cup {None}]
  /\ caller \in [Handlers -> Operators \cup {None}]
  /\ target \in [Handlers -> Operators \cup {None}]
  /\ \A h \in Handlers :
       /\ pc[h] = "idle" <=> rpc[h] = "none"
       /\ rpc[h] \in {"none", "revoke", "logout"} <=> target[h] = None
       /\ pc[h] \in {"find", "count", "lookup"} => target[h] # None
       /\ pc[h] = "lookup" => rpc[h] = "grant"
       /\ pc[h] = "count" => rpc[h] \in {"demote", "delete"}
       /\ pc[h] = "load" => caller[h] # None

GrantTypes ==
  /\ access \in [Operators -> Roles \cup {None}]
  /\ said \in [Operators -> Roles \cup {None}]
  /\ role \in [Handlers -> Roles \cup {None}]
  /\ \A h \in Handlers : role[h] # None <=> rpc[h] = "grant" /\ pc[h] = "write"
  /\ \A h \in found : role[h] # None /\ access[target[h]] # None
  /\ found \subseteq Handlers

HistoryTypes ==
  was \subseteq Handlers /\ overlapped \in BOOLEAN

TypeOK == TableTypes /\ TokenTypes /\ GrantTypes /\ LocalTypes /\ HistoryTypes

(* "admin create" on the command line has seeded the first account.        *)
Init ==
  /\ row \in [Operators -> {"absent", "live"}]
  /\ admin \in [Operators -> BOOLEAN]
  /\ \A o \in Operators : row[o] = "absent" => ~admin[o]
  /\ Admins # {}
  /\ owner = [c \in Tokens |-> None] /\ sessions = {}
  /\ pc = [h \in Handlers |-> "idle"]
  /\ rpc = [h \in Handlers |-> "none"]
  /\ tok = [h \in Handlers |-> None]
  /\ caller = [h \in Handlers |-> None]
  /\ target = [h \in Handlers |-> None]
  /\ access = [o \in Operators |-> None] /\ said = access
  /\ role = [h \in Handlers |-> None] /\ found = {}
  /\ was = {}
  /\ overlapped = FALSE

-----------------------------------------------------------------------------
(* A handler moves on, or answers and is free again.                       *)

Goto(h, from, to) == pc[h] = from /\ pc' = [pc EXCEPT ![h] = to]

Continue(h, from, to) ==
  Goto(h, from, to) /\ UNCHANGED <<rpc, tok, caller, target>>

Answer(h, from) ==
  /\ Goto(h, from, "idle")
  /\ rpc' = [rpc EXCEPT ![h] = "none"]
  /\ tok' = [tok EXCEPT ![h] = None]
  /\ caller' = [caller EXCEPT ![h] = None]
  /\ target' = [target EXCEPT ![h] = None]

(* Removals are decided between the lookup of their target and the write.  *)
Removal(h) == rpc[h] \in {"demote", "delete"}
Deciding(h) == Removal(h) /\ pc[h] \in {"count", "write"}
Overlap == \E h, u \in Handlers : h # u /\ Deciding(h) /\ Deciding(u)

Remember ==
  /\ was' = {h \in Handlers :
               caller'[h] \in Admins' \/ (h \in was /\ pc'[h] # "idle")}
  /\ overlapped' = (overlapped \/ Overlap')

-----------------------------------------------------------------------------
(* The interceptor: the token lookup, then the load of its owner.  The     *)
(* handler's requireAdmin looks at the row the interceptor loaded; Logout  *)
(* needs the token itself.                                                 *)

(* The lookup of a session, then the lookup of a service-account token.    *)
GoodSession(c) == c \in sessions /\ owner[c] # None
GoodToken(c) == c \notin sessions /\ owner[c] # None

Arrive(h, r, c, o) ==
  /\ r \in Calls \ {"login"} /\ (GoodSession(c) \/ GoodToken(c))
  /\ o = None <=> r \in {"revoke", "logout"}
  /\ Goto(h, "idle", "load")
  /\ rpc' = [rpc EXCEPT ![h] = r]
  /\ tok' = [tok EXCEPT ![h] = IF r = "logout" THEN c ELSE None]
  /\ caller' = [caller EXCEPT ![h] = owner[c]]
  /\ target' = [target EXCEPT ![h] = o]
  /\ UNCHANGED <<tables, tokens, grants>> /\ Remember

(* Mutant: the owner is loaded Unscoped, deleted or not.                   *)
AuthorisedUnscoped(h) == rpc[h] \in AdminRPCs => admin[caller[h]]

Authorised(h) ==
  /\ row[caller[h]] = "live"
  /\ rpc[h] \in AdminRPCs => admin[caller[h]]

LoadPrincipal(h) ==
  /\ pc[h] = "load"
  /\ \/ /\ Authorised(h)
        /\ Continue(h, "load", IF NeedsTarget(rpc[h]) THEN "find" ELSE "write")
     \/ ~Authorised(h) /\ Answer(h, "load")
  /\ UNCHANGED <<tables, tokens, grants>> /\ Remember

(* Login is not authenticated: FindByEmail, then the password comparison.  *)
Login(h, o) ==
  /\ "login" \in Calls /\ row[o] = "live"
  /\ Goto(h, "idle", "write")
  /\ rpc' = [rpc EXCEPT ![h] = "login"]
  /\ target' = [target EXCEPT ![h] = o]
  /\ UNCHANGED <<tables, tokens, grants, tok, caller>> /\ Remember

-----------------------------------------------------------------------------
(* The handlers' reads: the target row and the guards on it.               *)

(* UpdateOperator does nothing when the flag is as asked; nobody removes   *)
(* their own account or role.                                              *)
Proceeds(h) ==
  LET o == target[h] IN
  /\ row[o] = "live"
  /\ rpc[h] = "promote" => ~admin[o]
  /\ rpc[h] = "demote" => admin[o]
  /\ Removal(h) => o # caller[h]

FindTarget(h) ==
  /\ pc[h] = "find"
  /\ \/ /\ Proceeds(h)
        /\ Continue(h, "find",
             CASE Removal(h) /\ admin[target[h]] -> "count"
               [] rpc[h] = "grant" -> "lookup"
               [] OTHER -> "write")
     \/ /\ ~Proceeds(h)
        /\ Answer(h, "find")
  /\ UNCHANGED <<tables, tokens, grants>> /\ Remember

(* Mutant: the count includes soft-deleted rows.                           *)
SeveralRows == \E a, b \in {o \in Operators : admin[o]} : a # b

(* CountAdmins, more than one.                                             *)
Several == \E a, b \in Admins : a # b

CountAdmins(h) ==
  /\ pc[h] = "count"
  /\ \/ Several /\ Continue(h, "count", "write")
     \/ ~Several /\ Answer(h, "count")
  /\ UNCHANGED <<tables, tokens, grants>> /\ Remember

(* Grant's lookup of the live row: nothing to do, a row to save, or one to *)
(* create.                                                                 *)
LookupAccess(h, r) ==
  LET o == target[h] IN
  /\ pc[h] = "lookup"
  /\ \/ /\ access[o] = r /\ Answer(h, "lookup")
        /\ said' = [said EXCEPT ![o] = r] /\ UNCHANGED <<role, found>>
     \/ /\ access[o] # r /\ Continue(h, "lookup", "write")
        /\ role' = [role EXCEPT ![h] = r]
        /\ found' = IF access[o] = None THEN found ELSE found \cup {h}
        /\ UNCHANGED said
  /\ UNCHANGED <<tables, tokens, access>> /\ Remember

-----------------------------------------------------------------------------
(* The handlers' writes                                                    *)

Write(h, r) == rpc[h] = r /\ Answer(h, "write")

CreateOperator(h, flag) ==
  /\ Write(h, "create")
  /\ IF row[target[h]] = "absent"
     THEN /\ row' = [row EXCEPT ![target[h]] = "live"]
          /\ admin' = [admin EXCEPT ![target[h]] = flag]
     ELSE UNCHANGED tables
  /\ UNCHANGED <<tokens, grants>> /\ Remember

(* UpdateIsAdmin is an error, and no change, on a row deleted meanwhile.   *)
UpdateIsAdmin(h, r, flag) ==
  /\ Write(h, r)
  /\ admin' = IF row[target[h]] = "live"
              THEN [admin EXCEPT ![target[h]] = flag] ELSE admin
  /\ UNCHANGED <<row, tokens, grants>> /\ Remember

DeleteOperator(h) ==
  /\ Write(h, "delete")
  /\ row' = [row EXCEPT ![target[h]] = "deleted"]
  /\ UNCHANGED <<admin, tokens, grants>> /\ Remember

(* Mutant: a row that is there already is left as it is.                   *)
GrantIfAbsent(h) ==
  LET o == target[h] IN
  /\ Write(h, "grant")
  /\ access' = IF h \in found \/ access[o] = None
               THEN [access EXCEPT ![o] = role[h]] ELSE access
  /\ said' = [said EXCEPT ![o] = role[h]]
  /\ role' = [role EXCEPT ![h] = None] /\ found' = found \ {h}
  /\ UNCHANGED <<tables, tokens>> /\ Remember

(* Save updates the row that was found, and inserts it again when it has   *)
(* been deleted; it and Create are refused by the unique index when there  *)
(* is another.                                                             *)
GrantAccess(h) ==
  LET o == target[h] IN
  /\ Write(h, "grant")
  /\ IF h \in found \/ access[o] = None
     THEN /\ access' = [access EXCEPT ![o] = role[h]]
          /\ said' = [said EXCEPT ![o] = role[h]]
     ELSE UNCHANGED <<access, said>>
  /\ role' = [role EXCEPT ![h] = None] /\ found' = found \ {h}
  /\ UNCHANGED <<tables, tokens>> /\ Remember

RevokeAccess(h) ==
  LET o == target[h] IN
  /\ Write(h, "ungrant")
  /\ access' = [access EXCEPT ![o] = None] /\ said' = [said EXCEPT ![o] = None]
  /\ found' = {u \in found : target[u] # o}
  /\ UNCHANGED <<tables, tokens, role>> /\ Remember

(* A token that no request still carries.                                  *)
Issue(h, c) ==
  /\ owner[c] = None /\ \A u \in Handlers : tok[u] # c
  /\ owner' = [owner EXCEPT ![c] = target[h]]
  /\ UNCHANGED <<tables, grants>> /\ Remember

(* Sessions by login, service-account tokens by an admin.                  *)
IssueSession(h, c) ==
  Write(h, "login") /\ Issue(h, c) /\ sessions' = sessions \cup {c}

IssueToken(h, c) == Write(h, "issue") /\ Issue(h, c) /\ UNCHANGED sessions

Ends(cs) ==
  /\ owner' = [c \in Tokens |-> IF c \in cs THEN None ELSE owner[c]]
  /\ sessions' = sessions \ cs
  /\ UNCHANGED <<tables, grants>>

(* Logout revokes the session it was called with, if it is one; the admin  *)
(* RPC revokes any service-account token.                                  *)
Logout(h) == Write(h, "logout") /\ Ends({tok[h]} \cap sessions) /\ Remember

RevokeToken(h, c) == Write(h, "revoke") /\ Ends({c} \ sessions) /\ Remember

TokenExpires(c) == owner[c] # None /\ Ends({c}) /\ UNCHANGED <<locals, history>>

-----------------------------------------------------------------------------
HandlerStep(h) ==
  \/ \E r \in RPCs, c \in Tokens, o \in Operators \cup {None} : Arrive(h, r, c, o)
  \/ \E o \in Operators : Login(h, o)
  \/ LoadPrincipal(h) \/ FindTarget(h) \/ CountAdmins(h)
  \/ \E flag \in BOOLEAN : CreateOperator(h, flag)
  \/ UpdateIsAdmin(h, "promote", TRUE) \/ UpdateIsAdmin(h, "demote", FALSE)
  \/ \E r \in Roles : LookupAccess(h, r)
  \/ DeleteOperator(h) \/ GrantAccess(h) \/ RevokeAccess(h) \/ Logout(h)
  \/ \E c \in Tokens : IssueSession(h, c) \/ IssueToken(h, c) \/ RevokeToken(h, c)

Next ==
  \/ \E h \in Handlers : HandlerStep(h)
  \/ \E c \in Tokens : TokenExpires(c)

Spec == Init /\ [][Next]_vars

-----------------------------------------------------------------------------
(* There is always a live admin, so the accounts stay manageable: what the *)
(* safety guards of UpdateOperator and DeleteOperator are there for.       *)
AdminRemains == Admins # {}

(* The guards do achieve it as long as no two removals are between their   *)
(* lookup and their write at once, whatever else happens meanwhile: stale  *)
(* callers, promotions and deletions in between, logins, revocations.      *)
GuardsSuffice == ~overlapped => AdminRemains

(* Grants and revocations of the same access that cross: what the last     *)
(* answer without an error said of it is what the access table holds.      *)
LastAnswerStands == access = said

(* A request acts on an authority that was real at some instant after it   *)
(* arrived: a token outlives the deletion or demotion of its owner, but a  *)
(* request that arrives after it never gets past the interceptor and       *)
(* requireAdmin.                                                           *)
AuthorityFresh ==
  \A h \in Handlers : rpc[h] \in AdminRPCs /\ pc[h] \in {"find", "count", "lookup", "write"}
    => h \in was

=============================================================================
