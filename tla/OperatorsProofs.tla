--------------------------- MODULE OperatorsProofs ----------------------------
(***************************************************************************)
(* Proofs about Operators, for every number of operators, handlers and     *)
(* tokens.  SafetyInv adds to the properties what a removal that is about  *)
(* to write knows: an admin other than its target, while no other removal  *)
(* is being decided.                                                       *)
(***************************************************************************)
EXTENDS Operators, TLAPS

RemovalsApart == ~overlapped => ~Overlap

SpareAdmin ==
  ~overlapped => \A h \in Handlers :
    Removal(h) /\ pc[h] = "write" => \E a \in Admins : a # target[h]

SafetyInv ==
  TypeOK /\ GuardsSuffice /\ AuthorityFresh /\ LastAnswerStands /\ RemovalsApart /\ SpareAdmin

(* The history variables keep their types.                                 *)
LEMMA HistoryStep == HistoryTypes /\ Remember => HistoryTypes'
<1> SUFFICES ASSUME HistoryTypes, Remember PROVE HistoryTypes'
  OBVIOUS
<1>1. was' \subseteq Handlers
  BY DEF HistoryTypes, Remember
<1>2. overlapped' \in BOOLEAN
  BY Zenon DEF HistoryTypes, Remember
<1> QED
  BY <1>1, <1>2 DEF HistoryTypes

(* What a step of one handler leaves alone: the others' locals.            *)
OthersKeep(h) == \A u \in Handlers \ {h} :
  pc'[u] = pc[u] /\ rpc'[u] = rpc[u] /\ caller'[u] = caller[u] /\ target'[u] = target[u]

LEMMA StepOfOne ==
  ASSUME TypeOK, NEW h \in Handlers, HandlerStep(h)
  PROVE  OthersKeep(h) /\ Remember
<1>1. OthersKeep(h)
  BY DEF OthersKeep, TypeOK, LocalTypes, HandlerStep, Arrive, Login, LoadPrincipal,
     FindTarget, CountAdmins, LookupAccess, CreateOperator, UpdateIsAdmin,
     DeleteOperator, GrantAccess, RevokeAccess, IssueSession, IssueToken, Logout,
     RevokeToken, Goto, Continue, Answer, Write
<1>2. Remember
  BY DEF HandlerStep, Arrive, Login, LoadPrincipal, FindTarget, CountAdmins,
     LookupAccess, CreateOperator, UpdateIsAdmin, DeleteOperator, GrantAccess,
     RevokeAccess, Issue, IssueSession, IssueToken, Logout, RevokeToken
<1> QED
  BY <1>1, <1>2

(* A handler that neither holds nor takes up a role to grant.              *)
LEMMA GrantsKeep ==
  ASSUME TypeOK, NEW h \in Handlers, UNCHANGED grants, OthersKeep(h),
         role[h] = None, ~(rpc'[h] = "grant" /\ pc'[h] = "write")
  PROVE  GrantTypes'
<1>1. ASSUME NEW u \in Handlers
      PROVE  role'[u] # None <=> rpc'[u] = "grant" /\ pc'[u] = "write"
  BY DEF TypeOK, GrantTypes, OthersKeep, grants
<1>2. ASSUME NEW u \in found
      PROVE  role'[u] # None /\ access'[target'[u]] # None
  BY DEF TypeOK, GrantTypes, OthersKeep, grants
<1> QED
  BY <1>1, <1>2 DEF TypeOK, GrantTypes, grants

LEMMA LookupKeeps ==
  ASSUME TypeOK, NEW h \in Handlers, OthersKeep(h), NEW r \in Roles, LookupAccess(h, r)
  PROVE  GrantTypes'
<1>1. role[h] = None /\ h \notin found /\ access' = access
  BY DEF LookupAccess, TypeOK, GrantTypes
<1>2. CASE access[target[h]] = r
  <2>1. UNCHANGED <<role, found>> /\ pc'[h] = "idle" /\ said' \in [Operators -> Roles \cup {None}]
    BY <1>2 DEF LookupAccess, Answer, Goto, TypeOK, LocalTypes, GrantTypes
  <2>2. ASSUME NEW u \in Handlers
        PROVE  role'[u] # None <=> rpc'[u] = "grant" /\ pc'[u] = "write"
    BY <1>1, <2>1 DEF TypeOK, GrantTypes, OthersKeep
  <2>3. ASSUME NEW u \in found'
        PROVE  role'[u] # None /\ access'[target'[u]] # None
    BY <1>1, <2>1 DEF TypeOK, GrantTypes, OthersKeep
  <2> QED
    BY <1>1, <2>1, <2>2, <2>3 DEF TypeOK, GrantTypes
<1>3. CASE access[target[h]] # r
  <2>1. /\ role' = [role EXCEPT ![h] = r] /\ UNCHANGED <<said, rpc, target>>
        /\ pc' = [pc EXCEPT ![h] = "write"]
        /\ found' = IF access[target[h]] = None THEN found ELSE found \cup {h}
    BY <1>3 DEF LookupAccess, Continue, Goto
  <2>2. rpc[h] = "grant" /\ r # None
    BY ConstantsAssumption DEF LookupAccess, TypeOK, LocalTypes
  <2>3. ASSUME NEW u \in Handlers
        PROVE  role'[u] # None <=> rpc'[u] = "grant" /\ pc'[u] = "write"
    BY <2>1, <2>2 DEF TypeOK, GrantTypes, OthersKeep, LocalTypes
  <2>4. ASSUME NEW u \in found'
        PROVE  role'[u] # None /\ access'[target'[u]] # None
    BY <1>1, <2>1, <2>2 DEF TypeOK, GrantTypes
  <2> QED
    BY <1>1, <2>1, <2>3, <2>4 DEF TypeOK, GrantTypes
<1> QED
  BY <1>2, <1>3

LEMMA GrantKeeps ==
  ASSUME TypeOK, NEW h \in Handlers, OthersKeep(h), GrantAccess(h)
  PROVE  GrantTypes'
<1>1. /\ pc[h] = "write" /\ rpc[h] = "grant" /\ pc'[h] = "idle"
      /\ role' = [role EXCEPT ![h] = None] /\ found' = found \ {h}
  BY DEF GrantAccess, Write, Answer, Goto, TypeOK, LocalTypes
<1>2. role[h] \in Roles /\ role[h] # None
  BY <1>1 DEF TypeOK, GrantTypes
<1>3. /\ access' \in [Operators -> Roles \cup {None}]
      /\ said' \in [Operators -> Roles \cup {None}]
      /\ \A o \in Operators : access[o] # None => access'[o] # None
  BY <1>2 DEF GrantAccess, TypeOK, GrantTypes
<1>4. ASSUME NEW u \in Handlers
      PROVE  role'[u] # None <=> rpc'[u] = "grant" /\ pc'[u] = "write"
  BY <1>1 DEF TypeOK, GrantTypes, OthersKeep
<1>5. ASSUME NEW u \in found'
      PROVE  role'[u] # None /\ access'[target'[u]] # None
  <2>1. u # h /\ u \in found /\ u \in Handlers /\ target'[u] = target[u]
    BY <1>1 DEF TypeOK, GrantTypes, OthersKeep
  <2>2. target[u] \in Operators
    BY <2>1, ConstantsAssumption DEF TypeOK, GrantTypes, LocalTypes
  <2> QED
    BY <1>1, <1>3, <2>1, <2>2 DEF TypeOK, GrantTypes
<1> QED
  BY <1>1, <1>3, <1>4, <1>5 DEF TypeOK, GrantTypes

LEMMA RevokeKeeps ==
  ASSUME TypeOK, NEW h \in Handlers, OthersKeep(h), RevokeAccess(h)
  PROVE  GrantTypes'
<1>1. /\ pc[h] = "write" /\ rpc[h] = "ungrant" /\ pc'[h] = "idle" /\ role' = role
      /\ found' = {u \in found : target[u] # target[h]}
      /\ access' = [access EXCEPT ![target[h]] = None]
      /\ said' = [said EXCEPT ![target[h]] = None]
  BY DEF RevokeAccess, Write, Answer, Goto, TypeOK, LocalTypes
<1>2. role[h] = None /\ h \notin found
  BY <1>1 DEF TypeOK, GrantTypes
<1>3. /\ access' \in [Operators -> Roles \cup {None}]
      /\ said' \in [Operators -> Roles \cup {None}]
  BY <1>1 DEF TypeOK, GrantTypes
<1>4. ASSUME NEW u \in Handlers
      PROVE  role'[u] # None <=> rpc'[u] = "grant" /\ pc'[u] = "write"
  BY <1>1, <1>2 DEF TypeOK, GrantTypes, OthersKeep
<1>5. ASSUME NEW u \in found'
      PROVE  role'[u] # None /\ access'[target'[u]] # None
  <2>1. u # h /\ u \in found /\ target[u] # target[h] /\ target'[u] = target[u]
    BY <1>1, <1>2 DEF TypeOK, GrantTypes, OthersKeep
  <2> QED
    BY <1>1, <2>1 DEF TypeOK, GrantTypes
<1> QED
  BY <1>1, <1>3, <1>4, <1>5 DEF TypeOK, GrantTypes

(* The grants keep their types, and a row that was found stays live until  *)
(* a revocation takes it from its finder.                                  *)
LEMMA GrantStep ==
  ASSUME TypeOK, NEW h \in Handlers, HandlerStep(h)
  PROVE  GrantTypes'
<1>0. OthersKeep(h)
  BY StepOfOne
<1>1. ASSUME NEW r \in Roles, LookupAccess(h, r) PROVE GrantTypes'
  <2>0. /\ pc[h] = "lookup" /\ target[h] \in Operators /\ target[h] # None
        /\ role[h] = None /\ rpc[h] # "none"
    BY <1>1, ConstantsAssumption DEF LookupAccess, TypeOK, LocalTypes, GrantTypes
  <2> QED
    BY <1>0, <1>1, <2>0, LookupKeeps
<1>2. CASE GrantAccess(h)
  BY <1>0, <1>2, GrantKeeps
<1>3. CASE RevokeAccess(h)
  BY <1>0, <1>3, RevokeKeeps
<1>4. CASE ~(\E r \in Roles : LookupAccess(h, r)) /\ ~GrantAccess(h) /\ ~RevokeAccess(h)
  <2>1. UNCHANGED grants
    BY <1>4 DEF HandlerStep, Arrive, Login, LoadPrincipal, FindTarget, CountAdmins,
       CreateOperator, UpdateIsAdmin, DeleteOperator, Issue, IssueSession, IssueToken,
       Logout, RevokeToken, Ends
  <2>2. ~(rpc[h] = "grant" /\ pc[h] = "write")
    BY <1>4 DEF HandlerStep, Arrive, Login, LoadPrincipal, FindTarget, CountAdmins,
       CreateOperator, UpdateIsAdmin, DeleteOperator, Issue, IssueSession, IssueToken,
       Logout, RevokeToken, Write, Answer, Continue, Goto
  <2>3. ~(rpc'[h] = "grant" /\ pc'[h] = "write")
    <3> USE DEF TypeOK, LocalTypes, Continue, Answer, Goto, Write
    <3>1. CASE LoadPrincipal(h)
      BY <3>1 DEF LoadPrincipal, NeedsTarget
    <3>2. CASE FindTarget(h)
      BY <3>2 DEF FindTarget, Removal
    <3>3. CASE CountAdmins(h)
      BY <3>3 DEF CountAdmins
    <3>4. CASE ~LoadPrincipal(h) /\ ~FindTarget(h) /\ ~CountAdmins(h)
      BY <1>4, <3>4 DEF HandlerStep, Arrive, Login, CreateOperator, UpdateIsAdmin,
         DeleteOperator, IssueSession, IssueToken, Logout, RevokeToken
    <3> QED
      BY <3>1, <3>2, <3>3, <3>4
  <2>4. role[h] = None
    BY <2>2 DEF TypeOK, GrantTypes
  <2> QED
    BY <1>0, <2>1, <2>3, <2>4, GrantsKeep
<1> QED
  BY <1>1, <1>2, <1>3, <1>4

(* Every step keeps the types and the wiring of a handler's locals.        *)
LEMMA TypeStep == TypeOK /\ [Next]_vars => TypeOK'
<1> SUFFICES ASSUME TypeOK, [Next]_vars PROVE TypeOK'
  OBVIOUS
<1> DEFINE Types == TableTypes' /\ TokenTypes' /\ LocalTypes'
<1> USE ConstantsAssumption
    DEF TableTypes, TokenTypes, LocalTypes, PCs, RPCs, AdminRPCs, tables, tokens,
        Goto, Continue, Answer, Write
<1>1. ASSUME NEW h \in Handlers, NEW r \in RPCs, NEW c \in Tokens,
             NEW o \in Operators \cup {None}, Arrive(h, r, c, o)
      PROVE  Types
  BY <1>1 DEF TypeOK, Arrive, GoodSession, GoodToken
<1>2. ASSUME NEW h \in Handlers, NEW o \in Operators, Login(h, o)
      PROVE  Types
  BY <1>2 DEF TypeOK, Login
<1>3. ASSUME NEW h \in Handlers, LoadPrincipal(h) PROVE Types
  BY <1>3 DEF TypeOK, LoadPrincipal, NeedsTarget
<1>4. ASSUME NEW h \in Handlers, FindTarget(h) PROVE Types
  BY <1>4 DEF TypeOK, FindTarget, Removal
<1>5. ASSUME NEW h \in Handlers, CountAdmins(h) PROVE Types
  BY <1>5 DEF TypeOK, CountAdmins
<1>6. ASSUME NEW h \in Handlers, NEW flag \in BOOLEAN, CreateOperator(h, flag)
      PROVE  Types
  BY <1>6 DEF TypeOK, CreateOperator
<1>7. ASSUME NEW h \in Handlers, NEW r \in {"promote", "demote"},
             NEW flag \in BOOLEAN, UpdateIsAdmin(h, r, flag)
      PROVE  Types
  BY <1>7 DEF TypeOK, UpdateIsAdmin
<1>8. ASSUME NEW h \in Handlers, DeleteOperator(h) PROVE Types
  BY <1>8 DEF TypeOK, DeleteOperator
<1>9. ASSUME NEW h \in Handlers, NEW c \in Tokens,
             IssueSession(h, c) \/ IssueToken(h, c)
      PROVE  Types
  <2>1. target[h] \in Operators
    BY <1>9 DEF TypeOK, IssueSession, IssueToken
  <2> QED
    BY <1>9, <2>1 DEF TypeOK, Issue, IssueSession, IssueToken
<1>10. ASSUME NEW cs \in SUBSET Tokens, Ends(cs) PROVE TableTypes' /\ TokenTypes'
  BY <1>10 DEF TypeOK, Ends
<1>11. ASSUME NEW h \in Handlers, Logout(h) PROVE Types
  <2>1. {tok[h]} \cap sessions \in SUBSET Tokens
    BY DEF TypeOK
  <2>2. LocalTypes'
    BY <1>11 DEF TypeOK, Logout
  <2> QED
    BY <1>10, <1>11, <2>1, <2>2 DEF Logout
<1>12. ASSUME NEW h \in Handlers, NEW c \in Tokens, RevokeToken(h, c) PROVE Types
  <2>1. {c} \ sessions \in SUBSET Tokens
    OBVIOUS
  <2>2. LocalTypes'
    BY <1>12 DEF TypeOK, RevokeToken
  <2> QED
    BY <1>10, <1>12, <2>1, <2>2 DEF RevokeToken
<1>13. ASSUME NEW h \in Handlers, NEW r \in Roles, LookupAccess(h, r) PROVE Types
  BY <1>13 DEF TypeOK, LookupAccess
<1>14. ASSUME NEW h \in Handlers, GrantAccess(h) \/ RevokeAccess(h) PROVE Types
  BY <1>14 DEF TypeOK, GrantAccess, RevokeAccess
<1>15. CASE UNCHANGED vars
  BY <1>15 DEF TypeOK, vars, GrantTypes, HistoryTypes
<1>16. CASE \E c \in Tokens : TokenExpires(c)
  <2>1. TableTypes' /\ TokenTypes'
    BY <1>10, <1>16 DEF TokenExpires
  <2>2. UNCHANGED <<grants, locals, history>>
    BY <1>16 DEF TokenExpires, Ends
  <2> QED
    BY <2>1, <2>2 DEF TypeOK, grants, locals, history, GrantTypes, HistoryTypes
<1>17. CASE \E h \in Handlers : HandlerStep(h)
  <2>1. PICK h \in Handlers : HandlerStep(h)
    BY <1>17
  <2>2. Types
    BY <2>1, <1>1, <1>2, <1>3, <1>4, <1>5, <1>6, <1>7, <1>8, <1>9, <1>11, <1>12, <1>13,
       <1>14 DEF HandlerStep
  <2>3. HistoryTypes'
    BY <2>1, StepOfOne, HistoryStep DEF TypeOK
  <2>4. GrantTypes'
    BY <2>1, GrantStep
  <2> QED
    BY <2>2, <2>3, <2>4 DEF TypeOK
<1> QED
  BY <1>15, <1>16, <1>17 DEF Next

-----------------------------------------------------------------------------
(* What happens to the set of admins: only a removal takes one out, and    *)
(* then its own target.                                                    *)
LEMMA AdminsMove ==
  ASSUME TypeOK, NEW h \in Handlers, HandlerStep(h)
  PROVE  \/ Admins \subseteq Admins'
         \/ /\ Removal(h) /\ pc[h] = "write" /\ pc'[h] = "idle"
            /\ Admins \ {target[h]} \subseteq Admins'
<1> USE DEF TypeOK, TableTypes, LocalTypes, Admins, tables
<1>1. ASSUME NEW flag \in BOOLEAN, CreateOperator(h, flag)
      PROVE  Admins \subseteq Admins'
  BY <1>1 DEF CreateOperator, Write, Answer
<1>2. ASSUME UpdateIsAdmin(h, "promote", TRUE) PROVE Admins \subseteq Admins'
  BY <1>2 DEF UpdateIsAdmin, Write, Answer
<1>3. ASSUME UpdateIsAdmin(h, "demote", FALSE) \/ DeleteOperator(h)
      PROVE  /\ Removal(h) /\ pc[h] = "write" /\ pc'[h] = "idle"
             /\ Admins \ {target[h]} \subseteq Admins'
  BY <1>3 DEF UpdateIsAdmin, DeleteOperator, Write, Answer, Goto, Removal
<1>4. UNCHANGED tables => Admins \subseteq Admins'
  OBVIOUS
<1> QED
  BY <1>1, <1>2, <1>3, <1>4 DEF HandlerStep, Arrive, Login, LoadPrincipal, FindTarget,
     CountAdmins, LookupAccess, GrantAccess, RevokeAccess, Issue, IssueSession,
     IssueToken, Logout, RevokeToken, Ends

(* A removal that comes to its write has just seen an admin to spare.      *)
LEMMA ReachesWrite ==
  ASSUME TypeOK, Admins # {}, NEW h \in Handlers, HandlerStep(h),
         Removal(h)', pc'[h] = "write"
  PROVE  Admins' = Admins /\ \E a \in Admins : a # target'[h]
<1> USE DEF TypeOK, TableTypes, LocalTypes, Removal, PCs
<1>1. ASSUME FindTarget(h)
      PROVE  Admins' = Admins /\ \E a \in Admins : a # target'[h]
  BY <1>1 DEF FindTarget, Continue, Answer, Goto, Admins, tables
<1>2. ASSUME CountAdmins(h)
      PROVE  Admins' = Admins /\ \E a \in Admins : a # target'[h]
  BY <1>2 DEF CountAdmins, Several, Continue, Answer, Goto, Admins, tables
<1>3. ~LoadPrincipal(h)
  BY DEF LoadPrincipal, NeedsTarget, Continue, Answer, Goto
<1> QED
  BY <1>1, <1>2, <1>3 DEF HandlerStep, Arrive, Login, CreateOperator, UpdateIsAdmin,
     LookupAccess, Continue, DeleteOperator, GrantAccess, RevokeAccess, IssueSession,
     IssueToken, Logout, RevokeToken, Write, Answer, Goto

(* The guards of a step of one handler keep an admin to spare.             *)
LEMMA GuardsStep ==
  ASSUME SafetyInv, NEW h \in Handlers, HandlerStep(h)
  PROVE  (GuardsSuffice /\ RemovalsApart /\ SpareAdmin)'
<1>1. TypeOK /\ OthersKeep(h) /\ Remember
  BY StepOfOne DEF SafetyInv
<1>2. CASE overlapped'
  BY <1>2 DEF GuardsSuffice, RemovalsApart, SpareAdmin
<1>3. CASE ~overlapped'
  <2>1. ~overlapped /\ ~Overlap'
    BY <1>1, <1>3, Zenon DEF Remember
  <2>2. Admins # {} /\ ~Overlap
    BY <2>1 DEF SafetyInv, GuardsSuffice, AdminRemains, RemovalsApart
  <2>3. \A u \in Handlers : Removal(u) /\ pc[u] = "write" => \E a \in Admins : a # target[u]
    BY <2>1 DEF SafetyInv, SpareAdmin
  <2>4. Admins' # {}
    BY <1>1, <2>2, <2>3, AdminsMove
  <2>5. ASSUME NEW u \in Handlers, Removal(u)', pc'[u] = "write"
        PROVE  \E a \in Admins' : a # target'[u]
    <3>1. CASE u = h
      BY <1>1, <2>2, <2>5, <3>1, ReachesWrite
    <3>2. CASE u # h
      <4>1. Removal(u) /\ pc[u] = "write" /\ target'[u] = target[u]
        BY <1>1, <2>5, <3>2 DEF OthersKeep, Removal
      <4>2. ~(Removal(h) /\ pc[h] = "write")
        BY <2>2, <3>2, <4>1 DEF Overlap, Deciding
      <4> QED
        BY <1>1, <2>3, <4>1, <4>2, AdminsMove
    <3> QED
      BY <3>1, <3>2
  <2> QED
    BY <2>1, <2>4, <2>5 DEF GuardsSuffice, AdminRemains, RemovalsApart, SpareAdmin
<1> QED
  BY <1>2, <1>3

(* Authority is remembered from the instant it was read.                   *)
LEMMA FreshStep ==
  ASSUME SafetyInv, NEW h \in Handlers, HandlerStep(h)
  PROVE  AuthorityFresh'
<1>1. TypeOK /\ AuthorityFresh /\ OthersKeep(h) /\ Remember
  BY StepOfOne DEF SafetyInv
<1>2. SUFFICES ASSUME NEW u \in Handlers, rpc'[u] \in AdminRPCs,
                      pc'[u] \in {"find", "count", "lookup", "write"}
               PROVE  u \in was'
  BY DEF AuthorityFresh
<1>3. u \in was \/ caller'[u] \in Admins' => u \in was'
  BY <1>1, <1>2 DEF Remember
<1>4. CASE u # h
  BY <1>1, <1>2, <1>3, <1>4 DEF OthersKeep, AuthorityFresh
<1>5. CASE u = h
  <2>1. CASE LoadPrincipal(h)
    BY <1>1, <1>2, <1>3, <1>5, <2>1
       DEF LoadPrincipal, Authorised, Continue, Answer, Goto, Admins, TypeOK, LocalTypes,
           TokenTypes, tables
  <2>2. CASE FindTarget(h) \/ CountAdmins(h) \/ \E r \in Roles : LookupAccess(h, r)
    BY <1>1, <1>2, <1>3, <1>5, <2>2
       DEF FindTarget, CountAdmins, LookupAccess, Continue, Answer, Goto, AuthorityFresh, TypeOK,
           LocalTypes
  <2>3. \/ LoadPrincipal(h) \/ FindTarget(h) \/ CountAdmins(h)
        \/ \E r \in Roles : LookupAccess(h, r)
    BY <1>1, <1>2, <1>5
       DEF HandlerStep, Arrive, Login, CreateOperator, UpdateIsAdmin, DeleteOperator,
           GrantAccess, RevokeAccess, IssueSession, IssueToken, Logout, RevokeToken,
           Write, Answer, Goto, TypeOK, LocalTypes, AdminRPCs
  <2> QED
    BY <2>1, <2>2, <2>3
<1> QED
  BY <1>4, <1>5

(* What a grant or a revocation answers is what it has done.               *)
LEMMA AnswersStep ==
  ASSUME LastAnswerStands, NEW h \in Handlers, HandlerStep(h), TypeOK
  PROVE  LastAnswerStands'
<1> USE DEF LastAnswerStands
<1>1. ASSUME NEW r \in Roles, LookupAccess(h, r) PROVE access' = said'
  <2>1. access \in [Operators -> Roles \cup {None}]
    BY DEF TypeOK, GrantTypes
  <2> QED
    BY <1>1, <2>1 DEF LookupAccess
<1>2. CASE GrantAccess(h) \/ RevokeAccess(h)
  BY <1>2 DEF GrantAccess, RevokeAccess
<1>3. UNCHANGED grants => access' = said'
  BY DEF grants
<1> QED
  BY <1>1, <1>2, <1>3 DEF HandlerStep, Arrive, Login, LoadPrincipal, FindTarget,
     CountAdmins, CreateOperator, UpdateIsAdmin, DeleteOperator, Issue, IssueSession,
     IssueToken, Logout, RevokeToken, Ends

(* The inductive invariant is kept by every step.                          *)
LEMMA SafetyStep == SafetyInv /\ [Next]_vars => SafetyInv'
<1> SUFFICES ASSUME SafetyInv, [Next]_vars PROVE SafetyInv'
  OBVIOUS
<1>1. TypeOK'
  BY TypeStep DEF SafetyInv
<1>2. ASSUME NEW h \in Handlers, HandlerStep(h) PROVE SafetyInv'
  BY <1>1, <1>2, GuardsStep, FreshStep, AnswersStep DEF SafetyInv
<1>3. CASE UNCHANGED <<tables, grants, locals, history>>
  BY <1>1, <1>3
     DEF SafetyInv, LastAnswerStands, grants, GuardsSuffice, AdminRemains, AuthorityFresh, RemovalsApart, Overlap,
         Deciding, Removal, SpareAdmin, Admins, tables, locals, history
<1> QED
  BY <1>2, <1>3 DEF Next, TokenExpires, Ends, vars, tables, grants, locals, history

(* The seeded accounts satisfy the invariant.                              *)
LEMMA SafetyInit == Init => SafetyInv
<1> SUFFICES ASSUME Init PROVE SafetyInv
  OBVIOUS
<1> USE ConstantsAssumption DEF Init
<1>1. TypeOK
  BY DEF TypeOK, TableTypes, TokenTypes, GrantTypes, LocalTypes, HistoryTypes, PCs, RPCs
<1>2. GuardsSuffice /\ AuthorityFresh /\ LastAnswerStands
  BY DEF LastAnswerStands, GuardsSuffice, AdminRemains, AuthorityFresh
<1>3. RemovalsApart /\ SpareAdmin
  BY DEF RemovalsApart, SpareAdmin, Overlap, Deciding
<1> QED
  BY <1>1, <1>2, <1>3 DEF SafetyInv

(* The inductive invariant of the operator accounts.                       *)
THEOREM SafetyInvariant == Spec => []SafetyInv
BY SafetyInit, SafetyStep, PTL DEF Spec

(* Whatever handlers run at once, the last admin survives unless two       *)
(* removals overlapped between their lookup and their write: the guards of *)
(* UpdateOperator and DeleteOperator hold against everything else.         *)
THEOREM LastAdminGuarded == Spec => []GuardsSuffice
<1>1. SafetyInv => GuardsSuffice
  BY DEF SafetyInv
<1> QED
  BY <1>1, SafetyInvariant, PTL

(* Grants and revocations that cross, refused and repeated ones included,  *)
(* leave the access that the last answer without an error spoke of.        *)
THEOREM AnswersStand == Spec => []LastAnswerStands
<1>1. SafetyInv => LastAnswerStands
  BY DEF SafetyInv
<1> QED
  BY <1>1, SafetyInvariant, PTL

(* No handler acts on an authority its caller did not have at some instant *)
(* since the request arrived.                                              *)
THEOREM AuthorityIsFresh == Spec => []AuthorityFresh
<1>1. SafetyInv => AuthorityFresh
  BY DEF SafetyInv
<1> QED
  BY <1>1, SafetyInvariant, PTL

===============================================================================
