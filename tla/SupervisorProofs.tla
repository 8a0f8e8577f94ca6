--------------------------- MODULE SupervisorProofs ---------------------------
(* Proofs about Supervisor: type correctness, what Run leaves behind, the   *)
(* order of signals, the law of the delays, the one late start, and that    *)
(* every step of Run, watcher and child is a step of the contract or none.  *)
EXTENDS Supervisor, FiniteSetTheorems, TLAPS

(* Where a child and its watcher are, and what each of them implies.        *)
Places ==
  /\ child # "none" <=> pc \in {"started", "wait"}
  /\ watcher # "none" => pc = "wait"
  /\ watcher = "grace" => termed
  /\ alive => pc \in {"wait", "reaped"}

IInv == TypeOK /\ Places /\ SignalDiscipline /\ OneLateStart

LEMMA AtMostBounds ==
  ASSUME NEW n \in Nat \ {0}, NEW bound \in Nat \ {0}
  PROVE  AtMost(n, bound) \in 1..bound
BY DEF AtMost

LEMMA InitIInv == Init => IInv
<1> SUFFICES ASSUME Init PROVE IInv
  OBVIOUS
<1>1. backoff \in 1..MaxBackoff /\ short \in 0..ShortCap /\ lateStarts \in Nat
  BY BoundsAssumption DEF Init
<1>2. TypeOK
  BY <1>1 DEF Init, TypeOK, PCs
<1>3. Places
  BY DEF Init, Places
<1>4. SignalDiscipline
  BY DEF Init, SignalDiscipline
<1>5. OneLateStart
  BY DEF Init, OneLateStart
<1> QED
  BY <1>2, <1>3, <1>4, <1>5 DEF IInv

Numbers == backoff \in 1..MaxBackoff /\ short \in 0..ShortCap /\ lateStarts \in Nat

LEMMA NumbersStep == Numbers /\ [Next]_vars => Numbers'
<1> SUFFICES ASSUME Numbers, [Next]_vars PROVE Numbers'
  OBVIOUS
<1> USE DEF Numbers, Step, run
<1>1. CASE RunBegins \/ CheckCtx \/ StartFails \/ Watch \/ Reap \/ BackoffCancelled
  BY <1>1 DEF RunBegins, CheckCtx, StartFails, Watch, Reap, BackoffCancelled
<1>2. CASE StartSucceeds
  BY <1>2 DEF StartSucceeds
<1>3. ASSUME NEW long \in BOOLEAN, AfterRun(long) PROVE Numbers'
  BY <1>3, BoundsAssumption DEF AfterRun
<1>4. CASE BackoffElapses
  <2>1. backoff' \in 1..MaxBackoff
    BY <1>4, BoundsAssumption, AtMostBounds, 2 * backoff \in Nat \ {0}
       DEF BackoffElapses
  <2>2. short' \in 0..ShortCap
    BY <1>4, BoundsAssumption DEF BackoffElapses, AtMost
  <2> QED
    BY <1>4, <2>1, <2>2 DEF BackoffElapses
<1>5. CASE WatcherStep
  BY <1>5 DEF WatcherStep, WatcherTerminates, GraceExpires
<1>6. CASE OwnerCancels \/ ChildExits
  BY <1>6 DEF OwnerCancels, ChildExits
<1>7. CASE UNCHANGED vars
  BY <1>7 DEF vars
<1> QED
  BY <1>1, <1>2, <1>3, <1>4, <1>5, <1>6, <1>7 DEF Next, RunStep

LEMMA TypesStep == TypeOK /\ [Next]_vars => TypeOK'
<1> SUFFICES ASSUME TypeOK, [Next]_vars PROVE TypeOK'
  OBVIOUS
<1> DEFINE Others ==
      /\ pc \in PCs /\ ctxDone \in BOOLEAN
      /\ child \in {"none", "up", "dead"} /\ watcher \in {"none", "watching", "grace"}
      /\ termed \in BOOLEAN /\ killed \in BOOLEAN /\ alive \in BOOLEAN
<1>1. Numbers'
  BY NumbersStep DEF TypeOK, Numbers
<1>2. Others'
  <2> USE DEF TypeOK, PCs, Step, proc, run
  <2>1. CASE RunBegins \/ CheckCtx \/ StartSucceeds \/ StartFails
    BY <2>1 DEF RunBegins, CheckCtx, StartSucceeds, StartFails
  <2>2. CASE Watch \/ Reap
    BY <2>2 DEF Watch, Reap
  <2>3. ASSUME NEW long \in BOOLEAN, AfterRun(long) PROVE Others'
    BY <2>3 DEF AfterRun
  <2>4. CASE BackoffElapses \/ BackoffCancelled
    BY <2>4 DEF BackoffElapses, BackoffCancelled
  <2>5. CASE WatcherStep
    BY <2>5 DEF WatcherStep, WatcherTerminates, GraceExpires
  <2>6. CASE OwnerCancels \/ ChildExits
    BY <2>6 DEF OwnerCancels, ChildExits
  <2>7. CASE UNCHANGED vars
    BY <2>7 DEF vars
  <2> QED
    BY <2>1, <2>2, <2>3, <2>4, <2>5, <2>6, <2>7 DEF Next, RunStep
<1> QED
  BY <1>1, <1>2 DEF Numbers, TypeOK

LEMMA PlacesStep ==
  TypeOK /\ Places /\ SignalDiscipline /\ [Next]_vars => Places' /\ SignalDiscipline'
<1> SUFFICES ASSUME TypeOK, Places, SignalDiscipline, [Next]_vars
             PROVE  Places' /\ SignalDiscipline'
  OBVIOUS
<1> USE DEF TypeOK, PCs, Places, SignalDiscipline, Step, proc, run
<1>1. CASE RunBegins \/ CheckCtx \/ StartFails \/ StartSucceeds
  BY <1>1 DEF RunBegins, CheckCtx, StartFails, StartSucceeds
<1>2. CASE BackoffElapses \/ BackoffCancelled
  BY <1>2 DEF BackoffElapses, BackoffCancelled
<1>3. CASE Watch \/ Reap
  BY <1>3 DEF Watch, Reap
<1>4. ASSUME NEW long \in BOOLEAN, AfterRun(long) PROVE Places' /\ SignalDiscipline'
  BY <1>4 DEF AfterRun
<1>5. CASE WatcherStep
  BY <1>5 DEF WatcherStep, WatcherTerminates, GraceExpires
<1>6. CASE OwnerCancels \/ ChildExits
  BY <1>6 DEF OwnerCancels, ChildExits
<1>7. CASE UNCHANGED vars
  BY <1>7 DEF vars
<1> QED
  BY <1>1, <1>2, <1>3, <1>4, <1>5, <1>6, <1>7 DEF Next, RunStep

LEMMA LateStep == TypeOK /\ OneLateStart /\ [Next]_vars => OneLateStart'
<1> SUFFICES ASSUME TypeOK, OneLateStart, [Next]_vars PROVE OneLateStart'
  OBVIOUS
<1> USE DEF TypeOK, OneLateStart, Step, proc, run
<1>1. CASE StartSucceeds
  <2>1. lateStarts = 0
    BY <1>1 DEF StartSucceeds
  <2> QED
    BY <1>1, <2>1 DEF StartSucceeds
<1>2. CASE RunBegins \/ CheckCtx \/ StartFails \/ Watch \/ Reap
  BY <1>2 DEF RunBegins, CheckCtx, StartFails, Watch, Reap
<1>3. ASSUME NEW long \in BOOLEAN, AfterRun(long) PROVE OneLateStart'
  BY <1>3 DEF AfterRun
<1>4. CASE BackoffElapses \/ BackoffCancelled
  BY <1>4 DEF BackoffElapses, BackoffCancelled
<1>5. CASE WatcherStep
  BY <1>5 DEF WatcherStep, WatcherTerminates, GraceExpires
<1>6. CASE OwnerCancels \/ ChildExits
  BY <1>6 DEF OwnerCancels, ChildExits
<1>7. CASE UNCHANGED vars
  BY <1>7 DEF vars
<1> QED
  BY <1>1, <1>2, <1>3, <1>4, <1>5, <1>6, <1>7 DEF Next, RunStep

LEMMA SafetyStep == IInv /\ [Next]_vars => IInv'
BY TypesStep, PlacesStep, LateStep DEF IInv

(* The variables keep their types, whatever the cap of the delay.           *)
THEOREM TypeCorrect == Spec => []TypeOK
<1>1. Init => TypeOK
  BY InitIInv DEF IInv
<1> QED
  BY <1>1, TypesStep, PTL DEF Spec

LEMMA Invariant == Spec => []IInv
BY InitIInv, SafetyStep, PTL DEF Spec

(* No child, watcher or alive gauge outlives a run, on any path through it. *)
THEOREM NothingIsLeft == Spec => []NothingLeftBehind
<1>1. IInv => NothingLeftBehind
  BY DEF IInv, TypeOK, Places, NothingLeftBehind
<1> QED
  BY <1>1, Invariant, PTL

(* SIGTERM comes after a cancel only, and SIGKILL after SIGTERM only.       *)
THEOREM SignalsInOrder == Spec => []SignalDiscipline
<1>1. IInv => SignalDiscipline
  BY DEF IInv
<1> QED
  BY <1>1, Invariant, PTL

(* After a cancel at most one child is started, and Run ends with it.       *)
THEOREM OneStartAfterCancel == Spec => []OneLateStart
<1>1. IInv => OneLateStart
  BY DEF IInv
<1> QED
  BY <1>1, Invariant, PTL

-----------------------------------------------------------------------------
(* The delays                                                               *)

(* A set with one element more has twice as many subsets: what tells the    *)
(* provers that powers of two double.                                       *)
LEMMA PowerDoubles ==
  ASSUME NEW n \in Nat
  PROVE  2 ^ n \in Nat /\ 2 ^ (n + 1) = 2 * 2 ^ n
<1> DEFINE A == SUBSET (1..n)
           B == {X \cup {n + 1} : X \in A}
           f == [X \in A |-> X \cup {n + 1}]
<1>1. IsFiniteSet(1..n) /\ Cardinality(1..n) = n
  BY FS_Interval
<1>2. IsFiniteSet(1..(n + 1)) /\ Cardinality(1..(n + 1)) = n + 1
  BY FS_Interval
<1>3. IsFiniteSet(A) /\ Cardinality(A) = 2 ^ n
  BY <1>1, FS_SUBSET
<1>4. Cardinality(SUBSET (1..(n + 1))) = 2 ^ (n + 1)
  BY <1>2, FS_SUBSET
<1>5. Cardinality(A) \in Nat
  BY <1>3, FS_CardinalityType
<1>6. IsFiniteSet(B) /\ Cardinality(B) = Cardinality(A)
  <2>1. ASSUME NEW X \in A, NEW Y \in A, X \cup {n + 1} = Y \cup {n + 1}
        PROVE  X = Y
    <3>1. n + 1 \notin X /\ n + 1 \notin Y
      OBVIOUS
    <3> QED
      BY <2>1, <3>1
  <2>2. f \in [A -> B] /\ \A Z \in B : \E X \in A : f[X] = Z
    OBVIOUS
  <2>3. \A X, Y \in A : f[X] = f[Y] => X = Y
    BY <2>1
  <2>4. f \in Bijection(A, B)
    BY <2>2, <2>3 DEF Bijection, Injection, Surjection, IsInjective
  <2>5. ExistsBijection(A, B)
    BY <2>4 DEF ExistsBijection
  <2> QED
    BY <1>3, <2>5, FS_Bijection
<1>7. SUBSET (1..(n + 1)) = A \cup B
  <2>1. ASSUME NEW Z \in SUBSET (1..(n + 1)) PROVE Z \in A \cup B
    <3>1. CASE n + 1 \in Z
      <4>1. Z \ {n + 1} \in A /\ Z = (Z \ {n + 1}) \cup {n + 1}
        BY <3>1
      <4> QED
        BY <4>1
    <3>2. CASE n + 1 \notin Z
      BY <3>2
    <3> QED
      BY <3>1, <3>2
  <2>2. ASSUME NEW Z \in A \cup B PROVE Z \in SUBSET (1..(n + 1))
    <3>1. 1..n \subseteq 1..(n + 1) /\ n + 1 \in 1..(n + 1)
      OBVIOUS
    <3>2. CASE Z \in A
      BY <3>1, <3>2
    <3>3. ASSUME NEW X \in A, Z = X \cup {n + 1} PROVE Z \in SUBSET (1..(n + 1))
      BY <3>1, <3>3
    <3> QED
      BY <3>2, <3>3
  <2> QED
    BY <2>1, <2>2
<1>8. A \cap B = {}
  <2>1. \A X \in A : n + 1 \notin X
    OBVIOUS
  <2> QED
    BY <2>1
<1> HIDE DEF A, B
<1>9. Cardinality(A \cup B) = Cardinality(A) + Cardinality(B) - Cardinality(A \cap B)
  BY <1>3, <1>6, FS_Union
<1>10. Cardinality(A \cap B) = 0
  BY <1>8, FS_EmptySet
<1>11. 2 ^ (n + 1) = Cardinality(A) + Cardinality(A)
  <2>1. 2 ^ (n + 1) = Cardinality(A \cup B)
    BY <1>4, <1>7
  <2>2. Cardinality(A \cup B) = Cardinality(A) + Cardinality(A)
    BY <1>5, <1>6, <1>9, <1>10
  <2> QED
    BY <2>1, <2>2
<1> QED
  BY <1>3, <1>5, <1>11

LEMMA BackoffInit == Init => BackoffLaw
BY BoundsAssumption DEF Init, BackoffLaw, AtMost

(* The delay doubles up to its cap, as the power of two in the law does.    *)
LEMMA BackoffStep == TypeOK /\ BackoffLaw /\ [Next]_vars => BackoffLaw'
<1> SUFFICES ASSUME TypeOK, BackoffLaw, [Next]_vars PROVE BackoffLaw'
  OBVIOUS
<1>1. CASE UNCHANGED <<backoff, short>>
  BY <1>1 DEF BackoffLaw
<1>2. ASSUME NEW long \in BOOLEAN, AfterRun(long) PROVE BackoffLaw'
  <2>1. CASE backoff' = 1 /\ short' = 0
    BY <2>1, BoundsAssumption DEF BackoffLaw, AtMost
  <2> QED
    BY <1>1, <1>2, <2>1 DEF AfterRun
<1>3. CASE BackoffElapses
  <2> DEFINE power == 2 ^ short
  <2>1. power \in Nat /\ 2 ^ (short + 1) = 2 * power
    BY PowerDoubles DEF TypeOK
  <2>2. /\ backoff = AtMost(power, MaxBackoff)
        /\ backoff' = AtMost(2 * backoff, MaxBackoff)
        /\ short' = AtMost(short + 1, ShortCap)
    BY <1>3 DEF BackoffElapses, BackoffLaw
  <2>3. short \in Nat /\ short <= ShortCap /\ ShortCap \in Nat /\ MaxBackoff \in Nat \ {0}
    BY BoundsAssumption DEF TypeOK
  <2>4. CASE short < ShortCap
    <3>1. short' = short + 1
      BY <2>2, <2>3, <2>4 DEF AtMost
    <3>2. 2 ^ short' = 2 * power
      BY <2>1, <3>1
    <3>3. backoff' = AtMost(2 * power, MaxBackoff)
      BY <2>1, <2>2, <2>3 DEF AtMost
    <3> QED
      BY <3>2, <3>3 DEF BackoffLaw
  <2>5. CASE short = ShortCap
    <3>1. short' = short
      BY <2>2, <2>3, <2>5 DEF AtMost
    <3>2. power >= MaxBackoff
      BY <2>5, SaturationAssumption
    <3>3. backoff' = AtMost(power, MaxBackoff)
      BY <2>1, <2>2, <2>3, <3>2 DEF AtMost
    <3> QED
      BY <3>1, <3>3 DEF BackoffLaw
  <2> QED
    BY <2>3, <2>4, <2>5
<1> QED
  BY <1>1, <1>2, <1>3 DEF Next, RunStep, WatcherStep, RunBegins, CheckCtx,
     StartSucceeds, StartFails, Watch, Reap, BackoffCancelled, WatcherTerminates,
     GraceExpires, OwnerCancels, ChildExits, run, vars

(* However runs end, the delay is the capped power of two of the number of  *)
(* pauses since the last long one, for any cap.                             *)
THEOREM DelaysDouble == Spec => []BackoffLaw
BY TypeCorrect, BackoffInit, BackoffStep, PTL DEF Spec

-----------------------------------------------------------------------------
(* The contract                                                             *)

PhaseTold ==
  /\ pc = "new" => Phase = "queued"
  /\ pc = "start" => Phase = "starting"
  /\ child = "up" => Phase = "up"
  /\ pc = "done" => Phase = "done"
  /\ pc \in {"check", "reaped", "backoff"} => Phase = "looping"
  /\ child = "dead" => Phase = "looping"

LEMMA PhaseIs == IInv => PhaseTold
BY DEF IInv, TypeOK, Places, PhaseTold, Phase

(* Every step of the supervisor is one of the contract, or a stutter.       *)
LEMMA StepOfContract ==
  ASSUME IInv, IInv', PhaseTold, PhaseTold', [Next]_vars
  PROVE  [Contract!Next]_(Contract!vars)
<1> USE DEF PhaseTold, Step, proc, run, Contract!vars
<1>1. CASE RunBegins
  BY <1>1 DEF RunBegins, Contract!Next, Contract!Begin, Contract!Goto
<1>2. CASE CheckCtx
  BY <1>2 DEF IInv, TypeOK, CheckCtx, Contract!Next, Contract!GiveUp, Contract!GoOn,
     Contract!Goto
<1>3. CASE StartSucceeds
  BY <1>3 DEF StartSucceeds, Contract!Next, Contract!Launch, Contract!Goto
<1>4. CASE StartFails
  BY <1>4 DEF StartFails, Contract!Next, Contract!LaunchFails, Contract!Goto
<1>5. CASE Watch
  BY <1>5 DEF IInv, TypeOK, Places, Watch
<1>6. CASE Reap
  BY <1>6 DEF Reap
<1>7. ASSUME NEW long \in BOOLEAN, AfterRun(long) PROVE [Contract!Next]_(Contract!vars)
  BY <1>7 DEF AfterRun, Contract!Next, Contract!GiveUp, Contract!Goto
<1>8. CASE BackoffElapses
  BY <1>8 DEF BackoffElapses
<1>9. CASE BackoffCancelled
  BY <1>9 DEF BackoffCancelled, Contract!Next, Contract!GiveUp, Contract!Goto
<1>10. CASE WatcherStep
  BY <1>10 DEF IInv, TypeOK, Places, WatcherStep, WatcherTerminates, GraceExpires
<1>11. CASE OwnerCancels
  BY <1>11 DEF OwnerCancels, Contract!Next, Contract!Cancel, Phase
<1>12. CASE ChildExits
  BY <1>12 DEF ChildExits, Contract!Next, Contract!ChildDies, Contract!Goto
<1>13. CASE UNCHANGED vars
  BY <1>13 DEF vars, Phase
<1> QED
  BY <1>1, <1>2, <1>3, <1>4, <1>5, <1>6, <1>7, <1>8, <1>9, <1>10, <1>11, <1>12, <1>13
     DEF Next, RunStep

(* The detailed supervisor implements what its owners rely on.              *)
THEOREM KeepsContract == Spec => ImplementsContract
<1>1. Init => Contract!Init
  BY DEF Init, Phase, Contract!Init
<1>2. IInv /\ IInv' /\ [Next]_vars => [Contract!Next]_(Contract!vars)
  <2> SUFFICES ASSUME IInv, IInv', [Next]_vars PROVE [Contract!Next]_(Contract!vars)
    OBVIOUS
  <2>1. PhaseTold
    BY PhaseIs
  <2>2. PhaseTold'
    BY PhaseIs, PTL
  <2> QED
    BY <2>1, <2>2, StepOfContract
<1> QED
  BY <1>1, <1>2, Invariant, PTL DEF Spec, ImplementsContract, Contract!Spec
=============================================================================
