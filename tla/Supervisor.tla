------------------------------ MODULE Supervisor ------------------------------
(***************************************************************************)
(* internal/supervisor: Supervisor.Run and runOnce, the goroutine that     *)
(* watches the context for one child, the child process itself and the     *)
(* "alive" gauge its owner drives from OnStart and OnExit.                 *)
(*                                                                         *)
(* Time is abstract: a timer may fire at any point after it is armed, a    *)
(* run may turn out to have been long (over 60s) or short.  A watcher that *)
(* outlives its runOnce can only signal a process that was already reaped, *)
(* which os.Process refuses, so only the current watcher is kept.          *)
(***************************************************************************)
EXTENDS Integers

CONSTANTS
  MaxBackoff,   (* the cap on the restart delay, in seconds: 30 in Run      *)
  ShortCap      (* bound: where the history counter "short" saturates       *)

ASSUME BoundsAssumption == MaxBackoff \in Nat \ {0} /\ ShortCap \in Nat
ASSUME SaturationAssumption == 2 ^ ShortCap >= MaxBackoff

VARIABLES
  pc,           (* where Run stands, see PCs                                *)
  ctxDone,      (* the context handed to Run                                *)
  child,        (* "none", "up", or "dead": exited, not yet reaped by Wait  *)
  watcher,      (* the ctx watcher of the current child                     *)
  termed,       (* SIGTERM was sent to the current child                    *)
  killed,       (* SIGKILL was sent to the current child                    *)
  backoff,      (* Run's backoff local                                      *)
  alive,        (* the gauge: OnStart sets it, OnExit clears it             *)
  short,        (* history: pauses since the last long run, saturating      *)
  lateStarts    (* history: children launched after ctx was done            *)

run == <<pc, backoff, short>>
proc == <<child, watcher, termed, killed>>
vars == <<pc, ctxDone, child, watcher, termed, killed, backoff, alive,
          short, lateStarts>>

PCs == {"new", "check", "start", "started", "wait", "reaped", "backoff",
        "done"}

AtMost(n, bound) == IF n > bound THEN bound ELSE n

TypeOK ==
  /\ pc \in PCs
  /\ ctxDone \in BOOLEAN
  /\ child \in {"none", "up", "dead"}
  /\ watcher \in {"none", "watching", "grace"}
  /\ termed \in BOOLEAN /\ killed \in BOOLEAN /\ alive \in BOOLEAN
  /\ backoff \in 1..MaxBackoff
  /\ short \in 0..ShortCap
  /\ lateStarts \in Nat

Init ==
  /\ pc = "new" /\ ctxDone \in BOOLEAN
  /\ child = "none" /\ watcher = "none" /\ termed = FALSE /\ killed = FALSE
  /\ backoff = 1 /\ alive = FALSE /\ short = 0 /\ lateStarts = 0

Step(from, to) == pc = from /\ pc' = to

-----------------------------------------------------------------------------
(* Run and runOnce                                                         *)

RunBegins ==
  /\ Step("new", "check")
  /\ UNCHANGED <<ctxDone, proc, backoff, alive, short, lateStarts>>

(* Mutant: no look at ctx before a launch.                                 *)
CheckNothing ==
  /\ Step("check", "start")
  /\ UNCHANGED <<ctxDone, proc, backoff, alive, short, lateStarts>>

(* The select at the top of the loop: the only look at ctx before a launch.*)
CheckCtx ==
  /\ Step("check", IF ctxDone THEN "done" ELSE "start")
  /\ UNCHANGED <<ctxDone, proc, backoff, alive, short, lateStarts>>

StartSucceeds ==
  /\ Step("start", "started")
  /\ child' = "up" /\ termed' = FALSE /\ killed' = FALSE
  /\ lateStarts' = lateStarts + (IF ctxDone THEN 1 ELSE 0)
  /\ UNCHANGED <<ctxDone, watcher, backoff, alive, short>>

(* A pipe or exec error: OnExit runs although OnStart did not.             *)
StartFails ==
  /\ Step("start", "reaped")
  /\ UNCHANGED <<ctxDone, proc, backoff, alive, short, lateStarts>>

(* OnStart, then the goroutines: pipes and the ctx watcher.                *)
Watch ==
  /\ Step("started", "wait")
  /\ alive' = TRUE /\ watcher' = "watching"
  /\ UNCHANGED <<ctxDone, child, termed, killed, backoff, short, lateStarts>>

(* cmd.Wait returns, waitDone is closed and s.cmd cleared.                 *)
Reap ==
  /\ Step("wait", "reaped") /\ child = "dead"
  /\ child' = "none" /\ watcher' = "none"
  /\ UNCHANGED <<ctxDone, termed, killed, backoff, alive, short, lateStarts>>

(* Mutants of the end of a run: OnExit is not called, the delay is not     *)
(* reset after a long run.                                                 *)
AfterRunSilent(long) ==
  /\ Step("reaped", IF ctxDone THEN "done" ELSE "backoff")
  /\ IF long /\ ~ctxDone THEN backoff' = 1 /\ short' = 0
                         ELSE UNCHANGED <<backoff, short>>
  /\ UNCHANGED <<ctxDone, proc, alive, lateStarts>>

AfterRunGrudge(long) ==
  /\ Step("reaped", IF ctxDone THEN "done" ELSE "backoff")
  /\ alive' = FALSE
  /\ short' = IF long /\ ~ctxDone THEN 0 ELSE short
  /\ UNCHANGED <<ctxDone, proc, backoff, lateStarts>>

(* OnExit, the second look at ctx, and the reset of the delay after a run  *)
(* that lasted.                                                            *)
AfterRun(long) ==
  /\ Step("reaped", IF ctxDone THEN "done" ELSE "backoff")
  /\ alive' = FALSE
  /\ IF long /\ ~ctxDone THEN backoff' = 1 /\ short' = 0
                         ELSE UNCHANGED <<backoff, short>>
  /\ UNCHANGED <<ctxDone, proc, lateStarts>>

(* Mutant: Run gives up after two short runs.                              *)
BackoffLimited ==
  /\ Step("backoff", "check") /\ short < 2
  /\ backoff' = AtMost(2 * backoff, MaxBackoff)
  /\ short' = AtMost(short + 1, ShortCap)
  /\ UNCHANGED <<ctxDone, proc, alive, lateStarts>>

(* time.After(backoff) fires, and the delay doubles up to the cap.         *)
BackoffElapses ==
  /\ Step("backoff", "check")
  /\ backoff' = AtMost(2 * backoff, MaxBackoff)
  /\ short' = AtMost(short + 1, ShortCap)
  /\ UNCHANGED <<ctxDone, proc, alive, lateStarts>>

BackoffCancelled ==
  /\ Step("backoff", "done") /\ ctxDone
  /\ UNCHANGED <<ctxDone, proc, backoff, alive, short, lateStarts>>

-----------------------------------------------------------------------------
(* The watcher of the current child                                        *)

(* Mutants: SIGKILL at once; no SIGKILL ever.                              *)
WatcherKills ==
  /\ watcher = "watching" /\ ctxDone
  /\ watcher' = "none" /\ killed' = TRUE
  /\ UNCHANGED <<run, ctxDone, child, termed, alive, lateStarts>>

GraceForever ==
  /\ watcher = "grace" /\ watcher' = "none"
  /\ UNCHANGED <<run, ctxDone, child, termed, killed, alive, lateStarts>>

WatcherTerminates ==
  /\ watcher = "watching" /\ ctxDone
  /\ watcher' = "grace" /\ termed' = TRUE
  /\ UNCHANGED <<run, ctxDone, child, killed, alive, lateStarts>>

GraceExpires ==
  /\ watcher = "grace"
  /\ watcher' = "none" /\ killed' = TRUE
  /\ UNCHANGED <<run, ctxDone, child, termed, alive, lateStarts>>

-----------------------------------------------------------------------------
(* The environment: the owner cancels, the process exits on its own, or    *)
(* because it was told to.  SIGTERM may be ignored, SIGKILL may not.       *)

OwnerCancels ==
  /\ ~ctxDone /\ ctxDone' = TRUE
  /\ UNCHANGED <<run, proc, alive, lateStarts>>

ChildExits ==
  /\ child = "up" /\ child' = "dead"
  /\ UNCHANGED <<run, ctxDone, watcher, termed, killed, alive, lateStarts>>

KilledChildExits == killed /\ ChildExits

RunStep ==
  \/ RunBegins \/ CheckCtx \/ StartSucceeds \/ StartFails \/ Watch \/ Reap
  \/ (\E long \in BOOLEAN : AfterRun(long))
  \/ BackoffElapses \/ BackoffCancelled

WatcherStep == WatcherTerminates \/ GraceExpires

Next == RunStep \/ WatcherStep \/ OwnerCancels \/ ChildExits

(* Goroutines run and timers fire; the kernel delivers SIGKILL.  Nothing   *)
(* is assumed of the child otherwise, nor that anyone cancels.             *)
Fairness ==
  /\ WF_vars(RunStep) /\ WF_vars(WatcherStep) /\ WF_vars(KilledChildExits)

Spec == Init /\ [][Next]_vars /\ Fairness

-----------------------------------------------------------------------------
(* Run never leaves a process behind, and the gauge never claims one that  *)
(* is not the current run's: between runs and after Run returned there is  *)
(* no child and the gauge is down, on the failure paths of runOnce too.    *)
NothingLeftBehind ==
  /\ pc \in {"new", "check", "start", "backoff", "done"}
        => child = "none" /\ watcher = "none" /\ ~alive
  /\ alive => pc \in {"wait", "reaped"}

(* A child is only ever signalled because the owner cancelled, and killed  *)
(* only after it was asked to terminate first.                             *)
SignalDiscipline == (killed => termed) /\ (termed => ctxDone)

(* The race between the look at ctx and exec lets one child start after a  *)
(* cancellation, never two: no restart loop survives its context.          *)
OneLateStart ==
  /\ lateStarts <= 1
  /\ lateStarts = 1 => ctxDone /\ pc \in {"started", "wait", "reaped", "done"}

(* The delay in force is the capped power of two of the number of short    *)
(* runs since the last long one: a flapping child is never restarted       *)
(* faster than that, and one stable run forgives the past.                 *)
BackoffLaw == backoff = AtMost(2 ^ short, MaxBackoff)

(* Short of a cancellation the supervisor keeps trying: every pause is     *)
(* followed by another attempt.                                            *)
KeepsRestarting == pc = "backoff" ~> pc \in {"start", "done"}

-----------------------------------------------------------------------------
(* The contract implemented: a child exists exactly in phase "up".         *)
Phase ==
  CASE pc = "new" -> "queued"
    [] pc = "start" -> "starting"
    [] child = "up" -> "up"
    [] pc = "done" -> "done"
    [] OTHER -> "looping"

Contract == INSTANCE SupervisedProcess WITH phase <- Phase, cancelled <- ctxDone

(* Supervisor implements SupervisedProcess, with its termination promise.  *)
ImplementsContract == Contract!Spec
CancelEndsRun == Contract!Terminates
=============================================================================
