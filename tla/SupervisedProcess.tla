-------------------------- MODULE SupervisedProcess --------------------------
(***************************************************************************)
(* What one supervisor promises its owner, whatever it runs: the relay     *)
(* manager (one rathole server per project) and the site agent (one        *)
(* rathole client) both program against this contract and nothing else.   *)
(*                                                                         *)
(*   phase      "queued"    Run has been scheduled but has not begun       *)
(*              "looping"   between two children: about to look at ctx     *)
(*              "starting"  ctx was looked at and found live; launch next  *)
(*              "up"        a child process exists                         *)
(*              "done"      Run has returned, or the name is unused        *)
(*   cancelled  the context handed to Run is done                          *)
(*                                                                         *)
(* The hole in the contract is deliberate and is the code's: ctx is looked *)
(* at once per iteration, so one child may still be launched after the     *)
(* cancellation; it is the only one.                                       *)
(***************************************************************************)
VARIABLES phase, cancelled

vars == <<phase, cancelled>>

Phases == {"queued", "looping", "starting", "up", "done"}

TypeOK == phase \in Phases /\ cancelled \in BOOLEAN

Init == phase \in {"queued", "done"} /\ cancelled \in BOOLEAN

Goto(from, to) == phase = from /\ phase' = to

(* An owner makes a new supervisor under a name nobody uses any more, and  *)
(* its Run is scheduled or begins; its parent context may be done already. *)
Renew ==
  /\ phase = "done" /\ phase' \in {"queued", "looping"}
  /\ cancelled' \in BOOLEAN

Begin == Goto("queued", "looping") /\ UNCHANGED cancelled

Cancel == ~cancelled /\ cancelled' = TRUE /\ UNCHANGED phase

GiveUp == cancelled /\ Goto("looping", "done") /\ UNCHANGED cancelled

GoOn == ~cancelled /\ Goto("looping", "starting") /\ UNCHANGED cancelled

Launch == Goto("starting", "up") /\ UNCHANGED cancelled

LaunchFails == Goto("starting", "looping") /\ UNCHANGED cancelled

ChildDies == Goto("up", "looping") /\ UNCHANGED cancelled

Next ==
  \/ Renew \/ Begin \/ Cancel \/ GiveUp \/ GoOn
  \/ Launch \/ LaunchFails \/ ChildDies

Spec == Init /\ [][Next]_vars

-----------------------------------------------------------------------------
(* A cancelled supervisor that was let run comes to an end, whatever its   *)
(* child does with SIGTERM: the escalation to SIGKILL bounds the wait.     *)
Terminates == (cancelled /\ phase # "queued") ~> (phase = "done")
=============================================================================
