---------------------------- MODULE TaskLifecycle ----------------------------
(***************************************************************************)
(* One task under every sequence of calls the domain allows: any role may   *)
(* call any operation of domain/task.py at any time, and a call whose guard *)
(* fails raises and changes nothing.  `passed` and `restarts` are history:  *)
(* the stages passed since the task was last planned, and how often a       *)
(* planner restarted it after a rework request.                             *)
(***************************************************************************)
EXTENDS TaskRules, FiniteSets

CONSTANTS
  Artifacts,    \* artifact references that may be attached
  MaxVersion    \* bound: no call is made on a task of this version

ASSUME MaxVersionAssumption == MaxVersion \in Nat

VARIABLES task, passed, restarts
vars == <<task, passed, restarts>>

TypeOK ==
  /\ task \in TaskRecords(Artifacts)
  /\ passed \subseteq Statuses
  /\ restarts \in Nat

Init ==
  /\ \E risk \in RiskClasses, governed \in BOOLEAN :
       task = NewTask(risk, governed)
  /\ passed = {}
  /\ restarts = 0

Bounded == task.version < MaxVersion

Transition(target, actor) ==
  /\ Bounded
  /\ CanTransition(task, target, actor)
  /\ task' = Transitioned(task, target)
  /\ passed' = IF task'.status = "PLANNED" THEN {} ELSE passed \cup {task'.status}
  /\ UNCHANGED restarts

Block ==
  /\ Bounded
  /\ CanBlock(task)
  /\ task' = Blocked(task)
  /\ UNCHANGED <<passed, restarts>>

Fail(actor) ==
  /\ Bounded
  /\ CanFail(task, actor)
  /\ task' = Failed(task)
  /\ UNCHANGED <<passed, restarts>>

RequestRework(actor) ==
  /\ Bounded
  /\ CanRequestRework(task, actor)
  /\ task' = ReworkRequested(task)
  /\ UNCHANGED <<passed, restarts>>

RestartRework(actor) ==
  /\ Bounded
  /\ CanRestartRework(task, actor)
  /\ task' = ReworkRestarted(task)
  /\ passed' = {}
  /\ restarts' = restarts + 1

Unblock(actor) ==
  /\ Bounded
  /\ CanUnblock(task, actor)
  /\ task' = Unblocked(task)
  /\ UNCHANGED <<passed, restarts>>

AttachArtifact(a) ==
  /\ Bounded
  /\ task' = Attached(task, a)
  /\ UNCHANGED <<passed, restarts>>

Next ==
  \/ \E actor \in Roles :
       \/ \E target \in Statuses : Transition(target, actor)
       \/ Fail(actor)
       \/ RequestRework(actor)
       \/ RestartRework(actor)
       \/ Unblock(actor)
  \/ Block
  \/ \E a \in Artifacts : AttachArtifact(a)

Spec == Init /\ [][Next]_vars

------------------------------------------------------------------------------
(* By no sequence of legal calls, with reviews, rework rounds, blocks and   *)
(* unblocks in any order, does a task without a governance revision or one  *)
(* of risk R3 reach a status at or after IMPLEMENTING: both are checked     *)
(* where DESIGN_REVIEW is left, and rework, restart and unblock lead only   *)
(* to statuses before it (transition, lines 80-91).                         *)
ExecutionIsGoverned ==
  task.status \in Executing => task.governed /\ task.risk # "R3"

(* Nothing is ready to publish on the strength of an earlier round: every   *)
(* review and implementation stage was passed again since the task was last *)
(* planned, whatever rework or block came in between.                       *)
ReadyIsReviewedAfresh ==
  task.status = "READY_TO_PUBLISH" =>
    {"DESIGN_REVIEW", "IMPLEMENTING", "PREFLIGHT", "PATCH_REVIEW"} \subseteq passed

(* The rework budget is never given back: a planner restarts a task at most *)
(* MaxRework - 1 times in its life, unblocking included, because the round  *)
(* counter survives block and unblock (request_rework, lines 106-108).      *)
ReworkBudget ==
  restarts + (IF task.status = "REWORK_REQUIRED" THEN 1 ELSE 0) < MaxRework
==============================================================================
