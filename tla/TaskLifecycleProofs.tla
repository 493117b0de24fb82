------------------------- MODULE TaskLifecycleProofs -------------------------
(***************************************************************************)
(* Proofs about TaskLifecycle, for every set of artifacts and whatever      *)
(* version it is cut off at.                                                *)
(***************************************************************************)
EXTENDS TaskLifecycle, TaskRulesLemmas

(* The state of a task stays a task record through any sequence of calls.   *)
THEOREM TypeCorrect == Spec => []TypeOK
<1>1. Init => TypeOK
  BY DEF Init, TypeOK, NewTask, TaskRecords, Statuses
<1>2. TypeOK /\ [Next]_vars => TypeOK'
  <2> SUFFICES ASSUME TypeOK, [Next]_vars PROVE TypeOK'
    OBVIOUS
  <2>t. task \in TaskRecords(Artifacts) /\ task.status \in Statuses
    BY DEF TypeOK, TaskRecords
  <2>1. ASSUME NEW actor \in Roles, NEW target \in Statuses, Transition(target, actor)
        PROVE  TypeOK'
    <3>1. task' \in TaskRecords(Artifacts)
      BY <2>t, <2>1, OperationsReturnTasks DEF Transition
    <3>2. task'.status \in Statuses
      BY <3>1 DEF TaskRecords
    <3>3. QED
      BY <3>1, <3>2, <2>1 DEF Transition, TypeOK
  <2>2. ASSUME NEW actor \in Roles, Fail(actor) PROVE TypeOK'
    BY <2>t, <2>2, OperationsReturnTasks DEF Fail, TypeOK
  <2>3. ASSUME NEW actor \in Roles, RequestRework(actor) PROVE TypeOK'
    BY <2>t, <2>3, OperationsReturnTasks DEF RequestRework, TypeOK
  <2>4. ASSUME NEW actor \in Roles, RestartRework(actor) PROVE TypeOK'
    BY <2>t, <2>4, OperationsReturnTasks DEF RestartRework, TypeOK
  <2>5. ASSUME NEW actor \in Roles, Unblock(actor) PROVE TypeOK'
    BY <2>t, <2>5, OperationsReturnTasks DEF Unblock, TypeOK
  <2>6. CASE Block
    BY <2>t, <2>6, OperationsReturnTasks DEF Block, TypeOK
  <2>7. ASSUME NEW a \in Artifacts, AttachArtifact(a) PROVE TypeOK'
    BY <2>t, <2>7, OperationsReturnTasks DEF AttachArtifact, TypeOK
  <2>8. CASE UNCHANGED vars
    BY <2>8 DEF vars, TypeOK
  <2>9. QED
    BY <2>1, <2>2, <2>3, <2>4, <2>5, <2>6, <2>7, <2>8 DEF Next
<1>3. QED
  BY <1>1, <1>2, PTL DEF Spec

------------------------------------------------------------------------------
(* One step of the task: a transition, an attachment, or something that     *)
(* sidelines it; with what the step does to the history.                    *)
Step ==
  \/ \E target \in Statuses, actor \in Roles :
       /\ CanTransition(task, target, actor)
       /\ task' = Transitioned(task, target)
       /\ passed' = IF task'.status = "PLANNED" THEN {} ELSE passed \cup {task'.status}
  \/ (\E a \in Artifacts : task' = Attached(task, a)) /\ passed' = passed
  \/ Sidelined(task, task')
  \/ task' = task /\ passed' = passed

(* Every step of the task is one of the kinds above.                        *)
LEMMA EveryStep ==
  ASSUME TypeOK, [Next]_vars
  PROVE  Step
<1>t. task \in TaskRecords(Artifacts)
  BY DEF TypeOK
<1>1. CASE \E actor \in Roles, target \in Statuses : Transition(target, actor)
  BY <1>1 DEF Transition, Step
<1>2. CASE \E a \in Artifacts : AttachArtifact(a)
  BY <1>2 DEF AttachArtifact, Step
<1>3. CASE \E actor \in Roles : Fail(actor) \/ RequestRework(actor)
                              \/ RestartRework(actor) \/ Unblock(actor)
  BY <1>t, <1>3, OthersSideline DEF Fail, RequestRework, RestartRework, Unblock, Step
<1>4. CASE Block
  BY <1>t, <1>4, OthersSideline DEF Block, Step
<1>5. CASE UNCHANGED vars
  BY <1>5 DEF vars, Step
<1>6. QED
  BY <1>1, <1>2, <1>3, <1>4, <1>5 DEF Next

(* An R3 task and a task without a revision: the two conditions are checked *)
(* where DESIGN_REVIEW is left, and what follows needs no second check.     *)
LEMMA ExecutionStep ==
  ASSUME TypeOK, [Next]_vars, ExecutionIsGoverned
  PROVE  ExecutionIsGoverned'
<1>t. task \in TaskRecords(Artifacts)
  BY DEF TypeOK
<1>1. ASSUME NEW target \in Statuses, NEW actor \in Roles,
             CanTransition(task, target, actor), task' = Transitioned(task, target)
      PROVE  ExecutionIsGoverned'
  BY <1>t, <1>1, TransitionCases DEF ExecutionIsGoverned, Executing
<1>2. ASSUME NEW a \in Artifacts, task' = Attached(task, a)
      PROVE  ExecutionIsGoverned'
  BY <1>t, <1>2, AttachKeeps DEF ExecutionIsGoverned
<1>3. CASE Sidelined(task, task')
  BY <1>3 DEF Sidelined, ExecutionIsGoverned
<1>4. CASE task' = task
  BY <1>4 DEF ExecutionIsGoverned
<1>5. QED
  BY <1>1, <1>2, <1>3, <1>4, EveryStep DEF Step

(* No task executes without a governance revision, and none of risk R3.     *)
THEOREM ExecutionIsAlwaysGoverned == Spec => []ExecutionIsGoverned
<1>1. Init => ExecutionIsGoverned
  BY DEF Init, NewTask, ExecutionIsGoverned, Executing
<1>2. ExecutionIsGoverned /\ TypeOK /\ [Next]_vars => ExecutionIsGoverned'
  BY ExecutionStep
<1>3. QED
  BY <1>1, <1>2, TypeCorrect, PTL DEF Spec

------------------------------------------------------------------------------
(* ReadyIsReviewedAfresh speaks of the last stage only; its strengthening   *)
(* says of every stage which stages came before it.                         *)
StagesPassed ==
  /\ task.status \in Executing \cup {"DESIGN_REVIEW"} => "DESIGN_REVIEW" \in passed
  /\ task.status \in Executing => "IMPLEMENTING" \in passed
  /\ task.status \in Executing \ {"IMPLEMENTING"} => "PREFLIGHT" \in passed
  /\ task.status \in {"PATCH_REVIEW", "READY_TO_PUBLISH"} => "PATCH_REVIEW" \in passed

(* Every step keeps the stages in their order.                              *)
LEMMA StagesStep ==
  ASSUME TypeOK, [Next]_vars, StagesPassed
  PROVE  StagesPassed'
<1>t. task \in TaskRecords(Artifacts)
  BY DEF TypeOK
<1>1. ASSUME NEW target \in Statuses, NEW actor \in Roles,
             CanTransition(task, target, actor), task' = Transitioned(task, target),
             passed' = IF task'.status = "PLANNED" THEN {} ELSE passed \cup {task'.status}
      PROVE  StagesPassed'
  BY <1>t, <1>1, TransitionCases DEF StagesPassed, Executing
<1>2. ASSUME NEW a \in Artifacts, task' = Attached(task, a), passed' = passed
      PROVE  StagesPassed'
  BY <1>t, <1>2, AttachKeeps DEF StagesPassed
<1>3. CASE Sidelined(task, task')
  BY <1>3 DEF Sidelined, StagesPassed, Executing
<1>4. CASE task' = task /\ passed' = passed
  BY <1>4 DEF StagesPassed
<1>5. QED
  BY <1>1, <1>2, <1>3, <1>4, EveryStep DEF Step

(* Whatever is ready to publish was reviewed and implemented since it was   *)
(* last planned.                                                            *)
THEOREM ReadyIsAlwaysReviewed == Spec => []ReadyIsReviewedAfresh
<1>1. Init => StagesPassed
  BY DEF Init, NewTask, StagesPassed, Executing
<1>2. StagesPassed /\ TypeOK /\ [Next]_vars => StagesPassed'
  BY StagesStep
<1>3. StagesPassed => ReadyIsReviewedAfresh
  BY DEF StagesPassed, ReadyIsReviewedAfresh, Executing
<1>4. QED
  BY <1>1, <1>2, <1>3, TypeCorrect, PTL DEF Spec

------------------------------------------------------------------------------
(* The rework budget: each restart uses up a rework round, a task waiting   *)
(* for a restart has one in hand, and rounds are bounded while it waits.    *)
Waiting == IF task.status = "REWORK_REQUIRED" THEN 1 ELSE 0

RoundsCovered ==
  /\ restarts + Waiting <= task.rework
  /\ restarts + Waiting < MaxRework
  /\ task.status = "REWORK_REQUIRED" => task.rework < MaxRework

(* Every step keeps the count of the rework rounds.                         *)
LEMMA RoundsStep ==
  ASSUME TypeOK, [Next]_vars, RoundsCovered
  PROVE  RoundsCovered'
<1>t. task \in TaskRecords(Artifacts) /\ task.rework \in Nat /\ restarts \in Nat
  BY DEF TypeOK, TaskRecords
<1>1. ASSUME NEW target \in Statuses, NEW actor \in Roles, Transition(target, actor)
      PROVE  RoundsCovered'
  <2>1. task'.rework = task.rework /\ task'.status # "REWORK_REQUIRED"
    BY <1>t, <1>1, TransitionCases DEF Transition, Executing
  <2>2. QED
    BY <2>1, <1>t, <1>1 DEF Transition, RoundsCovered, Waiting, MaxRework
<1>2. ASSUME NEW a \in Artifacts, AttachArtifact(a)
      PROVE  RoundsCovered'
  BY <1>t, <1>2, AttachKeeps DEF AttachArtifact, RoundsCovered, Waiting
<1>3. ASSUME NEW actor \in Roles, RequestRework(actor)
      PROVE  RoundsCovered'
  <2>1. /\ task'.rework = task.rework + 1
        /\ task'.status = IF task'.rework >= MaxRework THEN "BLOCKED" ELSE "REWORK_REQUIRED"
    BY <1>t, <1>3 DEF RequestRework, ReworkRequested, Moved, TaskRecords
  <2>2. QED
    BY <2>1, <1>t, <1>3 DEF RequestRework, RoundsCovered, Waiting, MaxRework
<1>4. ASSUME NEW actor \in Roles, RestartRework(actor)
      PROVE  RoundsCovered'
  <2>1. task'.rework = task.rework /\ task'.status = "PLANNED"
    BY <1>t, <1>4 DEF RestartRework, ReworkRestarted, Moved, TaskRecords
  <2>2. QED
    BY <2>1, <1>t, <1>4 DEF RestartRework, CanRestartRework, RoundsCovered, Waiting, MaxRework
<1>5. ASSUME NEW actor \in Roles, Fail(actor) \/ Unblock(actor) \/ Block
      PROVE  RoundsCovered'
  <2>1. task'.rework = task.rework /\ task'.status # "REWORK_REQUIRED"
    BY <1>t, <1>5 DEF Fail, Unblock, Block, Failed, Unblocked, Blocked, Moved, TaskRecords
  <2>2. QED
    BY <2>1, <1>t, <1>5 DEF Fail, Unblock, Block, RoundsCovered, Waiting, MaxRework
<1>6. CASE UNCHANGED vars
  BY <1>6 DEF vars, RoundsCovered, Waiting
<1>7. QED
  <2>1. "PLANNER" \in Roles
    BY DEF Roles
  <2>2. QED
    BY <2>1, <1>1, <1>2, <1>3, <1>4, <1>5, <1>6 DEF Next

(* No task is restarted by a planner MaxRework times.                       *)
THEOREM ReworkIsBounded == Spec => []ReworkBudget
<1>1. Init => RoundsCovered
  BY DEF Init, NewTask, RoundsCovered, Waiting, MaxRework
<1>2. RoundsCovered /\ TypeOK /\ [Next]_vars => RoundsCovered'
  BY RoundsStep
<1>3. RoundsCovered => ReworkBudget
  BY DEF RoundsCovered, ReworkBudget, Waiting
<1>4. QED
  BY <1>1, <1>2, <1>3, TypeCorrect, PTL DEF Spec
==============================================================================
