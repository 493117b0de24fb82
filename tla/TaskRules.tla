------------------------------ MODULE TaskRules ------------------------------
(***************************************************************************)
(* The lifecycle rules of a task, as pure operators on the immutable value  *)
(* domain/task.py calls Task.  Every operation of the class is a guard (the *)
(* conditions under which it does not raise) and a result.  The identity,   *)
(* source, repository and creation time of a task never change and no rule  *)
(* reads them, so the record leaves them out; `governed` says whether the   *)
(* risk assessment carries a governance revision.                           *)
(***************************************************************************)
EXTENDS Naturals

Roles == {"SYSTEM", "VALIDATOR", "PLANNER", "DESIGN_REVIEWER",
          "IMPLEMENTER", "PATCH_REVIEWER"}

Reviewers == {"DESIGN_REVIEWER", "PATCH_REVIEWER"}

RiskClasses == {"R0", "R1", "R2", "R3"}

Statuses == {"RECEIVED", "VALIDATED", "PLANNED", "DESIGN_REVIEW",
             "IMPLEMENTING", "PREFLIGHT", "PATCH_REVIEW", "READY_TO_PUBLISH",
             "PROPOSAL_READY", "REWORK_REQUIRED", "BLOCKED", "FAILED",
             "COMPLETED"}

Terminal == {"FAILED", "COMPLETED"}

(* The statuses whose entry takes a governance revision, and all the        *)
(* statuses a task can only be in by way of one of them.                    *)
OnlyImplementing == {"IMPLEMENTING"}                  \* mutant of GovernedTargets
GovernedTargets == {"IMPLEMENTING", "READY_TO_PUBLISH"}
Executing == {"IMPLEMENTING", "PREFLIGHT", "PATCH_REVIEW", "READY_TO_PUBLISH"}

MaxRework == 3

TaskRecords(Artifacts) ==
  [status : Statuses, version : Nat, rework : Nat, risk : RiskClasses,
   governed : BOOLEAN, artifacts : SUBSET Artifacts]

NewTask(risk, governed) ==
  [status |-> "RECEIVED", version |-> 0, rework |-> 0, risk |-> risk,
   governed |-> governed, artifacts |-> {}]

(* Where each role may take a task: <<from, to, role>>.                     *)
Stages == {<<"RECEIVED", "VALIDATED", "VALIDATOR">>,
           <<"VALIDATED", "PLANNED", "PLANNER">>,
           <<"PLANNED", "DESIGN_REVIEW", "DESIGN_REVIEWER">>,
           <<"DESIGN_REVIEW", "IMPLEMENTING", "IMPLEMENTER">>,
           <<"IMPLEMENTING", "PREFLIGHT", "IMPLEMENTER">>,
           <<"PREFLIGHT", "PATCH_REVIEW", "PATCH_REVIEWER">>,
           <<"PATCH_REVIEW", "READY_TO_PUBLISH", "PATCH_REVIEWER">>}

MovedBack(t, status) ==                                         \* mutant of Moved
  [t EXCEPT !.status = status, !.version = @ - 1]

(* replace(self, status=..., version=self.version + 1)                      *)
Moved(t, status) == [t EXCEPT !.status = status, !.version = @ + 1]

ProposesR3(t, target, actor) ==
  /\ t.status = "DESIGN_REVIEW" /\ target = "PROPOSAL_READY"
  /\ actor = "DESIGN_REVIEWER" /\ t.risk = "R3"

ImplementsR3(t, target) ==
  t.status = "DESIGN_REVIEW" /\ target = "IMPLEMENTING" /\ t.risk = "R3"

CanTransition(t, target, actor) ==
  /\ t.status \notin Terminal
  /\ target \notin {"FAILED", "BLOCKED", "COMPLETED"}
  /\ \/ ProposesR3(t, target, actor)
     \/ ImplementsR3(t, target)
     \/ <<t.status, target, actor>> \in Stages

(* Mutant of Transitioned: the revision is not asked for.                   *)
TransitionedUngoverned(t, target) ==
  Moved(t, IF ImplementsR3(t, target) THEN "BLOCKED" ELSE target)

(* A transition may end somewhere other than its target.                    *)
Transitioned(t, target) ==
  IF ImplementsR3(t, target) \/ (target \in GovernedTargets /\ ~t.governed)
  THEN Moved(t, "BLOCKED")
  ELSE Moved(t, target)

CanAlwaysBlock(t) == TRUE                                    \* mutant of CanBlock
CanBlock(t) == t.status \notin Terminal
Blocked(t) == Moved(t, "BLOCKED")

CanFail(t, actor) == t.status \notin Terminal /\ actor = "SYSTEM"
FailedInPlace(t) == [t EXCEPT !.status = "FAILED"]             \* mutant of Failed
Failed(t) == Moved(t, "FAILED")

(* request_rework looks at the role of the actor only, not at the status.   *)
CanRequestRework(t, actor) == actor \in Reviewers
ReworkAllowedOnceMore(t) ==                           \* mutant of ReworkRequested
  [Moved(t, IF t.rework >= MaxRework THEN "BLOCKED" ELSE "REWORK_REQUIRED")
     EXCEPT !.rework = @ + 1]

ReworkRequested(t) ==
  LET round == t.rework + 1
  IN  [Moved(t, IF round >= MaxRework THEN "BLOCKED" ELSE "REWORK_REQUIRED")
         EXCEPT !.rework = round]

CanRestartRework(t, actor) == t.status = "REWORK_REQUIRED" /\ actor = "PLANNER"
ReworkRestartedReviewed(t) == Moved(t, "DESIGN_REVIEW") \* mutant of ReworkRestarted
ReworkRestarted(t) == Moved(t, "PLANNED")

CanUnblock(t, actor) == t.status = "BLOCKED" /\ actor = "VALIDATOR"
Unblocked(t) == Moved(t, "VALIDATED")

Attached(t, a) ==
  IF a \in t.artifacts
  THEN t
  ELSE [t EXCEPT !.artifacts = @ \cup {a}, !.version = @ + 1]
==============================================================================
