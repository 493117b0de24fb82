--------------------------- MODULE TaskRulesLemmas ---------------------------
(***************************************************************************)
(* What the operations of TaskRules return, in the form proofs about a task *)
(* need: the rules are unfolded here and nowhere else.                      *)
(***************************************************************************)
EXTENDS TaskRules, TLAPS

(* Every operation returns a task record again.                             *)
LEMMA OperationsReturnTasks ==
  ASSUME NEW Artifacts, NEW t \in TaskRecords(Artifacts)
  PROVE  /\ \A target \in Statuses : Transitioned(t, target) \in TaskRecords(Artifacts)
         /\ Blocked(t) \in TaskRecords(Artifacts)
         /\ Failed(t) \in TaskRecords(Artifacts)
         /\ ReworkRequested(t) \in TaskRecords(Artifacts)
         /\ ReworkRestarted(t) \in TaskRecords(Artifacts)
         /\ Unblocked(t) \in TaskRecords(Artifacts)
         /\ \A a \in Artifacts : Attached(t, a) \in TaskRecords(Artifacts)
<1>1. ASSUME NEW status \in Statuses
      PROVE  Moved(t, status) \in TaskRecords(Artifacts)
  <2> DEFINE u == [t EXCEPT !.status = status]
  <2>1. u \in TaskRecords(Artifacts)
    BY DEF TaskRecords
  <2>2. t.version + 1 \in Nat
    BY DEF TaskRecords
  <2>3. Moved(t, status) = [u EXCEPT !.version = t.version + 1]
    BY DEF Moved
  <2> HIDE DEF u
  <2>4. QED
    BY <2>1, <2>2, <2>3 DEF TaskRecords
<1>2. \A target \in Statuses : Transitioned(t, target) \in TaskRecords(Artifacts)
  BY <1>1 DEF Transitioned, Statuses
<1>3. ReworkRequested(t) \in TaskRecords(Artifacts)
  <2> DEFINE status == IF t.rework + 1 >= MaxRework THEN "BLOCKED" ELSE "REWORK_REQUIRED"
  <2>1. Moved(t, status) \in TaskRecords(Artifacts)
    BY <1>1 DEF Statuses
  <2>2. t.rework + 1 \in Nat
    BY DEF TaskRecords
  <2>3. [Moved(t, status) EXCEPT !.rework = t.rework + 1] \in TaskRecords(Artifacts)
    BY <2>1, <2>2 DEF TaskRecords
  <2>4. QED
    BY <2>3 DEF ReworkRequested
<1>4. ASSUME NEW a \in Artifacts
      PROVE  Attached(t, a) \in TaskRecords(Artifacts)
  <2> DEFINE u == [t EXCEPT !.artifacts = @ \cup {a}]
  <2>1. u \in TaskRecords(Artifacts)
    BY DEF TaskRecords
  <2>2. t.version + 1 \in Nat
    BY DEF TaskRecords
  <2>3. a \notin t.artifacts => Attached(t, a) = [u EXCEPT !.version = t.version + 1]
    BY DEF Attached
  <2>4. a \in t.artifacts => Attached(t, a) = t
    BY DEF Attached
  <2> HIDE DEF u
  <2>5. QED
    BY <2>1, <2>2, <2>3, <2>4 DEF TaskRecords
<1>5. QED
  BY <1>1, <1>2, <1>3, <1>4 DEF Blocked, Failed, ReworkRestarted, Unblocked, Statuses

(* What an operation other than a transition or an attachment leaves: the   *)
(* risk and the revision as they were, in a status that is not executing.   *)
Sidelined(t, u) ==
  /\ u.risk = t.risk /\ u.governed = t.governed
  /\ u.status \notin Executing \cup {"DESIGN_REVIEW"}

(* Every operation but a transition and an attachment sidelines the task.   *)
LEMMA OthersSideline ==
  ASSUME NEW Artifacts, NEW t \in TaskRecords(Artifacts)
  PROVE  /\ Sidelined(t, Blocked(t))
         /\ Sidelined(t, Failed(t))
         /\ Sidelined(t, ReworkRequested(t))
         /\ Sidelined(t, ReworkRestarted(t))
         /\ Sidelined(t, Unblocked(t))
BY DEF Sidelined, Blocked, Failed, ReworkRequested, ReworkRestarted, Unblocked,
       Moved, TaskRecords, Executing

(* An attachment changes neither the status nor the rest of what is proved. *)
LEMMA AttachKeeps ==
  ASSUME NEW Artifacts, NEW t \in TaskRecords(Artifacts), NEW a \in Artifacts
  PROVE  /\ Attached(t, a).status = t.status
         /\ Attached(t, a).risk = t.risk
         /\ Attached(t, a).governed = t.governed
         /\ Attached(t, a).rework = t.rework
BY DEF Attached, TaskRecords

(* A transition that can be made ends in one of these ways.                 *)
LEMMA TransitionCases ==
  ASSUME NEW Artifacts, NEW t \in TaskRecords(Artifacts), NEW target \in Statuses,
         NEW actor \in Roles, CanTransition(t, target, actor)
  PROVE  LET u == Transitioned(t, target)
         IN  /\ u.risk = t.risk /\ u.governed = t.governed /\ u.rework = t.rework
             /\ \/ u.status \notin Executing \cup {"DESIGN_REVIEW", "REWORK_REQUIRED"}
                \/ t.status = "PLANNED" /\ u.status = "DESIGN_REVIEW"
                \/ /\ t.status = "DESIGN_REVIEW" /\ u.status = "IMPLEMENTING"
                   /\ t.risk # "R3" /\ t.governed
                \/ t.status = "IMPLEMENTING" /\ u.status = "PREFLIGHT"
                \/ t.status = "PREFLIGHT" /\ u.status = "PATCH_REVIEW"
                \/ t.status = "PATCH_REVIEW" /\ u.status = "READY_TO_PUBLISH"
BY DEF CanTransition, Transitioned, ProposesR3, ImplementsR3, Stages, Moved,
       TaskRecords, Executing, GovernedTargets

(* Every operation but an empty attachment raises the version by one.       *)
LEMMA OperationsRaiseVersion ==
  ASSUME NEW Artifacts, NEW t \in TaskRecords(Artifacts)
  PROVE  /\ \A target \in Statuses : Transitioned(t, target).version = t.version + 1
         /\ Blocked(t).version = t.version + 1
         /\ Failed(t).version = t.version + 1
         /\ \A a \in Artifacts : \/ Attached(t, a) = t
                                \/ Attached(t, a).version = t.version + 1
BY DEF Transitioned, Blocked, Failed, Attached, Moved, TaskRecords

(* A transition starts and ends outside of the terminal statuses.           *)
LEMMA TransitionIsLive ==
  ASSUME NEW Artifacts, NEW t \in TaskRecords(Artifacts), NEW target \in Statuses,
         NEW actor \in Roles, CanTransition(t, target, actor)
  PROVE  t.status \notin Terminal /\ Transitioned(t, target).status \notin Terminal
BY DEF CanTransition, Transitioned, ProposesR3, ImplementsR3, Stages, Moved,
       TaskRecords, Terminal

(* No operation takes an artifact away.                                     *)
LEMMA ArtifactsStay ==
  ASSUME NEW Artifacts, NEW t \in TaskRecords(Artifacts)
  PROVE  /\ \A target \in Statuses : Transitioned(t, target).artifacts = t.artifacts
         /\ Blocked(t).artifacts = t.artifacts
         /\ Failed(t).artifacts = t.artifacts
         /\ \A a \in Artifacts : t.artifacts \subseteq Attached(t, a).artifacts
BY DEF Transitioned, Blocked, Failed, Attached, Moved, TaskRecords

(* What block and fail make of the status.                                  *)
LEMMA BlockedAndFailedStatus ==
  ASSUME NEW Artifacts, NEW t \in TaskRecords(Artifacts)
  PROVE  Blocked(t).status = "BLOCKED" /\ Failed(t).status = "FAILED"
BY DEF Blocked, Failed, Moved, TaskRecords
==============================================================================
