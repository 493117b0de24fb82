----------------------------- MODULE MCSessions -----------------------------
EXTENDS Sessions, TLC

CONSTANTS t1, a1, r1

MCRisk == [t \in Tasks |-> "R1"]
MCGoverned == [t \in Tasks |-> TRUE]
MCPriority == [t \in Tasks |-> 0]

(* Two states that calls of the services lead to.  In both a session of the *)
(* planner has succeeded, its result r1 has taken the task from VALIDATED   *)
(* to PLANNED, and the task is enqueued again.                              *)
Told(kind, version, status) ==
  [kind |-> kind, version |-> version, status |-> status, result |-> "NONE"]

Moves(path, version) ==
  [i \in DOMAIN path |-> Told("TASK_TRANSITIONED", version + i - 1, path[i])]

Beginning == <<Told("TASK_RECEIVED", 0, "RECEIVED"), Told("TASK_TRANSITIONED", 1, "VALIDATED")>>

Planned == <<Told("ACTIVITY", 1, "VALIDATED"), Told("ARTIFACT_REGISTERED", 2, "VALIDATED"),
             [Told("TASK_TRANSITIONED", 3, "PLANNED") EXCEPT !.result = r1]>>

PlannedTask(risk, status, version) ==
  [NewTask(risk, TRUE) EXCEPT !.status = status, !.version = version, !.artifacts = {a1}]

Session(state, role, version) ==
  [state |-> state, task |-> t1, role |-> role, expected |-> version, inputs |-> {}]

(* An R1 task at PATCH_REVIEW, with a session that is to review the patch.  *)
AtPatchReview(s, review) ==
  /\ task = [t \in Tasks |-> PlannedTask("R1", "PATCH_REVIEW", 7)]
  /\ log = [t \in Tasks |->
       Beginning \o Planned
         \o Moves(<<"DESIGN_REVIEW", "IMPLEMENTING", "PREFLIGHT", "PATCH_REVIEW">>, 4)
         \o <<Told("ACTIVITY", 7, "PATCH_REVIEW")>>]
  /\ queue = [t \in Tasks |-> FreshRow(0)]
  /\ claims = [t \in Tasks |-> 0]
  /\ granted = [t \in Tasks |-> {"IMPLEMENTING"}]
  /\ sessions = [u \in SessionIds |->
       CASE u = s -> Session("SUCCEEDED", "PLANNER", 1)
         [] u = review -> Session("REQUESTED", "PATCH_REVIEWER", 7)
         [] OTHER -> NoSession]

(* An R3 task as far as it comes, whose work has failed before the result   *)
(* and twice since.                                                         *)
InDesignReview(s) ==
  /\ task = [t \in Tasks |-> PlannedTask("R3", "DESIGN_REVIEW", 4)]
  /\ log = [t \in Tasks |->
       Beginning \o <<Told("QUEUE_FAILED", 1, "VALIDATED")>> \o Planned
         \o Moves(<<"DESIGN_REVIEW">>, 4)
         \o <<Told("QUEUE_FAILED", 4, "DESIGN_REVIEW"), Told("QUEUE_FAILED", 4, "DESIGN_REVIEW")>>]
  /\ queue = [t \in Tasks |-> [FreshRow(0) EXCEPT !.attempt = 2]]
  /\ claims = [t \in Tasks |-> 2]
  /\ granted = [t \in Tasks |-> {}]
  /\ sessions = [u \in SessionIds |->
       IF u = s THEN Session("SUCCEEDED", "PLANNER", 1) ELSE NoSession]

(* A call that began when the session of the planner was there and its      *)
(* result was not, and has not ended.                                       *)
BeforeResult ==
  [open |-> TRUE,
   task |-> [t \in Tasks |-> [PlannedTask(task[t].risk, "VALIDATED", 1) EXCEPT !.artifacts = {}]],
   sequence |-> [t \in Tasks |-> IF task[t].risk = "R1" THEN 3 ELSE 4],
   recorded |-> {}, fuse |-> FALSE, lag |-> 0]

LateInit ==
  /\ \E s \in SessionIds :
       /\ \/ \E review \in SessionIds \ {s} : AtPatchReview(s, review)
          \/ InDesignReview(s)
       /\ basis = [r \in ResultIds |-> IF r = r1 THEN s ELSE "NONE"]
  /\ results = [r \in ResultIds |->
       IF r = r1 THEN [recorded |-> TRUE, task |-> t1, role |-> "PLANNER",
                       target |-> "PLANNED", expected |-> 1]
       ELSE NoResult]
  /\ fuse = FALSE
  /\ \E c \in Callers, open \in BOOLEAN :
       seen = [d \in Callers |-> IF open /\ d = c THEN BeforeResult ELSE Idle]
  /\ enqueues = [t \in Tasks |-> 2]
  /\ untold = [t \in Tasks |-> {}]

LateSpec == LateInit /\ [][SessionNext]_sessionVars

Symmetry == Permutations(Workers) \cup Permutations(Callers)
              \cup Permutations(SessionIds)
==============================================================================
