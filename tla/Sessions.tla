------------------------------ MODULE Sessions ------------------------------
(***************************************************************************)
(* Runner sessions on top of the ledger: a session is requested for a task  *)
(* and a role, run once, and a worker result is only published on the       *)
(* strength of a session of its task and role that succeeded.               *)
(*                                                                         *)
(* Sessions read the fuse, the task and its stream without a lock, and      *)
(* write nothing of the task: what they lock is the length of its stream.   *)
(***************************************************************************)
EXTENDS TaskLedger

CONSTANTS
  SessionIds     \* ids of runner sessions

VARIABLES
  sessions,      \* the runner_sessions table
  basis          \* the session_id column of worker_results

sessionVars == <<vars, sessions, basis>>

RunnerRoles == {"PLANNER", "DESIGN_REVIEWER", "IMPLEMENTER", "PATCH_REVIEWER"}
Outcomes == {"SUCCEEDED", "FAILED"}      \* FAILED stands for cancelled too

NoSession == [state |-> "NONE"]
SessionRecords ==
  [state : {"REQUESTED"} \cup Outcomes, task : Tasks, role : RunnerRoles,
   expected : Nat, inputs : SUBSET Artifacts]

SessionsTypeOK ==
  /\ sessions \in [SessionIds -> SessionRecords \cup {NoSession}]
  /\ basis \in [ResultIds -> SessionIds \cup {"NONE"}]

NoSessionYet ==
  /\ sessions = [s \in SessionIds |-> NoSession]
  /\ basis = [r \in ResultIds |-> "NONE"]

SessionInit == Init /\ NoSessionYet

------------------------------------------------------------------------------
RequestAtAnyRisk(c, t, role, inputs) ==                  \* mutant of MayRequest
  ~seen[c].fuse /\ inputs \subseteq seen[c].task[t].artifacts

(* What request asks before it writes.  The version and the artifacts are   *)
(* checked against an unlocked read of the task.                            *)
MayRequest(c, t, role, inputs) ==
  /\ ~seen[c].fuse
  /\ ~(seen[c].task[t].risk = "R3" /\ role = "IMPLEMENTER")
  /\ inputs \subseteq seen[c].task[t].artifacts

(* RunnerSessionService.request for an id that is new at its commit.  The   *)
(* id of a session that exists is answered with that session, or refused.   *)
RequestSession(c, s, t, role, inputs) ==
  /\ sessions[s] = NoSession
  /\ MayRequest(c, t, role, inputs)
  /\ RecordActivity(c, t)
  /\ sessions' = [sessions EXCEPT ![s] =
       [state |-> "REQUESTED", task |-> t, role |-> role,
        expected |-> seen[c].task[t].version, inputs |-> inputs]]
  /\ UNCHANGED basis

WithoutOutcome(s) == sessions[s].state \notin Outcomes     \* mutants of Unfinished
OverwriteOutcome(s) == sessions[s] # NoSession
Unfinished(s) == sessions[s].state = "REQUESTED"

(* WorkerOrchestrationService.run.  A session that has an outcome is not    *)
(* run again, and of two workers that ran it the second one to write finds  *)
(* the first one's outcome: the same, or a conflict.                        *)
RunSession(c, s, outcome) ==
  /\ ~seen[c].fuse
  /\ Unfinished(s)
  /\ sessions' = [sessions EXCEPT ![s].state = outcome]
  /\ UNCHANGED <<db, history, basis>>

RunForTask(s, t, role) ==                                     \* mutant of Supports
  sessions[s].state = "SUCCEEDED" /\ sessions[s].task = t

(* What publish asks of the session that a result names.                    *)
Supports(s, t, role) ==
  /\ sessions[s].state = "SUCCEEDED"
  /\ sessions[s].task = t /\ sessions[s].role = role

(* ResultPublicationService.publish                                         *)
PublishFromSession(c, s, r, t, w, role, target, a) ==
  /\ Supports(s, t, role)
  /\ basis[r] \in {"NONE", s}
  /\ PublishResult(c, r, t, w, role, target, a)
  /\ basis' = [basis EXCEPT ![r] = s]
  /\ UNCHANGED sessions

CommitSession(c) ==
  /\ InFlight(c)
  /\ Close(c)
  /\ \/ CommitApart(c) /\ UNCHANGED <<sessions, basis>>
     \/ \E s \in SessionIds :
          \/ \E t \in Tasks, role \in RunnerRoles, inputs \in SUBSET Artifacts :
               RequestSession(c, s, t, role, inputs)
          \/ \E outcome \in Outcomes : RunSession(c, s, outcome)
          \/ \E t \in Tasks, w \in Workers, r \in ResultIds, role \in WorkerRoles,
                target \in Statuses, a \in Artifacts :
               PublishFromSession(c, s, r, t, w, role, target, a)

SessionNext ==
  \/ Surroundings /\ UNCHANGED <<sessions, basis>>
  \/ \E c \in Callers : CommitSession(c)

SessionSpec == SessionInit /\ [][SessionNext]_sessionVars

------------------------------------------------------------------------------
(* Every result on record rests on one session of its task and role that    *)
(* succeeded and still says so, whoever ran that session twice or asked for *)
(* it again (workers.py, publish lines 42-45; postgres.py, set_outcome).    *)
ResultsRestOnSessions ==
  \A r \in ResultIds :
    IF results[r] = NoResult
    THEN basis[r] = "NONE"
    ELSE basis[r] \in SessionIds /\ Supports(basis[r], results[r].task, results[r].role)

(* A session is made for the task as it is at that moment, or as it was     *)
(* before changes that its stream does not tell: the version and the inputs *)
(* it was asked for are checked against an unlocked read, and the locked    *)
(* length of the stream vouches for them against every change that comes    *)
(* with an event of its own.  The inputs are right in any case, for no call *)
(* takes an artifact away (runners.py, lines 34-39; postgres.py, lines      *)
(* 80-86).                                                                  *)
SessionIsCurrent ==
  [][\A s \in SessionIds : sessions[s] = NoSession /\ sessions'[s] # NoSession =>
       LET t == sessions'[s].task
       IN  /\ sessions'[s].expected <= task[t].version
           /\ (sessions'[s].expected + 1)..task[t].version
                \subseteq {p.version : p \in untold[t]}
           /\ sessions'[s].inputs \subseteq task[t].artifacts]_sessionVars

(* Every session is announced by one event of its task and no event         *)
(* announces a session that was not made (runners.py, lines 40-48).         *)
SessionsAreAnnounced ==
  \A t \in Tasks :
    Cardinality({i \in 1..Len(log[t]) : log[t][i].kind = "ACTIVITY"})
      = Cardinality({s \in SessionIds : sessions[s] # NoSession /\ sessions[s].task = t})

(* What the ledger says of results is what sessions make of it: each step   *)
(* is a step of the ledger, where a result of the role IMPLEMENTER of an R3 *)
(* task never occurs, for no such session is ever made (runners.py,         *)
(* lines 32-33, with publish, lines 42-45).                                 *)
FollowsTheLedger == [][Next]_vars
==============================================================================
