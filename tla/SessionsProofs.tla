--------------------------- MODULE SessionsProofs ---------------------------
(***************************************************************************)
(* Proofs about Sessions: its steps are steps of the ledger, so that all    *)
(* that is proved of the ledger holds with sessions, and what sessions add. *)
(***************************************************************************)
EXTENDS Sessions, TaskLedgerProofs

(* All changes of a task since a version are ones its stream does not tell. *)
UntoldSince(version, t) ==
  (version + 1)..task[t].version \subseteq {p.version : p \in untold[t]}

(* What a call has read of a task: its risk and artifacts last, and for its *)
(* version the length of its stream vouches, but for untold changes.        *)
Vouched ==
  \A c \in Callers, t \in Tasks : InFlight(c) =>
    /\ seen[c].task[t].risk = task[t].risk
    /\ seen[c].task[t].artifacts \subseteq task[t].artifacts
    /\ \/ seen[c].sequence[t] < Len(log[t])
       \/ UntoldSince(seen[c].task[t].version, t)

(* Every session of an R3 task is for another role.                         *)
NoR3Implementer ==
  \A s \in SessionIds :
    sessions[s] # NoSession =>
      ~(sessions[s].role = "IMPLEMENTER" /\ task[sessions[s].task].risk = "R3")

SessionInv == Core /\ Vouched /\ SessionsTypeOK /\ NoR3Implementer

(* A session step is a ledger step: running a session is for the ledger a   *)
(* call that writes nothing, and a session's result is one of a role that   *)
(* the ledger takes results of.                                             *)
LEMMA SessionStepIsLedgerStep ==
  ASSUME SessionInv, [SessionNext]_sessionVars
  PROVE  [Next]_vars
<1>1. CASE Surroundings /\ UNCHANGED <<sessions, basis>>
  BY <1>1 DEF Next
<1>2. ASSUME NEW c \in Callers, CommitSession(c)
      PROVE  Next
  <2>1. InFlight(c) /\ Close(c)
    BY <1>2 DEF CommitSession
  <2>2. CASE CommitApart(c) /\ UNCHANGED <<sessions, basis>>
    BY <2>1, <2>2 DEF Commit, Next
  <2>3. ASSUME NEW s \in SessionIds, NEW t \in Tasks, NEW role \in RunnerRoles,
               NEW inputs \in SUBSET Artifacts, RequestSession(c, s, t, role, inputs)
        PROVE  Next
    BY <2>1, <2>3 DEF RequestSession, Commit, Next
  <2>4. ASSUME NEW s \in SessionIds, NEW outcome \in Outcomes, RunSession(c, s, outcome)
        PROVE  Next
    BY <2>1, <2>4 DEF RunSession, Abort, Next, Surroundings
  <2>5. ASSUME NEW s \in SessionIds, NEW t \in Tasks, NEW w \in Workers, NEW r \in ResultIds,
               NEW role \in WorkerRoles, NEW target \in Statuses, NEW a \in Artifacts,
               PublishFromSession(c, s, r, t, w, role, target, a)
        PROVE  Next
    <3>1. sessions[s] # NoSession /\ sessions[s].task = t /\ sessions[s].role = role
      BY <2>5 DEF PublishFromSession, Supports, NoSession
    <3>2. HasSession(t, role)
      BY <3>1 DEF SessionInv, NoR3Implementer, HasSession
    <3>3. PublishResult(c, r, t, w, role, target, a)
      BY <2>5 DEF PublishFromSession
    <3>4. Commit(c)
      BY <2>1, <3>2, <3>3 DEF Commit
    <3>5. QED
      BY <3>4 DEF Next
  <2>6. QED
    BY <1>2, <2>2, <2>3, <2>4, <2>5 DEF CommitSession
<1>3. CASE UNCHANGED sessionVars
  BY <1>3 DEF sessionVars
<1>4. QED
  BY <1>1, <1>2, <1>3 DEF SessionNext

(* A task that changes has an event for it in the same step, or the change  *)
(* is one more that is untold; and it keeps its risk and its artifacts.     *)
Unnoticed(t) ==
  /\ task'[t].version = task[t].version + 1
  /\ untold'[t] = untold[t] \cup {Moment(task'[t])}

LEMMA ChangesAreTold ==
  ASSUME Core, [Next]_vars, NEW t \in Tasks
  PROVE  /\ Len(log'[t]) \in Nat /\ Len(log[t]) \in Nat /\ Len(log'[t]) >= Len(log[t])
         /\ \/ Len(log'[t]) > Len(log[t])
            \/ task'[t] = task[t] /\ untold'[t] = untold[t]
            \/ Unnoticed(t)
         /\ task'[t].risk = task[t].risk
         /\ task[t].artifacts \subseteq task'[t].artifacts
<1> DEFINE Lasts == /\ task'[t].risk = task[t].risk
                    /\ task[t].artifacts \subseteq task'[t].artifacts
           Longer == /\ Len(log'[t]) \in Nat /\ Len(log'[t]) > Len(log[t])
<1>k. /\ log[t] \in Seq(Entries) /\ Len(log[t]) \in Nat
      /\ task[t] \in TaskRecords(Artifacts)
  BY DEF Core, Coherent, Typed, TypeOK
<1>2. ASSUME NEW e, log'[t] = Append(log[t], e)
      PROVE  Longer
  BY <1>2, <1>k
<1>3. ASSUME NEW e, NEW f, log'[t] = log[t] \o <<e, f>>
      PROVE  Longer
  BY <1>3, <1>k
<1>4. ASSUME NEW base \in TaskRecords(Artifacts), NEW target \in Statuses,
             NEW actor \in Roles, Continues(t, base, target, actor)
      PROVE  Lasts
  <2>1. base.risk = task[t].risk /\ task[t].artifacts \subseteq base.artifacts
    BY <1>4 DEF Continues
  <2>2. task'[t].artifacts = base.artifacts
    BY <1>4, ArtifactsStay DEF Continues
  <2>3. task'[t].risk = base.risk
    BY <1>4, OthersSideline, TransitionCases DEF Continues, Sidelined
  <2>4. QED
    BY <2>1, <2>2, <2>3
<1>5. ASSUME NEW kind, Accounts(t, kind), task'[t].version = task[t].version + 1
      PROVE  Longer \/ (log'[t] = log[t] /\ Unnoticed(t))
  <2>1. task'[t].version # task[t].version
    BY <1>5, <1>k DEF TaskRecords
  <2>2. QED
    BY <1>2, <1>5, <2>1 DEF Accounts, Untold, Unnoticed
<1>6. CASE Fails(t)
  <2>1. Lasts
    BY <1>6, <1>k, OthersSideline, ArtifactsStay DEF Fails, Sidelined
  <2>2. task'[t].version = task[t].version + 1
    BY <1>6, <1>k, OperationsRaiseVersion DEF Fails
  <2>3. QED
    BY <2>1, <2>2, <1>5, <1>6, <1>k DEF Fails
<1>7. ASSUME NEW target \in Statuses, NEW actor \in Roles, Transits(t, target, actor)
      PROVE  Lasts /\ (Longer \/ (log'[t] = log[t] /\ Unnoticed(t)))
  <2>1. Continues(t, task[t], target, actor) /\ Accounts(t, "TASK_TRANSITIONED")
    BY <1>7 DEF Transits
  <2>2. task'[t].version = task[t].version + 1
    BY <2>1, <1>k, OperationsRaiseVersion DEF Continues
  <2>3. QED
    BY <2>1, <2>2, <1>4, <1>5, <1>k
<1>8. CASE Cancels(t)
  <2>1. "BLOCKED" \in Statuses /\ "SYSTEM" \in Roles
    BY DEF Statuses, Roles
  <2>2. QED
    BY <2>1, <1>2, <1>4, <1>8, <1>k DEF Cancels
<1>9. ASSUME NEW r \in ResultIds, NEW base \in TaskRecords(Artifacts), NEW target \in Statuses,
             NEW role \in Roles, Publishes(t, r, base, target, role)
      PROVE  Lasts /\ Longer
  BY <1>3, <1>4, <1>9 DEF Publishes
<1>10. CASE Notes(t) \/ Retries(t)
  BY <1>2, <1>10, <1>k DEF Notes, Retries, Keeps
<1>11. CASE Stays(t) \/ Queues(t) \/ Starts(t)
  BY <1>11, <1>k DEF Stays, Queues, Starts, Rests, Keeps
<1>12. Moves(t)
  BY StepMoves DEF Core
<1>13. QED
  BY <1>6, <1>7, <1>8, <1>9, <1>10, <1>11, <1>12, <1>k DEF Moves, MovesOn

------------------------------------------------------------------------------
(* What a call has read of the streams is left as it was, or is taken from  *)
(* the present streams when it begins.                                      *)
LEMMA SequencesAge ==
  ASSUME Typed, [Next]_vars, NEW c \in Callers, InFlight(c)'
  PROVE  \/ /\ task' = task /\ log' = log
            /\ \A t \in Tasks : seen'[c].task[t] = task[t]
         \/ /\ InFlight(c) /\ seen'[c].sequence = seen[c].sequence
            /\ seen'[c].task = seen[c].task
<1>1. ASSUME NEW d \in Callers, Begin(d)
      PROVE  \/ /\ task' = task /\ log' = log
                /\ \A t \in Tasks : seen'[c].task[t] = task[t]
             \/ /\ InFlight(c) /\ seen'[c].sequence = seen[c].sequence
                /\ seen'[c].task = seen[c].task
  BY <1>1 DEF Begin, db, InFlight, Typed, TypeOK
<1>2. ASSUME NEW d \in Callers, Close(d)
      PROVE  InFlight(c) /\ seen'[c] = seen[c]
  BY <1>2 DEF Close, InFlight, Typed, TypeOK
<1>3. CASE Tick
  <2>1. InFlight(c)
    BY <1>3 DEF Tick, InFlight
  <2>2. seen'[c] = [seen[c] EXCEPT !.lag = @ + 1] /\ seen[c] \in Snapshots
    BY <2>1, <1>3 DEF Tick, InFlight, Typed, TypeOK
  <2>3. QED
    BY <2>1, <2>2 DEF Snapshots
<1>4. QED
  BY <1>1, <1>2, <1>3
  DEF Next, Surroundings, Abort, Commit, Enqueue, EngageFuse, ReleaseFuse, vars, InFlight

(* What a call has read goes on being vouched for.                          *)
LEMMA VouchedStep ==
  ASSUME Core, Vouched, [Next]_vars
  PROVE  Vouched'
<1> SUFFICES ASSUME NEW c \in Callers, NEW t \in Tasks, InFlight(c)'
             PROVE  /\ seen'[c].task[t].risk = task'[t].risk
                    /\ seen'[c].task[t].artifacts \subseteq task'[t].artifacts
                    /\ \/ seen'[c].sequence[t] < Len(log'[t])
                       \/ UntoldSince(seen[c].task[t].version, t)'
  BY DEF Vouched, InFlight
<1>k. task[t].version \in Nat
  BY DEF Core, Coherent, Typed, TypeOK, TaskRecords
<1>1. CASE InFlight(c) /\ seen'[c].sequence = seen[c].sequence /\ seen'[c].task = seen[c].task
  <2> DEFINE version == seen[c].task[t].version
  <2>1. /\ seen[c].sequence[t] \in Nat /\ seen[c].sequence[t] <= Len(log[t])
        /\ version \in Nat
    BY <1>1, SnapshotType DEF Core, Coherent, Typed, SeenIsPast, TaskRecords
  <2>2. seen[c].sequence[t] < Len(log[t]) \/ UntoldSince(version, t)
    BY <1>1 DEF Vouched
  <2>3. /\ Len(log'[t]) \in Nat /\ Len(log[t]) \in Nat /\ Len(log'[t]) >= Len(log[t])
        /\ \/ Len(log'[t]) > Len(log[t])
           \/ task'[t] = task[t] /\ untold'[t] = untold[t]
           \/ Unnoticed(t)
        /\ task'[t].risk = task[t].risk
        /\ task[t].artifacts \subseteq task'[t].artifacts
    BY ChangesAreTold
  <2>4. ASSUME Unnoticed(t), UntoldSince(version, t)
        PROVE  (version + 1)..task'[t].version \subseteq {p.version : p \in untold'[t]}
    <3>1. (version + 1)..task'[t].version
            \subseteq ((version + 1)..task[t].version) \cup {task'[t].version}
      BY <2>1, <2>4, <1>k DEF Unnoticed
    <3>2. Moment(task'[t]).version = task'[t].version /\ Moment(task'[t]) \in untold'[t]
      BY <2>4 DEF Unnoticed, Moment
    <3>3. untold[t] \subseteq untold'[t]
      BY <2>4 DEF Unnoticed
    <3>4. QED
      BY <3>1, <3>2, <3>3, <2>4 DEF UntoldSince
  <2>5. \/ seen[c].sequence[t] < Len(log'[t])
        \/ (version + 1)..task'[t].version \subseteq {p.version : p \in untold'[t]}
    <3>1. CASE task'[t] = task[t] /\ untold'[t] = untold[t]
      BY <3>1, <2>1, <2>2, <2>3 DEF UntoldSince
    <3>2. CASE Unnoticed(t)
      BY <3>2, <2>1, <2>2, <2>3, <2>4
    <3>3. QED
      BY <3>1, <3>2, <2>1, <2>3
  <2>6. /\ seen[c].task[t].risk = task[t].risk
        /\ seen[c].task[t].artifacts \subseteq task[t].artifacts
    BY <1>1 DEF Vouched
  <2>7. QED
    BY <1>1, <2>3, <2>5, <2>6 DEF UntoldSince
<1>2. CASE /\ task' = task /\ log' = log
           /\ \A u \in Tasks : seen'[c].task[u] = task[u]
  <2>1. (task[t].version + 1)..task[t].version = {}
    BY <1>k
  <2>2. QED
    BY <1>2, <2>1 DEF UntoldSince
<1>3. QED
  BY <1>1, <1>2, SequencesAge DEF Core, Coherent

(* What a call has read of a task whose stream it adds to: the version is   *)
(* behind by untold changes only.                                           *)
LEMMA ReadOfTask ==
  ASSUME Core, Vouched, NEW c \in Callers, InFlight(c), NEW t \in Tasks
  PROVE  /\ seen[c].task[t].version \in Nat /\ seen[c].task[t].version <= task[t].version
         /\ seen[c].task[t].risk = task[t].risk
         /\ seen[c].task[t].artifacts \subseteq task[t].artifacts
         /\ Len(log[t]) = seen[c].sequence[t] => UntoldSince(seen[c].task[t].version, t)
<1>1. /\ task[t].version \in Nat /\ Len(log[t]) \in Nat /\ seen[c].task[t].version \in Nat
  BY SnapshotType DEF Core, Coherent, Typed, TypeOK, TaskRecords
<1>2. seen[c].task[t].version < task[t].version \/ seen[c].task[t] = task[t]
  BY DEF Core, Coherent, SnapshotsAreCoherent
<1>3. QED
  BY <1>1, <1>2 DEF Vouched

(* A session is made for a task that has not changed since but by untold    *)
(* changes, and never to implement an R3 task.                              *)
LEMMA RequestsAreCurrent ==
  ASSUME SessionInv, NEW c \in Callers, InFlight(c), NEW s \in SessionIds, NEW t \in Tasks,
         NEW role \in RunnerRoles, NEW inputs \in SUBSET Artifacts,
         RequestSession(c, s, t, role, inputs)
  PROVE  /\ sessions[s] = NoSession
         /\ sessions'[s] \in SessionRecords /\ sessions'[s].task = t /\ sessions'[s].role = role
         /\ sessions'[s].expected <= task[t].version
         /\ UntoldSince(sessions'[s].expected, t)
         /\ sessions'[s].inputs \subseteq task[t].artifacts
         /\ ~(task[t].risk = "R3" /\ role = "IMPLEMENTER")
         /\ \A q \in SessionIds \ {s} : sessions'[q] = sessions[q]
         /\ task' = task /\ results' = results /\ basis' = basis
<1>1. /\ sessions[s] = NoSession
      /\ MayRequest(c, t, role, inputs) /\ RecordActivity(c, t) /\ basis' = basis
      /\ sessions' = [sessions EXCEPT ![s] =
           [state |-> "REQUESTED", task |-> t, role |-> role,
            expected |-> seen[c].task[t].version, inputs |-> inputs]]
  BY DEF RequestSession
<1>2. /\ seen[c].task[t].version \in Nat /\ seen[c].task[t].version <= task[t].version
      /\ seen[c].task[t].risk = task[t].risk
      /\ seen[c].task[t].artifacts \subseteq task[t].artifacts
      /\ UntoldSince(seen[c].task[t].version, t)
  BY <1>1, ReadOfTask DEF RecordActivity, AppendEvents, SessionInv
<1>4. sessions'[s] = [state |-> "REQUESTED", task |-> t, role |-> role,
                      expected |-> seen[c].task[t].version, inputs |-> inputs]
  BY <1>1 DEF SessionInv, SessionsTypeOK
<1>5. sessions'[s] \in SessionRecords
  BY <1>2, <1>4 DEF SessionRecords
<1>6. \A q \in SessionIds \ {s} : sessions'[q] = sessions[q]
  BY <1>1 DEF SessionInv, SessionsTypeOK
<1>7. task' = task /\ results' = results
  BY <1>1 DEF RecordActivity
<1>8. QED
  BY <1>1, <1>2, <1>4, <1>5, <1>6, <1>7 DEF MayRequest

(* An outcome is added to a session that had none; nothing else changes.    *)
LEMMA OutcomesAreFinal ==
  ASSUME SessionInv, NEW c \in Callers, NEW s \in SessionIds, NEW outcome \in Outcomes,
         RunSession(c, s, outcome)
  PROVE  /\ sessions[s] \in SessionRecords /\ sessions[s].state = "REQUESTED"
         /\ sessions'[s] \in SessionRecords
         /\ sessions'[s].task = sessions[s].task /\ sessions'[s].role = sessions[s].role
         /\ \A q \in SessionIds \ {s} : sessions'[q] = sessions[q]
         /\ task' = task /\ results' = results /\ basis' = basis
<1>1. sessions[s] \in SessionRecords /\ sessions[s].state = "REQUESTED"
  BY DEF RunSession, Unfinished, SessionInv, SessionsTypeOK, NoSession
<1>2. /\ sessions' = [sessions EXCEPT ![s].state = outcome]
      /\ task' = task /\ results' = results /\ basis' = basis
  BY DEF RunSession, db
<1>3. sessions'[s] = [sessions[s] EXCEPT !.state = outcome]
  BY <1>2 DEF SessionInv, SessionsTypeOK
<1>4. sessions'[s] \in SessionRecords
  BY <1>1, <1>3 DEF SessionRecords
<1>5. \A q \in SessionIds \ {s} : sessions'[q] = sessions[q]
  BY <1>2 DEF SessionInv, SessionsTypeOK
<1>6. QED
  BY <1>1, <1>2, <1>3, <1>4, <1>5 DEF SessionRecords

(* All other steps but a publication leave sessions, results and their      *)
(* basis alone.                                                             *)
LEMMA SessionMoves ==
  ASSUME SessionInv, [SessionNext]_sessionVars
  PROVE  \/ sessions' = sessions /\ results' = results /\ basis' = basis
         \/ \E c \in Callers, s \in SessionIds, t \in Tasks, role \in RunnerRoles,
               inputs \in SUBSET Artifacts :
              InFlight(c) /\ RequestSession(c, s, t, role, inputs)
         \/ \E c \in Callers, s \in SessionIds, outcome \in Outcomes :
              RunSession(c, s, outcome)
         \/ \E c \in Callers, s \in SessionIds, t \in Tasks, w \in Workers, r \in ResultIds,
               role \in WorkerRoles, target \in Statuses, a \in Artifacts :
              PublishFromSession(c, s, r, t, w, role, target, a)
<1>1. CASE Surroundings /\ UNCHANGED <<sessions, basis>>
  BY <1>1 DEF Surroundings, Begin, Abort, Enqueue, EngageFuse, ReleaseFuse, Tick, db
<1>2. ASSUME NEW c \in Callers, CommitApart(c) /\ UNCHANGED <<sessions, basis>>
      PROVE  sessions' = sessions /\ results' = results /\ basis' = basis
  <2>1. ASSUME RecoverExpired(c)
        PROVE  results' = results
    BY <2>1 DEF RecoverExpired
  <2>2. ASSUME NEW t \in Tasks, NEW target \in Statuses, NEW actor \in Roles,
               NEW authorized \in BOOLEAN, TransitionTask(c, t, target, actor, authorized)
        PROVE  results' = results
    BY <2>2 DEF TransitionTask
  <2>3. ASSUME NEW t \in Tasks, NEW w \in Workers,
               CancelExecution(c, t, w) \/ Claim(c, w, t) \/ Heartbeat(c, w, t)
                 \/ FailAttempt(c, w, t)
        PROVE  results' = results
    BY <2>3 DEF CancelExecution, Claim, Heartbeat, FailAttempt
  <2>4. QED
    BY <1>2, <2>1, <2>2, <2>3 DEF CommitApart
<1>3. CASE UNCHANGED sessionVars
  BY <1>3 DEF sessionVars, vars, db
<1>4. ASSUME NEW c \in Callers, CommitSession(c)
      PROVE  InFlight(c)
  BY <1>4 DEF CommitSession
<1>5. QED
  BY <1>1, <1>2, <1>3, <1>4 DEF SessionNext, CommitSession

(* The invariant is kept.                                                   *)
LEMMA SessionInvStep ==
  ASSUME SessionInv, [SessionNext]_sessionVars
  PROVE  SessionInv'
<1>1. [Next]_vars
  BY SessionStepIsLedgerStep
<1>2. Core' /\ Vouched'
  BY <1>1, CoreStep, VouchedStep DEF SessionInv
<1>3. SessionsTypeOK'
  <2>1. CASE sessions' = sessions /\ basis' = basis
    BY <2>1 DEF SessionInv, SessionsTypeOK
  <2>2. ASSUME NEW c \in Callers, InFlight(c), NEW s \in SessionIds, NEW t \in Tasks,
               NEW role \in RunnerRoles, NEW inputs \in SUBSET Artifacts,
               RequestSession(c, s, t, role, inputs)
        PROVE  SessionsTypeOK'
    <3>1. sessions'[s] \in SessionRecords /\ basis' = basis
      BY <2>2, RequestsAreCurrent
    <3>2. QED
      BY <2>2, <3>1 DEF RequestSession, SessionInv, SessionsTypeOK
  <2>3. ASSUME NEW c \in Callers, NEW s \in SessionIds, NEW outcome \in Outcomes,
               RunSession(c, s, outcome)
        PROVE  SessionsTypeOK'
    <3>1. sessions'[s] \in SessionRecords /\ basis' = basis
      BY <2>3, OutcomesAreFinal
    <3>2. QED
      BY <2>3, <3>1 DEF RunSession, SessionInv, SessionsTypeOK
  <2>4. ASSUME NEW c \in Callers, NEW s \in SessionIds, NEW t \in Tasks, NEW w \in Workers,
               NEW r \in ResultIds, NEW role \in WorkerRoles, NEW target \in Statuses,
               NEW a \in Artifacts, PublishFromSession(c, s, r, t, w, role, target, a)
        PROVE  SessionsTypeOK'
    BY <2>4 DEF PublishFromSession, SessionInv, SessionsTypeOK
  <2>5. QED
    BY <2>1, <2>2, <2>3, <2>4, SessionMoves
<1>4. NoR3Implementer'
  <2> SUFFICES ASSUME NEW s \in SessionIds, sessions'[s] # NoSession
               PROVE  ~(sessions'[s].role = "IMPLEMENTER" /\ task'[sessions'[s].task].risk = "R3")
    BY DEF NoR3Implementer
  <2>1. sessions'[s].task \in Tasks
    BY <1>3 DEF SessionsTypeOK, SessionRecords
  <2>2. task'[sessions'[s].task].risk = task[sessions'[s].task].risk
    BY <1>1, <2>1, ChangesAreTold DEF SessionInv
  <2>3. CASE sessions'[s] = sessions[s]
    BY <2>2, <2>3 DEF SessionInv, NoR3Implementer
  <2>4. CASE sessions' = sessions
    BY <2>3, <2>4
  <2>5. ASSUME NEW c \in Callers, InFlight(c), NEW q \in SessionIds, NEW t \in Tasks,
               NEW role \in RunnerRoles, NEW inputs \in SUBSET Artifacts,
               RequestSession(c, q, t, role, inputs)
        PROVE  ~(sessions'[s].role = "IMPLEMENTER" /\ task'[sessions'[s].task].risk = "R3")
    BY <2>2, <2>3, <2>5, RequestsAreCurrent
  <2>6. ASSUME NEW c \in Callers, NEW q \in SessionIds, NEW outcome \in Outcomes,
               RunSession(c, q, outcome)
        PROVE  ~(sessions'[s].role = "IMPLEMENTER" /\ task'[sessions'[s].task].risk = "R3")
    <3>1. CASE q = s
      <4>1. /\ sessions[s] # NoSession /\ sessions'[s].task = sessions[s].task
            /\ sessions'[s].role = sessions[s].role
        BY <3>1, <2>6, OutcomesAreFinal DEF SessionRecords, NoSession
      <4>2. QED
        BY <4>1, <2>2 DEF SessionInv, NoR3Implementer
    <3>2. QED
      BY <3>1, <2>3, <2>6, OutcomesAreFinal
  <2>7. ASSUME NEW c \in Callers, NEW q \in SessionIds, NEW t \in Tasks, NEW w \in Workers,
               NEW r \in ResultIds, NEW role \in WorkerRoles, NEW target \in Statuses,
               NEW a \in Artifacts, PublishFromSession(c, q, r, t, w, role, target, a)
        PROVE  sessions' = sessions
    BY <2>7 DEF PublishFromSession
  <2>8. QED
    BY <2>4, <2>5, <2>6, <2>7, SessionMoves
<1>5. QED
  BY <1>2, <1>3, <1>4 DEF SessionInv

(* It holds before the first session.                                       *)
LEMMA SessionInvInit == SessionInit => SessionInv
<1>1. SessionInit => Core
  BY InitCore DEF SessionInit
<1>2. SessionInit => Vouched
  BY DEF SessionInit, Init, Vouched, InFlight
<1>3. SessionInit => SessionsTypeOK /\ NoR3Implementer
  BY DEF SessionInit, NoSessionYet, SessionsTypeOK, NoR3Implementer
<1>4. QED
  BY <1>1, <1>2, <1>3 DEF SessionInv

(* The invariant behind the theorems below holds in every state.            *)
THEOREM AlwaysSessionInv == SessionSpec => []SessionInv
<1>1. QED
  BY SessionInvInit, SessionInvStep, PTL DEF SessionSpec

(* Whatever sessions are requested, run and published by any number of      *)
(* callers, the ledger sees steps of its own: no result of an R3 task's     *)
(* implementer is ever published.                                           *)
THEOREM SessionsFollowTheLedger == SessionSpec => FollowsTheLedger
<1>1. SessionInv /\ [SessionNext]_sessionVars => [Next]_vars
  BY SessionStepIsLedgerStep
<1>2. QED
  BY <1>1, AlwaysSessionInv, PTL DEF SessionSpec, FollowsTheLedger

(* So the ledger with sessions implements the ledger without, and what is   *)
(* proved of the one holds of the other: here, that the queue keeps its     *)
(* promise.                                                                 *)
THEOREM SessionsImplementLedger == SessionSpec => Spec /\ KeepsWorkPromise
<1>1. SessionSpec => Init
  BY DEF SessionSpec, SessionInit
<1>2. SessionSpec => Spec
  BY <1>1, SessionsFollowTheLedger, PTL DEF FollowsTheLedger, Spec
<1>3. QED
  BY <1>2, LedgerKeepsWorkPromise, PTL

(* In particular, with sessions every stream tells a legal life, what       *)
(* executes was granted, a result aimed at READY_TO_PUBLISH blocks its task,*)
(* each result counts once and a failed task stays failed.                  *)
THEOREM SessionsKeepHistoryLegal ==
  SessionSpec => /\ [](HistoryIsLegal /\ ExecutionWasGranted /\ ReadyResultBlocks)
                 /\ []ResultAppliedOnce /\ FailureIsFinal
BY SessionsImplementLedger, HistoryIsAlwaysLegal, ExecutionIsAlwaysGranted,
   ReadyResultAlwaysBlocks, ResultsAreAppliedOnce, FailureIsAlwaysFinal, PTL

(* Every session was requested for a version since which its task saw none  *)
(* but untold changes, and for artifacts it had at that moment, though the  *)
(* task was read without a lock.                                            *)
THEOREM SessionsAreAlwaysCurrent == SessionSpec => SessionIsCurrent
<1> DEFINE Current(s) ==
      sessions[s] = NoSession /\ sessions'[s] # NoSession =>
        LET t == sessions'[s].task
        IN  /\ sessions'[s].expected <= task[t].version
            /\ (sessions'[s].expected + 1)..task[t].version
                 \subseteq {p.version : p \in untold[t]}
            /\ sessions'[s].inputs \subseteq task[t].artifacts
<1>1. ASSUME SessionInv, [SessionNext]_sessionVars, NEW s \in SessionIds
      PROVE  Current(s)
  <2>1. CASE sessions' = sessions
    BY <2>1
  <2>2. ASSUME NEW c \in Callers, InFlight(c), NEW q \in SessionIds, NEW t \in Tasks,
               NEW role \in RunnerRoles, NEW inputs \in SUBSET Artifacts,
               RequestSession(c, q, t, role, inputs)
        PROVE  Current(s)
    BY <1>1, <2>2, RequestsAreCurrent DEF UntoldSince
  <2>3. ASSUME NEW c \in Callers, NEW q \in SessionIds, NEW outcome \in Outcomes,
               RunSession(c, q, outcome)
        PROVE  Current(s)
    BY <1>1, <2>3, OutcomesAreFinal DEF SessionRecords, NoSession
  <2>4. ASSUME NEW c \in Callers, NEW q \in SessionIds, NEW t \in Tasks, NEW w \in Workers,
               NEW r \in ResultIds, NEW role \in WorkerRoles, NEW target \in Statuses,
               NEW a \in Artifacts, PublishFromSession(c, q, r, t, w, role, target, a)
        PROVE  sessions' = sessions
    BY <2>4 DEF PublishFromSession
  <2>5. QED
    BY <1>1, <2>1, <2>2, <2>3, <2>4, SessionMoves
<1>2. SessionInv /\ [SessionNext]_sessionVars
        => [\A s \in SessionIds : Current(s)]_sessionVars
  BY <1>1
<1>3. QED
  BY <1>2, AlwaysSessionInv, PTL DEF SessionSpec, SessionIsCurrent

(* Sessions and the basis of each result keep their types.                  *)
THEOREM SessionsTypeCorrect == SessionSpec => []SessionsTypeOK
<1>1. SessionInv => SessionsTypeOK
  BY DEF SessionInv
<1>2. QED
  BY <1>1, AlwaysSessionInv, PTL

(* Every result on record rests on a session that succeeded and that no     *)
(* later call changes.                                                      *)
THEOREM ResultsAlwaysRestOnSessions == SessionSpec => []ResultsRestOnSessions
<1> DEFINE Founded(r) ==
      IF results[r] = NoResult
      THEN basis[r] = "NONE"
      ELSE basis[r] \in SessionIds /\ Supports(basis[r], results[r].task, results[r].role)
<1>1. SessionInit => ResultsRestOnSessions
  BY DEF SessionInit, Init, NoSessionYet, ResultsRestOnSessions
<1>2. ASSUME SessionInv, ResultsRestOnSessions, [SessionNext]_sessionVars, NEW r \in ResultIds
      PROVE  Founded(r)'
  <2>i. Founded(r)
    BY <1>2 DEF ResultsRestOnSessions
  <2>1. CASE sessions' = sessions /\ results' = results /\ basis' = basis
    BY <2>1, <2>i DEF Supports
  <2>2. ASSUME NEW c \in Callers, InFlight(c), NEW q \in SessionIds, NEW t \in Tasks,
               NEW role \in RunnerRoles, NEW inputs \in SUBSET Artifacts,
               RequestSession(c, q, t, role, inputs)
        PROVE  Founded(r)'
    BY <1>2, <2>2, <2>i, RequestsAreCurrent DEF Supports, NoSession
  <2>3. ASSUME NEW c \in Callers, NEW q \in SessionIds, NEW outcome \in Outcomes,
               RunSession(c, q, outcome)
        PROVE  Founded(r)'
    BY <1>2, <2>3, <2>i, OutcomesAreFinal DEF Supports
  <2>4. ASSUME NEW c \in Callers, NEW q \in SessionIds, NEW t \in Tasks, NEW w \in Workers,
               NEW p \in ResultIds, NEW role \in WorkerRoles, NEW target \in Statuses,
               NEW a \in Artifacts, PublishFromSession(c, q, p, t, w, role, target, a)
        PROVE  Founded(r)'
    <3> DEFINE result == [recorded |-> TRUE, task |-> t, role |-> role, target |-> target,
                          expected |-> seen[c].task[t].version]
    <3>1. /\ Supports(q, t, role) /\ sessions' = sessions
          /\ basis' = [basis EXCEPT ![p] = q]
          /\ RecordResult(c, p, result)
      BY <2>4 DEF PublishFromSession, PublishResult
    <3>2. results' = [results EXCEPT ![p] = result]
      BY <3>1 DEF RecordResult
    <3>3. CASE r = p
      <4>1. results'[r] = result /\ basis'[r] = q
        BY <3>1, <3>2, <3>3, <1>2
        DEF SessionInv, SessionsTypeOK, Core, Coherent, Typed, TypeOK
      <4>2. result # NoResult /\ result.task = t /\ result.role = role
        BY DEF NoResult
      <4> HIDE DEF result
      <4>3. QED
        BY <4>1, <4>2, <3>1 DEF Supports
    <3>4. CASE r # p
      BY <3>1, <3>2, <3>4, <2>i, <1>2
      DEF Supports, SessionInv, SessionsTypeOK, Core, Coherent, Typed, TypeOK
    <3>5. QED
      BY <3>3, <3>4
  <2>5. QED
    BY <1>2, <2>1, <2>2, <2>3, <2>4, SessionMoves
<1>3. SessionInv /\ ResultsRestOnSessions /\ [SessionNext]_sessionVars => ResultsRestOnSessions'
  BY <1>2 DEF ResultsRestOnSessions
<1>4. QED
  BY <1>1, <1>3, AlwaysSessionInv, PTL DEF SessionSpec

------------------------------------------------------------------------------
(* SessionsAreAnnounced, as two sets that grow together.                    *)
Announcements(t) == {i \in 1..Len(log[t]) : log[t][i].kind = "ACTIVITY"}
SessionsOf(t) == {s \in SessionIds : sessions[s] # NoSession /\ sessions[s].task = t}

Tallied(t) ==
  /\ IsFiniteSet(SessionsOf(t))
  /\ Cardinality(Announcements(t)) = Cardinality(SessionsOf(t))

(* A step that adds no announcement to a stream.                            *)
Silent(t) ==
  \/ log'[t] = log[t]
  \/ \E kind \in {"TASK_TRANSITIONED", "TASK_BLOCKED", "QUEUE_FAILED"} : \E u :
       log'[t] = Append(log[t], Entry(kind, u))
  \/ \E base, u, r : log'[t] = log[t] \o <<Entry("ARTIFACT_REGISTERED", base), ResultEntry(u, r)>>

Requesting ==
  \E c \in Callers, s \in SessionIds, t \in Tasks, role \in RunnerRoles,
     inputs \in SUBSET Artifacts :
    InFlight(c) /\ RequestSession(c, s, t, role, inputs)

LEMMA SilentKeeps ==
  ASSUME Core, NEW t \in Tasks, Silent(t)
  PROVE  Announcements(t)' = Announcements(t)
<1>k. log[t] \in Seq(Entries) /\ Len(log[t]) \in Nat
  BY DEF Core, Coherent, Typed, TypeOK
<1>1. CASE log'[t] = log[t]
  BY <1>1 DEF Announcements
<1>2. ASSUME NEW e, e.kind # "ACTIVITY", log'[t] = Append(log[t], e)
      PROVE  Announcements(t)' = Announcements(t)
  <2>1. /\ Len(log'[t]) = Len(log[t]) + 1 /\ log'[t][Len(log[t]) + 1] = e
        /\ \A i \in 1..Len(log[t]) : log'[t][i] = log[t][i]
    BY <1>2, <1>k
  <2>2. 1..Len(log'[t]) = 1..Len(log[t]) \cup {Len(log[t]) + 1}
    BY <2>1, <1>k
  <2>3. QED
    BY <1>2, <2>1, <2>2 DEF Announcements
<1>3. ASSUME NEW e, NEW f, e.kind # "ACTIVITY", f.kind # "ACTIVITY",
             log'[t] = log[t] \o <<e, f>>
      PROVE  Announcements(t)' = Announcements(t)
  <2>1. /\ Len(log'[t]) = Len(log[t]) + 2
        /\ log'[t][Len(log[t]) + 1] = e /\ log'[t][Len(log[t]) + 2] = f
        /\ \A i \in 1..Len(log[t]) : log'[t][i] = log[t][i]
    BY <1>3, <1>k
  <2>2. 1..Len(log'[t]) = 1..Len(log[t]) \cup {Len(log[t]) + 1, Len(log[t]) + 2}
    BY <2>1, <1>k
  <2>3. QED
    BY <1>3, <2>1, <2>2 DEF Announcements
<1>4. \A kind, u : Entry(kind, u).kind = kind
  BY DEF Entry
<1>5. \A u, r : ResultEntry(u, r).kind = "TASK_TRANSITIONED"
  BY DEF Entry, ResultEntry
<1>6. ASSUME NEW kind \in {"TASK_TRANSITIONED", "TASK_BLOCKED", "QUEUE_FAILED"}, NEW u,
             log'[t] = Append(log[t], Entry(kind, u))
      PROVE  Announcements(t)' = Announcements(t)
  <2>1. Entry(kind, u).kind # "ACTIVITY"
    BY <1>4
  <2>2. QED
    BY <1>2, <1>6, <2>1
<1>7. ASSUME NEW base, NEW u, NEW r,
             log'[t] = log[t] \o <<Entry("ARTIFACT_REGISTERED", base), ResultEntry(u, r)>>
      PROVE  Announcements(t)' = Announcements(t)
  <2>1. Entry("ARTIFACT_REGISTERED", base).kind # "ACTIVITY" /\ ResultEntry(u, r).kind # "ACTIVITY"
    BY <1>4, <1>5
  <2>2. QED
    BY <1>3, <1>7, <2>1
<1>8. QED
  BY <1>1, <1>6, <1>7 DEF Silent

(* Only a request announces.                                                *)
LEMMA OthersAreSilent ==
  ASSUME SessionInv, [SessionNext]_sessionVars, ~Requesting, NEW t \in Tasks
  PROVE  Silent(t)
<1>k. DOMAIN log = Tasks
  BY DEF SessionInv, Core, Coherent, Typed, TypeOK
<1>1. CASE Surroundings \/ UNCHANGED sessionVars
  <2>1. log' = log
    BY <1>1 DEF Surroundings, Begin, Abort, Enqueue, EngageFuse, ReleaseFuse, Tick, db,
       sessionVars, vars
  <2>2. QED
    BY <2>1 DEF Silent
<1>2. ASSUME NEW u \in Tasks, NEW e, NEW n, AppendEvents(u, <<e>>, n)
      PROVE  log'[t] = log[t] \/ log'[t] = Append(log[t], e)
  <2>1. log' = [log EXCEPT ![u] = log[u] \o <<e>>]
    BY <1>2 DEF AppendEvents
  <2>2. log[t] \in Seq(Entries)
    BY DEF SessionInv, Core, Coherent, Typed, TypeOK
  <2>3. log[t] \o <<e>> = Append(log[t], e)
    BY <2>2
  <2>4. QED
    BY <2>1, <2>3, <1>k
<1>3. ASSUME NEW c \in Callers, CommitApart(c)
      PROVE  Silent(t)
  <2>1. ASSUME RecoverExpired(c)
        PROVE  Silent(t)
    BY <2>1, RecoveryWrites DEF Silent
  <2>2. ASSUME NEW u \in Tasks, NEW target \in Statuses, NEW actor \in Roles,
               NEW authorized \in BOOLEAN, TransitionTask(c, u, target, actor, authorized)
        PROVE  Silent(t)
    <3>1. \/ log' = log
          \/ \E v, n : AppendEvents(u, <<Entry("TASK_TRANSITIONED", v)>>, n)
      BY <2>2 DEF TransitionTask, AppendGiven
    <3>2. QED
      BY <1>2, <3>1 DEF Silent
  <2>3. ASSUME NEW u \in Tasks, NEW w \in Workers, CancelExecution(c, u, w)
        PROVE  Silent(t)
    <3>1. \E v, n : AppendEvents(u, <<Entry("TASK_BLOCKED", v)>>, n)
      BY <2>3 DEF CancelExecution
    <3>2. QED
      BY <1>2, <3>1 DEF Silent
  <2>4. ASSUME NEW u \in Tasks, NEW w \in Workers, Claim(c, w, u) \/ Heartbeat(c, w, u)
        PROVE  Silent(t)
    BY <2>4 DEF Claim, Heartbeat, Silent
  <2>5. ASSUME NEW u \in Tasks, NEW w \in Workers, FailAttempt(c, w, u)
        PROVE  Silent(t)
    <3>1. \/ log' = log
          \/ \E v, n : AppendEvents(u, <<Entry("QUEUE_FAILED", v)>>, n)
      BY <2>5 DEF FailAttempt, AppendGiven
    <3>2. QED
      BY <1>2, <3>1 DEF Silent
  <2>6. QED
    BY <1>3, <2>1, <2>2, <2>3, <2>4, <2>5 DEF CommitApart
<1>4. ASSUME NEW c \in Callers, NEW s \in SessionIds, NEW outcome \in Outcomes,
             RunSession(c, s, outcome)
      PROVE  Silent(t)
  BY <1>4 DEF RunSession, db, Silent
<1>5. ASSUME NEW c \in Callers, NEW s \in SessionIds, NEW u \in Tasks, NEW w \in Workers,
             NEW r \in ResultIds, NEW role \in WorkerRoles, NEW target \in Statuses,
             NEW a \in Artifacts, PublishFromSession(c, s, r, u, w, role, target, a)
      PROVE  Silent(t)
  <2>1. \E base, v, n :
          AppendEvents(u, <<Entry("ARTIFACT_REGISTERED", base), ResultEntry(v, r)>>, n)
    BY <1>5 DEF PublishFromSession, PublishResult
  <2>2. \E base, v :
          log' = [log EXCEPT ![u] =
                    log[u] \o <<Entry("ARTIFACT_REGISTERED", base), ResultEntry(v, r)>>]
    BY <2>1 DEF AppendEvents
  <2>3. QED
    BY <2>2, <1>k DEF Silent
<1>6. QED
  BY <1>1, <1>3, <1>4, <1>5 DEF SessionNext, CommitSession, Requesting

(* Nor does any other step make a session.                                  *)
LEMMA OthersMakeNoSession ==
  ASSUME SessionInv, [SessionNext]_sessionVars, ~Requesting, NEW t \in Tasks
  PROVE  SessionsOf(t)' = SessionsOf(t)
<1>1. CASE sessions' = sessions
  BY <1>1 DEF SessionsOf
<1>2. ASSUME NEW c \in Callers, NEW q \in SessionIds, NEW outcome \in Outcomes,
             RunSession(c, q, outcome)
      PROVE  SessionsOf(t)' = SessionsOf(t)
  <2>1. /\ sessions[q] # NoSession /\ sessions'[q] # NoSession
        /\ sessions'[q].task = sessions[q].task
        /\ \A s \in SessionIds \ {q} : sessions'[s] = sessions[s]
    BY <1>2, OutcomesAreFinal DEF SessionRecords, NoSession
  <2>2. QED
    BY <2>1 DEF SessionsOf
<1>3. ASSUME NEW c \in Callers, NEW q \in SessionIds, NEW u \in Tasks, NEW w \in Workers,
             NEW r \in ResultIds, NEW role \in WorkerRoles, NEW target \in Statuses,
             NEW a \in Artifacts, PublishFromSession(c, q, r, u, w, role, target, a)
      PROVE  sessions' = sessions
  BY <1>3 DEF PublishFromSession
<1>4. QED
  BY <1>1, <1>2, <1>3, SessionMoves DEF Requesting

(* A request makes one session of its task, with one announcement.          *)
LEMMA RequestsAnnounce ==
  ASSUME SessionInv, NEW c \in Callers, InFlight(c), NEW s \in SessionIds, NEW u \in Tasks,
         NEW role \in RunnerRoles, NEW inputs \in SUBSET Artifacts,
         RequestSession(c, s, u, role, inputs), NEW t \in Tasks, Tallied(t)
  PROVE  Tallied(t)'
<1>k. log[t] \in Seq(Entries) /\ Len(log[t]) \in Nat /\ DOMAIN log = Tasks
  BY DEF SessionInv, Core, Coherent, Typed, TypeOK
<1>1. /\ sessions[s] = NoSession /\ sessions'[s] # NoSession /\ sessions'[s].task = u
      /\ \A q \in SessionIds \ {s} : sessions'[q] = sessions[q]
  BY RequestsAreCurrent DEF SessionRecords, NoSession
<1>2. PICK e : e.kind = "ACTIVITY" /\ log' = [log EXCEPT ![u] = log[u] \o <<e>>]
  <2>1. Entry("ACTIVITY", task[u]).kind = "ACTIVITY"
    BY DEF Entry
  <2>2. QED
    BY <2>1 DEF RequestSession, RecordActivity, AppendEvents
<1>3. CASE t # u
  <2>1. log'[t] = log[t]
    BY <1>2, <1>3, <1>k
  <2>2. Announcements(t)' = Announcements(t)
    BY <2>1 DEF Announcements
  <2>3. SessionsOf(t)' = SessionsOf(t)
    BY <1>1, <1>3 DEF SessionsOf
  <2>4. QED
    BY <2>2, <2>3 DEF Tallied
<1>4. CASE t = u
  <2>1. log'[t] = log[t] \o <<e>>
    BY <1>2, <1>4, <1>k
  <2>2. /\ Len(log'[t]) = Len(log[t]) + 1 /\ log'[t][Len(log[t]) + 1] = e
        /\ \A i \in 1..Len(log[t]) : log'[t][i] = log[t][i]
    BY <2>1, <1>k
  <2>3. 1..Len(log'[t]) = 1..Len(log[t]) \cup {Len(log[t]) + 1}
    BY <2>2, <1>k
  <2>4. Announcements(t)' = Announcements(t) \cup {Len(log[t]) + 1}
    BY <1>2, <2>2, <2>3 DEF Announcements
  <2>5. IsFiniteSet(Announcements(t)) /\ Len(log[t]) + 1 \notin Announcements(t)
    <3>1. IsFiniteSet(1..Len(log[t]))
      BY <1>k, FS_Interval
    <3>2. Announcements(t) \subseteq 1..Len(log[t])
      BY DEF Announcements
    <3>3. QED
      BY <1>k, <3>1, <3>2, FS_Subset
  <2>6. SessionsOf(t)' = SessionsOf(t) \cup {s} /\ s \notin SessionsOf(t)
    BY <1>1, <1>4 DEF SessionsOf
  <2>7. /\ Cardinality(Announcements(t)') = Cardinality(Announcements(t)) + 1
        /\ IsFiniteSet(SessionsOf(t)')
        /\ Cardinality(SessionsOf(t)') = Cardinality(SessionsOf(t)) + 1
    <3>1. Cardinality(Announcements(t) \cup {Len(log[t]) + 1}) = Cardinality(Announcements(t)) + 1
      BY <2>5, FS_AddElement
    <3>2. /\ IsFiniteSet(SessionsOf(t) \cup {s})
          /\ Cardinality(SessionsOf(t) \cup {s}) = Cardinality(SessionsOf(t)) + 1
      BY <2>6, FS_AddElement DEF Tallied
    <3>3. QED
      BY <2>4, <2>6, <3>1, <3>2
  <2>8. QED
    BY <2>7 DEF Tallied
<1>5. QED
  BY <1>3, <1>4

(* Every session has its event and every such event its session, however    *)
(* many calls ask for sessions at once or die doing so.                     *)
THEOREM SessionsAreAlwaysAnnounced == SessionSpec => []SessionsAreAnnounced
<1> DEFINE AllTallied == \A t \in Tasks : Tallied(t)
<1>1. SessionInit => AllTallied
  <2> SUFFICES ASSUME SessionInit, NEW t \in Tasks PROVE Tallied(t)
    OBVIOUS
  <2>1. SessionsOf(t) = {}
    BY DEF SessionInit, NoSessionYet, SessionsOf
  <2>2. Announcements(t) = {}
    BY DEF SessionInit, Init, Entry, Announcements
  <2>3. QED
    BY <2>1, <2>2, FS_EmptySet DEF Tallied
<1>2. ASSUME SessionInv, AllTallied, [SessionNext]_sessionVars, NEW t \in Tasks
      PROVE  Tallied(t)'
  <2>1. CASE Requesting
    BY <1>2, <2>1, RequestsAnnounce DEF Requesting
  <2>2. CASE ~Requesting
    <3>1. Announcements(t)' = Announcements(t) /\ SessionsOf(t)' = SessionsOf(t)
      BY <1>2, <2>2, OthersAreSilent, SilentKeeps, OthersMakeNoSession DEF SessionInv
    <3>2. QED
      BY <1>2, <3>1 DEF Tallied
  <2>3. QED
    BY <2>1, <2>2
<1>3. SessionInv /\ AllTallied /\ [SessionNext]_sessionVars => AllTallied'
  BY <1>2
<1>4. AllTallied => SessionsAreAnnounced
  BY DEF Tallied, SessionsAreAnnounced, Announcements, SessionsOf
<1> HIDE DEF AllTallied
<1>5. QED
  BY <1>1, <1>3, <1>4, AlwaysSessionInv, PTL DEF SessionSpec
==============================================================================
