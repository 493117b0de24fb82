----------------------------- MODULE TaskLedger -----------------------------
(***************************************************************************)
(* The tasks, their event streams, the queue, the worker results and the    *)
(* fuse, under concurrent callers of the application services.              *)
(*                                                                         *)
(* Each service call is one READ COMMITTED transaction.  Its plain reads    *)
(* take no lock, so they may be old by the time it writes; its writes lock  *)
(* the row, check it and are undone together if anything later raises.  A   *)
(* call is therefore two steps: Begin, which notes what the caller and the  *)
(* service read (`seen`), and one commit action, which makes every check    *)
(* under a lock against the present and all the writes; or Abort, for a     *)
(* check that fails and for a process that dies.                            *)
(***************************************************************************)
EXTENDS TaskRules, MemoryQueue, Sequences, FiniteSets

CONSTANTS
  Tasks,         \* task ids, all created by intake
  Callers,       \* service calls that may be in flight together
  Artifacts,     \* references a worker result may register
  ResultIds,     \* ids of worker results
  Risk,          \* [Tasks -> RiskClasses]: effective risk
  Governed,      \* [Tasks -> BOOLEAN]: has a governance revision
  Priority,      \* [Tasks -> Nat]: priority of its queue row
  MaxEvents,     \* bound: only a terminal failure is added to a stream this long
  MaxEnqueues,   \* bound: how often a task is enqueued
  MaxUntold,     \* bound: changes of a task that its stream does not tell
  FuseInUse,     \* bound: whether anybody engages the fuse
  RenewalInUse   \* bound: whether workers renew their leases

ASSUME LedgerAssumption ==
  /\ Risk \in [Tasks -> RiskClasses]
  /\ Governed \in [Tasks -> BOOLEAN]
  /\ Priority \in [Tasks -> Nat]
  /\ MaxEvents \in Nat /\ MaxEnqueues \in Nat /\ MaxUntold \in Nat
  /\ FuseInUse \in BOOLEAN /\ RenewalInUse \in BOOLEAN
  /\ "NONE" \notin ResultIds

VARIABLES
  task,          \* the tasks table
  log,           \* the task_events table
  queue,         \* the task_queue table
  results,       \* the worker_results table
  fuse,          \* system_fuse.engaged
  seen,          \* what each call in flight has read
  granted,       \* history: capabilities governance granted per task
  claims,        \* history: claims since a task was last enqueued
  enqueues,      \* history: how often a task was enqueued
  untold         \* history: what calls with an event on record made of a task

db == <<task, log, queue, results, fuse>>
history == <<granted, claims, enqueues, untold>>
vars == <<db, seen, history>>

------------------------------------------------------------------------------
WorkerRoles == Roles \ {"SYSTEM", "VALIDATOR"}

(* ACTIVITY stands for the events of sessions and workspaces.               *)
EventKinds == {"TASK_RECEIVED", "TASK_TRANSITIONED", "TASK_BLOCKED",
               "ARTIFACT_REGISTERED", "QUEUE_FAILED", "ACTIVITY"}

NoResult == [recorded |-> FALSE]
Results == [recorded : {TRUE}, task : Tasks, role : WorkerRoles,
            target : Statuses, expected : Nat]

(* An event, with the version and status its transaction left the task in.  *)
Entries == [kind : EventKinds, version : Nat, status : Statuses,
            result : ResultIds \cup {"NONE"}]

Moments == [version : Nat, status : Statuses]
Moment(t) == [version |-> t.version, status |-> t.status]

Entry(kind, t) ==
  [kind |-> kind, version |-> t.version, status |-> t.status, result |-> "NONE"]

ResultEntry(t, r) == [Entry("TASK_TRANSITIONED", t) EXCEPT !.result = r]

Idle == [open |-> FALSE]
Snapshots == [open : {TRUE}, task : [Tasks -> TaskRecords(Artifacts)],
              sequence : [Tasks -> Nat], recorded : SUBSET ResultIds,
              fuse : BOOLEAN, lag : 0..MaxLag]

TypeOK ==
  /\ task \in [Tasks -> TaskRecords(Artifacts)]
  /\ log \in [Tasks -> Seq(Entries)]
  /\ queue \in [Tasks -> Rows]
  /\ results \in [ResultIds -> Results \cup {NoResult}]
  /\ fuse \in BOOLEAN
  /\ seen \in [Callers -> Snapshots \cup {Idle}]
  /\ granted \in [Tasks -> SUBSET GovernedTargets]
  /\ claims \in [Tasks -> Nat]
  /\ enqueues \in [Tasks -> Nat]
  /\ untold \in [Tasks -> SUBSET Moments]

(* TaskIntakeService.start with enqueue=True, for every task.               *)
Init ==
  /\ task = [t \in Tasks |-> NewTask(Risk[t], Governed[t])]
  /\ log = [t \in Tasks |-> <<Entry("TASK_RECEIVED", NewTask(Risk[t], Governed[t]))>>]
  /\ queue = [t \in Tasks |-> FreshRow(0)]
  /\ results = [r \in ResultIds |-> NoResult]
  /\ fuse = FALSE
  /\ seen = [c \in Callers |-> Idle]
  /\ granted = [t \in Tasks |-> {}]
  /\ claims = [t \in Tasks |-> 0]
  /\ enqueues = [t \in Tasks |-> 1]
  /\ untold = [t \in Tasks |-> {}]

------------------------------------------------------------------------------
(* The stores.  Each operator is the locked check and write of one adapter  *)
(* method, seen from the transaction's commit.                              *)

OverwriteTask(t, read, updated) ==                         \* mutant of UpdateTask
  task' = [task EXCEPT ![t] = updated]

(* tasks.update(updated, read.version)                                      *)
UpdateTask(t, read, updated) ==
  /\ updated.version = read.version + 1
  /\ task[t].version = read.version
  /\ task' = [task EXCEPT ![t] = updated]

HasRoom(t, n) == Len(log[t]) + n <= MaxEvents

AppendAtEnd(t, entries, expected) ==                     \* mutant of AppendEvents
  log' = [log EXCEPT ![t] = @ \o entries]

(* events.append(event, expected) for each of the entries in turn, with     *)
(* events that are not on record.                                           *)
AppendEvents(t, entries, expected) ==
  /\ Len(log[t]) = expected
  /\ log' = [log EXCEPT ![t] = @ \o entries]

(* events.append of an event that is on record: it is answered before any   *)
(* look at the sequence, and nothing is appended, but what the transaction  *)
(* makes of the task stays.  Only transition, fail and recover_expired take *)
(* the event of their caller; all other services make one afresh.           *)
OnRecord(t, kind) ==
  \E i \in 1..Len(log[t]) : log[t][i].kind = kind /\ log[t][i].result = "NONE"

Untold(t, updated) ==
  IF updated.version = task[t].version THEN untold[t] ELSE untold[t] \cup {Moment(updated)}

(* events.append(event, expected) with the event of the caller, which is    *)
(* new or, when the call is tried again, may be that of the earlier try.    *)
AppendGiven(t, kind, updated, expected) ==
  \/ /\ updated.status = "FAILED" \/ HasRoom(t, 1)
     /\ AppendEvents(t, <<Entry(kind, updated)>>, expected)
     /\ UNCHANGED untold
  \/ /\ OnRecord(t, kind)
     /\ Cardinality(Untold(t, updated)) <= MaxUntold
     /\ untold' = [untold EXCEPT ![t] = Untold(t, updated)]
     /\ UNCHANGED log

RecordOver(c, r, result) ==                              \* mutant of RecordResult
  results' = [results EXCEPT ![r] = result]

(* The lookup that publish begins with finds no such result; and            *)
(* worker_results.record_once at its end, where an identical row that is    *)
(* there by then is no error.                                               *)
RecordResult(c, r, result) ==
  /\ r \notin seen[c].recorded
  /\ results[r] \in {NoResult, result}
  /\ results' = [results EXCEPT ![r] = result]

CheckRowOnly(t, w, lag) ==                                \* mutant of CompleteRow
  OwnedBy(queue[t], w, lag) /\ UNCHANGED queue

(* queue.complete                                                           *)
CompleteRow(t, w, lag) ==
  /\ OwnedBy(queue[t], w, lag)
  /\ queue' = [queue EXCEPT ![t] = NoRow]

InFlight(c) == seen[c] # Idle
Close(c) == seen' = [seen EXCEPT ![c] = Idle]

------------------------------------------------------------------------------
(* The unlocked reads of a call: its caller's and the service's own.        *)
Begin(c) ==
  /\ ~InFlight(c)
  /\ seen' = [seen EXCEPT ![c] =
       [open |-> TRUE, task |-> task,
        sequence |-> [t \in Tasks |-> Len(log[t])],
        recorded |-> {r \in ResultIds : results[r] # NoResult},
        fuse |-> fuse, lag |-> 0]]
  /\ UNCHANGED <<db, history>>

(* A check raised, or the process died: nothing was written.                *)
Abort(c) ==
  /\ InFlight(c)
  /\ Close(c)
  /\ UNCHANGED <<db, history>>

(* TaskEventService.transition.  A governed target is only entered when the *)
(* governance reader grants the capability on the stored revision; in every *)
(* other case it blocks the task, whatever its status and whoever asks.     *)
TransitionTask(c, t, target, actor, authorized) ==
  /\ authorized => target \in GovernedTargets /\ seen[c].task[t].governed
  /\ LET read == seen[c].task[t]
         denied == target \in GovernedTargets /\ ~authorized
         updated == IF denied THEN Blocked(read) ELSE Transitioned(read, target)
     IN  /\ IF denied THEN CanBlock(read) ELSE CanTransition(read, target, actor)
         /\ UpdateTask(t, read, updated)
         /\ AppendGiven(t, "TASK_TRANSITIONED", updated, seen[c].sequence[t])
  /\ granted' = [granted EXCEPT ![t] = IF authorized THEN @ \cup {target} ELSE @]
  /\ UNCHANGED <<queue, results, fuse, claims, enqueues>>

(* ResultPublicationService.publish for a result not recorded when it was   *)
(* looked up: the artifact and its event, the transition and its event, the *)
(* queue row and the result, in one transaction.  It hands no governance    *)
(* reader to the transition, so a governed target always blocks the task.   *)
(* That a session of the same task and role has succeeded is for module     *)
(* Sessions; from here it only shows in HasSession.                         *)
HasSession(t, role) == ~(task[t].risk = "R3" /\ role = "IMPLEMENTER")

PublishResult(c, r, t, w, role, target, a) ==
  /\ HasRoom(t, 2)
  /\ LET read == seen[c].task[t]
         attached == Attached(read, a)
         base == IF attached # read THEN attached ELSE task[t]
         denied == target \in GovernedTargets
         updated == IF denied THEN Blocked(base) ELSE Transitioned(base, target)
     IN  /\ attached # read => task[t].version = read.version
         /\ IF denied THEN CanBlock(base) ELSE CanTransition(base, target, role)
         /\ task' = [task EXCEPT ![t] = updated]
         /\ AppendEvents(t, <<Entry("ARTIFACT_REGISTERED", base),
                              ResultEntry(updated, r)>>, seen[c].sequence[t])
         /\ RecordResult(c, r, [recorded |-> TRUE, task |-> t, role |-> role,
                                target |-> target, expected |-> read.version])
  /\ CompleteRow(t, w, seen[c].lag)
  /\ UNCHANGED <<fuse, history>>

SilentActivity(c, t) ==                                \* mutant of RecordActivity
  /\ Len(log[t]) = seen[c].sequence[t]
  /\ UNCHANGED <<task, log, queue, results, fuse, history>>

(* What the services of sessions and workspaces add to the stream: an event *)
(* that leaves the task as it is, whatever its status.                      *)
RecordActivity(c, t) ==
  /\ HasRoom(t, 1)
  /\ AppendEvents(t, <<Entry("ACTIVITY", task[t])>>, seen[c].sequence[t])
  /\ UNCHANGED <<task, queue, results, fuse, history>>

(* ResultPublicationService.cancel, governance having granted it.           *)
CancelExecution(c, t, w) ==
  /\ HasRoom(t, 1)
  /\ LET read == seen[c].task[t]
     IN  /\ CanBlock(read)
         /\ UpdateTask(t, read, Blocked(read))
         /\ AppendEvents(t, <<Entry("TASK_BLOCKED", Blocked(read))>>,
                         seen[c].sequence[t])
  /\ CompleteRow(t, w, seen[c].lag)
  /\ UNCHANGED <<results, fuse, history>>

------------------------------------------------------------------------------
(* ORDER BY priority DESC, available_at ASC                                 *)
Ahead(t, u) ==
  \/ Priority[t] > Priority[u]
  \/ Priority[t] = Priority[u] /\ queue[t].due < queue[u].due

(* QueueControlService.claim.  SKIP LOCKED passes over a better row that    *)
(* another call has locked, which takes a second call in flight.            *)
Claim(c, w, t) ==
  /\ ~seen[c].fuse
  /\ Claimable(queue[t], seen[c].lag)
  /\ \A u \in Tasks :
       Claimable(queue[u], seen[c].lag) /\ Ahead(u, t) =>
         \E d \in Callers \ {c} : InFlight(d)
  /\ queue' = [queue EXCEPT ![t] = ClaimedBy(@, w, seen[c].lag)]
  /\ claims' = [claims EXCEPT ![t] = @ + 1]
  /\ UNCHANGED <<task, log, results, fuse, granted, enqueues, untold>>

Heartbeat(c, w, t) ==
  /\ RenewalInUse
  /\ OwnedBy(queue[t], w, seen[c].lag)
  /\ queue' = [queue EXCEPT ![t] = Extended(@, seen[c].lag)]
  /\ UNCHANGED <<task, log, results, fuse, history>>

(* TaskQueueService.fail                                                    *)
FailAttempt(c, w, t) ==
  /\ OwnedBy(queue[t], w, seen[c].lag)
  /\ LET read == seen[c].task[t]
     IN  IF Exhausted(queue[t])
         THEN /\ CanFail(read, "SYSTEM")
              /\ UpdateTask(t, read, Failed(read))
              /\ AppendGiven(t, "QUEUE_FAILED", Failed(read), seen[c].sequence[t])
         ELSE /\ AppendGiven(t, "QUEUE_FAILED", task[t], seen[c].sequence[t])
              /\ UNCHANGED task
  /\ queue' = [queue EXCEPT ![t] = AfterFailure(@, seen[c].lag)]
  /\ UNCHANGED <<results, fuse, granted, claims, enqueues>>

(* TaskQueueService.recover_expired: one batch over every expired lease.    *)
(* For each lease on its last attempt the caller must have brought an event *)
(* with the right sequence or, for the tasks `again`, one that is on record,*)
(* or the whole batch is rolled back.                                       *)
RecoverExpired(c) ==
  LET expired == {t \in Tasks : Expired(queue[t], seen[c].lag)}
      terminal == {t \in expired : Exhausted(queue[t])}
  IN \E again \in SUBSET {t \in terminal : OnRecord(t, "QUEUE_FAILED")} :
      /\ expired # {}
      /\ \A t \in terminal :
           /\ CanFail(task[t], "SYSTEM")
           /\ t \in again \/ Len(log[t]) = seen[c].sequence[t]
      /\ queue' = [t \in Tasks |-> IF t \in expired
                                   THEN AfterExpiry(queue[t], seen[c].lag)
                                   ELSE queue[t]]
      /\ task' = [t \in Tasks |-> IF t \in terminal THEN Failed(task[t]) ELSE task[t]]
      /\ log' = [t \in Tasks |->
                   IF t \in terminal \ again
                   THEN Append(log[t], Entry("QUEUE_FAILED", Failed(task[t])))
                   ELSE log[t]]
      /\ untold' = [t \in Tasks |->
                      IF t \in again THEN Untold(t, Failed(task[t])) ELSE untold[t]]
      /\ \A t \in again : Cardinality(untold'[t]) <= MaxUntold
      /\ UNCHANGED <<results, fuse, granted, claims, enqueues>>

------------------------------------------------------------------------------
(* The queue port for a task's next role.  No service in src/ enqueues a    *)
(* task again once intake has: whoever does so is taken to enqueue a task   *)
(* that has no row and has not failed.                                      *)
Enqueue(t) ==
  /\ enqueues[t] < MaxEnqueues
  /\ queue[t].state = "ABSENT"
  /\ task[t].status \notin Terminal
  /\ queue' = [queue EXCEPT ![t] = FreshRow(0)]
  /\ enqueues' = [enqueues EXCEPT ![t] = @ + 1]
  /\ claims' = [claims EXCEPT ![t] = 0]
  /\ UNCHANGED <<task, log, results, fuse, seen, granted, untold>>

(* FuseService.engage, and release with governance's consent                *)
EngageFuse ==
  /\ FuseInUse /\ ~fuse
  /\ fuse' = TRUE
  /\ UNCHANGED <<task, log, queue, results, seen, history>>

ReleaseFuse ==
  /\ fuse
  /\ fuse' = FALSE
  /\ UNCHANGED <<task, log, queue, results, seen, history>>

(* Time passes; a call in flight holds on to the `now` it began with.       *)
Tick ==
  /\ \A c \in Callers : InFlight(c) => seen[c].lag < MaxLag
  /\ queue' = [t \in Tasks |-> Aged(queue[t])]
  /\ seen' = [c \in Callers |->
                IF InFlight(c) THEN [seen[c] EXCEPT !.lag = @ + 1] ELSE Idle]
  /\ UNCHANGED <<task, log, results, fuse, history>>

(* The calls that no session is part of.                                    *)
CommitApart(c) ==
  \/ RecoverExpired(c)
  \/ \E t \in Tasks :
       \/ \E target \in Statuses, actor \in Roles, authorized \in BOOLEAN :
            TransitionTask(c, t, target, actor, authorized)
       \/ \E w \in Workers :
            \/ CancelExecution(c, t, w)
            \/ Claim(c, w, t)
            \/ Heartbeat(c, w, t)
            \/ FailAttempt(c, w, t)

Commit(c) ==
  /\ InFlight(c)
  /\ Close(c)
  /\ \/ CommitApart(c)
     \/ \E t \in Tasks :
          \/ RecordActivity(c, t)
          \/ \E w \in Workers, r \in ResultIds, role \in WorkerRoles,
                target \in Statuses, a \in Artifacts :
               HasSession(t, role) /\ PublishResult(c, r, t, w, role, target, a)

Surroundings ==
  \/ \E c \in Callers : Begin(c) \/ Abort(c)
  \/ \E t \in Tasks : Enqueue(t)
  \/ EngageFuse
  \/ ReleaseFuse
  \/ Tick

Next == Surroundings \/ \E c \in Callers : Commit(c)

Spec == Init /\ [][Next]_vars

(* What the services need of those who call them, nothing of which is in    *)
(* src/: calls end, somebody keeps claiming whatever can be claimed, and    *)
(* somebody keeps recovering expired leases with events made afresh.        *)
ClaimTask(t) == \E c \in Callers, w \in Workers :
                  InFlight(c) /\ Close(c) /\ Claim(c, w, t)

Recover == \E c \in Callers : InFlight(c) /\ Close(c) /\ RecoverExpired(c)

Fairness ==
  /\ WF_vars(Tick)
  /\ \A c \in Callers : WF_vars(Begin(c)) /\ WF_vars(Abort(c) \/ Commit(c))
  /\ \A t \in Tasks : SF_vars(ClaimTask(t))
  /\ SF_vars(Recover)

FairSpec == Spec /\ Fairness
------------------------------------------------------------------------------
(* What one domain operation may do to a status.                            *)
LegalMove(from, to) ==
  \/ from = to
  \/ \E actor \in Roles : <<from, to, actor>> \in Stages
  \/ from = "DESIGN_REVIEW" /\ to = "PROPOSAL_READY"
  \/ from \notin Terminal /\ to \in {"BLOCKED", "FAILED"}

(* A version identifies what the row held: whatever a call in flight read   *)
(* is older than the row, or is still the row.  All of the optimistic       *)
(* checks rest on it, and it takes every writer to raise the version and    *)
(* none to write over a version it has not read (PostgresTaskRepository).   *)
SnapshotsAreCoherent ==
  \A c \in Callers, t \in Tasks : InFlight(c) =>
    \/ seen[c].task[t].version < task[t].version
    \/ seen[c].task[t] = task[t]

(* The life of a task is what its events tell and, for calls that brought   *)
(* an event which was on record, what they left untold.                     *)
Life(t) == {Moment(log[t][i]) : i \in 1..Len(log[t])} \cup untold[t]

(* The life of a task is whole and legal: it starts at RECEIVED, has one    *)
(* status for each version up to the present one, each a legal move from    *)
(* the version before, and the events are in its order.  So only a call     *)
(* that brings an event which is on record changes a task behind the back   *)
(* of its stream.  A lost update or an event that is not in its transaction *)
(* breaks it, and so would a stale call that takes a task past a stage: one *)
(* that is ready to publish has had every stage before (services.py,        *)
(* optimistic version and sequence checks).                                 *)
HistoryIsLegal ==
  \A t \in Tasks :
    LET life == Life(t)
    IN  /\ log[t][1].version = 0 /\ log[t][1].status = "RECEIVED"
        /\ \A i \in 1..(Len(log[t]) - 1) : log[t][i].version <= log[t][i + 1].version
        /\ \A p, q \in life :
             /\ p.version = q.version => p = q
             /\ q.version = p.version + 1 => LegalMove(p.status, q.status)
        /\ {p.version : p \in life} = 0..task[t].version
        /\ Moment(task[t]) \in life
        /\ task[t].status = "READY_TO_PUBLISH" =>
             {"DESIGN_REVIEW", "IMPLEMENTING", "PREFLIGHT", "PATCH_REVIEW"}
               \subseteq {p.status : p \in life}

(* The queue keeps its promise: at every moment there is for each task one  *)
(* piece of work at most, which ends exactly once, with the evidence its    *)
(* ending leaves in other tables: a result, a TASK_BLOCKED event or a task  *)
(* that has failed, after exactly MaxAttempts claims.  A completion without *)
(* its result, a result or failure that leaves the row, a second worker on  *)
(* a leased row or a forgotten attempt breaks it.                           *)
Recorded(t) == {r \in ResultIds : results[r] # NoResult /\ results[r].task = t}
Cancellations(t) == {i \in 1..Len(log[t]) : log[t][i].kind = "TASK_BLOCKED"}

Work == INSTANCE WorkPromise WITH
  offered <- enqueues,
  done <- [t \in Tasks |-> Cardinality(Recorded(t)) + Cardinality(Cancellations(t))],
  failed <- [t \in Tasks |-> task[t].status = "FAILED"],
  open <- [t \in Tasks |-> queue[t].state # "ABSENT"],
  holder <- [t \in Tasks |-> IF queue[t].state = "LEASED"
                             THEN queue[t].worker ELSE NoWorker],
  taken <- claims

KeepsWorkPromise == Work!Spec

(* No row is stranded: a row waiting for a worker still has an attempt left *)
(* (claim would skip it for ever and recovery looks at leases only), no     *)
(* lease is beyond the last attempt, and no row is that of a task which     *)
(* refuses to fail: the expiry of such a row would roll back every batch of *)
(* recover_expired from then on.                                            *)
NoStrandedRow ==
  \A t \in Tasks :
    /\ queue[t].state = "READY" => queue[t].attempt < MaxAttempts
    /\ queue[t].state = "LEASED" => queue[t].attempt \in 1..MaxAttempts
    /\ queue[t].state # "ABSENT" => CanFail(task[t], "SYSTEM")

(* The services' tests run on the in-memory queue: on every row that can    *)
(* ever be, it accepts the same calls and leaves the same as the table, in  *)
(* spite of a claim that asks for no attempt to be left (memory.py, line    *)
(* 111, with postgres.py, line 122).                                        *)
AdaptersAgree == \A t \in Tasks : Alike(queue[t])

(* PHASE1_SPEC.md line 64: a task fails by exhausting its attempts and only *)
(* so, and all of them were real claims since it was last enqueued.         *)
FailedAfterLastAttempt ==
  \A t \in Tasks : task[t].status = "FAILED" => claims[t] = MaxAttempts

(* A task executes only if it is not R3, has a governance revision and was  *)
(* granted `implement`, and is ready to publish only by a grant of `publish`*)
(* too: no path through a worker result, a stale read or a retry gets there *)
(* without.                                                                 *)
ExecutionWasGranted ==
  \A t \in Tasks :
    /\ task[t].status \in Executing =>
         task[t].risk # "R3" /\ task[t].governed /\ "IMPLEMENTING" \in granted[t]
    /\ task[t].status = "READY_TO_PUBLISH" => "READY_TO_PUBLISH" \in granted[t]

(* A worker result takes effect at most once, however often it is published *)
(* again, and exactly when it is on record: its row and its transition      *)
(* event are written together (workers.py, publish).                        *)
ResultAppliedOnce ==
  \A r \in ResultIds :
    LET uses == UNION {{<<t, i>> : i \in {k \in 1..Len(log[t]) : log[t][k].result = r}}
                         : t \in Tasks}
    IN  Cardinality(uses) = IF results[r] = NoResult THEN 0 ELSE 1

(* A result whose target is READY_TO_PUBLISH has blocked its task for good  *)
(* (publish hands no governance reader on, and no service unblocks).  So    *)
(* the pair that publication preparation asks for, a READY_TO_PUBLISH task  *)
(* and a result of that target on record, is never produced by a service.   *)
ReadyResultBlocks ==
  \A r \in ResultIds :
    results[r] # NoResult /\ results[r].target = "READY_TO_PUBLISH" =>
      task[results[r].task].status \in {"BLOCKED", "FAILED"}

(* At the level of the services a failed task is final: no stale call in    *)
(* flight when it failed changes it or adds to its history, but for the     *)
(* events of sessions and workspaces, whose services ask for no status.     *)
FailureIsFinal ==
  [][\A t \in Tasks : task[t].status = "FAILED" =>
       /\ task'[t] = task[t]
       /\ log'[t] \in {log[t], Append(log[t], Entry("ACTIVITY", task[t]))}]_vars

(* A queued task is dealt with: workers may die with any lease and any call *)
(* may be rolled back, and yet the row is gone in the end, by a result, a   *)
(* cancellation or the failure of the task.  Nothing another task of the    *)
(* batch does can hold recovery up for ever.                                *)
QueueDrains ==
  \A t \in Tasks : queue[t].state # "ABSENT" ~> queue[t].state = "ABSENT"

(* PHASE2_SPEC.md lines 17-18: an engaged fuse blocks claims.               *)
FuseBlocksClaims ==
  [][fuse => \A t \in Tasks :
       queue[t].state = "READY" => queue'[t].state # "LEASED"]_vars
==============================================================================
