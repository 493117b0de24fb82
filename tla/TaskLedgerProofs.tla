--------------------------- MODULE TaskLedgerProofs ---------------------------
(***************************************************************************)
(* Proofs about TaskLedger, for all sets of tasks, callers, workers,        *)
(* artifacts and results, any number of attempts and any bounds.            *)
(***************************************************************************)
EXTENDS TaskLedger, TaskRulesLemmas, FiniteSetTheorems

(* What NoStrandedRow says of one row.                                      *)
Sound(row) ==
  /\ row.state = "READY" => row.attempt < MaxAttempts
  /\ row.state = "LEASED" => row.attempt \in 1..MaxAttempts

(* A row without a lease is well formed with any number of attempts.        *)
LEMMA UnleasedIsRow ==
  ASSUME NEW state \in {"ABSENT", "READY"}, NEW attempt \in 0..MaxAttempts, NEW due \in Int
  PROVE  Unleased(state, attempt, due) \in Rows
BY DEF Unleased, Rows

(* Each operation of the queue leaves a sound row: the attempts used up in  *)
(* fail and in recover_expired are those that claim counts.                 *)
LEMMA RowsStaySound ==
  ASSUME NEW row \in Rows, Sound(row), NEW w \in Workers, NEW lag \in 0..MaxLag
  PROVE  /\ Claimable(row, lag) =>
              ClaimedBy(row, w, lag) \in Rows /\ Sound(ClaimedBy(row, w, lag))
         /\ OwnedBy(row, w, lag) =>
              /\ Extended(row, lag) \in Rows /\ Sound(Extended(row, lag))
              /\ AfterFailure(row, lag) \in Rows /\ Sound(AfterFailure(row, lag))
<1>a. /\ MaxAttempts \in Nat /\ MaxAttempts >= 1 /\ MaxLag \in Nat /\ LeaseTicks \in Nat
      /\ lag \in Nat /\ row.attempt \in 0..MaxAttempts /\ row.due \in Int /\ row.lease \in Int
  BY QueueAssumption DEF Rows
<1>1. ASSUME Claimable(row, lag)
      PROVE  ClaimedBy(row, w, lag) \in Rows /\ Sound(ClaimedBy(row, w, lag))
  BY <1>a, <1>1 DEF Claimable, ClaimedBy, Rows, Sound
<1>2. ASSUME OwnedBy(row, w, lag)
      PROVE  Extended(row, lag) \in Rows /\ Sound(Extended(row, lag))
  BY <1>a, <1>2 DEF OwnedBy, Extended, Rows, Sound
<1>3. NoRow \in Rows /\ Sound(NoRow)
  BY <1>a DEF NoRow, Unleased, Rows, Sound
<1>4. ASSUME OwnedBy(row, w, lag)
      PROVE  AfterFailure(row, lag) \in Rows /\ Sound(AfterFailure(row, lag))
  <2>1. row.attempt \in 1..MaxAttempts
    BY <1>4 DEF OwnedBy, Sound
  <2>2. Delay(row.attempt) - lag \in Int
    BY <2>1, <1>a, DelayAssumption
  <2>3. ASSUME ~Exhausted(row)
        PROVE  LET u == Unleased("READY", row.attempt, Delay(row.attempt) - lag)
               IN  u \in Rows /\ Sound(u)
    BY <1>a, <2>2, <2>3, UnleasedIsRow DEF Exhausted, Unleased, Sound
  <2>4. QED
    BY <1>3, <2>3 DEF AfterFailure
<1>5. QED
  BY <1>1, <1>2, <1>4

(* So does what happens to a row without its worker: its lease is recovered,*)
(* or time passes.                                                          *)
LEMMA RowsNeedNoWorker ==
  ASSUME NEW row \in Rows, Sound(row), NEW lag \in 0..MaxLag
  PROVE  /\ AfterExpiry(row, lag) \in Rows /\ Sound(AfterExpiry(row, lag))
         /\ Aged(row) \in Rows /\ Sound(Aged(row))
<1>a. /\ MaxAttempts \in Nat /\ MaxLag \in Nat /\ lag \in Nat
      /\ row.attempt \in 0..MaxAttempts /\ row.due \in Int /\ row.lease \in Int
  BY QueueAssumption DEF Rows
<1>1. AfterExpiry(row, lag) \in Rows /\ Sound(AfterExpiry(row, lag))
  <2>1. NoRow \in Rows /\ Sound(NoRow)
    BY <1>a DEF NoRow, Unleased, Rows, Sound
  <2>2. ASSUME ~Exhausted(row)
        PROVE  LET u == Unleased("READY", row.attempt, -lag)
               IN  u \in Rows /\ Sound(u)
    BY <1>a, <2>2, UnleasedIsRow DEF Exhausted, Unleased, Sound
  <2>3. QED
    BY <2>1, <2>2 DEF AfterExpiry
<1>2. Aged(row) \in Rows /\ Sound(Aged(row))
  <2>1. \A n \in Int : OneTickLess(n) \in Int
    BY <1>a DEF OneTickLess
  <2>2. QED
    BY <1>a, <2>1 DEF Aged, Rows, Sound
<1>3. QED
  BY <1>1, <1>2

------------------------------------------------------------------------------
(* TypeOK is not inductive alone: the delay before a retry is only a number *)
(* of ticks for an attempt that has been counted.                           *)
SoundQueue == \A t \in Tasks : Sound(queue[t])

Typed == TypeOK /\ SoundQueue

(* So every row is both well formed and sound.                              *)
LEMMA RowsAreSound ==
  ASSUME TypeOK
  PROVE  SoundQueue <=> \A t \in Tasks : queue[t] \in Rows /\ Sound(queue[t])
BY DEF TypeOK, SoundQueue

(* What a call in flight has read is made of well-formed rows.              *)
LEMMA SnapshotType ==
  ASSUME TypeOK, NEW c \in Callers, InFlight(c)
  PROVE  /\ seen[c].lag \in 0..MaxLag
         /\ \A t \in Tasks : /\ seen[c].task[t] \in TaskRecords(Artifacts)
                             /\ seen[c].sequence[t] \in Nat
BY DEF TypeOK, InFlight, Snapshots, Idle

(* The events that the services build are well formed.                      *)
LEMMA EntryType ==
  ASSUME NEW kind \in EventKinds, NEW t \in TaskRecords(Artifacts)
  PROVE  /\ Entry(kind, t) \in Entries
         /\ \A r \in ResultIds : ResultEntry(t, r) \in Entries
<1>1. t.version \in Nat /\ t.status \in Statuses
  BY DEF TaskRecords
<1>2. Entry(kind, t) \in Entries
  BY <1>1 DEF Entry, Entries
<1>3. ASSUME NEW r \in ResultIds
      PROVE  ResultEntry(t, r) \in Entries
  <2>1. Entry("TASK_TRANSITIONED", t) \in Entries
    BY <1>1 DEF Entry, Entries, EventKinds
  <2>2. QED
    BY <2>1 DEF ResultEntry, Entries
<1>4. QED
  BY <1>2, <1>3

(* The initial state, as intake leaves it.                                  *)
LEMMA InitTyped == Init => Typed
<1> SUFFICES ASSUME Init PROVE Typed
  OBVIOUS
<1>1. \A t \in Tasks : NewTask(Risk[t], Governed[t]) \in TaskRecords(Artifacts)
  BY LedgerAssumption DEF NewTask, TaskRecords, Statuses
<1>2. \A t \in Tasks : Entry("TASK_RECEIVED", NewTask(Risk[t], Governed[t])) \in Entries
  BY <1>1, EntryType DEF EventKinds
<1>3. log \in [Tasks -> Seq(Entries)]
  BY <1>2 DEF Init
<1>4. FreshRow(0) \in Rows /\ Sound(FreshRow(0))
  BY QueueAssumption DEF FreshRow, Unleased, Rows, Sound
<1>5. TypeOK
  BY <1>1, <1>3, <1>4 DEF Init, TypeOK
<1>6. QED
  BY <1>4, <1>5, RowsAreSound DEF Init, Typed

(* What each locked write leaves of the tables it writes.                   *)
LEMMA UpdateTaskType ==
  ASSUME TypeOK, NEW t \in Tasks, NEW read, NEW updated \in TaskRecords(Artifacts),
         UpdateTask(t, read, updated)
  PROVE  task' \in [Tasks -> TaskRecords(Artifacts)]
BY DEF TypeOK, UpdateTask

(* An append leaves well-formed event streams.                              *)
LEMMA AppendEventsType ==
  ASSUME TypeOK, NEW t \in Tasks, NEW entries \in Seq(Entries), NEW expected,
         AppendEvents(t, entries, expected)
  PROVE  log' \in [Tasks -> Seq(Entries)]
<1>1. log[t] \o entries \in Seq(Entries)
  BY DEF TypeOK
<1>2. QED
  BY <1>1 DEF TypeOK, AppendEvents

(* Leaving a change untold keeps the type of what is untold.                *)
LEMMA UntoldType ==
  ASSUME TypeOK, NEW t \in Tasks, NEW updated \in TaskRecords(Artifacts)
  PROVE  Untold(t, updated) \in SUBSET Moments
<1>1. Moment(updated) \in Moments
  BY DEF Moment, Moments, TaskRecords
<1>2. QED
  BY <1>1 DEF Untold, TypeOK

(* So does an append with the event of the caller, on record or not.        *)
LEMMA AppendGivenType ==
  ASSUME TypeOK, NEW t \in Tasks, NEW kind \in EventKinds,
         NEW updated \in TaskRecords(Artifacts), NEW expected,
         AppendGiven(t, kind, updated, expected)
  PROVE  /\ log' \in [Tasks -> Seq(Entries)]
         /\ untold' \in [Tasks -> SUBSET Moments]
<1>1. CASE AppendEvents(t, <<Entry(kind, updated)>>, expected) /\ UNCHANGED untold
  <2>1. <<Entry(kind, updated)>> \in Seq(Entries)
    BY EntryType
  <2>2. QED
    BY <1>1, <2>1, AppendEventsType DEF TypeOK
<1>2. CASE /\ untold' = [untold EXCEPT ![t] = Untold(t, updated)]
           /\ UNCHANGED log
  BY <1>2, UntoldType DEF TypeOK
<1>3. QED
  BY <1>1, <1>2 DEF AppendGiven

(* Completing a row leaves a sound queue.                                   *)
LEMMA CompleteRowType ==
  ASSUME Typed, NEW t \in Tasks, NEW w, NEW lag, CompleteRow(t, w, lag)
  PROVE  queue' \in [Tasks -> Rows] /\ \A u \in Tasks : Sound(queue'[u])
<1>1. NoRow \in Rows /\ Sound(NoRow)
  BY QueueAssumption DEF NoRow, Unleased, Rows, Sound
<1>2. \A u \in Tasks : Sound(queue[u])
  BY RowsAreSound DEF Typed
<1>3. QED
  BY <1>1, <1>2 DEF CompleteRow, Typed, TypeOK

(* What a batch of recover_expired does to each task, and nothing besides.  *)
Ending(c, t) == Expired(queue[t], seen[c].lag) /\ Exhausted(queue[t])

LEMMA RecoveryWrites ==
  ASSUME NEW c \in Callers, RecoverExpired(c)
  PROVE  /\ \A t \in Tasks :
              /\ queue'[t] = IF Expired(queue[t], seen[c].lag)
                             THEN AfterExpiry(queue[t], seen[c].lag) ELSE queue[t]
              /\ task'[t] = IF Ending(c, t) THEN Failed(task[t]) ELSE task[t]
              /\ Ending(c, t) => CanFail(task[t], "SYSTEM")
              /\ \/ /\ log'[t] = IF Ending(c, t)
                                  THEN Append(log[t], Entry("QUEUE_FAILED", Failed(task[t])))
                                  ELSE log[t]
                    /\ untold'[t] = untold[t]
                 \/ /\ Ending(c, t) /\ log'[t] = log[t]
                    /\ untold'[t] = Untold(t, Failed(task[t]))
         /\ queue' = [t \in Tasks |-> queue'[t]] /\ task' = [t \in Tasks |-> task'[t]]
         /\ log' = [t \in Tasks |-> log'[t]] /\ untold' = [t \in Tasks |-> untold'[t]]
         /\ UNCHANGED <<results, fuse, granted, claims, enqueues>>
<1> DEFINE expired == {t \in Tasks : Expired(queue[t], seen[c].lag)}
           terminal == {t \in expired : Exhausted(queue[t])}
<1>1. PICK again \in SUBSET terminal :
        /\ \A t \in terminal : CanFail(task[t], "SYSTEM")
        /\ queue' = [t \in Tasks |-> IF t \in expired
                                     THEN AfterExpiry(queue[t], seen[c].lag) ELSE queue[t]]
        /\ task' = [t \in Tasks |-> IF t \in terminal THEN Failed(task[t]) ELSE task[t]]
        /\ log' = [t \in Tasks |->
                     IF t \in terminal \ again
                     THEN Append(log[t], Entry("QUEUE_FAILED", Failed(task[t])))
                     ELSE log[t]]
        /\ untold' = [t \in Tasks |->
                        IF t \in again THEN Untold(t, Failed(task[t])) ELSE untold[t]]
        /\ UNCHANGED <<results, fuse, granted, claims, enqueues>>
  BY Zenon DEF RecoverExpired
<1>2. \A t \in Tasks : /\ t \in expired <=> Expired(queue[t], seen[c].lag)
                       /\ t \in terminal <=> Ending(c, t)
  BY DEF Ending
<1> HIDE DEF expired, terminal
<1>3. QED
  BY <1>1, <1>2

(* The tables a commit may write, and the history beside them.              *)
TablesTyped ==
  /\ task' \in [Tasks -> TaskRecords(Artifacts)]
  /\ log' \in [Tasks -> Seq(Entries)]
  /\ queue' \in [Tasks -> Rows] /\ \A t \in Tasks : Sound(queue'[t])
  /\ results' \in [ResultIds -> Results \cup {NoResult}]
  /\ fuse' \in BOOLEAN
  /\ granted' \in [Tasks -> SUBSET GovernedTargets]
  /\ claims' \in [Tasks -> Nat]
  /\ enqueues' \in [Tasks -> Nat]
  /\ untold' \in [Tasks -> SUBSET Moments]

(* Whatever a call commits, all tables stay well formed.                    *)
LEMMA CommitTyped ==
  ASSUME Typed, NEW c \in Callers, Commit(c)
  PROVE  TablesTyped
<1>c. InFlight(c)
  BY DEF Commit
<1>s. /\ seen[c].lag \in 0..MaxLag
      /\ \A t \in Tasks : seen[c].task[t] \in TaskRecords(Artifacts)
  BY <1>c, SnapshotType DEF Typed
<1>q. \A t \in Tasks : queue[t] \in Rows /\ Sound(queue[t])
  BY RowsAreSound DEF Typed
<1>k. \A t \in Tasks : task[t] \in TaskRecords(Artifacts)
  BY DEF Typed, TypeOK
<1>1. ASSUME NEW t \in Tasks, NEW target \in Statuses, NEW actor \in Roles,
             NEW authorized \in BOOLEAN, TransitionTask(c, t, target, actor, authorized)
      PROVE  TablesTyped
  <2> DEFINE read == seen[c].task[t]
             updated == IF target \in GovernedTargets /\ ~authorized
                        THEN Blocked(read) ELSE Transitioned(read, target)
  <2>1. updated \in TaskRecords(Artifacts)
    BY <1>s, OperationsReturnTasks
  <2>2. /\ UpdateTask(t, read, updated)
        /\ AppendGiven(t, "TASK_TRANSITIONED", updated, seen[c].sequence[t])
    BY <1>1 DEF TransitionTask
  <2>3. "TASK_TRANSITIONED" \in EventKinds
    BY DEF EventKinds
  <2>4. task' \in [Tasks -> TaskRecords(Artifacts)]
    BY <2>1, <2>2, UpdateTaskType DEF Typed
  <2>5. log' \in [Tasks -> Seq(Entries)] /\ untold' \in [Tasks -> SUBSET Moments]
    BY <2>1, <2>2, <2>3, AppendGivenType DEF Typed
  <2>6. granted' \in [Tasks -> SUBSET GovernedTargets]
    BY <1>1 DEF TransitionTask, Typed, TypeOK
  <2>7. QED
    BY <2>4, <2>5, <2>6, <1>q, <1>1 DEF TransitionTask, Typed, TypeOK, TablesTyped
<1>2. ASSUME NEW t \in Tasks, NEW w \in Workers, NEW r \in ResultIds,
             NEW role \in WorkerRoles, NEW target \in Statuses, NEW a \in Artifacts,
             PublishResult(c, r, t, w, role, target, a)
      PROVE  TablesTyped
  <2> DEFINE read == seen[c].task[t]
             attached == Attached(read, a)
             base == IF attached # read THEN attached ELSE task[t]
             updated == IF target \in GovernedTargets
                        THEN Blocked(base) ELSE Transitioned(base, target)
             entries == <<Entry("ARTIFACT_REGISTERED", base), ResultEntry(updated, r)>>
             result == [recorded |-> TRUE, task |-> t, role |-> role,
                        target |-> target, expected |-> read.version]
  <2>1. base \in TaskRecords(Artifacts)
    BY <1>s, <1>k, OperationsReturnTasks
  <2>2. updated \in TaskRecords(Artifacts)
    BY <2>1, OperationsReturnTasks
  <2>3. /\ task' = [task EXCEPT ![t] = updated]
        /\ AppendEvents(t, entries, seen[c].sequence[t])
        /\ RecordResult(c, r, result)
        /\ CompleteRow(t, w, seen[c].lag)
    BY <1>2 DEF PublishResult
  <2>4. entries \in Seq(Entries)
    BY <2>1, <2>2, EntryType DEF EventKinds
  <2>5. log' \in [Tasks -> Seq(Entries)]
    BY <2>3, <2>4, AppendEventsType DEF Typed
  <2>6. read.version \in Nat
    BY <1>s DEF TaskRecords
  <2>7. results' \in [ResultIds -> Results \cup {NoResult}]
    BY <2>3, <2>6 DEF RecordResult, Results, Typed, TypeOK
  <2>8. queue' \in [Tasks -> Rows] /\ \A u \in Tasks : Sound(queue'[u])
    BY <2>3, CompleteRowType
  <2>9. task' \in [Tasks -> TaskRecords(Artifacts)]
    BY <2>2, <2>3 DEF Typed, TypeOK
  <2>10. QED
    BY <2>5, <2>7, <2>8, <2>9, <1>2
    DEF PublishResult, history, Typed, TypeOK, TablesTyped
<1>3. ASSUME NEW t \in Tasks, NEW w \in Workers, CancelExecution(c, t, w)
      PROVE  TablesTyped
  <2> DEFINE updated == Blocked(seen[c].task[t])
  <2>1. updated \in TaskRecords(Artifacts)
    BY <1>s, OperationsReturnTasks
  <2>2. /\ UpdateTask(t, seen[c].task[t], updated)
        /\ AppendEvents(t, <<Entry("TASK_BLOCKED", updated)>>, seen[c].sequence[t])
        /\ CompleteRow(t, w, seen[c].lag)
    BY <1>3 DEF CancelExecution
  <2>3. <<Entry("TASK_BLOCKED", updated)>> \in Seq(Entries)
    BY <2>1, EntryType DEF EventKinds
  <2>4. QED
    BY <2>1, <2>2, <2>3, <1>3, UpdateTaskType, AppendEventsType, CompleteRowType
    DEF CancelExecution, history, Typed, TypeOK, TablesTyped
<1>4. ASSUME NEW t \in Tasks, NEW w \in Workers, Claim(c, w, t)
      PROVE  TablesTyped
  <2>1. ClaimedBy(queue[t], w, seen[c].lag) \in Rows /\ Sound(ClaimedBy(queue[t], w, seen[c].lag))
    BY <1>4, <1>s, <1>q, RowsStaySound DEF Claim
  <2>2. queue' \in [Tasks -> Rows] /\ \A u \in Tasks : Sound(queue'[u])
    BY <2>1, <1>4, <1>q DEF Claim, Typed, TypeOK
  <2>3. claims' \in [Tasks -> Nat]
    BY <1>4 DEF Claim, Typed, TypeOK
  <2>4. QED
    BY <2>2, <2>3, <1>4 DEF Claim, Typed, TypeOK, TablesTyped
<1>5. ASSUME NEW t \in Tasks, NEW w \in Workers, Heartbeat(c, w, t)
      PROVE  TablesTyped
  <2>1. Extended(queue[t], seen[c].lag) \in Rows /\ Sound(Extended(queue[t], seen[c].lag))
    BY <1>5, <1>s, <1>q, RowsStaySound DEF Heartbeat
  <2>2. queue' \in [Tasks -> Rows] /\ \A u \in Tasks : Sound(queue'[u])
    BY <2>1, <1>5, <1>q DEF Heartbeat, Typed, TypeOK
  <2>3. QED
    BY <2>2, <1>5 DEF Heartbeat, history, Typed, TypeOK, TablesTyped
<1>6. ASSUME NEW t \in Tasks, NEW w \in Workers, FailAttempt(c, w, t)
      PROVE  TablesTyped
  <2>1. AfterFailure(queue[t], seen[c].lag) \in Rows /\ Sound(AfterFailure(queue[t], seen[c].lag))
    BY <1>6, <1>s, <1>q, RowsStaySound DEF FailAttempt
  <2>2. queue' \in [Tasks -> Rows] /\ \A u \in Tasks : Sound(queue'[u])
    BY <2>1, <1>6, <1>q DEF FailAttempt, Typed, TypeOK
  <2>3. Failed(seen[c].task[t]) \in TaskRecords(Artifacts)
    BY <1>s, OperationsReturnTasks
  <2>4. task' \in [Tasks -> TaskRecords(Artifacts)]
    BY <2>3, <1>6, UpdateTaskType DEF FailAttempt, Typed, TypeOK
  <2>5. "QUEUE_FAILED" \in EventKinds
    BY DEF EventKinds
  <2>6. log' \in [Tasks -> Seq(Entries)] /\ untold' \in [Tasks -> SUBSET Moments]
    BY <2>3, <2>5, <1>6, <1>k, AppendGivenType DEF FailAttempt, Typed
  <2>7. QED
    BY <2>2, <2>4, <2>6, <1>6 DEF FailAttempt, Typed, TypeOK, TablesTyped
<1>7. ASSUME RecoverExpired(c)
      PROVE  TablesTyped
  <2>1. ASSUME NEW t \in Tasks
        PROVE  queue'[t] \in Rows /\ Sound(queue'[t])
    BY <1>7, <1>s, <1>q, RowsNeedNoWorker, RecoveryWrites
  <2>2. ASSUME NEW t \in Tasks
        PROVE  task'[t] \in TaskRecords(Artifacts)
    BY <1>7, <1>k, OperationsReturnTasks, RecoveryWrites
  <2>3. ASSUME NEW t \in Tasks
        PROVE  log'[t] \in Seq(Entries)
    <3>1. Entry("QUEUE_FAILED", Failed(task[t])) \in Entries
      BY <1>k, OperationsReturnTasks, EntryType DEF EventKinds
    <3>2. log[t] \in Seq(Entries)
      BY DEF Typed, TypeOK
    <3>3. Append(log[t], Entry("QUEUE_FAILED", Failed(task[t]))) \in Seq(Entries)
      BY <3>1, <3>2
    <3>4. QED
      BY <3>2, <3>3, <1>7, RecoveryWrites
  <2>4. ASSUME NEW t \in Tasks
        PROVE  untold'[t] \in SUBSET Moments
    <3>1. Untold(t, Failed(task[t])) \in SUBSET Moments
      BY <1>k, OperationsReturnTasks, UntoldType DEF Typed
    <3>2. untold[t] \in SUBSET Moments
      BY DEF Typed, TypeOK
    <3>3. QED
      BY <3>1, <3>2, <1>7, RecoveryWrites
  <2>5. /\ task' \in [Tasks -> TaskRecords(Artifacts)]
        /\ log' \in [Tasks -> Seq(Entries)]
        /\ queue' \in [Tasks -> Rows]
        /\ untold' \in [Tasks -> SUBSET Moments]
    BY <2>1, <2>2, <2>3, <2>4, <1>7, RecoveryWrites
  <2>6. QED
    BY <2>1, <2>5, <1>7, RecoveryWrites DEF Typed, TypeOK, TablesTyped
<1>8. ASSUME NEW t \in Tasks, RecordActivity(c, t)
      PROVE  TablesTyped
  <2>1. <<Entry("ACTIVITY", task[t])>> \in Seq(Entries)
    BY <1>k, EntryType DEF EventKinds
  <2>2. log' \in [Tasks -> Seq(Entries)]
    BY <2>1, <1>8, AppendEventsType DEF RecordActivity, Typed
  <2>3. QED
    BY <2>2, <1>q, <1>8 DEF RecordActivity, history, Typed, TypeOK, TablesTyped
<1>9. QED
  BY <1>1, <1>2, <1>3, <1>4, <1>5, <1>6, <1>7, <1>8 DEF Commit, CommitApart

(* So does every other step, and with them the snapshots.                   *)
LEMMA TypedStep ==
  ASSUME Typed, [Next]_vars
  PROVE  Typed'
<1>0. ASSUME TablesTyped, seen' \in [Callers -> Snapshots \cup {Idle}]
      PROVE  Typed'
  BY <1>0 DEF TablesTyped, Typed, TypeOK, SoundQueue
<1>q. \A t \in Tasks : queue[t] \in Rows /\ Sound(queue[t])
  BY RowsAreSound DEF Typed
<1>1. ASSUME NEW c \in Callers, Begin(c) PROVE Typed'
  <2> DEFINE snapshot == [open |-> TRUE, task |-> task,
                          sequence |-> [t \in Tasks |-> Len(log[t])],
                          recorded |-> {r \in ResultIds : results[r] # NoResult},
                          fuse |-> fuse, lag |-> 0]
  <2>1. \A t \in Tasks : Len(log[t]) \in Nat
    BY DEF Typed, TypeOK
  <2>2. 0 \in 0..MaxLag
    BY QueueAssumption
  <2>3. snapshot \in Snapshots
    BY <2>1, <2>2 DEF Snapshots, Typed, TypeOK
  <2>4. seen' = [seen EXCEPT ![c] = snapshot] /\ UNCHANGED <<db, history>>
    BY <1>1 DEF Begin
  <2> HIDE DEF snapshot
  <2>5. seen' \in [Callers -> Snapshots \cup {Idle}]
    BY <2>3, <2>4 DEF Typed, TypeOK
  <2>6. TablesTyped
    BY <2>4, <1>q DEF db, history, Typed, TypeOK, TablesTyped
  <2>7. QED
    BY <1>0, <2>5, <2>6
<1>2. ASSUME NEW c \in Callers, Close(c) PROVE seen' \in [Callers -> Snapshots \cup {Idle}]
  BY <1>2 DEF Close, Typed, TypeOK
<1>3. ASSUME NEW c \in Callers, Abort(c) PROVE Typed'
  <2>1. TablesTyped
    BY <1>3, <1>q DEF Abort, db, history, Typed, TypeOK, TablesTyped
  <2>2. QED
    BY <1>0, <1>2, <1>3, <2>1 DEF Abort
<1>4. ASSUME NEW c \in Callers, Commit(c) PROVE Typed'
  BY <1>0, <1>2, <1>4, CommitTyped DEF Commit
<1>5. ASSUME NEW t \in Tasks, Enqueue(t) PROVE Typed'
  <2>1. FreshRow(0) \in Rows /\ Sound(FreshRow(0))
    BY QueueAssumption DEF FreshRow, Unleased, Rows, Sound
  <2>2. queue' \in [Tasks -> Rows] /\ \A u \in Tasks : Sound(queue'[u])
    BY <2>1, <1>5, <1>q DEF Enqueue, Typed, TypeOK
  <2>3. enqueues' \in [Tasks -> Nat] /\ claims' \in [Tasks -> Nat]
    BY <1>5 DEF Enqueue, Typed, TypeOK
  <2>4. TablesTyped /\ seen' = seen
    BY <2>2, <2>3, <1>5 DEF Enqueue, Typed, TypeOK, TablesTyped
  <2>5. QED
    BY <1>0, <2>4 DEF Typed, TypeOK
<1>6. CASE EngageFuse \/ ReleaseFuse
  <2>1. TablesTyped /\ seen' = seen
    BY <1>6, <1>q DEF EngageFuse, ReleaseFuse, history, Typed, TypeOK, TablesTyped
  <2>2. QED
    BY <1>0, <2>1 DEF Typed, TypeOK
<1>7. CASE Tick
  <2>1. ASSUME NEW t \in Tasks PROVE Aged(queue[t]) \in Rows /\ Sound(Aged(queue[t]))
    <3>1. 0 \in 0..MaxLag
      BY QueueAssumption
    <3>2. QED
      BY <3>1, <1>q, RowsNeedNoWorker
  <2>2. TablesTyped
    BY <2>1, <1>7 DEF Tick, history, Typed, TypeOK, TablesTyped
  <2>3. ASSUME NEW c \in Callers
        PROVE  seen'[c] \in Snapshots \cup {Idle}
    <3>1. CASE InFlight(c)
      <4>1. seen[c] \in Snapshots /\ seen[c].lag \in 0..MaxLag /\ seen[c].lag < MaxLag
        BY <3>1, <1>7, SnapshotType DEF Tick, InFlight, Typed, TypeOK
      <4>2. seen[c].lag + 1 \in 0..MaxLag
        BY <4>1, QueueAssumption
      <4>3. [seen[c] EXCEPT !.lag = @ + 1] \in Snapshots
        BY <4>1, <4>2 DEF Snapshots
      <4>4. QED
        BY <4>3, <3>1, <1>7 DEF Tick
    <3>2. QED
      BY <3>1, <1>7 DEF Tick
  <2>4. seen' \in [Callers -> Snapshots \cup {Idle}]
    BY <2>3, <1>7 DEF Tick
  <2>5. QED
    BY <1>0, <2>2, <2>4
<1>8. CASE UNCHANGED vars
  BY <1>8 DEF vars, db, history, Typed, TypeOK, SoundQueue
<1>9. QED
  BY <1>1, <1>3, <1>4, <1>5, <1>6, <1>7, <1>8 DEF Next, Surroundings

(* The tables are well formed and their rows sound in every state of every  *)
(* behaviour.                                                               *)
THEOREM AlwaysTyped == Spec => []Typed
<1>1. QED
  BY InitTyped, TypedStep, PTL DEF Spec

(* Every table, snapshot and history variable keeps its type.               *)
THEOREM TypeCorrect == Spec => []TypeOK
<1>1. Typed => TypeOK
  BY DEF Typed
<1>2. QED
  BY <1>1, AlwaysTyped, PTL

------------------------------------------------------------------------------
(* Coherence: a row only ever changes to a higher version, and a snapshot   *)
(* is either taken now or what it was.                                      *)
LEMMA VersionsRise ==
  ASSUME Typed, [Next]_vars, NEW t \in Tasks
  PROVE  task'[t] = task[t] \/ task'[t].version > task[t].version
<1> DEFINE Goal == task'[t] = task[t] \/ task'[t].version > task[t].version
<1>k. \A u \in Tasks : task[u] \in TaskRecords(Artifacts) /\ task[u].version \in Nat
  BY DEF Typed, TypeOK, TaskRecords
<1>1. ASSUME NEW u \in Tasks, NEW read, NEW updated, UpdateTask(u, read, updated)
      PROVE  Goal
  BY <1>1, <1>k DEF UpdateTask, Typed, TypeOK
<1>2. ASSUME NEW c \in Callers, Commit(c)
      PROVE  Goal
  <2>s. \A u \in Tasks : seen[c].task[u] \in TaskRecords(Artifacts)
    BY <1>2, SnapshotType DEF Typed, Commit
  <2>1. ASSUME NEW u \in Tasks, NEW target \in Statuses, NEW actor \in Roles,
               NEW authorized \in BOOLEAN, TransitionTask(c, u, target, actor, authorized)
        PROVE  Goal
    BY <2>1, <1>1 DEF TransitionTask
  <2>2. ASSUME NEW u \in Tasks, NEW w \in Workers, NEW r \in ResultIds,
               NEW role \in WorkerRoles, NEW target \in Statuses, NEW a \in Artifacts,
               PublishResult(c, r, u, w, role, target, a)
        PROVE  Goal
    <3> DEFINE attached == Attached(seen[c].task[u], a)
               base == IF attached # seen[c].task[u] THEN attached ELSE task[u]
    <3>1. attached # seen[c].task[u] => task[u].version = seen[c].task[u].version
      BY <2>2 DEF PublishResult
    <3>2. base \in TaskRecords(Artifacts) /\ base.version \in Nat
      <4>1. base \in TaskRecords(Artifacts)
        BY <2>s, <1>k, OperationsReturnTasks
      <4> HIDE DEF base
      <4>2. QED
        BY <4>1 DEF TaskRecords
    <3>3. base.version >= task[u].version
      BY <3>1, <3>2, <2>s, <1>k, OperationsRaiseVersion
    <3>4. task'[u] = Blocked(base) \/ task'[u] = Transitioned(base, target)
      BY <2>2 DEF PublishResult, Typed, TypeOK
    <3>5. task'[u].version = base.version + 1
      BY <3>2, <3>4, OperationsRaiseVersion
    <3>6. u # t => task'[t] = task[t]
      BY <2>2 DEF PublishResult, Typed, TypeOK
    <3>7. QED
      BY <3>2, <3>3, <3>5, <3>6, <1>k
  <2>3. ASSUME NEW u \in Tasks, NEW w \in Workers, CancelExecution(c, u, w)
        PROVE  Goal
    BY <2>3, <1>1 DEF CancelExecution
  <2>4. ASSUME NEW u \in Tasks, NEW w \in Workers, FailAttempt(c, w, u)
        PROVE  Goal
    BY <2>4, <1>1 DEF FailAttempt
  <2>5. ASSUME NEW u \in Tasks, NEW w \in Workers, Claim(c, w, u) \/ Heartbeat(c, w, u)
        PROVE  Goal
    BY <2>5 DEF Claim, Heartbeat
  <2>6. ASSUME RecoverExpired(c)
        PROVE  Goal
    BY <2>6, <1>k, OperationsRaiseVersion, RecoveryWrites
  <2>7. ASSUME NEW u \in Tasks, RecordActivity(c, u)
        PROVE  Goal
    BY <2>7 DEF RecordActivity
  <2>8. QED
    BY <1>2, <2>1, <2>2, <2>3, <2>4, <2>5, <2>6, <2>7 DEF Commit, CommitApart
<1>3. ASSUME NEW c \in Callers, Begin(c) \/ Abort(c)
      PROVE  Goal
  BY <1>3 DEF Begin, Abort, db
<1>4. QED
  BY <1>2, <1>3 DEF Next, Surroundings, Enqueue, EngageFuse, ReleaseFuse, Tick, vars, db

(* A step that lets a call go on leaves its snapshot as it was or, when the *)
(* call begins, takes it from the present rows.                             *)
LEMMA SnapshotsAge ==
  ASSUME Typed, [Next]_vars, NEW c \in Callers, InFlight(c)'
  PROVE  \/ seen'[c].task = task /\ task' = task
         \/ InFlight(c) /\ seen'[c].task = seen[c].task
<1>1. ASSUME NEW d \in Callers, Begin(d)
      PROVE  \/ seen'[c].task = task /\ task' = task
             \/ InFlight(c) /\ seen'[c].task = seen[c].task
  BY <1>1 DEF Begin, db, InFlight, Typed, TypeOK
<1>2. ASSUME NEW d \in Callers, Close(d)
      PROVE  InFlight(c) /\ seen'[c].task = seen[c].task
  BY <1>2 DEF Close, InFlight, Typed, TypeOK
<1>3. CASE Tick
  <2>1. InFlight(c)
    BY <1>3 DEF Tick, InFlight
  <2>2. seen'[c] = [seen[c] EXCEPT !.lag = @ + 1] /\ seen[c] \in Snapshots
    BY <2>1, <1>3 DEF Tick, InFlight, Typed, TypeOK
  <2>3. QED
    BY <2>1, <2>2 DEF Snapshots
<1>4. QED
  BY <1>1, <1>2, <1>3
  DEF Next, Surroundings, Abort, Commit, Enqueue, EngageFuse, ReleaseFuse, vars, InFlight

(* Coherence is kept: rows rise in version while snapshots stay.            *)
LEMMA CoherenceStep ==
  ASSUME Typed, SnapshotsAreCoherent, [Next]_vars
  PROVE  SnapshotsAreCoherent'
<1> SUFFICES ASSUME NEW c \in Callers, NEW t \in Tasks, InFlight(c)'
             PROVE  \/ seen'[c].task[t].version < task'[t].version
                    \/ seen'[c].task[t] = task'[t]
  BY DEF SnapshotsAreCoherent, InFlight
<1>1. task'[t] \in TaskRecords(Artifacts) /\ task[t] \in TaskRecords(Artifacts)
  BY TypedStep DEF Typed, TypeOK
<1>2. task'[t].version \in Nat /\ task[t].version \in Nat
  BY <1>1 DEF TaskRecords
<1>3. CASE seen'[c].task = task /\ task' = task
  BY <1>3
<1>4. CASE InFlight(c) /\ seen'[c].task = seen[c].task
  <2>1. seen[c].task[t].version \in Nat
    BY <1>4, SnapshotType DEF Typed, TaskRecords
  <2>2. seen[c].task[t].version < task[t].version \/ seen[c].task[t] = task[t]
    BY <1>4 DEF SnapshotsAreCoherent
  <2>3. QED
    BY <2>1, <2>2, <1>2, <1>4, VersionsRise
<1>5. QED
  BY <1>3, <1>4, SnapshotsAge

(* A version identifies what a task's row held, for any number of callers:  *)
(* no stale snapshot has the version of a row that has changed since.       *)
THEOREM SnapshotsAreAlwaysCoherent == Spec => []SnapshotsAreCoherent
<1>1. Init => SnapshotsAreCoherent
  BY DEF Init, SnapshotsAreCoherent, InFlight
<1>2. Typed /\ SnapshotsAreCoherent /\ [Next]_vars => SnapshotsAreCoherent'
  BY CoherenceStep
<1>3. QED
  BY <1>1, <1>2, AlwaysTyped, PTL DEF Spec

------------------------------------------------------------------------------
(* The other two tables a call has read are past as well: a stream is never *)
(* shorter than a call has seen it, and it is longer when a result of its   *)
(* task was recorded since.                                                 *)
SeenIsPast ==
  \A c \in Callers : InFlight(c) =>
    /\ \A t \in Tasks : seen[c].sequence[t] <= Len(log[t])
    /\ \A r \in ResultIds :
         results[r] # NoResult /\ r \notin seen[c].recorded =>
           seen[c].sequence[results[r].task] < Len(log[results[r].task])

(* How long a stream is after what a call may do to it.                     *)
LEMMA Lengths ==
  ASSUME NEW s \in Seq(Entries), NEW e \in Entries, NEW f \in Entries
  PROVE  /\ Len(s) \in Nat
         /\ Append(s, e) \in Seq(Entries) /\ Len(Append(s, e)) = Len(s) + 1
         /\ s \o <<e>> = Append(s, e)
         /\ s \o <<e, f>> \in Seq(Entries) /\ Len(s \o <<e, f>>) = Len(s) + 2
OBVIOUS

(* What a commit adds to the stream of a task: nothing, one event, or the   *)
(* two of a result, which is recorded with them.                            *)
Adds(t) ==
  \/ log'[t] = log[t]
  \/ \E e \in Entries : log'[t] = Append(log[t], e)
  \/ \E e, f \in Entries : log'[t] = log[t] \o <<e, f>>

(* Every commit adds to the streams in one of these ways, and a row that it *)
(* records is that of a task it adds two events to.                         *)
LEMMA CommitAdds ==
  ASSUME Typed, NEW c \in Callers, Commit(c)
  PROVE  /\ \A t \in Tasks : Adds(t)
         /\ \/ results' = results
            \/ \E r \in ResultIds, result \in Results :
                 /\ results[r] \in {NoResult, result}
                 /\ results' = [results EXCEPT ![r] = result]
                 /\ \E e, f \in Entries :
                      log'[result.task] = log[result.task] \o <<e, f>>
<1> DEFINE Goal1 == \A t \in Tasks : Adds(t)
           Recording == \E r \in ResultIds, result \in Results :
                          /\ results[r] \in {NoResult, result}
                          /\ results' = [results EXCEPT ![r] = result]
                          /\ \E e, f \in Entries :
                               log'[result.task] = log[result.task] \o <<e, f>>
           Goal == Goal1 /\ (results' = results \/ Recording)
<1>c. InFlight(c)
  BY DEF Commit
<1>s. \A t \in Tasks : seen[c].task[t] \in TaskRecords(Artifacts)
  BY <1>c, SnapshotType DEF Typed
<1>k. \A t \in Tasks : task[t] \in TaskRecords(Artifacts) /\ log[t] \in Seq(Entries)
  BY DEF Typed, TypeOK
<1>0. ASSUME log' = log, results' = results
      PROVE  Goal
  BY <1>0 DEF Adds
<1>a. ASSUME NEW u \in Tasks, NEW e \in Entries, NEW expected,
             AppendEvents(u, <<e>>, expected), results' = results
      PROVE  Goal
  <2>1. log[u] \o <<e>> = Append(log[u], e)
    BY <1>k, Lengths
  <2>2. \A t \in Tasks : log'[t] = log[t] \/ log'[t] = Append(log[t], e)
    BY <2>1, <1>a DEF AppendEvents, Typed, TypeOK
  <2>3. QED
    BY <2>2, <1>a DEF Adds
<1>1. ASSUME NEW t \in Tasks, NEW target \in Statuses, NEW actor \in Roles,
             NEW authorized \in BOOLEAN, TransitionTask(c, t, target, actor, authorized)
      PROVE  Goal
  <2> DEFINE updated == IF target \in GovernedTargets /\ ~authorized
                        THEN Blocked(seen[c].task[t]) ELSE Transitioned(seen[c].task[t], target)
  <2>1. Entry("TASK_TRANSITIONED", updated) \in Entries
    BY <1>s, OperationsReturnTasks, EntryType DEF EventKinds
  <2>2. QED
    BY <2>1, <1>0, <1>1, <1>a DEF TransitionTask, AppendGiven
<1>2. ASSUME NEW t \in Tasks, NEW w \in Workers, NEW r \in ResultIds,
             NEW role \in WorkerRoles, NEW target \in Statuses, NEW a \in Artifacts,
             PublishResult(c, r, t, w, role, target, a)
      PROVE  Goal
  <2> DEFINE read == seen[c].task[t]
             attached == Attached(read, a)
             base == IF attached # read THEN attached ELSE task[t]
             updated == IF target \in GovernedTargets
                        THEN Blocked(base) ELSE Transitioned(base, target)
             e == Entry("ARTIFACT_REGISTERED", base)
             f == ResultEntry(updated, r)
             result == [recorded |-> TRUE, task |-> t, role |-> role,
                        target |-> target, expected |-> read.version]
  <2>1. base \in TaskRecords(Artifacts) /\ updated \in TaskRecords(Artifacts)
    BY <1>s, <1>k, OperationsReturnTasks
  <2>2. /\ AppendEvents(t, <<e, f>>, seen[c].sequence[t])
        /\ RecordResult(c, r, result)
    BY <1>2 DEF PublishResult
  <2>3. e \in Entries /\ f \in Entries
    BY <2>1, EntryType DEF EventKinds
  <2>4. read.version \in Nat
    BY <1>s DEF TaskRecords
  <2>5. result \in Results /\ result.task = t
    BY <2>4 DEF Results
  <2> HIDE DEF e, f, result
  <2>6. log' = [log EXCEPT ![t] = log[t] \o <<e, f>>]
    BY <2>2 DEF AppendEvents
  <2>7. \A u \in Tasks : log'[u] = log[u] \/ log'[u] = log[u] \o <<e, f>>
    BY <2>6 DEF Typed, TypeOK
  <2>8. log'[result.task] = log[result.task] \o <<e, f>>
    BY <2>5, <2>6 DEF Typed, TypeOK
  <2>9. Recording
    BY <2>2, <2>3, <2>5, <2>8 DEF RecordResult
  <2>10. Goal1
    BY <2>3, <2>7 DEF Adds
  <2>11. QED
    BY <2>9, <2>10
<1>3. ASSUME NEW t \in Tasks, NEW w \in Workers, CancelExecution(c, t, w)
      PROVE  Goal
  <2>1. Entry("TASK_BLOCKED", Blocked(seen[c].task[t])) \in Entries
    BY <1>s, OperationsReturnTasks, EntryType DEF EventKinds
  <2>2. QED
    BY <2>1, <1>3, <1>a DEF CancelExecution
<1>4. ASSUME NEW t \in Tasks, NEW w \in Workers, Claim(c, w, t) \/ Heartbeat(c, w, t)
      PROVE  Goal
  BY <1>4, <1>0 DEF Claim, Heartbeat
<1>5. ASSUME NEW t \in Tasks, NEW w \in Workers, FailAttempt(c, w, t)
      PROVE  Goal
  <2>1. /\ Entry("QUEUE_FAILED", Failed(seen[c].task[t])) \in Entries
        /\ Entry("QUEUE_FAILED", task[t]) \in Entries
    BY <1>s, <1>k, OperationsReturnTasks, EntryType DEF EventKinds
  <2>2. QED
    BY <2>1, <1>0, <1>5, <1>a DEF FailAttempt, AppendGiven
<1>6. ASSUME RecoverExpired(c)
      PROVE  Goal
  <2>1. \A t \in Tasks : Entry("QUEUE_FAILED", Failed(task[t])) \in Entries
    BY <1>k, OperationsReturnTasks, EntryType DEF EventKinds
  <2>2. QED
    BY <2>1, <1>6, RecoveryWrites DEF Adds
<1>7. ASSUME NEW t \in Tasks, RecordActivity(c, t)
      PROVE  Goal
  <2>1. Entry("ACTIVITY", task[t]) \in Entries
    BY <1>k, EntryType DEF EventKinds
  <2>2. QED
    BY <2>1, <1>7, <1>a DEF RecordActivity
<1>8. QED
  BY <1>1, <1>2, <1>3, <1>4, <1>5, <1>6, <1>7 DEF Commit, CommitApart

(* A commit with any of these additions leaves the past behind.             *)
LEMMA PastStep ==
  ASSUME Typed, SeenIsPast, [Next]_vars
  PROVE  SeenIsPast'
<1> SUFFICES ASSUME NEW c \in Callers, InFlight(c)'
             PROVE  /\ \A t \in Tasks : seen'[c].sequence[t] <= Len(log'[t])
                    /\ \A r \in ResultIds :
                         results'[r] # NoResult /\ r \notin seen'[c].recorded =>
                           seen'[c].sequence[results'[r].task] < Len(log'[results'[r].task])
  BY DEF SeenIsPast, InFlight
<1>k. /\ \A t \in Tasks : log[t] \in Seq(Entries) /\ Len(log[t]) \in Nat
      /\ \A r \in ResultIds : results[r] # NoResult => results[r].task \in Tasks
  <2>1. \A t \in Tasks : log[t] \in Seq(Entries) /\ Len(log[t]) \in Nat
    BY DEF Typed, TypeOK
  <2>2. \A r \in ResultIds : results[r] \in Results \cup {NoResult}
    BY DEF Typed, TypeOK
  <2>3. QED
    BY <2>1, <2>2 DEF Results
<1>p. ASSUME InFlight(c)
      PROVE  /\ \A t \in Tasks : seen[c].sequence[t] \in Nat
             /\ \A t \in Tasks : seen[c].sequence[t] <= Len(log[t])
             /\ \A r \in ResultIds :
                  results[r] # NoResult /\ r \notin seen[c].recorded =>
                    seen[c].sequence[results[r].task] < Len(log[results[r].task])
  BY <1>p, SnapshotType DEF SeenIsPast, Typed
<1>1. ASSUME NEW d \in Callers, Commit(d)
      PROVE  /\ \A t \in Tasks : seen'[c].sequence[t] <= Len(log'[t])
             /\ \A r \in ResultIds :
                  results'[r] # NoResult /\ r \notin seen'[c].recorded =>
                    seen'[c].sequence[results'[r].task] < Len(log'[results'[r].task])
  <2>1. InFlight(c) /\ seen'[c] = seen[c]
    BY <1>1 DEF Commit, Close, InFlight, Typed, TypeOK
  <2>2. \A t \in Tasks : Adds(t)
    BY <1>1, CommitAdds
  <2>3. ASSUME NEW t \in Tasks
        PROVE  Len(log'[t]) \in Nat /\ Len(log'[t]) >= Len(log[t])
    <3>1. CASE log'[t] = log[t]
      BY <3>1, <1>k
    <3>2. ASSUME NEW e \in Entries, log'[t] = Append(log[t], e)
          PROVE  Len(log'[t]) = Len(log[t]) + 1
      BY <3>2, <1>k, Lengths
    <3>3. ASSUME NEW e \in Entries, NEW f \in Entries, log'[t] = log[t] \o <<e, f>>
          PROVE  Len(log'[t]) = Len(log[t]) + 2
      BY <3>3, <1>k, Lengths
    <3>4. \/ Len(log'[t]) = Len(log[t]) \/ Len(log'[t]) = Len(log[t]) + 1
          \/ Len(log'[t]) = Len(log[t]) + 2
      BY <2>2, <3>1, <3>2, <3>3 DEF Adds
    <3>5. QED
      BY <3>4, <1>k
  <2>4. \A t \in Tasks : seen'[c].sequence[t] <= Len(log'[t])
    BY <2>1, <2>3, <1>p, <1>k
  <2>5. ASSUME NEW r \in ResultIds, results'[r] # NoResult, r \notin seen'[c].recorded
        PROVE  seen'[c].sequence[results'[r].task] < Len(log'[results'[r].task])
    <3>1. CASE results'[r] = results[r]
      BY <3>1, <2>1, <2>3, <2>5, <1>p, <1>k
    <3>2. CASE results'[r] # results[r]
      <4>1. PICK q \in ResultIds, result \in Results :
              /\ results' = [results EXCEPT ![q] = result]
              /\ \E e, f \in Entries : log'[result.task] = log[result.task] \o <<e, f>>
        BY <3>2, <1>1, CommitAdds
      <4>2. results'[r] = result /\ result.task \in Tasks
        BY <3>2, <4>1 DEF Results, Typed, TypeOK
      <4>3. Len(log'[result.task]) = Len(log[result.task]) + 2
        BY <4>1, <4>2, <1>k, Lengths
      <4>4. QED
        BY <4>2, <4>3, <2>1, <1>p, <1>k
    <3>3. QED
      BY <3>1, <3>2
  <2>6. QED
    BY <2>4, <2>5
<1>2. ASSUME NEW d \in Callers, Begin(d), c = d
      PROVE  /\ \A t \in Tasks : seen'[c].sequence[t] <= Len(log'[t])
             /\ \A r \in ResultIds :
                  results'[r] # NoResult /\ r \notin seen'[c].recorded =>
                    seen'[c].sequence[results'[r].task] < Len(log'[results'[r].task])
  <2>1. /\ seen'[c].sequence = [t \in Tasks |-> Len(log[t])]
        /\ seen'[c].recorded = {r \in ResultIds : results[r] # NoResult}
        /\ log' = log /\ results' = results
    BY <1>2 DEF Begin, db, Typed, TypeOK
  <2>2. QED
    BY <2>1, <1>k
<1>3. ASSUME InFlight(c), log' = log, results' = results,
             seen'[c].sequence = seen[c].sequence, seen'[c].recorded = seen[c].recorded
      PROVE  /\ \A t \in Tasks : seen'[c].sequence[t] <= Len(log'[t])
             /\ \A r \in ResultIds :
                  results'[r] # NoResult /\ r \notin seen'[c].recorded =>
                    seen'[c].sequence[results'[r].task] < Len(log'[results'[r].task])
  BY <1>3, <1>p
<1>4. ASSUME NEW d \in Callers, (Begin(d) /\ c # d) \/ Abort(d)
      PROVE  /\ InFlight(c) /\ log' = log /\ results' = results
             /\ seen'[c].sequence = seen[c].sequence /\ seen'[c].recorded = seen[c].recorded
  BY <1>4 DEF Begin, Abort, Close, db, InFlight, Typed, TypeOK
<1>5. CASE Tick
  <2>1. InFlight(c) /\ log' = log /\ results' = results
    BY <1>5 DEF Tick, InFlight
  <2>2. seen'[c] = [seen[c] EXCEPT !.lag = @ + 1] /\ seen[c] \in Snapshots
    BY <2>1, <1>5 DEF Tick, InFlight, Typed, TypeOK
  <2>3. seen'[c].sequence = seen[c].sequence /\ seen'[c].recorded = seen[c].recorded
    BY <2>2 DEF Snapshots
  <2>4. QED
    BY <2>1, <2>3, <1>3
<1>6. CASE (\E t \in Tasks : Enqueue(t)) \/ EngageFuse \/ ReleaseFuse \/ UNCHANGED vars
  <2>1. InFlight(c) /\ log' = log /\ results' = results /\ seen' = seen
    BY <1>6 DEF Enqueue, EngageFuse, ReleaseFuse, vars, db, InFlight
  <2>2. QED
    BY <2>1, <1>3
<1>7. QED
  BY <1>1, <1>2, <1>3, <1>4, <1>5, <1>6 DEF Next, Surroundings

------------------------------------------------------------------------------
(* With coherent snapshots a call that passes its checks has read the row   *)
(* as it is.  So each step is, for each task, one of these moves, stated on *)
(* the present state alone; the invariants below are proved move by move.   *)
Coherent == Typed /\ SnapshotsAreCoherent /\ SeenIsPast

(* Everything about a task's row but its times.                             *)
JobOf(t) == <<queue[t].state, queue[t].worker, queue[t].attempt, claims[t], enqueues[t]>>

Keeps(t) ==
  /\ task'[t] = task[t]
  /\ granted'[t] = granted[t]
  /\ untold'[t] = untold[t]

(* A move of the task, not of its results.                                  *)
Records(t) == Recorded(t)' = Recorded(t)

Rests(t) == Keeps(t) /\ Records(t) /\ log'[t] = log[t]

(* The stream tells what has become of the task, or an event that was on    *)
(* record leaves it untold.                                                 *)
Accounts(t, kind) ==
  \/ /\ log'[t] = Append(log[t], Entry(kind, task'[t]))
     /\ untold'[t] = untold[t]
  \/ /\ log'[t] = log[t]
     /\ untold'[t] = Untold(t, task'[t])

Stays(t) == Rests(t) /\ JobOf(t)' = JobOf(t)

Notes(t) ==
  /\ Keeps(t) /\ Records(t) /\ JobOf(t)' = JobOf(t)
  /\ log'[t] = Append(log[t], Entry("ACTIVITY", task[t]))

Queues(t) ==
  /\ Rests(t) /\ task[t].status \notin Terminal /\ queue[t].state = "ABSENT"
  /\ JobOf(t)' = <<"READY", NoWorker, 0, 0, enqueues[t] + 1>>

Starts(t) ==
  /\ Rests(t) /\ queue[t].state = "READY" /\ queue[t].attempt < MaxAttempts
  /\ \E w \in Workers :
       JobOf(t)' = <<"LEASED", w, queue[t].attempt + 1, claims[t] + 1, enqueues[t]>>

Retries(t) ==
  /\ Keeps(t) /\ Records(t)
  /\ log'[t] \in {log[t], Append(log[t], Entry("QUEUE_FAILED", task[t]))}
  /\ queue[t].state = "LEASED" /\ ~Exhausted(queue[t])
  /\ JobOf(t)' = <<"READY", NoWorker, queue[t].attempt, claims[t], enqueues[t]>>

(* The row of a task is gone.                                               *)
Ends(t) ==
  /\ queue[t].state = "LEASED" /\ queue'[t].state = "ABSENT"
  /\ claims'[t] = claims[t] /\ enqueues'[t] = enqueues[t]

Fails(t) ==
  /\ CanFail(task[t], "SYSTEM") /\ task'[t] = Failed(task[t])
  /\ Accounts(t, "QUEUE_FAILED")
  /\ Exhausted(queue[t]) /\ Ends(t)
  /\ granted'[t] = granted[t] /\ Records(t)

(* A call that goes on with the task: `base` is the task, or the task with  *)
(* an artifact more.                                                        *)
Continues(t, base, target, actor) ==
  /\ base \in TaskRecords(Artifacts) /\ base.status = task[t].status
  /\ base.risk = task[t].risk /\ base.governed = task[t].governed
  /\ task[t].artifacts \subseteq base.artifacts
  /\ \/ CanBlock(base) /\ task'[t] = Blocked(base)
     \/ /\ CanTransition(base, target, actor) /\ task'[t] = Transitioned(base, target)
        /\ target \in GovernedTargets => target \in granted'[t]
  /\ granted[t] \subseteq granted'[t]
  /\ JobOf(t)' = JobOf(t) \/ Ends(t)

Transits(t, target, actor) ==
  /\ Continues(t, task[t], target, actor)
  /\ Accounts(t, "TASK_TRANSITIONED")
  /\ JobOf(t)' = JobOf(t) /\ Records(t)

Cancels(t) ==
  /\ Continues(t, task[t], "BLOCKED", "SYSTEM") /\ task'[t] = Blocked(task[t])
  /\ log'[t] = Append(log[t], Entry("TASK_BLOCKED", task'[t])) /\ untold'[t] = untold[t]
  /\ Ends(t) /\ Records(t)

Publishes(t, r, base, target, role) ==
  /\ Continues(t, base, target, role)
  /\ base.version \in {task[t].version, task[t].version + 1} /\ base.risk = task[t].risk
  /\ target \in GovernedTargets => task'[t] = Blocked(base)
  /\ log'[t] = log[t] \o <<Entry("ARTIFACT_REGISTERED", base), ResultEntry(task'[t], r)>>
  /\ untold'[t] = untold[t]
  /\ results[r] = NoResult
  /\ \E result \in Results :
       /\ result.task = t /\ result.target = target
       /\ results' = [results EXCEPT ![r] = result]
  /\ Ends(t)

MovesOn(t) ==
  \/ Cancels(t)
  \/ \E target \in Statuses, actor \in Roles : Transits(t, target, actor)
  \/ \E r \in ResultIds, base \in TaskRecords(Artifacts), target \in Statuses, role \in Roles :
       Publishes(t, r, base, target, role)

Moves(t) ==
  \/ Stays(t) \/ Notes(t) \/ Queues(t) \/ Starts(t) \/ Retries(t) \/ Fails(t)
  \/ MovesOn(t)

(* A call that checked the version has read the present row.                *)
LEMMA CheckedIsCurrent ==
  ASSUME Typed, SnapshotsAreCoherent, NEW c \in Callers, InFlight(c), NEW t \in Tasks,
         task[t].version = seen[c].task[t].version
  PROVE  seen[c].task[t] = task[t]
<1>1. task[t].version \in Nat
  BY DEF Typed, TypeOK, TaskRecords
<1>2. QED
  BY <1>1 DEF SnapshotsAreCoherent

(* A result that was not on record when its call looked is not on record    *)
(* when the call appends to the stream it has read.                         *)
LEMMA UnseenIsNew ==
  ASSUME Typed, SeenIsPast, NEW c \in Callers, InFlight(c), NEW r \in ResultIds,
         NEW t \in Tasks, NEW result \in Results, result.task = t,
         r \notin seen[c].recorded, Len(log[t]) = seen[c].sequence[t],
         results[r] \in {NoResult, result}
  PROVE  results[r] = NoResult
<1>1. Len(log[t]) \in Nat /\ seen[c].sequence[t] \in Nat
  BY SnapshotType DEF Typed, TypeOK
<1>2. ASSUME results[r] # NoResult
      PROVE  seen[c].sequence[t] < Len(log[t])
  BY <1>2 DEF SeenIsPast
<1>3. QED
  BY <1>1, <1>2

(* An attachment raises the version by one or leaves it.                    *)
LEMMA BaseOfResult ==
  ASSUME NEW t \in TaskRecords(Artifacts), NEW a \in Artifacts
  PROVE  /\ Attached(t, a) \in TaskRecords(Artifacts)
         /\ Attached(t, a).status = t.status /\ Attached(t, a).risk = t.risk
         /\ Attached(t, a).governed = t.governed
         /\ Attached(t, a).version \in {t.version, t.version + 1}
         /\ t.artifacts \subseteq Attached(t, a).artifacts
BY OperationsReturnTasks, AttachKeeps, OperationsRaiseVersion, ArtifactsStay

(* A published result is one attachment and one transition of the present   *)
(* row.                                                                     *)
LEMMA PublishMoves ==
  ASSUME Coherent, NEW c \in Callers, InFlight(c), NEW t \in Tasks,
         NEW w \in Workers, NEW r \in ResultIds, NEW role \in WorkerRoles,
         NEW target \in Statuses, NEW a \in Artifacts,
         PublishResult(c, r, t, w, role, target, a)
  PROVE  /\ role \in Roles
         /\ \E base \in TaskRecords(Artifacts) : Publishes(t, r, base, target, role)
<1> USE DEF Coherent
<1> DEFINE read == seen[c].task[t]
           attached == Attached(read, a)
           base == IF attached # read THEN attached ELSE task[t]
           result == [recorded |-> TRUE, task |-> t, role |-> role,
                      target |-> target, expected |-> read.version]
           updated == IF target \in GovernedTargets
                      THEN Blocked(base) ELSE Transitioned(base, target)
<1>1. read \in TaskRecords(Artifacts) /\ task[t] \in TaskRecords(Artifacts)
  BY SnapshotType DEF Typed, TypeOK
<1>2. base \in TaskRecords(Artifacts)
  BY <1>1, OperationsReturnTasks
<1>3. attached # read => read = task[t]
  BY CheckedIsCurrent DEF PublishResult
<1>4. /\ base.status = task[t].status /\ base.risk = task[t].risk
      /\ base.governed = task[t].governed
      /\ base.version \in {task[t].version, task[t].version + 1}
      /\ task[t].artifacts \subseteq base.artifacts
  BY <1>1, <1>3, BaseOfResult
<1>5. /\ IF target \in GovernedTargets THEN CanBlock(base) ELSE CanTransition(base, target, role)
      /\ task' = [task EXCEPT ![t] = updated]
      /\ AppendEvents(t, <<Entry("ARTIFACT_REGISTERED", base), ResultEntry(updated, r)>>,
                      seen[c].sequence[t])
      /\ RecordResult(c, r, result)
      /\ CompleteRow(t, w, seen[c].lag)
      /\ granted' = granted /\ claims' = claims /\ enqueues' = enqueues
      /\ untold' = untold /\ r \notin seen[c].recorded
  BY DEF PublishResult, RecordResult, history
<1>6. task'[t] = updated
  BY <1>5 DEF Typed, TypeOK
<1>7. Ends(t)
  BY <1>5 DEF CompleteRow, OwnedBy, NoRow, Unleased, Ends, Typed, TypeOK
<1>8. result \in Results
  <2>1. read.version \in Nat
    BY <1>1 DEF TaskRecords
  <2>2. QED
    BY <2>1 DEF Results
<1>9. /\ results[r] = NoResult
      /\ results' = [results EXCEPT ![r] = result]
  <2>1. results[r] \in {NoResult, result} /\ results' = [results EXCEPT ![r] = result]
    BY <1>5 DEF RecordResult
  <2>2. Len(log[t]) = seen[c].sequence[t]
    BY <1>5 DEF AppendEvents
  <2>3. result.task = t
    OBVIOUS
  <2> HIDE DEF result
  <2>4. QED
    BY <2>1, <2>2, <2>3, <1>5, <1>8, UnseenIsNew
<1>10. log'[t] = log[t] \o <<Entry("ARTIFACT_REGISTERED", base), ResultEntry(updated, r)>>
  BY <1>5 DEF AppendEvents, Typed, TypeOK
<1>11. role \in Roles
  BY DEF WorkerRoles
<1>12. result.task = t /\ result.target = target
  OBVIOUS
<1> HIDE DEF base, result
<1>13. Continues(t, base, target, role)
  BY <1>2, <1>4, <1>5, <1>6, <1>7 DEF Continues
<1>14. target \in GovernedTargets => task'[t] = Blocked(base)
  BY <1>6
<1>15. Publishes(t, r, base, target, role)
  BY <1>4, <1>5, <1>6, <1>7, <1>8, <1>9, <1>10, <1>12, <1>13, <1>14 DEF Publishes
<1>16. QED
  BY <1>2, <1>11, <1>15

(* Whatever a call commits is one of the moves, for each task.              *)
LEMMA CommitMoves ==
  ASSUME Coherent, NEW c \in Callers, Commit(c), NEW t \in Tasks
  PROVE  Moves(t)
<1> USE DEF Coherent
<1>c. InFlight(c)
  BY DEF Commit
<1>k. /\ task[t] \in TaskRecords(Artifacts) /\ queue[t] \in Rows
      /\ seen[c].task[t] \in TaskRecords(Artifacts) /\ log[t] \in Seq(Entries)
  BY <1>c, SnapshotType DEF Typed, TypeOK
<1>u. ASSUME task'[t] = task[t], log'[t] = log[t], queue'[t] = queue[t], Records(t),
             granted'[t] = granted[t], claims'[t] = claims[t], enqueues'[t] = enqueues[t],
             untold'[t] = untold[t]
      PROVE  Moves(t)
  BY <1>u DEF Moves, Stays, Rests, Keeps, JobOf
<1>r. ASSUME results' = results
      PROVE  Records(t)
  BY <1>r DEF Records, Recorded
<1>a. ASSUME NEW e \in Entries, NEW expected, AppendEvents(t, <<e>>, expected)
      PROVE  log'[t] = Append(log[t], e)
  <2>1. log[t] \o <<e>> = Append(log[t], e)
    BY <1>k, <1>a, Lengths
  <2>2. QED
    BY <2>1, <1>a DEF AppendEvents, Typed, TypeOK
<1>g. ASSUME NEW kind \in EventKinds, NEW updated \in TaskRecords(Artifacts), NEW expected,
             AppendGiven(t, kind, updated, expected), task'[t] = updated
      PROVE  Accounts(t, kind)
  <2>1. Entry(kind, updated) \in Entries
    BY EntryType
  <2>2. CASE AppendEvents(t, <<Entry(kind, updated)>>, expected) /\ untold' = untold
    BY <1>a, <1>g, <2>1, <2>2 DEF Accounts
  <2>3. CASE log' = log /\ untold' = [untold EXCEPT ![t] = Untold(t, updated)]
    BY <1>g, <2>3 DEF Accounts, Typed, TypeOK
  <2>4. QED
    BY <1>g, <2>2, <2>3 DEF AppendGiven
<1>e. \A kind \in EventKinds :
        /\ Entry(kind, task[t]) \in Entries
        /\ Entry(kind, Blocked(task[t])) \in Entries
        /\ Entry(kind, Failed(task[t])) \in Entries
        /\ \A target \in Statuses : Entry(kind, Transitioned(task[t], target)) \in Entries
  BY <1>k, OperationsReturnTasks, EntryType
<1>1. ASSUME NEW u \in Tasks, NEW target \in Statuses, NEW actor \in Roles,
             NEW authorized \in BOOLEAN, TransitionTask(c, u, target, actor, authorized)
      PROVE  Moves(t)
  <2>r. Records(t)
    BY <1>1, <1>r DEF TransitionTask
  <2>1. CASE u # t
    BY <2>1, <2>r, <1>1, <1>u
    DEF TransitionTask, UpdateTask, AppendGiven, AppendEvents, Typed, TypeOK
  <2>2. CASE u = t
    <3>1. seen[c].task[t] = task[t]
      BY <1>c, <2>2, <1>1, CheckedIsCurrent DEF TransitionTask, UpdateTask
    <3>2. /\ \/ CanBlock(task[t]) /\ task'[t] = Blocked(task[t])
             \/ /\ CanTransition(task[t], target, actor)
                /\ task'[t] = Transitioned(task[t], target)
                /\ target \in GovernedTargets => authorized
          /\ granted' = [granted EXCEPT ![t] = IF authorized THEN @ \cup {target} ELSE @]
          /\ queue' = queue /\ claims' = claims /\ enqueues' = enqueues
      BY <3>1, <2>2, <1>1 DEF TransitionTask, UpdateTask, Typed, TypeOK
    <3>3. AppendGiven(t, "TASK_TRANSITIONED", task'[t], seen[c].sequence[t])
      BY <3>1, <2>2, <1>1 DEF TransitionTask, UpdateTask, Typed, TypeOK
    <3>4. Accounts(t, "TASK_TRANSITIONED")
      <4>1. task'[t] \in TaskRecords(Artifacts)
        BY <3>2, <1>k, OperationsReturnTasks
      <4>2. QED
        BY <3>3, <4>1, <1>g DEF EventKinds
    <3>5. /\ granted[t] \subseteq granted'[t]
          /\ authorized => target \in granted'[t]
      BY <3>2 DEF Typed, TypeOK
    <3>6. JobOf(t)' = JobOf(t)
      BY <3>2 DEF JobOf
    <3>7. Transits(t, target, actor)
      BY <1>k, <2>r, <3>2, <3>4, <3>5, <3>6 DEF Transits, Continues
    <3>8. QED
      BY <3>7 DEF Moves, MovesOn
  <2>3. QED
    BY <2>1, <2>2
<1>2. ASSUME NEW u \in Tasks, NEW w \in Workers, NEW r \in ResultIds,
             NEW role \in WorkerRoles, NEW target \in Statuses, NEW a \in Artifacts,
             PublishResult(c, r, u, w, role, target, a)
      PROVE  Moves(t)
  <2>1. CASE u # t
    <3>1. Records(t)
      <4>1. PICK result : /\ results[r] \in {NoResult, result} /\ result.task = u
                          /\ results' = [results EXCEPT ![r] = result]
        BY <1>2 DEF PublishResult, RecordResult
      <4>2. \A q \in ResultIds :
              /\ q # r => results'[q] = results[q]
              /\ q = r => results'[q] = result
        BY <4>1 DEF Typed, TypeOK
      <4>3. result # NoResult => (results[r] # NoResult => results[r].task # t)
        BY <2>1, <4>1
      <4>4. QED
        BY <2>1, <4>1, <4>2, <4>3 DEF Records, Recorded
    <3>2. QED
      BY <2>1, <3>1, <1>2, <1>u
      DEF PublishResult, AppendEvents, CompleteRow, history, Typed, TypeOK
  <2>2. CASE u = t
    BY <2>2, <1>c, <1>2, PublishMoves DEF Moves, MovesOn
  <2>3. QED
    BY <2>1, <2>2
<1>3. ASSUME NEW u \in Tasks, NEW w \in Workers, CancelExecution(c, u, w)
      PROVE  Moves(t)
  <2>r. Records(t)
    BY <1>3, <1>r DEF CancelExecution
  <2>1. CASE u # t
    BY <2>1, <2>r, <1>3, <1>u
    DEF CancelExecution, UpdateTask, AppendEvents, CompleteRow, history, Typed, TypeOK
  <2>2. CASE u = t
    <3>1. seen[c].task[t] = task[t]
      BY <1>c, <2>2, <1>3, CheckedIsCurrent DEF CancelExecution, UpdateTask
    <3>2. /\ CanBlock(task[t]) /\ task'[t] = Blocked(task[t])
          /\ granted' = granted /\ untold' = untold
      BY <3>1, <2>2, <1>3 DEF CancelExecution, UpdateTask, history, Typed, TypeOK
    <3>3. Ends(t)
      BY <2>2, <1>3
      DEF CancelExecution, CompleteRow, OwnedBy, NoRow, Unleased, history, Ends, Typed, TypeOK
    <3>4. AppendEvents(t, <<Entry("TASK_BLOCKED", task'[t])>>, seen[c].sequence[t])
      BY <3>1, <3>2, <2>2, <1>3 DEF CancelExecution
    <3>5. log'[t] = Append(log[t], Entry("TASK_BLOCKED", task'[t]))
      BY <3>2, <3>4, <1>a, <1>e DEF EventKinds
    <3>6. Cancels(t)
      BY <1>k, <2>r, <3>2, <3>3, <3>5 DEF Cancels, Continues
    <3>7. QED
      BY <3>6 DEF Moves, MovesOn
  <2>3. QED
    BY <2>1, <2>2
<1>4. ASSUME NEW u \in Tasks, NEW w \in Workers, Claim(c, w, u)
      PROVE  Moves(t)
  <2>r. Records(t)
    BY <1>4, <1>r DEF Claim
  <2>1. CASE u # t
    BY <2>1, <2>r, <1>4, <1>u DEF Claim, Typed, TypeOK
  <2>2. CASE u = t
    <3>1. Starts(t)
      BY <2>2, <2>r, <1>4
      DEF Claim, Claimable, ClaimedBy, Starts, Rests, Keeps, JobOf, Typed, TypeOK
    <3>2. QED
      BY <3>1 DEF Moves
  <2>3. QED
    BY <2>1, <2>2
<1>5. ASSUME NEW u \in Tasks, NEW w \in Workers, Heartbeat(c, w, u)
      PROVE  Moves(t)
  <2>r. Records(t)
    BY <1>5, <1>r DEF Heartbeat
  <2>1. CASE u # t
    BY <2>1, <2>r, <1>5, <1>u DEF Heartbeat, history, Typed, TypeOK
  <2>2. CASE u = t
    <3>1. /\ Extended(queue[t], seen[c].lag).state = queue[t].state
          /\ Extended(queue[t], seen[c].lag).worker = queue[t].worker
          /\ Extended(queue[t], seen[c].lag).attempt = queue[t].attempt
      BY <1>k DEF Extended, Rows
    <3>2. Stays(t)
      BY <3>1, <2>2, <2>r, <1>5
      DEF Heartbeat, history, Stays, Rests, Keeps, JobOf, Typed, TypeOK
    <3>3. QED
      BY <3>2 DEF Moves
  <2>3. QED
    BY <2>1, <2>2
<1>6. ASSUME NEW u \in Tasks, NEW w \in Workers, FailAttempt(c, w, u)
      PROVE  Moves(t)
  <2>r. Records(t)
    BY <1>6, <1>r DEF FailAttempt
  <2>1. CASE u # t
    BY <2>1, <2>r, <1>6, <1>u
    DEF FailAttempt, UpdateTask, AppendGiven, AppendEvents, Typed, TypeOK
  <2>2. CASE u = t /\ Exhausted(queue[t])
    <3>1. seen[c].task[t] = task[t]
      BY <1>c, <2>2, <1>6, CheckedIsCurrent DEF FailAttempt, UpdateTask
    <3>2. /\ CanFail(task[t], "SYSTEM") /\ task'[t] = Failed(task[t])
          /\ AppendGiven(t, "QUEUE_FAILED", Failed(task[t]), seen[c].sequence[t])
          /\ granted' = granted
      BY <3>1, <2>2, <1>6 DEF FailAttempt, UpdateTask, Typed, TypeOK
    <3>3. Ends(t)
      BY <2>2, <1>6
      DEF FailAttempt, OwnedBy, AfterFailure, NoRow, Unleased, Ends, Typed, TypeOK
    <3>4. Accounts(t, "QUEUE_FAILED")
      <4>1. Failed(task[t]) \in TaskRecords(Artifacts)
        BY <1>k, OperationsReturnTasks
      <4>2. QED
        BY <3>2, <4>1, <1>g DEF EventKinds
    <3>5. Fails(t)
      BY <2>2, <2>r, <3>2, <3>3, <3>4 DEF Fails
    <3>6. QED
      BY <3>5 DEF Moves
  <2>3. CASE u = t /\ ~Exhausted(queue[t])
    <3>1. Accounts(t, "QUEUE_FAILED")
      BY <2>3, <1>6, <1>k, <1>g DEF FailAttempt, EventKinds
    <3>2. /\ log'[t] \in {log[t], Append(log[t], Entry("QUEUE_FAILED", task[t]))}
          /\ untold'[t] = untold[t]
      BY <2>3, <3>1, <1>6 DEF FailAttempt, Accounts, Untold
    <3>3. Retries(t)
      BY <2>3, <2>r, <3>2, <1>6
      DEF FailAttempt, OwnedBy, AfterFailure, Unleased, Retries, Keeps, JobOf,
          Typed, TypeOK
    <3>4. QED
      BY <3>3 DEF Moves
  <2>4. QED
    BY <2>1, <2>2, <2>3
<1>7. ASSUME RecoverExpired(c)
      PROVE  Moves(t)
  <2>r. Records(t)
    BY <1>7, <1>r, RecoveryWrites
  <2>w. /\ queue'[t] = IF Expired(queue[t], seen[c].lag)
                       THEN AfterExpiry(queue[t], seen[c].lag) ELSE queue[t]
        /\ granted' = granted /\ claims' = claims /\ enqueues' = enqueues
    BY <1>7, RecoveryWrites
  <2>1. CASE ~Ending(c, t)
    <3>1. task'[t] = task[t] /\ log'[t] = log[t] /\ untold'[t] = untold[t]
      BY <2>1, <1>7, RecoveryWrites
    <3>2. CASE ~Expired(queue[t], seen[c].lag)
      BY <3>1, <3>2, <2>r, <2>w, <1>u
    <3>3. CASE Expired(queue[t], seen[c].lag)
      <4>1. Retries(t)
        BY <3>1, <3>3, <2>1, <2>r, <2>w
        DEF Ending, Expired, AfterExpiry, Unleased, Retries, Keeps, JobOf
      <4>2. QED
        BY <4>1 DEF Moves
    <3>4. QED
      BY <3>2, <3>3
  <2>2. CASE Ending(c, t)
    <3>1. Ends(t)
      BY <2>2, <2>w DEF Ending, Expired, AfterExpiry, NoRow, Unleased, Ends
    <3>2. /\ CanFail(task[t], "SYSTEM") /\ task'[t] = Failed(task[t])
          /\ Accounts(t, "QUEUE_FAILED")
      BY <2>2, <1>7, RecoveryWrites DEF Accounts
    <3>3. Fails(t)
      BY <2>2, <2>r, <2>w, <3>1, <3>2 DEF Ending, Fails
    <3>4. QED
      BY <3>3 DEF Moves
  <2>3. QED
    BY <2>1, <2>2
<1>8. ASSUME NEW u \in Tasks, RecordActivity(c, u)
      PROVE  Moves(t)
  <2>r. Records(t)
    BY <1>8, <1>r DEF RecordActivity
  <2>1. CASE u # t
    BY <2>1, <2>r, <1>8, <1>u DEF RecordActivity, AppendEvents, history, Typed, TypeOK
  <2>2. CASE u = t
    <3>1. log'[t] = Append(log[t], Entry("ACTIVITY", task[t]))
      BY <2>2, <1>8, <1>a, <1>e DEF RecordActivity, EventKinds
    <3>2. Notes(t)
      BY <2>r, <3>1, <1>8 DEF RecordActivity, history, Notes, Keeps, JobOf
    <3>3. QED
      BY <3>2 DEF Moves
  <2>3. QED
    BY <2>1, <2>2
<1>9. QED
  BY <1>1, <1>2, <1>3, <1>4, <1>5, <1>6, <1>7, <1>8 DEF Commit, CommitApart

(* So every step moves each task in one of these ways.                      *)
LEMMA StepMoves ==
  ASSUME Coherent, [Next]_vars, NEW t \in Tasks
  PROVE  Moves(t)
<1> USE DEF Coherent
<1>u. ASSUME task' = task, log' = log, granted' = granted, claims'[t] = claims[t],
             results' = results, enqueues'[t] = enqueues[t], untold' = untold,
             queue'[t].state = queue[t].state, queue'[t].worker = queue[t].worker,
             queue'[t].attempt = queue[t].attempt
      PROVE  Moves(t)
  BY <1>u DEF Moves, Stays, Rests, Keeps, Records, Recorded, JobOf
<1>1. ASSUME NEW c \in Callers, Begin(c) \/ Abort(c) PROVE Moves(t)
  BY <1>1, <1>u DEF Begin, Abort, db, history
<1>2. ASSUME NEW c \in Callers, Commit(c) PROVE Moves(t)
  BY <1>2, CommitMoves
<1>3. ASSUME NEW u \in Tasks, Enqueue(u) PROVE Moves(t)
  <2>1. CASE u = t
    <3>1. Queues(t)
      BY <2>1, <1>3
      DEF Enqueue, FreshRow, Unleased, Queues, Rests, Keeps, Records, Recorded, JobOf,
          Typed, TypeOK
    <3>2. QED
      BY <3>1 DEF Moves
  <2>2. CASE u # t
    BY <2>2, <1>3, <1>u DEF Enqueue, Typed, TypeOK
  <2>3. QED
    BY <2>1, <2>2
<1>4. CASE EngageFuse \/ ReleaseFuse
  BY <1>4, <1>u DEF EngageFuse, ReleaseFuse, history
<1>5. CASE Tick
  <2>1. queue'[t] = Aged(queue[t]) /\ queue[t] \in Rows
    BY <1>5 DEF Tick, Typed, TypeOK
  <2>2. /\ queue'[t].state = queue[t].state /\ queue'[t].worker = queue[t].worker
        /\ queue'[t].attempt = queue[t].attempt
    BY <2>1 DEF Aged, Rows
  <2>3. QED
    BY <2>2, <1>5, <1>u DEF Tick, history
<1>6. CASE UNCHANGED vars
  BY <1>6, <1>u DEF vars, db, history
<1>7. QED
  BY <1>1, <1>2, <1>3, <1>4, <1>5, <1>6 DEF Next, Surroundings

(* A task that goes on was not terminal and does not become so.             *)
LEMMA ContinuesLive ==
  ASSUME NEW t \in Tasks, NEW base \in TaskRecords(Artifacts), NEW target \in Statuses,
         NEW actor \in Roles, Continues(t, base, target, actor)
  PROVE  task[t].status \notin Terminal /\ task'[t].status \notin Terminal
<1>1. Blocked(base).status \notin Terminal
  BY BlockedAndFailedStatus DEF Terminal
<1>2. QED
  BY <1>1, TransitionIsLive DEF Continues, CanBlock

(* All the ways to move on are such.                                        *)
LEMMA MovesOnContinues ==
  ASSUME NEW t \in Tasks, task[t] \in TaskRecords(Artifacts), MovesOn(t)
  PROVE  \E base \in TaskRecords(Artifacts), target \in Statuses, actor \in Roles :
           Continues(t, base, target, actor)
<1>1. "BLOCKED" \in Statuses /\ "SYSTEM" \in Roles
  BY DEF Statuses, Roles
<1>2. QED
  BY <1>1 DEF MovesOn, Cancels, Transits, Publishes

------------------------------------------------------------------------------
(* The claims of a queued task are the attempts of its row.                 *)
ClaimsCounted ==
  \A t \in Tasks : queue[t].state # "ABSENT" => claims[t] = queue[t].attempt

(* A task that has a row can still fail.                                    *)
QueuedIsLive ==
  \A t \in Tasks : queue[t].state # "ABSENT" => task[t].status \notin Terminal

Core ==
  /\ Coherent /\ QueuedIsLive
  /\ ClaimsCounted /\ FailedAfterLastAttempt

(* Every move keeps the invariant.                                          *)
LEMMA CoreStep ==
  ASSUME Core, [Next]_vars
  PROVE  Core'
<1> USE DEF Core
<1>1. Coherent'
  BY TypedStep, CoherenceStep, PastStep DEF Coherent
<1>2. ASSUME NEW t \in Tasks
      PROVE  /\ task'[t].status = "FAILED" => claims'[t] = MaxAttempts
             /\ queue'[t].state # "ABSENT" =>
                  task'[t].status \notin Terminal /\ claims'[t] = queue'[t].attempt
  <2>k. /\ queue[t].attempt \in 0..MaxAttempts /\ task[t] \in TaskRecords(Artifacts)
        /\ MaxAttempts \in Nat
    BY QueueAssumption DEF Coherent, Typed, TypeOK, Rows
  <2>i. /\ task[t].status = "FAILED" => claims[t] = MaxAttempts
        /\ queue[t].state # "ABSENT" =>
             task[t].status \notin Terminal /\ claims[t] = queue[t].attempt
    BY DEF QueuedIsLive, FailedAfterLastAttempt, ClaimsCounted
  <2>1. CASE Stays(t)
    BY <2>1, <2>i DEF Stays, Rests, Keeps, JobOf
  <2>2. CASE Queues(t)
    BY <2>2 DEF Queues, Rests, Keeps, JobOf, Terminal
  <2>3. CASE Starts(t)
    <3>1. task'[t] = task[t] /\ task[t].status \notin Terminal /\ claims[t] = queue[t].attempt
      BY <2>3, <2>i DEF Starts, Rests, Keeps
    <3>2. claims'[t] = claims[t] + 1 /\ queue'[t].attempt = queue[t].attempt + 1
      BY <2>3 DEF Starts, JobOf
    <3>3. QED
      BY <3>1, <3>2 DEF Terminal
  <2>4. CASE Retries(t)
    BY <2>4, <2>i DEF Retries, Keeps, JobOf
  <2>5. CASE Fails(t)
    BY <2>5, <2>i, <2>k DEF Fails, Ends, Exhausted
  <2>6. ASSUME NEW base \in TaskRecords(Artifacts), NEW target \in Statuses,
               NEW actor \in Roles, Continues(t, base, target, actor)
        PROVE  /\ task'[t].status # "FAILED" /\ task'[t].status \notin Terminal
               /\ queue'[t].state # "ABSENT" => claims'[t] = queue'[t].attempt
    <3>1. task'[t].status # "FAILED" /\ task'[t].status \notin Terminal
      BY <2>6, ContinuesLive DEF Terminal
    <3>2. QED
      BY <3>1, <2>6, <2>i DEF Continues, Ends, JobOf
  <2>7. CASE Notes(t)
    BY <2>7, <2>i DEF Notes, Keeps, JobOf
  <2>8. CASE MovesOn(t)
    BY <2>6, <2>8, <2>k, MovesOnContinues
  <2>9. Moves(t)
    BY StepMoves
  <2>10. QED
    BY <2>1, <2>2, <2>3, <2>4, <2>5, <2>7, <2>8, <2>9 DEF Moves
<1>3. QED
  BY <1>1, <1>2 DEF QueuedIsLive, FailedAfterLastAttempt, ClaimsCounted

(* A task that intake just created has failed nothing and claimed nothing.  *)
LEMMA InitCore == Init => Core
<1> SUFFICES ASSUME Init PROVE Core
  OBVIOUS
<1>1. SnapshotsAreCoherent
  BY DEF Init, SnapshotsAreCoherent, InFlight
<1>2. \A t \in Tasks : task[t].status = "RECEIVED"
  BY DEF Init, NewTask
<1>3. ClaimsCounted
  BY DEF Init, ClaimsCounted, FreshRow, Unleased
<1>4. QED
  BY <1>1, <1>2, <1>3, InitTyped
  DEF Core, Coherent, SeenIsPast, InFlight, Init, QueuedIsLive, FailedAfterLastAttempt, Terminal

(* The invariant behind the next three theorems holds in every state.       *)
THEOREM AlwaysCore == Spec => []Core
<1>1. QED
  BY InitCore, CoreStep, PTL DEF Spec

(* No row is ever stranded, whatever the numbers of callers, workers and    *)
(* attempts: without an attempt left, leased beyond its last one, or with a *)
(* task that has failed and makes every later batch of recover_expired fail.*)
THEOREM RowsAreNeverStranded == Spec => []NoStrandedRow
<1>1. Core => NoStrandedRow
  BY DEF Core, Coherent, Typed, SoundQueue, Sound, QueuedIsLive, NoStrandedRow, CanFail
<1>2. QED
  BY <1>1, AlwaysCore, PTL

(* A task fails after exactly MaxAttempts claims of its current row.        *)
THEOREM FailureTakesAllAttempts == Spec => []FailedAfterLastAttempt
<1>1. Core => FailedAfterLastAttempt
  BY DEF Core
<1>2. QED
  BY <1>1, AlwaysCore, PTL

(* Nothing changes a failed task or adds to its events but the record of a  *)
(* session or workspace, though calls that read it before it failed are     *)
(* still to commit.                                                         *)
THEOREM FailureIsAlwaysFinal == Spec => FailureIsFinal
<1> DEFINE Final(t) == /\ task'[t] = task[t]
                       /\ log'[t] \in {log[t], Append(log[t], Entry("ACTIVITY", task[t]))}
<1>1. ASSUME Core, [Next]_vars, NEW t \in Tasks, task[t].status = "FAILED"
      PROVE  Final(t)
  <2>1. queue[t].state = "ABSENT" /\ task[t] \in TaskRecords(Artifacts)
    BY <1>1 DEF Core, Coherent, QueuedIsLive, Terminal, Typed, TypeOK, Rows
  <2>2. ~Starts(t) /\ ~Retries(t) /\ ~Fails(t) /\ ~Queues(t)
    BY <2>1, <1>1 DEF Starts, Retries, Fails, Ends, Queues, Terminal
  <2>3. ~MovesOn(t)
    BY <2>1, <1>1, ContinuesLive, MovesOnContinues DEF Terminal
  <2>4. Moves(t)
    BY <1>1, StepMoves DEF Core
  <2>5. Stays(t) \/ Notes(t)
    BY <2>2, <2>3, <2>4 DEF Moves
  <2>6. QED
    BY <2>5 DEF Stays, Notes, Rests, Keeps
<1>2. Core /\ [Next]_vars => [\A t \in Tasks : task[t].status = "FAILED" => Final(t)]_vars
  BY <1>1
<1>3. QED
  BY <1>2, AlwaysCore, PTL DEF Spec, FailureIsFinal

------------------------------------------------------------------------------
(* Grants are never withdrawn, and the executing statuses after the two     *)
(* that take a grant are reached from statuses that have it already.        *)
LEMMA GrantStep ==
  ASSUME Core, ExecutionWasGranted, [Next]_vars
  PROVE  ExecutionWasGranted'
<1> SUFFICES ASSUME NEW t \in Tasks
             PROVE  /\ task'[t].status \in Executing =>
                         /\ task'[t].risk # "R3" /\ task'[t].governed
                         /\ "IMPLEMENTING" \in granted'[t]
                    /\ task'[t].status = "READY_TO_PUBLISH" => "READY_TO_PUBLISH" \in granted'[t]
  BY DEF ExecutionWasGranted
<1>i. /\ task[t].status \in Executing =>
           task[t].risk # "R3" /\ task[t].governed /\ "IMPLEMENTING" \in granted[t]
      /\ task[t].status = "READY_TO_PUBLISH" => "READY_TO_PUBLISH" \in granted[t]
      /\ task[t] \in TaskRecords(Artifacts)
  BY DEF ExecutionWasGranted, Core, Coherent, Typed, TypeOK
<1>1. CASE task'[t] = task[t] /\ granted'[t] = granted[t]
  BY <1>1, <1>i
<1>2. CASE Fails(t)
  <2>1. task'[t].status = "FAILED"
    BY <1>2, <1>i, BlockedAndFailedStatus DEF Fails
  <2>2. QED
    BY <2>1 DEF Executing
<1>3. ASSUME NEW base \in TaskRecords(Artifacts), NEW target \in Statuses,
             NEW actor \in Roles, Continues(t, base, target, actor)
      PROVE  /\ task'[t].status \in Executing =>
                  /\ task'[t].risk # "R3" /\ task'[t].governed
                  /\ "IMPLEMENTING" \in granted'[t]
             /\ task'[t].status = "READY_TO_PUBLISH" => "READY_TO_PUBLISH" \in granted'[t]
  <2>1. CASE task'[t] = Blocked(base)
    BY <2>1, BlockedAndFailedStatus DEF Executing
  <2>2. CASE /\ CanTransition(base, target, actor) /\ task'[t] = Transitioned(base, target)
             /\ target \in GovernedTargets => target \in granted'[t]
    <3>1. task'[t].status = target \/ task'[t].status = "BLOCKED"
      BY <2>2 DEF Transitioned, Moved, TaskRecords
    <3>2. /\ base.status = task[t].status /\ granted[t] \subseteq granted'[t]
          /\ base.risk = task[t].risk /\ base.governed = task[t].governed
      BY <1>3 DEF Continues
    <3>3. QED
      BY <2>2, <3>1, <3>2, <1>i, TransitionCases DEF Executing, GovernedTargets
  <2>3. QED
    BY <1>3, <2>1, <2>2 DEF Continues
<1>4. Moves(t)
  BY StepMoves DEF Core
<1>5. CASE MovesOn(t)
  BY <1>3, <1>5, <1>i, MovesOnContinues
<1>6. QED
  BY <1>1, <1>2, <1>4, <1>5 DEF Moves, Stays, Notes, Queues, Starts, Retries, Rests, Keeps

(* No task executes, or is ready to publish, without governance's grant, and*)
(* no R3 task and no ungoverned one does with it, whatever services run at  *)
(* the same time.                                                           *)
THEOREM ExecutionIsAlwaysGranted == Spec => []ExecutionWasGranted
<1>1. Init => ExecutionWasGranted
  BY DEF Init, NewTask, ExecutionWasGranted, Executing
<1>2. Core /\ ExecutionWasGranted /\ [Next]_vars => ExecutionWasGranted'
  BY GrantStep
<1>3. QED
  BY <1>1, <1>2, AlwaysCore, PTL DEF Spec

------------------------------------------------------------------------------
(* What the tables of the ledger tell of one another, move by move: the     *)
(* event streams of the tasks, the results of the streams, and all of them  *)
(* of the work that the queue has promised.                                 *)

(* What one event or untold change makes of a moment of a task's life.      *)
Follows(a, b) ==
  \/ b.version = a.version /\ b.status = a.status
  \/ b.version = a.version + 1 /\ LegalMove(a.status, b.status)

(* The stages between planning and a status.                                *)
Earlier(status) ==
  CASE status = "IMPLEMENTING" -> {"DESIGN_REVIEW"}
    [] status = "PREFLIGHT" -> {"DESIGN_REVIEW", "IMPLEMENTING"}
    [] status = "PATCH_REVIEW" -> {"DESIGN_REVIEW", "IMPLEMENTING", "PREFLIGHT"}
    [] status = "READY_TO_PUBLISH" ->
         {"DESIGN_REVIEW", "IMPLEMENTING", "PREFLIGHT", "PATCH_REVIEW"}
    [] OTHER -> {}

(* HistoryIsLegal of one life that has come to a moment, and of a stream    *)
(* that has come to a version.                                              *)
Whole(life, at) ==
  /\ life \subseteq Moments /\ at \in life
  /\ \A p, q \in life :
       /\ p.version = q.version => p = q
       /\ q.version = p.version + 1 => LegalMove(p.status, q.status)
  /\ \A p \in life : p.version <= at.version
  /\ \A v \in 0..at.version : \E p \in life : p.version = v
  /\ \A stage \in Earlier(at.status) : \E p \in life : p.status = stage

Ordered(s, version) ==
  /\ Len(s) >= 1 /\ s[1].version = 0 /\ s[1].status = "RECEIVED"
  /\ \A i \in 1..(Len(s) - 1) : s[i].version <= s[i + 1].version
  /\ s[Len(s)].version <= version

Told ==
  \A t \in Tasks : Ordered(log[t], task[t].version) /\ Whole(Life(t), Moment(task[t]))

(* A move enters a stage from the one before it.                            *)
LEMMA StagesInOrder ==
  ASSUME NEW from, NEW to, LegalMove(from, to)
  PROVE  Earlier(to) \subseteq Earlier(from) \cup {from}
BY DEF LegalMove, Earlier, Stages

(* A moment that follows from where a life has come to continues it.        *)
LEMMA LifeGoesOn ==
  ASSUME NEW life, NEW at \in Moments, NEW next \in Moments,
         Whole(life, at), Follows(at, next)
  PROVE  Whole(life \cup {next}, next)
<1>k. at.version \in Nat /\ next.version \in Nat /\ \A p \in life : p.version \in Nat
  BY DEF Whole, Moments
<1>1. CASE next.version = at.version /\ next.status = at.status
  <2>1. next = at
    BY <1>1 DEF Moments
  <2>2. life \cup {next} = life
    BY <2>1 DEF Whole
  <2>3. QED
    BY <2>1, <2>2
<1>2. CASE next.version = at.version + 1 /\ LegalMove(at.status, next.status)
  <2> DEFINE longer == life \cup {next}
  <2>1. longer \subseteq Moments /\ next \in longer
    BY DEF Whole
  <2>2. \A p \in life : p.version <= at.version /\ p.version < next.version
    BY <1>2, <1>k DEF Whole
  <2>3. ASSUME NEW p \in longer, NEW q \in longer
        PROVE  /\ p.version = q.version => p = q
               /\ q.version = p.version + 1 => LegalMove(p.status, q.status)
    <3>1. CASE p \in life /\ q \in life
      BY <3>1 DEF Whole
    <3>2. CASE p \in life /\ q = next
      <4>1. p.version = at.version => p = at
        BY <3>2 DEF Whole
      <4>2. QED
        BY <3>2, <4>1, <2>2, <1>2, <1>k
    <3>3. CASE p = next /\ q \in life
      BY <3>3, <2>2, <1>k
    <3>4. CASE p = next /\ q = next
      BY <3>4, <1>k
    <3>5. QED
      BY <3>1, <3>2, <3>3, <3>4
  <2>4. \A p \in longer : p.version <= next.version
    BY <2>2, <1>k
  <2>5. ASSUME NEW v \in 0..next.version
        PROVE  \E p \in longer : p.version = v
    <3>1. v \in 0..at.version \/ v = next.version
      BY <1>2, <1>k
    <3>2. QED
      BY <3>1 DEF Whole
  <2>6. ASSUME NEW stage \in Earlier(next.status)
        PROVE  \E p \in longer : p.status = stage
    <3>1. stage \in Earlier(at.status) \cup {at.status}
      BY <1>2, StagesInOrder
    <3>2. QED
      BY <3>1 DEF Whole
  <2> HIDE DEF longer
  <2>7. Whole(longer, next)
    BY <2>1, <2>3, <2>4, <2>5, <2>6 DEF Whole
  <2>8. QED
    BY <2>7 DEF longer
<1>3. QED
  BY <1>1, <1>2 DEF Follows

(* An event keeps a stream in order, and adds its moment to the life.       *)
MomentsOf(s) == {Moment(s[i]) : i \in 1..Len(s)}

LEMMA StreamGoesOn ==
  ASSUME NEW s \in Seq(Entries), NEW e \in Entries, NEW version \in Nat,
         Ordered(s, version), version <= e.version
  PROVE  /\ Ordered(Append(s, e), e.version)
         /\ MomentsOf(Append(s, e)) = MomentsOf(s) \cup {Moment(e)}
<1> DEFINE u == Append(s, e)
<1>1. Len(s) \in Nat /\ Len(s) >= 1 /\ \A i \in 1..Len(s) : s[i] \in Entries
  BY DEF Ordered
<1>2. /\ Len(u) = Len(s) + 1 /\ u[Len(s) + 1] = e
      /\ \A i \in 1..Len(s) : u[i] = s[i]
  OBVIOUS
<1>3. s[Len(s)].version <= e.version
  <2>1. s[Len(s)].version \in Nat /\ e.version \in Nat /\ s[Len(s)].version <= version
    BY <1>1 DEF Ordered, Entries
  <2>2. QED
    BY <2>1
<1> HIDE DEF u
<1>4. ASSUME NEW i \in 1..(Len(u) - 1) PROVE u[i].version <= u[i + 1].version
  <2>1. CASE i = Len(s)
    BY <2>1, <1>1, <1>2, <1>3
  <2>2. CASE i # Len(s)
    <3>1. i \in 1..(Len(s) - 1) /\ i \in 1..Len(s) /\ i + 1 \in 1..Len(s)
      BY <2>2, <1>1, <1>2
    <3>2. QED
      BY <3>1, <1>2 DEF Ordered
  <2>3. QED
    BY <2>1, <2>2
<1>5. Ordered(u, e.version)
  <2>1. e.version \in Nat
    BY DEF Entries
  <2>2. QED
    BY <1>1, <1>2, <1>4, <2>1 DEF Ordered
<1>6. 1..Len(u) = 1..Len(s) \cup {Len(s) + 1}
  BY <1>1, <1>2
<1>7. MomentsOf(u) = MomentsOf(s) \cup {Moment(e)}
  BY <1>2, <1>6 DEF MomentsOf
<1>8. QED
  BY <1>5, <1>7 DEF u

(* The events that a move appends follow from the task as it was.           *)
LEMMA OperationsAreLegalMoves ==
  ASSUME NEW t \in TaskRecords(Artifacts)
  PROVE  /\ CanBlock(t) => LegalMove(t.status, Blocked(t).status)
         /\ CanFail(t, "SYSTEM") => LegalMove(t.status, Failed(t).status)
         /\ \A target \in Statuses, actor \in Roles :
              CanTransition(t, target, actor) =>
                LegalMove(t.status, Transitioned(t, target).status)
<1>1. /\ CanBlock(t) => LegalMove(t.status, Blocked(t).status)
      /\ CanFail(t, "SYSTEM") => LegalMove(t.status, Failed(t).status)
  BY BlockedAndFailedStatus DEF CanBlock, CanFail, LegalMove
<1>2. ASSUME NEW target \in Statuses, NEW actor \in Roles, CanTransition(t, target, actor)
      PROVE  LegalMove(t.status, Transitioned(t, target).status)
  <2>1. t.status \notin Terminal
    BY <1>2 DEF CanTransition
  <2>2. Transitioned(t, target).status \in {target, "BLOCKED"}
    BY DEF Transitioned, Moved, TaskRecords
  <2>3. Transitioned(t, target).status = target => ProposesR3(t, target, actor)
                                                   \/ <<t.status, target, actor>> \in Stages
    BY <1>2 DEF CanTransition, Transitioned, ImplementsR3, Moved, TaskRecords
  <2>4. QED
    BY <2>1, <2>2, <2>3 DEF LegalMove, ProposesR3
<1>3. QED
  BY <1>1, <1>2

(* Every move keeps the lives of the tasks whole.                           *)
LEMMA ToldStep ==
  ASSUME Core, Told, [Next]_vars
  PROVE  Told'
<1> SUFFICES ASSUME NEW t \in Tasks
             PROVE  Ordered(log'[t], task'[t].version) /\ Whole(Life(t)', Moment(task'[t]))
  BY DEF Told, Moment
<1>k. /\ task[t] \in TaskRecords(Artifacts) /\ task[t].version \in Nat
      /\ log[t] \in Seq(Entries) /\ Len(log[t]) \in Nat
      /\ \A u \in TaskRecords(Artifacts) : u.version \in Nat /\ Moment(u) \in Moments
  BY DEF Core, Coherent, Typed, TypeOK, TaskRecords, Moment, Moments
<1>i. /\ Ordered(log[t], task[t].version) /\ Whole(Life(t), Moment(task[t]))
      /\ Life(t) = MomentsOf(log[t]) \cup untold[t]
      /\ Life(t)' = MomentsOf(log'[t]) \cup untold'[t]
  BY DEF Told, Life, MomentsOf, Moment
<1>f. ASSUME NEW u \in TaskRecords(Artifacts), Follows(task[t], u)
      PROVE  /\ task[t].version <= u.version
             /\ Whole(Life(t) \cup {Moment(u)}, Moment(u))
  <2>1. Follows(Moment(task[t]), Moment(u))
    BY <1>f DEF Follows, Moment
  <2>2. task[t].version <= u.version
    BY <1>f, <1>k DEF Follows
  <2>3. QED
    BY <2>1, <2>2, <1>k, <1>i, LifeGoesOn
<1>a. ASSUME NEW kind \in EventKinds, NEW u \in TaskRecords(Artifacts),
             Follows(task[t], u), task'[t] = u, Accounts(t, kind)
      PROVE  Ordered(log'[t], u.version) /\ Whole(Life(t)', Moment(u))
  <2> DEFINE e == Entry(kind, u)
  <2>1. e \in Entries /\ e.version = u.version /\ Moment(e) = Moment(u)
    BY EntryType DEF Entry, Moment
  <2> HIDE DEF e
  <2>2. CASE log'[t] = Append(log[t], e) /\ untold'[t] = untold[t]
    <3>1. /\ Ordered(log'[t], u.version)
          /\ MomentsOf(log'[t]) = MomentsOf(log[t]) \cup {Moment(u)}
      BY <2>1, <2>2, <1>a, <1>f, <1>i, <1>k, StreamGoesOn
    <3>2. Life(t)' = Life(t) \cup {Moment(u)}
      BY <3>1, <2>2, <1>i
    <3>3. QED
      BY <3>1, <3>2, <1>a, <1>f
  <2>3. CASE log'[t] = log[t] /\ untold'[t] = Untold(t, u)
    <3>1. Ordered(log'[t], u.version)
      <4>1. Len(log[t]) \in 1..Len(log[t])
        BY <1>i, <1>k DEF Ordered
      <4>2. log[t][Len(log[t])] \in Entries
        BY <4>1, <1>k
      <4>3. /\ log[t][Len(log[t])].version \in Nat
            /\ log[t][Len(log[t])].version <= task[t].version
        BY <4>2, <1>i DEF Entries, Ordered
      <4>4. task[t].version <= u.version /\ u.version \in Nat
        BY <1>a, <1>f, <1>k
      <4>5. log[t][Len(log[t])].version <= u.version
        BY <4>3, <4>4, <1>k
      <4>6. QED
        BY <4>5, <2>3, <1>i DEF Ordered
    <3>2. Life(t)' = Life(t) \cup {Moment(u)}
      <4>1. CASE u.version = task[t].version
        <5>1. u.status = task[t].status
          BY <4>1, <1>a, <1>k DEF Follows
        <5>2. Moment(u) \in Life(t) /\ untold'[t] = untold[t]
          BY <4>1, <5>1, <2>3, <1>i DEF Whole, Moment, Untold
        <5>3. QED
          BY <5>2, <2>3, <1>i
      <4>2. CASE u.version # task[t].version
        BY <4>2, <2>3, <1>i DEF Untold
      <4>3. QED
        BY <4>1, <4>2
    <3>3. QED
      BY <3>1, <3>2, <1>a, <1>f
  <2>4. QED
    BY <2>2, <2>3, <1>a DEF Accounts, e
<1>1. CASE task'[t] = task[t] /\ log'[t] = log[t] /\ untold'[t] = untold[t]
  BY <1>1, <1>i
<1>2. ASSUME NEW kind \in EventKinds, task'[t] = task[t], untold'[t] = untold[t],
             log'[t] = Append(log[t], Entry(kind, task[t]))
      PROVE  Ordered(log'[t], task'[t].version) /\ Whole(Life(t)', Moment(task'[t]))
  <2>1. Follows(task[t], task[t]) /\ Accounts(t, kind)
    BY <1>2 DEF Follows, Accounts
  <2>2. QED
    BY <2>1, <1>2, <1>a, <1>k
<1>3. CASE Fails(t)
  <2>1. Follows(task[t], Failed(task[t])) /\ Failed(task[t]) \in TaskRecords(Artifacts)
    BY <1>3, <1>k, OperationsAreLegalMoves, OperationsRaiseVersion, OperationsReturnTasks
    DEF Fails, Follows
  <2>2. QED
    BY <2>1, <1>3, <1>a DEF Fails, EventKinds
<1>4. ASSUME NEW base \in TaskRecords(Artifacts), NEW target \in Statuses,
             NEW actor \in Roles, Continues(t, base, target, actor)
      PROVE  Follows(base, task'[t]) /\ task'[t] \in TaskRecords(Artifacts)
  <2>1. base.version \in Nat
    BY DEF TaskRecords
  <2>2. QED
    BY <2>1, <1>4, OperationsAreLegalMoves, OperationsRaiseVersion, OperationsReturnTasks
    DEF Continues, Follows
<1>5. CASE Cancels(t)
  <2>1. Follows(task[t], task'[t]) /\ task'[t] \in TaskRecords(Artifacts)
    BY <1>5, <1>k, <1>4 DEF Cancels, Statuses, Roles
  <2>2. Accounts(t, "TASK_BLOCKED")
    BY <1>5 DEF Cancels, Accounts
  <2>3. QED
    BY <2>1, <2>2, <1>a DEF EventKinds
<1>6. ASSUME NEW target \in Statuses, NEW actor \in Roles, Transits(t, target, actor)
      PROVE  Ordered(log'[t], task'[t].version) /\ Whole(Life(t)', Moment(task'[t]))
  <2>1. Follows(task[t], task'[t]) /\ task'[t] \in TaskRecords(Artifacts)
    BY <1>6, <1>k, <1>4 DEF Transits
  <2>2. QED
    BY <2>1, <1>6, <1>a DEF Transits, EventKinds
<1>7. ASSUME NEW r \in ResultIds, NEW base \in TaskRecords(Artifacts),
             NEW target \in Statuses, NEW role \in Roles, Publishes(t, r, base, target, role)
      PROVE  Ordered(log'[t], task'[t].version) /\ Whole(Life(t)', Moment(task'[t]))
  <2> DEFINE e == Entry("ARTIFACT_REGISTERED", base)
             f == ResultEntry(task'[t], r)
             middle == Append(log[t], e)
  <2>1. Follows(base, task'[t]) /\ task'[t] \in TaskRecords(Artifacts)
    BY <1>7, <1>4 DEF Publishes
  <2>2. /\ base.version \in {task[t].version, task[t].version + 1}
        /\ base.status = task[t].status /\ base.version \in Nat
    BY <1>7 DEF Publishes, Continues, TaskRecords
  <2>3. Follows(task[t], base)
    BY <2>2 DEF Follows, LegalMove
  <2>4. task[t].version <= base.version /\ Whole(Life(t) \cup {Moment(base)}, Moment(base))
    BY <2>3, <1>f
  <2>5. e \in Entries /\ f \in Entries
    BY <2>1, EntryType DEF EventKinds
  <2>6. /\ f.version = task'[t].version /\ Moment(f) = Moment(task'[t])
        /\ e.version = base.version /\ Moment(e) = Moment(base)
    BY DEF Entry, ResultEntry, Moment
  <2>7. log'[t] = log[t] \o <<e, f>> /\ untold'[t] = untold[t]
    BY <1>7 DEF Publishes
  <2> HIDE DEF e, f
  <2>8. log'[t] = Append(middle, f) /\ middle \in Seq(Entries)
    BY <2>5, <2>7, <1>k
  <2>9. /\ Ordered(middle, base.version)
        /\ MomentsOf(middle) = MomentsOf(log[t]) \cup {Moment(base)}
    BY <2>4, <2>5, <2>6, <1>i, <1>k, StreamGoesOn
  <2> HIDE DEF middle
  <2>10. base.version <= task'[t].version /\ task'[t].version \in Nat
    BY <2>1, <2>2, <1>k DEF Follows
  <2>11. /\ Ordered(log'[t], task'[t].version)
         /\ MomentsOf(log'[t]) = MomentsOf(middle) \cup {Moment(task'[t])}
    BY <2>2, <2>5, <2>6, <2>8, <2>9, <2>10, StreamGoesOn
  <2>12. Follows(Moment(base), Moment(task'[t]))
    BY <2>1 DEF Follows, Moment
  <2>13. Whole((Life(t) \cup {Moment(base)}) \cup {Moment(task'[t])}, Moment(task'[t]))
    BY <2>1, <2>4, <2>12, <1>k, LifeGoesOn
  <2>14. Life(t)' = (Life(t) \cup {Moment(base)}) \cup {Moment(task'[t])}
    BY <2>7, <2>9, <2>11, <1>i
  <2>15. QED
    BY <2>11, <2>13, <2>14
<1>8. CASE Notes(t)
  BY <1>8, <1>2 DEF Notes, Keeps, EventKinds
<1>9. CASE Retries(t)
  BY <1>9, <1>1, <1>2 DEF Retries, Keeps, EventKinds
<1>10. CASE MovesOn(t)
  BY <1>5, <1>6, <1>7, <1>10 DEF MovesOn
<1>11. Moves(t)
  BY StepMoves DEF Core
<1>12. QED
  BY <1>1, <1>3, <1>8, <1>9, <1>10, <1>11
  DEF Moves, Stays, Queues, Starts, Rests, Keeps

(* The life of a task is whole and legal, and its stream is in the order of *)
(* it, whatever the number of calls in flight, whatever they have read, and *)
(* however many of them bring an event that is on record.                   *)
THEOREM HistoryIsAlwaysLegal == Spec => []HistoryIsLegal
<1>1. Init => Told
  <2> SUFFICES ASSUME Init, NEW t \in Tasks
               PROVE  Ordered(log[t], task[t].version) /\ Whole(Life(t), Moment(task[t]))
    BY DEF Told
  <2> DEFINE e == Entry("TASK_RECEIVED", NewTask(Risk[t], Governed[t]))
  <2>1. /\ task[t].version = 0 /\ task[t].status = "RECEIVED" /\ log[t] = <<e>>
        /\ e.version = 0 /\ e.status = "RECEIVED" /\ untold[t] = {}
    BY DEF Init, NewTask, Entry
  <2> HIDE DEF e
  <2>2. Len(log[t]) = 1 /\ log[t][1] = e
    BY <2>1
  <2>3. Earlier("RECEIVED") = {} /\ "RECEIVED" \in Statuses
    BY DEF Earlier, Statuses
  <2>4. Life(t) = {Moment(task[t])}
    BY <2>1, <2>2 DEF Life, Moment
  <2>5. Moment(task[t]).version = 0 /\ Moment(task[t]).status = "RECEIVED"
    BY <2>1 DEF Init, NewTask, Moment
  <2>6. Whole(Life(t), Moment(task[t]))
    <3>1. Moment(task[t]) \in Moments
      BY <2>3, <2>5 DEF Moment, Moments
    <3>2. QED
      BY <2>3, <2>4, <2>5, <3>1 DEF Whole
  <2>7. QED
    BY <2>1, <2>2, <2>6 DEF Ordered
<1>2. Core /\ Told /\ [Next]_vars => Told'
  BY ToldStep
<1>3. Core /\ Told => HistoryIsLegal
  <2> SUFFICES ASSUME Core, Told, NEW t \in Tasks
               PROVE  /\ log[t][1].version = 0 /\ log[t][1].status = "RECEIVED"
                      /\ \A i \in 1..(Len(log[t]) - 1) :
                           log[t][i].version <= log[t][i + 1].version
                      /\ \A p, q \in Life(t) :
                           /\ p.version = q.version => p = q
                           /\ q.version = p.version + 1 => LegalMove(p.status, q.status)
                      /\ {p.version : p \in Life(t)} = 0..task[t].version
                      /\ Moment(task[t]) \in Life(t)
                      /\ task[t].status = "READY_TO_PUBLISH" =>
                           {"DESIGN_REVIEW", "IMPLEMENTING", "PREFLIGHT", "PATCH_REVIEW"}
                             \subseteq {p.status : p \in Life(t)}
    BY Zenon DEF HistoryIsLegal
  <2>1. Ordered(log[t], task[t].version) /\ Whole(Life(t), Moment(task[t]))
    BY DEF Told
  <2>2. /\ Moment(task[t]).version = task[t].version
        /\ Moment(task[t]).status = task[t].status
    BY DEF Moment
  <2>3. {p.version : p \in Life(t)} = 0..task[t].version
    <3>1. task[t].version \in Nat
      BY DEF Core, Coherent, Typed, TypeOK, TaskRecords
    <3>2. \A p \in Life(t) : p.version \in 0..task[t].version
      BY <2>1, <2>2, <3>1 DEF Whole, Moments
    <3>3. \A v \in 0..task[t].version : \E p \in Life(t) : p.version = v
      BY <2>1, <2>2 DEF Whole
    <3>4. QED
      BY <3>2, <3>3
  <2>4. task[t].status = "READY_TO_PUBLISH" =>
          {"DESIGN_REVIEW", "IMPLEMENTING", "PREFLIGHT", "PATCH_REVIEW"}
            \subseteq {p.status : p \in Life(t)}
    BY <2>1, <2>2 DEF Whole, Earlier
  <2>5. QED
    BY <2>1, <2>3, <2>4 DEF Ordered, Whole
<1>4. QED
  BY <1>1, <1>2, <1>3, AlwaysCore, PTL DEF Spec

------------------------------------------------------------------------------
(* A result blocks its task when its target takes a grant, and nothing but  *)
(* failure comes after that.                                                *)
LEMMA BlockedStays ==
  ASSUME Core, [Next]_vars, NEW t \in Tasks, task[t].status \in {"BLOCKED", "FAILED"}
  PROVE  task'[t].status \in {"BLOCKED", "FAILED"}
<1>k. task[t] \in TaskRecords(Artifacts)
  BY DEF Core, Coherent, Typed, TypeOK
<1>1. CASE task'[t] = task[t]
  BY <1>1
<1>2. CASE Fails(t)
  BY <1>2, <1>k, BlockedAndFailedStatus DEF Fails
<1>3. ASSUME NEW base \in TaskRecords(Artifacts), NEW target \in Statuses,
             NEW actor \in Roles, Continues(t, base, target, actor)
      PROVE  task'[t].status = "BLOCKED"
  <2>1. base.status \in {"BLOCKED", "FAILED"}
    BY <1>3 DEF Continues
  <2>2. ~CanTransition(base, target, actor)
    BY <2>1 DEF CanTransition, ProposesR3, ImplementsR3, Stages, Terminal
  <2>3. QED
    BY <2>2, <1>3, BlockedAndFailedStatus DEF Continues
<1>4. CASE MovesOn(t)
  BY <1>3, <1>4, <1>k, MovesOnContinues
<1>5. Moves(t)
  BY StepMoves DEF Core
<1>6. QED
  BY <1>1, <1>2, <1>4, <1>5 DEF Moves, Stays, Notes, Queues, Starts, Retries, Rests, Keeps

(* A step that records a result is its publication.                         *)
LEMMA ResultsStep ==
  ASSUME Core, [Next]_vars
  PROVE  \/ results' = results
         \/ \E t \in Tasks, r \in ResultIds, base \in TaskRecords(Artifacts),
               target \in Statuses, role \in Roles : Publishes(t, r, base, target, role)
<1>1. ASSUME NEW c \in Callers, Commit(c)
      PROVE  \/ results' = results
             \/ \E t \in Tasks, r \in ResultIds, base \in TaskRecords(Artifacts),
                   target \in Statuses, role \in Roles : Publishes(t, r, base, target, role)
  <2>1. InFlight(c)
    BY <1>1 DEF Commit
  <2>2. ASSUME NEW t \in Tasks, NEW w \in Workers, NEW r \in ResultIds,
               NEW role \in WorkerRoles, NEW target \in Statuses, NEW a \in Artifacts,
               PublishResult(c, r, t, w, role, target, a)
        PROVE  role \in Roles
                 /\ \E base \in TaskRecords(Artifacts) : Publishes(t, r, base, target, role)
    BY <2>1, <2>2, PublishMoves DEF Core
  <2>3. \/ results' = results
        \/ \E t \in Tasks, w \in Workers, r \in ResultIds, role \in WorkerRoles,
              target \in Statuses, a \in Artifacts :
             PublishResult(c, r, t, w, role, target, a)
    <3>1. RecoverExpired(c) => results' = results
      BY DEF RecoverExpired
    <3>2. \A t \in Tasks :
            /\ \A target \in Statuses, actor \in Roles, authorized \in BOOLEAN :
                 TransitionTask(c, t, target, actor, authorized) => results' = results
            /\ RecordActivity(c, t) => results' = results
      BY DEF TransitionTask, RecordActivity
    <3>3. \A t \in Tasks, w \in Workers :
            CancelExecution(c, t, w) \/ Claim(c, w, t) \/ Heartbeat(c, w, t)
              \/ FailAttempt(c, w, t) => results' = results
      BY DEF CancelExecution, Claim, Heartbeat, FailAttempt
    <3>4. QED
      BY <1>1, <3>1, <3>2, <3>3 DEF Commit, CommitApart
  <2>4. QED
    BY <2>2, <2>3
<1>2. QED
  BY <1>1 DEF Next, Surroundings, Begin, Abort, Enqueue, EngageFuse, ReleaseFuse, Tick, vars, db

(* A result whose target takes a grant keeps its task blocked or failed.    *)
LEMMA ReadyResultStep ==
  ASSUME Core, ReadyResultBlocks, [Next]_vars
  PROVE  ReadyResultBlocks'
<1> SUFFICES ASSUME NEW r \in ResultIds, results'[r] # NoResult,
                    results'[r].target = "READY_TO_PUBLISH"
             PROVE  task'[results'[r].task].status \in {"BLOCKED", "FAILED"}
  BY DEF ReadyResultBlocks
<1>k. results[r] \in Results \cup {NoResult} /\ \A t \in Tasks : task[t] \in TaskRecords(Artifacts)
  BY DEF Core, Coherent, Typed, TypeOK
<1>1. CASE results'[r] = results[r]
  <2>1. results[r].task \in Tasks
    BY <1>1, <1>k DEF Results
  <2>2. task[results[r].task].status \in {"BLOCKED", "FAILED"}
    BY <1>1 DEF ReadyResultBlocks
  <2>3. QED
    BY <1>1, <2>1, <2>2, BlockedStays
<1>2. CASE results'[r] # results[r]
  <2>1. PICK t \in Tasks, q \in ResultIds, base \in TaskRecords(Artifacts),
             target \in Statuses, role \in Roles : Publishes(t, q, base, target, role)
    BY <1>2, ResultsStep
  <2>2. PICK result \in Results : /\ result.task = t /\ result.target = target
                                  /\ results' = [results EXCEPT ![q] = result]
    BY <2>1 DEF Publishes
  <2>3. results'[r] = result
    BY <2>2, <1>2 DEF Core, Coherent, Typed, TypeOK
  <2>4. task'[t] = Blocked(base)
    BY <2>1, <2>2, <2>3 DEF Publishes, GovernedTargets
  <2>5. QED
    BY <2>2, <2>3, <2>4, BlockedAndFailedStatus
<1>3. QED
  BY <1>1, <1>2

(* The task of a result with target READY_TO_PUBLISH is out of the way for  *)
(* good: no service produces what publication preparation asks for.         *)
THEOREM ReadyResultAlwaysBlocks == Spec => []ReadyResultBlocks
<1>1. Init => ReadyResultBlocks
  BY DEF Init, ReadyResultBlocks
<1>2. Core /\ ReadyResultBlocks /\ [Next]_vars => ReadyResultBlocks'
  BY ReadyResultStep
<1>3. QED
  BY <1>1, <1>2, AlwaysCore, PTL DEF Spec

------------------------------------------------------------------------------
(* The events of a stream that name a result.                               *)
Named(t, r) == {i \in 1..Len(log[t]) : log[t][i].result = r}

(* ResultAppliedOnce as a statement about single events.                    *)
AppliedOnce ==
  \A r \in ResultIds :
    IF results[r] = NoResult
    THEN \A t \in Tasks : Named(t, r) = {}
    ELSE \E t \in Tasks : \E i \in Nat :
           \A u \in Tasks : Named(u, r) = IF u = t THEN {i} ELSE {}

(* One event means one element.                                             *)
LEMMA AppliedOnceCounts == AppliedOnce => ResultAppliedOnce
<1> SUFFICES ASSUME AppliedOnce, NEW r \in ResultIds
             PROVE  Cardinality(UNION {{<<t, i>> : i \in Named(t, r)} : t \in Tasks})
                      = IF results[r] = NoResult THEN 0 ELSE 1
  BY DEF ResultAppliedOnce, Named
<1> DEFINE uses == UNION {{<<t, i>> : i \in Named(t, r)} : t \in Tasks}
<1>1. CASE results[r] = NoResult
  <2>1. uses = {}
    BY <1>1 DEF AppliedOnce
  <2>2. QED
    BY <1>1, <2>1, FS_EmptySet
<1>2. CASE results[r] # NoResult
  <2>1. PICK t \in Tasks, i \in Nat :
          \A u \in Tasks : Named(u, r) = IF u = t THEN {i} ELSE {}
    BY <1>2 DEF AppliedOnce
  <2>2. uses = {<<t, i>>}
    BY <2>1
  <2> HIDE DEF uses
  <2>3. QED
    BY <1>2, <2>2, FS_Singleton DEF uses
<1>3. QED
  BY <1>1, <1>2

(* The names that a move adds to a stream: that of the result published.    *)
LEMMA NamesAdded ==
  ASSUME Core, [Next]_vars, NEW t \in Tasks, NEW q \in ResultIds
  PROVE  \/ Named(t, q)' = Named(t, q)
         \/ /\ Named(t, q)' = Named(t, q) \cup {Len(log[t]) + 2}
            /\ \E base \in TaskRecords(Artifacts), target \in Statuses, role \in Roles :
                 Publishes(t, q, base, target, role)
<1>k. log[t] \in Seq(Entries) /\ Len(log[t]) \in Nat
  BY DEF Core, Coherent, Typed, TypeOK
<1>1. CASE log'[t] = log[t]
  BY <1>1 DEF Named
<1>2. ASSUME NEW kind, NEW u, log'[t] = Append(log[t], Entry(kind, u))
      PROVE  Named(t, q)' = Named(t, q)
  <2> DEFINE e == Entry(kind, u)
  <2>1. e.result # q
    BY LedgerAssumption DEF Entry
  <2> HIDE DEF e
  <2>2. /\ Len(log'[t]) = Len(log[t]) + 1 /\ log'[t][Len(log[t]) + 1] = e
        /\ \A i \in 1..Len(log[t]) : log'[t][i] = log[t][i]
    BY <1>2, <1>k DEF e
  <2>3. QED
    BY <2>1, <2>2, <1>k DEF Named
<1>3. ASSUME NEW r \in ResultIds, NEW base \in TaskRecords(Artifacts), NEW target \in Statuses,
             NEW role \in Roles, Publishes(t, r, base, target, role)
      PROVE  Named(t, q)' = IF q = r THEN Named(t, q) \cup {Len(log[t]) + 2} ELSE Named(t, q)
  <2> DEFINE e == Entry("ARTIFACT_REGISTERED", base)
             f == ResultEntry(task'[t], r)
  <2>1. e.result # q /\ f.result = r
    BY LedgerAssumption DEF Entry, ResultEntry
  <2>2. log'[t] = log[t] \o <<e, f>>
    BY <1>3 DEF Publishes
  <2> HIDE DEF e, f
  <2>3. /\ Len(log'[t]) = Len(log[t]) + 2
        /\ log'[t][Len(log[t]) + 1] = e /\ log'[t][Len(log[t]) + 2] = f
        /\ \A i \in 1..Len(log[t]) : log'[t][i] = log[t][i]
    BY <2>2, <1>k
  <2>4. 1..Len(log'[t]) = 1..Len(log[t]) \cup {Len(log[t]) + 1, Len(log[t]) + 2}
    BY <2>3, <1>k
  <2>5. \A i \in 1..Len(log'[t]) :
          log'[t][i].result = q <=> i \in Named(t, q) \/ (i = Len(log[t]) + 2 /\ q = r)
    <3>1. ASSUME NEW i \in 1..Len(log[t])
          PROVE  log'[t][i].result = q <=> i \in Named(t, q) \/ (i = Len(log[t]) + 2 /\ q = r)
      BY <2>3, <1>k DEF Named
    <3>2. Len(log[t]) + 1 \notin Named(t, q) /\ Len(log[t]) + 2 \notin Named(t, q)
      BY <1>k DEF Named
    <3>3. QED
      BY <2>1, <2>3, <2>4, <3>1, <3>2, <1>k
  <2>6. Named(t, q) \subseteq 1..Len(log'[t]) /\ Len(log[t]) + 2 \in 1..Len(log'[t])
    BY <2>4 DEF Named
  <2> DEFINE new == {i \in 1..Len(log'[t]) : log'[t][i].result = q}
  <2>7. new = IF q = r THEN Named(t, q) \cup {Len(log[t]) + 2} ELSE Named(t, q)
    BY <2>5, <2>6
  <2>8. QED
    BY <2>7 DEF Named
<1>4. CASE MovesOn(t)
  BY <1>1, <1>2, <1>3, <1>4 DEF MovesOn, Cancels, Transits, Accounts
<1>5. Moves(t)
  BY StepMoves DEF Core
<1>6. QED
  BY <1>1, <1>2, <1>4, <1>5
  DEF Moves, Stays, Notes, Queues, Starts, Retries, Fails, Rests, Accounts

(* Two publications in one step are one.                                    *)
LEMMA OnePublication ==
  ASSUME Core, NEW t \in Tasks, NEW r \in ResultIds, NEW base, NEW target, NEW role,
         Publishes(t, r, base, target, role)
  PROVE  /\ results[r] = NoResult /\ results'[r] # NoResult /\ results'[r].task = t
         /\ \A q \in ResultIds \ {r} : results'[q] = results[q]
<1>1. PICK result \in Results : result.task = t /\ results' = [results EXCEPT ![r] = result]
  BY DEF Publishes
<1>2. result # NoResult
  BY DEF Results, NoResult
<1>3. QED
  BY <1>1, <1>2 DEF Publishes, Core, Coherent, Typed, TypeOK

(* So a result is named once more exactly when it goes on record.           *)
LEMMA AppliedOnceStep ==
  ASSUME Core, AppliedOnce, [Next]_vars
  PROVE  AppliedOnce'
<1> SUFFICES ASSUME NEW r \in ResultIds
             PROVE  IF results'[r] = NoResult
                    THEN \A t \in Tasks : Named(t, r)' = {}
                    ELSE \E t \in Tasks : \E i \in Nat :
                           \A u \in Tasks : Named(u, r)' = IF u = t THEN {i} ELSE {}
  BY DEF AppliedOnce
<1>1. ASSUME NEW t \in Tasks, NEW base \in TaskRecords(Artifacts), NEW target \in Statuses,
             NEW role \in Roles, Publishes(t, r, base, target, role)
      PROVE  /\ results'[r] # NoResult
             /\ \A u \in Tasks : Named(u, r)' = IF u = t THEN {Len(log[t]) + 2} ELSE {}
  <2>1. results[r] = NoResult /\ results'[r] # NoResult /\ results'[r].task = t
    BY <1>1, OnePublication
  <2>2. \A u \in Tasks : Named(u, r) = {}
    BY <2>1 DEF AppliedOnce
  <2>3. ASSUME NEW u \in Tasks, u # t
        PROVE  Named(u, r)' = Named(u, r)
    BY <2>1, <2>3, NamesAdded, OnePublication
  <2>4. Named(t, r)' = {Len(log[t]) + 2}
    <3>1. Named(t, r)' = Named(t, r) \cup {Len(log[t]) + 2}
      <4>1. log'[t] = log[t] \o <<Entry("ARTIFACT_REGISTERED", base), ResultEntry(task'[t], r)>>
        BY <1>1 DEF Publishes
      <4>2. Len(log[t]) + 2 \in Named(t, r)'
        <5> DEFINE e == Entry("ARTIFACT_REGISTERED", base)
                   f == ResultEntry(task'[t], r)
        <5>1. f.result = r
          BY DEF Entry, ResultEntry
        <5> HIDE DEF e, f
        <5>2. log[t] \in Seq(Entries) /\ Len(log[t]) \in Nat
          BY DEF Core, Coherent, Typed, TypeOK
        <5>3. Len(log'[t]) = Len(log[t]) + 2 /\ log'[t][Len(log[t]) + 2] = f
          BY <4>1, <5>2 DEF e, f
        <5>4. QED
          BY <5>1, <5>2, <5>3 DEF Named
      <4>3. QED
        BY <4>2, NamesAdded
    <3>2. QED
      BY <3>1, <2>2
  <2>5. QED
    BY <2>1, <2>2, <2>3, <2>4
<1>2. CASE \E t \in Tasks, base \in TaskRecords(Artifacts), target \in Statuses,
              role \in Roles : Publishes(t, r, base, target, role)
  <2>1. \A t \in Tasks : Len(log[t]) + 2 \in Nat
    BY DEF Core, Coherent, Typed, TypeOK
  <2>2. QED
    BY <1>1, <1>2, <2>1
<1>3. CASE ~\E t \in Tasks, base \in TaskRecords(Artifacts), target \in Statuses,
               role \in Roles : Publishes(t, r, base, target, role)
  <2>1. \A t \in Tasks : Named(t, r)' = Named(t, r)
    BY <1>3, NamesAdded
  <2>2. results'[r] = results[r]
    BY <1>3, ResultsStep, OnePublication
  <2>3. QED
    BY <2>1, <2>2 DEF AppliedOnce
<1>4. QED
  BY <1>2, <1>3

(* A result is on record exactly when one event of one task carries it, for *)
(* any number of results, tasks and calls that publish it again.            *)
THEOREM ResultsAreAppliedOnce == Spec => []ResultAppliedOnce
<1>1. Init => AppliedOnce
  <2> SUFFICES ASSUME Init PROVE AppliedOnce
    OBVIOUS
  <2>1. ASSUME NEW r \in ResultIds, NEW t \in Tasks
        PROVE  Named(t, r) = {}
    <3> DEFINE e == Entry("TASK_RECEIVED", NewTask(Risk[t], Governed[t]))
    <3>1. log[t] = <<e>> /\ e.result # r
      BY LedgerAssumption DEF Init, Entry
    <3> HIDE DEF e
    <3>2. Len(log[t]) = 1 /\ log[t][1] = e
      BY <3>1
    <3>3. QED
      BY <3>1, <3>2 DEF Named
  <2>2. \A r \in ResultIds : results[r] = NoResult
    BY DEF Init
  <2>3. QED
    BY <2>1, <2>2 DEF AppliedOnce
<1>2. Core /\ AppliedOnce /\ [Next]_vars => AppliedOnce'
  BY AppliedOnceStep
<1>3. QED
  BY <1>1, <1>2, AppliedOnceCounts, AlwaysCore, PTL DEF Spec

------------------------------------------------------------------------------
(* The refinement.  The worker of a row says whether it is leased, and what *)
(* counts as the end of a piece of work is finite.                          *)
WorkersMatch ==
  \A t \in Tasks :
    /\ queue[t].state = "LEASED" => queue[t].worker \in Workers
    /\ queue[t].state = "READY" => queue[t].worker = NoWorker

RecordsAreFinite == \A t \in Tasks : IsFiniteSet(Recorded(t))

WorkInv == Core /\ WorkersMatch /\ RecordsAreFinite

(* The cancellations that an event adds.                                    *)
LEMMA CancellationsAdded ==
  ASSUME Core, NEW t \in Tasks, NEW kind, NEW u,
         log'[t] = Append(log[t], Entry(kind, u))
  PROVE  Cancellations(t)' = IF kind = "TASK_BLOCKED"
                             THEN Cancellations(t) \cup {Len(log[t]) + 1}
                             ELSE Cancellations(t)
<1> DEFINE e == Entry(kind, u)
<1>k. log[t] \in Seq(Entries) /\ Len(log[t]) \in Nat
  BY DEF Core, Coherent, Typed, TypeOK
<1>1. e.kind = kind
  BY DEF Entry
<1> HIDE DEF e
<1>2. /\ Len(log'[t]) = Len(log[t]) + 1 /\ log'[t][Len(log[t]) + 1] = e
      /\ \A i \in 1..Len(log[t]) : log'[t][i] = log[t][i]
  BY <1>k DEF e
<1>3. QED
  BY <1>1, <1>2, <1>k DEF Cancellations

(* A publication adds none.                                                 *)
LEMMA PublicationCancelsNothing ==
  ASSUME Core, NEW t \in Tasks, NEW r \in ResultIds, NEW base, NEW target, NEW role,
         Publishes(t, r, base, target, role)
  PROVE  Cancellations(t)' = Cancellations(t)
<1> DEFINE e == Entry("ARTIFACT_REGISTERED", base)
           f == ResultEntry(task'[t], r)
<1>k. log[t] \in Seq(Entries) /\ Len(log[t]) \in Nat
  BY DEF Core, Coherent, Typed, TypeOK
<1>1. e.kind # "TASK_BLOCKED" /\ f.kind # "TASK_BLOCKED"
  BY DEF Entry, ResultEntry
<1>2. log'[t] = log[t] \o <<e, f>>
  BY DEF Publishes
<1> HIDE DEF e, f
<1>3. /\ Len(log'[t]) = Len(log[t]) + 2
      /\ log'[t][Len(log[t]) + 1] = e /\ log'[t][Len(log[t]) + 2] = f
      /\ \A i \in 1..Len(log[t]) : log'[t][i] = log[t][i]
  BY <1>2, <1>k
<1>4. \A i \in 1..Len(log'[t]) : log'[t][i].kind = "TASK_BLOCKED" => i \in 1..Len(log[t])
  BY <1>1, <1>3, <1>k
<1>5. 1..Len(log[t]) \subseteq 1..Len(log'[t])
  BY <1>3, <1>k
<1>6. QED
  BY <1>3, <1>4, <1>5 DEF Cancellations

(* How many cancellations and results there are is a number, and one more   *)
(* when one is added.                                                       *)
LEMMA EvidenceCounts ==
  ASSUME WorkInv, NEW t \in Tasks
  PROVE  /\ IsFiniteSet(Cancellations(t)) /\ Cardinality(Cancellations(t)) \in Nat
         /\ Cardinality(Recorded(t)) \in Nat
         /\ Cardinality(Cancellations(t) \cup {Len(log[t]) + 1})
              = Cardinality(Cancellations(t)) + 1
         /\ \A r : r \notin Recorded(t) =>
              /\ IsFiniteSet(Recorded(t) \cup {r})
              /\ Cardinality(Recorded(t) \cup {r}) = Cardinality(Recorded(t)) + 1
<1>k. Len(log[t]) \in Nat
  BY DEF WorkInv, Core, Coherent, Typed, TypeOK
<1>1. IsFiniteSet(1..Len(log[t]))
  BY <1>k, FS_Interval
<1>2. Cancellations(t) \subseteq 1..Len(log[t])
  BY DEF Cancellations
<1>3. IsFiniteSet(Cancellations(t))
  BY <1>1, <1>2, FS_Subset
<1>4. Len(log[t]) + 1 \notin Cancellations(t)
  BY <1>k, <1>2
<1>5. IsFiniteSet(Recorded(t))
  BY DEF WorkInv, RecordsAreFinite
<1>6. QED
  BY <1>3, <1>4, <1>5, FS_CardinalityType, FS_AddElement

(* What is recorded for a task after a publication.                         *)
LEMMA RecordedAdded ==
  ASSUME Core, NEW t \in Tasks, NEW r \in ResultIds, NEW base, NEW target, NEW role,
         Publishes(t, r, base, target, role)
  PROVE  r \notin Recorded(t) /\ Recorded(t)' = Recorded(t) \cup {r}
BY OnePublication DEF Recorded

(* What the promise sees of a task.                                         *)
Done(t) == Cardinality(Recorded(t)) + Cardinality(Cancellations(t))
GivenUp(t) == task[t].status = "FAILED"
Queued(t) == queue[t].state # "ABSENT"
Holder(t) == IF queue[t].state = "LEASED" THEN queue[t].worker ELSE NoWorker

LEMMA JobOfTask ==
  ASSUME NEW t \in Tasks
  PROVE  Work!Job(t) = <<enqueues[t], Done(t), GivenUp(t), Queued(t), Holder(t), claims[t]>>
BY DEF Work!Job, Done, GivenUp, Queued, Holder

(* The same of the next state.                                              *)
LEMMA NextJobOfTask ==
  ASSUME NEW t \in Tasks
  PROVE  Work!Job(t)' = <<enqueues'[t], Done(t)', GivenUp(t)', Queued(t)', Holder(t)', claims'[t]>>
BY DEF Work!Job, Done, GivenUp, Queued, Holder

(* The steps of the promise, in these terms.                                *)
NextJob(t) == <<enqueues'[t], Done(t)', GivenUp(t)', Queued(t)', Holder(t)', claims'[t]>>

LEMMA StepsOfWork ==
  ASSUME NEW t \in Tasks
  PROVE  /\ ~Queued(t) /\ ~GivenUp(t)
            /\ NextJob(t) = <<enqueues[t] + 1, Done(t), FALSE, TRUE, NoWorker, 0>>
              => Work!Offer(t)
         /\ \A w \in Workers :
              Queued(t) /\ Holder(t) = NoWorker /\ claims[t] < MaxAttempts
              /\ NextJob(t) = <<enqueues[t], Done(t), GivenUp(t), TRUE, w, claims[t] + 1>>
                => Work!Take(t)
         /\ Queued(t) /\ Holder(t) # NoWorker /\ claims[t] < MaxAttempts
            /\ NextJob(t) = <<enqueues[t], Done(t), GivenUp(t), TRUE, NoWorker, claims[t]>>
              => Work!LetGo(t)
         /\ Queued(t) /\ Holder(t) # NoWorker
            /\ NextJob(t) = <<enqueues[t], Done(t) + 1, GivenUp(t), FALSE, NoWorker, claims[t]>>
              => Work!Finish(t)
         /\ Queued(t) /\ Holder(t) # NoWorker /\ claims[t] = MaxAttempts /\ ~GivenUp(t)
            /\ NextJob(t) = <<enqueues[t], Done(t), TRUE, FALSE, NoWorker, claims[t]>>
              => Work!GiveUp(t)
<1>1. Work!Job(t)' = NextJob(t)
  BY NextJobOfTask DEF NextJob
<1>2. /\ [u \in Tasks |-> Done(u)][t] = Done(t)
      /\ [u \in Tasks |-> GivenUp(u)][t] = GivenUp(t)
      /\ [u \in Tasks |-> Queued(u)][t] = Queued(t)
      /\ [u \in Tasks |-> Holder(u)][t] = Holder(t)
  OBVIOUS
<1>3. QED
  BY <1>1, <1>2
  DEF Work!Offer, Work!Take, Work!LetGo, Work!Finish, Work!GiveUp, Done, GivenUp, Queued, Holder

(* Every move of a task is a step of its work, or none.                     *)
Refined(t) ==
  \/ UNCHANGED Work!Job(t)
  \/ Work!Offer(t) \/ Work!Take(t) \/ Work!LetGo(t) \/ Work!Finish(t) \/ Work!GiveUp(t)

LEMMA WorkMoves ==
  ASSUME WorkInv, [Next]_vars, NEW t \in Tasks
  PROVE  Refined(t)
<1> USE JobOfTask, NextJobOfTask
<1>k. /\ task[t] \in TaskRecords(Artifacts) /\ queue[t] \in Rows
      /\ claims[t] \in Nat /\ enqueues[t] \in Nat /\ MaxAttempts \in Nat
      /\ NoWorker \notin Workers
  BY QueueAssumption DEF WorkInv, Core, Coherent, Typed, TypeOK
<1>i. /\ queue[t].state = "LEASED" => Holder(t) \in Workers
      /\ queue[t].state # "LEASED" => Holder(t) = NoWorker
      /\ Queued(t) => claims[t] = queue[t].attempt
      /\ queue[t].state = "LEASED" => queue[t].attempt <= MaxAttempts
  BY DEF WorkInv, WorkersMatch, Core, ClaimsCounted, Coherent, Typed, SoundQueue, Sound,
         Holder, Queued
<1>g. GivenUp(t) => queue[t].state = "ABSENT"
  BY DEF WorkInv, Core, QueuedIsLive, Terminal, GivenUp
<1>d. Done(t) \in Nat
  <2>1. Cardinality(Recorded(t)) \in Nat /\ Cardinality(Cancellations(t)) \in Nat
    BY EvidenceCounts
  <2>2. QED
    BY <2>1 DEF Done
<1>1. ASSUME Keeps(t), Records(t), Cancellations(t)' = Cancellations(t)
      PROVE  Done(t)' = Done(t) /\ GivenUp(t)' = GivenUp(t)
  BY <1>1 DEF Keeps, Records, Done, GivenUp
<1>2. ASSUME Rests(t)
      PROVE  Done(t)' = Done(t) /\ GivenUp(t)' = GivenUp(t)
  BY <1>1, <1>2 DEF Rests, Cancellations
<1>3. ASSUME JobOf(t)' = JobOf(t)
      PROVE  /\ enqueues'[t] = enqueues[t] /\ claims'[t] = claims[t]
             /\ Queued(t)' = Queued(t) /\ Holder(t)' = Holder(t)
  BY <1>3 DEF JobOf, Queued, Holder
<1>4. CASE Stays(t)
  BY <1>2, <1>3, <1>4 DEF Stays, Refined
<1>5. CASE Notes(t)
  <2>1. Cancellations(t)' = Cancellations(t)
    BY <1>5, CancellationsAdded DEF Notes, WorkInv
  <2>2. QED
    BY <2>1, <1>1, <1>3, <1>5 DEF Notes, Refined
<1>6. CASE Queues(t)
  <2>1. /\ ~Queued(t) /\ ~GivenUp(t) /\ Queued(t)' /\ Holder(t)' = NoWorker
        /\ enqueues'[t] = enqueues[t] + 1 /\ claims'[t] = 0
    BY <1>6 DEF Queues, Queued, GivenUp, Holder, JobOf, Terminal
  <2>2. Done(t)' = Done(t) /\ GivenUp(t)' = FALSE /\ Queued(t)' = TRUE
    BY <2>1, <1>2, <1>6 DEF Queues, GivenUp, Queued
  <2>3. NextJob(t) = <<enqueues[t] + 1, Done(t), FALSE, TRUE, NoWorker, 0>>
    BY <2>1, <2>2 DEF NextJob
  <2>4. Work!Offer(t)
    BY <2>1, <2>3, StepsOfWork
  <2>5. QED
    BY <2>4 DEF Refined
<1>7. CASE Starts(t)
  <2>1. PICK w \in Workers : JobOf(t)' = <<"LEASED", w, queue[t].attempt + 1,
                                           claims[t] + 1, enqueues[t]>>
    BY <1>7 DEF Starts
  <2>2. /\ Queued(t)' /\ Holder(t)' = w
        /\ enqueues'[t] = enqueues[t] /\ claims'[t] = claims[t] + 1
    BY <2>1 DEF JobOf, Queued, Holder
  <2>3. Queued(t) /\ Holder(t) = NoWorker /\ claims[t] < MaxAttempts
    BY <1>7, <1>i DEF Starts, Queued
  <2>4. Work!Take(t)
    BY <2>2, <2>3, <1>2, <1>7, StepsOfWork DEF Starts, NextJob
  <2>5. QED
    BY <2>4 DEF Refined
<1>8. CASE Retries(t)
  <2>1. Cancellations(t)' = Cancellations(t)
    <3>1. CASE log'[t] = log[t]
      BY <3>1 DEF Cancellations
    <3>2. CASE log'[t] = Append(log[t], Entry("QUEUE_FAILED", task[t]))
      BY <3>2, CancellationsAdded DEF WorkInv
    <3>3. QED
      BY <3>1, <3>2, <1>8 DEF Retries
  <2>2. /\ Queued(t)' /\ Holder(t)' = NoWorker
        /\ enqueues'[t] = enqueues[t] /\ claims'[t] = claims[t]
    BY <1>8 DEF Retries, JobOf, Queued, Holder
  <2>3. Queued(t) /\ Holder(t) # NoWorker /\ claims[t] < MaxAttempts
    BY <1>8, <1>i, <1>k DEF Retries, Queued, Exhausted, Rows
  <2>4. Work!LetGo(t)
    BY <2>1, <2>2, <2>3, <1>1, <1>8, StepsOfWork DEF Retries, NextJob
  <2>5. QED
    BY <2>4 DEF Refined
<1>e. ASSUME Ends(t)
      PROVE  /\ Queued(t) /\ Holder(t) # NoWorker /\ ~Queued(t)' /\ Holder(t)' = NoWorker
             /\ enqueues'[t] = enqueues[t] /\ claims'[t] = claims[t] /\ ~GivenUp(t)
  BY <1>e, <1>i, <1>g, <1>k DEF Ends, Queued, Holder
<1>h. ASSUME NEW kind, kind # "TASK_BLOCKED", Accounts(t, kind)
      PROVE  Cancellations(t)' = Cancellations(t)
  <2>1. CASE log'[t] = log[t]
    BY <2>1 DEF Cancellations
  <2>2. CASE log'[t] = Append(log[t], Entry(kind, task'[t]))
    BY <2>2, <1>h, CancellationsAdded DEF WorkInv
  <2>3. QED
    BY <2>1, <2>2, <1>h DEF Accounts
<1>9. CASE Fails(t)
  <2>1. Done(t)' = Done(t)
    BY <1>9, <1>h DEF Fails, Records, Done
  <2>2. GivenUp(t)'
    BY <1>9, <1>k, BlockedAndFailedStatus DEF Fails, GivenUp
  <2>3. claims[t] = MaxAttempts
    BY <1>9, <1>i, <1>e, <1>k DEF Fails, Ends, Exhausted, Rows
  <2>4. GivenUp(t)' = TRUE /\ Queued(t)' = FALSE
    BY <2>2, <1>e, <1>9 DEF Fails, GivenUp, Queued
  <2>5. NextJob(t) = <<enqueues[t], Done(t), TRUE, FALSE, NoWorker, claims[t]>>
    BY <2>1, <2>4, <1>e, <1>9 DEF Fails, NextJob
  <2>6. Work!GiveUp(t)
    BY <2>3, <2>5, <1>e, <1>9, StepsOfWork DEF Fails
  <2>7. QED
    BY <2>6 DEF Refined
<1>c. ASSUME NEW base \in TaskRecords(Artifacts), NEW target \in Statuses,
             NEW actor \in Roles, Continues(t, base, target, actor)
      PROVE  ~GivenUp(t) /\ ~GivenUp(t)'
  BY <1>c, ContinuesLive DEF GivenUp, Terminal
<1>f. ASSUME Ends(t), ~GivenUp(t)', Done(t)' = Done(t) + 1
      PROVE  Refined(t)
  <2>1. GivenUp(t)' = GivenUp(t) /\ Queued(t)' = FALSE
    BY <1>f, <1>e DEF GivenUp, Queued
  <2>2. NextJob(t) = <<enqueues[t], Done(t) + 1, GivenUp(t), FALSE, NoWorker, claims[t]>>
    BY <2>1, <1>f, <1>e DEF NextJob
  <2>3. Work!Finish(t)
    BY <2>2, <1>f, <1>e, StepsOfWork
  <2>4. QED
    BY <2>3 DEF Refined
<1>10. CASE Cancels(t)
  <2>1. ~GivenUp(t)'
    BY <1>10, <1>c, <1>k DEF Cancels, Statuses, Roles
  <2>2. Cancellations(t)' = Cancellations(t) \cup {Len(log[t]) + 1}
    BY <1>10, CancellationsAdded DEF Cancels, WorkInv
  <2>3. Done(t)' = Done(t) + 1
    <3>1. Recorded(t)' = Recorded(t)
      BY <1>10 DEF Cancels, Records
    <3>2. /\ Cardinality(Recorded(t)) \in Nat /\ Cardinality(Cancellations(t)) \in Nat
          /\ Cardinality(Cancellations(t)') = Cardinality(Cancellations(t)) + 1
      BY <2>2, EvidenceCounts
    <3>3. QED
      BY <3>1, <3>2 DEF Done
  <2>4. QED
    BY <2>1, <2>3, <1>10, <1>f DEF Cancels
<1>11. ASSUME NEW target \in Statuses, NEW actor \in Roles, Transits(t, target, actor)
       PROVE  Refined(t)
  <2>1. ~GivenUp(t) /\ ~GivenUp(t)'
    BY <1>11, <1>c, <1>k DEF Transits
  <2>2. Cancellations(t)' = Cancellations(t)
    BY <1>11, <1>h DEF Transits
  <2>3. Done(t)' = Done(t)
    BY <2>2, <1>11 DEF Transits, Records, Done
  <2>4. GivenUp(t)' = GivenUp(t)
    BY <2>1 DEF GivenUp
  <2>5. QED
    BY <2>3, <2>4, <1>3, <1>11 DEF Transits, Refined
<1>12. ASSUME NEW r \in ResultIds, NEW base \in TaskRecords(Artifacts), NEW target \in Statuses,
              NEW role \in Roles, Publishes(t, r, base, target, role)
       PROVE  Refined(t)
  <2>1. ~GivenUp(t)'
    BY <1>12, <1>c DEF Publishes
  <2>2. Cancellations(t)' = Cancellations(t)
    BY <1>12, PublicationCancelsNothing DEF WorkInv
  <2>3. r \notin Recorded(t) /\ Recorded(t)' = Recorded(t) \cup {r}
    BY <1>12, RecordedAdded DEF WorkInv
  <2>4. Done(t)' = Done(t) + 1
    <3>1. /\ Cardinality(Recorded(t)) \in Nat /\ Cardinality(Cancellations(t)) \in Nat
          /\ Cardinality(Recorded(t)') = Cardinality(Recorded(t)) + 1
      BY <2>3, EvidenceCounts
    <3>2. QED
      BY <2>2, <3>1 DEF Done
  <2>5. QED
    BY <2>1, <2>4, <1>12, <1>f DEF Publishes
<1>13. Moves(t)
  BY StepMoves DEF WorkInv, Core
<1>14. QED
  BY <1>4, <1>5, <1>6, <1>7, <1>8, <1>9, <1>10, <1>11, <1>12, <1>13 DEF Moves, MovesOn

(* The invariant of the refinement is kept.                                 *)
LEMMA WorkInvStep ==
  ASSUME WorkInv, [Next]_vars
  PROVE  WorkInv'
<1>1. Core'
  BY CoreStep DEF WorkInv
<1>2. ASSUME NEW t \in Tasks
      PROVE  /\ queue'[t].state = "LEASED" => queue'[t].worker \in Workers
             /\ queue'[t].state = "READY" => queue'[t].worker = NoWorker
             /\ IsFiniteSet(Recorded(t)')
  <2>i. /\ queue[t].state = "LEASED" => queue[t].worker \in Workers
        /\ queue[t].state = "READY" => queue[t].worker = NoWorker
        /\ IsFiniteSet(Recorded(t))
    BY DEF WorkInv, WorkersMatch, RecordsAreFinite
  <2>1. \/ Records(t)
        \/ \E r \in ResultIds, base \in TaskRecords(Artifacts), target \in Statuses,
              role \in Roles : Publishes(t, r, base, target, role)
    BY StepMoves DEF WorkInv, Core, Moves, MovesOn, Stays, Notes, Queues, Starts, Retries,
                     Fails, Rests, Cancels, Transits
  <2>2. IsFiniteSet(Recorded(t)')
    <3>1. CASE Records(t)
      BY <3>1, <2>i DEF Records
    <3>2. ASSUME NEW r \in ResultIds, NEW base \in TaskRecords(Artifacts),
                 NEW target \in Statuses, NEW role \in Roles,
                 Publishes(t, r, base, target, role)
          PROVE  IsFiniteSet(Recorded(t)')
      <4>1. r \notin Recorded(t) /\ Recorded(t)' = Recorded(t) \cup {r}
        BY <3>2, RecordedAdded DEF WorkInv
      <4>2. QED
        BY <4>1, EvidenceCounts
    <3>3. QED
      BY <2>1, <3>1, <3>2
  <2>3. /\ queue'[t].state = "LEASED" => queue'[t].worker \in Workers
        /\ queue'[t].state = "READY" => queue'[t].worker = NoWorker
    <3>1. \/ JobOf(t)' = JobOf(t) \/ Queues(t) \/ Starts(t) \/ Retries(t) \/ Ends(t)
      BY StepMoves DEF WorkInv, Core, Moves, MovesOn, Stays, Notes, Fails, Cancels, Transits,
                       Publishes
    <3>2. QED
      BY <3>1, <2>i DEF JobOf, Queues, Starts, Retries, Ends
  <2>4. QED
    BY <2>2, <2>3
<1>3. QED
  BY <1>1, <1>2 DEF WorkInv, WorkersMatch, RecordsAreFinite

(* What intake leaves is a piece of work offered for each task.             *)
LEMMA WorkBegins == Init => Work!Init
<1> SUFFICES ASSUME Init PROVE Work!Init
  OBVIOUS
<1>1. ASSUME NEW t \in Tasks
      PROVE  /\ enqueues[t] = 1 /\ claims[t] = 0 /\ Done(t) = 0
             /\ ~GivenUp(t) /\ Queued(t) /\ Holder(t) = NoWorker
  <2> DEFINE e == Entry("TASK_RECEIVED", NewTask(Risk[t], Governed[t]))
  <2>1. log[t] = <<e>> /\ e.kind # "TASK_BLOCKED"
    BY DEF Init, Entry
  <2> HIDE DEF e
  <2>2. Len(log[t]) = 1 /\ log[t][1] = e
    BY <2>1
  <2>3. Recorded(t) = {} /\ Cancellations(t) = {}
    BY <2>1, <2>2 DEF Init, Recorded, Cancellations
  <2>4. Done(t) = 0
    BY <2>3, FS_EmptySet DEF Done
  <2>5. QED
    BY <2>4 DEF Init, NewTask, FreshRow, Unleased, GivenUp, Queued, Holder
<1>2. QED
  BY <1>1 DEF Work!Init, Init, Done, GivenUp, Queued, Holder

(* The invariant behind the refinement holds in every state.                *)
THEOREM AlwaysWorkInv == Spec => []WorkInv
<1>1. Init => WorkInv
  <2>1. ASSUME Init, NEW t \in Tasks
        PROVE  /\ Recorded(t) = {} /\ queue[t].state # "LEASED"
               /\ queue[t].worker = NoWorker
    BY <2>1 DEF Init, Recorded, FreshRow, Unleased
  <2>2. QED
    BY <2>1, InitCore, FS_EmptySet DEF WorkInv, WorkersMatch, RecordsAreFinite
<1>2. QED
  BY <1>1, WorkInvStep, PTL DEF Spec

(* The ledger keeps the promise of WorkPromise: each piece of work enqueued *)
(* is held by one worker at a time and ends once, by a result, by a         *)
(* cancellation, or by the failure of its task after its last attempt.      *)
THEOREM LedgerKeepsWorkPromise == Spec => KeepsWorkPromise
<1>1. WorkInv /\ [Next]_vars => [Work!Next]_(Work!workVars)
  BY WorkMoves DEF Refined, Work!Next
<1>2. QED
  BY <1>1, WorkBegins, AlwaysWorkInv, PTL DEF Spec, KeepsWorkPromise, Work!Spec

(* Every step of its work keeps a task's account.                           *)
Account(t) ==
  enqueues[t] = Done(t) + (IF GivenUp(t) THEN 1 ELSE 0) + (IF Queued(t) THEN 1 ELSE 0)

LEMMA AccountStep ==
  ASSUME WorkInv, [Next]_vars, NEW t \in Tasks, Account(t)
  PROVE  Account(t)'
<1>d. Done(t) \in Nat /\ enqueues[t] \in Nat
  <2>1. Cardinality(Recorded(t)) \in Nat /\ Cardinality(Cancellations(t)) \in Nat
    BY EvidenceCounts
  <2>2. QED
    BY <2>1 DEF Done, WorkInv, Core, Coherent, Typed, TypeOK
<1>n. Work!Job(t)' = NextJob(t)
  BY NextJobOfTask DEF NextJob
<1>f. /\ [u \in Tasks |-> Done(u)][t] = Done(t)
      /\ [u \in Tasks |-> GivenUp(u)][t] = GivenUp(t)
      /\ [u \in Tasks |-> Queued(u)][t] = Queued(t)
  OBVIOUS
<1>1. CASE UNCHANGED Work!Job(t)
  <2>1. /\ enqueues'[t] = enqueues[t] /\ Done(t)' = Done(t)
        /\ GivenUp(t)' = GivenUp(t) /\ Queued(t)' = Queued(t)
    BY <1>1, JobOfTask, NextJobOfTask
  <2>2. QED
    BY <2>1 DEF Account
<1>2. CASE Work!Offer(t)
  <2>1. ~Queued(t) /\ ~GivenUp(t) /\ NextJob(t) = <<enqueues[t] + 1, Done(t), FALSE, TRUE, NoWorker, 0>>
    BY <1>2, <1>n, <1>f DEF Work!Offer, Done, GivenUp, Queued
  <2>2. /\ ~Queued(t) /\ ~GivenUp(t) /\ enqueues'[t] = enqueues[t] + 1 /\ Done(t)' = Done(t)
        /\ GivenUp(t)' = FALSE /\ Queued(t)' = TRUE
    BY <2>1 DEF NextJob
  <2>3. QED
    BY <2>2, <1>d DEF Account
<1>o. ASSUME Queued(t), NEW w, NEW n,
             NextJob(t) = <<enqueues[t], Done(t), GivenUp(t), TRUE, w, n>>
      PROVE  Account(t)'
  <2>1. /\ enqueues'[t] = enqueues[t] /\ Done(t)' = Done(t)
        /\ GivenUp(t)' = GivenUp(t) /\ Queued(t)' = TRUE
    BY <1>o DEF NextJob
  <2>2. QED
    BY <2>1, <1>o, <1>d DEF Account
<1>3. CASE Work!LetGo(t)
  <2>1. Queued(t) /\ NextJob(t) = <<enqueues[t], Done(t), GivenUp(t), TRUE, NoWorker, claims[t]>>
    BY <1>3, <1>n, <1>f DEF Work!LetGo, Done, GivenUp, Queued
  <2>2. QED
    BY <2>1, <1>o
<1>t. CASE Work!Take(t)
  <2>1. PICK w \in Workers : Queued(t) /\ NextJob(t) = <<enqueues[t], Done(t), GivenUp(t),
                                                        TRUE, w, claims[t] + 1>>
    BY <1>t, <1>n, <1>f DEF Work!Take, Done, GivenUp, Queued
  <2>2. QED
    BY <2>1, <1>o
<1>4. CASE Work!Finish(t)
  <2>1. Queued(t) /\ NextJob(t) = <<enqueues[t], Done(t) + 1, GivenUp(t), FALSE, NoWorker, claims[t]>>
    BY <1>4, <1>n, <1>f DEF Work!Finish, Done, GivenUp, Queued
  <2>2. /\ Queued(t) /\ enqueues'[t] = enqueues[t] /\ Done(t)' = Done(t) + 1
        /\ GivenUp(t)' = GivenUp(t) /\ Queued(t)' = FALSE
    BY <2>1 DEF NextJob
  <2>3. QED
    BY <2>2, <1>d DEF Account
<1>5. CASE Work!GiveUp(t)
  <2>1. Queued(t) /\ ~GivenUp(t) /\ NextJob(t) = <<enqueues[t], Done(t), TRUE, FALSE, NoWorker, claims[t]>>
    BY <1>5, <1>n, <1>f DEF Work!GiveUp, Done, GivenUp, Queued
  <2>2. /\ Queued(t) /\ ~GivenUp(t) /\ enqueues'[t] = enqueues[t] /\ Done(t)' = Done(t)
        /\ GivenUp(t)' = TRUE /\ Queued(t)' = FALSE
    BY <2>1 DEF NextJob
  <2>3. QED
    BY <2>2, <1>d DEF Account
<1>6. QED
  BY <1>1, <1>2, <1>t, <1>3, <1>4, <1>5, WorkMoves DEF Refined

(* So the work of every task adds up: what was enqueued has ended in a      *)
(* result, a cancellation or a failure, or is still queued.                 *)
THEOREM WorkAlwaysBalances == Spec => []Work!Balanced
<1> DEFINE Balances == \A t \in Tasks : Account(t)
<1>1. Balances <=> Work!Balanced
  BY DEF Account, Work!Balanced, Done, GivenUp, Queued
<1>2. Work!Init => Balances
  <2> SUFFICES ASSUME Work!Init, NEW t \in Tasks PROVE Account(t)
    OBVIOUS
  <2>1. /\ [u \in Tasks |-> Done(u)][t] = Done(t)
        /\ [u \in Tasks |-> GivenUp(u)][t] = GivenUp(t)
        /\ [u \in Tasks |-> Queued(u)][t] = Queued(t)
    OBVIOUS
  <2>2. enqueues[t] = 1 /\ Done(t) = 0 /\ GivenUp(t) = FALSE /\ Queued(t) = TRUE
    BY <2>1 DEF Work!Init, Done, GivenUp, Queued
  <2>3. QED
    BY <2>2 DEF Account
<1>3. WorkInv /\ Balances /\ [Next]_vars => Balances'
  BY AccountStep
<1>4. QED
  BY <1>1, <1>2, <1>3, AlwaysWorkInv, WorkBegins, PTL DEF Spec

------------------------------------------------------------------------------
(* The in-memory queue does as the table does on a sound row whose worker   *)
(* says whether it is leased.                                               *)
LEMMA SoundRowsAreAlike ==
  ASSUME NEW row \in Rows, Sound(row),
         row.state = "LEASED" => row.worker \in Workers,
         row.state = "READY" => row.worker = NoWorker
  PROVE  Alike(row)
<1> DEFINE r == AsRecord(row)
<1>k. NoWorker \notin Workers /\ MaxAttempts \in Nat \ {0} /\ row.attempt \in 0..MaxAttempts
  BY QueueAssumption DEF Rows
<1>1. CASE row.state = "ABSENT"
  BY <1>1 DEF Alike, AsRecord, NoRecord, Record, Claimable, MemoryClaimable, Expired,
              MemoryExpired, OwnedBy, MemoryOwned, FreshRow, Unleased, MemoryEnqueued
<1>2. CASE row.state = "READY"
  BY <1>2, <1>k DEF Sound, Alike, AsRecord, Record, Claimable, MemoryClaimable, ClaimedBy,
                    MemoryClaimed, Expired, MemoryExpired, OwnedBy, MemoryOwned, FreshRow,
                    Unleased, MemoryEnqueued
<1>3. CASE row.state = "LEASED"
  <2> SUFFICES ASSUME NEW lag \in 0..MaxLag
      PROVE  /\ AsRecord(FreshRow(lag)) = MemoryEnqueued(lag)
             /\ Claimable(row, lag) <=> MemoryClaimable(r, lag)
             /\ Expired(row, lag) <=> MemoryExpired(r, lag)
             /\ AsRecord(AfterExpiry(row, lag)) = MemoryRecovered(r, lag)
             /\ AsRecord(AfterFailure(row, lag)) = MemoryFailed(r, lag)
             /\ AsRecord(Extended(row, lag)) = MemoryExtended(r, lag)
             /\ \A w \in Workers : OwnedBy(row, w, lag) <=> MemoryOwned(r, w, lag)
             /\ ~Claimable(row, lag)
    BY DEF Alike
  <2>1. r = Record(row.worker, row.attempt, row.due, row.lease) /\ row.worker # NoWorker
    BY <1>3, <1>k DEF AsRecord
  <2>2. /\ ~Claimable(row, lag) /\ ~MemoryClaimable(r, lag)
        /\ Expired(row, lag) <=> MemoryExpired(r, lag)
        /\ \A w \in Workers : OwnedBy(row, w, lag) <=> MemoryOwned(r, w, lag)
    BY <2>1, <1>3 DEF Record, Claimable, MemoryClaimable, Expired, MemoryExpired, OwnedBy,
                      MemoryOwned
  <2>3. AsRecord(FreshRow(lag)) = MemoryEnqueued(lag)
    BY DEF AsRecord, FreshRow, Unleased, MemoryEnqueued
  <2>a. r.worker = row.worker /\ r.attempt = row.attempt /\ r.due = row.due
    BY <2>1 DEF Record
  <2>b. \A due : AsRecord(Unleased("READY", row.attempt, due)) = Record(NoWorker, row.attempt, due, 0)
    BY DEF AsRecord, Unleased
  <2>c. AsRecord(NoRow) = NoRecord
    BY DEF AsRecord, NoRow, Unleased
  <2>4. AsRecord(Extended(row, lag)) = MemoryExtended(r, lag)
    <3>1. /\ Extended(row, lag).state = "LEASED"
          /\ Extended(row, lag).worker = row.worker
          /\ Extended(row, lag).attempt = row.attempt
          /\ Extended(row, lag).due = row.due
          /\ Extended(row, lag).lease = LeaseTicks - lag
      BY <1>3 DEF Extended, Rows
    <3>2. QED
      BY <2>a, <3>1 DEF AsRecord, MemoryExtended
  <2>5. AsRecord(AfterExpiry(row, lag)) = MemoryRecovered(r, lag)
    <3>1. CASE Exhausted(row)
      BY <3>1, <2>a, <2>c DEF AfterExpiry, MemoryRecovered, Exhausted
    <3>2. CASE ~Exhausted(row)
      BY <3>2, <2>a, <2>b DEF AfterExpiry, MemoryRecovered, Exhausted
    <3>3. QED
      BY <3>1, <3>2
  <2>6. AsRecord(AfterFailure(row, lag)) = MemoryFailed(r, lag)
    <3>1. CASE Exhausted(row)
      BY <3>1, <2>a, <2>c DEF AfterFailure, MemoryFailed, Exhausted
    <3>2. CASE ~Exhausted(row)
      BY <3>2, <2>a, <2>b DEF AfterFailure, MemoryFailed, Exhausted
    <3>3. QED
      BY <3>1, <3>2
  <2>7. QED
    BY <2>2, <2>3, <2>4, <2>5, <2>6
<1>4. QED
  BY <1>1, <1>2, <1>3 DEF Rows

(* In-memory queue and table agree on every row that the services ever make *)
(* of any number of tasks, workers and attempts.                            *)
THEOREM AdaptersAlwaysAgree == Spec => []AdaptersAgree
<1>1. WorkInv => AdaptersAgree
  BY SoundRowsAreAlike, RowsAreSound DEF WorkInv, Core, Coherent, Typed, WorkersMatch, AdaptersAgree
<1>2. QED
  BY <1>1, AlwaysWorkInv, PTL

------------------------------------------------------------------------------
(* Time without a bound.  Time passes in TaskLedger as if instants more     *)
(* than MaxLag ticks ago were one and the same (QueueRules).  Here they are *)
(* all told apart, as the timestamps of the table are, and nothing the      *)
(* services do differs.                                                     *)
AgedExactly(row) ==
  CASE row.state = "READY"  -> [row EXCEPT !.due = @ - 1]
    [] row.state = "LEASED" -> [row EXCEPT !.lease = @ - 1]
    [] OTHER                -> row

ExactTick ==
  /\ \A c \in Callers : InFlight(c) => seen[c].lag < MaxLag
  /\ queue' = [t \in Tasks |-> AgedExactly(queue[t])]
  /\ seen' = [c \in Callers |->
                IF InFlight(c) THEN [seen[c] EXCEPT !.lag = @ + 1] ELSE Idle]
  /\ UNCHANGED <<task, log, results, fuse, history>>

ExactNext ==
  \/ \E c \in Callers : Begin(c) \/ Abort(c) \/ Commit(c)
  \/ \E t \in Tasks : Enqueue(t)
  \/ EngageFuse \/ ReleaseFuse
  \/ ExactTick

ExactSpec == Init /\ [][ExactNext]_vars

(* What TaskLedger tells of such a row, and of the table.                   *)
Clamped(n) == IF n < -MaxLag THEN -MaxLag ELSE n
ClampedRow(row) ==
  [state |-> row.state, attempt |-> row.attempt, worker |-> row.worker,
   due |-> Clamped(row.due), lease |-> Clamped(row.lease)]
Shown == [t \in Tasks |-> ClampedRow(queue[t])]

Bounded == INSTANCE TaskLedger WITH queue <- Shown

(* No caller can tell the two rows apart.                                   *)
LEMMA ClampedLooksAlike ==
  ASSUME NEW row \in Rows, NEW lag \in 0..MaxLag
  PROVE  /\ Claimable(ClampedRow(row), lag) <=> Claimable(row, lag)
         /\ Expired(ClampedRow(row), lag) <=> Expired(row, lag)
         /\ Exhausted(ClampedRow(row)) <=> Exhausted(row)
         /\ ClampedRow(row).state = row.state
         /\ \A w : OwnedBy(ClampedRow(row), w, lag) <=> OwnedBy(row, w, lag)
<1>1. /\ MaxLag \in Nat /\ lag \in Nat /\ lag <= MaxLag
      /\ row.due \in Int /\ row.lease \in Int /\ row.attempt \in Int
  BY QueueAssumption DEF Rows
<1>2. /\ ClampedRow(row).state = row.state /\ ClampedRow(row).worker = row.worker
      /\ ClampedRow(row).attempt = row.attempt
      /\ ClampedRow(row).due = Clamped(row.due) /\ ClampedRow(row).lease = Clamped(row.lease)
  BY DEF ClampedRow, Rows
<1>3. \A n \in Int : Clamped(n) + lag <= 0 <=> n + lag <= 0
  BY <1>1 DEF Clamped
<1>4. \A n \in Int : Clamped(n) + lag > 0 <=> n + lag > 0
  BY <1>1 DEF Clamped
<1>5. QED
  BY <1>1, <1>2, <1>3, <1>4 DEF Claimable, Expired, Exhausted, OwnedBy

(* And whatever is done to the one, is what is done to the other.           *)
LEMMA ClampingCommutes ==
  ASSUME NEW row \in Rows, Sound(row), NEW lag \in 0..MaxLag
  PROVE  /\ ClampedRow(NoRow) = NoRow /\ ClampedRow(FreshRow(lag)) = FreshRow(lag)
         /\ \A w \in Workers :
              ClampedRow(ClaimedBy(row, w, lag)) = ClaimedBy(ClampedRow(row), w, lag)
         /\ ClampedRow(Extended(row, lag)) = Extended(ClampedRow(row), lag)
         /\ row.state = "LEASED" =>
              ClampedRow(AfterFailure(row, lag)) = AfterFailure(ClampedRow(row), lag)
         /\ ClampedRow(AfterExpiry(row, lag)) = AfterExpiry(ClampedRow(row), lag)
         /\ ClampedRow(AgedExactly(row)) = Aged(ClampedRow(row))
<1>1. /\ MaxLag \in Nat /\ lag \in Nat /\ lag <= MaxLag /\ LeaseTicks \in Nat
      /\ row.due \in Int /\ row.lease \in Int /\ row.attempt \in Int /\ MaxAttempts \in Nat
  BY QueueAssumption DEF Rows
<1>2. /\ ClampedRow(row).state = row.state /\ ClampedRow(row).worker = row.worker
      /\ ClampedRow(row).attempt = row.attempt
      /\ ClampedRow(row).due = Clamped(row.due) /\ ClampedRow(row).lease = Clamped(row.lease)
  BY DEF ClampedRow, Rows
<1>3. \A n \in Int : n >= -lag => Clamped(n) = n
  BY <1>1 DEF Clamped
<1>4. \A n \in Int : Clamped(n - 1) = OneTickLess(Clamped(n)) /\ Clamped(n) \in Int
  BY <1>1 DEF Clamped, OneTickLess
<1>5. \A state, attempt : \A due \in Int :
        due >= -lag => ClampedRow(Unleased(state, attempt, due)) = Unleased(state, attempt, due)
  BY <1>1, <1>3 DEF ClampedRow, Unleased
<1>6. ClampedRow(NoRow) = NoRow /\ ClampedRow(FreshRow(lag)) = FreshRow(lag)
  BY <1>1, <1>5 DEF NoRow, FreshRow
<1>7. ASSUME NEW w \in Workers
      PROVE  ClampedRow(ClaimedBy(row, w, lag)) = ClaimedBy(ClampedRow(row), w, lag)
  <2>1. Clamped(LeaseTicks - lag) = LeaseTicks - lag /\ Clamped(0) = 0
    BY <1>1, <1>3
  <2>2. QED
    BY <2>1 DEF ClampedRow, ClaimedBy
<1>8. ClampedRow(Extended(row, lag)) = Extended(ClampedRow(row), lag)
  <2>1. \A r \in Rows : Extended(r, lag) =
          [state |-> r.state, attempt |-> r.attempt, worker |-> r.worker,
           due |-> r.due, lease |-> LeaseTicks - lag]
    BY DEF Extended, Rows
  <2>2. ClampedRow(row) \in Rows
    BY <1>4 DEF ClampedRow, Rows
  <2>3. Clamped(LeaseTicks - lag) = LeaseTicks - lag
    BY <1>1, <1>3
  <2>4. QED
    BY <2>1, <2>2, <2>3 DEF ClampedRow
<1>9. ASSUME row.state = "LEASED"
      PROVE  ClampedRow(AfterFailure(row, lag)) = AfterFailure(ClampedRow(row), lag)
  <2>1. Delay(row.attempt) \in Nat
    BY <1>9, DelayAssumption DEF Sound
  <2>2. QED
    BY <2>1, <1>1, <1>2, <1>5, <1>6 DEF AfterFailure, Exhausted
<1>10. ClampedRow(AfterExpiry(row, lag)) = AfterExpiry(ClampedRow(row), lag)
  BY <1>1, <1>2, <1>5, <1>6 DEF AfterExpiry, Exhausted
<1>11. ClampedRow(AgedExactly(row)) = Aged(ClampedRow(row))
  BY <1>1, <1>4 DEF ClampedRow, AgedExactly, Aged, Rows
<1>12. QED
  BY <1>6, <1>7, <1>8, <1>9, <1>10, <1>11

(* The operations themselves are the same there and here.                   *)
LEMMA SameTaskOperations ==
  /\ \A t : /\ Bounded!CanBlock(t) <=> CanBlock(t)
            /\ Bounded!Blocked(t) = Blocked(t) /\ Bounded!Failed(t) = Failed(t)
            /\ \A actor : Bounded!CanFail(t, actor) <=> CanFail(t, actor)
            /\ \A a : Bounded!Attached(t, a) = Attached(t, a)
            /\ \A target : Bounded!Transitioned(t, target) = Transitioned(t, target)
            /\ \A target, actor :
                 Bounded!CanTransition(t, target, actor) <=> CanTransition(t, target, actor)
  /\ Bounded!GovernedTargets = GovernedTargets /\ Bounded!Terminal = Terminal
  /\ Bounded!Roles = Roles /\ Bounded!Statuses = Statuses
  /\ Bounded!WorkerRoles = WorkerRoles
BY DEF Bounded!CanBlock, CanBlock, Bounded!Blocked, Blocked, Bounded!Failed, Failed,
       Bounded!CanFail, CanFail, Bounded!Attached, Attached, Bounded!Transitioned,
       Transitioned, Bounded!CanTransition, CanTransition, Bounded!GovernedTargets,
       GovernedTargets, Bounded!Terminal, Terminal, Bounded!Roles, Roles,
       Bounded!Statuses, Statuses, Bounded!WorkerRoles, WorkerRoles, Bounded!Moved, Moved,
       Bounded!ProposesR3, ProposesR3, Bounded!ImplementsR3, ImplementsR3,
       Bounded!Stages, Stages

LEMMA SameRowOperations ==
  /\ Bounded!NoRow = NoRow /\ \A lag : Bounded!FreshRow(lag) = FreshRow(lag)
  /\ \A row : /\ Bounded!Exhausted(row) <=> Exhausted(row)
              /\ Bounded!Aged(row) = Aged(row)
  /\ \A row, lag : /\ Bounded!Claimable(row, lag) <=> Claimable(row, lag)
                   /\ Bounded!Expired(row, lag) <=> Expired(row, lag)
                   /\ Bounded!Extended(row, lag) = Extended(row, lag)
                   /\ Bounded!AfterFailure(row, lag) = AfterFailure(row, lag)
                   /\ Bounded!AfterExpiry(row, lag) = AfterExpiry(row, lag)
  /\ \A row, w, lag : /\ Bounded!OwnedBy(row, w, lag) <=> OwnedBy(row, w, lag)
                      /\ Bounded!ClaimedBy(row, w, lag) = ClaimedBy(row, w, lag)
BY DEF Bounded!NoRow, NoRow, Bounded!FreshRow, FreshRow, Bounded!Unleased, Unleased,
       Bounded!Exhausted, Exhausted, Bounded!Aged, Aged, Bounded!OneTickLess, OneTickLess,
       Bounded!Claimable, Claimable, Bounded!Expired, Expired, Bounded!Extended, Extended,
       Bounded!AfterFailure, AfterFailure, Bounded!Delay, Delay, Bounded!AfterExpiry,
       AfterExpiry, Bounded!OwnedBy, OwnedBy, Bounded!ClaimedBy, ClaimedBy

LEMMA SameWrites ==
  /\ \A t, n : Bounded!HasRoom(t, n) <=> HasRoom(t, n)
  /\ \A c : /\ Bounded!InFlight(c) <=> InFlight(c)
            /\ Bounded!Close(c) <=> Close(c)
  /\ \A t, read, updated : Bounded!UpdateTask(t, read, updated) <=> UpdateTask(t, read, updated)
  /\ \A t, entries, expected :
       Bounded!AppendEvents(t, entries, expected) <=> AppendEvents(t, entries, expected)
  /\ \A c, r, result : Bounded!RecordResult(c, r, result) <=> RecordResult(c, r, result)
  /\ \A kind, t : Bounded!Entry(kind, t) = Entry(kind, t)
  /\ \A t, r : Bounded!ResultEntry(t, r) = ResultEntry(t, r)
  /\ Bounded!NoResult = NoResult /\ Bounded!Idle = Idle
BY DEF Bounded!HasRoom, HasRoom, Bounded!InFlight, InFlight, Bounded!Close, Close,
       Bounded!UpdateTask, UpdateTask, Bounded!AppendEvents, AppendEvents,
       Bounded!RecordResult, RecordResult, Bounded!Entry, Entry, Bounded!ResultEntry,
       ResultEntry, Bounded!NoResult, NoResult, Bounded!Idle, Idle

LEMMA SameCounts == \A S : Bounded!Cardinality(S) = Cardinality(S)
BY DEF Bounded!Cardinality, Cardinality

LEMMA SameAppends ==
  /\ \A t, kind : Bounded!OnRecord(t, kind) <=> OnRecord(t, kind)
  /\ \A t, updated : Bounded!Untold(t, updated) = Untold(t, updated)
  /\ \A t, kind, updated, expected :
       Bounded!AppendGiven(t, kind, updated, expected) <=> AppendGiven(t, kind, updated, expected)
<1>1. \A t, kind : Bounded!OnRecord(t, kind) <=> OnRecord(t, kind)
  BY DEF Bounded!OnRecord, OnRecord
<1>2. \A t, updated : Bounded!Untold(t, updated) = Untold(t, updated)
  BY DEF Bounded!Untold, Untold, Bounded!Moment, Moment
<1>3. ASSUME NEW t, NEW kind, NEW updated, NEW expected
      PROVE  Bounded!AppendGiven(t, kind, updated, expected)
               <=> AppendGiven(t, kind, updated, expected)
  <2>1. /\ Bounded!HasRoom(t, 1) <=> HasRoom(t, 1)
        /\ Bounded!Entry(kind, updated) = Entry(kind, updated)
        /\ \A entries : Bounded!AppendEvents(t, entries, expected)
                          <=> AppendEvents(t, entries, expected)
    BY SameWrites
  <2>2. QED
    BY <1>1, <1>2, <2>1, SameCounts, Zenon DEF Bounded!AppendGiven, AppendGiven
<1>4. QED
  BY <1>1, <1>2, <1>3

(* A write to a row shows as the same write.                                *)
LEMMA ShownWrite ==
  ASSUME Typed, NEW t \in Tasks, NEW row, queue' = [queue EXCEPT ![t] = row]
  PROVE  Shown' = [Shown EXCEPT ![t] = ClampedRow(row)]
<1>1. \A u \in Tasks : queue'[u] = IF u = t THEN row ELSE queue[u]
  BY DEF Typed, TypeOK
<1>2. Shown' = [u \in Tasks |-> ClampedRow(queue'[u])]
  BY DEF Shown, ClampedRow
<1>3. [Shown EXCEPT ![t] = ClampedRow(row)]
        = [u \in Tasks |-> IF u = t THEN ClampedRow(row) ELSE ClampedRow(queue[u])]
  BY DEF Shown
<1>4. QED
  BY <1>1, <1>2, <1>3

(* Every commit is the same commit of what is shown.                        *)
LEMMA BoundedCommit ==
  ASSUME Typed, NEW c \in Callers, Commit(c)
  PROVE  Bounded!Commit(c)
<1> USE SameTaskOperations, SameRowOperations, SameWrites, SameAppends
<1>c. InFlight(c) /\ seen[c].lag \in 0..MaxLag
  BY SnapshotType DEF Commit, Typed
<1>q. \A t \in Tasks : /\ queue[t] \in Rows /\ Sound(queue[t])
                       /\ Shown[t] = ClampedRow(queue[t])
  BY RowsAreSound DEF Typed, Shown
<1>u. queue' = queue => Shown' = Shown
  BY DEF Shown
<1>o. ASSUME NEW t \in Tasks, NEW w \in Workers, CompleteRow(t, w, seen[c].lag)
      PROVE  Bounded!CompleteRow(t, w, seen[c].lag)
  <2>1. Shown' = [Shown EXCEPT ![t] = ClampedRow(NoRow)] /\ ClampedRow(NoRow) = NoRow
    BY <1>c, <1>q, <1>o, ShownWrite, ClampingCommutes DEF CompleteRow
  <2>2. OwnedBy(Shown[t], w, seen[c].lag)
    BY <1>c, <1>q, <1>o, ClampedLooksAlike DEF CompleteRow
  <2>3. QED
    BY <2>1, <2>2 DEF Bounded!CompleteRow
<1>1. ASSUME NEW t \in Tasks, NEW target \in Statuses, NEW actor \in Roles,
             NEW authorized \in BOOLEAN, TransitionTask(c, t, target, actor, authorized)
      PROVE  Bounded!TransitionTask(c, t, target, actor, authorized)
  BY <1>1, <1>u DEF TransitionTask, Bounded!TransitionTask
<1>2. ASSUME NEW t \in Tasks, NEW w \in Workers, NEW r \in ResultIds,
             NEW role \in WorkerRoles, NEW target \in Statuses, NEW a \in Artifacts,
             HasSession(t, role), PublishResult(c, r, t, w, role, target, a)
      PROVE  /\ Bounded!HasSession(t, role)
             /\ Bounded!PublishResult(c, r, t, w, role, target, a)
  BY <1>2, <1>o DEF PublishResult, Bounded!PublishResult, HasSession, Bounded!HasSession,
                    history, Bounded!history
<1>3. ASSUME NEW t \in Tasks, NEW w \in Workers, CancelExecution(c, t, w)
      PROVE  Bounded!CancelExecution(c, t, w)
  BY <1>3, <1>o DEF CancelExecution, Bounded!CancelExecution, history, Bounded!history
<1>4. ASSUME NEW t \in Tasks, NEW w \in Workers, Claim(c, w, t)
      PROVE  Bounded!Claim(c, w, t)
  <2>1. ASSUME NEW u \in Tasks, Bounded!Ahead(u, t)
        PROVE  Ahead(u, t)
    <3>a. \A row : ClampedRow(row).due = Clamped(row.due)
      BY DEF ClampedRow
    <3>1. Shown[t].due = Clamped(queue[t].due) /\ Shown[u].due = Clamped(queue[u].due)
      BY <3>a, <1>q
    <3>2. queue[t].due \in Int /\ queue[u].due \in Int /\ MaxLag \in Nat
      BY <1>q, QueueAssumption DEF Rows
    <3>3. Clamped(queue[u].due) < Clamped(queue[t].due) => queue[u].due < queue[t].due
      BY <3>2 DEF Clamped
    <3>4. QED
      BY <2>1, <3>1, <3>3 DEF Ahead, Bounded!Ahead
  <2>2. Claimable(queue[t], seen[c].lag)
    BY <1>4 DEF Claim
  <2>3. \A u \in Tasks :
          Bounded!Claimable(Shown[u], seen[c].lag) <=> Claimable(queue[u], seen[c].lag)
    BY <1>c, <1>q, ClampedLooksAlike
  <2>4. Shown' = [Shown EXCEPT ![t] = Bounded!ClaimedBy(@, w, seen[c].lag)]
    <3>1. queue' = [queue EXCEPT ![t] = ClaimedBy(queue[t], w, seen[c].lag)]
      BY <1>4 DEF Claim
    <3>2. Shown' = [Shown EXCEPT ![t] = ClampedRow(ClaimedBy(queue[t], w, seen[c].lag))]
      BY <3>1, ShownWrite
    <3>3. ClampedRow(ClaimedBy(queue[t], w, seen[c].lag)) = ClaimedBy(Shown[t], w, seen[c].lag)
      BY <1>c, <1>q, ClampingCommutes
    <3>4. QED
      BY <3>2, <3>3
  <2>5. QED
    BY <1>4, <2>1, <2>2, <2>3, <2>4 DEF Claim, Bounded!Claim
<1>5. ASSUME NEW t \in Tasks, NEW w \in Workers, Heartbeat(c, w, t)
      PROVE  Bounded!Heartbeat(c, w, t)
  <2>1. queue' = [queue EXCEPT ![t] = Extended(queue[t], seen[c].lag)]
    BY <1>5 DEF Heartbeat
  <2>2. Shown' = [Shown EXCEPT ![t] = ClampedRow(Extended(queue[t], seen[c].lag))]
    BY <2>1, ShownWrite
  <2>3. ClampedRow(Extended(queue[t], seen[c].lag)) = Extended(Shown[t], seen[c].lag)
    BY <1>c, <1>q, ClampingCommutes
  <2>4. OwnedBy(Shown[t], w, seen[c].lag)
    BY <1>5, <1>c, <1>q, ClampedLooksAlike DEF Heartbeat
  <2>5. QED
    BY <1>5, <2>2, <2>3, <2>4 DEF Heartbeat, Bounded!Heartbeat, history, Bounded!history
<1>6. ASSUME NEW t \in Tasks, NEW w \in Workers, FailAttempt(c, w, t)
      PROVE  Bounded!FailAttempt(c, w, t)
  <2>1. OwnedBy(queue[t], w, seen[c].lag)
        /\ queue' = [queue EXCEPT ![t] = AfterFailure(queue[t], seen[c].lag)]
    BY <1>6 DEF FailAttempt
  <2>2. Shown' = [Shown EXCEPT ![t] = ClampedRow(AfterFailure(queue[t], seen[c].lag))]
    BY <2>1, ShownWrite
  <2>3. ClampedRow(AfterFailure(queue[t], seen[c].lag)) = AfterFailure(Shown[t], seen[c].lag)
    BY <2>1, <1>c, <1>q, ClampingCommutes DEF OwnedBy
  <2>4. OwnedBy(Shown[t], w, seen[c].lag) /\ (Exhausted(Shown[t]) <=> Exhausted(queue[t]))
    BY <2>1, <1>c, <1>q, ClampedLooksAlike
  <2>5. QED
    BY <1>6, <2>2, <2>3, <2>4 DEF FailAttempt, Bounded!FailAttempt, history, Bounded!history
<1>7. ASSUME RecoverExpired(c)
      PROVE  Bounded!RecoverExpired(c)
  <2> DEFINE expired == {t \in Tasks : Expired(queue[t], seen[c].lag)}
             terminal == {t \in expired : Exhausted(queue[t])}
  <2>1. \A t \in Tasks :
          /\ Expired(Shown[t], seen[c].lag) <=> Expired(queue[t], seen[c].lag)
          /\ Exhausted(Shown[t]) <=> Exhausted(queue[t])
    BY <1>c, <1>q, ClampedLooksAlike
  <2>2. /\ {t \in Tasks : Bounded!Expired(Shown[t], seen[c].lag)} = expired
        /\ {t \in expired : Bounded!Exhausted(Shown[t])} = terminal
    BY <2>1
  <2>3. Shown' = [t \in Tasks |-> IF t \in expired
                                  THEN Bounded!AfterExpiry(Shown[t], seen[c].lag)
                                  ELSE Shown[t]]
    <3>1. \A t \in Tasks : ClampedRow(AfterExpiry(queue[t], seen[c].lag))
                             = AfterExpiry(Shown[t], seen[c].lag)
      BY <1>c, <1>q, ClampingCommutes
    <3>2. \A t \in Tasks : queue'[t] = IF t \in expired
                                       THEN AfterExpiry(queue[t], seen[c].lag)
                                       ELSE queue[t]
      BY <1>7, RecoveryWrites
    <3>3. QED
      BY <3>1, <3>2 DEF Shown
  <2>4. PICK again \in SUBSET {t \in terminal : OnRecord(t, "QUEUE_FAILED")} :
          /\ expired # {}
          /\ \A t \in terminal :
               /\ CanFail(task[t], "SYSTEM")
               /\ t \in again \/ Len(log[t]) = seen[c].sequence[t]
          /\ task' = [t \in Tasks |-> IF t \in terminal THEN Failed(task[t]) ELSE task[t]]
          /\ log' = [t \in Tasks |->
                       IF t \in terminal \ again
                       THEN Append(log[t], Entry("QUEUE_FAILED", Failed(task[t])))
                       ELSE log[t]]
          /\ untold' = [t \in Tasks |->
                          IF t \in again THEN Untold(t, Failed(task[t])) ELSE untold[t]]
          /\ \A t \in again : Cardinality(untold'[t]) <= MaxUntold
          /\ UNCHANGED <<results, fuse, granted, claims, enqueues>>
    BY <1>7, Zenon DEF RecoverExpired
  <2> DEFINE alike == {t \in Tasks : Bounded!Expired(Shown[t], seen[c].lag)}
             last == {t \in alike : Bounded!Exhausted(Shown[t])}
  <2>5. alike = expired /\ last = terminal
    BY <2>2
  <2> HIDE DEF expired, terminal, alike, last
  <2>6. \E given \in SUBSET {t \in last : Bounded!OnRecord(t, "QUEUE_FAILED")} :
          /\ alike # {}
          /\ \A t \in last :
               /\ Bounded!CanFail(task[t], "SYSTEM")
               /\ t \in given \/ Len(log[t]) = seen[c].sequence[t]
          /\ Shown' = [t \in Tasks |-> IF t \in alike
                                       THEN Bounded!AfterExpiry(Shown[t], seen[c].lag)
                                       ELSE Shown[t]]
          /\ task' = [t \in Tasks |-> IF t \in last THEN Bounded!Failed(task[t]) ELSE task[t]]
          /\ log' = [t \in Tasks |->
                       IF t \in last \ given
                       THEN Append(log[t], Bounded!Entry("QUEUE_FAILED", Bounded!Failed(task[t])))
                       ELSE log[t]]
          /\ untold' = [t \in Tasks |->
                          IF t \in given THEN Bounded!Untold(t, Bounded!Failed(task[t]))
                          ELSE untold[t]]
          /\ \A t \in given : Bounded!Cardinality(untold'[t]) <= MaxUntold
          /\ UNCHANGED <<results, fuse, granted, claims, enqueues>>
    BY <2>3, <2>4, <2>5, SameCounts
  <2>7. QED
    BY <2>6, Zenon DEF Bounded!RecoverExpired, alike, last
<1>8. ASSUME NEW t \in Tasks, RecordActivity(c, t)
      PROVE  Bounded!RecordActivity(c, t)
  BY <1>8, <1>u DEF RecordActivity, Bounded!RecordActivity, history, Bounded!history
<1>9. CASE CommitApart(c)
  <2>1. Bounded!CommitApart(c)
    BY <1>9, <1>1, <1>3, <1>4, <1>5, <1>6, <1>7 DEF CommitApart, Bounded!CommitApart
  <2>2. QED
    BY <2>1 DEF Commit, Bounded!Commit
<1>10. CASE ~CommitApart(c)
  BY <1>10, <1>2, <1>8 DEF Commit, Bounded!Commit
<1>11. QED
  BY <1>9, <1>10

(* With no bound on the ticks, the tables are as well formed.               *)
LEMMA ExactTypedStep ==
  ASSUME Typed, [ExactNext]_vars
  PROVE  Typed'
<1>1. CASE [Next]_vars
  BY <1>1, TypedStep
<1>2. CASE ExactTick
  <2>1. ASSUME NEW t \in Tasks
        PROVE  AgedExactly(queue[t]) \in Rows /\ Sound(AgedExactly(queue[t]))
    <3>1. queue[t] \in Rows /\ Sound(queue[t])
      BY RowsAreSound DEF Typed
    <3>2. QED
      BY <3>1 DEF AgedExactly, Rows, Sound
  <2>2. /\ queue' \in [Tasks -> Rows]
        /\ \A t \in Tasks : Sound(queue'[t])
    BY <2>1, <1>2 DEF ExactTick
  <2>3. ASSUME NEW c \in Callers
        PROVE  seen'[c] \in Snapshots \cup {Idle}
    <3>1. CASE InFlight(c)
      <4>1. seen[c] \in Snapshots /\ seen[c].lag \in 0..MaxLag /\ seen[c].lag < MaxLag
        BY <3>1, <1>2, SnapshotType DEF ExactTick, InFlight, Typed, TypeOK
      <4>2. seen[c].lag + 1 \in 0..MaxLag
        BY <4>1, QueueAssumption
      <4>3. [seen[c] EXCEPT !.lag = @ + 1] \in Snapshots
        BY <4>1, <4>2 DEF Snapshots
      <4>4. QED
        BY <4>3, <3>1, <1>2 DEF ExactTick
    <3>2. QED
      BY <3>1, <1>2 DEF ExactTick
  <2>4. seen' \in [Callers -> Snapshots \cup {Idle}]
    BY <2>3, <1>2 DEF ExactTick
  <2>5. QED
    BY <2>2, <2>4, <1>2 DEF ExactTick, history, Typed, TypeOK, SoundQueue
<1>3. QED
  BY <1>1, <1>2 DEF ExactNext, Next, Surroundings

(* Each step shows as a step of TaskLedger.                                 *)
LEMMA BoundedStep ==
  ASSUME Typed, [ExactNext]_vars
  PROVE  [Bounded!Next]_Bounded!vars
<1> USE SameTaskOperations, SameRowOperations, SameWrites, SameAppends
<1>q. \A t \in Tasks : /\ queue[t] \in Rows /\ Sound(queue[t])
                       /\ Shown[t] = ClampedRow(queue[t])
  BY RowsAreSound DEF Typed, Shown
<1>u. queue' = queue => Shown' = Shown
  BY DEF Shown
<1>z. 0 \in 0..MaxLag
  BY QueueAssumption
<1>1. ASSUME NEW c \in Callers, Begin(c) \/ Abort(c)
      PROVE  Bounded!Begin(c) \/ Bounded!Abort(c)
  BY <1>1, <1>u DEF Begin, Bounded!Begin, Abort, Bounded!Abort, db, Bounded!db, history,
                    Bounded!history
<1>2. ASSUME NEW t \in Tasks, Enqueue(t)
      PROVE  Bounded!Enqueue(t)
  <2>1. Shown' = [Shown EXCEPT ![t] = ClampedRow(FreshRow(0))]
    BY <1>2, ShownWrite DEF Enqueue
  <2>2. ClampedRow(FreshRow(0)) = FreshRow(0)
    BY <1>q, <1>z, ClampingCommutes
  <2>3. Shown[t].state = queue[t].state
    BY <1>q, <1>z, ClampedLooksAlike
  <2>4. QED
    BY <1>2, <2>1, <2>2, <2>3 DEF Enqueue, Bounded!Enqueue
<1>3. EngageFuse => Bounded!EngageFuse
  BY <1>u DEF EngageFuse, Bounded!EngageFuse, history, Bounded!history
<1>4. ReleaseFuse => Bounded!ReleaseFuse
  BY <1>u DEF ReleaseFuse, Bounded!ReleaseFuse, history, Bounded!history
<1>5. ASSUME ExactTick
      PROVE  Bounded!Tick
  <2>1. \A t \in Tasks : ClampedRow(AgedExactly(queue[t])) = Aged(Shown[t])
    BY <1>q, <1>z, ClampingCommutes
  <2>2. Shown' = [t \in Tasks |-> Aged(Shown[t])]
    <3>1. Shown' = [t \in Tasks |-> ClampedRow(queue'[t])]
      BY DEF Shown, ClampedRow
    <3>2. \A t \in Tasks : queue'[t] = AgedExactly(queue[t])
      BY <1>5 DEF ExactTick
    <3>3. QED
      BY <2>1, <3>1, <3>2
  <2>3. QED
    BY <1>5, <2>2 DEF ExactTick, Bounded!Tick, history, Bounded!history
<1>6. UNCHANGED vars => UNCHANGED Bounded!vars
  BY <1>u DEF vars, Bounded!vars, db, Bounded!db, history, Bounded!history
<1>7. QED
  BY <1>1, <1>2, <1>3, <1>4, <1>5, <1>6, BoundedCommit
  DEF ExactNext, Bounded!Next, Bounded!Surroundings

(* Nothing is lost by the bound on time that QueueRules states, whatever    *)
(* MaxLag is: a ledger whose timestamps differ without end is one of        *)
(* TaskLedger to whoever reads it, so that every property of TaskLedger     *)
(* that does not name an instant (claims, leases, expiry and recovery,      *)
(* postgres.py) is one of that ledger too.                                  *)
THEOREM BoundedClockIsSound == ExactSpec => Bounded!Spec
<1>1. Init => Bounded!Init
  <2> SUFFICES ASSUME Init PROVE Bounded!Init
    OBVIOUS
  <2>1. Typed
    BY InitTyped
  <2>2. \A t \in Tasks : ClampedRow(FreshRow(0)) = FreshRow(0)
    <3>1. \A t \in Tasks : queue[t] \in Rows /\ Sound(queue[t])
      BY <2>1, RowsAreSound DEF Typed
    <3>2. 0 \in 0..MaxLag
      BY QueueAssumption
    <3>3. QED
      BY <3>1, <3>2, ClampingCommutes
  <2>3. Shown = [t \in Tasks |-> FreshRow(0)]
    BY <2>2 DEF Init, Shown
  <2>4. \A risk, governed : Bounded!NewTask(risk, governed) = NewTask(risk, governed)
    BY DEF Bounded!NewTask, NewTask
  <2>5. QED
    BY <2>3, <2>4, SameRowOperations, SameWrites DEF Init, Bounded!Init
<1>2. QED
  BY <1>1, InitTyped, ExactTypedStep, BoundedStep, PTL DEF ExactSpec, Bounded!Spec
==============================================================================
