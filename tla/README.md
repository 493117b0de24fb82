# A TLA+ model of meta_loop

`meta_loop` takes a task from a request or a GitHub issue through planning,
review, implementation and a second review to a pull request. Its rules are
enforced by a small domain model, a PostgreSQL database used with optimistic
checks, and two places where the database has to agree with something that is
not transactional: git worktrees and GitHub. Almost everything that is hard
about it comes from calls that run at once, read without a lock, die half way
and are tried again.

This directory holds a model of that core, the TLC runs that check it on small
instances and theorems that hold for instances of any size. Paths below are
relative to the repository; `application/...`, `domain/...` and
`infrastructure/...` are under `src/meta_loop/`.

    tlc -config ledger.cfg MCTaskLedger.tla      # one of the runs
    tlapm TaskLedgerProofs.tla                   # one of the proofs

## 1. The system

| Component | State | Operations | Talks to |
|---|---|---|---|
| Task lifecycle, `domain/task.py`, `domain/enums.py` | an immutable `Task`: status, version, rework count, risk, artifacts | `create`, `transition`, `block`, `fail`, `request_rework`, `restart_rework`, `unblock`, `attach_artifact` | pure; called by every service |
| Unit of work, `infrastructure/postgres.py` (and `memory.py`) | one READ COMMITTED transaction | `commit`, `rollback`; stores that lock, check and write a row | all tables |
| Task queue, `PostgresTaskQueue` | `task_queue`: state, attempt, worker, `available_at`, `lease_expires_at` | `enqueue`, `claim`, `heartbeat`, `complete`, `fail`, `recover_expired` | task row (recovery fails the task) |
| Task and event services, `application/services.py` | `tasks`, `task_events` | `transition`, `fail`, `recover_expired` | domain, queue, governance |
| Worker results, `application/workers.py` | `worker_results` | `publish`, `cancel` (and `run` of a session) | artifacts, transition, queue, sessions |
| Intake and ingestion, `application/controller.py`, `application/ingestion.py` | `intake_ledger`, `source_ingestions` | `start`, `ingest` | fuse, tasks, events, artifacts, queue |
| Fuse, `FuseService` | `system_fuse`, `control_events` | `engage`, `release` | read by start, claim, sessions, workspaces, publication |
| Artifacts, `application/artifacts.py`, `infrastructure/cas.py` | `artifact_catalog`, blobs on disk | `register`, `put`, `read`, `scan_orphans` | task, events |
| Runner sessions, `application/runners.py` | `runner_sessions` | `request`, `run`, `set_outcome` | task, events, fuse |
| Workspaces, `application/workspaces.py`, `infrastructure/workspaces.py` | `workspace_allocations`, git worktrees | `allocate`, `release` | task, events, fuse, git |
| Publication, `application/publication.py`, `infrastructure/github.py` | `publications`, `publication_approvals`, `publication_effects`, a branch and pull requests on GitHub | `prepare`, `approve`, `publish` | task, results, fuse, verifier, GitHub |
| Check gate, `application/publication.py` (end), `infrastructure/github_checks.py` | `check_run_observations` | `check` | publication, GitHub |
| Candidate preparer and verifier, `infrastructure/publication.py` | none of its own | prepare a commit, run tests in a container | publication |
| CLI, codecs, migrations | none | parsing, rendering | services |

**How they interact.** A service call gets a unit of work and makes all of its
database changes in it. Reads (`tasks.get`, `events.read`, `fuse.get`, the
`get` of each ledger) take no lock. Writes lock a row and check it against what
was read: the task by its version, the event stream by its length, a queue row
by its worker and lease, the ledgers by identical content. Any exception rolls
all of it back. So a call sees a snapshot that may be old and its commit must
notice when that matters.

**What is hard.**

* *Stale reads.* Every decision is taken on an unlocked read. Version and
  sequence checks are the only protection; a call whose write does not touch
  the checked row (`claim` against the fuse) has none.
* *Several rows, one commit.* A worker's result changes the task twice, adds
  two events, registers an artifact, removes the queue row and records itself.
* *Leases.* The clock is the caller's. A worker may complete a lease that has
  expired by now, or that has been recovered and claimed again. A batch of
  recovery is one transaction over all tasks and fails as a whole.
* *Effects outside of the database.* Worktrees and GitHub are changed between
  or before commits and are not undone by a rollback.
* *Retries.* `publish`, `ingest`, `allocate` and worker results are meant to be
  idempotent; each has a ledger for it. An event that is on record is accepted
  again before any look at the sequence, and what comes with it is not undone.

**What makes each component correct**: no sequence of calls executes an R3 or an
ungoverned task, and a rework round starts the reviews anew (lifecycle); no
update is lost and the event stream tells the task's history, but for what a
call with an event on record does (services); a row is
never lost, stranded or left behind (queue); a result counts once (workers);
one task per request and issue, and none from an issue while the fuse is engaged
(intake); one active workspace per purpose, known to the events (workspaces);
only what was verified and approved reaches GitHub, and it does so once
(publication).

The hazards of this code, each at its line and with the properties that watch
it, are listed in `PROJECT.json`.

## 2. The modules

    TaskRules ----------> TaskLifecycle      one task, every sequence of domain calls
        |   \
        |    +----------> Workspaces         worktrees and their ledger
        v
    TaskLedger            tasks, events, queue, results, fuse under concurrent calls
     ^  |  \
     |  |   +-----------> Sessions           runner sessions on top of the ledger
     |  |
     |  +--- implements - WorkPromise        what the queue promises of its work
     |
    QueueRules --> MemoryQueue               the queue row; the in-memory queue's record

    Intake                start, ingest and the fuse, with the locks they hold
    Publication           prepare, approve, publish and GitHub
        +--- implements - PublicationPromise what publishing promises of a candidate
    CheckGate             the required checks of what was published

Those that are checked with more than plain constants have an `MC` module with
them. `TaskRulesLemmas`, `TaskLifecycleProofs`, `TaskLedgerProofs`,
`SessionsProofs`, `IntakeProofs`, `WorkspacesProofs`, `PublicationProofs` and
`CheckGateProofs` hold the theorems. Definitions marked "mutant of X" are wrong forms of X: put in its
place, each breaks a named property (`mutants` in `PROJECT.json`), which shows
that the property depends on the code.

### TaskRules and TaskLifecycle

`TaskRules` has the operations of `Task` as pure operators: `Can...` is the
condition under which the operation does not raise, the operator of the result
is named for what it returns (`Transitioned`, `Failed`, `ReworkRequested`). A
transition may end in `BLOCKED` instead of its target, for R3 or for want of a
governance revision, as in the code. Source, repository and creation time never
change and are left out; of the risk assessment the effective class and whether
there is a governance revision are kept.

`TaskLifecycle` lets every role call every operation in any order, with two
history variables: the stages passed since the task was last planned, and the
restarts after rework.

### QueueRules and TaskLedger

`QueueRules` is the row of the queue. Timestamps are kept relative to the
present: `due` and `lease` count the ticks until `available_at` and
`lease_expires_at`, and a call that took its `now` some ticks before its commit
passes that `lag`. Below `-MaxLag` no caller can tell instants apart, so they
stop there and the state space is finite without bounding time. That nothing is
lost by it is a theorem, `BoundedClockIsSound`.

`TaskLedger` composes the two with event streams, results and fuse. A call is
two steps. `Begin` takes the snapshot of all unlocked reads (`seen`: tasks,
stream lengths, recorded results, fuse, clock). One commit action then makes
every check that the code makes under a lock against the present, and all the
writes. `Abort` is everything else: a check that fails, a process that dies.
Since the writes of a READ COMMITTED transaction take their locks before they
check and hold them to the commit, the commit can be one step: between the
check and the commit nobody else can change what was checked.

| Action | Code |
|---|---|
| `TransitionTask` | `TaskEventService.transition`, governance granting or not |
| `PublishResult`, `CancelExecution` | `ResultPublicationService.publish`, `cancel` |
| `Claim`, `Heartbeat`, `FailAttempt`, `RecoverExpired` | `QueueControlService.claim`, `PostgresTaskQueue.heartbeat`, `TaskQueueService.fail`, `recover_expired` |
| `EngageFuse`, `ReleaseFuse` | `FuseService` |
| `Enqueue` | `PostgresTaskQueue.enqueue`; see below |
| `Tick` | time |

Three facts about the code that the model made visible:

* `publish` hands no governance reader to the transition. A result whose target
  is `IMPLEMENTING` or `READY_TO_PUBLISH` therefore always blocks its task
  (`ReadyResultBlocks`). Publication, which asks for a `READY_TO_PUBLISH` task
  and such a result on record, can be prepared only if somebody else brings
  that about.
* Nothing in the repository enqueues a task once intake has. `Enqueue` stands
  for whoever will; it is assumed to enqueue a task without a row that has not
  failed. Without it a task would never see a second role's lease.
* The length of a stream vouches for the task only as long as every change of
  it comes with an event of its own. `transition`, `fail` and `recover_expired`
  take their event from the caller, and an event that is on record is answered
  before the sequence is looked at (`infrastructure/postgres.py:80`,
  `infrastructure/memory.py:70`, PHASE1_SPEC.md:30). So a call that is tried
  again with its stored event and a fresh version changes the task once more,
  and the stream does not grow. `AppendGiven` has both branches, and the history
  variable `untold` keeps what such a call made of the task. All other services
  make their events with a fresh id and cannot meet this branch. A stored event
  is taken to be one of the kind and task that the call would append; the
  services compare neither.

`HistoryIsLegal` is stated of both: what the stream tells and what is `untold`
are one life of the task, with one status for each version and each a legal move
from the one before. So a lost update is still found, and so is every change
that leaves no event in any other way.

**MemoryQueue** is the queue of the in-memory unit of work, on which the
services' unit tests run: its calls as operators on a record without a state.
`AdaptersAgree` compares it with the table on every row the ledger reaches. The
two differ in form (a record's claim asks for no attempt to be left, and a
record's lease is told by its worker) and do the same, because of invariants of
the row: `NoStrandedRow`, and a worker on a leased row only.

**WorkPromise** is the queue without rows, leases, clocks, events or
transactions: work is offered one piece at a time, taken by one worker at a
time, let go while attempts are left, and each piece ends once, finished by its
holder or given up for good. `TaskLedger` implements it (`KeepsWorkPromise`).
`Balanced`, the account of all pieces, is a theorem of the ledger.

### Sessions

`request`, `run` and `publish` with the session table, on top of all other
calls of the ledger and with the same two steps of a call. `request` reads fuse
and task without a lock, checks version, risk and inputs against that read, and
appends one event; `run` reads the session and writes its outcome once; a result
names its session. `FollowsTheLedger` says that this is the ledger's behaviour,
less results of implementers of R3 tasks, so nothing shown of the ledger is
lost. What the model shows beside its properties:

* A session may be requested of a task in any status, a failed one too: the
  service asks for a version and never for a status. `publish` then finds the
  task failed.
* The role of a session is not compared with the task's status either, so a
  session may be of a role whose turn it is not; its result is refused by the
  task's own rules.
* One session may back two results, under two ids: only the result's id is a
  key. The second one needs a lease and a stage of its own.
* Version and inputs are checked against a read that may be old. The stream's
  length, checked under a lock, vouches for the version against every change
  that has an event of its own; behind a change that was untold a session is
  made for a version that is gone. The inputs are right in any case, because no
  call takes an artifact away (`SessionIsCurrent`).

### Intake

Here the locks themselves matter, so a call goes step by step: `ingest` locks
the fuse row, takes the two advisory locks of `reserve`, looks the issue up,
inserts task and intake row (a second insert of the same key waits), writes the
blob and commits; `start` reads the fuse and goes on from the insert;
`FuseService` locks the row with its UPDATE, numbers the control event and
commits. `held` is the set of locks of a call, `Wants` the one it cannot go on
without; `End` (commit, rollback, the end
of the process) lets go of them. `store` and `numbered` (a sequence) are outside
of the transaction and survive a rollback. A candidate is a source key, a
trigger event and a specification. The revision and the risk that the
specification gives the request of an issue are left out, so that requests of
two specifications are equal here and differ in the code; a task's id is that
of its request, and tasks are told apart by their place. Governance is taken to grant. (The command
line passes a governance reader that never does, so `github sync`,
`publication prepare` and
`fuse release` always fail as shipped; the services are written for one that
does.)

A task that a `start` made under an issue's key with the very request that
`ingest` would make is adopted by the ingestion, as the code has it. What other
services did to it in the meantime is not in this module: it could only make
the ingestion's appends conflict, which is `Crash`.

### Workspaces

One task, its stream, the allocation table and the worktree under each
allocation id. `allocate` is `BeginAllocate` (the unlocked reads and the
policy), `Checkout` (the worktree, at once), `Lookup` and `Insert` (the row and
its event, with the commit), or `Cleanup` when either raises. `release` is
`BeginRelease`, `Remove` (the worktree, at once) and `MarkReleased`.
`ChangeTask` stands for every other service: it adds an event, or it is a call
with an event that is on record, which takes the task into or out of
IMPLEMENTING and leaves the stream as it is. `behind` are the implementers'
allocations under way at such a change: the sequence they expect no longer
vouches for the status they read, and they commit all the same. What the model
shows beside its properties: a release that dies after `Remove` leaves the row
active for ever, since a later release finds no worktree and returns; and two
releases can both append `WORKSPACE_RELEASED`.

### Publication

One publication of one task. `Prepare` (reserve, prepare and verify in one
transaction), `Approve`, and `publish` as the code runs it: a transaction that
commits the effect intent, the requests to GitHub each a step of its own (base, ref, create ref, find pull
request, open one), and a
transaction for the receipt. Other commands run at the same time, calls die at
any point, and people close pull requests, push to the branch and advance the
base. A candidate is identified by its head, which is what is verified, approved and
published; the blobs, trees and commits the publisher creates are
content-addressed and show only through the ref. Which head a patch yields is
left open: a preparation that died leaves its worktree, whose id is that of the
publication, and the next one applies its patch to what it finds there.

**PublicationPromise** has no calls, transactions, refs or pull requests: a
candidate is chosen, approved, announced, shown and acknowledged, each once and
none taken back. `Publication` implements it (`KeepsPromise`), where "shown"
means that the branch exists, whoever pushed to it since.

### CheckGate

`check` as the code runs it: a transaction that validates the publication
(`Validate`), a reading of all check runs of the head outside of any transaction
(`ReadRuns`), and a second transaction that validates again and records what was
read (`Record`). GitHub starts runs, lets them leave the queue and completes
them in between, on a clock that tells seconds. A reading keeps name, outcome
and one time of each run, the start of an open one and the end of a completed
one, as the adapter does. An observation with a known key (name and time) and
another content makes the call fail, as in the table.

The publication is taken as reconciled with its receipt; it stays so
(`ReceiptIsNeverReplaced`), and before that every call is refused. Two assumptions about
GitHub are external to the code: times never go back, and runs are listed in any
order. Runs of one name may be under way together, as two of the repository's
own are when `publish` pushes a branch and opens its pull request
(`.github/workflows/ci.yml`, on push and on pull_request).
What the model shows beside its properties:

* The code compares the start of one run with the end of another. A success that
  comes after another run of its name was started is the newest of the two, and
  the gate is passed while that other run is pending (`PendingBlocks`, finding
  1 below). `PassIsEarned` is what is left: the success is later than every
  other end and every start, so a later failure and a run begun later block.
* The code knows a run by its time and not by its id. Two newest runs of one
  second are refused as ambiguous. Of two older runs of one second it depends on
  their order in the answer whether they are: `Abort` stands for a refusal.
* Two statuses of a name in one second have one key for two observations: a run
  whose status changes and whose time does not, or two runs side by side, one of
  which ends in the second in which the other starts or ends otherwise. If the
  first was recorded, every later call meets the conflict and fails, and the
  gate stays shut for that head. `tied` marks that this was possible;
  `RecordsAgree` says that nothing else makes what was read contradict what is
  on record. `GateOpens` says that it is the only way to be shut out when the
  runs of a name have ended in different seconds; if the last two ended in one,
  the call is refused as ambiguous until there is another run.
* `PassIsEarned` is about the moment of the reading. A rerun that starts before
  the answer is given does not take the pass back: README.md promises that stale
  *historical* success does not satisfy the gate, and that holds up to the time
  between reading and answering.

## 3. What is checked

| Run | States | Shows |
|---|---|---|
| `lifecycle` | 89,236 | one task, every sequence of up to 18 calls: `ExecutionIsGoverned` (neither R3 nor ungoverned), `ReadyIsReviewedAfresh`, `ReworkBudget` |
| `ledger` | 160,798 | two calls, two workers, one validated task, stale clocks, events on record, the fuse: `SnapshotsAreCoherent`, `NoStrandedRow`, `AdaptersAgree`, `FailureIsFinal`, `KeepsWorkPromise` (refinement) |
| `sessions` | 123,721 | two calls, two sessions, two results of which one is on record, an R3 task in design review or an R1 task at patch review: `ResultsRestOnSessions`, `SessionsAreAnnounced`, `ResultAppliedOnce`, `SessionIsCurrent`, `FollowsTheLedger` (refinement), and of long streams `HistoryIsLegal`, `ExecutionWasGranted`, `ReadyResultBlocks` |
| `drain` | 8,539 | two tasks, a worker that dies with any lease: `QueueDrains` (liveness) |
| `ledger_fuse` | finding 2 | `FuseBlocksClaims` is violated |
| `intake` | 1,170,876 | three calls: `TasksAreAccountedFor`, `AuditTellsFuse`, `ArtifactsAreStored`, `FuseStopsIngestion`, `NoCircleOfWaiting` |
| `workspaces` | 1,768,788 | three calls: `OneActivePerPurpose`, `EventsTellTheLedger`, `ImplementerIsCurrent` |
| `workspaces_cleanup` | finding 4 | `OnlyReleaseRemoves` is violated |
| `publishing` | 139,316 | two commands, two heads, people on GitHub, the fuse: `PublishedIsApproved`, `ReceiptIsExact`, `RetryFindsItsOwn`, `KeepsPromise` (refinement), `PublishConverges` (liveness) |
| `publishing_second_pr` | finding 3 | `SinglePull` is violated |
| `checks` | 380,184 | two check calls while two runs of a check are under way, together or in turn: `PassIsEarned`, `RecordsAgree`, `GateOpens` (liveness) |
| `checks_pending` | finding 1 | `PendingBlocks` is violated |

Each module also has one type invariant, checked by its first run.

**Bounds, and why they are enough.**

* `MaxVersion = 18` (lifecycle): 18 calls take a task to `PATCH_REVIEW`, back by
  rework and restart, there again, back, and there a third time. With reworks
  from earlier statuses the budget is used up and `READY_TO_PUBLISH` reached too.
* `ledger` begins with a validated task, one call of `transition` after its
  creation, so two of `MaxEvents = 4` are left: a publication with its two
  events, or two commits while another call holds on to its reads, which is what
  a lost update takes. A second publication of a result does not fit; that is
  the question of `sessions`. In `drain` (`MaxEvents = 2`) one of the two tasks
  is validated already and the other may still change once, so that a recovery
  can find the sequence it brought out of date. The terminal failure of recovery is not bounded, so recovery is
  never held up by the bound. `MaxUntold = 1` (`drain` 0): one call with an event
  on record changes the task behind the others' backs; two such changes race
  with a read no differently.
* `sessions` begins late, in states that one call of `transition` per stage
  leads to: an R1 task at `PATCH_REVIEW` with a session requested to review it,
  and an R3 task as far as it comes, at `DESIGN_REVIEW`, after two failed
  attempts. `READY_TO_PUBLISH` is one of the last events of the shortest stream,
  so a start from `RECEIVED` would spend its bound on the way. In both the
  planner's result `r1` is on record, the task has been enqueued again, and a
  call that began before `r1` was published may still be in flight: it has not
  seen the result, has the lease it needs, and tries to publish it a second time
  (`ResultAppliedOnce`). `MaxEvents = 12` leaves room for that and for a session
  and its result beside it, or for transitions that race with either.
  `MaxEnqueues = 2` is used up, `MaxLag = 0` and one worker: clocks are
  `ledger`'s question.
* `MaxAttempts = 3` is the code's (`sessions`); `ledger` and `drain` use 2, which
  still has a first attempt, a last one and a row between them. `LeaseTicks = 1`, `BackoffUnit = 1`: a lease and a delay need only
  be able to be over or not. `MaxLag = 1`: a caller's clock is right or old.
  However long a lease has expired, the clamped clock of `QueueRules` shows all
  that a caller of that staleness can notice (proved).
* Two calls at once show every race between a read and a commit; three are used
  where a call races with two others (`Workspaces`: a retry, its first attempt
  and a release; `Intake`: two ingestions and a switch).
* `MaxSwitches = 2`: one switch on and one off, by two callers, in either order.
* `MaxChanges = 1`, `MaxPulls = 2`: the task moves on once while a call is under
  way; a second pull request is what `SinglePull` and `RetryFindsItsOwn` are about.
* `checks`: two runs of one check are a run and its rerun, or two side by side,
  with `MaxTime = 2`: three seconds put a start between the start and the end of
  the other run, and any two of the times in one second or in different ones. A second
  check name multiplies the states and adds no race: names only meet in a
  conjunction.

Deadlock is checked in the ledger runs, where a call can always begin. It is
switched off where the bounds stop the model: the lifecycle at `MaxVersion`, the
others when streams, switches or pull requests are used up.

**Fairness.** Safety needs none. `drain` assumes that time passes, that calls
end, and (strongly) that whatever can be claimed is claimed again and again and
expired leases are recovered again and again with fresh events. None of this is
in the repository: it has no scheduler. The run shows what the services need of
whoever drives them. Strong fairness is needed because a claimable row is not
claimable continuously (it takes a call in flight, and calls end). `publishing`
assumes for `PublishConverges` that calls end and that `publish` is run again and
not stopped at the same request for ever; otherwise a process that always dies at
one place prevents everything. The property leaves out what no retry can mend: an
advanced base, a pushed branch, a closed pull request, a blocked task, a fuse
that stays engaged. `checks` assumes the like of `check` for `GateOpens`: somebody
keeps asking, and of calls that could read or record not every one dies.

## 4. What is proved

The theorems are proved by TLAPS for any sets of tasks, callers, workers,
artifacts, results, requests, issues and heads, and any bounds.

**Assumptions** are the `ASSUME`s of the modules: the bounds are numbers,
`MaxAttempts` and `LeaseTicks` are positive, `NoWorker` is no worker (`QueueAssumption`),
risk, governance and priority are functions of the tasks and `"NONE"` names no
result (`LedgerAssumption`), the two markers for an absent and a foreign head are
no heads of ours (`HeadAssumption`), some check is required (`GateAssumption`), and
requests and issues have their fields (`WorkspaceAssumption`, `IntakeAssumption`). TLC
evaluates them in every run. One of them is a consequence of another:
`DelayAssumption`, that every backoff is a number of ticks, follows from
`QueueAssumption` by an induction over the recursive function `Delay`, and
induction over data is beyond these provers. TLC evaluates it for every
attempt of each run; only `BoundedClockIsSound` and the proofs that move rows
use it.

**TaskLifecycleProofs.** `ExecutionIsAlwaysGoverned` holds because every way
into an executing status either comes from one or passes the two checks of
`transition`, for risk R3 and for the revision, and neither ever changes. `ReadyIsAlwaysReviewed`
needs `StagesPassed`: what a status says about the stages passed before it, for
every status and not for `READY_TO_PUBLISH` alone. `ReworkIsBounded` needs
`RoundsCovered`, which pays for each restart with a round of the counter.

**TaskLedgerProofs.** First `Typed`: types together with `NoStrandedRow`, which
the row operations need of each other. Then `SnapshotsAreAlwaysCoherent`, from a
lemma that every step raises the version of a task it changes. Coherence is what
makes the rest go through: once a version check has passed, the snapshot *is*
the row (`CheckedIsCurrent`), so each commit is one of a few moves of the
present task (`StepMoves`). With these moves the inductive invariant `Core`
(types, coherence, failed tasks are not queued, `ClaimsCounted`: the attempts
of a row are the claims since it was enqueued) gives `RowsAreNeverStranded`,
`FailureTakesAllAttempts` and `FailureIsAlwaysFinal`. A row is stranded not only
when it is out of attempts: a row of a task that cannot fail any more would make
every batch of `recover_expired` raise, so `NoStrandedRow` excludes that as well.
`ExecutionIsAlwaysGranted` is a step of its own and needs risk and revision with
the grant: `transition` asks for all three at once.

Its second half goes on from `Core` and the moves:

* `HistoryIsAlwaysLegal` needs `Told`: the stream is in order, and the life, told
  and untold, is whole and legal *and its last moment is what the task is*
  (`Whole`); without the second part the next moment could not be compared with
  the one before it. That a `READY_TO_PUBLISH` task has every review stage in its
  life needs the same of each status before it.
* `ReadyResultAlwaysBlocks`: a publication that aims at `READY_TO_PUBLISH` has no
  grant and blocks, and a blocked task has no way out that a service takes.
* `ResultsAreAppliedOnce`: counting the events that name a result is replaced by
  `AppliedOnce` (none, or exactly one place), which each move preserves.
* `LedgerKeepsWorkPromise` is the refinement of `WorkPromise`. Its inductive
  invariant `WorkInv` adds to `Core` that a row names a worker just when it is
  leased (`WorkersMatch`, which makes "held" of the promise a fact of the table)
  and that results are finitely many where they are counted. Each move of a task
  is one action of the promise, and recovery is a move of many tasks at once.
  `WorkAlwaysBalances` follows.
* `AdaptersAlwaysAgree` follows from `WorkInv`, row by row.
* `BoundedClockIsSound` is a refinement between two clocks. `ExactSpec` is the
  ledger with timestamps that differ without end; `Shown` maps each of them to
  `-MaxLag` when it is older, and with `Shown` for the queue every behaviour of
  `ExactSpec` is one of `TaskLedger`. Two lemmas carry it: no guard tells a row
  from its clamped form (`ClampedLooksAlike`), and each row operation, ageing
  included, commutes with clamping (`ClampingCommutes`). Every other property is
  then one of the exact ledger too, since none of them names an instant.

**SessionsProofs.** `SessionStepIsLedgerStep` shows that a step with sessions is
one of the ledger, so `SessionsImplementLedger` carries every theorem over
(`SessionsKeepHistoryLegal` names those that the run checks). It
needs `NoR3Implementer`: the ledger takes for granted that no such session exists.
`SessionsAreAlwaysCurrent` needs `Vouched`: what a call has read of a task has
its risk and not more than its artifacts, and the stream is longer by now or all
changes since are in `untold`. It rests on `ChangesAreTold`: a step that raises
a version makes the stream longer or leaves the change there. `ResultsAlwaysRestOnSessions` needs that
outcomes never change. `SessionsAreAlwaysAnnounced` lets sessions and events grow
together: only `RequestSession` adds to either (`OthersAreSilent`).

**IntakeProofs.** Whatever a call of intake knows, it knows because of a lock
that it holds, so the inductive invariant `IntakeInv` begins with
`LocksAreHeldOnce` and says of each place in a call which lock is held there and
what that makes certain: past the fuse, the row is locked and released
(`FuseIsLocked`, which is `FuseAlwaysStopsIngestion`); before the switch is
committed, its number is beyond all that are committed (`NumberIsLast`, hence
`AuditAlwaysTellsFuse`); past the insert, the request's key is locked and a
`start` has found it unused (`RequestIsOwn`); at the commit the blob is there
(`BlobIsThere`). `Books` is `TasksAreAccountedFor` without cardinalities: tasks and
intake ledger name each other, an ingested issue names the task of its own key,
and a task has one `SOURCE_INGESTED` or none. Every commit puts one task under one
request (`Files`), and the others keep theirs (`FilingStep`).
`NobodyWaitsInACircle` needs `ComesEmptyHanded`: a call takes its first lock with
nothing in hand. Whoever waits with a lock in hand is then an ingestion past the
fuse and has the fuse's row; in a circle everybody waits and is waited for, so two
calls would have that row. The order of the two advisory locks, which the code
sorts, is not needed for it; letting go of them with the transaction is.

**WorkspacesProofs.** `AlwaysOneActivePerPurpose` rests on the insert alone, the
table's unique index, and on no step making a released row active again; the
lookup before it is not needed. `EventsAlwaysTellTheLedger` needs
`ReleasesAreKnown` (a release goes on only from a row on record, which stays) and
counts through `AllTold`: one place in the stream per allocation.
`ImplementerIsAlwaysCurrent` needs `Vouched`: the task is still IMPLEMENTING, or
the stream has grown past what the call expects, or the call is `behind`.

**PublicationProofs.** `Safe` says of every call in flight what its place in
`publish` implies: past the intent its head is the announced one, the announced
one is approved, the branch is there once a call looks for pull requests, and a
number found belongs to an exact pull request. It is inductive with the types
and gives `OnlyApprovedIsPublished`, `ReceiptIsAlwaysExact` and
`ReceiptIsNeverReplaced`. `RetryAlwaysFindsItsOwn` goes on from there: as long as
nobody has intervened, branch and pull request are those of the announced head
(`OwnStep`): GitHub refuses a second open pull request for a branch, a closed one
is an intervention, so the one that is opened is the first, onto a branch that is
there (`PullsHaveBranch`) and ours. `PublicationKeepsPromise` is the refinement of
`PublicationPromise`; it adds `InOrder`, what of the publication exists before
what.

**CheckGateProofs.** `PassIsAlwaysEarned` rests on `Timely`, that a run begins and
ends in the past and in this order, and on `NewestIsLater`: a success that alone
has the newest time ended after every other end, and every other start is no
later than the time its run is known by. Without the refusal of two newest runs
the theorem is false. `RecordsAlwaysAgree` has to look back: an observation on
record may be of a run that reads otherwise by now. As long as nothing is `tied`,
whatever is known is still shown or is of an earlier second (`AgreeInv`), and
what GitHub shows next it shows at the present second (`ShowingAgrees`). Neither
asks that runs of one name are not under way together.

**Only model-checked.** The liveness properties `QueueDrains`,
`PublishConverges` and `GateOpens`: fairness is beyond the prover. What is proved
is the part of each that an invariant can say, namely that nothing on record can
stand in the way for good: every row can be claimed or recovered
(`RowsAreNeverStranded`), every retry meets only what is its own
(`RetryAlwaysFindsItsOwn`), and no record contradicts what GitHub says
(`RecordsAlwaysAgree`). That the next step is then taken is what TLC checks.

## 5. Where code and documents disagree

1. Of several runs of a required check the gate looks at the one with the latest
   time (`application/publication.py:306`), which for a completed run is its end
   and for another its start. A run that was started last is therefore passed
   over while it is pending if one beside it has succeeded since;
   PHASE8_SPEC.md:128-132 says that pending observations block. Both are among
   the observations the call has read and records.
2. `claim` reads the fuse without a lock (`application/controller.py:82`), so a
   lease may be taken after the fuse was engaged; PHASE2_SPEC.md says engaging
   blocks claims. `start` has the same gap. `ingest` does not: it locks the row.
3. The publisher looks for open pull requests only
   (`infrastructure/github.py:277`): after one was closed a retry opens a second;
   PHASE8_SPEC.md says no retry does.
4. A failed `allocate` removes the worktree under its id
   (`application/workspaces.py:59`), which may be that of another call's
   committed allocation; PHASE6_SPEC.md says only ledger-owned workspaces are
   removed. A retry with fresher expected versions is enough.

One more is in the domain class and has no run, because no service makes the
call: `request_rework` (`domain/task.py:103`) asks for a reviewer and looks at no
status, so it revives a `FAILED` task and takes a `BLOCKED` one past its
validator (`RequestRework` in `TaskLifecycle`); PHASE1_SPEC.md:23 and 53 call a
terminal task final. At the level of the services failure is final, which is
proved.

## 6. What is not modelled

* The candidate preparer and verifier: their results are in `Publication`, any
  head and a verdict either way. Two calls that
  prepare or verify the same publication share a worktree named after it, and
  the `finally` of one releases it under the other. The other then fails and is
  rolled back, which is what `Crash` does in `Publication`; whether git can be
  brought to report a tree it did not apply is a question about git.
* The events of workspaces, intake and publication in `TaskLedger`'s streams.
  For the ledger they are what `RecordActivity` of sessions is: an entry that
  leaves the task alone.
* An event of a caller that is on record under another kind or for another task
  than the call it is brought to. `append` compares it with itself only, so it
  would be accepted as well; for the ledger that is the second branch of
  `AppendGiven`, with more occasions for it than the model gives.
* What a runner does. Its timeout and its errors are the outcome `FAILED`.
* Patch parsing, git, docker, HTTP, paging, codecs, command line parsing,
  permission bits and path checks: long sequential code without shared state,
  for which tests are the better tool.
* The migration runner: run once by an operator.
* The in-memory stores other than the queue: they repeat the checks of the
  PostgreSQL ones line by line under a copy of all tables, in one thread. The
  queue is modelled because its two forms differ.
* PostgreSQL's own deadlock detection. Services lock rows in different orders;
  the database aborts one of them, which is `Abort`.

## 7. Plan

What is left, in this order:

1. **TaskLedger against TaskLifecycle.** A step by step refinement is not to be
   had: `PublishResult` attaches an artifact and makes a transition in one commit,
   two steps of `TaskLifecycle`. What `TaskLifecycle` shows of R3, governance and
   reviews is stated of the ledger itself instead (`ExecutionWasGranted`,
   `HistoryIsLegal`). `ReworkBudget` has no counterpart: no service asks for
   rework.
2. **The preparer's and verifier's worktrees**, as `Workspaces` has those of the
   ledger: a checkout that finds the worktree of another call, and a release
   under it.
3. **Workspaces on top of the ledger**, as `Sessions` is, so that the events of
   both are in one stream.
