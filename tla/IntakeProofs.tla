---------------------------- MODULE IntakeProofs ----------------------------
(***************************************************************************)
(* Proofs about Intake, for any requests, issues, calls and switches.       *)
(***************************************************************************)
EXTENDS Intake, FiniteSetTheorems, SequenceTheorems, TLAPS

(* A lock is held by one call.                                              *)
LocksAreHeldOnce == \A c, d \in Callers : c # d => held[c] \cap held[d] = {}

(* What a call's place says of the fuse, of its request and of the store.   *)
FuseIsLocked(c) ==
  /\ call[c].next \in {"AUDIT", "SWITCH"} => FuseRow \in held[c]
  /\ Ingesting(c) /\ call[c].next # "FUSE" => FuseRow \in held[c] /\ ~fuse

NumberIsLast(c) ==
  At(c, "SWITCH") =>
    /\ call[c].number \in 1..numbered
    /\ \A e \in audit : e.number < call[c].number

RequestIsOwn(c) ==
  /\ Ingesting(c) => call[c].request = IssueRequest(call[c].candidate)
  /\ call[c].next \in {"STORE", "COMMIT"} =>
       /\ RequestKey(call[c].request.id) \in held[c]
       /\ Ingesting(c) \/ intake[call[c].request.id] = 0

BlobIsThere(c) == At(c, "COMMIT") /\ Ingesting(c) => call[c].candidate.content \in store

(* A call takes its first lock with empty hands.                            *)
ComesEmptyHanded(c) ==
  call[c].next \in {"IDLE", "FUSE"} \/ (At(c, "CREATE") /\ ~Ingesting(c)) => held[c] = {}

CallsAreSound ==
  \A c \in Callers : FuseIsLocked(c) /\ NumberIsLast(c) /\ RequestIsOwn(c) /\ BlobIsThere(c)
                      /\ ComesEmptyHanded(c)

(* TasksAreAccountedFor as a statement about single events.                 *)
Ingestions(i) == {n \in 1..Len(tasks[i].log) : tasks[i].log[n] = "SOURCE_INGESTED"}

IntakeTells ==
  /\ \A i \in 1..Len(tasks) : intake[tasks[i].request.id] = i
  /\ \A q \in RequestIds : intake[q] # 0 => tasks[intake[q]].request.id = q

SourcesTell ==
  \A s \in Sources : Ingested(s) =>
    sources[s].task = intake[s] /\ sources[s].candidate.source = s

IngestedOnce ==
  \A i \in 1..Len(tasks) :
    LET q == tasks[i].request.id
    IN  IF q \in Sources /\ Ingested(q)
        THEN \E n \in Nat : Ingestions(i) = {n}
        ELSE Ingestions(i) = {}

TriggersAreUsedOnce ==
  \A s, z \in Sources :
    Ingested(s) /\ Ingested(z)
      /\ sources[s].candidate.trigger = sources[z].candidate.trigger => s = z

NumbersAreGiven == \A e \in audit : e.number <= numbered

Books == IntakeTells /\ SourcesTell /\ IngestedOnce /\ TriggersAreUsedOnce

IntakeInv ==
  /\ TypeOK /\ LocksAreHeldOnce /\ CallsAreSound
  /\ Books /\ NumbersAreGiven /\ AuditTellsFuse /\ ArtifactsAreStored

------------------------------------------------------------------------------
IngestSteps == {"FUSE", "SOURCE", "TRIGGER", "LOOKUP", "CREATE", "STORE", "COMMIT"}

(* What one call does, as Next has it.                                      *)
Moves(c) ==
  \/ \E r \in Requests : BeginStart(c, r)
  \/ \E k \in Candidates : BeginIngest(c, k)
  \/ LockFuse(c) \/ LockSource(c) \/ LockTrigger(c)
  \/ Lookup(c) \/ Create(c) \/ Store(c)
  \/ CommitStart(c) \/ CommitIngest(c)
  \/ \E engaged \in BOOLEAN : BeginSwitch(c, engaged)
  \/ InsertControlEvent(c) \/ CommitSwitch(c)
  \/ Crash(c)

(* The place of a call tells what kind of call it is.                       *)
LEMMA CallKinds ==
  ASSUME TypeOK, NEW c \in Callers
  PROVE  /\ call[c].next \in {"FUSE", "SOURCE", "TRIGGER", "LOOKUP", "STORE"} =>
              call[c] \in Ingests
         /\ call[c].next \in {"AUDIT", "SWITCH"} => call[c] \in Switches
         /\ call[c].next \in {"CREATE", "COMMIT"} => call[c] \in Starts \cup Ingests
         /\ call[c] \in Ingests <=> Ingesting(c)
<1>1. call[c] \in Switches \cup Starts \cup Ingests \cup {NoCall}
  BY DEF TypeOK
<1>2. CASE call[c] \in Switches
  BY <1>2 DEF Switches, Ingests, Ingesting
<1>3. CASE call[c] \in Starts
  BY <1>3 DEF Starts, Ingests, Ingesting
<1>4. CASE call[c] \in Ingests
  BY <1>4 DEF Ingests, Ingesting
<1>5. CASE call[c] = NoCall
  BY <1>5 DEF NoCall, Ingests, Ingesting
<1>6. QED
  BY <1>1, <1>2, <1>3, <1>4, <1>5

(* Going on keeps the request, and the candidate of an ingestion.           *)
LEMMA GoingOn ==
  ASSUME TypeOK, NEW c \in Callers, NEW step, GoTo(c, step)
  PROVE  /\ call[c] \in Ingests /\ step \in IngestSteps =>
              /\ call'[c] \in Ingests /\ call'[c].next = step /\ Ingesting(c)'
              /\ call'[c].request = call[c].request /\ call'[c].candidate = call[c].candidate
         /\ call[c] \in Starts /\ step \in {"CREATE", "COMMIT"} =>
              /\ call'[c] \in Starts /\ call'[c].next = step /\ ~Ingesting(c)'
              /\ call'[c].request = call[c].request
<1>1. call'[c] = [call[c] EXCEPT !.next = step]
  BY DEF GoTo, TypeOK
<1>2. ASSUME call[c] \in Ingests, step \in IngestSteps
      PROVE  /\ call'[c] \in Ingests /\ call'[c].next = step /\ Ingesting(c)'
             /\ call'[c].request = call[c].request /\ call'[c].candidate = call[c].candidate
  BY <1>1, <1>2 DEF Ingests, IngestSteps, Ingesting
<1>3. ASSUME call[c] \in Starts, step \in {"CREATE", "COMMIT"}
      PROVE  /\ call'[c] \in Starts /\ call'[c].next = step /\ ~Ingesting(c)'
             /\ call'[c].request = call[c].request
  BY <1>1, <1>3 DEF Starts, Ingesting
<1>4. QED
  BY <1>2, <1>3

(* A call that ends is idle and holds nothing.                              *)
LEMMA Ending ==
  ASSUME TypeOK, NEW c \in Callers, End(c)
  PROVE  /\ call'[c] = NoCall /\ call'[c].next = "IDLE" /\ ~Ingesting(c)'
         /\ held'[c] = {}
BY DEF End, TypeOK, NoCall, Ingesting

(* The other calls stay where they are and hold what they held.             *)
LEMMA OthersStay ==
  ASSUME TypeOK, NEW c \in Callers, Moves(c), NEW d \in Callers, d # c
  PROVE  call'[d] = call[d] /\ held'[d] = held[d] /\ (Ingesting(d)' <=> Ingesting(d))
<1>1. /\ \E new : call' = [call EXCEPT ![c] = new]
      /\ held' = held \/ \E new : held' = [held EXCEPT ![c] = new]
  BY DEF Moves, BeginStart, BeginIngest, LockFuse, LockSource, LockTrigger, Lookup, Create, Store,
         CommitStart, CommitIngest, BeginSwitch, InsertControlEvent, CommitSwitch, Crash,
         End, GoTo, Hold
<1>2. call'[d] = call[d] /\ held'[d] = held[d]
  BY <1>1 DEF TypeOK
<1>3. QED
  BY <1>2 DEF Ingesting

(* A request, an issue and what is locked for them are known.               *)
LEMMA Locking ==
  ASSUME TypeOK, NEW c \in Callers
  PROVE  /\ FuseRow \in Locks
         /\ call[c] \in Starts \cup Ingests =>
              /\ call[c].request \in AllRequests /\ call[c].request.id \in RequestIds
              /\ RequestKey(call[c].request.id) \in Locks
         /\ call[c] \in Ingests =>
              /\ call[c].candidate \in Candidates
              /\ call[c].candidate.source \in Sources /\ call[c].candidate.trigger \in Triggers
              /\ call[c].candidate.content \in Specifications
              /\ SourceKey(call[c].candidate.source) \in Locks
              /\ TriggerKey(call[c].candidate.trigger) \in Locks
<1>1. FuseRow \in Locks
  BY DEF Locks
<1>2. ASSUME call[c] \in Starts \cup Ingests
      PROVE  /\ call[c].request \in AllRequests /\ call[c].request.id \in RequestIds
             /\ RequestKey(call[c].request.id) \in Locks
  <2>1. call[c].request \in AllRequests
    BY <1>2 DEF Starts, Ingests
  <2>2. call[c].request.id \in RequestIds
    BY <2>1 DEF RequestIds
  <2>3. QED
    BY <2>1, <2>2 DEF Locks
<1>3. ASSUME call[c] \in Ingests
      PROVE  /\ call[c].candidate \in Candidates
             /\ call[c].candidate.source \in Sources /\ call[c].candidate.trigger \in Triggers
             /\ call[c].candidate.content \in Specifications
             /\ SourceKey(call[c].candidate.source) \in Locks
             /\ TriggerKey(call[c].candidate.trigger) \in Locks
  <2>1. call[c].candidate \in Candidates
    BY <1>3 DEF Ingests
  <2>2. /\ call[c].candidate.source \in Sources /\ call[c].candidate.trigger \in Triggers
        /\ call[c].candidate.content \in Specifications
    BY <2>1 DEF Sources, Triggers, Specifications
  <2>3. QED
    BY <2>1, <2>2 DEF Locks
<1>4. QED
  BY <1>1, <1>2, <1>3

(* A lock is only taken when it is free.                                    *)
LEMMA LocksStep ==
  ASSUME TypeOK, LocksAreHeldOnce, NEW c \in Callers, Moves(c)
  PROVE  /\ held' \in [Callers -> SUBSET Locks]
         /\ LocksAreHeldOnce'
         /\ held[c] \subseteq held'[c] \/ End(c)
<1>1. \/ held' = held
      \/ End(c)
      \/ \E lock \in Locks : Free(c, lock) /\ Hold(c, lock)
  <2>1. ASSUME LockFuse(c) \/ \E engaged \in BOOLEAN : BeginSwitch(c, engaged)
        PROVE  End(c) \/ \E lock \in Locks : Free(c, lock) /\ Hold(c, lock)
    BY <2>1, Locking DEF LockFuse, BeginSwitch
  <2>2. ASSUME LockSource(c) \/ LockTrigger(c)
        PROVE  \E lock \in Locks : Free(c, lock) /\ Hold(c, lock)
    BY <2>2, Locking, CallKinds DEF LockSource, LockTrigger, At
  <2>3. ASSUME Create(c)
        PROVE  End(c) \/ \E lock \in Locks : Free(c, lock) /\ Hold(c, lock)
    BY <2>3, Locking, CallKinds DEF Create, At
  <2>4. QED
    BY <2>1, <2>2, <2>3
       DEF Moves, BeginStart, BeginIngest, Lookup, Store, CommitStart, CommitIngest,
           InsertControlEvent, CommitSwitch, Crash
<1>2. CASE held' = held
  BY <1>2 DEF TypeOK, LocksAreHeldOnce
<1>3. CASE End(c)
  BY <1>3 DEF End, TypeOK, LocksAreHeldOnce
<1>4. CASE \E lock \in Locks : Free(c, lock) /\ Hold(c, lock)
  <2>1. PICK lock \in Locks : Free(c, lock) /\ Hold(c, lock)
    BY <1>4
  <2>2. /\ held'[c] = held[c] \cup {lock} /\ \A d \in Callers \ {c} : held'[d] = held[d]
        /\ held' \in [Callers -> SUBSET Locks]
    BY <2>1 DEF Hold, TypeOK
  <2>3. \A d \in Callers \ {c} : lock \notin held[d]
    BY <2>1 DEF Free
  <2>4. QED
    BY <2>2, <2>3 DEF LocksAreHeldOnce
<1>5. QED
  BY <1>1, <1>2, <1>3, <1>4

------------------------------------------------------------------------------
(* A task is well formed when it is made and when it gets its specification.*)
LEMMA TaskForms ==
  /\ \A r \in AllRequests :
       NewTask(r) \in Tasks /\ NewTask(r).request = r /\ NewTask(r).artifacts = {}
  /\ \A t \in Tasks, content \in Specifications :
       LET u == WithSpecification(t, content)
       IN  /\ u \in Tasks /\ u.request = t.request /\ u.artifacts = t.artifacts \cup {content}
           /\ u.log = t.log \o <<"ARTIFACT_REGISTERED", "SOURCE_INGESTED">>
  /\ \A t \in Tasks : t.request.id \in RequestIds
<1>1. ASSUME NEW r \in AllRequests
      PROVE  NewTask(r) \in Tasks /\ NewTask(r).request = r /\ NewTask(r).artifacts = {}
  <2>1. r.enqueue \in BOOLEAN
    <3>1. \A k \in Candidates : IssueRequest(k).enqueue = TRUE
      BY DEF IssueRequest
    <3>2. r \in Requests \/ \E k \in Candidates : r = IssueRequest(k)
      BY DEF AllRequests
    <3>3. QED
      BY <3>1, <3>2, IntakeAssumption
  <2>2. <<"TASK_RECEIVED">> \in Seq(Kinds)
    BY DEF Kinds
  <2>3. QED
    BY <2>1, <2>2 DEF NewTask, Tasks
<1>2. ASSUME NEW t \in Tasks, NEW content \in Specifications
      PROVE  LET u == WithSpecification(t, content)
             IN  /\ u \in Tasks /\ u.request = t.request
                 /\ u.artifacts = t.artifacts \cup {content}
                 /\ u.log = t.log \o <<"ARTIFACT_REGISTERED", "SOURCE_INGESTED">>
  <2> DEFINE events == <<"ARTIFACT_REGISTERED", "SOURCE_INGESTED">>
             mid == [t EXCEPT !.artifacts = @ \cup {content}]
  <2>1. events \in Seq(Kinds)
    BY DEF Kinds
  <2>2. t.log \o events \in Seq(Kinds)
    BY <2>1 DEF Tasks
  <2>3. mid \in Tasks /\ mid.request = t.request /\ mid.artifacts = t.artifacts \cup {content}
        /\ mid.log = t.log
    BY DEF Tasks
  <2>4. WithSpecification(t, content) = [mid EXCEPT !.log = t.log \o events]
    BY <2>3 DEF WithSpecification
  <2> HIDE DEF mid, events
  <2>5. [mid EXCEPT !.log = t.log \o events] \in Tasks
    BY <2>2, <2>3 DEF Tasks
  <2>6. QED
    BY <2>3, <2>4, <2>5 DEF Tasks, events
<1>3. ASSUME NEW t \in Tasks
      PROVE  t.request.id \in RequestIds
  BY DEF Tasks, RequestIds
<1>4. QED
  BY <1>1, <1>2, <1>3

(* What a commit does to tasks and intake ledger: the task t is now the one *)
(* of request id q, as a new task or in the place it had.                   *)
Files(q, id, t) ==
  /\ q \in RequestIds /\ t \in Tasks /\ t.request.id = q
  /\ tasks' \in Seq(Tasks) /\ Len(tasks') >= Len(tasks)
  /\ id \in 1..Len(tasks') /\ tasks'[id] = t
  /\ \A i \in 1..Len(tasks') : i # id => i \in 1..Len(tasks) /\ tasks'[i] = tasks[i]
  /\ intake' = [intake EXCEPT ![q] = id]
  /\ intake[q] = id \/ (intake[q] = 0 /\ id = Len(tasks) + 1)

Base(r) == IF intake[r.id] # 0 THEN tasks[intake[r.id]] ELSE NewTask(r)

LEMMA CommitsFile ==
  ASSUME TypeOK, IntakeTells, NEW c \in Callers, RequestIsOwn(c)
  PROVE  LET r == call[c].request
             id == IF intake[r.id] # 0 THEN intake[r.id] ELSE Len(tasks) + 1
         IN  /\ CommitStart(c) => Files(r.id, Len(tasks) + 1, NewTask(r)) /\ intake[r.id] = 0
             /\ CommitIngest(c) =>
                  /\ r.id = call[c].candidate.source
                  /\ Base(r) \in Tasks /\ Base(r).request.id = r.id
                  /\ Files(r.id, id, WithSpecification(Base(r), call[c].candidate.content))
<1> DEFINE r == call[c].request
           id == IF intake[r.id] # 0 THEN intake[r.id] ELSE Len(tasks) + 1
<1>k. tasks \in Seq(Tasks) /\ Len(tasks) \in Nat /\ intake \in [RequestIds -> 0..Len(tasks)]
  BY DEF TypeOK
<1>a. ASSUME NEW t \in Tasks, NEW q \in RequestIds, t.request.id = q, intake[q] = 0,
             tasks' = Append(tasks, t), intake' = [intake EXCEPT ![q] = Len(tasks) + 1]
      PROVE  Files(q, Len(tasks) + 1, t)
  BY <1>k, <1>a DEF Files
<1>b. ASSUME NEW t \in Tasks, NEW q \in RequestIds, t.request.id = q, intake[q] # 0,
             tasks' = [tasks EXCEPT ![intake[q]] = t], intake' = [intake EXCEPT ![q] = intake[q]]
      PROVE  Files(q, intake[q], t)
  <2>1. intake[q] \in 1..Len(tasks)
    BY <1>k, <1>b
  <2>2. tasks' \in Seq(Tasks) /\ Len(tasks') = Len(tasks) /\ tasks'[intake[q]] = t
        /\ \A i \in 1..Len(tasks) : i # intake[q] => tasks'[i] = tasks[i]
    BY <1>k, <1>b, <2>1
  <2>3. QED
    BY <1>b, <2>1, <2>2, <1>k DEF Files
<1>1. ASSUME CommitStart(c)
      PROVE  Files(r.id, Len(tasks) + 1, NewTask(r)) /\ intake[r.id] = 0
  <2>1. r \in AllRequests /\ r.id \in RequestIds /\ intake[r.id] = 0
    BY <1>1, CallKinds, Locking DEF CommitStart, At, RequestIsOwn
  <2>2. NewTask(r) \in Tasks /\ NewTask(r).request.id = r.id
    BY <2>1, TaskForms
  <2>3. QED
    BY <1>1, <1>a, <2>1, <2>2 DEF CommitStart
<1>2. ASSUME CommitIngest(c)
      PROVE  /\ r.id = call[c].candidate.source
             /\ Base(r) \in Tasks /\ Base(r).request.id = r.id
             /\ Files(r.id, id, WithSpecification(Base(r), call[c].candidate.content))
  <2>1. /\ r \in AllRequests /\ r.id \in RequestIds /\ call[c].candidate.content \in Specifications
        /\ r.id = call[c].candidate.source
    BY <1>2, CallKinds, Locking DEF CommitIngest, At, RequestIsOwn, IssueRequest
  <2>2. Base(r) \in Tasks /\ Base(r).request.id = r.id
    <3>1. CASE intake[r.id] # 0
      <4>1. intake[r.id] \in 1..Len(tasks)
        BY <1>k, <2>1, <3>1
      <4>2. QED
        BY <1>k, <2>1, <3>1, <4>1 DEF Base, IntakeTells
    <3>2. CASE intake[r.id] = 0
      BY <2>1, <3>2, TaskForms DEF Base
    <3>3. QED
      BY <3>1, <3>2
  <2> DEFINE t == WithSpecification(Base(r), call[c].candidate.content)
  <2>3. t \in Tasks /\ t.request.id = r.id
    BY <2>1, <2>2, TaskForms
  <2>4. /\ tasks' = IF intake[r.id] # 0 THEN [tasks EXCEPT ![id] = t] ELSE Append(tasks, t)
        /\ intake' = [intake EXCEPT ![r.id] = id]
    <3>1. CASE intake[r.id] # 0
      <4>1. intake[r.id] \in 1..Len(tasks)
        BY <1>k, <2>1, <3>1
      <4>2. QED
        BY <1>2, <1>k, <3>1, <4>1 DEF CommitIngest, Base
    <3>2. CASE intake[r.id] = 0
      BY <1>2, <3>2 DEF CommitIngest, Base
    <3>3. QED
      BY <3>1, <3>2
  <2> HIDE DEF t
  <2>5. Files(r.id, id, t)
    BY <2>1, <2>3, <2>4, <1>a, <1>b
  <2>6. QED
    BY <2>1, <2>2, <2>5 DEF t
<1>3. QED
  BY <1>1, <1>2

(* Every other step leaves tasks and ledgers as they are.                   *)
LEMMA OthersKeepBooks ==
  ASSUME NEW c \in Callers, Moves(c)
  PROVE  \/ CommitStart(c) \/ CommitIngest(c)
         \/ UNCHANGED <<tasks, intake, sources, catalog>>
BY DEF Moves, BeginStart, BeginIngest, LockFuse, LockSource, LockTrigger, Lookup, Create, Store,
       BeginSwitch, InsertControlEvent, CommitSwitch, Crash, tables

------------------------------------------------------------------------------
(* Types.                                                                   *)
LEMMA CallsStep ==
  ASSUME TypeOK, NEW c \in Callers, NumberIsLast(c), Moves(c)
  PROVE  /\ call' \in [Callers -> Switches \cup Starts \cup Ingests \cup {NoCall}]
         /\ numbered' \in 0..MaxSwitches /\ fuse' \in BOOLEAN
         /\ audit' \subseteq [number : 1..MaxSwitches, engaged : BOOLEAN]
<1>1. \E new : call' = [call EXCEPT ![c] = new]
  BY DEF Moves, BeginStart, BeginIngest, LockFuse, LockSource, LockTrigger, Lookup, Create, Store,
         CommitStart, CommitIngest, BeginSwitch, InsertControlEvent, CommitSwitch, Crash,
         End, GoTo
<1>2. call'[c] \in Switches \cup Starts \cup Ingests \cup {NoCall}
  <2>1. ASSUME NEW r \in Requests, BeginStart(c, r)
        PROVE  call'[c] \in Starts
    BY <2>1 DEF BeginStart, TypeOK, Starts, AllRequests
  <2>2. ASSUME NEW k \in Candidates, BeginIngest(c, k)
        PROVE  call'[c] \in Ingests
    BY <2>2 DEF BeginIngest, TypeOK, Ingests, AllRequests
  <2>3. ASSUME LockFuse(c) \/ LockSource(c) \/ LockTrigger(c) \/ Lookup(c) \/ Store(c)
        PROVE  call'[c] \in Ingests \cup {NoCall}
    BY <2>3, CallKinds, GoingOn, Ending
       DEF LockFuse, LockSource, LockTrigger, Lookup, Store, At, IngestSteps
  <2>4. ASSUME Create(c)
        PROVE  call'[c] \in Starts \cup Ingests \cup {NoCall}
    BY <2>4, CallKinds, GoingOn, Ending DEF Create, At, IngestSteps
  <2>5. ASSUME NEW engaged \in BOOLEAN, BeginSwitch(c, engaged)
        PROVE  call'[c] \in Switches
    BY <2>5, IntakeAssumption DEF BeginSwitch, TypeOK, Switches
  <2>6. ASSUME InsertControlEvent(c)
        PROVE  call'[c] \in Switches
    <3>1. call[c] \in Switches
      BY <2>6, CallKinds DEF InsertControlEvent, At
    <3>2. numbered + 1 \in 0..MaxSwitches
      BY <2>6, IntakeAssumption DEF InsertControlEvent, TypeOK
    <3>3. call'[c] = [[call[c] EXCEPT !.next = "SWITCH"] EXCEPT !.number = numbered + 1]
      BY <2>6 DEF InsertControlEvent, TypeOK
    <3>4. QED
      BY <3>1, <3>2, <3>3 DEF Switches
  <2>7. ASSUME CommitStart(c) \/ CommitIngest(c) \/ CommitSwitch(c) \/ Crash(c)
        PROVE  call'[c] = NoCall
    BY <2>7, Ending DEF CommitStart, CommitIngest, CommitSwitch, Crash
  <2>8. QED
    BY <2>1, <2>2, <2>3, <2>4, <2>5, <2>6, <2>7 DEF Moves
<1>3. call' \in [Callers -> Switches \cup Starts \cup Ingests \cup {NoCall}]
  BY <1>1, <1>2 DEF TypeOK
<1>4. numbered' \in 0..MaxSwitches
  <2>1. numbered' = numbered \/ InsertControlEvent(c)
    BY DEF Moves, BeginStart, BeginIngest, LockFuse, LockSource, LockTrigger, Lookup, Create,
           Store, CommitStart, CommitIngest, BeginSwitch, CommitSwitch, Crash
  <2>2. QED
    BY <2>1, IntakeAssumption DEF TypeOK, InsertControlEvent
<1>5. (fuse' = fuse /\ audit' = audit) \/ CommitSwitch(c)
  BY DEF tables, Moves, BeginStart, BeginIngest, LockFuse, LockSource, LockTrigger, Lookup, Create,
         Store, CommitStart, CommitIngest, BeginSwitch, InsertControlEvent, Crash
<1>6. ASSUME CommitSwitch(c)
      PROVE  /\ fuse' \in BOOLEAN
             /\ audit' \subseteq [number : 1..MaxSwitches, engaged : BOOLEAN]
  <2>1. call[c] \in Switches /\ call[c].number \in 1..numbered
    BY <1>6, CallKinds DEF CommitSwitch, NumberIsLast, At
  <2>2. call[c].engaged \in BOOLEAN /\ call[c].number \in 1..MaxSwitches
    BY <2>1, IntakeAssumption DEF Switches, TypeOK
  <2>3. QED
    BY <1>6, <2>2 DEF CommitSwitch, TypeOK
<1>7. QED
  BY <1>3, <1>4, <1>5, <1>6 DEF TypeOK

(* Ledgers and catalog.                                                     *)
LEMMA LedgersStep ==
  ASSUME TypeOK, IntakeTells, NEW c \in Callers, RequestIsOwn(c), Moves(c)
  PROVE  /\ tasks' \in Seq(Tasks) /\ Len(tasks') >= Len(tasks)
         /\ intake' \in [RequestIds -> 0..Len(tasks')]
         /\ sources' \in [Sources -> [task : 1..Len(tasks'), candidate : Candidates] \cup {NoSource}]
         /\ catalog' \subseteq Specifications /\ store' \subseteq Specifications
         /\ store \subseteq store'
<1>k. /\ tasks \in Seq(Tasks) /\ Len(tasks) \in Nat /\ intake \in [RequestIds -> 0..Len(tasks)]
      /\ sources \in [Sources -> [task : 1..Len(tasks), candidate : Candidates] \cup {NoSource}]
      /\ catalog \subseteq Specifications /\ store \subseteq Specifications
  BY DEF TypeOK
<1>1. ASSUME NEW q, NEW id, NEW t, Files(q, id, t)
      PROVE  /\ tasks' \in Seq(Tasks) /\ Len(tasks') >= Len(tasks) /\ Len(tasks') \in Nat
             /\ id \in 1..Len(tasks')
             /\ intake' \in [RequestIds -> 0..Len(tasks')]
             /\ sources \in [Sources -> [task : 1..Len(tasks'), candidate : Candidates]
                                         \cup {NoSource}]
  <2>1. /\ tasks' \in Seq(Tasks) /\ Len(tasks') >= Len(tasks) /\ Len(tasks') \in Nat
        /\ id \in 1..Len(tasks') /\ q \in RequestIds
        /\ intake' = [intake EXCEPT ![q] = id]
    BY <1>1 DEF Files
  <2>2. 0..Len(tasks) \subseteq 0..Len(tasks') /\ 1..Len(tasks) \subseteq 1..Len(tasks')
    BY <1>k, <2>1
  <2>3. [task : 1..Len(tasks), candidate : Candidates]
          \subseteq [task : 1..Len(tasks'), candidate : Candidates]
    BY <2>2
  <2>4. intake' \in [RequestIds -> 0..Len(tasks')]
    BY <1>k, <2>1, <2>2
  <2>5. QED
    BY <1>k, <2>1, <2>3, <2>4
<1>2. store' \subseteq Specifications /\ store \subseteq store'
  <2>1. CASE Store(c)
    BY <1>k, <2>1, CallKinds, Locking DEF Store, Stored, At
  <2>2. CASE store' = store
    BY <1>k, <2>2
  <2>3. QED
    BY <2>1, <2>2 DEF Moves, BeginStart, BeginIngest, LockFuse, LockSource, LockTrigger, Lookup,
       Create, CommitStart, CommitIngest, BeginSwitch, InsertControlEvent, CommitSwitch, Crash
<1>3. CASE CommitStart(c)
  <2>1. Files(call[c].request.id, Len(tasks) + 1, NewTask(call[c].request))
    BY <1>3, CommitsFile
  <2>2. sources' = sources /\ catalog' = catalog
    BY <1>3 DEF CommitStart
  <2>3. QED
    BY <1>1, <1>2, <1>k, <2>1, <2>2
<1>4. CASE CommitIngest(c)
  <2> DEFINE r == call[c].request
             id == IF intake[r.id] # 0 THEN intake[r.id] ELSE Len(tasks) + 1
  <2>1. Files(r.id, id, WithSpecification(Base(r), call[c].candidate.content))
    BY <1>4, CommitsFile
  <2>2. call[c].candidate \in Candidates /\ call[c].candidate.content \in Specifications
        /\ call[c].candidate.source \in Sources
    BY <1>4, CallKinds, Locking DEF CommitIngest, At
  <2>3. /\ sources' = [sources EXCEPT ![call[c].candidate.source] =
                         [task |-> id, candidate |-> call[c].candidate]]
        /\ catalog' = catalog \cup {call[c].candidate.content}
    BY <1>4 DEF CommitIngest
  <2> HIDE DEF id
  <2>4. [task |-> id, candidate |-> call[c].candidate]
          \in [task : 1..Len(tasks'), candidate : Candidates]
    BY <1>1, <2>1, <2>2
  <2>5. QED
    BY <1>1, <1>2, <1>k, <2>1, <2>2, <2>3, <2>4
<1>5. CASE UNCHANGED <<tasks, intake, sources, catalog>>
  BY <1>5, <1>k, <1>2
<1>6. QED
  BY <1>3, <1>4, <1>5, OthersKeepBooks

------------------------------------------------------------------------------
(* Only the call that holds the fuse's row switches it, so that no other is *)
(* about to commit an ingestion or another switch, and its number is last.  *)
LEMMA SwitchStep ==
  ASSUME TypeOK, LocksAreHeldOnce, \A d \in Callers : FuseIsLocked(d) /\ NumberIsLast(d),
         NumbersAreGiven, NEW c \in Callers, CommitSwitch(c)
  PROVE  /\ \A d \in Callers : FuseIsLocked(d)' /\ NumberIsLast(d)'
         /\ NumbersAreGiven' /\ AuditTellsFuse'
<1> DEFINE event == [number |-> call[c].number, engaged |-> call[c].engaged]
<1>1. Moves(c)
  BY DEF Moves
<1>2. /\ FuseRow \in held[c] /\ call[c].number \in 1..numbered
      /\ \A e \in audit : e.number < call[c].number
  BY DEF CommitSwitch, At, FuseIsLocked, NumberIsLast
<1>3. fuse' = event.engaged /\ audit' = audit \cup {event} /\ numbered' = numbered
  BY DEF CommitSwitch
<1>4. ASSUME NEW d \in Callers
      PROVE  FuseIsLocked(d)' /\ NumberIsLast(d)'
  <2>1. CASE d = c
    <3>1. call'[d].next = "IDLE" /\ ~Ingesting(d)'
      BY <2>1, Ending DEF CommitSwitch
    <3>2. QED
      BY <3>1 DEF FuseIsLocked, NumberIsLast, At
  <2>2. CASE d # c
    <3>1. call'[d] = call[d] /\ (Ingesting(d)' <=> Ingesting(d))
      BY <1>1, <2>2, OthersStay
    <3>2. FuseRow \notin held[d]
      BY <1>2, <2>2 DEF LocksAreHeldOnce
    <3>3. call[d].next \notin {"AUDIT", "SWITCH"} /\ (Ingesting(d) => call[d].next = "FUSE")
      BY <3>2 DEF FuseIsLocked
    <3>4. QED
      BY <3>1, <3>3 DEF FuseIsLocked, NumberIsLast, At
  <2>3. QED
    BY <2>1, <2>2
<1>5. event.number = call[c].number
  OBVIOUS
<1> HIDE DEF event
<1>6. numbered \in Nat /\ \A e \in audit : e.number \in Nat
  BY IntakeAssumption DEF TypeOK
<1>7. NumbersAreGiven'
  BY <1>2, <1>3, <1>5, <1>6 DEF NumbersAreGiven
<1>8. AuditTellsFuse'
  <2>1. \A e \in audit' : e.number <= event.number
    BY <1>2, <1>3, <1>5, <1>6
  <2>2. QED
    BY <1>3, <2>1 DEF AuditTellsFuse
<1>9. QED
  BY <1>4, <1>7, <1>8

LEMMA FuseStep ==
  ASSUME TypeOK, LocksAreHeldOnce, \A d \in Callers : FuseIsLocked(d) /\ NumberIsLast(d),
         NumbersAreGiven, AuditTellsFuse, NEW c \in Callers, Moves(c)
  PROVE  /\ \A d \in Callers : FuseIsLocked(d)' /\ NumberIsLast(d)'
         /\ NumbersAreGiven' /\ AuditTellsFuse'
<1>1. CASE CommitSwitch(c)
  BY <1>1, SwitchStep
<1>2. CASE ~CommitSwitch(c)
  <2>1. fuse' = fuse /\ audit' = audit
    BY <1>2 DEF tables, Moves, BeginStart, BeginIngest, LockFuse, LockSource, LockTrigger, Lookup,
       Create, Store, CommitStart, CommitIngest, BeginSwitch, InsertControlEvent, Crash
  <2>2. numbered \in Nat /\ \A e \in audit : e.number \in Nat
    BY IntakeAssumption DEF TypeOK
  <2>3. numbered' = numbered \/ (InsertControlEvent(c) /\ numbered' = numbered + 1)
    BY <1>2 DEF Moves, BeginStart, BeginIngest, LockFuse, LockSource, LockTrigger, Lookup,
       Create, Store, CommitStart, CommitIngest, BeginSwitch, InsertControlEvent, Crash
  <2>4. NumbersAreGiven' /\ AuditTellsFuse'
    BY <2>1, <2>2, <2>3 DEF NumbersAreGiven, AuditTellsFuse
  <2>5. ASSUME NEW d \in Callers, d # c
        PROVE  FuseIsLocked(d)' /\ NumberIsLast(d)'
    <3>1. /\ call'[d] = call[d] /\ held'[d] = held[d] /\ (Ingesting(d)' <=> Ingesting(d))
      BY <2>5, OthersStay
    <3>2. At(d, "SWITCH") => call[d].number \in 1..numbered
      BY DEF NumberIsLast
    <3>3. At(d, "SWITCH") => call[d].number \in 1..numbered'
      BY <2>2, <2>3, <3>2
    <3>4. QED
      BY <2>1, <3>1, <3>3 DEF FuseIsLocked, NumberIsLast, At
  <2>6. FuseIsLocked(c)' /\ NumberIsLast(c)'
    <3>1. CASE End(c)
      <4>1. call'[c].next = "IDLE" /\ ~Ingesting(c)'
        BY <3>1, Ending
      <4>2. QED
        BY <4>1 DEF FuseIsLocked, NumberIsLast, At
    <3>2. ASSUME NEW r \in Requests, BeginStart(c, r)
          PROVE  FuseIsLocked(c)' /\ NumberIsLast(c)'
      <4>1. call'[c].next = "CREATE" /\ ~Ingesting(c)'
        BY <3>2 DEF BeginStart, TypeOK, Ingesting
      <4>2. QED
        BY <4>1 DEF FuseIsLocked, NumberIsLast, At
    <3>3. ASSUME NEW k \in Candidates, BeginIngest(c, k)
          PROVE  FuseIsLocked(c)' /\ NumberIsLast(c)'
      <4>1. call'[c].next = "FUSE"
        BY <3>3 DEF BeginIngest, TypeOK
      <4>2. QED
        BY <4>1 DEF FuseIsLocked, NumberIsLast, At
    <3>4. CASE LockFuse(c) /\ ~End(c)
      <4>1. ~fuse /\ Hold(c, FuseRow) /\ GoTo(c, "SOURCE")
        BY <3>4 DEF LockFuse
      <4>2. FuseRow \in held'[c]
        BY <4>1 DEF Hold, TypeOK
      <4>3. call'[c].next = "SOURCE"
        BY <3>4, <4>1, CallKinds, GoingOn DEF LockFuse, At, IngestSteps
      <4>4. QED
        BY <2>1, <4>1, <4>2, <4>3 DEF FuseIsLocked, NumberIsLast, At
    <3>5. CASE (LockSource(c) \/ LockTrigger(c) \/ Lookup(c) \/ Create(c) \/ Store(c)) /\ ~End(c)
      <4>1. /\ call'[c].next \in {"TRIGGER", "LOOKUP", "CREATE", "STORE", "COMMIT"}
            /\ Ingesting(c)' <=> Ingesting(c)
            /\ call[c].next # "FUSE"
        <5>1. CASE LockSource(c) \/ LockTrigger(c) \/ Lookup(c) \/ Store(c)
          BY <3>5, <5>1, CallKinds, GoingOn
             DEF LockSource, LockTrigger, Lookup, Store, At, IngestSteps
        <5>2. CASE Create(c)
          BY <3>5, <5>2, CallKinds, GoingOn DEF Create, At, IngestSteps
        <5>3. QED
          BY <3>5, <5>1, <5>2
      <4>2. held[c] \subseteq held'[c]
        BY <3>5, LocksStep
      <4>3. QED
        BY <2>1, <4>1, <4>2 DEF FuseIsLocked, NumberIsLast, At
    <3>6. ASSUME NEW engaged \in BOOLEAN, BeginSwitch(c, engaged)
          PROVE  FuseIsLocked(c)' /\ NumberIsLast(c)'
      <4>1. call'[c].next = "AUDIT" /\ ~Ingesting(c)' /\ FuseRow \in held'[c]
        BY <3>6 DEF BeginSwitch, Hold, TypeOK, Ingesting
      <4>2. QED
        BY <4>1 DEF FuseIsLocked, NumberIsLast, At
    <3>7. CASE InsertControlEvent(c)
      <4>1. call[c] \in Switches /\ FuseRow \in held[c] /\ held' = held
        BY <3>7, CallKinds DEF InsertControlEvent, At, FuseIsLocked
      <4>2. call'[c] = [[call[c] EXCEPT !.next = "SWITCH"] EXCEPT !.number = numbered + 1]
        BY <3>7 DEF InsertControlEvent, TypeOK
      <4>3. call'[c].next = "SWITCH" /\ call'[c].number = numbered + 1 /\ ~Ingesting(c)'
        BY <4>1, <4>2 DEF Switches, Ingesting
      <4>4. numbered' = numbered + 1
        BY <3>7 DEF InsertControlEvent
      <4>5. \A e \in audit' : e.number < numbered + 1
        BY <2>1, <2>2 DEF NumbersAreGiven
      <4>6. QED
        BY <2>2, <4>1, <4>3, <4>4, <4>5 DEF FuseIsLocked, NumberIsLast, At
    <3>8. QED
      BY <1>2, <3>1, <3>2, <3>3, <3>4, <3>5, <3>6, <3>7
         DEF Moves, CommitStart, CommitIngest, Crash
  <2>7. QED
    BY <2>4, <2>5, <2>6
<1>3. QED
  BY <1>1, <1>2

------------------------------------------------------------------------------
(* A call that was not rolled back still has its request, and what it has   *)
(* found about it stays true, for the request's key is its own.             *)
LEMMA RequestStep ==
  ASSUME TypeOK, LocksAreHeldOnce, IntakeTells, NEW c \in Callers, Moves(c),
         \A d \in Callers : RequestIsOwn(d) /\ BlobIsThere(d)
  PROVE  \A d \in Callers : RequestIsOwn(d)' /\ BlobIsThere(d)'
<1>s. store \subseteq store'
  BY LedgersStep
<1>1. ASSUME NEW d \in Callers, d # c
      PROVE  RequestIsOwn(d)' /\ BlobIsThere(d)'
  <2>1. /\ call'[d] = call[d] /\ held'[d] = held[d] /\ (Ingesting(d)' <=> Ingesting(d))
    BY <1>1, OthersStay
  <2>2. BlobIsThere(d)'
    BY <1>s, <2>1 DEF BlobIsThere, At
  <2> DEFINE q == call[d].request.id
             p == call[c].request.id
  <2>3. ASSUME call[d].next \in {"STORE", "COMMIT"}
        PROVE  intake'[q] = intake[q]
    <3>1. RequestKey(q) \in held[d]
      BY <2>3 DEF RequestIsOwn
    <3>2. CASE CommitStart(c) \/ CommitIngest(c)
      <4>1. RequestKey(p) \in held[c]
        BY <3>2 DEF CommitStart, CommitIngest, At, RequestIsOwn
      <4>2. RequestKey(p) # RequestKey(q)
        BY <1>1, <3>1, <4>1 DEF LocksAreHeldOnce
      <4>3. p # q
        BY <4>2
      <4>4. \E id : intake' = [intake EXCEPT ![p] = id]
        BY <3>2 DEF CommitStart, CommitIngest
      <4>5. q \in RequestIds
        BY <2>3, CallKinds, Locking
      <4>6. QED
        BY <4>3, <4>4, <4>5 DEF TypeOK
    <3>3. CASE UNCHANGED <<tasks, intake, sources, catalog>>
      BY <3>3
    <3>4. QED
      BY <3>2, <3>3, OthersKeepBooks
  <2>4. RequestIsOwn(d)'
    BY <2>1, <2>3 DEF RequestIsOwn
  <2>5. QED
    BY <2>2, <2>4
<1>2. RequestIsOwn(c)' /\ BlobIsThere(c)'
  <2>1. CASE End(c)
    <3>1. call'[c].next = "IDLE" /\ ~Ingesting(c)'
      BY <2>1, Ending
    <3>2. QED
      BY <3>1 DEF RequestIsOwn, BlobIsThere, At
  <2>2. ASSUME NEW r \in Requests, BeginStart(c, r)
        PROVE  RequestIsOwn(c)' /\ BlobIsThere(c)'
    <3>1. call'[c].next = "CREATE" /\ ~Ingesting(c)'
      BY <2>2 DEF BeginStart, TypeOK, Ingesting
    <3>2. QED
      BY <3>1 DEF RequestIsOwn, BlobIsThere, At
  <2>3. ASSUME NEW k \in Candidates, BeginIngest(c, k)
        PROVE  RequestIsOwn(c)' /\ BlobIsThere(c)'
    <3>1. /\ call'[c].next = "FUSE" /\ call'[c].request = IssueRequest(k)
          /\ call'[c].candidate = k
      BY <2>3 DEF BeginIngest, TypeOK
    <3>2. QED
      BY <3>1 DEF RequestIsOwn, BlobIsThere, At
  <2>4. CASE (LockFuse(c) \/ LockSource(c) \/ LockTrigger(c) \/ Lookup(c)) /\ ~End(c)
    <3>1. /\ Ingesting(c)
          /\ call'[c].next \in {"SOURCE", "TRIGGER", "LOOKUP", "CREATE"}
          /\ call'[c].request = call[c].request /\ call'[c].candidate = call[c].candidate
      BY <2>4, CallKinds, GoingOn
         DEF LockFuse, LockSource, LockTrigger, Lookup, At, IngestSteps
    <3>2. QED
      BY <3>1 DEF RequestIsOwn, BlobIsThere, At
  <2>5. CASE Create(c) /\ ~End(c)
    <3>1. /\ Hold(c, RequestKey(call[c].request.id))
          /\ GoTo(c, IF Ingesting(c) THEN "STORE" ELSE "COMMIT")
          /\ Ingesting(c) \/ intake[call[c].request.id] = 0
          /\ intake' = intake
      BY <2>5 DEF Create, tables
    <3>2. RequestKey(call[c].request.id) \in held'[c]
      BY <3>1 DEF Hold, TypeOK
    <3>3. CASE Ingesting(c)
      <4>1. /\ call'[c].next = "STORE" /\ Ingesting(c)'
            /\ call'[c].request = call[c].request /\ call'[c].candidate = call[c].candidate
        BY <3>1, <3>3, CallKinds, GoingOn DEF IngestSteps
      <4>2. QED
        BY <3>2, <3>3, <4>1 DEF RequestIsOwn, BlobIsThere, At
    <3>4. CASE ~Ingesting(c)
      <4>1. call[c] \in Starts
        BY <2>5, <3>4, CallKinds DEF Create, At
      <4>2. /\ call'[c].next = "COMMIT" /\ ~Ingesting(c)'
            /\ call'[c].request = call[c].request
        BY <3>1, <3>4, <4>1, GoingOn
      <4>3. QED
        BY <3>1, <3>2, <3>4, <4>2 DEF RequestIsOwn, BlobIsThere, At
    <3>5. QED
      BY <3>3, <3>4
  <2>6. CASE Store(c)
    <3>1. /\ Ingesting(c) /\ call'[c].next = "COMMIT" /\ Ingesting(c)'
          /\ call'[c].request = call[c].request /\ call'[c].candidate = call[c].candidate
          /\ RequestKey(call[c].request.id) \in held[c] /\ held' = held
      BY <2>6, CallKinds, GoingOn DEF Store, At, IngestSteps, RequestIsOwn
    <3>2. call[c].candidate.content \in store'
      BY <2>6 DEF Store, Stored
    <3>3. QED
      BY <3>1, <3>2 DEF RequestIsOwn, BlobIsThere, At
  <2>7. ASSUME NEW engaged \in BOOLEAN, BeginSwitch(c, engaged)
        PROVE  RequestIsOwn(c)' /\ BlobIsThere(c)'
    <3>1. call'[c].next = "AUDIT" /\ ~Ingesting(c)'
      BY <2>7 DEF BeginSwitch, TypeOK, Ingesting
    <3>2. QED
      BY <3>1 DEF RequestIsOwn, BlobIsThere, At
  <2>8. CASE InsertControlEvent(c)
    <3>1. call[c] \in Switches
      BY <2>8, CallKinds DEF InsertControlEvent, At
    <3>2. call'[c] = [[call[c] EXCEPT !.next = "SWITCH"] EXCEPT !.number = numbered + 1]
      BY <2>8 DEF InsertControlEvent, TypeOK
    <3>3. call'[c].next = "SWITCH" /\ ~Ingesting(c)'
      BY <3>1, <3>2 DEF Switches, Ingesting
    <3>4. QED
      BY <3>3 DEF RequestIsOwn, BlobIsThere, At
  <2>9. QED
    BY <2>1, <2>2, <2>3, <2>4, <2>5, <2>6, <2>7, <2>8
       DEF Moves, CommitStart, CommitIngest, CommitSwitch, Crash
<1>3. QED
  BY <1>1, <1>2

------------------------------------------------------------------------------
(* The events of an ingestion count as one.                                 *)
LEMMA OneIngestion ==
  ASSUME NEW log \in Seq(Kinds), \A n \in 1..Len(log) : log[n] # "SOURCE_INGESTED"
  PROVE  LET new == log \o <<"ARTIFACT_REGISTERED", "SOURCE_INGESTED">>
         IN  {n \in 1..Len(new) : new[n] = "SOURCE_INGESTED"} = {Len(log) + 2}
<1> DEFINE new == log \o <<"ARTIFACT_REGISTERED", "SOURCE_INGESTED">>
<1>1. Len(log) \in Nat /\ Len(new) = Len(log) + 2
  OBVIOUS
<1>2. \A n \in 1..Len(log) : new[n] = log[n]
  OBVIOUS
<1>3. new[Len(log) + 1] = "ARTIFACT_REGISTERED" /\ new[Len(log) + 2] = "SOURCE_INGESTED"
  OBVIOUS
<1> HIDE DEF new
<1>4. \A n \in 1..Len(new) : n \in 1..Len(log) \/ n = Len(log) + 1 \/ n = Len(log) + 2
  BY <1>1
<1>5. Len(log) + 2 \in 1..Len(new)
  BY <1>1
<1>6. \A n \in 1..Len(new) : new[n] = "SOURCE_INGESTED" <=> n = Len(log) + 2
  BY <1>1, <1>2, <1>3, <1>4
<1>7. {n \in 1..Len(new) : new[n] = "SOURCE_INGESTED"} = {Len(log) + 2}
  BY <1>5, <1>6
<1>8. QED
  BY <1>7 DEF new

(* An issue's key is a request id, and an ingested issue has a task.        *)
LEMMA SourcesAreRequests ==
  ASSUME TypeOK
  PROVE  /\ Sources \subseteq RequestIds
         /\ \A s \in Sources : Ingested(s) => sources[s].task \in 1..Len(tasks)
<1>1. ASSUME NEW s \in Sources
      PROVE  s \in RequestIds
  <2>1. PICK k \in Candidates : s = k.source
    BY DEF Sources
  <2>2. IssueRequest(k) \in AllRequests /\ IssueRequest(k).id = s
    BY <2>1 DEF AllRequests, IssueRequest
  <2>3. QED
    BY <2>2 DEF RequestIds
<1>2. ASSUME NEW s \in Sources, Ingested(s)
      PROVE  sources[s].task \in 1..Len(tasks)
  BY <1>2 DEF TypeOK, Ingested
<1>3. QED
  BY <1>1, <1>2

(* A commit leaves the tasks and ledger rows of all other requests alone.   *)
LEMMA FilingStep ==
  ASSUME TypeOK, IntakeTells, NEW q, NEW id, NEW t, Files(q, id, t)
  PROVE  /\ IntakeTells'
         /\ intake'[q] = id
         /\ \A p \in RequestIds \ {q} : intake'[p] = intake[p]
         /\ \A i \in 1..Len(tasks') : i # id =>
              /\ i \in 1..Len(tasks) /\ tasks'[i] = tasks[i]
              /\ tasks[i].request.id \in RequestIds \ {q}
<1>k. tasks \in Seq(Tasks) /\ Len(tasks) \in Nat /\ intake \in [RequestIds -> 0..Len(tasks)]
  BY DEF TypeOK
<1>1. /\ q \in RequestIds /\ t.request.id = q /\ tasks' \in Seq(Tasks) /\ Len(tasks') \in Nat
      /\ Len(tasks') >= Len(tasks) /\ id \in 1..Len(tasks') /\ tasks'[id] = t
      /\ intake[q] = id \/ (intake[q] = 0 /\ id = Len(tasks) + 1)
      /\ \A i \in 1..Len(tasks') : i # id => i \in 1..Len(tasks) /\ tasks'[i] = tasks[i]
  BY DEF Files
<1>2. intake'[q] = id /\ \A p \in RequestIds \ {q} : intake'[p] = intake[p]
  BY <1>k DEF Files
<1>3. ASSUME NEW i \in 1..Len(tasks'), i # id
      PROVE  /\ i \in 1..Len(tasks) /\ tasks'[i] = tasks[i]
             /\ tasks[i].request.id \in RequestIds \ {q}
  <2>1. i \in 1..Len(tasks) /\ tasks'[i] = tasks[i] /\ tasks[i] \in Tasks
    BY <1>1, <1>3, <1>k
  <2>2. intake[tasks[i].request.id] = i
    BY <2>1 DEF IntakeTells
  <2>3. tasks[i].request.id # q
    BY <1>1, <1>3, <1>k, <2>1, <2>2
  <2>4. QED
    BY <2>1, <2>3, TaskForms
<1>4. \A i \in 1..Len(tasks') : intake'[tasks'[i].request.id] = i
  <2>1. ASSUME NEW i \in 1..Len(tasks'), i # id
        PROVE  intake'[tasks'[i].request.id] = i
    BY <1>2, <1>3, <2>1 DEF IntakeTells
  <2>2. QED
    BY <1>1, <1>2, <2>1
<1>5. ASSUME NEW p \in RequestIds, intake'[p] # 0
      PROVE  tasks'[intake'[p]].request.id = p
  <2>1. CASE p = q
    BY <1>1, <1>2, <2>1
  <2>2. CASE p # q
    <3>1. intake[p] \in 1..Len(tasks) /\ tasks[intake[p]].request.id = p /\ intake'[p] = intake[p]
      BY <1>2, <1>5, <1>k, <2>2 DEF IntakeTells
    <3>2. intake[p] # id
      <4>1. CASE intake[q] = id
        <5>1. id # 0 /\ tasks[id].request.id = q
          BY <1>1, <4>1 DEF IntakeTells
        <5>2. QED
          BY <2>2, <3>1, <5>1
      <4>2. CASE id = Len(tasks) + 1
        BY <1>k, <3>1, <4>2
      <4>3. QED
        BY <1>1, <4>1, <4>2
    <3>3. intake[p] \in 1..Len(tasks')
      BY <1>1, <1>k, <3>1
    <3>4. QED
      BY <1>1, <3>1, <3>2, <3>3
  <2>3. QED
    BY <2>1, <2>2
<1>6. QED
  BY <1>2, <1>3, <1>4, <1>5 DEF IntakeTells

(* start makes a task that no issue has been ingested into.                 *)
LEMMA StartStep ==
  ASSUME TypeOK, Books, NEW c \in Callers, RequestIsOwn(c), CommitStart(c)
  PROVE  Books'
<1>0. PICK r, q, id : r = call[c].request /\ q = r.id /\ id = Len(tasks) + 1
  OBVIOUS
<1>1. Files(q, id, NewTask(r)) /\ intake[q] = 0 /\ sources' = sources
  BY <1>0, CommitsFile DEF Books, CommitStart
<1>2. /\ IntakeTells' /\ intake'[q] = id
      /\ \A p \in RequestIds \ {q} : intake'[p] = intake[p]
      /\ \A i \in 1..Len(tasks') : i # id =>
           /\ i \in 1..Len(tasks) /\ tasks'[i] = tasks[i]
           /\ tasks[i].request.id \in RequestIds \ {q}
  BY <1>1, FilingStep DEF Books
<1>3. q \in Sources => ~Ingested(q)
  BY <1>1, SourcesAreRequests DEF Books, SourcesTell, TypeOK
<1>4. SourcesTell'
  BY <1>1, <1>2, <1>3, SourcesAreRequests DEF Books, SourcesTell, Ingested
<1>5. TriggersAreUsedOnce'
  BY <1>1 DEF Books, TriggersAreUsedOnce, Ingested
<1>6. IngestedOnce'
  <2>1. ASSUME NEW i \in 1..Len(tasks'), i # id, NEW p, p = tasks'[i].request.id
        PROVE  IF p \in Sources /\ Ingested(p)'
               THEN \E n \in Nat : Ingestions(i)' = {n}
               ELSE Ingestions(i)' = {}
    <3>1. i \in 1..Len(tasks) /\ tasks'[i] = tasks[i]
      BY <1>2, <2>1
    <3>2. Ingestions(i)' = Ingestions(i)
      BY <3>1 DEF Ingestions
    <3>3. Ingested(p)' <=> Ingested(p)
      BY <1>1 DEF Ingested
    <3>4. QED
      BY <2>1, <3>1, <3>2, <3>3 DEF Books, IngestedOnce
  <2>2. /\ tasks'[id].request.id = q /\ tasks'[id].log = <<"TASK_RECEIVED">>
    BY <1>1 DEF Files, NewTask
  <2>3. Ingestions(id)' = {}
    BY <2>2 DEF Ingestions
  <2>4. q \in Sources => ~Ingested(q)'
    BY <1>1, <1>3 DEF Ingested
  <2>5. QED
    BY <2>1, <2>2, <2>3, <2>4 DEF IngestedOnce
<1>7. QED
  BY <1>2, <1>4, <1>5, <1>6 DEF Books

(* ingest adds its event to the task of its issue, which had none.          *)
LEMMA IngestStep ==
  ASSUME TypeOK, Books, NEW c \in Callers, RequestIsOwn(c), CommitIngest(c)
  PROVE  Books'
<1>0. PICK r, k, q, id, base, t, row :
        /\ r = call[c].request /\ k = call[c].candidate /\ q = r.id
        /\ id = IF intake[q] # 0 THEN intake[q] ELSE Len(tasks) + 1
        /\ base = Base(r) /\ t = WithSpecification(base, k.content)
        /\ row = [task |-> id, candidate |-> k]
  OBVIOUS
<1>1. /\ Files(q, id, t) /\ q = k.source /\ base \in Tasks /\ base.request.id = q
  BY <1>0, CommitsFile DEF Books
<1>2. /\ k \in Candidates /\ q \in Sources /\ k.content \in Specifications
      /\ ~Ingested(q) /\ ~TriggerUsed(k.trigger)
  BY <1>0, <1>1, CallKinds, Locking DEF CommitIngest, At
<1>3. /\ sources' = [sources EXCEPT ![q] = row] /\ DOMAIN sources = Sources
  BY <1>0, <1>1 DEF CommitIngest, TypeOK
<1>4. row # NoSource /\ row.task = id /\ row.candidate = k
  BY <1>0 DEF NoSource
<1>5. \A n \in 1..Len(base.log) : base.log[n] # "SOURCE_INGESTED"
  <2>1. CASE intake[q] # 0
    <3>1. intake[q] \in 1..Len(tasks) /\ base = tasks[intake[q]]
      BY <1>0, <1>2, <2>1, SourcesAreRequests DEF TypeOK, Base
    <3>2. Ingestions(intake[q]) = {}
      BY <1>1, <1>2, <3>1 DEF Books, IngestedOnce
    <3>3. QED
      BY <3>1, <3>2 DEF Ingestions
  <2>2. CASE intake[q] = 0
    <3>1. base.log = <<"TASK_RECEIVED">>
      BY <1>0, <2>2 DEF Base, NewTask
    <3>2. QED
      BY <3>1
  <2>3. QED
    BY <2>1, <2>2
<1>6. tasks'[id] = t /\ t.request.id = q
      /\ t.log = base.log \o <<"ARTIFACT_REGISTERED", "SOURCE_INGESTED">>
  <2>1. tasks'[id] = t /\ t.request.id = q
    BY <1>1 DEF Files
  <2>2. t.log = base.log \o <<"ARTIFACT_REGISTERED", "SOURCE_INGESTED">>
    BY <1>0, <1>1, <1>2, TaskForms
  <2>3. QED
    BY <2>1, <2>2
<1>7. Ingestions(id)' = {Len(base.log) + 2} /\ Len(base.log) + 2 \in Nat
  <2>1. base.log \in Seq(Kinds)
    BY <1>1 DEF Tasks
  <2>2. QED
    BY <1>5, <1>6, <2>1, OneIngestion DEF Ingestions
<1>8. /\ IntakeTells' /\ intake'[q] = id
      /\ \A p \in RequestIds \ {q} : intake'[p] = intake[p]
      /\ \A i \in 1..Len(tasks') : i # id =>
           /\ i \in 1..Len(tasks) /\ tasks'[i] = tasks[i]
           /\ tasks[i].request.id \in RequestIds \ {q}
  BY <1>1, FilingStep DEF Books
<1>9. /\ sources'[q] = row /\ Ingested(q)'
      /\ \A s \in Sources : s # q => sources'[s] = sources[s] /\ (Ingested(s)' <=> Ingested(s))
  BY <1>2, <1>3, <1>4 DEF Ingested
<1>10. SourcesTell'
  <2>1. ASSUME NEW s \in Sources, Ingested(s)', s # q
        PROVE  sources'[s].task = intake'[s] /\ sources'[s].candidate.source = s
    BY <1>8, <1>9, <2>1, SourcesAreRequests DEF Books, SourcesTell
  <2>2. sources'[q].task = intake'[q] /\ sources'[q].candidate.source = q
    BY <1>1, <1>4, <1>8, <1>9
  <2>3. QED
    BY <2>1, <2>2 DEF SourcesTell
<1>11. TriggersAreUsedOnce'
  <2>1. \A s \in Sources : s # q /\ Ingested(s)' => sources'[s].candidate.trigger # k.trigger
    BY <1>2, <1>9 DEF TriggerUsed
  <2>2. sources'[q].candidate.trigger = k.trigger
    BY <1>4, <1>9
  <2>3. QED
    BY <1>9, <2>1, <2>2 DEF Books, TriggersAreUsedOnce
<1>12. IngestedOnce'
  <2>1. ASSUME NEW i \in 1..Len(tasks'), i # id, NEW p, p = tasks'[i].request.id
        PROVE  IF p \in Sources /\ Ingested(p)'
               THEN \E n \in Nat : Ingestions(i)' = {n}
               ELSE Ingestions(i)' = {}
    <3>1. i \in 1..Len(tasks) /\ tasks'[i] = tasks[i] /\ tasks[i].request.id # q
      BY <1>8, <2>1
    <3>2. Ingestions(i)' = Ingestions(i)
      BY <3>1 DEF Ingestions
    <3>3. p \in Sources => (Ingested(p)' <=> Ingested(p))
      BY <1>9, <2>1, <3>1
    <3>4. QED
      BY <2>1, <3>1, <3>2, <3>3 DEF Books, IngestedOnce
  <2>2. QED
    BY <1>2, <1>6, <1>7, <1>9, <2>1 DEF IngestedOnce
<1>13. QED
  BY <1>8, <1>10, <1>11, <1>12 DEF Books

LEMMA BooksStep ==
  ASSUME TypeOK, Books, NEW c \in Callers, RequestIsOwn(c), Moves(c)
  PROVE  Books'
<1>1. CASE UNCHANGED <<tasks, intake, sources, catalog>>
  BY <1>1 DEF Books, IntakeTells, SourcesTell, IngestedOnce, TriggersAreUsedOnce, Ingested,
     Ingestions
<1>2. QED
  BY <1>1, OthersKeepBooks, StartStep, IngestStep

(* What is catalogued was stored before, by the call that commits it.       *)
LEMMA ArtifactsStep ==
  ASSUME TypeOK, IntakeTells, ArtifactsAreStored, NEW c \in Callers,
         RequestIsOwn(c), BlobIsThere(c), Moves(c)
  PROVE  ArtifactsAreStored'
<1>s. store \subseteq store'
  BY LedgersStep
<1>1. CASE CommitStart(c)
  <2> DEFINE r == call[c].request
  <2>1. Files(r.id, Len(tasks) + 1, NewTask(r)) /\ r \in AllRequests /\ catalog' = catalog
    BY <1>1, CommitsFile, CallKinds, Locking DEF CommitStart, At
  <2>2. NewTask(r).artifacts = {}
    BY <2>1, TaskForms
  <2>3. QED
    BY <1>s, <2>1, <2>2 DEF ArtifactsAreStored, Files
<1>2. CASE CommitIngest(c)
  <2> DEFINE r == call[c].request
             content == call[c].candidate.content
             id == IF intake[r.id] # 0 THEN intake[r.id] ELSE Len(tasks) + 1
             t == WithSpecification(Base(r), content)
  <2>1. /\ Files(r.id, id, t) /\ Base(r) \in Tasks /\ content \in Specifications
        /\ r \in AllRequests /\ r.id \in RequestIds
    BY <1>2, CommitsFile, CallKinds, Locking DEF CommitIngest, At
  <2>2. catalog' = catalog \cup {content} /\ content \in store
    BY <1>2 DEF CommitIngest, BlobIsThere
  <2>3. t.artifacts = Base(r).artifacts \cup {content}
    BY <2>1, TaskForms
  <2>4. Base(r).artifacts \subseteq catalog
    <3>1. CASE intake[r.id] # 0
      <4>1. intake[r.id] \in 1..Len(tasks)
        BY <2>1, <3>1 DEF TypeOK
      <4>2. QED
        BY <3>1, <4>1 DEF Base, ArtifactsAreStored
    <3>2. CASE intake[r.id] = 0
      BY <2>1, <3>2, TaskForms DEF Base
    <3>3. QED
      BY <3>1, <3>2
  <2> HIDE DEF id, t, content
  <2>5. \A i \in 1..Len(tasks') : tasks'[i].artifacts \subseteq catalog'
    BY <2>1, <2>2, <2>3, <2>4 DEF Files, ArtifactsAreStored
  <2>6. QED
    BY <1>s, <2>2, <2>5 DEF ArtifactsAreStored
<1>3. CASE UNCHANGED <<tasks, intake, sources, catalog>>
  BY <1>s, <1>3 DEF ArtifactsAreStored
<1>4. QED
  BY <1>1, <1>2, <1>3, OthersKeepBooks

(* A call is empty-handed until it takes a lock, and is done with one only  *)
(* by ending.                                                               *)
LEMMA EmptyHandsStep ==
  ASSUME TypeOK, NEW c \in Callers, Moves(c), \A d \in Callers : ComesEmptyHanded(d)
  PROVE  \A d \in Callers : ComesEmptyHanded(d)'
<1>1. ASSUME NEW d \in Callers, d # c
      PROVE  ComesEmptyHanded(d)'
  BY <1>1, OthersStay DEF ComesEmptyHanded, At
<1>2. ComesEmptyHanded(c)'
  <2>1. CASE \E r \in Requests : BeginStart(c, r)
    BY <2>1 DEF BeginStart, ComesEmptyHanded, At
  <2>2. CASE \E k \in Candidates : BeginIngest(c, k)
    BY <2>2 DEF BeginIngest, ComesEmptyHanded, At
  <2>3. CASE End(c)
    BY <2>3, Ending DEF ComesEmptyHanded
  <2>4. ASSUME NEW step \in IngestSteps \ {"FUSE"}, GoTo(c, step), call[c] \in Ingests
        PROVE  ComesEmptyHanded(c)'
    BY <2>4, GoingOn DEF ComesEmptyHanded, At, IngestSteps
  <2>5. CASE GoTo(c, "COMMIT")
    <3>1. call'[c].next = "COMMIT"
      BY <2>5 DEF GoTo, TypeOK, Switches, Starts, Ingests, NoCall
    <3>2. QED
      BY <3>1 DEF ComesEmptyHanded, At
  <2>6. CASE (\E engaged \in BOOLEAN : BeginSwitch(c, engaged)) \/ InsertControlEvent(c)
    <3>1. call'[c].next \in {"AUDIT", "SWITCH"}
      BY <2>6, CallKinds DEF BeginSwitch, InsertControlEvent, At, TypeOK, Switches
    <3>2. QED
      BY <3>1 DEF ComesEmptyHanded, At
  <2>7. CASE LockFuse(c) \/ LockSource(c) \/ LockTrigger(c) \/ Lookup(c)
    BY <2>3, <2>4, <2>7, CallKinds DEF LockFuse, LockSource, LockTrigger, Lookup, At, IngestSteps
  <2>8. CASE Create(c) \/ Store(c)
    BY <2>3, <2>4, <2>5, <2>8, CallKinds DEF Create, Store, At, IngestSteps
  <2>9. QED
    BY <2>1, <2>2, <2>3, <2>6, <2>7, <2>8 DEF Moves, CommitStart, CommitIngest, CommitSwitch, Crash
<1>3. QED
  BY <1>1, <1>2

------------------------------------------------------------------------------
LEMMA InitHolds == Init => IntakeInv
<1> SUFFICES ASSUME Init PROVE IntakeInv
  OBVIOUS
<1>1. TypeOK
  <2>1. tasks \in Seq(Tasks) /\ Len(tasks) = 0 /\ numbered \in 0..MaxSwitches
    BY IntakeAssumption DEF Init
  <2>2. intake \in [RequestIds -> 0..Len(tasks)]
    BY <2>1 DEF Init
  <2>3. sources \in [Sources -> [task : 1..Len(tasks), candidate : Candidates] \cup {NoSource}]
    BY DEF Init
  <2>4. held \in [Callers -> SUBSET Locks]
    BY DEF Init
  <2>5. call \in [Callers -> Switches \cup Starts \cup Ingests \cup {NoCall}]
    BY DEF Init
  <2>6. QED
    BY <2>1, <2>2, <2>3, <2>4, <2>5 DEF Init, TypeOK
<1>2. \A c \in Callers : call[c].next = "IDLE" /\ ~Ingesting(c)
  BY DEF Init, NoCall, Ingesting
<1>3. LocksAreHeldOnce /\ CallsAreSound
  BY <1>2 DEF Init, LocksAreHeldOnce, CallsAreSound, FuseIsLocked, NumberIsLast, RequestIsOwn,
              BlobIsThere, ComesEmptyHanded, At
<1>4. Books
  <2>1. Len(tasks) = 0 /\ \A s \in Sources : ~Ingested(s)
    BY DEF Init, Ingested
  <2>2. IngestedOnce
    BY <2>1 DEF IngestedOnce
  <2>3. IntakeTells
    BY <2>1 DEF Init, IntakeTells
  <2>4. QED
    BY <2>1, <2>2, <2>3 DEF Books, SourcesTell, TriggersAreUsedOnce
<1>5. NumbersAreGiven /\ AuditTellsFuse /\ ArtifactsAreStored
  BY DEF Init, NumbersAreGiven, AuditTellsFuse, ArtifactsAreStored
<1>6. QED
  BY <1>1, <1>3, <1>4, <1>5 DEF IntakeInv

LEMMA StepKeeps == IntakeInv /\ [Next]_vars => IntakeInv'
<1> SUFFICES ASSUME IntakeInv, [Next]_vars PROVE IntakeInv'
  OBVIOUS
<1>1. CASE UNCHANGED vars
  BY <1>1
     DEF vars, tables, IntakeInv, TypeOK, LocksAreHeldOnce, CallsAreSound, FuseIsLocked,
         NumberIsLast, RequestIsOwn, BlobIsThere, ComesEmptyHanded, Books, IntakeTells, SourcesTell, IngestedOnce,
         TriggersAreUsedOnce, Ingestions, Ingested, Ingesting, At, NumbersAreGiven,
         AuditTellsFuse, ArtifactsAreStored
<1>2. ASSUME NEW c \in Callers, Moves(c)
      PROVE  IntakeInv'
  <2>1. /\ TypeOK /\ LocksAreHeldOnce /\ IntakeTells /\ Books /\ NumbersAreGiven
        /\ AuditTellsFuse /\ ArtifactsAreStored
        /\ \A d \in Callers : FuseIsLocked(d) /\ NumberIsLast(d)
        /\ \A d \in Callers : RequestIsOwn(d) /\ BlobIsThere(d) /\ ComesEmptyHanded(d)
    BY DEF IntakeInv, CallsAreSound, Books
  <2>2. held' \in [Callers -> SUBSET Locks] /\ LocksAreHeldOnce'
    BY <1>2, <2>1, LocksStep
  <2>3. /\ call' \in [Callers -> Switches \cup Starts \cup Ingests \cup {NoCall}]
        /\ numbered' \in 0..MaxSwitches /\ fuse' \in BOOLEAN
        /\ audit' \subseteq [number : 1..MaxSwitches, engaged : BOOLEAN]
    BY <1>2, <2>1, CallsStep
  <2>4. /\ tasks' \in Seq(Tasks)
        /\ intake' \in [RequestIds -> 0..Len(tasks')]
        /\ sources' \in [Sources -> [task : 1..Len(tasks'), candidate : Candidates]
                                     \cup {NoSource}]
        /\ catalog' \subseteq Specifications /\ store' \subseteq Specifications
    BY <1>2, <2>1, LedgersStep
  <2>5. TypeOK'
    BY <2>2, <2>3, <2>4 DEF TypeOK
  <2>6. /\ \A d \in Callers : FuseIsLocked(d)' /\ NumberIsLast(d)'
        /\ NumbersAreGiven' /\ AuditTellsFuse'
    BY <1>2, <2>1, FuseStep
  <2>7. \A d \in Callers : RequestIsOwn(d)' /\ BlobIsThere(d)'
    BY <1>2, <2>1, RequestStep
  <2>8. Books'
    BY <1>2, <2>1, BooksStep
  <2>9. ArtifactsAreStored'
    BY <1>2, <2>1, ArtifactsStep
  <2>10. \A d \in Callers : ComesEmptyHanded(d)'
    BY <1>2, <2>1, EmptyHandsStep
  <2>11. QED
    BY <2>2, <2>5, <2>6, <2>7, <2>8, <2>9, <2>10 DEF IntakeInv, CallsAreSound
<1>3. Next => \E c \in Callers : Moves(c)
  BY DEF Next, Moves
<1>4. QED
  BY <1>1, <1>2, <1>3

(* The inductive invariant holds in every state of every behaviour.         *)
LEMMA AlwaysIntakeInv == Spec => []IntakeInv
BY InitHolds, StepKeeps, PTL DEF Spec

(* Every row and every call is of its form, whatever is asked of intake.    *)
THEOREM TypeCorrect == Spec => []TypeOK
<1>1. IntakeInv => TypeOK
  BY DEF IntakeInv
<1>2. QED
  BY <1>1, AlwaysIntakeInv, PTL

(* Tasks, requests and issues account for each other, though any number of  *)
(* calls bring the same request or the same issue at once.                  *)
THEOREM TasksAreAlwaysAccountedFor == Spec => []TasksAreAccountedFor
<1>1. IntakeInv => TasksAreAccountedFor
  <2> SUFFICES ASSUME IntakeInv PROVE TasksAreAccountedFor
    OBVIOUS
  <2>1. /\ TypeOK /\ IntakeTells /\ SourcesTell /\ IngestedOnce /\ TriggersAreUsedOnce
    BY DEF IntakeInv, Books
  <2>2. ASSUME NEW i \in 1..Len(tasks)
        PROVE  LET issues == {s \in Sources : sources[s].task = i}
               IN  /\ intake[tasks[i].request.id] = i
                   /\ Cardinality(Ingestions(i)) = Cardinality(issues)
                   /\ Cardinality(Ingestions(i)) <= 1
    <3> DEFINE issues == {s \in Sources : sources[s].task = i}
    <3>1. PICK q : q = tasks[i].request.id
      OBVIOUS
    <3>2. intake[q] = i
      BY <2>1, <3>1 DEF IntakeTells
    <3>3. \A s \in Sources : sources[s].task = i => Ingested(s) /\ s = q
      <4>1. ASSUME NEW s \in Sources, sources[s].task = i
            PROVE  Ingested(s) /\ s = q
        <5>1. Ingested(s)
          BY <4>1 DEF Ingested, NoSource
        <5>2. intake[s] = i /\ s \in RequestIds
          BY <2>1, <4>1, <5>1, SourcesAreRequests DEF SourcesTell
        <5>3. i # 0
          OBVIOUS
        <5>4. QED
          BY <2>1, <3>1, <5>1, <5>2, <5>3 DEF IntakeTells
      <4>2. QED
        BY <4>1
    <3>4. CASE q \in Sources /\ Ingested(q)
      <4>1. sources[q].task = i
        BY <2>1, <3>2, <3>4 DEF SourcesTell
      <4>2. issues = {q}
        BY <3>3, <3>4, <4>1
      <4>3. PICK n \in Nat : Ingestions(i) = {n}
        BY <2>1, <3>1, <3>4 DEF IngestedOnce
      <4>4. Cardinality(issues) = 1 /\ Cardinality(Ingestions(i)) = 1
        BY <4>2, <4>3, FS_Singleton
      <4>5. QED
        BY <3>1, <3>2, <4>4
    <3>5. CASE ~(q \in Sources /\ Ingested(q))
      <4>1. issues = {}
        BY <3>3, <3>5
      <4>2. Ingestions(i) = {}
        BY <2>1, <3>1, <3>5 DEF IngestedOnce
      <4>3. Cardinality(issues) = 0 /\ Cardinality(Ingestions(i)) = 0
        BY <4>1, <4>2, FS_EmptySet
      <4>4. QED
        BY <3>1, <3>2, <4>3
    <3>6. QED
      BY <3>4, <3>5
  <2>3. QED
    BY <2>1, <2>2 DEF TasksAreAccountedFor, Ingestions, TriggersAreUsedOnce
<1>2. QED
  BY <1>1, AlwaysIntakeInv, PTL

(* The control events tell the fuse's state, for any number of switches,    *)
(* concurrent or rolled back.                                               *)
THEOREM AuditAlwaysTellsFuse == Spec => []AuditTellsFuse
<1>1. IntakeInv => AuditTellsFuse
  BY DEF IntakeInv
<1>2. QED
  BY <1>1, AlwaysIntakeInv, PTL

(* Every artifact a task has is in the catalog and in the store.            *)
THEOREM ArtifactsAreAlwaysStored == Spec => []ArtifactsAreStored
<1>1. IntakeInv => ArtifactsAreStored
  BY DEF IntakeInv
<1>2. QED
  BY <1>1, AlwaysIntakeInv, PTL

(* No issue is ingested under an engaged fuse: the row's lock, taken when   *)
(* the fuse was seen released, is held until the commit.                    *)
THEOREM FuseAlwaysStopsIngestion == Spec => FuseStopsIngestion
<1>1. IntakeInv /\ [Next]_vars => [sources' # sources => ~fuse]_vars
  <2> SUFFICES ASSUME IntakeInv, NEW c \in Callers, Moves(c), sources' # sources
               PROVE  ~fuse
    BY DEF Next, Moves
  <2>1. CommitIngest(c)
    BY OthersKeepBooks DEF CommitStart
  <2>2. FuseIsLocked(c)
    BY DEF IntakeInv, CallsAreSound
  <2>3. QED
    BY <2>1, <2>2 DEF CommitIngest, At, FuseIsLocked
<1>2. QED
  BY <1>1, AlwaysIntakeInv, PTL DEF Spec, FuseStopsIngestion

(* No circle of calls waits for each other, whatever they bring: who waits  *)
(* with a lock in hand has the fuse's row, which one call has at a time.    *)
THEOREM NobodyWaitsInACircle == Spec => []NoCircleOfWaiting
<1>1. IntakeInv => NoCircleOfWaiting
  <2> SUFFICES ASSUME IntakeInv, NEW circle \in SUBSET Callers, circle # {},
                      \A c \in circle : \E d \in circle : WaitsFor(c, d)
               PROVE  FALSE
    BY DEF NoCircleOfWaiting
  <2>1. ASSUME NEW c \in circle, held[c] # {}
        PROVE  FuseRow \in held[c]
    <3>1. /\ TypeOK /\ c \in Callers /\ FuseIsLocked(c) /\ ComesEmptyHanded(c)
      BY DEF IntakeInv, CallsAreSound
    <3>2. Wants(c) # {}
      BY DEF WaitsFor
    <3>3. At(c, "SOURCE") \/ At(c, "TRIGGER") \/ (At(c, "CREATE") /\ Ingesting(c))
      BY <2>1, <3>1, <3>2 DEF Wants, ComesEmptyHanded, At
    <3>4. Ingesting(c) /\ call[c].next # "FUSE"
      BY <3>1, <3>3, CallKinds DEF At
    <3>5. QED
      BY <3>1, <3>4 DEF FuseIsLocked
  <2>2. PICK c \in circle : TRUE
    OBVIOUS
  <2>3. PICK d \in circle : WaitsFor(c, d)
    BY <2>2
  <2>4. PICK e \in circle : WaitsFor(d, e)
    BY <2>3
  <2>5. FuseRow \in held[d] /\ FuseRow \in held[e] /\ d # e
    BY <2>1, <2>3, <2>4 DEF WaitsFor
  <2>6. QED
    BY <2>5 DEF IntakeInv, LocksAreHeldOnce
<1>2. QED
  BY <1>1, AlwaysIntakeInv, PTL
=============================================================================
