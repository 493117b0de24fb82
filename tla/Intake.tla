------------------------------- MODULE Intake -------------------------------
(***************************************************************************)
(* How tasks come into being: TaskIntakeService for requests from the       *)
(* command line, IssueIngestionService for issues on GitHub, and            *)
(* FuseService, which both must heed.                                       *)
(*                                                                         *)
(* A call is one READ COMMITTED transaction.  The rows and advisory locks   *)
(* it takes are in `held` until it commits or is rolled back, and a call    *)
(* that wants what another holds waits.  Its writes show when it commits;   *)
(* what it puts in the artifact store stays whatever becomes of it.         *)
(***************************************************************************)
EXTENDS Naturals, Sequences, FiniteSets

CONSTANTS
  Callers,       \* calls that may be in flight together
  Requests,      \* requests given to start: id, form and whether to enqueue
  Candidates,    \* issues: source key, trigger event and specification
  MaxSwitches    \* bound: how many control events are numbered

(* What ingest asks of start for a candidate; an issue has form "ISSUE", so *)
(* has a request typed to look like it.  The revision and the risk of its   *)
(* specification are part of the request too and are left out: two requests *)
(* of one id that differ in these alone are one here, where the code refuses*)
(* the second.                                                              *)
IssueRequest(k) == [id |-> k.source, form |-> "ISSUE", enqueue |-> TRUE]

AllRequests == Requests \cup {IssueRequest(k) : k \in Candidates}
RequestIds == {r.id : r \in AllRequests}
Sources == {k.source : k \in Candidates}
Triggers == {k.trigger : k \in Candidates}
Specifications == {k.content : k \in Candidates}

ASSUME IntakeAssumption ==
  /\ \A r \in Requests : DOMAIN r = {"id", "form", "enqueue"}
  /\ \A r \in Requests : r.form \in {"SYNTHETIC", "ISSUE"} /\ r.enqueue \in BOOLEAN
  /\ \A k \in Candidates : DOMAIN k = {"source", "trigger", "content"}
  /\ MaxSwitches \in Nat

VARIABLES
  fuse,      \* system_fuse.engaged
  audit,     \* control_events: committed [number, engaged]
  numbered,  \* the sequence that numbers control events, never rolled back
  tasks,     \* the tasks in the order of their creation
  intake,    \* intake_ledger: the task of each request id, or 0 (the id of
             \* a task is that of its request; here it is told by its place)
  sources,   \* source_ingestions, by source key
  catalog,   \* artifact_catalog
  store,     \* blobs in the content-addressed store
  held,      \* the locks each call holds
  call       \* the calls in flight

tables == <<fuse, audit, tasks, intake, sources, catalog>>
vars == <<tables, numbered, store, held, call>>

FuseRow == <<"FUSE">>
SourceKey(s) == <<"SOURCE", s>>
TriggerKey(e) == <<"TRIGGER", e>>
RequestKey(q) == <<"REQUEST", q>>
Locks == {FuseRow} \cup {SourceKey(s) : s \in Sources}
           \cup {TriggerKey(e) : e \in Triggers} \cup {RequestKey(q) : q \in RequestIds}

Kinds == {"TASK_RECEIVED", "ARTIFACT_REGISTERED", "SOURCE_INGESTED"}
Tasks == [request : AllRequests, queued : BOOLEAN,
          artifacts : SUBSET Specifications, log : Seq(Kinds)]

NoSource == [task |-> 0]
NoCall == [next |-> "IDLE"]
Switches == [next : {"AUDIT", "SWITCH"}, engaged : BOOLEAN, number : 0..MaxSwitches]
Starts == [next : {"CREATE", "COMMIT"}, request : AllRequests]
Ingests == [next : {"FUSE", "SOURCE", "TRIGGER", "LOOKUP", "CREATE", "STORE", "COMMIT"},
            request : AllRequests, candidate : Candidates]

TypeOK ==
  /\ fuse \in BOOLEAN
  /\ audit \subseteq [number : 1..MaxSwitches, engaged : BOOLEAN]
  /\ numbered \in 0..MaxSwitches
  /\ tasks \in Seq(Tasks)
  /\ intake \in [RequestIds -> 0..Len(tasks)]
  /\ sources \in [Sources -> [task : 1..Len(tasks), candidate : Candidates] \cup {NoSource}]
  /\ catalog \subseteq Specifications /\ store \subseteq Specifications
  /\ held \in [Callers -> SUBSET Locks]
  /\ call \in [Callers -> Switches \cup Starts \cup Ingests \cup {NoCall}]

Init ==
  /\ fuse = FALSE /\ audit = {} /\ numbered = 0
  /\ tasks = <<>>
  /\ intake = [q \in RequestIds |-> 0]
  /\ sources = [s \in Sources |-> NoSource]
  /\ catalog = {} /\ store = {}
  /\ held = [c \in Callers |-> {}]
  /\ call = [c \in Callers |-> NoCall]

------------------------------------------------------------------------------
At(c, step) == call[c].next = step
GoTo(c, step) == call' = [call EXCEPT ![c].next = step]
Ingesting(c) == "candidate" \in DOMAIN call[c]

(* COMMIT, ROLLBACK and the end of the connection let go of every lock.     *)
EndInPlace(c) ==                                                 \* mutant of End
  /\ call' = [call EXCEPT ![c].next = "IDLE"]
  /\ held' = [held EXCEPT ![c] = {}]

(* Mutant of End: an advisory lock of the session outlives the transaction. *)
EndKeepingAdvisory(c) ==
  /\ call' = [call EXCEPT ![c] = NoCall]
  /\ held' = [held EXCEPT ![c] = {lock \in @ : lock[1] \in {"SOURCE", "TRIGGER"}}]

End(c) ==
  /\ call' = [call EXCEPT ![c] = NoCall]
  /\ held' = [held EXCEPT ![c] = {}]

Free(c, lock) == \A d \in Callers \ {c} : lock \notin held[d]

(* Mutants of Hold: the fuse is read without FOR UPDATE, or nothing makes   *)
(* the request id unique.                                                   *)
HoldUnlessFuse(c, lock) ==
  held' = [held EXCEPT ![c] = @ \cup ({lock} \ {FuseRow})]
HoldUnlessRequest(c, lock) ==
  held' = [held EXCEPT ![c] = @ \cup ({lock} \ {RequestKey(q) : q \in RequestIds})]

Hold(c, lock) == held' = [held EXCEPT ![c] = @ \cup {lock}]

(* A check raises, or the process dies.                                     *)
Crash(c) ==
  /\ ~At(c, "IDLE")
  /\ End(c)
  /\ UNCHANGED <<tables, numbered, store>>

------------------------------------------------------------------------------
(* start: the fuse is read without a lock.                                  *)
BeginStart(c, r) ==
  /\ At(c, "IDLE")
  /\ ~fuse
  /\ call' = [call EXCEPT ![c] = [next |-> "CREATE", request |-> r]]
  /\ UNCHANGED <<tables, numbered, store, held>>

(* ingest, governance having granted it.                                    *)
BeginIngest(c, k) ==
  /\ At(c, "IDLE")
  /\ call' = [call EXCEPT ![c] =
                [next |-> "FUSE", request |-> IssueRequest(k), candidate |-> k]]
  /\ UNCHANGED <<tables, numbered, store, held>>

(* fuse.locked_get                                                          *)
LockFuse(c) ==
  /\ At(c, "FUSE")
  /\ Free(c, FuseRow)
  /\ IF fuse THEN End(c) ELSE Hold(c, FuseRow) /\ GoTo(c, "SOURCE")
  /\ UNCHANGED <<tables, numbered, store>>

(* source_ingestions.reserve, whose two advisory locks are taken in order.  *)
LockSource(c) ==
  /\ At(c, "SOURCE")
  /\ Free(c, SourceKey(call[c].candidate.source))
  /\ Hold(c, SourceKey(call[c].candidate.source))
  /\ GoTo(c, "TRIGGER")
  /\ UNCHANGED <<tables, numbered, store>>

LockTrigger(c) ==
  /\ At(c, "TRIGGER")
  /\ Free(c, TriggerKey(call[c].candidate.trigger))
  /\ Hold(c, TriggerKey(call[c].candidate.trigger))
  /\ GoTo(c, "LOOKUP")
  /\ UNCHANGED <<tables, numbered, store>>

Ingested(s) == sources[s] # NoSource
TriggerUsed(e) == \E s \in Sources : Ingested(s) /\ sources[s].candidate.trigger = e

(* An issue on record is returned if it is the same and refused if it has   *)
(* changed, and so is another issue's trigger; nothing is written.          *)
Lookup(c) ==
  /\ At(c, "LOOKUP")
  /\ LET k == call[c].candidate
     IN  IF Ingested(k.source) \/ TriggerUsed(k.trigger)
         THEN End(c)
         ELSE GoTo(c, "CREATE") /\ UNCHANGED held
  /\ UNCHANGED <<tables, numbered, store>>

(* start's look into the ledger and its INSERTs, which wait for another     *)
(* call that is inserting the same request id.  A known request is returned *)
(* or refused without a write; ingest goes on with the task of its own.     *)
Create(c) ==
  /\ At(c, "CREATE")
  /\ LET r == call[c].request
         known == intake[r.id] # 0
     IN  /\ Free(c, RequestKey(r.id))
         /\ IF known /\ ~(Ingesting(c) /\ tasks[intake[r.id]].request = r)
            THEN End(c)
            ELSE /\ Hold(c, RequestKey(r.id))
                 /\ GoTo(c, IF Ingesting(c) THEN "STORE" ELSE "COMMIT")
  /\ UNCHANGED <<tables, numbered, store>>

StoredNothing(blob) == UNCHANGED store                          \* mutant of Stored
Stored(blob) == store' = store \cup {blob}

(* ArtifactRegistrationService.register begins with the blob.               *)
Store(c) ==
  /\ At(c, "STORE")
  /\ Stored(call[c].candidate.content)
  /\ GoTo(c, "COMMIT")
  /\ UNCHANGED <<tables, numbered, held>>

NewTask(r) ==
  [request |-> r, queued |-> r.enqueue, artifacts |-> {}, log |-> <<"TASK_RECEIVED">>]

WithSpecification(t, content) ==
  [t EXCEPT !.artifacts = @ \cup {content},
            !.log = @ \o <<"ARTIFACT_REGISTERED", "SOURCE_INGESTED">>]

CommitStart(c) ==
  /\ At(c, "COMMIT") /\ ~Ingesting(c)
  /\ tasks' = Append(tasks, NewTask(call[c].request))
  /\ intake' = [intake EXCEPT ![call[c].request.id] = Len(tasks) + 1]
  /\ End(c)
  /\ UNCHANGED <<fuse, audit, sources, catalog, numbered, store>>

(* The task (or the one that was there), its artifact and events, and the   *)
(* row of the source, whose key and trigger are unique.                     *)
CommitIngest(c) ==
  /\ At(c, "COMMIT") /\ Ingesting(c)
  /\ LET k == call[c].candidate
         r == call[c].request
         known == intake[r.id] # 0
         id == IF known THEN intake[r.id] ELSE Len(tasks) + 1
     IN  /\ ~Ingested(k.source) /\ ~TriggerUsed(k.trigger)
         /\ tasks' = IF known
                     THEN [tasks EXCEPT ![id] = WithSpecification(@, k.content)]
                     ELSE Append(tasks, WithSpecification(NewTask(r), k.content))
         /\ intake' = [intake EXCEPT ![r.id] = id]
         /\ sources' = [sources EXCEPT ![k.source] = [task |-> id, candidate |-> k]]
         /\ catalog' = catalog \cup {k.content}
  /\ End(c)
  /\ UNCHANGED <<fuse, audit, numbered, store>>

------------------------------------------------------------------------------
(* FuseService.engage, and release with governance's consent: the UPDATE    *)
(* locks the row, and the control event is numbered when it is inserted.    *)
BeginSwitch(c, engaged) ==
  /\ At(c, "IDLE")
  /\ Free(c, FuseRow)
  /\ Hold(c, FuseRow)
  /\ call' = [call EXCEPT ![c] = [next |-> "AUDIT", engaged |-> engaged, number |-> 0]]
  /\ UNCHANGED <<tables, numbered, store>>

InsertControlEvent(c) ==
  /\ At(c, "AUDIT")
  /\ numbered < MaxSwitches
  /\ numbered' = numbered + 1
  /\ call' = [call EXCEPT ![c].next = "SWITCH", ![c].number = numbered + 1]
  /\ UNCHANGED <<tables, store, held>>

CommitSwitch(c) ==
  /\ At(c, "SWITCH")
  /\ fuse' = call[c].engaged
  /\ audit' = audit \cup {[number |-> call[c].number, engaged |-> call[c].engaged]}
  /\ End(c)
  /\ UNCHANGED <<tasks, intake, sources, catalog, numbered, store>>

Next ==
  \E c \in Callers :
    \/ \E r \in Requests : BeginStart(c, r)
    \/ \E k \in Candidates : BeginIngest(c, k)
    \/ LockFuse(c) \/ LockSource(c) \/ LockTrigger(c)
    \/ Lookup(c) \/ Create(c) \/ Store(c)
    \/ CommitStart(c) \/ CommitIngest(c)
    \/ \E engaged \in BOOLEAN : BeginSwitch(c, engaged)
    \/ InsertControlEvent(c) \/ CommitSwitch(c)
    \/ Crash(c)

Spec == Init /\ [][Next]_vars
------------------------------------------------------------------------------
(* Every task is accounted for, though two calls bring the same request or  *)
(* the same issue at once: its request is on record once, against it; it    *)
(* was ingested as often as an issue names it, at most once; and no two     *)
(* issues share a trigger (PHASE7_SPEC.md lines 25-29: one source Issue maps*)
(* to one Task).                                                            *)
TasksAreAccountedFor ==
  /\ \A i \in 1..Len(tasks) :
       LET ingestions == {n \in 1..Len(tasks[i].log) : tasks[i].log[n] = "SOURCE_INGESTED"}
       IN  /\ intake[tasks[i].request.id] = i
           /\ Cardinality(ingestions) = Cardinality({s \in Sources : sources[s].task = i})
           /\ Cardinality(ingestions) <= 1
  /\ \A s, z \in Sources :
       Ingested(s) /\ Ingested(z)
         /\ sources[s].candidate.trigger = sources[z].candidate.trigger => s = z

(* The last control event by its number tells whether the fuse is engaged,  *)
(* though several people switch it at once and numbers of switches that     *)
(* were rolled back are missing (FuseService: the row's lock is taken before*)
(* the event is numbered and held until the commit).                        *)
AuditTellsFuse ==
  IF audit = {}
  THEN ~fuse
  ELSE \E last \in audit :
         /\ \A e \in audit : e.number <= last.number
         /\ fuse = last.engaged

(* No artifact of a task is without its catalog row and its blob, whatever  *)
(* calls die between the store and the commit (PHASE3_SPEC.md: the blob is  *)
(* written first).                                                          *)
ArtifactsAreStored ==
  /\ catalog \subseteq store
  /\ \A i \in 1..Len(tasks) : tasks[i].artifacts \subseteq catalog

(* No issue is ingested while the fuse is engaged, not even by a call that  *)
(* looked at it before (PHASE7_SPEC.md lines 30-32; locked_get keeps whoever*)
(* engages it waiting).                                                     *)
FuseStopsIngestion == [][sources' # sources => ~fuse]_vars

(* The lock a call cannot go on without, and whom that makes it wait for.   *)
Wants(c) ==
  CASE At(c, "FUSE") -> {FuseRow}
    [] At(c, "SOURCE") -> {SourceKey(call[c].candidate.source)}
    [] At(c, "TRIGGER") -> {TriggerKey(call[c].candidate.trigger)}
    [] At(c, "CREATE") -> {RequestKey(call[c].request.id)}
    [] OTHER -> {}

WaitsFor(c, d) == c # d /\ Wants(c) \cap held[d] # {}

(* No calls wait for each other in a circle, however many take the fuse's   *)
(* row, the keys of an issue and a request id at once (ingestion.py lines   *)
(* 124-126: the row is the first lock of a call that takes more than one).  *)
NoCircleOfWaiting ==
  \A circle \in SUBSET Callers : circle # {} =>
    \E c \in circle : \A d \in circle : ~WaitsFor(c, d)
==============================================================================
