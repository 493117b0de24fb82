----------------------------- MODULE Workspaces -----------------------------
(***************************************************************************)
(* The git worktrees of one task and the ledger that accounts for them:     *)
(* WorkspaceAllocationService with LocalGitWorkspaceManager and the         *)
(* workspace and event tables.  A worktree is made and removed in the file  *)
(* system at once, while the row and its event wait for the commit of the   *)
(* call's transaction; a rollback undoes the one and never the other.       *)
(* Permission bits, paths and the git commands are left out.                *)
(***************************************************************************)
EXTENDS TaskRules, Sequences, FiniteSets

CONSTANTS
  Callers,       \* allocate and release calls that may run together
  Requests,      \* allocation requests: id, role, purpose and revision
  R3,            \* whether the task's effective risk is R3
  MaxEvents,     \* bound: length of the task's event stream
  FuseInUse      \* bound: whether anybody engages the fuse

Purposes == {"PLANNING", "REVIEW", "PROPOSAL", "IMPLEMENTATION"}

Ids == {r.id : r \in Requests}
Revisions == {r.revision : r \in Requests}

ASSUME WorkspaceAssumption ==
  /\ \A r \in Requests :
       /\ DOMAIN r = {"id", "role", "purpose", "revision"}
       /\ r.role \in Roles \ {"SYSTEM", "VALIDATOR"}
       /\ r.purpose \in Purposes
  /\ R3 \in BOOLEAN /\ FuseInUse \in BOOLEAN
  /\ MaxEvents \in Nat

VARIABLES
  implementing,  \* the task is IMPLEMENTING
  log,           \* the task's event stream
  fuse,          \* system_fuse.engaged
  rows,          \* workspace_allocations, by allocation id
  worktree,      \* the revision checked out under each allocation id
  call,          \* the calls in flight
  behind         \* history: implementers' allocations whose task left or entered
                 \* IMPLEMENTING since, without an event of its own

vars == <<implementing, log, fuse, rows, worktree, call, behind>>

NoTree == "NO WORKTREE"
NoRow == [state |-> "ABSENT"]
Rows == [state : {"ACTIVE", "RELEASED"}, request : Requests, sequence : Nat]

Event(kind, id) == [kind |-> kind, id |-> id]
OtherEvent == Event("OTHER", "NONE")
Events == [kind : {"ALLOCATED", "RELEASED"}, id : Ids] \cup {OtherEvent}

NoCall == [next |-> "IDLE"]
Steps == {"CHECKOUT", "LOOKUP", "INSERT", "CLEANUP", "REMOVE", "MARK"}
Calls == [next : Steps, request : Requests, sequence : Nat]

TypeOK ==
  /\ implementing \in BOOLEAN /\ fuse \in BOOLEAN
  /\ log \in Seq(Events)
  /\ rows \in [Ids -> Rows \cup {NoRow}]
  /\ worktree \in [Ids -> Revisions \cup {NoTree}]
  /\ call \in [Callers -> Calls \cup {NoCall}]
  /\ behind \in SUBSET Callers

Init ==
  /\ implementing = FALSE /\ fuse = FALSE
  /\ log = <<OtherEvent>>
  /\ rows = [i \in Ids |-> NoRow]
  /\ worktree = [i \in Ids |-> NoTree]
  /\ call = [c \in Callers |-> NoCall]
  /\ behind = {}

------------------------------------------------------------------------------
At(c, step) == call[c].next = step
GoTo(c, step) ==
  /\ call' = [call EXCEPT ![c].next = step]
  /\ behind' = IF step = "CLEANUP" THEN behind \ {c} ELSE behind

EndInPlace(c) ==                                                 \* mutant of End
  call' = [call EXCEPT ![c].next = "IDLE"] /\ behind' = behind \ {c}

End(c) == call' = [call EXCEPT ![c] = NoCall] /\ behind' = behind \ {c}

(* _validate_policy, governance granting what it is asked.                  *)
Allowed(r) ==
  IF R3
  THEN r.role # "IMPLEMENTER" /\ r.purpose = "PROPOSAL"
  ELSE \/ r.role = "IMPLEMENTER" /\ r.purpose = "IMPLEMENTATION" /\ implementing
       \/ r.role = "PLANNER" /\ r.purpose = "PLANNING"
       \/ r.role \in Reviewers /\ r.purpose = "REVIEW"

(* allocate up to the manager, for an id that is not on record: unlocked    *)
(* reads of the fuse, the task and its events, which agree with what the    *)
(* request expects.                                                         *)
BeginAllocate(c, r) ==
  /\ At(c, "IDLE")
  /\ rows[r.id] = NoRow
  /\ ~fuse
  /\ Allowed(r)
  /\ call' = [call EXCEPT ![c] =
                [next |-> "CHECKOUT", request |-> r, sequence |-> Len(log)]]
  /\ UNCHANGED <<implementing, log, fuse, rows, worktree, behind>>

(* A check raises where nothing is cleaned up, or the process dies.         *)
Crash(c) ==
  /\ ~At(c, "IDLE")
  /\ End(c)
  /\ UNCHANGED <<implementing, log, fuse, rows, worktree>>

(* checkout_owned: a worktree that is there already will do, if it is at    *)
(* the requested revision.                                                  *)
Checkout(c) ==
  /\ At(c, "CHECKOUT")
  /\ LET r == call[c].request
     IN  /\ worktree[r.id] \in {NoTree, r.revision}
         /\ worktree' = [worktree EXCEPT ![r.id] = r.revision]
  /\ GoTo(c, "LOOKUP")
  /\ UNCHANGED <<implementing, log, fuse, rows>>

(* The canonical request holds the sequence it expects.                     *)
SameRequest(c, row) ==
  row.request = call[c].request /\ row.sequence = call[c].sequence

TakenByReleased(purpose) ==                                      \* mutant of Taken
  \E i \in Ids : rows[i].state = "RELEASED" /\ rows[i].request.purpose = purpose

Taken(purpose) ==
  \E i \in Ids : rows[i].state = "ACTIVE" /\ rows[i].request.purpose = purpose

(* record_once up to its INSERT.  An identical row is no error and needs no *)
(* event; whatever raises from here on has the worktree removed.            *)
Lookup(c) ==
  /\ At(c, "LOOKUP")
  /\ LET r == call[c].request
         row == rows[r.id]
     IN  IF row # NoRow
         THEN IF SameRequest(c, row) THEN End(c) ELSE GoTo(c, "CLEANUP")
         ELSE GoTo(c, IF Taken(r.purpose) THEN "CLEANUP" ELSE "INSERT")
  /\ UNCHANGED <<implementing, log, fuse, rows, worktree>>

InsertableAtAnyTime(c) ==                                   \* mutant of Insertable
  rows[call[c].request.id] = NoRow /\ ~Taken(call[c].request.purpose)

(* The primary key, the unique index and the event's sequence check.        *)
Insertable(c) ==
  /\ rows[call[c].request.id] = NoRow
  /\ ~Taken(call[c].request.purpose)
  /\ Len(log) = call[c].sequence

AppendNothing(kind, id) == UNCHANGED log                   \* mutant of AppendEvent
AppendEvent(kind, id) == log' = Append(log, Event(kind, id))

(* The INSERT, the event and the commit, or the exception of either write.  *)
Insert(c) ==
  /\ At(c, "INSERT")
  /\ LET r == call[c].request
     IN  IF Insertable(c)
         THEN /\ Len(log) < MaxEvents
              /\ rows' = [rows EXCEPT ![r.id] =
                   [state |-> "ACTIVE", request |-> r, sequence |-> call[c].sequence]]
              /\ AppendEvent("ALLOCATED", r.id)
              /\ End(c)
         ELSE GoTo(c, "CLEANUP") /\ UNCHANGED <<rows, log>>
  /\ UNCHANGED <<implementing, fuse, worktree>>

(* except Exception: self._manager.release(record)                          *)
Cleanup(c) ==
  /\ At(c, "CLEANUP")
  /\ worktree' = [worktree EXCEPT ![call[c].request.id] = NoTree]
  /\ End(c)
  /\ UNCHANGED <<implementing, log, fuse, rows>>

(* release: the row is read without a lock.                                 *)
BeginRelease(c, i) ==
  /\ At(c, "IDLE")
  /\ rows[i].state = "ACTIVE"
  /\ call' = [call EXCEPT ![c] =
                [next |-> "REMOVE", request |-> rows[i].request, sequence |-> 0]]
  /\ UNCHANGED <<implementing, log, fuse, rows, worktree, behind>>

(* release_owned.  Without a worktree there is nothing to release, and the  *)
(* row stays as it is.                                                      *)
Remove(c) ==
  /\ At(c, "REMOVE")
  /\ LET i == call[c].request.id
     IN  IF worktree[i] = NoTree
         THEN End(c) /\ UNCHANGED worktree
         ELSE /\ worktree' = [worktree EXCEPT ![i] = NoTree]
              /\ GoTo(c, "MARK")
  /\ UNCHANGED <<implementing, log, fuse, rows>>

(* workspaces.release, the event and the commit.  A row that is released    *)
(* already stays so and gets its event again.  The sequence is read in the  *)
(* same transaction; if it is old at the append, all of this is rolled back.*)
MarkReleased(c) ==
  /\ At(c, "MARK")
  /\ Len(log) < MaxEvents
  /\ LET i == call[c].request.id
     IN  /\ rows' = [rows EXCEPT ![i].state = "RELEASED"]
         /\ AppendEvent("RELEASED", i)
  /\ End(c)
  /\ UNCHANGED <<implementing, fuse, worktree>>

------------------------------------------------------------------------------
Implementing(c) ==
  /\ call[c].next \in {"CHECKOUT", "LOOKUP", "INSERT"}
  /\ call[c].request.role = "IMPLEMENTER"

(* Other services, each with an event of its own (TaskLedger); or with one  *)
(* that is on record, as a transition or a failure that is tried again with *)
(* its event: the append answers before it looks at the sequence, and the   *)
(* change of the task stays (PostgresEventStore.append).                    *)
ChangeTask ==
  /\ \/ /\ Len(log) < MaxEvents
        /\ log' = Append(log, OtherEvent)
        /\ implementing' \in BOOLEAN
        /\ UNCHANGED behind
     \/ /\ \E n \in 2..Len(log) : log[n] = OtherEvent
        /\ implementing' = ~implementing
        /\ behind' = {c \in Callers : Implementing(c)}
        /\ UNCHANGED log
  /\ UNCHANGED <<fuse, rows, worktree, call>>

SwitchFuse ==
  /\ FuseInUse
  /\ fuse' = ~fuse
  /\ UNCHANGED <<implementing, log, rows, worktree, call, behind>>

Next ==
  \/ \E c \in Callers :
       \/ \E r \in Requests : BeginAllocate(c, r)
       \/ Checkout(c) \/ Lookup(c) \/ Insert(c) \/ Cleanup(c)
       \/ \E i \in Ids : BeginRelease(c, i)
       \/ Remove(c) \/ MarkReleased(c)
       \/ Crash(c)
  \/ ChangeTask
  \/ SwitchFuse

Spec == Init /\ [][Next]_vars
------------------------------------------------------------------------------
(* One active workspace for each purpose of the task, though two calls may  *)
(* both look before either inserts (PHASE6_SPEC.md lines 12-13; record_once,*)
(* the index workspace_allocations_active_task_purpose_idx and the event    *)
(* sequence guard it together).                                             *)
OneActivePerPurpose ==
  \A i, j \in Ids :
    /\ rows[i].state = "ACTIVE" /\ rows[j].state = "ACTIVE"
    /\ rows[i].request.purpose = rows[j].request.purpose
    => i = j

(* The event stream knows every allocation, and knows it once, and whether  *)
(* it was released: the row and its event are one commit, whatever calls    *)
(* collide or die (PHASE6_SPEC.md lines 13-14).  That a release is told once*)
(* is not promised: see MarkReleased.                                       *)
EventsTellTheLedger ==
  \A i \in Ids :
    LET Told(kind) == Cardinality({n \in 1..Len(log) : log[n] = Event(kind, i)})
    IN  /\ Told("ALLOCATED") = IF rows[i] = NoRow THEN 0 ELSE 1
        /\ Told("RELEASED") > 0 <=> rows[i].state = "RELEASED"

(* An implementer gets a workspace only while the task is IMPLEMENTING: the *)
(* status was read without a lock, and it is still that when the allocation *)
(* commits, because a change of it moves the event sequence on.  The only   *)
(* calls that do without are those behind a change that brought an event    *)
(* already on record (workspaces.py, lines 76-93; postgres.py, lines 80-86).*)
ImplementerIsCurrent ==
  [][\A i \in Ids :
       rows[i] = NoRow /\ rows'[i] # NoRow /\ rows'[i].request.role = "IMPLEMENTER"
         => implementing \/ \E c \in behind : call'[c] # call[c]]_vars

(* PHASE6_SPEC.md lines 25-26: only a workspace the ledger says is its own  *)
(* is removed.  So nothing but its own release removes the worktree of an   *)
(* active allocation.                                                       *)
OnlyReleaseRemoves ==
  [][\A i \in Ids :
       rows[i].state = "ACTIVE" /\ worktree[i] # NoTree /\ worktree'[i] = NoTree =>
         \E c \in Callers : At(c, "REMOVE") /\ call[c].request.id = i]_vars
==============================================================================
