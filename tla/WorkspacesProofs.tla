-------------------------- MODULE WorkspacesProofs --------------------------
(***************************************************************************)
(* Proofs about Workspaces, for any calls, requests and length of the event *)
(* stream.                                                                  *)
(***************************************************************************)
EXTENDS Workspaces, FiniteSetTheorems, TLAPS

(* A row is kept under the id that it was requested for.                    *)
RowsAreTheirs == \A i \in Ids : rows[i] # NoRow => rows[i].request.id = i

(* What is being released is on record.                                     *)
ReleasesAreKnown ==
  \A c \in Callers :
    call[c].next \in {"REMOVE", "MARK"} => rows[call[c].request.id] # NoRow

(* Steps of an allocation before its row is written.                        *)
Allocating == {"CHECKOUT", "LOOKUP", "INSERT"}

(* The length of the stream vouches for the status that an implementer's    *)
(* allocation was granted on, unless the call is behind.                    *)
Vouched ==
  \A c \in Callers :
    call[c].next \in Allocating =>
      /\ call[c].sequence <= Len(log)
      /\ call[c].request.role = "IMPLEMENTER" /\ call[c].sequence = Len(log) =>
           implementing \/ c \in behind

(* EventsTellTheLedger as a statement about single events.                  *)
Tellings(kind, i) == {n \in 1..Len(log) : log[n] = Event(kind, i)}

Told(i) ==
  /\ rows[i] = NoRow => Tellings("ALLOCATED", i) = {}
  /\ rows[i] # NoRow => \E n \in Nat : Tellings("ALLOCATED", i) = {n}
  /\ Tellings("RELEASED", i) # {} <=> rows[i].state = "RELEASED"

AllTold == \A i \in Ids : Told(i)

WorkspaceInv ==
  TypeOK /\ RowsAreTheirs /\ ReleasesAreKnown /\ Vouched /\ OneActivePerPurpose /\ AllTold

------------------------------------------------------------------------------
(* A call that goes on keeps its request and its sequence.                  *)
LEMMA GoingOn ==
  ASSUME TypeOK, NEW c \in Callers, ~At(c, "IDLE"), NEW step \in Steps, GoTo(c, step)
  PROVE  /\ call' \in [Callers -> Calls \cup {NoCall}]
         /\ call'[c].next = step
         /\ call'[c].request = call[c].request /\ call'[c].sequence = call[c].sequence
         /\ \A d \in Callers \ {c} : call'[d] = call[d]
         /\ behind' = IF step = "CLEANUP" THEN behind \ {c} ELSE behind
<1>1. call[c] \in Calls
  BY DEF TypeOK, At, NoCall
<1>2. [call[c] EXCEPT !.next = step] \in Calls
  BY <1>1 DEF Calls
<1>3. QED
  BY <1>1, <1>2 DEF TypeOK, GoTo, Calls

(* A call that ends is idle, and the others stay where they are.            *)
LEMMA Ending ==
  ASSUME TypeOK, NEW c \in Callers, End(c)
  PROVE  /\ call' \in [Callers -> Calls \cup {NoCall}]
         /\ call'[c].next = "IDLE"
         /\ \A d \in Callers \ {c} : call'[d] = call[d]
         /\ behind' = behind \ {c}
BY DEF TypeOK, End, NoCall

(* What a call past its beginning has.                                      *)
LEMMA Requesting ==
  ASSUME TypeOK, NEW c \in Callers, ~At(c, "IDLE")
  PROVE  /\ call[c].request \in Requests /\ call[c].request.id \in Ids
         /\ call[c].request.revision \in Revisions /\ call[c].sequence \in Nat
<1>1. call[c] \in Calls
  BY DEF TypeOK, At, NoCall
<1>2. QED
  BY <1>1 DEF Calls, Ids, Revisions

(* What the steps do to rows and stream: an insertion and a release are the *)
(* only ones that write a row, and each adds its event.                     *)
Inserts(c) ==
  LET r == call[c].request
  IN  /\ At(c, "INSERT") /\ Insertable(c)
      /\ rows' = [rows EXCEPT ![r.id] =
           [state |-> "ACTIVE", request |-> r, sequence |-> call[c].sequence]]
      /\ log' = Append(log, Event("ALLOCATED", r.id))
      /\ End(c) /\ UNCHANGED <<implementing, worktree, fuse>>

Quiet == rows' = rows /\ (log' = log \/ log' = Append(log, OtherEvent))

LEMMA StepKinds ==
  ASSUME [Next]_vars
  PROVE  \/ \E c \in Callers : Inserts(c)
         \/ \E c \in Callers : MarkReleased(c)
         \/ Quiet
<1>1. ASSUME NEW c \in Callers, Insert(c)
      PROVE  Inserts(c) \/ Quiet
  BY <1>1 DEF Insert, Inserts, Quiet, AppendEvent
<1>2. ASSUME NEW c \in Callers,
             \/ \E r \in Requests : BeginAllocate(c, r)
             \/ Checkout(c) \/ Lookup(c) \/ Cleanup(c)
             \/ \E i \in Ids : BeginRelease(c, i)
             \/ Remove(c) \/ Crash(c)
      PROVE  Quiet
  BY <1>2 DEF BeginAllocate, Checkout, Lookup, Cleanup, BeginRelease, Remove, Crash, Quiet
<1>3. CASE ChangeTask
  BY <1>3 DEF ChangeTask, Quiet
<1>4. CASE SwitchFuse
  BY <1>4 DEF SwitchFuse, Quiet
<1>5. CASE UNCHANGED vars
  BY <1>5 DEF vars, Quiet
<1>6. QED
  BY <1>1, <1>2, <1>3, <1>4, <1>5 DEF Next

------------------------------------------------------------------------------
(* Rows and stream stay well formed.                                        *)
LEMMA RowsStep ==
  ASSUME WorkspaceInv, [Next]_vars
  PROVE  /\ rows' \in [Ids -> Rows \cup {NoRow}] /\ log' \in Seq(Events)
         /\ RowsAreTheirs'
         /\ OneActivePerPurpose'
         /\ \A i \in Ids : rows[i] # NoRow =>
              rows'[i] # NoRow /\ rows'[i].request = rows[i].request
<1>k. /\ TypeOK /\ RowsAreTheirs /\ OneActivePerPurpose
      /\ rows \in [Ids -> Rows \cup {NoRow}] /\ log \in Seq(Events)
  BY DEF WorkspaceInv, TypeOK
<1>1. ASSUME NEW c \in Callers, Inserts(c)
      PROVE  /\ rows' \in [Ids -> Rows \cup {NoRow}] /\ log' \in Seq(Events)
             /\ RowsAreTheirs' /\ OneActivePerPurpose'
             /\ \A i \in Ids : rows[i] # NoRow =>
                  rows'[i] # NoRow /\ rows'[i].request = rows[i].request
  <2> DEFINE r == call[c].request
             row == [state |-> "ACTIVE", request |-> r, sequence |-> call[c].sequence]
  <2>1. r \in Requests /\ r.id \in Ids /\ call[c].sequence \in Nat
    BY <1>1, <1>k, Requesting DEF Inserts, At
  <2>2. /\ row \in Rows /\ row # NoRow /\ row.request = r /\ row.state = "ACTIVE"
        /\ Event("ALLOCATED", r.id) \in Events
    BY <2>1 DEF Rows, NoRow, Events, Event
  <2>3. /\ rows[r.id] = NoRow
        /\ \A i \in Ids : ~(rows[i].state = "ACTIVE" /\ rows[i].request.purpose = r.purpose)
        /\ rows' = [rows EXCEPT ![r.id] = row]
        /\ log' = Append(log, Event("ALLOCATED", r.id))
    BY <1>1 DEF Inserts, Insertable, Taken
  <2> HIDE DEF row, r
  <2>4. /\ rows' \in [Ids -> Rows \cup {NoRow}] /\ log' \in Seq(Events)
        /\ rows'[r.id] = row /\ \A i \in Ids \ {r.id} : rows'[i] = rows[i]
    BY <1>k, <2>1, <2>2, <2>3
  <2>5. RowsAreTheirs'
    BY <1>k, <2>1, <2>2, <2>4 DEF RowsAreTheirs
  <2>6. OneActivePerPurpose'
    BY <1>k, <2>1, <2>2, <2>3, <2>4 DEF OneActivePerPurpose
  <2>7. QED
    BY <2>3, <2>4, <2>5, <2>6
<1>2. ASSUME NEW c \in Callers, MarkReleased(c)
      PROVE  /\ rows' \in [Ids -> Rows \cup {NoRow}] /\ log' \in Seq(Events)
             /\ RowsAreTheirs' /\ OneActivePerPurpose'
             /\ \A i \in Ids : rows[i] # NoRow =>
                  rows'[i] # NoRow /\ rows'[i].request = rows[i].request
  <2> DEFINE i == call[c].request.id
  <2>1. i \in Ids /\ rows[i] \in Rows
    BY <1>2, <1>k, Requesting DEF MarkReleased, At, WorkspaceInv, ReleasesAreKnown
  <2>2. /\ rows' = [rows EXCEPT ![i].state = "RELEASED"]
        /\ log' = Append(log, Event("RELEASED", i))
        /\ Event("RELEASED", i) \in Events
    BY <1>2, <2>1 DEF MarkReleased, AppendEvent, Events, Event
  <2> HIDE DEF i
  <2>3. /\ rows'[i] \in Rows /\ rows'[i] # NoRow
        /\ rows'[i].state = "RELEASED" /\ rows'[i].request = rows[i].request
        /\ \A j \in Ids \ {i} : rows'[j] = rows[j]
    BY <1>k, <2>1, <2>2 DEF Rows, NoRow
  <2>4. rows' \in [Ids -> Rows \cup {NoRow}] /\ log' \in Seq(Events)
    BY <1>k, <2>1, <2>2, <2>3
  <2>5. RowsAreTheirs'
    BY <1>k, <2>1, <2>3 DEF RowsAreTheirs, Rows, NoRow
  <2>6. OneActivePerPurpose'
    BY <1>k, <2>1, <2>3 DEF OneActivePerPurpose
  <2>7. QED
    BY <2>3, <2>4, <2>5, <2>6
<1>3. CASE Quiet
  <2>1. log' \in Seq(Events)
    BY <1>3, <1>k DEF Quiet, Events
  <2>2. QED
    BY <1>3, <1>k, <2>1 DEF Quiet, RowsAreTheirs, OneActivePerPurpose
<1>4. QED
  BY <1>1, <1>2, <1>3, StepKinds

(* Calls and worktrees stay well formed.                                    *)
LEMMA CallsStep ==
  ASSUME WorkspaceInv, [Next]_vars
  PROVE  /\ call' \in [Callers -> Calls \cup {NoCall}]
         /\ implementing' \in BOOLEAN /\ fuse' \in BOOLEAN
         /\ worktree' \in [Ids -> Revisions \cup {NoTree}]
         /\ behind' \in SUBSET Callers
<1>k. TypeOK
  BY DEF WorkspaceInv
<1>1. ASSUME NEW c \in Callers, NEW r \in Requests, BeginAllocate(c, r)
      PROVE  call' \in [Callers -> Calls \cup {NoCall}]
  <2>1. [next |-> "CHECKOUT", request |-> r, sequence |-> Len(log)] \in Calls
    BY <1>k DEF TypeOK, Calls, Steps
  <2>2. QED
    BY <1>1, <1>k, <2>1 DEF TypeOK, BeginAllocate
<1>2. ASSUME NEW c \in Callers, NEW i \in Ids, BeginRelease(c, i)
      PROVE  call' \in [Callers -> Calls \cup {NoCall}]
  <2>1. rows[i] \in Rows
    BY <1>2, <1>k DEF TypeOK, BeginRelease, NoRow
  <2>2. [next |-> "REMOVE", request |-> rows[i].request, sequence |-> 0] \in Calls
    BY <2>1 DEF Rows, Calls, Steps
  <2>3. QED
    BY <1>2, <1>k, <2>2 DEF TypeOK, BeginRelease
<1>3. ASSUME NEW c \in Callers, Checkout(c) \/ Lookup(c) \/ Insert(c) \/ Cleanup(c)
                                  \/ Remove(c) \/ MarkReleased(c) \/ Crash(c)
      PROVE  call' \in [Callers -> Calls \cup {NoCall}]
  <2>1. ~At(c, "IDLE")
    BY <1>3 DEF Checkout, Lookup, Insert, Cleanup, Remove, MarkReleased, Crash, At
  <2>2. End(c) \/ \E step \in Steps : GoTo(c, step)
    BY <1>3 DEF Checkout, Lookup, Insert, Cleanup, Remove, MarkReleased, Crash, Steps
  <2>3. QED
    BY <1>k, <2>1, <2>2, GoingOn, Ending
<1>4. ASSUME NEW c \in Callers, Checkout(c)
      PROVE  worktree' \in [Ids -> Revisions \cup {NoTree}]
  BY <1>4, <1>k, Requesting DEF Checkout, At, TypeOK
<1>5. ASSUME NEW c \in Callers, Cleanup(c) \/ Remove(c)
      PROVE  worktree' \in [Ids -> Revisions \cup {NoTree}]
  BY <1>5, <1>k DEF Cleanup, Remove, TypeOK
<1>6. ASSUME NEW c \in Callers, ~Checkout(c) /\ ~Cleanup(c) /\ ~Remove(c),
             \/ \E r \in Requests : BeginAllocate(c, r)
             \/ \E i \in Ids : BeginRelease(c, i)
             \/ Lookup(c) \/ Insert(c) \/ MarkReleased(c) \/ Crash(c)
      PROVE  worktree' = worktree
  BY <1>6 DEF BeginAllocate, BeginRelease, Lookup, Insert, MarkReleased, Crash
<1>7. ASSUME ChangeTask \/ SwitchFuse \/ UNCHANGED vars
      PROVE  /\ call' = call /\ worktree' = worktree
             /\ implementing' \in BOOLEAN /\ fuse' \in BOOLEAN
  BY <1>7, <1>k DEF ChangeTask, SwitchFuse, vars, TypeOK
<1>8. ASSUME NEW c \in Callers,
             \/ \E r \in Requests : BeginAllocate(c, r)
             \/ Checkout(c) \/ Lookup(c) \/ Insert(c) \/ Cleanup(c)
             \/ \E i \in Ids : BeginRelease(c, i)
             \/ Remove(c) \/ MarkReleased(c) \/ Crash(c)
      PROVE  implementing' = implementing /\ fuse' = fuse
  BY <1>8 DEF BeginAllocate, Checkout, Lookup, Insert, Cleanup, BeginRelease, Remove,
     MarkReleased, Crash
<1>9. call' \in [Callers -> Calls \cup {NoCall}]
  BY <1>k, <1>1, <1>2, <1>3, <1>7 DEF Next, TypeOK
<1>10. worktree' \in [Ids -> Revisions \cup {NoTree}]
  BY <1>k, <1>4, <1>5, <1>6, <1>7 DEF Next, TypeOK
<1>11. implementing' \in BOOLEAN /\ fuse' \in BOOLEAN
  BY <1>k, <1>7, <1>8 DEF Next, TypeOK
<1>12. behind' \in SUBSET Callers
  BY <1>k DEF TypeOK, Next, vars, BeginAllocate, Checkout, Lookup, Insert, Cleanup, BeginRelease,
     Remove, MarkReleased, Crash, ChangeTask, SwitchFuse, End, GoTo
<1>13. QED
  BY <1>9, <1>10, <1>11, <1>12

(* A call comes to a release from a row that is active or from a worktree   *)
(* it has removed, and rows are never deleted.                              *)
LEMMA ReleasesStep ==
  ASSUME WorkspaceInv, [Next]_vars
  PROVE  ReleasesAreKnown'
<1>k. TypeOK /\ ReleasesAreKnown
  BY DEF WorkspaceInv
<1>r. \A i \in Ids : rows[i] # NoRow => rows'[i] # NoRow
  BY RowsStep
<1>i. \A d \in Callers : call[d].next \in {"REMOVE", "MARK"} => call[d].request.id \in Ids
  BY <1>k, Requesting DEF At
<1> SUFFICES ASSUME NEW d \in Callers, call'[d].next \in {"REMOVE", "MARK"}
             PROVE  rows'[call'[d].request.id] # NoRow
  BY DEF ReleasesAreKnown
<1>1. CASE call'[d] = call[d]
  BY <1>1, <1>k, <1>r, <1>i DEF ReleasesAreKnown
<1>2. ASSUME NEW i \in Ids, BeginRelease(d, i)
      PROVE  rows'[call'[d].request.id] # NoRow
  BY <1>2, <1>k, <1>r DEF BeginRelease, TypeOK, NoRow, WorkspaceInv, RowsAreTheirs
<1>3. ASSUME Remove(d), GoTo(d, "MARK")
      PROVE  rows'[call'[d].request.id] # NoRow
  <2>1. call'[d].request = call[d].request /\ call[d].next = "REMOVE"
    BY <1>3, <1>k, GoingOn DEF Remove, At, Steps
  <2>2. QED
    BY <2>1, <1>k, <1>r, <1>i DEF ReleasesAreKnown
<1>4. ASSUME NEW c \in Callers,
             \/ End(c)
             \/ \E step \in {"LOOKUP", "INSERT", "CLEANUP"} : ~At(c, "IDLE") /\ GoTo(c, step)
             \/ c # d /\ \E new : call' = [call EXCEPT ![c] = new]
      PROVE  call'[d] = call[d]
  <2>1. {"LOOKUP", "INSERT", "CLEANUP"} \subseteq Steps
    BY DEF Steps
  <2>2. CASE End(c)
    BY <2>2, <1>k, Ending
  <2>3. CASE \E step \in {"LOOKUP", "INSERT", "CLEANUP"} : ~At(c, "IDLE") /\ GoTo(c, step)
    BY <2>1, <2>3, <1>k, GoingOn
  <2>4. CASE c # d /\ \E new : call' = [call EXCEPT ![c] = new]
    BY <2>4, <1>k DEF TypeOK
  <2>5. QED
    BY <1>4, <2>2, <2>3, <2>4
<1>5. ASSUME NEW c \in Callers, NEW r \in Requests, BeginAllocate(c, r)
      PROVE  call'[d] = call[d]
  BY <1>5, <1>k DEF BeginAllocate, TypeOK
<1>6. ASSUME NEW c \in Callers, Checkout(c) \/ Lookup(c) \/ Insert(c) \/ Cleanup(c)
                                  \/ MarkReleased(c) \/ Crash(c)
      PROVE  call'[d] = call[d]
  <2>1. ~At(c, "IDLE")
    BY <1>6 DEF Checkout, Lookup, Insert, Cleanup, MarkReleased, Crash, At
  <2>2. End(c) \/ \E step \in {"LOOKUP", "INSERT", "CLEANUP"} : GoTo(c, step)
    BY <1>6 DEF Checkout, Lookup, Insert, Cleanup, MarkReleased, Crash
  <2>3. QED
    BY <1>4, <2>1, <2>2
<1>7. ASSUME NEW c \in Callers, c # d, (\E i \in Ids : BeginRelease(c, i)) \/ Remove(c)
      PROVE  call'[d] = call[d]
  <2>1. End(c) \/ \E new : call' = [call EXCEPT ![c] = new]
    BY <1>7 DEF BeginRelease, Remove, GoTo
  <2>2. QED
    BY <1>4, <1>7, <2>1
<1>8. ASSUME Remove(d), End(d)
      PROVE  FALSE
  BY <1>8, <1>k, Ending
<1>9. CASE ChangeTask \/ SwitchFuse \/ UNCHANGED vars
  BY <1>1, <1>9 DEF ChangeTask, SwitchFuse, vars
<1>10. QED
  BY <1>1, <1>2, <1>3, <1>5, <1>6, <1>7, <1>8, <1>9 DEF Next, Remove

(* A status only changes together with the length of the stream, which      *)
(* never shrinks, or leaves every implementer's allocation behind.          *)
LEMMA StatusStep ==
  ASSUME WorkspaceInv, [Next]_vars
  PROVE  /\ Len(log') >= Len(log) /\ Len(log) \in Nat
         /\ Len(log') = Len(log) =>
              \/ implementing' = implementing
              \/ call' = call /\ behind' = {c \in Callers : Implementing(c)}
<1>1. log \in Seq(Events) /\ Len(log) \in Nat
  BY DEF WorkspaceInv, TypeOK
<1>2. \/ log' = log
      \/ \E e \in Events : log' = Append(log, e)
  <2>1. CASE \E c \in Callers : Inserts(c)
    <3>1. PICK c \in Callers : Inserts(c)
      BY <2>1
    <3>2. call[c].request.id \in Ids
      BY <3>1, Requesting DEF WorkspaceInv, Inserts, At
    <3>3. QED
      BY <3>1, <3>2 DEF Inserts, Event, Events
  <2>2. CASE \E c \in Callers : MarkReleased(c)
    <3>1. PICK c \in Callers : MarkReleased(c)
      BY <2>2
    <3>2. call[c].request.id \in Ids
      BY <3>1, Requesting DEF WorkspaceInv, MarkReleased, At
    <3>3. QED
      BY <3>1, <3>2 DEF MarkReleased, AppendEvent, Event, Events
  <2>3. CASE Quiet
    BY <2>3 DEF Quiet, Events
  <2>4. QED
    BY <2>1, <2>2, <2>3, StepKinds
<1>3. Len(log') >= Len(log) /\ (Len(log') = Len(log) => log' = log)
  BY <1>1, <1>2
<1>4. log' = log => \/ implementing' = implementing
                    \/ call' = call /\ behind' = {c \in Callers : Implementing(c)}
  <2>1. implementing' = implementing \/ ChangeTask
    BY DEF Next, vars, BeginAllocate, Checkout, Lookup, Insert, Cleanup, BeginRelease, Remove,
           MarkReleased, Crash, SwitchFuse
  <2>2. ASSUME log' = Append(log, OtherEvent)
        PROVE  Len(log') = Len(log) + 1
    BY <1>1, <2>2 DEF Events
  <2>3. QED
    BY <1>1, <2>1, <2>2 DEF ChangeTask
<1>5. QED
  BY <1>1, <1>3, <1>4

(* A call that is behind is so until its allocation ends.                   *)
LEMMA BehindStays ==
  ASSUME TypeOK, [Next]_vars, NEW d \in Callers, d \in behind,
         Implementing(d), call'[d].next \in Allocating
  PROVE  d \in behind'
<1>1. ASSUME NEW c \in Callers, End(c)
      PROVE  d \in behind'
  <2>1. c # d
    BY <1>1, Ending DEF Allocating
  <2>2. QED
    BY <1>1, <2>1, Ending
<1>2. ASSUME NEW c \in Callers, ~At(c, "IDLE"), NEW step \in Steps, GoTo(c, step)
      PROVE  d \in behind'
  <2>1. CASE c = d /\ step = "CLEANUP"
    BY <1>2, <2>1, GoingOn DEF Allocating
  <2>2. CASE c # d \/ step # "CLEANUP"
    BY <1>2, <2>2, GoingOn
  <2>3. QED
    BY <2>1, <2>2
<1>3. ASSUME NEW c \in Callers, Checkout(c) \/ Lookup(c) \/ Insert(c) \/ Cleanup(c)
                                  \/ Remove(c) \/ MarkReleased(c) \/ Crash(c)
      PROVE  d \in behind'
  <2>1. ~At(c, "IDLE")
    BY <1>3 DEF Checkout, Lookup, Insert, Cleanup, Remove, MarkReleased, Crash, At
  <2>2. End(c) \/ \E step \in Steps : GoTo(c, step)
    BY <1>3 DEF Checkout, Lookup, Insert, Cleanup, Remove, MarkReleased, Crash, Steps
  <2>3. QED
    BY <1>1, <1>2, <2>1, <2>2
<1>4. ASSUME NEW c \in Callers,
             (\E r \in Requests : BeginAllocate(c, r)) \/ (\E i \in Ids : BeginRelease(c, i))
      PROVE  d \in behind'
  BY <1>4 DEF BeginAllocate, BeginRelease
<1>5. CASE ChangeTask
  BY <1>5 DEF ChangeTask
<1>6. CASE SwitchFuse \/ UNCHANGED vars
  BY <1>6 DEF SwitchFuse, vars
<1>7. QED
  BY <1>3, <1>4, <1>5, <1>6 DEF Next

(* What was read of the status and of the length of the stream was read at  *)
(* one time; from then on either the length is another or the status is not.*)
LEMMA VouchedStep ==
  ASSUME WorkspaceInv, [Next]_vars
  PROVE  Vouched'
<1>k. TypeOK /\ Vouched
  BY DEF WorkspaceInv
<1>l. /\ Len(log') >= Len(log) /\ Len(log) \in Nat /\ Len(log') \in Nat
      /\ Len(log') = Len(log) =>
           \/ implementing' = implementing
           \/ call' = call /\ behind' = {c \in Callers : Implementing(c)}
  BY StatusStep, RowsStep
<1> SUFFICES ASSUME NEW d \in Callers, call'[d].next \in Allocating
             PROVE  /\ call'[d].sequence <= Len(log')
                    /\ call'[d].request.role = "IMPLEMENTER" /\ call'[d].sequence = Len(log')
                         => implementing' \/ d \in behind'
  BY DEF Vouched, Allocating
<1> DEFINE Goal == /\ call'[d].sequence <= Len(log')
                   /\ call'[d].request.role = "IMPLEMENTER" /\ call'[d].sequence = Len(log')
                        => implementing' \/ d \in behind'
<1>1. ASSUME call[d].next \in Allocating,
             call'[d].request = call[d].request, call'[d].sequence = call[d].sequence
      PROVE  Goal
  <2>1. call[d].sequence \in Nat /\ call[d].sequence <= Len(log)
    BY <1>1, <1>k, Requesting DEF At, Vouched, Allocating
  <2>2. ASSUME call[d].request.role = "IMPLEMENTER", call[d].sequence = Len(log')
        PROVE  implementing' \/ d \in behind'
    <3>1. Len(log') = Len(log) /\ call[d].sequence = Len(log)
      BY <1>l, <2>1, <2>2
    <3>2. implementing \/ d \in behind
      BY <1>1, <1>k, <2>2, <3>1 DEF Vouched
    <3>3. Implementing(d)
      BY <1>1, <2>2 DEF Implementing, Allocating
    <3>4. d \in behind => d \in behind'
      BY <1>k, <3>3, BehindStays
    <3>5. implementing' = implementing \/ d \in behind'
      BY <1>l, <3>1, <3>3
    <3>6. QED
      BY <3>2, <3>4, <3>5
  <2>3. QED
    BY <1>1, <1>l, <2>1, <2>2
<1>2. ASSUME NEW r \in Requests, BeginAllocate(d, r)
      PROVE  Goal
  <2>1. r.role = "IMPLEMENTER" => implementing
    BY <1>2 DEF BeginAllocate, Allowed, Reviewers
  <2>2. /\ call'[d].request = r /\ call'[d].sequence = Len(log)
        /\ implementing' = implementing /\ log' = log
    BY <1>2, <1>k DEF BeginAllocate, TypeOK
  <2>3. QED
    BY <2>1, <2>2, <1>l
<1>3. ASSUME NEW c \in Callers, End(c) \/ c # d, End(c) \/ \E new : call' = [call EXCEPT ![c] = new]
      PROVE  Goal
  <2>1. call'[d] = call[d]
    <3>1. CASE End(c)
      BY <3>1, <1>k, Ending DEF Allocating
    <3>2. CASE c # d /\ \E new : call' = [call EXCEPT ![c] = new]
      BY <3>2, <1>k DEF TypeOK
    <3>3. QED
      BY <1>3, <3>1, <3>2
  <2>2. QED
    BY <1>1, <2>1
<1>4. ASSUME Checkout(d) \/ Lookup(d) \/ Insert(d)
      PROVE  Goal
  <2>1. CASE End(d)
    BY <2>1, <1>3
  <2>2. CASE \E step \in Steps : GoTo(d, step)
    BY <2>2, <1>4, <1>1, <1>k, GoingOn DEF Checkout, Lookup, Insert, At, Allocating
  <2>3. QED
    BY <1>4, <2>1, <2>2 DEF Checkout, Lookup, Insert, Steps
<1>5. ASSUME NEW c \in Callers, Cleanup(c) \/ MarkReleased(c) \/ Crash(c)
      PROVE  Goal
  BY <1>3, <1>5 DEF Cleanup, MarkReleased, Crash
<1>6. ASSUME (\E i \in Ids : BeginRelease(d, i)) \/ (Remove(d) /\ GoTo(d, "MARK"))
      PROVE  FALSE
  BY <1>6, <1>k, GoingOn DEF BeginRelease, Remove, TypeOK, At, Steps, Allocating
<1>7. ASSUME NEW c \in Callers, c # d,
             \/ \E r \in Requests : BeginAllocate(c, r)
             \/ Checkout(c) \/ Lookup(c) \/ Insert(c)
             \/ \E i \in Ids : BeginRelease(c, i)
             \/ Remove(c)
      PROVE  Goal
  <2>1. End(c) \/ \E new : call' = [call EXCEPT ![c] = new]
    BY <1>7 DEF BeginAllocate, Checkout, Lookup, Insert, BeginRelease, Remove, GoTo
  <2>2. QED
    BY <1>3, <1>7, <2>1
<1>8. CASE ChangeTask \/ SwitchFuse \/ UNCHANGED vars
  BY <1>1, <1>8 DEF ChangeTask, SwitchFuse, vars
<1>9. QED
  BY <1>2, <1>3, <1>4, <1>5, <1>6, <1>7, <1>8 DEF Next, Remove

------------------------------------------------------------------------------
(* An event added tells of its id and kind and of no other.                 *)
LEMMA TellingsAdded ==
  ASSUME log \in Seq(Events), NEW kind, NEW i, NEW e, log' = Append(log, e)
  PROVE  Tellings(kind, i)' = IF e = Event(kind, i)
                              THEN Tellings(kind, i) \cup {Len(log) + 1}
                              ELSE Tellings(kind, i)
<1>1. /\ Len(log') = Len(log) + 1 /\ log'[Len(log) + 1] = e /\ Len(log) \in Nat
      /\ \A n \in 1..Len(log) : log'[n] = log[n]
  OBVIOUS
<1>2. CASE e = Event(kind, i)
  BY <1>1, <1>2 DEF Tellings
<1>3. CASE e # Event(kind, i)
  BY <1>1, <1>3 DEF Tellings
<1>4. QED
  BY <1>2, <1>3

(* A row and its event are written in one step.                             *)
LEMMA ToldStep ==
  ASSUME WorkspaceInv, [Next]_vars
  PROVE  AllTold'
<1>k. TypeOK /\ AllTold /\ log \in Seq(Events) /\ Len(log) \in Nat
  BY DEF WorkspaceInv, TypeOK
<1>e. \A kind, i, kind2, j : Event(kind, i) = Event(kind2, j) <=> kind = kind2 /\ i = j
  BY DEF Event
<1> SUFFICES ASSUME NEW i \in Ids
             PROVE  Told(i)'
  BY DEF AllTold
<1>i. Told(i)
  BY <1>k DEF AllTold
<1>1. ASSUME NEW c \in Callers, Inserts(c)
      PROVE  Told(i)'
  <2> DEFINE r == call[c].request
             row == [state |-> "ACTIVE", request |-> r, sequence |-> call[c].sequence]
  <2>1. r.id \in Ids /\ rows[r.id] = NoRow /\ row # NoRow /\ row.state = "ACTIVE"
    BY <1>1, <1>k, Requesting DEF Inserts, Insertable, At, NoRow
  <2>2. log' = Append(log, Event("ALLOCATED", r.id)) /\ rows' = [rows EXCEPT ![r.id] = row]
    BY <1>1 DEF Inserts
  <2> HIDE DEF r, row
  <2>3. /\ Tellings("ALLOCATED", i)' = IF i = r.id THEN Tellings("ALLOCATED", i) \cup {Len(log) + 1}
                                                   ELSE Tellings("ALLOCATED", i)
        /\ Tellings("RELEASED", i)' = Tellings("RELEASED", i)
    BY <2>2, <1>k, <1>e, TellingsAdded
  <2>4. CASE i = r.id
    <3>1. rows'[i] = row /\ rows[i] = NoRow
      BY <2>1, <2>2, <2>4, <1>k DEF TypeOK
    <3>2. Tellings("ALLOCATED", i)' = {Len(log) + 1} /\ Tellings("RELEASED", i)' = {}
      BY <2>3, <2>4, <3>1, <1>i DEF Told, NoRow
    <3>3. QED
      BY <2>1, <3>1, <3>2, <1>k DEF Told
  <2>5. CASE i # r.id
    <3>1. rows'[i] = rows[i]
      BY <2>2, <2>5, <1>k DEF TypeOK
    <3>2. QED
      BY <2>3, <2>5, <3>1, <1>i DEF Told
  <2>6. QED
    BY <2>4, <2>5
<1>2. ASSUME NEW c \in Callers, MarkReleased(c)
      PROVE  Told(i)'
  <2> DEFINE j == call[c].request.id
  <2>1. j \in Ids /\ rows[j] # NoRow /\ rows[j] \in Rows
    BY <1>2, <1>k, Requesting DEF MarkReleased, At, WorkspaceInv, ReleasesAreKnown, TypeOK
  <2>2. log' = Append(log, Event("RELEASED", j)) /\ rows' = [rows EXCEPT ![j].state = "RELEASED"]
    BY <1>2 DEF MarkReleased, AppendEvent
  <2> HIDE DEF j
  <2>3. /\ Tellings("RELEASED", i)' = IF i = j THEN Tellings("RELEASED", i) \cup {Len(log) + 1}
                                               ELSE Tellings("RELEASED", i)
        /\ Tellings("ALLOCATED", i)' = Tellings("ALLOCATED", i)
    BY <2>2, <1>k, <1>e, TellingsAdded
  <2>4. CASE i = j
    <3>1. rows'[i].state = "RELEASED" /\ rows'[i] # NoRow /\ rows[i] # NoRow
      BY <2>1, <2>2, <2>4, <1>k DEF TypeOK, Rows, NoRow
    <3>2. QED
      BY <2>3, <2>4, <3>1, <1>i DEF Told
  <2>5. CASE i # j
    <3>1. rows'[i] = rows[i]
      BY <2>2, <2>5, <1>k DEF TypeOK
    <3>2. QED
      BY <2>3, <2>5, <3>1, <1>i DEF Told
  <2>6. QED
    BY <2>4, <2>5
<1>3. CASE Quiet
  <2>1. \A kind \in {"ALLOCATED", "RELEASED"} : Tellings(kind, i)' = Tellings(kind, i)
    <3>1. CASE log' = log
      BY <3>1 DEF Tellings
    <3>2. CASE log' = Append(log, OtherEvent)
      BY <3>2, <1>k, <1>e, TellingsAdded DEF OtherEvent
    <3>3. QED
      BY <1>3, <3>1, <3>2 DEF Quiet
  <2>2. QED
    BY <1>3, <1>i, <2>1 DEF Quiet, Told
<1>4. QED
  BY <1>1, <1>2, <1>3, StepKinds

------------------------------------------------------------------------------
(* Nothing is on record at first, and nothing is told.                      *)
LEMMA WorkspacesBegin == Init => WorkspaceInv
<1> SUFFICES ASSUME Init
             PROVE  WorkspaceInv
  OBVIOUS
<1>1. TypeOK
  <2>1. log \in Seq(Events)
    BY DEF Init, Events
  <2>2. QED
    BY <2>1 DEF Init, TypeOK
<1>2. \A c \in Callers : call[c].next = "IDLE"
  BY DEF Init, NoCall
<1>3. \A i \in Ids : rows[i] = NoRow /\ rows[i].state = "ABSENT"
  BY DEF Init, NoRow
<1>4. \A i \in Ids, kind \in {"ALLOCATED", "RELEASED"} : Tellings(kind, i) = {}
  BY DEF Init, Tellings, OtherEvent, Event
<1>5. RowsAreTheirs /\ ReleasesAreKnown /\ Vouched /\ OneActivePerPurpose /\ AllTold
  BY <1>2, <1>3, <1>4
     DEF RowsAreTheirs, ReleasesAreKnown, Vouched, Allocating, OneActivePerPurpose, AllTold, Told
<1>6. QED
  BY <1>1, <1>5 DEF WorkspaceInv

(* The inductive invariant: what the properties need of calls in flight.    *)
LEMMA AlwaysWorkspaceInv == Spec => []WorkspaceInv
<1>1. WorkspaceInv /\ [Next]_vars => WorkspaceInv'
  BY RowsStep, CallsStep, ReleasesStep, VouchedStep, ToldStep DEF WorkspaceInv, TypeOK
<1>2. QED
  BY <1>1, WorkspacesBegin, PTL DEF Spec

(* Rows, worktrees, events and calls are well formed for any requests and   *)
(* any number of calls.                                                     *)
THEOREM TypeCorrect == Spec => []TypeOK
BY AlwaysWorkspaceInv, PTL DEF WorkspaceInv

(* No two workspaces of one purpose are active, whichever calls looked      *)
(* before either inserted.                                                  *)
THEOREM AlwaysOneActivePerPurpose == Spec => []OneActivePerPurpose
BY AlwaysWorkspaceInv, PTL DEF WorkspaceInv

(* Each allocation on record has its one event and each release at least    *)
(* one, whatever calls collide or die between file system and commit.       *)
THEOREM EventsAlwaysTellTheLedger == Spec => []EventsTellTheLedger
<1>1. ASSUME WorkspaceInv, NEW i \in Ids
      PROVE  /\ Cardinality(Tellings("ALLOCATED", i)) = IF rows[i] = NoRow THEN 0 ELSE 1
             /\ Cardinality(Tellings("RELEASED", i)) > 0 <=> rows[i].state = "RELEASED"
  <2>1. Told(i) /\ Len(log) \in Nat
    BY <1>1 DEF WorkspaceInv, AllTold, TypeOK
  <2>2. rows[i] = NoRow => Cardinality(Tellings("ALLOCATED", i)) = 0
    BY <2>1, FS_EmptySet DEF Told
  <2>3. rows[i] # NoRow => Cardinality(Tellings("ALLOCATED", i)) = 1
    <3>1. ASSUME rows[i] # NoRow
          PROVE  Cardinality(Tellings("ALLOCATED", i)) = 1
      <4>1. PICK n \in Nat : Tellings("ALLOCATED", i) = {n}
        BY <2>1, <3>1 DEF Told
      <4>2. QED
        BY <4>1, FS_Singleton
    <3>2. QED
      BY <3>1
  <2>4. IsFiniteSet(Tellings("RELEASED", i))
    <3>1. IsFiniteSet(1..Len(log)) /\ Tellings("RELEASED", i) \subseteq 1..Len(log)
      BY <2>1, FS_Interval DEF Tellings
    <3>2. QED
      BY <3>1, FS_Subset
  <2>5. Cardinality(Tellings("RELEASED", i)) > 0 <=> Tellings("RELEASED", i) # {}
    BY <2>4, FS_EmptySet, FS_CardinalityType
  <2>6. QED
    BY <2>1, <2>2, <2>3, <2>5 DEF Told
<1>2. WorkspaceInv => EventsTellTheLedger
  BY <1>1 DEF EventsTellTheLedger, Tellings
<1>3. QED
  BY <1>2, AlwaysWorkspaceInv, PTL

(* An implementer's allocation commits only while the task is IMPLEMENTING, *)
(* though the status was read without a lock, unless a change that brought  *)
(* an event already on record came between.                                 *)
THEOREM ImplementerIsAlwaysCurrent == Spec => ImplementerIsCurrent
<1> DEFINE Granted == implementing \/ \E c \in behind : call'[c] # call[c]
<1>1. ASSUME WorkspaceInv, [Next]_vars, NEW i \in Ids,
             rows[i] = NoRow, rows'[i] # NoRow, rows'[i].request.role = "IMPLEMENTER"
      PROVE  Granted
  <2>k. TypeOK /\ Vouched /\ ReleasesAreKnown
    BY <1>1 DEF WorkspaceInv
  <2>1. ASSUME NEW c \in Callers, Inserts(c)
        PROVE  Granted
    <3>1. call[c].request.id \in Ids
      BY <2>1, <2>k, Requesting DEF Inserts, At
    <3>2. rows'[i].request = call[c].request
      BY <1>1, <2>1, <2>k, <3>1 DEF Inserts, TypeOK
    <3>3. implementing \/ c \in behind
      BY <1>1, <2>1, <2>k, <3>2 DEF Vouched, Inserts, Insertable, At, Allocating
    <3>4. call'[c] # call[c]
      BY <2>1, <2>k, Ending DEF Inserts, At
    <3>5. QED
      BY <3>3, <3>4
  <2>2. ASSUME NEW c \in Callers, MarkReleased(c)
        PROVE  FALSE
    <3>1. call[c].request.id \in Ids /\ rows[call[c].request.id] # NoRow
      BY <2>2, <2>k, Requesting DEF MarkReleased, At, ReleasesAreKnown
    <3>2. QED
      BY <1>1, <2>2, <2>k, <3>1 DEF MarkReleased, TypeOK
  <2>3. ~Quiet
    BY <1>1 DEF Quiet
  <2>4. QED
    BY <1>1, <2>1, <2>2, <2>3, StepKinds
<1>2. WorkspaceInv /\ [Next]_vars =>
        [\A i \in Ids :
           rows[i] = NoRow /\ rows'[i] # NoRow /\ rows'[i].request.role = "IMPLEMENTER"
             => Granted]_vars
  BY <1>1
<1>3. QED
  BY <1>2, AlwaysWorkspaceInv, PTL DEF Spec, ImplementerIsCurrent
=============================================================================
