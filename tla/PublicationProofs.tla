-------------------------- MODULE PublicationProofs --------------------------
(***************************************************************************)
(* Proofs about Publication, for any number of callers and heads.         *)
(***************************************************************************)
EXTENDS Publication, SequenceTheorems, TLAPS

(* What PushToBranch does to the pull requests: the open ones get its head. *)
LEMMA PushedPulls ==
  ASSUME pulls \in Seq(Pulls), PushToBranch
  PROVE  /\ pulls' \in Seq(Pulls)
         /\ Len(pulls') = Len(pulls)
         /\ \A n \in 1..Len(pulls) :
              /\ pulls'[n].exactBase = pulls[n].exactBase
              /\ pulls'[n].head \in {pulls[n].head, Foreign}
<1> DEFINE Pushed(n) == IF pulls[n].open THEN [pulls[n] EXCEPT !.head = Foreign]
                                         ELSE pulls[n]
<1>1. \A n \in 1..Len(pulls) : pulls[n] \in Pulls
  OBVIOUS
<1>2. \A n \in 1..Len(pulls) :
        /\ Pushed(n) \in Pulls
        /\ Pushed(n).exactBase = pulls[n].exactBase
        /\ Pushed(n).head \in {pulls[n].head, Foreign}
  BY <1>1 DEF Pulls
<1>3. pulls' = [n \in 1..Len(pulls) |-> Pushed(n)]
  BY DEF PushToBranch
<1>4. Len(pulls) \in Nat
  OBVIOUS
<1> HIDE DEF Pushed
<1>5. pulls' \in [1..Len(pulls) -> Pulls]
  BY <1>2, <1>3
<1>6. pulls' \in Seq(Pulls) /\ Len(pulls') = Len(pulls)
  BY <1>4, <1>5, SeqDef, LenProperties
<1>7. QED
  BY <1>2, <1>3, <1>6

(* A pull request that is closed keeps its head and base.                   *)
LEMMA ClosedPulls ==
  ASSUME pulls \in Seq(Pulls), ClosePull
  PROVE  /\ pulls' \in Seq(Pulls)
         /\ Len(pulls') = Len(pulls)
         /\ \A n \in 1..Len(pulls) :
              /\ pulls'[n].exactBase = pulls[n].exactBase
              /\ pulls'[n].head = pulls[n].head
<1>1. PICK m \in 1..Len(pulls) : pulls' = [pulls EXCEPT ![m].open = FALSE]
  BY DEF ClosePull, OpenPulls
<1>2. pulls[m] \in Pulls
  OBVIOUS
<1>3. [pulls[m] EXCEPT !.open = FALSE] \in Pulls
  BY <1>2 DEF Pulls
<1>4. pulls' = [pulls EXCEPT ![m] = [pulls[m] EXCEPT !.open = FALSE]]
  BY <1>1
<1>5. pulls' \in Seq(Pulls) /\ Len(pulls') = Len(pulls)
  BY <1>3, <1>4, ExceptSeq
<1>6. QED
  BY <1>2, <1>4, <1>5 DEF Pulls

------------------------------------------------------------------------------
(* Whoever is past the branch has seen one, and a branch does not go away.  *)
BranchIsThere ==
  \A c \in Callers :
    call[c].next \in {"FIND_PULL", "OPEN_PULL", "RECORD"} => branch # Absent

(* What is durably announced is verified and approved, ...                  *)
AnnouncedIsApproved ==
  effect.head # Absent =>
    Verified /\ publication.head = effect.head /\ effect.head \in approvals

(* ... and nothing else is handed to GitHub, or found there.                *)
OnlyAnnounced ==
  /\ \A c \in Callers : call[c].next \notin {"IDLE", "TRANSACTION"} =>
       call[c].head = effect.head /\ effect.head \in Heads
  /\ branch \in Heads => branch = effect.head
  /\ \A n \in 1..Len(pulls) : pulls[n].head \in Heads => pulls[n].head = effect.head

(* A number about to be recorded is that of an exact pull request.          *)
FoundIsExact ==
  \A c \in Callers : call[c].next = "RECORD" =>
    /\ call[c].number \in 1..Len(pulls)
    /\ pulls[call[c].number].exactBase

(* The inductive invariant, beside TypeOK.                                  *)
Safe ==
  /\ BranchIsThere
  /\ AnnouncedIsApproved
  /\ OnlyAnnounced
  /\ FoundIsExact
  /\ ReceiptIsExact

------------------------------------------------------------------------------
(* The type of the calls is kept by every step a call can take.             *)
LEMMA CallsStayCalls ==
  ASSUME TypeOK, NEW c \in Callers
  PROVE  /\ End(c) => call' \in [Callers -> Calls]
         /\ \A step \in Steps : GoTo(c, step) => call' \in [Callers -> Calls]
         /\ call[c] \in Calls /\ NoCall \in Calls
<1>1. call[c] \in Calls /\ NoCall \in Calls
  BY DEF TypeOK, NoCall, Calls, Steps
<1>2. End(c) => call' \in [Callers -> Calls]
  BY <1>1 DEF TypeOK, End
<1>3. ASSUME NEW step \in Steps, GoTo(c, step)
      PROVE  call' \in [Callers -> Calls]
  <2>1. [call[c] EXCEPT !.next = step] \in Calls
    BY <1>1, <1>3 DEF Calls
  <2>2. call' = [call EXCEPT ![c] = [call[c] EXCEPT !.next = step]]
    BY <1>3 DEF GoTo
  <2>3. QED
    BY <2>1, <2>2 DEF TypeOK
<1>4. QED
  BY <1>1, <1>2, <1>3

(* What the tables, GitHub and the calls hold stays well formed, for any    *)
(* number of callers and heads.                                           *)
LEMMA TypeStep ==
  ASSUME TypeOK, BranchIsThere, [Next]_vars
  PROVE  TypeOK'
<1> USE DEF ledger, github
<1>p. pulls \in Seq(Pulls) /\ Len(pulls) \in Nat
  BY DEF TypeOK
<1>1. ASSUME NEW c \in Callers, Begin(c) PROVE TypeOK'
  <2>1. [[NoCall EXCEPT !.next = "TRANSACTION"] EXCEPT !.clear = ready /\ ~fuse] \in Calls
    BY DEF NoCall, Calls, Steps
  <2>2. [[[NoCall EXCEPT !.next = "TRANSACTION"] EXCEPT !.clear = ready /\ ~fuse]
           EXCEPT !.version = version] \in Calls
    BY <2>1 DEF Calls, TypeOK
  <2>3. call' = [call EXCEPT ![c] =
           [[[NoCall EXCEPT !.next = "TRANSACTION"] EXCEPT !.clear = ready /\ ~fuse]
              EXCEPT !.version = version]]
    BY <1>1 DEF Begin
  <2>4. call' \in [Callers -> Calls]
    BY <2>2, <2>3 DEF TypeOK
  <2>5. QED
    BY <1>1, <2>4 DEF Begin, TypeOK
<1>2. ASSUME NEW c \in Callers, Crash(c) PROVE TypeOK'
  BY <1>2, CallsStayCalls DEF Crash, TypeOK
<1>3. ASSUME NEW c \in Callers, NEW p \in Heads, NEW verdict \in Verdicts,
             Prepare(c, p, verdict)
      PROVE  TypeOK'
  <2>1. Recorded(p, verdict) \in Publications
    BY DEF Recorded, Publications, TypeOK
  <2>2. QED
    BY <1>3, <2>1, CallsStayCalls DEF Prepare, TypeOK
<1>4. ASSUME NEW c \in Callers, Approve(c) PROVE TypeOK'
  BY <1>4, CallsStayCalls DEF Approve, Verified, Publications, TypeOK
<1>5. ASSUME NEW c \in Callers, RequestEffect(c) PROVE TypeOK'
  <2>1. publication.head \in Heads
    BY <1>5 DEF RequestEffect, Publishable, Verified, Publications, TypeOK
  <2>2. effect' \in [head : Heads \cup {Absent}, receipt : Nat]
    BY <1>5, <2>1 DEF RequestEffect, Announced, TypeOK
  <2>3. [[call[c] EXCEPT !.next = "READ_BASE"] EXCEPT !.head = publication.head] \in Calls
    BY <2>1, CallsStayCalls DEF Calls, Steps
  <2>4. call' = [call EXCEPT ![c] =
           [[call[c] EXCEPT !.next = "READ_BASE"] EXCEPT !.head = publication.head]]
    BY <1>5 DEF RequestEffect, TypeOK
  <2>5. call' \in [Callers -> Calls]
    BY <2>3, <2>4 DEF TypeOK
  <2>6. QED
    BY <1>5, <2>2, <2>5 DEF RequestEffect, TypeOK
<1>6. ASSUME NEW c \in Callers, ReadBase(c) \/ ReadRef(c) PROVE TypeOK'
  <2>1. \E step \in Steps : GoTo(c, step)
    BY <1>6 DEF ReadBase, ReadRef, Steps
  <2>2. QED
    BY <1>6, <2>1, CallsStayCalls DEF ReadBase, ReadRef, TypeOK
<1>7. ASSUME NEW c \in Callers, CreateRef(c) PROVE TypeOK'
  <2>1. GoTo(c, "FIND_PULL") /\ "FIND_PULL" \in Steps
    BY <1>7 DEF CreateRef, Steps
  <2>2. branch' \in Heads \cup {Absent, Foreign}
    BY <1>7, CallsStayCalls DEF CreateRef, Calls
  <2>3. QED
    BY <1>7, <2>1, <2>2, CallsStayCalls DEF CreateRef, TypeOK
<1>r. ASSUME NEW c \in Callers, NEW n \in Nat,
             call' = [call EXCEPT ![c].next = "RECORD", ![c].number = n]
      PROVE  call' \in [Callers -> Calls]
  <2>1. [[call[c] EXCEPT !.next = "RECORD"] EXCEPT !.number = n] \in Calls
    BY CallsStayCalls DEF Calls, Steps
  <2>2. call' = [call EXCEPT ![c] = [[call[c] EXCEPT !.next = "RECORD"] EXCEPT !.number = n]]
    BY <1>r DEF TypeOK
  <2>3. QED
    BY <2>1, <2>2 DEF TypeOK
<1>8. ASSUME NEW c \in Callers, FindPull(c) PROVE TypeOK'
  <2>1. call' \in [Callers -> Calls]
    <3>1. CASE GoTo(c, "OPEN_PULL")
      BY <3>1, CallsStayCalls DEF Steps
    <3>2. CASE \E n \in OpenPulls :
                 call' = [call EXCEPT ![c].next = "RECORD", ![c].number = n]
      <4>1. PICK n \in OpenPulls :
              call' = [call EXCEPT ![c].next = "RECORD", ![c].number = n]
        BY <3>2
      <4>2. n \in Nat
        BY <1>p DEF OpenPulls
      <4>3. QED
        BY <1>r, <4>1, <4>2
    <3>3. QED
      BY <1>8, <3>1, <3>2 DEF FindPull
  <2>2. QED
    BY <1>8, <2>1 DEF FindPull, TypeOK
<1>9. ASSUME NEW c \in Callers, OpenPull(c) PROVE TypeOK'
  <2>1. branch \in Heads \cup {Foreign}
    BY <1>9 DEF OpenPull, At, BranchIsThere, TypeOK
  <2>2. [open |-> TRUE, head |-> branch, exactBase |-> base] \in Pulls
    BY <2>1 DEF Pulls, TypeOK
  <2>3. pulls' = Append(pulls, [open |-> TRUE, head |-> branch, exactBase |-> base])
    BY <1>9 DEF OpenPull
  <2>4. pulls' \in Seq(Pulls) /\ Len(pulls') \in Nat
    BY <1>p, <2>2, <2>3, AppendProperties
  <2>5. call' \in [Callers -> Calls]
    BY <1>9, <1>r, <2>4, CallsStayCalls DEF OpenPull
  <2>6. QED
    BY <1>9, <2>4, <2>5 DEF OpenPull, TypeOK
<1>10. ASSUME NEW c \in Callers, RecordReceipt(c) PROVE TypeOK'
  <2>1. call[c].number \in Nat
    BY CallsStayCalls DEF Calls
  <2>2. effect' \in [head : Heads \cup {Absent}, receipt : Nat]
    BY <1>10, <2>1 DEF RecordReceipt, TypeOK
  <2>3. QED
    BY <1>10, <2>2, CallsStayCalls DEF RecordReceipt, TypeOK
<1>11. CASE ChangeTask
  <2>1. ready' \in BOOLEAN
    BY <1>11, Zenon DEF ChangeTask, TypeOK
  <2>2. version' \in Nat
    BY <1>11 DEF ChangeTask, TypeOK
  <2>3. QED
    BY <1>11, <2>1, <2>2 DEF ChangeTask, TypeOK
<1>12. CASE SwitchFuse
  BY <1>12 DEF SwitchFuse, TypeOK
<1>13. CASE AdvanceBase
  BY <1>13 DEF AdvanceBase, TypeOK
<1>14. CASE ClosePull
  <2>1. pulls' \in Seq(Pulls)
    BY <1>p, <1>14, ClosedPulls
  <2>2. QED
    BY <1>14, <2>1 DEF ClosePull, TypeOK
<1>15. CASE PushToBranch
  <2>1. pulls' \in Seq(Pulls)
    BY <1>p, <1>15, PushedPulls
  <2>2. QED
    BY <1>15, <2>1 DEF PushToBranch, TypeOK
<1>16. CASE UNCHANGED vars
  BY <1>16 DEF vars, TypeOK
<1>17. QED
  BY <1>1, <1>2, <1>3, <1>4, <1>5, <1>6, <1>7, <1>8, <1>9, <1>10, <1>11, <1>12, <1>13,
     <1>14, <1>15, <1>16 DEF Next, Transact, Reconcile

------------------------------------------------------------------------------
(* Where a call of End, GoTo or Begin leaves every call.                    *)
LEMMA WhereCallsAre ==
  ASSUME TypeOK, NEW c \in Callers
  PROVE  /\ End(c) => \A d \in Callers : call'[d] = call[d] \/ call'[d].next = "IDLE"
         /\ Begin(c) => \A d \in Callers : call'[d] = call[d]
                                            \/ call'[d].next = "TRANSACTION"
         /\ \A step \in Steps : GoTo(c, step) => \A d \in Callers :
               /\ call'[d].next = (IF d = c THEN step ELSE call[d].next)
               /\ call'[d].head = call[d].head
               /\ call'[d].number = call[d].number
<1>1. End(c) => \A d \in Callers : call'[d] = call[d] \/ call'[d].next = "IDLE"
  BY DEF TypeOK, End, NoCall
<1>2. ASSUME Begin(c), NEW d \in Callers
      PROVE  call'[d] = call[d] \/ call'[d].next = "TRANSACTION"
  <2>1. call' = [call EXCEPT ![c] = [NoCall EXCEPT !.next = "TRANSACTION",
                   !.clear = ready /\ ~fuse, !.version = version]]
    BY <1>2 DEF Begin
  <2>2. [NoCall EXCEPT !.next = "TRANSACTION", !.clear = ready /\ ~fuse,
           !.version = version].next = "TRANSACTION"
    BY DEF NoCall
  <2>3. QED
    BY <2>1, <2>2 DEF TypeOK
<1>3. ASSUME NEW step \in Steps, GoTo(c, step), NEW d \in Callers
      PROVE  /\ call'[d].next = (IF d = c THEN step ELSE call[d].next)
             /\ call'[d].head = call[d].head
             /\ call'[d].number = call[d].number
  <2>1. call[d] \in Calls
    BY DEF TypeOK
  <2>2. call' = [call EXCEPT ![c] = [call[c] EXCEPT !.next = step]]
    BY <1>3 DEF GoTo
  <2>3. call'[d] = IF d = c THEN [call[d] EXCEPT !.next = step] ELSE call[d]
    BY <2>2 DEF TypeOK
  <2>4. QED
    BY <2>1, <2>3 DEF Calls
<1>4. QED
  BY <1>1, <1>2, <1>3

(* Where the step that found a pull request's number leaves every call.     *)
LEMMA WhereFinderIs ==
  ASSUME TypeOK, NEW c \in Callers, NEW n,
         call' = [call EXCEPT ![c].next = "RECORD", ![c].number = n]
  PROVE  \A d \in Callers :
           IF d = c THEN /\ call'[d].next = "RECORD"
                         /\ call'[d].head = call[d].head
                         /\ call'[d].number = n
                    ELSE call'[d] = call[d]
<1>1. call' = [call EXCEPT ![c] = [[call[c] EXCEPT !.next = "RECORD"] EXCEPT !.number = n]]
  BY DEF TypeOK
<1>2. call[c] \in Calls
  BY DEF TypeOK
<1>3. QED
  BY <1>1, <1>2 DEF TypeOK, Calls

(* Safe only looks at the calls, the ledger, the branch and the pull         *)
(* requests, and a call that goes back to its first steps disturbs none.    *)
LEMMA QuietStep ==
  ASSUME Safe, UNCHANGED <<publication, approvals, effect, branch, pulls>>,
         \A d \in Callers : call'[d] = call[d] \/ call'[d].next \in {"IDLE", "TRANSACTION"}
  PROVE  Safe'
  BY DEF Safe, BranchIsThere, AnnouncedIsApproved, OnlyAnnounced, FoundIsExact,
         ReceiptIsExact, Verified

(* No step hands GitHub anything that is not announced, and what is         *)
(* announced is approved.                                                   *)
LEMMA SafeStep ==
  ASSUME TypeOK, Safe, [Next]_vars
  PROVE  Safe'
<1> USE DEF ledger, github
<1>a. Absent \notin Heads /\ Foreign \notin Heads /\ Absent # Foreign
  BY HeadAssumption DEF Absent, Foreign
<1>p. pulls \in Seq(Pulls) /\ Len(pulls) \in Nat
  BY DEF TypeOK
<1>s. BranchIsThere /\ AnnouncedIsApproved /\ OnlyAnnounced /\ FoundIsExact /\ ReceiptIsExact
  BY DEF Safe
<1>1. ASSUME NEW c \in Callers, Begin(c) PROVE Safe'
  <2>1. \A d \in Callers : call'[d] = call[d] \/ call'[d].next \in {"IDLE", "TRANSACTION"}
    BY <1>1, WhereCallsAre
  <2>2. QED
    BY <1>1, <2>1, QuietStep DEF Begin
<1>2. ASSUME NEW c \in Callers, Crash(c) PROVE Safe'
  <2>1. \A d \in Callers : call'[d] = call[d] \/ call'[d].next \in {"IDLE", "TRANSACTION"}
    BY <1>2, WhereCallsAre DEF Crash
  <2>2. QED
    BY <1>2, <2>1, QuietStep DEF Crash
<1>3. ASSUME NEW c \in Callers, NEW p \in Heads, NEW verdict \in Verdicts,
             Prepare(c, p, verdict)
      PROVE  Safe'
  <2>1. effect.head = Absent
    BY <1>3, <1>s DEF Prepare, Reservable, AnnouncedIsApproved, Verified
  <2>2. \A d \in Callers : call'[d] = call[d] \/ call'[d].next = "IDLE"
    BY <1>3, WhereCallsAre DEF Prepare
  <2>3. QED
    BY <1>3, <1>s, <2>1, <2>2 DEF Prepare, Safe, BranchIsThere, AnnouncedIsApproved,
       OnlyAnnounced, FoundIsExact, ReceiptIsExact
<1>4. ASSUME NEW c \in Callers, Approve(c) PROVE Safe'
  <2>1. \A d \in Callers : call'[d] = call[d] \/ call'[d].next = "IDLE"
    BY <1>4, WhereCallsAre DEF Approve
  <2>2. QED
    BY <1>4, <1>s, <2>1 DEF Approve, Safe, BranchIsThere, AnnouncedIsApproved,
       OnlyAnnounced, FoundIsExact, ReceiptIsExact, Verified
<1>5. ASSUME NEW c \in Callers, RequestEffect(c) PROVE Safe'
  <2>1. publication.head \in Heads /\ Publishable
    BY <1>5 DEF RequestEffect, Publishable, Verified, Publications, TypeOK
  <2>2. effect'.head = publication.head /\ effect'.receipt = effect.receipt
    BY <1>5 DEF RequestEffect, Announced, TypeOK
  <2>3. effect.head \in {Absent, effect'.head} /\ effect.receipt = 0
    BY <1>5, <2>2 DEF RequestEffect, Announced
  <2>4. \A d \in Callers :
          IF d = c THEN call'[d].next = "READ_BASE" /\ call'[d].head = publication.head
                   ELSE call'[d] = call[d]
    <3>1. call' = [call EXCEPT ![c] =
             [[call[c] EXCEPT !.next = "READ_BASE"] EXCEPT !.head = publication.head]]
      BY <1>5 DEF RequestEffect, TypeOK
    <3>2. call[c] \in Calls
      BY DEF TypeOK
    <3>3. QED
      BY <3>1, <3>2 DEF TypeOK, Calls
  <2>5. AnnouncedIsApproved'
    BY <1>5, <2>1, <2>2 DEF RequestEffect, Publishable, Verified, AnnouncedIsApproved
  <2>6. OnlyAnnounced'
    BY <1>5, <1>a, <1>s, <2>1, <2>2, <2>3, <2>4 DEF RequestEffect, OnlyAnnounced
  <2>7. BranchIsThere' /\ FoundIsExact' /\ ReceiptIsExact'
    BY <1>5, <1>s, <2>2, <2>3, <2>4 DEF RequestEffect, BranchIsThere, FoundIsExact,
       ReceiptIsExact
  <2>8. QED
    BY <2>5, <2>6, <2>7 DEF Safe
<1>6. ASSUME NEW c \in Callers, ReadBase(c) \/ ReadRef(c) PROVE Safe'
  <2>1. PICK step \in Steps : /\ GoTo(c, step)
                              /\ step \in {"READ_REF", "CREATE_REF", "FIND_PULL"}
                              /\ step = "FIND_PULL" => RefIsOurs(c) /\ At(c, "READ_REF")
    BY <1>6 DEF ReadBase, ReadRef, Steps
  <2>2. call[c].next \notin {"IDLE", "TRANSACTION"}
    BY <1>6 DEF ReadBase, ReadRef, At
  <2>3. \A d \in Callers : /\ call'[d].next = (IF d = c THEN step ELSE call[d].next)
                           /\ call'[d].head = call[d].head
                           /\ call'[d].number = call[d].number
    BY <2>1, WhereCallsAre
  <2>4. UNCHANGED <<publication, approvals, effect, branch, pulls>>
    BY <1>6 DEF ReadBase, ReadRef
  <2>5. BranchIsThere'
    BY <1>a, <1>s, <2>1, <2>2, <2>3, <2>4 DEF BranchIsThere, OnlyAnnounced, RefIsOurs
  <2>6. OnlyAnnounced'
    BY <1>s, <2>2, <2>3, <2>4 DEF OnlyAnnounced
  <2>7. FoundIsExact'
    BY <1>s, <2>1, <2>3, <2>4 DEF FoundIsExact
  <2>8. AnnouncedIsApproved' /\ ReceiptIsExact'
    BY <1>s, <2>4 DEF AnnouncedIsApproved, ReceiptIsExact, Verified
  <2>9. QED
    BY <2>5, <2>6, <2>7, <2>8 DEF Safe
<1>7. ASSUME NEW c \in Callers, CreateRef(c) PROVE Safe'
  <2>1. call[c].next = "CREATE_REF"
    BY <1>7 DEF CreateRef, At
  <2>2. \A d \in Callers : /\ call'[d].next = (IF d = c THEN "FIND_PULL" ELSE call[d].next)
                           /\ call'[d].head = call[d].head
                           /\ call'[d].number = call[d].number
    BY <1>7, WhereCallsAre DEF CreateRef, Steps
  <2>3. branch' = effect.head /\ effect.head \in Heads
    BY <1>7, <1>s, <2>1 DEF CreateRef, OnlyAnnounced
  <2>4. UNCHANGED <<publication, approvals, effect, pulls>>
    BY <1>7 DEF CreateRef
  <2>5. QED
    BY <1>a, <1>s, <2>1, <2>2, <2>3, <2>4 DEF Safe, BranchIsThere, AnnouncedIsApproved,
       OnlyAnnounced, FoundIsExact, ReceiptIsExact, Verified
<1>8. ASSUME NEW c \in Callers, FindPull(c) PROVE Safe'
  <2>1. call[c].next = "FIND_PULL"
    BY <1>8 DEF FindPull, At
  <2>2. UNCHANGED <<publication, approvals, effect, branch, pulls>>
    BY <1>8 DEF FindPull
  <2>3. AnnouncedIsApproved' /\ ReceiptIsExact'
    BY <1>s, <2>2 DEF AnnouncedIsApproved, ReceiptIsExact, Verified
  <2>4. CASE GoTo(c, "OPEN_PULL")
    <3>1. \A d \in Callers : /\ call'[d].next = (IF d = c THEN "OPEN_PULL" ELSE call[d].next)
                             /\ call'[d].head = call[d].head
                             /\ call'[d].number = call[d].number
      BY <2>4, WhereCallsAre DEF Steps
    <3>2. QED
      BY <1>s, <2>1, <2>2, <2>3, <3>1 DEF Safe, BranchIsThere, OnlyAnnounced, FoundIsExact
  <2>5. ASSUME NEW n \in OpenPulls, Exact(n, call[c].head),
               call' = [call EXCEPT ![c].next = "RECORD", ![c].number = n]
        PROVE  Safe'
    <3>1. n \in 1..Len(pulls) /\ pulls[n].exactBase
      BY <2>5 DEF OpenPulls, Exact
    <3>2. \A d \in Callers :
            IF d = c THEN /\ call'[d].next = "RECORD"
                          /\ call'[d].head = call[d].head
                          /\ call'[d].number = n
                     ELSE call'[d] = call[d]
      BY <2>5, WhereFinderIs
    <3>3. QED
      BY <1>s, <2>1, <2>2, <2>3, <3>1, <3>2 DEF Safe, BranchIsThere, OnlyAnnounced,
         FoundIsExact
  <2>6. QED
    BY <1>8, <2>4, <2>5 DEF FindPull
<1>9. ASSUME NEW c \in Callers, OpenPull(c) PROVE Safe'
  <2>1. call[c].next = "OPEN_PULL"
    BY <1>9 DEF OpenPull, At
  <2>2. UNCHANGED <<publication, approvals, effect, branch>>
    BY <1>9 DEF OpenPull
  <2>3. branch \in Heads \cup {Foreign}
    BY <1>s, <2>1 DEF BranchIsThere, TypeOK
  <2> DEFINE pull == [open |-> TRUE, head |-> branch, exactBase |-> base]
  <2>4. pull \in Pulls /\ pull.head = branch /\ pull.exactBase = base
    BY <2>3 DEF Pulls, TypeOK
  <2>5. pulls' = Append(pulls, pull)
    BY <1>9 DEF OpenPull
  <2> HIDE DEF pull
  <2>6. /\ Len(pulls') = Len(pulls) + 1
        /\ \A n \in 1..Len(pulls) : pulls'[n] = pulls[n]
        /\ pulls'[Len(pulls')] = pull
    BY <1>p, <2>4, <2>5, AppendProperties
  <2>7. \A d \in Callers :
          IF d # c \/ call'[d].next = "IDLE"
          THEN call'[d] = call[d] \/ call'[d].next = "IDLE"
          ELSE /\ base
               /\ call'[d].next = "RECORD"
               /\ call'[d].head = call[d].head
               /\ call'[d].number = Len(pulls')
    <3>1. CASE branch = call[c].head /\ base
      <4>1. call' = [call EXCEPT ![c].next = "RECORD", ![c].number = Len(pulls')]
        BY <1>9, <3>1 DEF OpenPull
      <4>2. \A d \in Callers :
              IF d = c THEN /\ call'[d].next = "RECORD"
                            /\ call'[d].head = call[d].head
                            /\ call'[d].number = Len(pulls')
                       ELSE call'[d] = call[d]
        BY <4>1, WhereFinderIs
      <4>3. QED
        BY <3>1, <4>2
    <3>2. CASE ~(branch = call[c].head /\ base)
      <4>1. call' = [call EXCEPT ![c] = NoCall]
        BY <1>9, <3>2 DEF OpenPull, End
      <4>2. QED
        BY <4>1 DEF TypeOK, NoCall
    <3>3. QED
      BY <3>1, <3>2
  <2>8. BranchIsThere' /\ AnnouncedIsApproved'
    BY <1>s, <2>1, <2>2, <2>7 DEF BranchIsThere, AnnouncedIsApproved, Verified
  <2>9. OnlyAnnounced'
    BY <1>p, <1>s, <2>1, <2>2, <2>4, <2>6, <2>7 DEF OnlyAnnounced
  <2>10. FoundIsExact'
    <3>1. ASSUME NEW d \in Callers, call'[d].next = "RECORD"
          PROVE  call'[d].number \in 1..Len(pulls') /\ pulls'[call'[d].number].exactBase
      <4>1. CASE call'[d] = call[d]
        BY <1>p, <1>s, <2>6, <3>1, <4>1 DEF FoundIsExact
      <4>2. CASE call'[d] # call[d]
        <5>1. call'[d].number = Len(pulls') /\ base
          BY <2>7, <3>1, <4>2
        <5>2. call'[d].number \in 1..Len(pulls')
          BY <1>p, <2>6, <5>1
        <5>3. pulls'[call'[d].number].exactBase
          BY <2>4, <2>6, <5>1, Zenon
        <5>4. QED
          BY <5>2, <5>3
      <4>3. QED
        BY <4>1, <4>2
    <3>2. QED
      BY <3>1 DEF FoundIsExact
  <2>11. ReceiptIsExact'
    BY <1>p, <1>s, <2>2, <2>6 DEF ReceiptIsExact, TypeOK
  <2>12. QED
    BY <2>8, <2>9, <2>10, <2>11 DEF Safe
<1>10. ASSUME NEW c \in Callers, RecordReceipt(c) PROVE Safe'
  <2>1. call[c].next = "RECORD"
    BY <1>10 DEF RecordReceipt, At
  <2>2. effect'.head = effect.head /\ effect'.receipt = call[c].number
    BY <1>10 DEF RecordReceipt, TypeOK
  <2>3. UNCHANGED <<publication, approvals, branch, pulls>>
    BY <1>10 DEF RecordReceipt
  <2>4. \A d \in Callers : call'[d] = call[d] \/ call'[d].next = "IDLE"
    BY <1>10, WhereCallsAre DEF RecordReceipt
  <2>5. ReceiptIsExact'
    <3>1. call[c].number \in 1..Len(pulls) /\ pulls[call[c].number].exactBase
      BY <1>s, <2>1 DEF FoundIsExact
    <3>2. pulls[call[c].number] \in Pulls
      BY <1>p, <3>1
    <3>3. pulls[call[c].number].head \in {effect.head, Foreign}
      BY <1>s, <3>1, <3>2 DEF OnlyAnnounced, Pulls
    <3>4. QED
      BY <1>p, <2>2, <2>3, <3>1, <3>3 DEF ReceiptIsExact
  <2>6. BranchIsThere' /\ AnnouncedIsApproved' /\ OnlyAnnounced' /\ FoundIsExact'
    BY <1>s, <2>2, <2>3, <2>4 DEF BranchIsThere, AnnouncedIsApproved, OnlyAnnounced,
       FoundIsExact, Verified
  <2>7. QED
    BY <2>5, <2>6 DEF Safe
<1>11. CASE ChangeTask \/ SwitchFuse \/ AdvanceBase \/ UNCHANGED vars
  <2>1. UNCHANGED <<publication, approvals, effect, branch, pulls, call>>
    BY <1>11 DEF ChangeTask, SwitchFuse, AdvanceBase, vars
  <2>2. QED
    BY <2>1, QuietStep
<1>12. CASE ClosePull
  <2>1. UNCHANGED <<publication, approvals, effect, branch, call>>
    BY <1>12 DEF ClosePull
  <2>2. /\ Len(pulls') = Len(pulls)
        /\ \A n \in 1..Len(pulls) : /\ pulls'[n].exactBase = pulls[n].exactBase
                                    /\ pulls'[n].head = pulls[n].head
    BY <1>12, <1>p, ClosedPulls
  <2>3. QED
    BY <1>s, <1>p, <2>1, <2>2 DEF Safe, BranchIsThere, AnnouncedIsApproved, OnlyAnnounced,
       FoundIsExact, ReceiptIsExact, Verified, TypeOK
<1>13. CASE PushToBranch
  <2>1. UNCHANGED <<publication, approvals, effect, call>> /\ branch' = Foreign
    BY <1>13 DEF PushToBranch
  <2>2. /\ Len(pulls') = Len(pulls)
        /\ \A n \in 1..Len(pulls) : /\ pulls'[n].exactBase = pulls[n].exactBase
                                    /\ pulls'[n].head \in {pulls[n].head, Foreign}
    BY <1>13, <1>p, PushedPulls
  <2>3. QED
    BY <1>a, <1>s, <1>p, <2>1, <2>2 DEF Safe, BranchIsThere, AnnouncedIsApproved,
       OnlyAnnounced, FoundIsExact, ReceiptIsExact, Verified, TypeOK
<1>14. QED
  BY <1>1, <1>2, <1>3, <1>4, <1>5, <1>6, <1>7, <1>8, <1>9, <1>10, <1>11, <1>12, <1>13
  DEF Next, Transact, Reconcile

------------------------------------------------------------------------------
(* The inductive invariant holds in every state of every behaviour.         *)
THEOREM AlwaysSafe == Spec => [](TypeOK /\ Safe)
<1>1. Init => TypeOK /\ Safe
  <2>1. ASSUME Init PROVE TypeOK
    <3>1. NoCall \in Calls
      BY DEF NoCall, Calls, Steps
    <3>2. effect \in [head : Heads \cup {Absent}, receipt : Nat]
      BY <2>1 DEF Init, NoEffect, Requested
    <3>3. call \in [Callers -> Calls] /\ pulls \in Seq(Pulls)
      BY <2>1, <3>1 DEF Init
    <3>4. QED
      BY <2>1, <3>2, <3>3 DEF Init, TypeOK
  <2>2. ASSUME Init PROVE Safe
    <3>1. effect.head = Absent /\ effect.receipt = 0 /\ Len(pulls) = 0
      BY <2>2 DEF Init, NoEffect, Requested
    <3>2. \A c \in Callers : call[c].next = "IDLE"
      BY <2>2 DEF Init, NoCall
    <3>3. branch \notin Heads
      BY <2>2, HeadAssumption DEF Init, Absent
    <3>4. QED
      BY <3>1, <3>2, <3>3 DEF Safe, BranchIsThere, AnnouncedIsApproved, OnlyAnnounced,
         FoundIsExact, ReceiptIsExact
  <2>3. QED
    BY <2>1, <2>2
<1>2. TypeOK /\ Safe /\ [Next]_vars => (TypeOK /\ Safe)'
  BY TypeStep, SafeStep DEF Safe
<1>3. QED
  BY <1>1, <1>2, PTL DEF Spec

(* All tables, GitHub and all calls stay well formed.                       *)
THEOREM TypeCorrect == Spec => []TypeOK
  BY AlwaysSafe, PTL

(* Only the verified, approved and announced candidate is ever on GitHub,   *)
(* for any number of callers, heads and pull requests.                    *)
THEOREM OnlyApprovedIsPublished == Spec => []PublishedIsApproved
<1>1. ASSUME TypeOK, Safe PROVE PublishedIsApproved
  <2>1. Absent \notin Heads
    BY HeadAssumption
  <2>2. QED
    BY <1>1, <2>1 DEF Safe, OnlyAnnounced, AnnouncedIsApproved, PublishedIsApproved
<1>2. QED
  BY <1>1, AlwaysSafe, PTL

(* A receipt always names a pull request that was exact.                    *)
THEOREM ReceiptIsAlwaysExact == Spec => []ReceiptIsExact
<1>1. Safe => ReceiptIsExact
  BY DEF Safe
<1>2. QED
  BY <1>1, AlwaysSafe, PTL

(* A receipt, once on record, is never replaced by any call.                *)
THEOREM ReceiptIsNeverReplaced == Spec => ReceiptIsFinal
<1>1. ASSUME TypeOK, [Next]_vars, effect.receipt # 0 PROVE effect' = effect
  <2> USE DEF ledger, github
  <2>1. ASSUME NEW c \in Callers, RecordReceipt(c) PROVE effect' = effect
    <3>1. effect.receipt = call[c].number
      BY <1>1, <2>1 DEF RecordReceipt, SameReceipt
    <3>2. QED
      BY <1>1, <2>1, <3>1 DEF RecordReceipt, TypeOK
  <2>2. ASSUME NEW c \in Callers, Begin(c) \/ Crash(c) \/ Transact(c) PROVE effect' = effect
    BY <1>1, <2>2 DEF Begin, Crash, Transact, Prepare, Approve, RequestEffect
  <2>3. ASSUME NEW c \in Callers, Reconcile(c), ~RecordReceipt(c) PROVE effect' = effect
    BY <2>3 DEF Reconcile, ReadBase, ReadRef, CreateRef, FindPull, OpenPull
  <2>4. CASE ChangeTask \/ SwitchFuse \/ AdvanceBase \/ ClosePull \/ PushToBranch
    BY <2>4 DEF ChangeTask, SwitchFuse, AdvanceBase, ClosePull, PushToBranch
  <2>5. CASE UNCHANGED vars
    BY <2>5 DEF vars
  <2>6. QED
    BY <1>1, <2>1, <2>2, <2>3, <2>4, <2>5 DEF Next
<1>2. TypeOK /\ [Next]_vars => [effect.receipt # 0 => effect' = effect]_vars
  BY <1>1
<1>3. QED
  BY <1>2, TypeCorrect, PTL DEF Spec, ReceiptIsFinal

------------------------------------------------------------------------------
(* Only what was verified is approved, only what was announced is shown,    *)
(* and only what was shown is acknowledged.                                 *)
InOrder ==
  /\ approvals \subseteq {publication.head}
  /\ approvals # {} => Verified
  /\ branch # Absent => effect.head # Absent
  /\ effect.receipt # 0 => branch # Absent

(* The ledger and the branch move in these ways only.                       *)
LEMMA LedgerMoves ==
  ASSUME TypeOK, Safe, [Next]_vars
  PROVE  \/ UNCHANGED <<publication, approvals, effect, branch>>
         \/ /\ publication = NoPublication
            /\ \E p \in Heads, verdict \in Verdicts : publication' = Recorded(p, verdict)
            /\ UNCHANGED <<approvals, effect, branch>>
         \/ /\ Verified
            /\ approvals' = approvals \cup {publication.head}
            /\ UNCHANGED <<publication, effect, branch>>
         \/ /\ Publishable /\ Announced(publication.head)
            /\ UNCHANGED <<publication, approvals, branch>>
         \/ /\ effect.head \in Heads
            /\ branch = Absent /\ branch' = effect.head
            /\ UNCHANGED <<publication, approvals, effect>>
         \/ /\ branch # Absent
            /\ \E number \in 1..Len(pulls) :
                 effect.receipt \in {0, number} /\ effect' = [effect EXCEPT !.receipt = number]
            /\ UNCHANGED <<publication, approvals, branch>>
         \/ /\ branch \in Heads /\ branch' = Foreign
            /\ UNCHANGED <<publication, approvals, effect>>
<1> USE DEF ledger, github
<1>1. ASSUME NEW c \in Callers, NEW p \in Heads, NEW verdict \in Verdicts,
             Prepare(c, p, verdict)
      PROVE  /\ publication = NoPublication
             /\ publication' = Recorded(p, verdict)
             /\ UNCHANGED <<approvals, effect, branch>>
  BY <1>1 DEF Prepare, Reservable
<1>2. ASSUME NEW c \in Callers, CreateRef(c)
      PROVE  /\ effect.head \in Heads
             /\ branch = Absent /\ branch' = effect.head
             /\ UNCHANGED <<publication, approvals, effect>>
  BY <1>2 DEF CreateRef, At, RefIsMissing, Safe, OnlyAnnounced
<1>3. ASSUME NEW c \in Callers, RecordReceipt(c)
      PROVE  /\ branch # Absent
             /\ \E number \in 1..Len(pulls) :
                  effect.receipt \in {0, number} /\ effect' = [effect EXCEPT !.receipt = number]
             /\ UNCHANGED <<publication, approvals, branch>>
  <2>1. branch # Absent /\ call[c].number \in 1..Len(pulls)
    BY <1>3 DEF RecordReceipt, At, Safe, BranchIsThere, FoundIsExact
  <2>2. QED
    BY <2>1, <1>3 DEF RecordReceipt, SameReceipt
<1>4. ASSUME NEW c \in Callers, Approve(c)
      PROVE  /\ Verified
             /\ approvals' = approvals \cup {publication.head}
             /\ UNCHANGED <<publication, effect, branch>>
  BY <1>4 DEF Approve
<1>5. ASSUME NEW c \in Callers, RequestEffect(c)
      PROVE  /\ Publishable /\ Announced(publication.head)
             /\ UNCHANGED <<publication, approvals, branch>>
  BY <1>5 DEF RequestEffect
<1>6. ASSUME NEW c \in Callers,
             Begin(c) \/ Crash(c) \/ ReadBase(c) \/ ReadRef(c) \/ FindPull(c) \/ OpenPull(c)
      PROVE  UNCHANGED <<publication, approvals, effect, branch>>
  BY <1>6 DEF Begin, Crash, ReadBase, ReadRef, FindPull, OpenPull
<1>7. ASSUME ChangeTask \/ SwitchFuse \/ AdvanceBase \/ ClosePull \/ UNCHANGED vars
      PROVE  UNCHANGED <<publication, approvals, effect, branch>>
  BY <1>7 DEF ChangeTask, SwitchFuse, AdvanceBase, ClosePull, vars
<1>8. ASSUME PushToBranch
      PROVE  /\ branch \in Heads /\ branch' = Foreign
             /\ UNCHANGED <<publication, approvals, effect>>
  BY <1>8 DEF PushToBranch
<1>9. QED
  BY <1>1, <1>2, <1>3, <1>4, <1>5, <1>6, <1>7, <1>8 DEF Next, Transact, Reconcile

(* The order is kept.                                                       *)
LEMMA OrderStep ==
  ASSUME TypeOK, Safe, InOrder, [Next]_vars
  PROVE  InOrder'
<1>1. publication = NoPublication => approvals = {}
  BY DEF InOrder, Verified
<1>2. Absent \notin Heads /\ Absent # Foreign
  BY HeadAssumption DEF Absent, Foreign
<1>3. Verified => publication.head \in Heads
  BY DEF Verified, TypeOK, Publications
<1>4. effect \in [head : Heads \cup {Absent}, receipt : Nat]
  BY DEF TypeOK
<1>5. QED
  BY <1>1, <1>2, <1>3, <1>4, LedgerMoves
  DEF InOrder, Verified, Publishable, Announced

(* The promise's variables.                                                 *)
Candidate == IF Verified THEN publication.head ELSE Absent
Approved == publication.head \in approvals
IsAnnounced == effect.head # Absent
Shown == branch # Absent

(* Each of these moves is a step of the promise, or none.                   *)
LEMMA PromiseStep ==
  ASSUME TypeOK, Safe, InOrder, [Next]_vars
  PROVE  [Promise!Next]_(Promise!promise)
<1>a. Absent \notin Heads /\ Foreign \notin Heads /\ Absent # Foreign
  BY HeadAssumption DEF Absent, Foreign
<1>b. effect \in [head : Heads \cup {Absent}, receipt : Nat]
  BY DEF TypeOK
<1>v. /\ Verified => publication.head \in Heads
      /\ publication = NoPublication => ~Verified /\ publication.head = Absent
  BY DEF Verified, TypeOK, Publications, NoPublication
<1>c. /\ Shown => IsAnnounced
      /\ IsAnnounced => Verified /\ Approved
      /\ Approved => Verified
      /\ effect.receipt # 0 => Shown
  BY DEF Shown, IsAnnounced, Approved, InOrder, Safe, AnnouncedIsApproved
<1> DEFINE Now == <<Candidate, Approved, IsAnnounced, Shown, effect.receipt>>
<1>p. Promise!promise = Now /\ Promise!promise' = Now'
  BY DEF Promise!promise, Candidate, Approved, IsAnnounced, Shown
<1>1. CASE UNCHANGED <<publication, approvals, effect, branch>>
  <2>1. Now' = Now
    BY <1>1 DEF Candidate, Verified, Approved, IsAnnounced, Shown
  <2>2. QED
    BY <2>1, <1>p
<1>2. ASSUME publication = NoPublication, NEW p \in Heads, NEW verdict \in Verdicts,
             publication' = Recorded(p, verdict), UNCHANGED <<approvals, effect, branch>>
      PROVE  [Promise!Next]_(Promise!promise)
  <2>1. ~Approved /\ ~IsAnnounced /\ ~Shown /\ effect.receipt = 0 /\ Candidate = Absent
    BY <1>2, <1>v, <1>c DEF Candidate
  <2>2. ~Approved' /\ ~IsAnnounced' /\ ~Shown' /\ effect'.receipt = 0
    BY <2>1, <1>2, <1>v, <1>b
    DEF Verified, Recorded, Approved, IsAnnounced, Shown, InOrder
  <2>3. Candidate' \in {Absent, p}
    BY <1>2 DEF Candidate, Verified, Recorded
  <2>4. CASE Candidate' = Absent
    <3>1. Now' = Now
      BY <2>1, <2>2, <2>4 DEF Approved, IsAnnounced, Shown
    <3>2. QED
      BY <3>1, <1>p
  <2>5. CASE Candidate' = p
    <3>1. Approved' = FALSE /\ IsAnnounced' = FALSE /\ Shown' = FALSE
      BY <2>2 DEF Approved, IsAnnounced, Shown
    <3>2. Now' = <<p, FALSE, FALSE, FALSE, 0>>
      BY <2>2, <2>5, <3>1
    <3>3. Promise!Choose
      BY <3>2, <2>1, <1>2, <1>p DEF Promise!Choose, Candidate
    <3>4. QED
      BY <3>3 DEF Promise!Next
  <2>6. QED
    BY <2>3, <2>4, <2>5
<1>3. CASE /\ Verified
           /\ approvals' = approvals \cup {publication.head}
           /\ UNCHANGED <<publication, effect, branch>>
  <2>1. CASE Approved
    <3>1. approvals' = approvals
      BY <1>3, <2>1 DEF Approved
    <3>2. QED
      BY <1>1, <1>3, <3>1
  <2>2. CASE ~Approved
    <3>1. ~IsAnnounced /\ ~Shown /\ effect.receipt = 0
      BY <2>2, <1>c
    <3>2. /\ Candidate' = Candidate /\ Candidate # Absent /\ Approved'
          /\ ~IsAnnounced' /\ ~Shown' /\ effect'.receipt = 0
      BY <3>1, <1>3, <1>a, <1>v DEF Candidate, Verified, Approved, IsAnnounced, Shown
    <3>3. Promise!Approve
      BY <2>2, <3>1, <3>2, <1>p DEF Promise!Approve, Candidate, Approved, IsAnnounced, Shown
    <3>4. QED
      BY <3>3 DEF Promise!Next
  <2>3. QED
    BY <2>1, <2>2
<1>4. CASE /\ Publishable /\ Announced(publication.head)
           /\ UNCHANGED <<publication, approvals, branch>>
  <2>1. CASE IsAnnounced
    <3>1. effect' = effect
      BY <1>4, <2>1, <1>b DEF Announced, IsAnnounced
    <3>2. QED
      BY <1>1, <1>4, <3>1
  <2>2. CASE ~IsAnnounced
    <3>1. ~Shown /\ effect.receipt = 0 /\ Approved
      BY <2>2, <1>c, <1>4 DEF Publishable, Approved
    <3>2. /\ Candidate' = Candidate /\ Approved' /\ IsAnnounced'
          /\ ~Shown' /\ effect'.receipt = 0
      BY <3>1, <1>4, <1>a, <1>b, <1>v
      DEF Publishable, Announced, Candidate, Verified, Approved, IsAnnounced, Shown
    <3>3. Promise!Announce
      BY <2>2, <3>1, <3>2, <1>p DEF Promise!Announce, Candidate, Approved, IsAnnounced, Shown
    <3>4. QED
      BY <3>3 DEF Promise!Next
  <2>3. QED
    BY <2>1, <2>2
<1>5. CASE /\ effect.head \in Heads
           /\ branch = Absent /\ branch' = effect.head
           /\ UNCHANGED <<publication, approvals, effect>>
  <2>1. ~Shown /\ IsAnnounced /\ Approved /\ effect.receipt = 0
    BY <1>5, <1>a, <1>c DEF Shown, IsAnnounced
  <2>2. /\ Candidate' = Candidate /\ Approved' /\ IsAnnounced' /\ Shown' /\ effect'.receipt = 0
    BY <2>1, <1>5, <1>a DEF Candidate, Verified, Approved, IsAnnounced, Shown
  <2>3. Promise!Show
    BY <2>1, <2>2, <1>p DEF Promise!Show, Candidate, Approved, IsAnnounced, Shown
  <2>4. QED
    BY <2>3 DEF Promise!Next
<1>6. ASSUME branch # Absent, NEW number \in 1..Len(pulls),
             effect.receipt \in {0, number}, effect' = [effect EXCEPT !.receipt = number],
             UNCHANGED <<publication, approvals, branch>>
      PROVE  [Promise!Next]_(Promise!promise)
  <2>1. /\ Shown /\ IsAnnounced /\ Approved
        /\ effect'.receipt = number /\ effect'.head = effect.head
        /\ number \in Nat \ {0}
    BY <1>6, <1>b, <1>c DEF Shown, TypeOK
  <2>2. Candidate' = Candidate /\ Approved' /\ IsAnnounced' /\ Shown'
    BY <2>1, <1>6 DEF Candidate, Verified, Approved, IsAnnounced, Shown
  <2>3. CASE effect.receipt = number
    BY <2>1, <2>2, <2>3, <1>p
  <2>4. CASE effect.receipt = 0
    <3>1. Promise!Acknowledge
      BY <2>1, <2>2, <2>4, <1>p
      DEF Promise!Acknowledge, Candidate, Approved, IsAnnounced, Shown
    <3>2. QED
      BY <3>1 DEF Promise!Next
  <2>5. QED
    BY <1>6, <2>3, <2>4
<1>7. CASE /\ branch \in Heads /\ branch' = Foreign
           /\ UNCHANGED <<publication, approvals, effect>>
  <2>1. Now' = Now
    BY <1>7, <1>a DEF Candidate, Verified, Approved, IsAnnounced, Shown
  <2>2. QED
    BY <2>1, <1>p
<1>8. QED
  BY <1>1, <1>2, <1>3, <1>4, <1>5, <1>6, <1>7, LedgerMoves

(* Publishing implements its abstract specification, for any number of      *)
(* callers and heads: whatever dies or runs twice, the candidate is       *)
(* verified, approved, announced, shown and acknowledged in this order,     *)
(* each at most once and none of it undone.                                 *)
THEOREM PublicationKeepsPromise == Spec => KeepsPromise
<1>1. Init => InOrder
  BY DEF Init, InOrder, NoEffect, Requested
<1>2. Init => Promise!Init
  <2> SUFFICES ASSUME Init PROVE Promise!Init
    OBVIOUS
  <2>1. ~Verified /\ effect.receipt = 0 /\ effect.head = Absent /\ branch = Absent
    BY DEF Init, Verified, NoEffect, Requested
  <2>2. (publication.head \in approvals) = FALSE
    BY DEF Init
  <2>3. (effect.head # Absent) = FALSE /\ (branch # Absent) = FALSE
    BY <2>1
  <2>4. QED
    BY <2>1, <2>2, <2>3 DEF Promise!Init, Promise!promise
<1>3. TypeOK /\ Safe /\ InOrder /\ [Next]_vars => InOrder'
  BY OrderStep
<1>4. Spec => []InOrder
  BY <1>1, <1>3, AlwaysSafe, PTL DEF Spec
<1>5. TypeOK /\ Safe /\ InOrder /\ [Next]_vars => [Promise!Next]_(Promise!promise)
  BY PromiseStep
<1>6. QED
  BY <1>2, <1>4, <1>5, AlwaysSafe, PTL DEF Spec, KeepsPromise, Promise!Spec

------------------------------------------------------------------------------
(* Unless people intervene, pull requests are only added, to the branch.    *)
LEMMA PullMoves ==
  ASSUME TypeOK, Safe, [Next]_vars, ~Intervened'
  PROVE  /\ ~Intervened
         /\ \/ pulls' = pulls
            \/ /\ OpenPulls = {} /\ branch # Absent
               /\ pulls' = Append(pulls, [open |-> TRUE, head |-> branch, exactBase |-> base])
               /\ UNCHANGED <<ledger, branch>>
<1> USE DEF ledger, github
<1>p. pulls \in Seq(Pulls) /\ Len(pulls) \in Nat
  BY DEF TypeOK
<1>1. ASSUME UNCHANGED <<base, ready, pulls>>, branch = Foreign => branch' = Foreign
      PROVE  ~Intervened
  BY <1>1 DEF Intervened
<1>2. ASSUME NEW c \in Callers, OpenPull(c)
      PROVE  /\ ~Intervened
             /\ OpenPulls = {} /\ branch # Absent
             /\ pulls' = Append(pulls, [open |-> TRUE, head |-> branch, exactBase |-> base])
             /\ UNCHANGED <<ledger, branch>>
  <2>1. branch # Absent
    BY <1>2 DEF OpenPull, At, Safe, BranchIsThere
  <2>2. Len(pulls') = Len(pulls) + 1 /\ \A n \in 1..Len(pulls) : pulls'[n] = pulls[n]
    BY <1>2, <1>p DEF OpenPull
  <2>3. ~Intervened
    BY <1>2, <1>p, <2>2 DEF OpenPull, Intervened
  <2>4. QED
    BY <1>2, <2>1, <2>3 DEF OpenPull
<1>3. ASSUME NEW c \in Callers, CreateRef(c)
      PROVE  ~Intervened /\ pulls' = pulls
  <2>1. branch # Foreign
    BY <1>3, HeadAssumption DEF CreateRef, RefIsMissing, Absent, Foreign
  <2>2. QED
    BY <1>1, <1>3, <2>1 DEF CreateRef
<1>4. ASSUME NEW c \in Callers, Begin(c) \/ Crash(c) \/ Transact(c)
      PROVE  ~Intervened /\ pulls' = pulls
  BY <1>1, <1>4 DEF Begin, Crash, Transact, Prepare, Approve, RequestEffect
<1>5. ASSUME NEW c \in Callers,
             ReadBase(c) \/ ReadRef(c) \/ FindPull(c) \/ RecordReceipt(c)
      PROVE  ~Intervened /\ pulls' = pulls
  BY <1>1, <1>5 DEF ReadBase, ReadRef, FindPull, RecordReceipt
<1>6. CASE SwitchFuse \/ UNCHANGED vars
  BY <1>1, <1>6 DEF SwitchFuse, vars
<1>7. CASE ChangeTask
  <2>1. ready' => ready
    BY <1>7, Zenon DEF ChangeTask
  <2>2. base' = base /\ branch' = branch /\ pulls' = pulls
    BY <1>7 DEF ChangeTask
  <2>3. QED
    BY <2>1, <2>2 DEF Intervened
<1>8. ~AdvanceBase /\ ~PushToBranch
  BY DEF AdvanceBase, PushToBranch, Intervened
<1>9. ~ClosePull
  <2> SUFFICES ASSUME ClosePull PROVE Intervened'
    OBVIOUS
  <2>1. PICK m \in 1..Len(pulls) : pulls' = [pulls EXCEPT ![m].open = FALSE]
    BY DEF ClosePull, OpenPulls
  <2>2. pulls[m] \in Pulls
    BY <1>p
  <2>3. ~pulls'[m].open /\ Len(pulls') = Len(pulls)
    BY <2>1, <2>2, <1>p, ClosedPulls DEF Pulls
  <2>4. QED
    BY <2>3 DEF Intervened
<1>10. QED
  BY <1>2, <1>3, <1>4, <1>5, <1>6, <1>7, <1>8, <1>9 DEF Next, Reconcile

(* A pull request needs its branch.                                         *)
PullsHaveBranch == Len(pulls) > 0 => branch # Absent

(* As long as nobody intervenes, whatever a step adds to the ledger or to   *)
(* GitHub belongs to the announced head.                                    *)
LEMMA OwnStep ==
  ASSUME TypeOK, Safe, InOrder, PullsHaveBranch, RetryFindsItsOwn, [Next]_vars, ~Intervened'
  PROVE  RetryFindsItsOwn'
<1> SUFFICES ASSUME effect'.head # Absent
    PROVE  /\ Publishable' /\ publication'.head = effect'.head
           /\ branch' \in {Absent, effect'.head}
           /\ Len(pulls') <= 1
           /\ \A n \in 1..Len(pulls') :
                Exact(n, effect.head)' /\ effect'.receipt \in {0, n}
  BY DEF RetryFindsItsOwn
<1>p. pulls \in Seq(Pulls) /\ Len(pulls) \in Nat
      /\ effect \in [head : Heads \cup {Absent}, receipt : Nat]
  BY DEF TypeOK
<1>a. effect.head = Absent => Len(pulls) = 0 /\ branch = Absent
  BY <1>p DEF InOrder, PullsHaveBranch
<1>n. ~Intervened
  BY PullMoves
<1>1. CASE effect.head # Absent /\ pulls' = pulls
  <2>1. /\ Publishable /\ publication.head = effect.head
        /\ branch \in {Absent, effect.head}
        /\ Len(pulls) <= 1
        /\ \A n \in 1..Len(pulls) : Exact(n, effect.head) /\ effect.receipt \in {0, n}
    BY <1>1, <1>n DEF RetryFindsItsOwn
  <2>2. CASE UNCHANGED <<publication, approvals, effect, branch>>
    BY <2>1, <2>2, <1>1 DEF Publishable, Verified, Exact
  <2>3. publication # NoPublication
    BY <2>1 DEF Publishable, Verified
  <2>4. CASE /\ approvals' = approvals \cup {publication.head}
             /\ UNCHANGED <<publication, effect, branch>>
    BY <2>1, <2>4, <1>1 DEF Publishable, Verified, Exact
  <2>5. CASE Announced(publication.head) /\ UNCHANGED <<publication, approvals, branch>>
    <3>1. effect' = effect
      BY <2>5, <1>1, <1>p DEF Announced
    <3>2. QED
      BY <2>2, <2>5, <3>1
  <2>6. CASE branch' = effect.head /\ UNCHANGED <<publication, approvals, effect>>
    BY <2>1, <2>6, <1>1 DEF Publishable, Verified, Exact
  <2>7. ASSUME NEW number \in 1..Len(pulls), effect' = [effect EXCEPT !.receipt = number],
               UNCHANGED <<publication, approvals, branch>>
        PROVE  /\ Publishable' /\ publication'.head = effect'.head
               /\ branch' \in {Absent, effect'.head}
               /\ Len(pulls') <= 1
               /\ \A n \in 1..Len(pulls') :
                    Exact(n, effect.head)' /\ effect'.receipt \in {0, n}
    <3>1. effect'.head = effect.head /\ effect'.receipt = number
      BY <2>7, <1>p
    <3>2. \A n \in 1..Len(pulls) : n = number
      BY <2>1, <2>7, <1>p
    <3>3. QED
      BY <2>1, <2>7, <3>1, <3>2, <1>1 DEF Publishable, Verified, Exact
  <2>8. branch' # Foreign
    BY DEF Intervened
  <2>9. QED
    BY <2>2, <2>3, <2>4, <2>5, <2>6, <2>7, <2>8, LedgerMoves
<1>2. CASE effect.head = Absent /\ pulls' = pulls
  <2>1. /\ Publishable /\ Announced(publication.head)
        /\ UNCHANGED <<publication, approvals, branch>>
    <3>1. effect' # effect
      BY <1>2
    <3>2. ~\E number \in 1..Len(pulls) : TRUE
      BY <1>a, <1>2
    <3>3. QED
      BY <3>1, <3>2, LedgerMoves
  <2>2. effect'.head = publication.head
    BY <2>1, <1>p DEF Announced
  <2>3. Publishable'
    BY <2>1 DEF Publishable, Verified
  <2>4. QED
    BY <2>1, <2>2, <2>3, <1>2, <1>a
<1>3. CASE /\ OpenPulls = {} /\ branch # Absent
           /\ pulls' = Append(pulls, [open |-> TRUE, head |-> branch, exactBase |-> base])
           /\ UNCHANGED <<ledger, branch>>
  <2>1. publication' = publication /\ approvals' = approvals /\ effect' = effect /\ branch' = branch
    BY <1>3 DEF ledger
  <2>2. /\ Publishable /\ publication.head = effect.head
        /\ branch = effect.head
    BY <2>1, <1>3, <1>n DEF RetryFindsItsOwn
  <2>3. Len(pulls) = 0
    BY <1>3, <1>n, <1>p DEF OpenPulls, Intervened
  <2>4. Len(pulls') = 1 /\ pulls'[1] = [open |-> TRUE, head |-> branch, exactBase |-> base]
    BY <1>3, <1>p, <2>3
  <2>5. base
    BY <1>n DEF Intervened
  <2>6. effect.receipt = 0
    BY <2>3, <1>p DEF Safe, ReceiptIsExact
  <2>7. \A n \in 1..Len(pulls') : Exact(n, effect.head)' /\ effect'.receipt \in {0, n}
    BY <2>1, <2>2, <2>4, <2>5, <2>6 DEF Exact
  <2>8. QED
    BY <2>1, <2>2, <2>4, <2>7 DEF Publishable, Verified
<1>4. QED
  BY <1>1, <1>2, <1>3, PullMoves

(* A retry finds what is its own, for any number of callers, heads and    *)
(* pull requests: the part of PublishConverges that an invariant can say.   *)
THEOREM RetryAlwaysFindsItsOwn == Spec => []RetryFindsItsOwn
<1>1. Init => InOrder /\ PullsHaveBranch /\ RetryFindsItsOwn
  BY DEF Init, InOrder, NoEffect, Requested, PullsHaveBranch, RetryFindsItsOwn
<1>2. TypeOK /\ Safe /\ InOrder /\ PullsHaveBranch /\ [Next]_vars => PullsHaveBranch'
  <2> SUFFICES ASSUME TypeOK, Safe, PullsHaveBranch, [Next]_vars PROVE PullsHaveBranch'
    OBVIOUS
  <2>1. branch # Absent => branch' # Absent
    <3>1. Absent \notin Heads /\ Absent # Foreign
      BY HeadAssumption DEF Absent, Foreign
    <3>2. QED
      BY <3>1, LedgerMoves
  <2>2. Len(pulls') = Len(pulls) \/ branch # Absent
    <3>1. ASSUME NEW c \in Callers, OpenPull(c) PROVE branch # Absent
      BY <3>1 DEF OpenPull, At, Safe, BranchIsThere
    <3>2. ASSUME NEW c \in Callers,
                 Begin(c) \/ Crash(c) \/ Transact(c) \/ (Reconcile(c) /\ ~OpenPull(c))
          PROVE  pulls' = pulls
      BY <3>2 DEF Begin, Crash, Transact, Prepare, Approve, RequestEffect, Reconcile,
                  ReadBase, ReadRef, CreateRef, FindPull, RecordReceipt, github
    <3>3. CASE ClosePull \/ PushToBranch
      BY <3>3, ClosedPulls, PushedPulls DEF TypeOK
    <3>4. CASE ChangeTask \/ SwitchFuse \/ AdvanceBase \/ UNCHANGED vars
      BY <3>4 DEF ChangeTask, SwitchFuse, AdvanceBase, vars, github
    <3>5. QED
      BY <3>1, <3>2, <3>3, <3>4 DEF Next
  <2>3. QED
    BY <2>1, <2>2 DEF PullsHaveBranch
<1>3. TypeOK /\ Safe /\ InOrder /\ PullsHaveBranch /\ RetryFindsItsOwn /\ [Next]_vars
        => RetryFindsItsOwn'
  BY OwnStep DEF RetryFindsItsOwn
<1>4. TypeOK /\ Safe /\ InOrder /\ [Next]_vars => InOrder'
  BY OrderStep
<1>5. QED
  BY <1>1, <1>2, <1>3, <1>4, AlwaysSafe, PTL DEF Spec
==============================================================================
