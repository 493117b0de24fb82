----------------------------- MODULE Publication -----------------------------
(***************************************************************************)
(* One publication of one READY_TO_PUBLISH task, from the prepared patch to *)
(* the pull request: PublicationPreparationService with the verifier, the   *)
(* approval service, and PublicationPublishingService with the GitHub       *)
(* publisher it calls between its two transactions.                         *)
(*                                                                         *)
(* Several calls run at once and may die at any point.  A candidate is      *)
(* identified by its head, which is what is verified, approved and          *)
(* published.  Which head the preparer computes from a patch is left open:  *)
(* with the fixed base the patch alone decides it in a fresh worktree, but  *)
(* one that a dead prepare left behind is used with its index as it is.     *)
(* GitHub answers as the publisher relies on: it refuses a ref that exists  *)
(* and a second open pull request of a branch.                              *)
(***************************************************************************)
EXTENDS Naturals, Sequences, FiniteSets

CONSTANTS
  Callers,       \* command invocations that may run together
  Heads,         \* commits the preparer may compute from the task's patches
  MaxChanges,    \* bound: how often other services change the task
  MaxPulls,      \* bound: pull requests ever opened
  FuseInUse      \* bound: whether anybody engages the fuse

ASSUME PublicationAssumption ==
  MaxChanges \in Nat /\ MaxPulls \in Nat /\ FuseInUse \in BOOLEAN

VARIABLES
  ready,         \* the task is READY_TO_PUBLISH
  version,       \* its version
  fuse,          \* system_fuse.engaged
  publication,   \* the publications row
  approvals,     \* heads approved in publication_approvals
  effect,        \* the publication_effects row
  base,          \* whether the base branch is still at the fixed base
  branch,        \* what the publication's branch points at on GitHub
  pulls,         \* the pull requests of that branch, by number
  call           \* the calls in flight

ledger == <<publication, approvals, effect>>
github == <<base, branch, pulls>>
vars == <<ready, version, fuse, ledger, github, call>>

Absent == "ABSENT"
Foreign == "FOREIGN"
ASSUME HeadAssumption == Heads \cap {Absent, Foreign} = {}

Verdicts == {"PASSED", "FAILED"}
Publications == [head : Heads, version : Nat, verified : Verdicts]
NoPublication == [head |-> Absent]

Requested(p, number) == [head |-> p, receipt |-> number]
NoEffect == Requested(Absent, 0)

Pulls == [open : BOOLEAN, head : Heads \cup {Foreign}, exactBase : BOOLEAN]

(* `next` is what the call does next; `clear` whether its unlocked reads    *)
(* found the fuse off and the task ready, `version` the version they saw.   *)
Steps == {"IDLE", "TRANSACTION", "READ_BASE", "READ_REF", "CREATE_REF",
          "FIND_PULL", "OPEN_PULL", "RECORD"}
Calls == [next : Steps, clear : BOOLEAN, version : Nat,
          head : Heads \cup {Absent}, number : Nat]
NoCall == [next |-> "IDLE", clear |-> FALSE, version |-> 0,
           head |-> Absent, number |-> 0]

TypeOK ==
  /\ ready \in BOOLEAN /\ fuse \in BOOLEAN /\ base \in BOOLEAN
  /\ version \in Nat
  /\ publication \in Publications \cup {NoPublication}
  /\ approvals \subseteq Heads
  /\ effect \in [head : Heads \cup {Absent}, receipt : Nat]
  /\ branch \in Heads \cup {Absent, Foreign}
  /\ pulls \in Seq(Pulls)
  /\ call \in [Callers -> Calls]

Init ==
  /\ ready = TRUE /\ version = 0 /\ fuse = FALSE
  /\ publication = NoPublication /\ approvals = {} /\ effect = NoEffect
  /\ base = TRUE /\ branch = Absent /\ pulls = <<>>
  /\ call = [c \in Callers |-> NoCall]

------------------------------------------------------------------------------
At(c, step) == call[c].next = step
GoTo(c, step) == call' = [call EXCEPT ![c].next = step]
EndAsDone(c) == call' = [call EXCEPT ![c].next = "DONE"]       \* mutant of End
End(c) == call' = [call EXCEPT ![c] = NoCall]

Verified == publication # NoPublication /\ publication.verified = "PASSED"

(* What publish asks before anything leaves the machine.                    *)
Publishable == Verified /\ publication.head \in approvals

(* The unlocked reads every command starts with: the fuse and the task.     *)
Begin(c) ==
  /\ At(c, "IDLE")
  /\ call' = [call EXCEPT ![c] = [NoCall EXCEPT !.next = "TRANSACTION",
                !.clear = ready /\ ~fuse, !.version = version]]
  /\ UNCHANGED <<ready, version, fuse, ledger, github>>

(* A check raises, a request times out, or the process dies, wherever it is.*)
Crash(c) ==
  /\ ~At(c, "IDLE")
  /\ End(c)
  /\ UNCHANGED <<ready, version, fuse, ledger, github>>

ReservableAnew(c) ==                                     \* mutant of Reservable
  ready /\ version = call[c].version

(* publications.reserve on an id that is not on record: the task row, now   *)
(* locked, is still ready and unchanged.                                    *)
Reservable(c) ==
  /\ publication = NoPublication
  /\ ready /\ version = call[c].version

(* record_prepared and record_verification, the verdict passed or failed.   *)
Recorded(h, verdict) == [head |-> h, version |-> version, verified |-> verdict]

(* prepare_publication: one transaction reserves the publication, records   *)
(* the head the preparer computed, whatever was in the worktree that the    *)
(* patch was applied to, and records the verifier's verdict.  On a          *)
(* publication already on record verification is refused, so all of it is   *)
(* rolled back.                                                             *)
Prepare(c, h, verdict) ==
  /\ At(c, "TRANSACTION") /\ call[c].clear
  /\ Reservable(c)
  /\ publication' = Recorded(h, verdict)
  /\ End(c)
  /\ UNCHANGED <<ready, version, fuse, approvals, effect, github>>

(* PublicationApprovalService.approve                                       *)
Approve(c) ==
  /\ At(c, "TRANSACTION") /\ call[c].clear
  /\ Verified
  /\ approvals' = approvals \cup {publication.head}
  /\ End(c)
  /\ UNCHANGED <<ready, version, fuse, publication, effect, github>>

AnnouncedOnce(p) ==                                      \* mutant of Announced
  effect.head = Absent /\ effect' = [effect EXCEPT !.head = p]

(* publication_effects.request: a new intent, or the one found if the same. *)
Announced(p) ==
  /\ effect.head \in {Absent, p}
  /\ effect' = [effect EXCEPT !.head = p]

(* First transaction of publish: the durable effect intent.  With a receipt *)
(* on record the call returns it and nothing follows.                       *)
RequestEffect(c) ==
  /\ At(c, "TRANSACTION") /\ call[c].clear
  /\ Publishable
  /\ effect.receipt = 0
  /\ Announced(publication.head)
  /\ call' = [call EXCEPT ![c].next = "READ_BASE", ![c].head = publication.head]
  /\ UNCHANGED <<ready, version, fuse, publication, approvals, github>>

------------------------------------------------------------------------------
(* GitHubPublicationPublisher.reconcile, one request at a time, outside of  *)
(* any transaction and without another look at the fuse or the task.        *)
ReadBase(c) ==
  /\ At(c, "READ_BASE")
  /\ base
  /\ GoTo(c, "READ_REF")
  /\ UNCHANGED <<ready, version, fuse, ledger, github>>

RefIsMissing(c) == branch = Absent
RefIsOurs(c) == branch = call[c].head

ReadRef(c) ==
  /\ At(c, "READ_REF")
  /\ \/ RefIsMissing(c) /\ GoTo(c, "CREATE_REF")
     \/ RefIsOurs(c) /\ GoTo(c, "FIND_PULL")
  /\ UNCHANGED <<ready, version, fuse, ledger, github>>

(* The blobs, the tree and the commit are content-addressed: to create them *)
(* again changes nothing, so only the ref shows.                            *)
CreateRef(c) ==
  /\ At(c, "CREATE_REF")
  /\ RefIsMissing(c)
  /\ branch' = call[c].head
  /\ GoTo(c, "FIND_PULL")
  /\ UNCHANGED <<ready, version, fuse, ledger, base, pulls>>

SameHead(number, p) == pulls[number].head = p              \* mutant of Exact
Exact(number, p) == pulls[number].head = p /\ pulls[number].exactBase

OpenPulls == {n \in 1..Len(pulls) : pulls[n].open}

FindPull(c) ==
  /\ At(c, "FIND_PULL")
  /\ \/ OpenPulls = {} /\ GoTo(c, "OPEN_PULL")
     \/ \E n \in OpenPulls :
          /\ Exact(n, call[c].head)
          /\ call' = [call EXCEPT ![c].next = "RECORD", ![c].number = n]
  /\ UNCHANGED <<ready, version, fuse, ledger, github>>

(* A pull request that does not come back exact is left as it is.           *)
OpenPull(c) ==
  /\ At(c, "OPEN_PULL")
  /\ OpenPulls = {}
  /\ Len(pulls) < MaxPulls
  /\ pulls' = Append(pulls, [open |-> TRUE, head |-> branch, exactBase |-> base])
  /\ IF branch = call[c].head /\ base
     THEN call' = [call EXCEPT ![c].next = "RECORD", ![c].number = Len(pulls')]
     ELSE End(c)
  /\ UNCHANGED <<ready, version, fuse, ledger, base, branch>>

SameEffect(c) == effect.head = call[c].head /\ publication.head = call[c].head
SameReceipt(c) == effect.receipt \in {0, call[c].number}

(* Second transaction of publish: the receipt, once; any other number than  *)
(* the one on record is refused.                                            *)
RecordReceipt(c) ==
  /\ At(c, "RECORD")
  /\ SameEffect(c) /\ SameReceipt(c)
  /\ effect' = [effect EXCEPT !.receipt = call[c].number]
  /\ End(c)
  /\ UNCHANGED <<ready, version, fuse, publication, approvals, github>>

------------------------------------------------------------------------------
(* Everybody else.  Other services add to the task or block it; BLOCKED is  *)
(* not left again (TaskLedger).                                             *)
ChangeTask ==
  /\ version < MaxChanges
  /\ version' = version + 1
  /\ ready' \in {ready, FALSE}
  /\ UNCHANGED <<fuse, ledger, github, call>>

SwitchFuse ==
  /\ FuseInUse
  /\ fuse' = ~fuse
  /\ UNCHANGED <<ready, version, ledger, github, call>>

(* People on GitHub: the base branch advances, a reviewer closes the pull   *)
(* request, somebody pushes to the publication's branch.                    *)
AdvanceBase ==
  /\ base /\ base' = FALSE
  /\ UNCHANGED <<ready, version, fuse, ledger, branch, pulls, call>>

ClosePull ==
  /\ \E n \in OpenPulls : pulls' = [pulls EXCEPT ![n].open = FALSE]
  /\ UNCHANGED <<ready, version, fuse, ledger, base, branch, call>>

PushToBranch ==
  /\ branch \in Heads
  /\ branch' = Foreign
  /\ pulls' = [n \in 1..Len(pulls) |->
                 IF pulls[n].open THEN [pulls[n] EXCEPT !.head = Foreign] ELSE pulls[n]]
  /\ UNCHANGED <<ready, version, fuse, ledger, base, call>>

Transact(c) ==
  \/ \E h \in Heads, verdict \in Verdicts : Prepare(c, h, verdict)
  \/ Approve(c)
  \/ RequestEffect(c)

Reconcile(c) ==
  \/ ReadBase(c)
  \/ ReadRef(c)
  \/ CreateRef(c)
  \/ FindPull(c)
  \/ OpenPull(c)
  \/ RecordReceipt(c)

Next ==
  \/ \E c \in Callers : Begin(c) \/ Crash(c) \/ Transact(c) \/ Reconcile(c)
  \/ ChangeTask
  \/ SwitchFuse
  \/ AdvanceBase
  \/ ClosePull
  \/ PushToBranch

Spec == Init /\ [][Next]_vars

(* Every call ends, and a publish that did not get through is run again and *)
(* is not unlucky for ever: what some call can do again and again is done.  *)
Fairness ==
  /\ \A c \in Callers : WF_vars(Crash(c) \/ Transact(c) \/ Reconcile(c))
  /\ WF_vars(\E c \in Callers : Begin(c))
  /\ SF_vars(\E c \in Callers : RequestEffect(c))
  /\ SF_vars(\E c \in Callers : ReadBase(c))
  /\ SF_vars(\E c \in Callers : ReadRef(c))
  /\ SF_vars(\E c \in Callers : CreateRef(c))
  /\ SF_vars(\E c \in Callers : FindPull(c))
  /\ SF_vars(\E c \in Callers : OpenPull(c))
  /\ SF_vars(\E c \in Callers : RecordReceipt(c))

FairSpec == Spec /\ Fairness
------------------------------------------------------------------------------
(* Whatever of ours is on GitHub, the branch and every head a pull request  *)
(* was opened with, is the one candidate that was verified, approved and    *)
(* durably announced first, however many calls die or run side by side      *)
(* (publish: intent committed before any remote I/O).                       *)
PublishedIsApproved ==
  \A p \in Heads :
    p = branch \/ (\E n \in 1..Len(pulls) : pulls[n].head = p) =>
      Verified /\ publication.head = p /\ p \in approvals /\ effect.head = p

(* The receipt names a pull request that was exact when it was found or     *)
(* opened: on the fixed base, with the approved head unless somebody pushed *)
(* to it later.  An earlier call that died, or that raced with the base     *)
(* branch, leaves pull requests that must not be taken for it               *)
(* (_validate_pull_request).                                                *)
ReceiptIsExact ==
  effect.receipt # 0 =>
    /\ effect.receipt <= Len(pulls)
    /\ pulls[effect.receipt].exactBase
    /\ pulls[effect.receipt].head \in {effect.head, Foreign}

(* A receipt is never replaced: two publish calls that ended up with two    *)
(* pull requests do not both record theirs (reconcile, lines 642-645).      *)
ReceiptIsFinal ==
  [][effect.receipt # 0 => effect' = effect]_vars

(* Publishing keeps its promise (module PublicationPromise): one candidate, *)
(* verified, approved, announced and only then on GitHub, acknowledged once,*)
(* and nothing of it undone, though its steps are calls of three services,  *)
(* any of which may die, run twice or act on what it read long ago.         *)
Promise == INSTANCE PublicationPromise WITH
  Candidates <- Heads,
  Nothing <- Absent,
  candidate <- IF Verified THEN publication.head ELSE Absent,
  approved <- publication.head \in approvals,
  announced <- effect.head # Absent,
  shown <- branch # Absent,
  receipt <- effect.receipt

KeepsPromise == Promise!Spec

(* A publication that was begun is finished, whatever calls die half way,   *)
(* with the ref created or the pull request opened and no receipt, unless   *)
(* people intervene: the base advances, the branch is pushed to, the pull   *)
(* request is closed, the task is blocked, or the fuse is engaged again and *)
(* again (publish's retry path: reconcile recovers what is there).          *)
Intervened ==
  \/ ~base \/ ~ready \/ branch = Foreign
  \/ \E n \in 1..Len(pulls) : ~pulls[n].open

PublishConverges ==
  <>[]~fuse => (effect.head # Absent ~> effect.receipt # 0 \/ Intervened)

(* As long as nobody has intervened, a retry finds what is its own and      *)
(* nothing else: no check in its way refuses what earlier calls have left   *)
(* on GitHub and on record, wherever they died, and there is no second pull *)
(* request (publish and reconcile, when they meet an effect on record).     *)
RetryFindsItsOwn ==
  effect.head # Absent /\ ~Intervened =>
    /\ Publishable /\ publication.head = effect.head
    /\ branch \in {Absent, effect.head}
    /\ Len(pulls) <= 1
    /\ \A n \in 1..Len(pulls) : Exact(n, effect.head) /\ effect.receipt \in {0, n}

(* PHASE8_SPEC.md lines 88-89: no retry creates a second publication.  The  *)
(* publisher looks for open pull requests only.                             *)
SinglePull == Len(pulls) <= 1
==============================================================================
