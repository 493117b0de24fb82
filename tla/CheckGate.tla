------------------------------ MODULE CheckGate ------------------------------
(***************************************************************************)
(* The gate of required checks on a published head: PublicationCheckService *)
(* with the adapter that reads GitHub's check runs and the table of what    *)
(* was observed.                                                            *)
(*                                                                         *)
(* A call validates the publication, reads the runs outside of any          *)
(* transaction, decides, and validates and records in a second transaction. *)
(* The publication is one whose effect is reconciled: it stays so (module   *)
(* Publication, ReceiptIsFinal), and before that every call is refused.     *)
(*                                                                         *)
(* GitHub tells times by the second and lists runs in no certain order.     *)
(* Runs of one name may be under way together: a workflow that is run on    *)
(* push and on pull_request starts two of each job on the published head.   *)
(***************************************************************************)
EXTENDS Naturals, Sequences, FiniteSets

CONSTANTS
  Callers,       \* check calls that may run together
  Names,         \* names of checks that run on the head
  Required,      \* META_LOOP's required checks
  MaxRuns,       \* bound: check runs ever started
  MaxTime,       \* bound: seconds
  FuseInUse      \* bound: whether anybody engages the fuse

ASSUME GateAssumption ==
  /\ Required \subseteq Names /\ Required # {}
  /\ MaxRuns \in Nat /\ MaxTime \in Nat /\ FuseInUse \in BOOLEAN

VARIABLES
  clock,         \* GitHub's time, in seconds
  runs,          \* the check runs of the head, in the order they were started
  fuse,          \* system_fuse.engaged
  observations,  \* the check_run_observations table, for the head
  call,          \* the calls in flight
  passed,        \* history: a call has answered that the gate is passed
  tied           \* history: one second has shown two statuses of a name

github == <<clock, runs, tied>>
database == <<fuse, observations>>
vars == <<github, database, call, passed>>

(* FAILURE stands for the six conclusions that are not success.             *)
Conclusions == {"SUCCESS", "FAILURE"}
Outcomes == {<<"QUEUED", "NONE">>, <<"IN_PROGRESS", "NONE">>}
              \cup {<<"COMPLETED", conclusion>> : conclusion \in Conclusions}
Runs == [name : Names, outcome : Outcomes, started : Nat, completed : Nat]
Observations == [name : Names, outcome : Outcomes, at : Nat]

Steps == {"IDLE", "READ", "RECORD"}
Calls == [next : Steps, read : SUBSET Observations, passes : BOOLEAN]
NoCall == [next |-> "IDLE", read |-> {}, passes |-> FALSE]

TypeOK ==
  /\ clock \in Nat /\ runs \in Seq(Runs) /\ tied \in BOOLEAN
  /\ fuse \in BOOLEAN
  /\ observations \subseteq Observations
  /\ call \in [Callers -> Calls]
  /\ passed \in BOOLEAN

Init ==
  /\ clock = 0 /\ runs = <<>> /\ tied = FALSE
  /\ fuse = FALSE /\ observations = {}
  /\ call = [c \in Callers |-> NoCall]
  /\ passed = FALSE

------------------------------------------------------------------------------
Completed(run) == run.outcome[1] = "COMPLETED"
Succeeded(o) == o.outcome = <<"COMPLETED", "SUCCESS">>

NormalizedAtStart(run) ==                                \* mutant of Normalized
  [name |-> run.name, outcome |-> run.outcome, at |-> run.started]

(* GitHubCheckSource._normalize                                             *)
Normalized(run) ==
  [name |-> run.name, outcome |-> run.outcome,
   at |-> IF Completed(run) THEN run.completed ELSE run.started]

Observed == {Normalized(runs[i]) : i \in DOMAIN runs}

(* The runs of a name that carry its newest time.  A call that meets two of *)
(* them is refused as ambiguous; two of an older time it may or may not     *)
(* meet as such, by the order they are listed in.                           *)
Newest(n) ==
  LET at(i) == Normalized(runs[i]).at
  IN  {i \in DOMAIN runs :
         /\ runs[i].name = n
         /\ \A j \in DOMAIN runs : runs[j].name = n => at(j) <= at(i)}

AnyNewest(n) == TRUE                                     \* mutant of Unambiguous
RunOnce(n) == Cardinality({i \in DOMAIN runs : runs[i].name = n}) <= 1
                                                         \* mutant of Unambiguous
Unambiguous(n) == Cardinality(Newest(n)) <= 1

Passes(n) == \E i \in Newest(n) : Succeeded(runs[i])

SameKey(o, p) == o.name = p.name /\ o.at = p.at

(* check_observations.append of each observation in turn: one for a key.    *)
Consistent(known) == \A o, p \in known : SameKey(o, p) => o = p

Recorded(read) == observations \cup read

------------------------------------------------------------------------------
EndAsDone(c) == call' = [call EXCEPT ![c].next = "DONE"]       \* mutant of End
End(c) == call' = [call EXCEPT ![c] = NoCall]

(* First transaction: _validated_state.                                     *)
Validate(c) ==
  /\ call[c].next = "IDLE"
  /\ ~fuse
  /\ call' = [call EXCEPT ![c].next = "READ"]
  /\ UNCHANGED <<github, database, passed>>

ReadRuns(c) ==
  /\ call[c].next = "READ"
  /\ \A n \in Names : Unambiguous(n)
  /\ call' = [call EXCEPT ![c] =
       [next |-> "RECORD", read |-> Observed, passes |-> \A n \in Required : Passes(n)]]
  /\ UNCHANGED <<github, database, passed>>

(* Second transaction: the state again, and the observations.               *)
Record(c) ==
  /\ call[c].next = "RECORD"
  /\ ~fuse
  /\ Consistent(Recorded(call[c].read))
  /\ observations' = Recorded(call[c].read)
  /\ passed' = (passed \/ call[c].passes)
  /\ End(c)
  /\ UNCHANGED <<github, fuse>>

(* A check raises, the request fails, or the process dies.                  *)
Abort(c) ==
  /\ call[c].next # "IDLE"
  /\ End(c)
  /\ UNCHANGED <<github, database, passed>>

------------------------------------------------------------------------------
(* GitHub.  The time of a run may be set anew when it leaves the queue.     *)
StatusTime(run) == IF Completed(run) THEN run.completed ELSE run.started

(* A status in a second that shows another of the same name, be it of the   *)
(* same run before or of a run beside it.                                   *)
Ties(run) ==
  \E j \in DOMAIN runs : /\ runs[j].name = run.name /\ runs[j].outcome # run.outcome
                         /\ StatusTime(runs[j]) = StatusTime(run)

StartRun(n) ==
  /\ Len(runs) < MaxRuns
  /\ \E status \in {"QUEUED", "IN_PROGRESS"} :
       LET run == [name |-> n, outcome |-> <<status, "NONE">>, started |-> clock, completed |-> 0]
       IN  runs' = Append(runs, run) /\ tied' = (tied \/ Ties(run))
  /\ UNCHANGED <<clock, database, call, passed>>

Shows(i, run) ==
  /\ runs' = [runs EXCEPT ![i] = run]
  /\ tied' = (tied \/ Ties(run))
  /\ UNCHANGED <<clock, database, call, passed>>

LeaveQueue(i) ==
  /\ runs[i].outcome[1] = "QUEUED"
  /\ \E started \in {runs[i].started, clock} :
       Shows(i, [runs[i] EXCEPT !.outcome = <<"IN_PROGRESS", "NONE">>, !.started = started])

CompleteRun(i) ==
  /\ ~Completed(runs[i])
  /\ \E conclusion \in Conclusions :
       Shows(i, [runs[i] EXCEPT !.outcome = <<"COMPLETED", conclusion>>, !.completed = clock])

Tick ==
  /\ clock < MaxTime
  /\ clock' = clock + 1
  /\ UNCHANGED <<runs, tied, database, call, passed>>

SwitchFuse ==
  /\ FuseInUse
  /\ fuse' = ~fuse
  /\ UNCHANGED <<github, observations, call, passed>>

GitHub ==
  \/ \E n \in Names : StartRun(n)
  \/ \E i \in DOMAIN runs : LeaveQueue(i) \/ CompleteRun(i)
  \/ Tick

Next ==
  \/ \E c \in Callers : Validate(c) \/ ReadRuns(c) \/ Record(c) \/ Abort(c)
  \/ GitHub
  \/ SwitchFuse

Spec == Init /\ [][Next]_vars

(* Somebody keeps asking, and calls end and are not unlucky for ever.       *)
Fairness ==
  /\ \A c \in Callers : WF_vars(ReadRuns(c) \/ Record(c) \/ Abort(c))
  /\ WF_vars(\E c \in Callers : Validate(c))
  /\ SF_vars(\E c \in Callers : ReadRuns(c))
  /\ SF_vars(\E c \in Callers : Record(c))

FairSpec == Spec /\ Fairness
------------------------------------------------------------------------------
RunsOf(n) == {i \in DOMAIN runs : runs[i].name = n}

Decided(c) == call'[c].passes /\ ~call[c].passes

(* A pass is decided only while, of each required check, a run has succeeded *)
(* that ended in a later second than every other run of the name that has   *)
(* ended, and than every other began.  So a later failure, and a run that   *)
(* was begun after the success, always block; only a run that was under way *)
(* when the success came may be left unfinished.  The code knows the runs   *)
(* by one time only, that of their start or of their end, and by the        *)
(* second: it compares the two kinds, and refuses equal ones                *)
(* (publication.py, lines 297-318; github_checks.py, lines 54-67).          *)
PassIsEarned ==
  [][\A c \in Callers : Decided(c) =>
       \A n \in Required : \E i \in RunsOf(n) :
         /\ Succeeded(runs[i])
         /\ \A j \in RunsOf(n) \ {i} :
              /\ runs[j].started < runs[i].completed
              /\ Completed(runs[j]) => runs[j].completed < runs[i].completed]_vars

(* PHASE8_SPEC.md, lines 128-131: a pending required check blocks.  Of two  *)
(* runs of a name the code looks at the one with the later time, and a      *)
(* run's end is later than the start of the one beside it (publication.py,  *)
(* line 306).                                                               *)
PendingBlocks ==
  [][\A c \in Callers : Decided(c) =>
       \A n \in Required : \A j \in RunsOf(n) : Completed(runs[j])]_vars

(* A pass that was answered rests on successes that are on record           *)
(* (publication.py, the second transaction of check).                       *)
PassIsOnRecord ==
  passed => \A n \in Required : \E o \in observations : o.name = n /\ Succeeded(o)

(* No observation that a call brings contradicts one on record, unless      *)
(* GitHub itself has shown two statuses of the name in one second: when a   *)
(* run moves on, the time it is known by moves on too, and what other runs  *)
(* of the name, under way beside it, show at that time is what is on record *)
(* (publication.py, lines 308-322; github_checks.py, lines 54-67; the       *)
(* unique key of check_run_observations).  The gate would stay shut for good. *)
RecordsAgree ==
  ~tied => \A c \in Callers : Consistent(Recorded(call[c].read))

(* The gate opens: once all runs have ended, those of a name in different   *)
(* seconds, with a success as the last of each required check, and that     *)
(* lasts, some call answers so, unless GitHub has shown two statuses of a   *)
(* name in one second.  Then a call that records the first of them makes    *)
(* all later calls fail on the second, for good; and runs of a name that    *)
(* ended in one second are refused as ambiguous until there is another.     *)
Green ==
  /\ \A i \in DOMAIN runs : Completed(runs[i])
  /\ \A n \in Names : \A i, j \in RunsOf(n) : i # j => runs[i].completed # runs[j].completed
  /\ \A n \in Required : \E i \in RunsOf(n) :
       Succeeded(runs[i]) /\ \A j \in RunsOf(n) : runs[j].completed <= runs[i].completed

GateOpens ==
  <>[](~fuse /\ Green /\ ~tied) => <>passed
==============================================================================
