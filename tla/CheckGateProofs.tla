--------------------------- MODULE CheckGateProofs ---------------------------
(***************************************************************************)
(* Proofs about CheckGate, for all sets of callers and checks and any       *)
(* number of runs.                                                          *)
(***************************************************************************)
EXTENDS CheckGate, FiniteSetTheorems, TLAPS

(* A call that is to answer a pass has read the successes for it.           *)
PassesOnEvidence ==
  \A c \in Callers : call[c].passes =>
    \A n \in Required : \E o \in call[c].read : o.name = n /\ Succeeded(o)

(* A run begins and ends in the past, and begins before it ends.            *)
InTime(run, now) ==
  /\ run.started <= now
  /\ Completed(run) => run.started <= run.completed /\ run.completed <= now

Timely == \A i \in DOMAIN runs : InTime(runs[i], clock)

GateInv ==
  /\ TypeOK /\ Timely /\ PassesOnEvidence
  /\ Consistent(observations) /\ PassIsOnRecord

(* What is read of a run is well formed.                                    *)
LEMMA NormalizedType ==
  ASSUME NEW run \in Runs
  PROVE  /\ Normalized(run) \in Observations
         /\ Normalized(run).name = run.name /\ Normalized(run).outcome = run.outcome
BY DEF Runs, Observations, Normalized

(* So are the runs themselves.                                              *)
LEMMA RunsAreRuns ==
  ASSUME TypeOK, NEW i \in DOMAIN runs
  PROVE  runs[i] \in Runs /\ runs[i].started \in Nat /\ runs[i].completed \in Nat
<1>1. runs \in Seq(Runs)
  BY DEF TypeOK
<1>2. runs[i] \in Runs
  BY <1>1
<1>3. QED
  BY <1>2 DEF Runs

(* A run that is begun, or that moves on, is well formed and in time.       *)
LEMMA NewRun ==
  ASSUME TypeOK, NEW n \in Names, NEW status \in {"QUEUED", "IN_PROGRESS"},
         NEW run, run = [name |-> n, outcome |-> <<status, "NONE">>,
                         started |-> clock, completed |-> 0]
  PROVE  run \in Runs /\ ~Completed(run) /\ InTime(run, clock)
<1>1. <<status, "NONE">> \in Outcomes /\ clock \in Nat
  BY DEF Outcomes, TypeOK
<1>2. run \in Runs
  BY <1>1 DEF Runs
<1>3. QED
  BY <1>1, <1>2 DEF Completed, InTime

LEMMA MovedRun ==
  ASSUME TypeOK, Timely, NEW i \in DOMAIN runs, LeaveQueue(i) \/ CompleteRun(i)
  PROVE  /\ ~Completed(runs[i])
         /\ \E run \in Runs : /\ Shows(i, run) /\ InTime(run, clock)
                             /\ run.name = runs[i].name /\ run.outcome # runs[i].outcome
                             /\ StatusTime(run) \in {StatusTime(runs[i]), clock}
<1>k. /\ runs[i] \in Runs /\ runs[i].started \in Nat /\ runs[i].completed \in Nat /\ clock \in Nat
      /\ runs[i].started <= clock
  BY RunsAreRuns DEF TypeOK, Timely, InTime
<1>1. CASE LeaveQueue(i)
  <2>1. PICK started \in {runs[i].started, clock} :
          Shows(i, [runs[i] EXCEPT !.outcome = <<"IN_PROGRESS", "NONE">>, !.started = started])
    BY <1>1 DEF LeaveQueue
  <2> DEFINE run == [runs[i] EXCEPT !.outcome = <<"IN_PROGRESS", "NONE">>, !.started = started]
  <2>2. <<"IN_PROGRESS", "NONE">> \in Outcomes /\ started \in Nat /\ started <= clock
    BY <1>k DEF Outcomes
  <2>3. run \in Runs
    BY <1>k, <2>2 DEF Runs
  <2>4. /\ run.name = runs[i].name /\ run.started = started
        /\ run.outcome = <<"IN_PROGRESS", "NONE">>
    BY <1>k DEF Runs
  <2>5. ~Completed(runs[i]) /\ ~Completed(run) /\ run.outcome # runs[i].outcome
    BY <1>1, <2>4 DEF LeaveQueue, Completed
  <2>6. Shows(i, run)
    BY <2>1
  <2> HIDE DEF run
  <2>7. InTime(run, clock) /\ StatusTime(run) \in {StatusTime(runs[i]), clock}
    BY <2>2, <2>4, <2>5 DEF InTime, StatusTime
  <2>8. QED
    BY <2>3, <2>4, <2>5, <2>6, <2>7
<1>2. CASE CompleteRun(i)
  <2>1. PICK conclusion \in Conclusions :
          Shows(i, [runs[i] EXCEPT !.outcome = <<"COMPLETED", conclusion>>, !.completed = clock])
    BY <1>2 DEF CompleteRun
  <2> DEFINE run == [runs[i] EXCEPT !.outcome = <<"COMPLETED", conclusion>>, !.completed = clock]
  <2>2. <<"COMPLETED", conclusion>> \in Outcomes
    BY DEF Outcomes
  <2>3. run \in Runs
    BY <1>k, <2>2 DEF Runs
  <2>4. /\ run.name = runs[i].name /\ run.started = runs[i].started /\ run.completed = clock
        /\ run.outcome = <<"COMPLETED", conclusion>>
    BY <1>k DEF Runs
  <2>5. ~Completed(runs[i]) /\ Completed(run) /\ run.outcome # runs[i].outcome
    <3>1. run.outcome[1] = "COMPLETED"
      BY <2>4
    <3>2. ~Completed(runs[i])
      BY <1>2 DEF CompleteRun
    <3>3. QED
      BY <3>1, <3>2 DEF Completed
  <2>6. Shows(i, run)
    BY <2>1
  <2> HIDE DEF run
  <2>7. InTime(run, clock) /\ StatusTime(run) = clock
    BY <1>k, <2>4, <2>5 DEF InTime, StatusTime
  <2>8. QED
    BY <2>3, <2>4, <2>5, <2>6, <2>7
<1>3. QED
  BY <1>1, <1>2

(* GitHub keeps its runs and its times well formed.                         *)
LEMMA GitHubStep ==
  ASSUME TypeOK, Timely, GitHub
  PROVE  /\ runs' \in Seq(Runs) /\ clock' \in Nat /\ tied' \in BOOLEAN
         /\ Timely'
<1>k. /\ runs \in Seq(Runs) /\ clock \in Nat /\ tied \in BOOLEAN
      /\ \A i \in DOMAIN runs : /\ runs[i] \in Runs
                                /\ runs[i].started \in Nat /\ runs[i].completed \in Nat
  BY RunsAreRuns DEF TypeOK
<1>1. ASSUME NEW n \in Names, StartRun(n)
      PROVE  /\ runs' \in Seq(Runs) /\ clock' \in Nat /\ tied' \in BOOLEAN
             /\ Timely'
  <2>1. PICK status \in {"QUEUED", "IN_PROGRESS"} :
          LET run == [name |-> n, outcome |-> <<status, "NONE">>,
                      started |-> clock, completed |-> 0]
          IN  runs' = Append(runs, run) /\ tied' = (tied \/ Ties(run))
    BY <1>1 DEF StartRun
  <2>2. PICK run : /\ run = [name |-> n, outcome |-> <<status, "NONE">>,
                              started |-> clock, completed |-> 0]
                   /\ runs' = Append(runs, run) /\ tied' = (tied \/ Ties(run))
    BY <2>1
  <2>3. run \in Runs /\ InTime(run, clock)
    BY <2>2, NewRun
  <2>4. /\ runs' \in Seq(Runs)
        /\ \A i \in DOMAIN runs' : runs'[i] = run \/ (i \in DOMAIN runs /\ runs'[i] = runs[i])
    BY <2>2, <2>3, <1>k
  <2>5. clock' = clock
    BY <1>1 DEF StartRun
  <2>6. Timely'
    BY <2>3, <2>4, <2>5 DEF Timely, InTime, Completed
  <2>7. QED
    BY <2>2, <2>4, <2>5, <2>6, <1>k DEF Ties
<1>2. ASSUME NEW i \in DOMAIN runs, LeaveQueue(i) \/ CompleteRun(i)
      PROVE  /\ runs' \in Seq(Runs) /\ clock' \in Nat /\ tied' \in BOOLEAN
             /\ Timely'
  <2>1. PICK run \in Runs : Shows(i, run) /\ InTime(run, clock)
    BY <1>2, MovedRun
  <2>2. /\ runs' \in Seq(Runs) /\ DOMAIN runs' = DOMAIN runs
        /\ \A j \in DOMAIN runs : runs'[j] = IF j = i THEN run ELSE runs[j]
    BY <2>1, <1>k DEF Shows
  <2>3. clock' = clock /\ tied' \in BOOLEAN
    BY <2>1, <1>k DEF Shows, Ties
  <2>4. Timely'
    BY <2>1, <2>2, <2>3 DEF Timely, InTime, Completed
  <2>5. QED
    BY <2>2, <2>3, <2>4, <1>k
<1>3. CASE Tick
  <2>1. clock' = clock + 1 /\ runs' = runs /\ tied' = tied
    BY <1>3 DEF Tick
  <2>2. Timely'
    BY <2>1, <1>k DEF Timely, InTime, Completed
  <2>3. QED
    BY <2>1, <2>2, <1>k
<1>4. QED
  BY <1>1, <1>2, <1>3 DEF GitHub

------------------------------------------------------------------------------
(* A check passes when a newest run succeeded, and then the call has read   *)
(* that success.                                                            *)
LEMMA PassIsRead ==
  ASSUME TypeOK, NEW n, Passes(n)
  PROVE  \E o \in Observed : o.name = n /\ Succeeded(o)
<1>1. PICK i \in Newest(n) : Succeeded(runs[i])
  BY DEF Passes
<1>2. i \in DOMAIN runs /\ runs[i].name = n
  BY DEF Newest
<1>3. Normalized(runs[i]).name = n /\ Succeeded(Normalized(runs[i]))
  BY <1>1, <1>2, RunsAreRuns, NormalizedType DEF Succeeded
<1>4. QED
  BY <1>2, <1>3 DEF Observed

(* Every step keeps the invariant.                                          *)
LEMMA GateStep ==
  ASSUME GateInv, [Next]_vars
  PROVE  GateInv'
<1> USE DEF GateInv
<1>o. Observed \subseteq Observations
  BY RunsAreRuns, NormalizedType DEF Observed
<1>1. ASSUME NEW c \in Callers, End(c)
      PROVE  call' \in [Callers -> Calls] /\ PassesOnEvidence'
  <2>1. NoCall \in Calls /\ ~NoCall.passes
    BY DEF NoCall, Calls, Steps
  <2>2. \A d \in Callers : call'[d] \in {call[d], NoCall}
    BY <1>1 DEF End, TypeOK
  <2>3. call' \in [Callers -> Calls]
    BY <1>1, <2>1 DEF End, TypeOK
  <2>4. QED
    BY <2>1, <2>2, <2>3 DEF PassesOnEvidence, Succeeded
<1>2. ASSUME NEW c \in Callers, Validate(c) PROVE GateInv'
  <2>1. \A d \in Callers : call'[d].passes = call[d].passes /\ call'[d].read = call[d].read
    BY <1>2 DEF Validate, TypeOK, Calls
  <2>2. call' \in [Callers -> Calls]
    BY <1>2 DEF Validate, TypeOK, Calls, Steps
  <2>3. PassesOnEvidence'
    BY <2>1 DEF PassesOnEvidence, Succeeded
  <2>4. QED
    BY <1>2, <2>2, <2>3
    DEF Validate, github, database, TypeOK, Timely, InTime, Completed, Consistent, SameKey, PassIsOnRecord, Succeeded
<1>3. ASSUME NEW c \in Callers, ReadRuns(c) PROVE GateInv'
  <2> DEFINE passes == \A n \in Required : Passes(n)
             new == [next |-> "RECORD", read |-> Observed, passes |-> passes]
  <2>1. call' = [call EXCEPT ![c] = new]
    BY <1>3 DEF ReadRuns
  <2>2. passes \in BOOLEAN
    OBVIOUS
  <2>3. passes => \A n \in Required : \E o \in Observed : o.name = n /\ Succeeded(o)
    BY PassIsRead
  <2> HIDE DEF passes
  <2>4. new \in Calls
    BY <2>2, <1>o DEF Calls, Steps
  <2>5. call' \in [Callers -> Calls]
    BY <2>1, <2>4 DEF TypeOK
  <2>6. \A d \in Callers : call'[d] = IF d = c THEN new ELSE call[d]
    BY <2>1 DEF TypeOK
  <2>7. PassesOnEvidence'
    BY <2>3, <2>6 DEF PassesOnEvidence, Succeeded
  <2>8. QED
    BY <1>3, <2>5, <2>7
    DEF ReadRuns, github, database, TypeOK, Timely, InTime, Completed, Consistent, SameKey, PassIsOnRecord, Succeeded
<1>4. ASSUME NEW c \in Callers, Record(c) PROVE GateInv'
  <2>1. /\ Consistent(observations \cup call[c].read)
        /\ observations' = observations \cup call[c].read
        /\ passed' = (passed \/ call[c].passes)
        /\ End(c) /\ UNCHANGED <<clock, runs, tied, fuse>>
    BY <1>4 DEF Record, Recorded, github
  <2>2. call[c].read \subseteq Observations /\ call[c].passes \in BOOLEAN
    BY DEF TypeOK, Calls
  <2>3. Consistent(observations)'
    BY <2>1 DEF Consistent, SameKey
  <2>4. PassIsOnRecord'
    BY <2>1 DEF PassIsOnRecord, PassesOnEvidence, Succeeded
  <2>5. QED
    BY <1>1, <2>1, <2>2, <2>3, <2>4 DEF TypeOK, Timely, InTime, Completed
<1>5. ASSUME NEW c \in Callers, Abort(c) PROVE GateInv'
  BY <1>1, <1>5
  DEF Abort, github, database, TypeOK, Timely, InTime, Completed, Consistent, SameKey, PassIsOnRecord, Succeeded
<1>6. CASE GitHub
  <2>1. UNCHANGED <<database, call, passed>>
    BY <1>6 DEF GitHub, StartRun, LeaveQueue, CompleteRun, Shows, Tick
  <2>2. QED
    BY <1>6, <2>1, GitHubStep
    DEF database, TypeOK, PassesOnEvidence, Consistent, SameKey, PassIsOnRecord, Succeeded
<1>7. CASE SwitchFuse
  BY <1>7
  DEF SwitchFuse, github, TypeOK, Timely, InTime, Completed, PassesOnEvidence, Consistent, SameKey,
      PassIsOnRecord, Succeeded
<1>8. CASE UNCHANGED vars
  BY <1>8
  DEF vars, github, database, TypeOK, Timely, InTime, Completed, PassesOnEvidence, Consistent,
      SameKey, PassIsOnRecord, Succeeded
<1>9. QED
  BY <1>2, <1>3, <1>4, <1>5, <1>6, <1>7, <1>8 DEF Next

(* The invariant holds in every state.                                      *)
THEOREM AlwaysGateInv == Spec => []GateInv
<1>1. Init => GateInv
  <2> SUFFICES ASSUME Init PROVE GateInv
    OBVIOUS
  <2>1. NoCall \in Calls /\ ~NoCall.passes
    BY DEF NoCall, Calls, Steps
  <2>2. TypeOK
    <3>1. <<>> \in Seq(Runs)
      OBVIOUS
    <3>2. call \in [Callers -> Calls]
      BY <2>1 DEF Init
    <3>3. QED
      BY <3>1, <3>2 DEF Init, TypeOK
  <2>3. Timely
    BY DEF Init, Timely, InTime
  <2>4. PassesOnEvidence /\ Consistent(observations) /\ PassIsOnRecord
    BY <2>1 DEF Init, PassesOnEvidence, Consistent, PassIsOnRecord
  <2>5. QED
    BY <2>2, <2>3, <2>4 DEF GateInv
<1>2. QED
  BY <1>1, GateStep, PTL DEF Spec

(* All of the gate's state stays well formed.                               *)
THEOREM TypeCorrect == Spec => []TypeOK
<1>1. GateInv => TypeOK
  BY DEF GateInv
<1>2. QED
  BY <1>1, AlwaysGateInv, PTL

(* A pass is only answered on successes that are on record.                 *)
THEOREM PassIsAlwaysOnRecord == Spec => []PassIsOnRecord
<1>1. GateInv => PassIsOnRecord
  BY DEF GateInv
<1>2. QED
  BY <1>1, AlwaysGateInv, PTL

(* A success that is the only newest run came after every other run began,  *)
(* and after every other that has ended.                                    *)
LEMMA NewestIsLater ==
  ASSUME TypeOK, Timely, NEW n, Unambiguous(n), NEW i \in Newest(n), Succeeded(runs[i])
  PROVE  \A j \in RunsOf(n) \ {i} :
           /\ runs[j].started < runs[i].completed
           /\ Completed(runs[j]) => runs[j].completed < runs[i].completed
<1> DEFINE at(k) == Normalized(runs[k]).at
<1> SUFFICES ASSUME NEW j \in RunsOf(n), j # i
    PROVE  /\ runs[j].started < runs[i].completed
           /\ Completed(runs[j]) => runs[j].completed < runs[i].completed
  OBVIOUS
<1>1. /\ i \in DOMAIN runs /\ runs[i].name = n /\ j \in DOMAIN runs /\ runs[j].name = n
      /\ DOMAIN runs = 1..Len(runs) /\ Len(runs) \in Nat
  BY DEF Newest, RunsOf, TypeOK
<1>2. /\ at(i) = runs[i].completed /\ at(i) \in Nat
      /\ at(j) = (IF Completed(runs[j]) THEN runs[j].completed ELSE runs[j].started)
      /\ at(j) \in Nat /\ runs[j].started \in Nat /\ runs[j].completed \in Nat
  BY <1>1, RunsAreRuns DEF Normalized, Succeeded, Completed
<1>3. at(j) <= at(i)
  BY <1>1 DEF Newest
<1>4. at(j) # at(i)
  <2> SUFFICES ASSUME at(j) = at(i) PROVE FALSE
    OBVIOUS
  <2>1. j \in Newest(n)
    BY <1>1 DEF Newest
  <2>2. IsFiniteSet(Newest(n))
    <3>1. IsFiniteSet(1..Len(runs))
      BY <1>1, FS_Interval
    <3>2. Newest(n) \in SUBSET (1..Len(runs))
      BY <1>1 DEF Newest
    <3>3. QED
      BY <3>1, <3>2, FS_Subset
  <2>3. Cardinality({i, j}) = 2 /\ Cardinality({i, j}) <= Cardinality(Newest(n))
    <3>1. IsFiniteSet({i}) /\ Cardinality({i}) = 1
      BY FS_Singleton
    <3>2. Cardinality({i} \cup {j}) = 1 + 1
      BY <3>1, FS_AddElement
    <3>3. {i} \cup {j} = {i, j} /\ {i, j} \in SUBSET Newest(n)
      BY <2>1
    <3>4. Cardinality({i, j}) <= Cardinality(Newest(n))
      BY ONLY <3>3, <2>2, FS_Subset
    <3>5. Cardinality({i, j}) = 1 + 1
      BY ONLY <3>2, <3>3
    <3>6. QED
      BY <3>4, <3>5
  <2>4. Cardinality(Newest(n)) \in Nat
    BY <2>2, FS_CardinalityType
  <2>5. QED
    BY <2>3, <2>4 DEF Unambiguous
<1>5. Completed(runs[j]) => runs[j].started <= runs[j].completed
  BY <1>1 DEF Timely, InTime
<1>6. QED
  BY <1>2, <1>3, <1>4, <1>5

(* No call ever decides that the gate is passed while a run failed later, or *)
(* began later, than the success: of any number of runs of any number of    *)
(* checks, under way together or not.                                       *)
THEOREM PassIsAlwaysEarned == Spec => PassIsEarned
<1> DEFINE Later(i, n) == \A j \in RunsOf(n) \ {i} :
             /\ runs[j].started < runs[i].completed
             /\ Completed(runs[j]) => runs[j].completed < runs[i].completed
           Earned(c) == Decided(c) =>
             \A n \in Required : \E i \in RunsOf(n) :
               /\ Succeeded(runs[i])
               /\ \A j \in RunsOf(n) \ {i} :
                    /\ runs[j].started < runs[i].completed
                    /\ Completed(runs[j]) => runs[j].completed < runs[i].completed
<1>1. ASSUME GateInv, [Next]_vars, NEW c \in Callers
      PROVE  Earned(c)
  <2>1. CASE ReadRuns(c)
    <3>1. call'[c].passes <=> \A n \in Required : Passes(n)
      BY <1>1, <2>1 DEF ReadRuns, GateInv, TypeOK
    <3>2. ASSUME NEW n \in Required, Passes(n)
          PROVE  \E i \in RunsOf(n) : Succeeded(runs[i]) /\ Later(i, n)
      <4>1. PICK i \in Newest(n) : Succeeded(runs[i])
        BY <3>2 DEF Passes
      <4>2. Unambiguous(n)
        BY <2>1, GateAssumption DEF ReadRuns
      <4>3. Later(i, n)
        BY <1>1, <4>1, <4>2, NewestIsLater DEF GateInv
      <4>4. QED
        BY <4>1, <4>3 DEF Newest, RunsOf
    <3>3. QED
      BY <3>1, <3>2 DEF Decided
  <2>2. ASSUME NEW d \in Callers, ReadRuns(d), d # c
        PROVE  call'[c] = call[c]
    BY <1>1, <2>2 DEF ReadRuns, GateInv, TypeOK
  <2>3. ASSUME NEW d \in Callers, Validate(d) \/ End(d)
        PROVE  call'[c].passes => call[c].passes
    BY <1>1, <2>3 DEF Validate, End, NoCall, GateInv, TypeOK, Calls
  <2>4. CASE call' = call
    BY <2>4 DEF Decided
  <2>5. QED
    BY <1>1, <2>1, <2>2, <2>3, <2>4
    DEF Decided, Next, Record, Abort, GitHub, StartRun, LeaveQueue, CompleteRun, Shows, Tick,
        SwitchFuse, vars
<1>2. GateInv /\ [Next]_vars => [\A c \in Callers : Earned(c)]_vars
  BY <1>1
<1>3. QED
  BY <1>2, AlwaysGateInv, PTL DEF Spec, PassIsEarned

------------------------------------------------------------------------------
(* What is on record or has been read.                                      *)
Known == observations \cup UNION {call[c].read : c \in Callers}

(* While no second has shown two statuses of a name: what is known is shown *)
(* still, or is of an earlier second, and so is out of reach of what is to  *)
(* come, which is shown at the present one.                                 *)
AgreeInv == ~tied => /\ \A o \in Known : o \in Observed \/ o.at < clock
                     /\ Consistent(Known \cup Observed)

(* What the gate knows is well formed.                                      *)
LEMMA KnownType ==
  ASSUME TypeOK
  PROVE  /\ Known \cup Observed \subseteq Observations
         /\ \A o \in Known \cup Observed : o.at \in Nat
<1>1. Known \cup Observed \subseteq Observations
  BY RunsAreRuns, NormalizedType DEF TypeOK, Known, Calls, Observed
<1>2. QED
  BY <1>1 DEF Observations

(* A run is observed at the time of its status.                             *)
LEMMA ObservedAtStatusTime ==
  ASSUME NEW run \in Runs
  PROVE  /\ Normalized(run).at = StatusTime(run) /\ Normalized(run).name = run.name
         /\ Normalized(run).outcome = run.outcome
BY DEF Normalized, StatusTime

(* GitHub shows a new status, and no tie, in the present second.            *)
LEMMA ShowingAgrees ==
  ASSUME TypeOK, AgreeInv, NEW run \in Runs, ~tied, ~Ties(run), StatusTime(run) = clock,
         Known' = Known, clock' = clock,
         Normalized(run) \in Observed', Observed' \subseteq Observed \cup {Normalized(run)},
         \A o \in Observed : o \in Observed' \/ o.at < clock
  PROVE  AgreeInv'
<1> DEFINE new == Normalized(run)
<1>1. new.at = clock /\ new.name = run.name /\ new.outcome = run.outcome /\ new \in Observations
  BY ObservedAtStatusTime, NormalizedType
<1>2. \A o \in Known : o \in Observed \/ o.at < clock
  BY DEF AgreeInv
<1>3. (\A o \in Known : o \in Observed \/ o.at < clock)'
  BY <1>2
<1>4. ASSUME NEW o \in Known \cup Observed, SameKey(o, new)
      PROVE  o = new
  <2>1. o.at = clock /\ o.name = run.name /\ clock \in Nat
    BY <1>1, <1>4 DEF SameKey, TypeOK
  <2>2. o \in Observed
    BY <1>2, <2>1
  <2>3. PICK j \in DOMAIN runs : o = Normalized(runs[j])
    BY <2>2 DEF Observed
  <2>4. runs[j].name = run.name /\ StatusTime(runs[j]) = StatusTime(run) /\ o.outcome = runs[j].outcome
    BY <2>1, <2>3, RunsAreRuns, ObservedAtStatusTime
  <2>5. o.outcome = new.outcome
    BY <1>1, <2>4 DEF Ties
  <2>6. o \in Observations
    BY KnownType
  <2>7. QED
    BY <1>1, <2>1, <2>5, <2>6 DEF Observations
<1> HIDE DEF new
<1>5. Known' \cup Observed' \subseteq Known \cup Observed \cup {new}
  BY DEF new
<1>6. ASSUME NEW o \in Known \cup Observed \cup {new}, NEW p \in Known \cup Observed \cup {new},
             SameKey(o, p)
      PROVE  o = p
  BY <1>4, <1>6 DEF SameKey, AgreeInv, Consistent
<1>7. Consistent(Known \cup Observed)'
  BY <1>5, <1>6 DEF Consistent, SameKey
<1>8. QED
  BY <1>3, <1>7 DEF AgreeInv

(* Every step keeps what is known in agreement.                             *)
LEMMA AgreeStep ==
  ASSUME GateInv, AgreeInv, [Next]_vars
  PROVE  AgreeInv'
<1> USE DEF GateInv
<1>1. ASSUME UNCHANGED <<runs, tied>>, Known' \subseteq Known \cup Observed,
             clock' \in Nat, clock <= clock'
      PROVE  AgreeInv'
  <2>1. Observed' = Observed
    BY <1>1 DEF Observed, Normalized, Completed
  <2>2. ASSUME ~tied, NEW o \in Known'
        PROVE  o \in Observed \/ o.at < clock'
    <3>1. o \in Observed \/ o.at < clock
      BY <1>1, <2>2 DEF AgreeInv
    <3>2. o.at \in Nat /\ clock \in Nat
      BY <1>1, KnownType DEF TypeOK
    <3>3. QED
      BY <1>1, <3>1, <3>2
  <2>3. ~tied => Consistent(Known \cup Observed)'
    BY <1>1, <2>1 DEF AgreeInv, Consistent, SameKey
  <2>4. QED
    BY <1>1, <2>1, <2>2, <2>3 DEF AgreeInv
<1>2. ASSUME NEW c \in Callers, Validate(c) PROVE AgreeInv'
  <2>1. \A d \in Callers : call'[d].read = call[d].read
    BY <1>2 DEF Validate, TypeOK, Calls
  <2>2. QED
    BY <1>1, <1>2, <2>1 DEF Validate, github, database, Known, TypeOK
<1>3. ASSUME NEW c \in Callers, ReadRuns(c) PROVE AgreeInv'
  <2>1. \A d \in Callers : call'[d].read = IF d = c THEN Observed ELSE call[d].read
    BY <1>3 DEF ReadRuns, TypeOK
  <2>2. Known' \subseteq Known \cup Observed
    BY <1>3, <2>1 DEF ReadRuns, database, Known
  <2>3. QED
    BY <1>1, <1>3, <2>2 DEF ReadRuns, github, TypeOK
<1>4. ASSUME NEW c \in Callers, Record(c) \/ Abort(c) PROVE AgreeInv'
  <2>1. /\ End(c) /\ observations' \subseteq observations \cup call[c].read
        /\ UNCHANGED <<runs, tied, clock>>
    BY <1>4 DEF Record, Recorded, Abort, github, database
  <2>2. \A d \in Callers : call'[d].read \subseteq call[d].read
    BY <2>1 DEF End, NoCall, TypeOK
  <2>3. Known' \subseteq Known
    BY <2>1, <2>2 DEF Known
  <2>4. QED
    BY <1>1, <2>1, <2>3 DEF TypeOK
<1>k. /\ runs \in Seq(Runs) /\ clock \in Nat
      /\ DOMAIN runs = 1..Len(runs) /\ Len(runs) \in Nat
      /\ \A j \in DOMAIN runs : runs[j] \in Runs
  BY RunsAreRuns DEF TypeOK
<1>5. ASSUME NEW n \in Names, StartRun(n) PROVE AgreeInv'
  <2>1. PICK status \in {"QUEUED", "IN_PROGRESS"} :
          LET run == [name |-> n, outcome |-> <<status, "NONE">>,
                      started |-> clock, completed |-> 0]
          IN  runs' = Append(runs, run) /\ tied' = (tied \/ Ties(run))
    BY <1>5 DEF StartRun
  <2>2. PICK run : /\ run = [name |-> n, outcome |-> <<status, "NONE">>,
                              started |-> clock, completed |-> 0]
                   /\ runs' = Append(runs, run) /\ tied' = (tied \/ Ties(run))
    BY <2>1
  <2>3. run \in Runs /\ ~Completed(run) /\ run.started = clock
    BY <2>2, NewRun
  <2>4. StatusTime(run) = clock
    BY <2>3 DEF StatusTime
  <2>5. Known' = Known /\ clock' = clock
    BY <1>5 DEF StartRun, database, Known
  <2>6. /\ DOMAIN runs' = 1..(Len(runs) + 1)
        /\ \A j \in DOMAIN runs : runs'[j] = runs[j]
        /\ runs'[Len(runs) + 1] = run
    BY <2>2, <2>3, <1>k
  <2>7. Observed' = Observed \cup {Normalized(run)}
    BY <2>6, <1>k DEF Observed, Normalized, Completed
  <2>8. CASE tied'
    BY <2>8 DEF AgreeInv
  <2>9. CASE ~tied'
    <3>1. ~tied /\ ~Ties(run)
      BY <2>2, <2>9, Zenon
    <3>2. QED
      BY <2>3, <2>4, <2>5, <2>7, <3>1, ShowingAgrees
  <2>10. QED
    BY <2>8, <2>9
<1>6. ASSUME NEW i \in DOMAIN runs, LeaveQueue(i) \/ CompleteRun(i) PROVE AgreeInv'
  <2>1. PICK run \in Runs : /\ Shows(i, run)
                            /\ run.name = runs[i].name /\ run.outcome # runs[i].outcome
                            /\ StatusTime(run) \in {StatusTime(runs[i]), clock}
    BY <1>6, MovedRun
  <2>2. Known' = Known /\ clock' = clock
    BY <2>1 DEF Shows, database, Known
  <2>3. /\ DOMAIN runs' = DOMAIN runs
        /\ \A j \in DOMAIN runs : runs'[j] = IF j = i THEN run ELSE runs[j]
    BY <2>1, <1>k DEF Shows
  <2>4. /\ Normalized(run) \in Observed' /\ Observed' \subseteq Observed \cup {Normalized(run)}
        /\ \A o \in Observed : o \in Observed' \/ o = Normalized(runs[i])
    BY <2>3 DEF Observed, Normalized, Completed
  <2>5. CASE tied'
    BY <2>5 DEF AgreeInv
  <2>6. CASE ~tied'
    <3>1. ~tied /\ ~Ties(run)
      BY <2>1, <2>6, Zenon DEF Shows
    <3>2. StatusTime(runs[i]) # StatusTime(run)
      BY <2>1, <3>1 DEF Ties
    <3>3. StatusTime(run) = clock
      BY <2>1, <3>2
    <3>4. StatusTime(runs[i]) \in Nat /\ StatusTime(runs[i]) <= clock
      BY RunsAreRuns DEF Timely, InTime, StatusTime
    <3>5. Normalized(runs[i]).at < clock
      BY <1>k, <3>2, <3>3, <3>4, ObservedAtStatusTime
    <3>6. \A o \in Observed : o \in Observed' \/ o.at < clock
      BY <2>4, <3>5
    <3>7. QED
      BY <2>2, <2>4, <3>1, <3>3, <3>6, ShowingAgrees
  <2>7. QED
    BY <2>5, <2>6
<1>7. CASE Tick
  <2>1. UNCHANGED <<runs, tied, observations, call>> /\ clock' = clock + 1
    BY <1>7 DEF Tick, database
  <2>2. Known' = Known
    BY <2>1 DEF Known
  <2>3. QED
    BY <1>1, <1>k, <2>1, <2>2
<1>8. CASE SwitchFuse \/ UNCHANGED vars
  <2>1. UNCHANGED <<runs, tied, clock, observations, call>>
    BY <1>8 DEF SwitchFuse, vars, github, database
  <2>2. Known' = Known
    BY <2>1 DEF Known
  <2>3. QED
    BY <1>1, <1>k, <2>1, <2>2
<1>9. QED
  BY <1>2, <1>3, <1>4, <1>5, <1>6, <1>7, <1>8 DEF Next, GitHub

(* Observations never contradict each other, for any number of runs, checks *)
(* and callers, under way together or not, as long as no second shows two   *)
(* statuses of a name: no record is ever refused for good, which is the     *)
(* part of GateOpens that an invariant can say.                             *)
THEOREM RecordsAlwaysAgree == Spec => []RecordsAgree
<1>1. Init => AgreeInv
  BY DEF Init, NoCall, AgreeInv, Known, Observed, Consistent
<1>2. GateInv /\ AgreeInv => RecordsAgree
  <2> SUFFICES ASSUME AgreeInv, ~tied, NEW c \in Callers
      PROVE  Consistent(observations \cup call[c].read)
    BY DEF RecordsAgree, Recorded
  <2>1. observations \cup call[c].read \subseteq Known /\ Consistent(Known \cup Observed)
    BY DEF AgreeInv, Known
  <2>2. QED
    BY <2>1 DEF Consistent
<1>3. QED
  BY <1>1, <1>2, AgreeStep, AlwaysGateInv, PTL DEF Spec
==============================================================================
