----------------------------- MODULE WorkPromise -----------------------------
(***************************************************************************)
(* What the queue promises of the work it is given, without rows, leases,   *)
(* clocks, events or transactions: work on a task is offered one piece at a *)
(* time, held by one worker at a time, and each piece ends once: done by    *)
(* its holder, or given up after its last attempt, and then for good.       *)
(***************************************************************************)
EXTENDS Naturals

CONSTANTS Tasks, Workers, NoWorker, MaxAttempts

VARIABLES
  offered,   \* pieces of work offered per task
  done,      \* pieces of work that a worker finished
  failed,    \* has the task been given up?
  open,      \* is the last piece offered still to end?
  holder,    \* who holds the open piece
  taken      \* how often the last piece offered was taken

workVars == <<offered, done, failed, open, holder, taken>>

Job(t) == <<offered[t], done[t], failed[t], open[t], holder[t], taken[t]>>

Init ==
  /\ offered = [t \in Tasks |-> 1]
  /\ done = [t \in Tasks |-> 0]
  /\ failed = [t \in Tasks |-> FALSE]
  /\ open = [t \in Tasks |-> TRUE]
  /\ holder = [t \in Tasks |-> NoWorker]
  /\ taken = [t \in Tasks |-> 0]

Offer(t) ==
  /\ ~open[t] /\ ~failed[t]
  /\ Job(t)' = <<offered[t] + 1, done[t], FALSE, TRUE, NoWorker, 0>>

Take(t) ==
  /\ open[t] /\ holder[t] = NoWorker /\ taken[t] < MaxAttempts
  /\ \E w \in Workers :
       Job(t)' = <<offered[t], done[t], failed[t], TRUE, w, taken[t] + 1>>

(* The holder fails or is lost, with an attempt left.                       *)
LetGo(t) ==
  /\ open[t] /\ holder[t] # NoWorker /\ taken[t] < MaxAttempts
  /\ Job(t)' = <<offered[t], done[t], failed[t], TRUE, NoWorker, taken[t]>>

Finish(t) ==
  /\ open[t] /\ holder[t] # NoWorker
  /\ Job(t)' = <<offered[t], done[t] + 1, failed[t], FALSE, NoWorker, taken[t]>>

GiveUp(t) ==
  /\ open[t] /\ holder[t] # NoWorker /\ taken[t] = MaxAttempts /\ ~failed[t]
  /\ Job(t)' = <<offered[t], done[t], TRUE, FALSE, NoWorker, taken[t]>>

(* Recovery lets go of many pieces in one step.                             *)
Next ==
  \A t \in Tasks :
    \/ UNCHANGED Job(t)
    \/ Offer(t) \/ Take(t) \/ LetGo(t) \/ Finish(t) \/ GiveUp(t)

Spec == Init /\ [][Next]_workVars

(* So every piece offered was finished, was the task's last, or is open.    *)
Balanced ==
  \A t \in Tasks :
    offered[t] = done[t] + (IF failed[t] THEN 1 ELSE 0) + (IF open[t] THEN 1 ELSE 0)
==============================================================================
