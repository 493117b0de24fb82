----------------------------- MODULE QueueRules -----------------------------
(***************************************************************************)
(* The row of a task in task_queue and what PostgresTaskQueue does to it.   *)
(*                                                                         *)
(* The code compares available_at and lease_expires_at with a `now` that    *)
(* the caller took before its transaction ran.  Here a row stores both as   *)
(* ticks relative to the present (`due` until available_at, `lease` until   *)
(* lease_expires_at, negative when past), and a caller whose `now` is `lag` *)
(* ticks old passes `lag`.  Below -MaxLag no caller can tell two instants   *)
(* apart, so both stop there.                                               *)
(***************************************************************************)
EXTENDS Integers

CONSTANTS
  Workers,       \* worker ids
  NoWorker,      \* claimed_by IS NULL
  MaxAttempts,   \* max_attempts (3 in the schema and in the memory queue)
  LeaseTicks,    \* the lease a claim or heartbeat takes (300 s by default)
  BackoffUnit,   \* the first retry delay (30 s)
  BackoffCap,    \* the longest retry delay (900 s)
  MaxLag         \* bound: how old a caller's `now` can be at its commit

ASSUME QueueAssumption ==
  /\ NoWorker \notin Workers
  /\ MaxAttempts \in Nat \ {0}
  /\ LeaseTicks \in Nat \ {0}
  /\ BackoffUnit \in Nat /\ BackoffCap \in Nat
  /\ MaxLag \in Nat

Rows == [state : {"ABSENT", "READY", "LEASED"}, attempt : 0..MaxAttempts,
         worker : Workers \cup {NoWorker}, due : Int, lease : Int]

Unleased(state, attempt, due) ==
  [state |-> state, attempt |-> attempt, worker |-> NoWorker,
   due |-> due, lease |-> 0]

NoRow == Unleased("ABSENT", 0, 0)
FreshRow(lag) == Unleased("READY", 0, -lag)

Claimable(row, lag) ==
  row.state = "READY" /\ row.due + lag <= 0 /\ row.attempt < MaxAttempts

ClaimedBy(row, w, lag) ==
  [state |-> "LEASED", attempt |-> row.attempt + 1, worker |-> w,
   due |-> 0, lease |-> LeaseTicks - lag]

(* What heartbeat, complete and fail ask of the row.                        *)
OwnedBy(row, w, lag) ==
  row.state = "LEASED" /\ row.worker = w /\ row.lease + lag > 0

ExtendedCounting(row, lag) ==                                \* mutant of Extended
  [row EXCEPT !.lease = LeaseTicks - lag, !.attempt = @ + 1]

Extended(row, lag) == [row EXCEPT !.lease = LeaseTicks - lag]

ExhaustedLate(row) == row.attempt > MaxAttempts          \* mutants of Exhausted
ExhaustedEarly(row) == row.attempt + 1 >= MaxAttempts

Exhausted(row) == row.attempt >= MaxAttempts

Delay(attempt) ==
  LET delay == BackoffUnit * 2^(attempt - 1)
  IN  IF delay < BackoffCap THEN delay ELSE BackoffCap

(* A consequence of QueueAssumption, by an induction on the attempt.        *)
ASSUME DelayAssumption == \A n \in 1..MaxAttempts : Delay(n) \in Nat

AfterFailure(row, lag) ==
  IF Exhausted(row)
  THEN NoRow
  ELSE Unleased("READY", row.attempt, Delay(row.attempt) - lag)

Expired(row, lag) == row.state = "LEASED" /\ row.lease + lag <= 0

AlwaysReadyAgain(row, lag) ==                             \* mutant of AfterExpiry
  Unleased("READY", row.attempt, -lag)

AfterExpiry(row, lag) ==
  IF Exhausted(row) THEN NoRow ELSE Unleased("READY", row.attempt, -lag)

OneTickLess(n) == IF n > -MaxLag THEN n - 1 ELSE n

Aged(row) ==
  CASE row.state = "READY"  -> [row EXCEPT !.due = OneTickLess(@)]
    [] row.state = "LEASED" -> [row EXCEPT !.lease = OneTickLess(@)]
    [] OTHER                -> row
==============================================================================
