---------------------------- MODULE MemoryQueue ----------------------------
(***************************************************************************)
(* What InMemoryTaskQueue does to its record of a task.  The services'      *)
(* tests run on it in place of the table, so what they show of the table is *)
(* what the two do alike.                                                   *)
(*                                                                         *)
(* The code differs from PostgresTaskQueue: a record has no state and no    *)
(* max_attempts, claim asks for no attempt to be left, and recovery decides *)
(* record by record where the table's is two statements.                    *)
(***************************************************************************)
EXTENDS QueueRules

(* A record holds what a row holds but for its state; times are as in       *)
(* QueueRules, where a leased row's available_at is not told, for nothing   *)
(* reads it.                                                                *)
NoRecord == [held |-> FALSE]
Record(worker, attempt, due, lease) ==
  [held |-> TRUE, worker |-> worker, attempt |-> attempt, due |-> due, lease |-> lease]

AsRecord(row) ==
  IF row.state = "ABSENT" THEN NoRecord
  ELSE Record(row.worker, row.attempt, row.due, row.lease)

MemoryEnqueued(lag) == Record(NoWorker, 0, -lag, 0)

MemoryClaimable(r, lag) == r.held /\ r.due + lag <= 0 /\ r.worker = NoWorker

MemoryClaimed(r, w, lag) == Record(w, r.attempt + 1, 0, LeaseTicks - lag)

MemoryOwned(r, w, lag) == r.held /\ r.worker = w /\ r.lease + lag > 0

MemoryExtended(r, lag) == Record(r.worker, r.attempt, r.due, LeaseTicks - lag)

MemoryFailed(r, lag) ==
  IF r.attempt >= MaxAttempts THEN NoRecord
  ELSE Record(NoWorker, r.attempt, Delay(r.attempt) - lag, 0)

MemoryExpired(r, lag) == r.held /\ r.worker # NoWorker /\ r.lease + lag <= 0

MemoryRecovered(r, lag) ==
  IF r.attempt >= MaxAttempts THEN NoRecord ELSE Record(NoWorker, r.attempt, -lag, 0)

------------------------------------------------------------------------------
(* On a row and the record of the same task every call is accepted by both  *)
(* queues or by neither, and leaves them alike.                             *)
Alike(row) ==
  LET r == AsRecord(row)
  IN  \A lag \in 0..MaxLag :
        /\ AsRecord(FreshRow(lag)) = MemoryEnqueued(lag)
        /\ Claimable(row, lag) <=> MemoryClaimable(r, lag)
        /\ Expired(row, lag) <=> MemoryExpired(r, lag)
        /\ Expired(row, lag) => AsRecord(AfterExpiry(row, lag)) = MemoryRecovered(r, lag)
        /\ \A w \in Workers :
             /\ OwnedBy(row, w, lag) <=> MemoryOwned(r, w, lag)
             /\ Claimable(row, lag) =>
                  AsRecord(ClaimedBy(row, w, lag)) = MemoryClaimed(r, w, lag)
             /\ OwnedBy(row, w, lag) =>
                  /\ AsRecord(Extended(row, lag)) = MemoryExtended(r, lag)
                  /\ AsRecord(AfterFailure(row, lag)) = MemoryFailed(r, lag)
==============================================================================
