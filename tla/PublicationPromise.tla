-------------------------- MODULE PublicationPromise --------------------------
(***************************************************************************)
(* What publishing promises of one candidate, without calls, transactions,  *)
(* refs or pull requests: it is chosen once, for its tests have passed, and *)
(* approved, and announced, and only then shown to anybody; and in the end  *)
(* it is acknowledged once.  Nothing of this is ever taken back.            *)
(***************************************************************************)
EXTENDS Naturals

CONSTANTS Candidates, Nothing

VARIABLES
  candidate,   \* the verified candidate, or Nothing
  approved,    \* has it been approved?
  announced,   \* is it on record that it will be shown?
  shown,       \* may anybody have seen it?
  receipt      \* what it was acknowledged with, or 0

promise == <<candidate, approved, announced, shown, receipt>>

Init == promise = <<Nothing, FALSE, FALSE, FALSE, 0>>

Choose ==
  /\ candidate = Nothing
  /\ \E p \in Candidates : promise' = <<p, FALSE, FALSE, FALSE, 0>>

Approve ==
  /\ candidate # Nothing /\ ~approved
  /\ promise' = <<candidate, TRUE, FALSE, FALSE, 0>>

Announce ==
  /\ approved /\ ~announced
  /\ promise' = <<candidate, TRUE, TRUE, FALSE, 0>>

Show ==
  /\ announced /\ ~shown
  /\ promise' = <<candidate, TRUE, TRUE, TRUE, 0>>

Acknowledge ==
  /\ shown /\ receipt = 0
  /\ receipt' \in Nat \ {0}
  /\ promise' = <<candidate, TRUE, TRUE, TRUE, receipt'>>

Next == Choose \/ Approve \/ Announce \/ Show \/ Acknowledge

Spec == Init /\ [][Next]_promise
==============================================================================
