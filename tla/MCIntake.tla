------------------------------ MODULE MCIntake ------------------------------
EXTENDS Intake, TLC

CONSTANTS q1, s1, s2, e1, e2, x, y

Request(id, form, enqueue) == [id |-> id, form |-> form, enqueue |-> enqueue]
Candidate(s, e, content) == [source |-> s, trigger |-> e, content |-> content]

(* One request of its own, and two under the key of an issue: one that is   *)
(* what ingest would ask, one that is not.                                  *)
MCRequests == {Request(q1, "SYNTHETIC", FALSE), Request(s1, "ISSUE", TRUE),
               Request(s1, "SYNTHETIC", FALSE)}

(* An issue, the same one edited, and a second that shares its trigger or   *)
(* has one of its own.                                                      *)
MCCandidates == {Candidate(s1, e1, x), Candidate(s1, e1, y),
                 Candidate(s2, e1, x), Candidate(s2, e2, x)}

Symmetry == Permutations(Callers)
==============================================================================
