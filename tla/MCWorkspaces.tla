---------------------------- MODULE MCWorkspaces ----------------------------
EXTENDS Workspaces, TLC

CONSTANTS w1, w2, v1, v2

Request(id, role, purpose, revision) ==
  [id |-> id, role |-> role, purpose |-> purpose, revision |-> revision]

(* Two ids for one purpose; one id for two purposes and two revisions.      *)
MCRequests == {Request(w1, "PLANNER", "PLANNING", v1),
               Request(w1, "IMPLEMENTER", "IMPLEMENTATION", v2),
               Request(w2, "PLANNER", "PLANNING", v1)}

Symmetry == Permutations(Callers)
==============================================================================
