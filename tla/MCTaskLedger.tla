---------------------------- MODULE MCTaskLedger ----------------------------
EXTENDS TaskLedger, TLC

CONSTANTS t1, t2

MCRisk == [t \in Tasks |-> IF t = t1 THEN "R1" ELSE "R3"]
MCGoverned == [t \in Tasks |-> t = t1]
MCPriority == [t \in Tasks |-> IF t = t1 THEN 0 ELSE 1]

(* The tasks V as one call of transition has left them, validated, with     *)
(* their first rows still to be claimed, and the others as they are at first.*)
Started(V) ==
  LET received(t) == NewTask(Risk[t], Governed[t])
      validated(t) == Transitioned(received(t), "VALIDATED")
      story(t) == <<Entry("TASK_RECEIVED", received(t)),
                    Entry("TASK_TRANSITIONED", validated(t))>>
  IN  /\ task = [t \in Tasks |-> IF t \in V THEN validated(t) ELSE received(t)]
      /\ log = [t \in Tasks |-> SubSeq(story(t), 1, IF t \in V THEN 2 ELSE 1)]
      /\ queue = [t \in Tasks |-> FreshRow(0)]
      /\ results = [r \in ResultIds |-> NoResult]
      /\ fuse = FALSE
      /\ seen = [c \in Callers |-> Idle]
      /\ granted = [t \in Tasks |-> {}]
      /\ claims = [t \in Tasks |-> 0]
      /\ enqueues = [t \in Tasks |-> 1]
      /\ untold = [t \in Tasks |-> {}]

ValidatedSpec == Started(Tasks) /\ [][Next]_vars

(* The stream of t2 has reached MaxEvents = 2, that of t1 has room for one   *)
(* more call that recovery has to contend with.                             *)
DrainSpec == Started({t2}) /\ [][Next]_vars /\ Fairness

Symmetry == Permutations(Workers) \cup Permutations(Callers)
==============================================================================
