----------------------------- MODULE MCTaskSink -----------------------------
(* Small instances of TaskSink for TLC. *)
EXTENDS TaskSink, TLC

CONSTANTS m0, m1, m2, m3, p1, p2

\* One queue.  p1 sends m1 and m2 and p2 sends m3, all with one key; m3 has the
\* record id of m0, which p1 has stored before.
TwoSinks == [m \in Msg |-> IF m = m3 THEN p2 ELSE p1]
OneQueue == [p \in Sink |-> "q"]
OneKey == [m \in Msg |-> IF m = m0 THEN NoKey ELSE "k"]
IdOfM0Again == [m \in Msg |-> IF m = m3 THEN m0 ELSE m]
=============================================================================
