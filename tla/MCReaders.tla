----------------------------- MODULE MCReaders -----------------------------
EXTENDS Readers

TwoOfA == [j \in Job |-> IF j = 3 THEN "b" ELSE "a"]
TwoTimes == [j \in Job |-> IF j = 3 THEN 2 ELSE 1]
TwoWorkA == [w \in Worker |-> IF w = 3 THEN "b" ELSE "a"]
=============================================================================
