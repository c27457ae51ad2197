--------------------------- MODULE MCSharedDriver ---------------------------
EXTENDS SharedDriver

CONSTANTS a, b, t1, t2, t3, t4, t5

\* One task for queue a and two for queue b, or two for a and three for b, one of
\* which cannot be read.
TwoOfB == [t \in Task |-> IF t = t1 THEN a ELSE b]
ThreeOfB == [t \in Task |-> IF t \in {t1, t4} THEN a ELSE b]

=============================================================================
