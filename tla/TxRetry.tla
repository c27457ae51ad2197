------------------------------ MODULE TxRetry ------------------------------
(***************************************************************************)
(* The retry of BEGIN..COMMIT transactions, shared by push_tasks,          *)
(* fetch_next and fetch_next_shared.                                       *)
(***************************************************************************)
EXTENDS Integers

CONSTANT MaxTxRetries   \* MAX_TX_RETRIES

ASSUME RetriesAssumption == MaxTxRetries \in Nat \ {0}

\* The errors of one response, by result slot.  (There is one slot for each
\* statement; with two, either error may come first.)
Slot == 0 .. 1
ErrorKind == {"conflict", "not_executed", "real"}
NoErrors == <<>>

\* How the server reports a transaction that failed with `kind`: one slot holds
\* the error, and any of the others say that they were not executed.
Failures(kind) ==
    UNION {{[s \in S |-> IF s = x THEN kind ELSE "not_executed"] : x \in S}
           : S \in SUBSET Slot}

\* Mutant: the error in the lowest slot decides.
ClassifyLowestSlot(errors) ==
    IF DOMAIN errors = {} THEN "ok"
    ELSE LET low == CHOOSE s \in DOMAIN errors :
                      \A x \in DOMAIN errors : s <= x
         IN IF errors[low] = "conflict" THEN "retry" ELSE "fail"

\* classify_tx_errors: a real error wins over a conflict, and a conflict over
\* statements that were not executed.
Classify(errors) ==
    LET kinds == {errors[s] : s \in DOMAIN errors}
    IN IF kinds = {} THEN "ok"
       ELSE IF "conflict" \in kinds /\ "real" \notin kinds THEN "retry"
       ELSE "fail"

\* Mutant: conflicts are retried without a bound.
VerdictUnbounded(errors, tries) ==
    LET c == Classify(errors) IN IF c = "retry" THEN "again" ELSE c

\* What the retry loop does with the answer to its attempt number `tries`: it
\* returns Ok or Err, or goes round again.
Verdict(errors, tries) ==
    LET c == Classify(errors)
    IN IF c = "retry" THEN IF tries < MaxTxRetries THEN "again" ELSE "fail"
       ELSE c

=============================================================================
