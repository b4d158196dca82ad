---------------------------- MODULE ServiceShape ----------------------------
(***************************************************************************)
(* How a service is described to StageRun, and the kinds of ledger         *)
(* the repository's stores come in.  The modules *Services build one       *)
(* record per service from these.                                          *)
(***************************************************************************)
EXTENDS Naturals, Sequences

CONSTANT MaxAttempts    \* plan.limits.max_attempts; the models allow 1..3

\* A started row stays started until an explicit recover takes it over.
Recoverable == [attempts |-> MaxAttempts, takeover |-> FALSE, exhausts |-> FALSE, catches |-> {},
                shared |-> FALSE, fenced |-> TRUE]

\* A claim of a started row takes it over by itself.
SelfRecovering == [Recoverable EXCEPT !.takeover = TRUE]

\* The same, but the completion compares the attempt only in a read of the row
\* before its update, not in the update, and the update counts no rows.
LooselyFenced == [SelfRecovering EXCEPT !.fenced = FALSE]

\* A started row whose call died stays started for good: the claim answers
\* "recovery required" and nothing in the code recovers it.
Once == [Recoverable EXCEPT !.attempts = 1]

\* Rows also end as timed out or failed: a recover after the last attempt
\* closes the row, and the service closes it when its work raises (`ends`).
Closing(ends) == [Recoverable EXCEPT !.exhausts = TRUE, !.catches = ends]

\* A started row is handed to whoever asks, and every update of it compares it
\* with what the caller last saw; a stage that fails ends the row (`ends`).
Shared(ends) == [Once EXCEPT !.shared = TRUE, !.catches = ends]

\* The steps a service repeats for each of n stages, queries, ...
Repeat(n, steps) == [i \in 1..(n * Len(steps)) |-> steps[((i - 1) % Len(steps)) + 1]]

Service(ledger, prepare, execute, recover, promises) ==
    [attempts |-> ledger.attempts, takeover |-> ledger.takeover, exhausts |-> ledger.exhausts,
     catches |-> ledger.catches, shared |-> ledger.shared, fenced |-> ledger.fenced,
     prepare |-> prepare, execute |-> execute, recover |-> recover, promises |-> promises]
=============================================================================
