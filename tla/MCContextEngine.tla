-------------------------- MODULE MCContextEngine --------------------------
(* Small instances of ContextEngine for TLC.                                *)
EXTENDS ContextEngine

\* The values of test_metric_adjustment and test_rollback, one below the cap
\* and one negative.
Positive == {100, 105, 120, 60}
MCValues == Positive \cup {-100}

\* The default frame, one without a confidence, one that is too risky, one
\* that forbids tuning and one below min_confidence.
Safe == [risk |-> "safe", confidence |-> 70, allow |-> Absent]
MCFrames == {Safe,
             [Safe EXCEPT !.confidence = Absent],
             [Safe EXCEPT !.risk = "block"],
             [Safe EXCEPT !.allow = FALSE],
             [Safe EXCEPT !.confidence = 65, !.allow = TRUE]}
=============================================================================
