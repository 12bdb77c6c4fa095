---------------------------- MODULE MCEmailOutbox ----------------------------
(***************************************************************************)
(* Model-checking instance of EmailOutbox: two emails, MAX_ATTEMPTS as in *)
(* the code, a batch of one so that the take limit leaves rows behind.    *)
(***************************************************************************)
EXTENDS EmailOutbox, TLC

CONSTANTS e1, e2, r1, r2

MCEmails == {e1, e2}
OneRun == {r1}
TwoRuns == {r1, r2}
AllOutcomes == {"ok", "rejected", "timeout"}
NoTimeouts == {"ok", "rejected"}

EmailSymmetry == Permutations(MCEmails)
=============================================================================
