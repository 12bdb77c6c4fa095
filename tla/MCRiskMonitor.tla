---------------------------- MODULE MCRiskMonitor ----------------------------
EXTENDS RiskMonitor

CONSTANTS h1, d1, d2

MCHandlers == {h1}
MCData == {d1, d2}

(* Scores chosen so that consecutive polls can differ by -10, -5, 0, +5  *)
(* and +10: every branch of runPoll's alert ladder, two risk levels.    *)
MCAssess == [a \in MCData |-> [b \in MCData |->
               CASE a = d1 /\ b = d1 -> 50
                 [] a = d1 /\ b = d2 -> 45
                 [] OTHER            -> 40]]
=============================================================================
