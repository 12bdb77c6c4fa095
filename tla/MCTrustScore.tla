----------------------------- MODULE MCTrustScore -----------------------------
EXTENDS TrustScore

CONSTANTS p1, p2, m1, m2

MCProjects == {p1, p2}
MCMilestones == {m1, m2}

(* Goals of 2 with contributions of 2 up to 4: ratios 0, 1/4 ... 2, so   *)
(* the bonus runs from 0 past 200 and the sum can pass the clamp at 1000. *)
MCGoal == [p \in MCProjects |-> 2]
=============================================================================
