--------------------------- MODULE MCProjectLaunch ---------------------------
(***************************************************************************)
(* Model-checking instance of ProjectLaunch: two contributors, two        *)
(* project ids, balances small enough that a goal can be met exactly,     *)
(* missed by one, and exceeded.                                           *)
(***************************************************************************)
EXTENDS ProjectLaunch, TLC

CONSTANTS c1, c2

MCContributors == {c1, c2}

ContributorSymmetry == Permutations(MCContributors)
=============================================================================
