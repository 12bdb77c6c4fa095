-------------------------- MODULE MCDashboardClaim --------------------------
(***************************************************************************)
(* The portfolio of the page's mock data, in units of 200: 800, 400 and   *)
(* 1400 claimable, 200 not claimable; the total is 2800.                   *)
(***************************************************************************)
EXTENDS DashboardClaim, TLC

CONSTANTS i1, i2, i3, i4, c1, c2, c3

MCIds == {i1, i2, i3, i4}
MCInitial == (i1 :> [claimable |-> 4, canClaim |-> TRUE]
              @@ i2 :> [claimable |-> 2, canClaim |-> TRUE]
              @@ i3 :> [claimable |-> 1, canClaim |-> FALSE]
              @@ i4 :> [claimable |-> 7, canClaim |-> TRUE])
MCClicks == {c1, c2, c3}
AllResults == {"ok", "http_error", "network_error"}
NoNetworkErrors == {"ok", "http_error"}

ClickSymmetry == Permutations(MCClicks)
=============================================================================
