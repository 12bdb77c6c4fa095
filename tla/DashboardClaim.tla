--------------------------- MODULE DashboardClaim ---------------------------
(***************************************************************************)
(* DashboardPage.handleClaim: the claim button of the investment table     *)
(* calls it with the investment id and the claimable amount it rendered.   *)
(* The handler waits 1.5 s, applies the claim to the portfolio with a      *)
(* functional state update, shows a success toast, then POSTs a            *)
(* notification; if that fetch rejects, the catch shows "Failed to claim   *)
(* returns. Please try again."  Each click is its own async invocation;   *)
(* nothing stops a second click while the first is waiting.                *)
(***************************************************************************)
EXTENDS Integers, Sequences, Functions

CONSTANTS
    Ids,          \* investment ids in the portfolio
    Initial,      \* Ids -> [claimable, canClaim]: the page's initial data
    Clicks,       \* click events (each handles one handleClaim invocation)
    FetchResults  \* what fetch does: "ok", "http_error" (resolves), "network_error" (rejects)

VARIABLES
    inv,       \* Ids -> [claimable, canClaim]: portfolioData.investments
    total,     \* portfolioData.totalClaimableReturns
    click,     \* Clicks -> the handleClaim invocation of that click
    reported   \* Clicks -> the toasts it showed, in order

vars == <<inv, total, click, reported>>

ClaimableSum(f) == SumFunction([i \in Ids |-> f[i].claimable])

NoClick == [pc |-> "unused", id |-> "none", amount |-> 0]

Init ==
    /\ inv = Initial
    /\ total = ClaimableSum(Initial)
    /\ click = [c \in Clicks |-> NoClick]
    /\ reported = [c \in Clicks |-> <<>>]

(***************************************************************************)
(* A click on the claim button of an investment the table shows as        *)
(* claimable, with the claimableReturns value it rendered; handleClaim     *)
(* starts and awaits its 1.5 s timer.                                      *)
(***************************************************************************)
Click(c, i) ==
    /\ click[c].pc = "unused"
    /\ inv[i].canClaim
    /\ click' = [click EXCEPT ![c] = [pc |-> "waiting", id |-> i, amount |-> inv[i].claimable]]
    /\ UNCHANGED <<inv, total, reported>>

\* Fault variant: the investment's returns are reduced by the amount
\* instead of being set to zero.
ApplyClaim_SubtractFromInvestment(c) ==
    LET i == click[c].id IN
    /\ click[c].pc = "waiting"
    /\ inv' = [inv EXCEPT ![i] = [claimable |-> @.claimable - click[c].amount, canClaim |-> FALSE]]
    /\ total' = total - click[c].amount
    /\ click' = [click EXCEPT ![c].pc = "posting"]
    /\ reported' = [reported EXCEPT ![c] = Append(@, "success")]

ApplyClaim(c) ==
    LET i == click[c].id IN
    /\ click[c].pc = "waiting"
    /\ inv' = [inv EXCEPT ![i] = [claimable |-> 0, canClaim |-> FALSE]]
    /\ total' = total - click[c].amount
    /\ click' = [click EXCEPT ![c].pc = "posting"]
    /\ reported' = [reported EXCEPT ![c] = Append(@, "success")]

(***************************************************************************)
(* The notification POST settles.  fetch resolves on any HTTP status and  *)
(* rejects only when the request fails; a rejection lands in the catch,   *)
(* which shows the failure toast.                                          *)
(***************************************************************************)
PostNotification(c) ==
    /\ click[c].pc = "posting"
    /\ \E res \in FetchResults :
         \/ /\ res # "network_error"
            /\ UNCHANGED reported
         \/ /\ res = "network_error"
            /\ reported' = [reported EXCEPT ![c] = Append(@, "failure")]
    /\ click' = [click EXCEPT ![c].pc = "done"]
    /\ UNCHANGED <<inv, total>>

Next ==
    \/ \E c \in Clicks, i \in Ids : Click(c, i)
    \/ \E c \in Clicks : ApplyClaim(c) \/ PostNotification(c)

Spec == Init /\ [][Next]_vars

-----------------------------------------------------------------------------
(***************************************************************************)
(* Properties                                                              *)
(***************************************************************************)

Toasts == {"success", "failure"}

TypeOK ==
    /\ inv \in [Ids -> [claimable : Nat, canClaim : BOOLEAN]]
    /\ total \in Int
    /\ click \in [Clicks -> [pc : {"unused", "waiting", "posting", "done"},
                             id : Ids \cup {"none"}, amount : Nat]]
    /\ \A c \in Clicks : reported[c] \in Seq(Toasts) /\ Len(reported[c]) <= 2

TotalMatchesInvestments == total = ClaimableSum(inv)

(***************************************************************************)
(* A click whose claim was applied never ends by telling the user that    *)
(* the claim failed and to try again: handleClaim's catch message is only *)
(* true if nothing was claimed.                                           *)
(***************************************************************************)
FailureOnlyIfUnclaimed ==
    \A c \in Clicks :
        (reported[c] # <<>> /\ reported[c][Len(reported[c])] = "failure")
            => click[c].pc \in {"unused", "waiting"}

=============================================================================
