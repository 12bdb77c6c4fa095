--------------------------- MODULE FundingOutcome ---------------------------
(***************************************************************************)
(* What the ProjectLaunch lifecycle resolver and refund engine promise,   *)
(* with ledger time, idempotency flags, token balances and events left    *)
(* out.  A project is opened, takes pledges while active, is decided      *)
(* exactly once (Completed when the pledges reach the goal, Failed        *)
(* otherwise) or cancelled, and each pledger of a failed project is       *)
(* refunded at most once.                                                 *)
(***************************************************************************)
EXTENDS Naturals, FiniteSets, Functions

CONSTANTS ProjectIds, Contributors, Goals

VARIABLES phase,     \* ProjectIds -> {"Absent","Active","Completed","Failed","Cancelled"}
          goalOf,    \* ProjectIds -> Goals
          pledged,   \* ProjectIds -> [Contributors -> Nat]
          refunded   \* set of <<project, contributor>> pairs paid back

avars == <<phase, goalOf, pledged, refunded>>

Raised(p) == SumFunction(pledged[p])

AInit ==
    /\ phase = [p \in ProjectIds |-> "Absent"]
    /\ goalOf \in [ProjectIds -> Goals]
    /\ pledged = [p \in ProjectIds |-> [c \in Contributors |-> 0]]
    /\ refunded = {}

Open(p, g) ==
    /\ phase[p] = "Absent"
    /\ phase' = [phase EXCEPT ![p] = "Active"]
    /\ goalOf' = [goalOf EXCEPT ![p] = g]
    /\ UNCHANGED <<pledged, refunded>>

Pledge(p, c) ==
    /\ phase[p] = "Active"
    \* some positive amount is added to the pledger's running total
    /\ pledged'[p][c] > pledged[p][c]
    /\ pledged' = [pledged EXCEPT ![p][c] = pledged'[p][c]]
    /\ UNCHANGED <<phase, goalOf, refunded>>

Decide(p) ==
    /\ phase[p] = "Active"
    /\ phase' = [phase EXCEPT ![p] = IF Raised(p) >= goalOf[p]
                                      THEN "Completed" ELSE "Failed"]
    /\ UNCHANGED <<goalOf, pledged, refunded>>

Cancel(p) ==
    /\ phase[p] = "Active"
    /\ phase' = [phase EXCEPT ![p] = "Cancelled"]
    /\ UNCHANGED <<goalOf, pledged, refunded>>

Refund(p, c) ==
    /\ phase[p] = "Failed"
    /\ pledged[p][c] > 0
    /\ <<p, c>> \notin refunded
    /\ refunded' = refunded \cup {<<p, c>>}
    /\ UNCHANGED <<phase, goalOf, pledged>>

ANext ==
    \/ \E p \in ProjectIds, g \in Goals : Open(p, g)
    \/ \E p \in ProjectIds, c \in Contributors : Pledge(p, c) \/ Refund(p, c)
    \/ \E p \in ProjectIds : Decide(p) \/ Cancel(p)

ASpec == AInit /\ [][ANext]_avars
=============================================================================
