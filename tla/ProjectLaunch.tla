---------------------------- MODULE ProjectLaunch ----------------------------
(***************************************************************************)
(* The ProjectLaunch contract's lifecycle resolver (mark_project_failed)  *)
(* and refund engine (refund_contributor), together with the parts of the *)
(* contract they depend on: project creation, contribution intake, the    *)
(* RefundProcessed and ProjectFailureProcessed flags, the token balances  *)
(* of the contributors and of the contract, and the event stream.         *)
(*                                                                         *)
(* Every contract call is one ledger transaction: it either commits all   *)
(* its writes or aborts with no effect.  An aborted call (any error, a    *)
(* token transfer the token contract rejects) is therefore a stuttering   *)
(* step; each action below is the committed outcome of one call, and its  *)
(* guard is "every precondition of the call passes, in the code's order". *)
(***************************************************************************)
EXTENDS Naturals, FiniteSets, Sequences, Functions

CONSTANTS
    MaxProjects,      \* project ids 0 .. MaxProjects-1 are assignable
    Contributors,     \* addresses that hold the project token
    InitialBalance,   \* token balance each contributor starts with
    MinContribution,  \* MIN_CONTRIBUTION, in model token units
    Goals,            \* funding goals a creator may choose (all >= MIN_FUNDING_GOAL)
    MinDuration,      \* shortest allowed deadline distance from creation
    MaxDuration,      \* longest allowed deadline distance from creation
    MaxTime           \* bound on ledger time (the last timestamp explored)

ASSUME /\ MaxProjects \in Nat \ {0}
       /\ InitialBalance \in Nat
       /\ MinContribution \in Nat \ {0}
       /\ Goals \subseteq Nat \ {0}
       /\ 1 <= MinDuration /\ MinDuration <= MaxDuration
       \* a project created at time 0 can reach a time past its deadline
       /\ MaxDuration < MaxTime

VARIABLES
    now,              \* ledger timestamp
    nextId,           \* next project id the contract will assign
    status,           \* ProjectIds -> Status ("Absent" = no Project entry)
    goal,             \* ProjectIds -> funding_goal
    deadline,         \* ProjectIds -> deadline
    totalRaised,      \* ProjectIds -> total_raised
    contribution,     \* ProjectIds -> [Contributors -> ContributionAmount]
    refundProcessed,  \* RefundProcessed keys present: <<project, contributor>>
    failureProcessed, \* ProjectFailureProcessed keys present: project ids
    balance,          \* Contributors -> token balance
    contractBalance,  \* the contract's own token balance (shared by all projects)
    events            \* published contract events, oldest first

vars == <<now, nextId, status, goal, deadline, totalRaised, contribution,
          refundProcessed, failureProcessed, balance, contractBalance, events>>

ProjectIds == 0 .. MaxProjects - 1
Times == 0 .. MaxTime
Statuses == {"Absent", "Active", "Completed", "Failed", "Cancelled"}

ProjectFailedEvent(p) == [topic |-> "PROJECT_FAILED", project |-> p]
RefundIssuedEvent(p, c, a) ==
    [topic |-> "REFUND_ISSUED", project |-> p, contributor |-> c, amount |-> a]

Init ==
    /\ now = 0
    /\ nextId = 0
    /\ status = [p \in ProjectIds |-> "Absent"]
    /\ goal = [p \in ProjectIds |-> CHOOSE g \in Goals : TRUE]
    /\ deadline = [p \in ProjectIds |-> 0]
    /\ totalRaised = [p \in ProjectIds |-> 0]
    /\ contribution = [p \in ProjectIds |-> [c \in Contributors |-> 0]]
    /\ refundProcessed = {}
    /\ failureProcessed = {}
    /\ balance = [c \in Contributors |-> InitialBalance]
    /\ contractBalance = 0
    /\ events = <<>>

(***************************************************************************)
(* create_project: validates the goal and the deadline window and stores  *)
(* an Active project under the next id (creator and token are not         *)
(* modelled: one token, and nothing here depends on the creator).         *)
(***************************************************************************)
CreateProject(g, d) ==
    /\ nextId < MaxProjects
    /\ g \in Goals
    /\ d \in now + MinDuration .. now + MaxDuration
    /\ status' = [status EXCEPT ![nextId] = "Active"]
    /\ goal' = [goal EXCEPT ![nextId] = g]
    /\ deadline' = [deadline EXCEPT ![nextId] = d]
    /\ nextId' = nextId + 1
    /\ UNCHANGED <<now, totalRaised, contribution, refundProcessed,
                   failureProcessed, balance, contractBalance, events>>

\* Fault variants of contribute: the wallet-balance check dropped, and the
\* contribution overwritten instead of accumulated.
Contribute_NoBalanceCheck(p, c, a) ==
    /\ status[p] = "Active"
    /\ now <= deadline[p]
    /\ a >= MinContribution
    /\ balance' = [balance EXCEPT ![c] = @ - a]
    /\ contractBalance' = contractBalance + a
    /\ contribution' = [contribution EXCEPT ![p][c] = @ + a]
    /\ totalRaised' = [totalRaised EXCEPT ![p] = @ + a]
    /\ UNCHANGED <<now, nextId, status, goal, deadline, refundProcessed,
                   failureProcessed, events>>

Contribute_Overwrites(p, c, a) ==
    /\ status[p] = "Active"
    /\ now <= deadline[p]
    /\ a >= MinContribution
    /\ balance[c] >= a
    /\ balance' = [balance EXCEPT ![c] = @ - a]
    /\ contractBalance' = contractBalance + a
    /\ contribution' = [contribution EXCEPT ![p][c] = a]
    /\ totalRaised' = [totalRaised EXCEPT ![p] = @ + a]
    /\ UNCHANGED <<now, nextId, status, goal, deadline, refundProcessed,
                   failureProcessed, events>>

(***************************************************************************)
(* contribute: rejected unless the project is Active and its deadline has *)
(* not passed and the amount is at least MIN_CONTRIBUTION; moves the      *)
(* tokens from the contributor to the contract and adds the amount both   *)
(* to the contributor's ContributionAmount and to total_raised.           *)
(***************************************************************************)
Contribute(p, c, a) ==
    /\ status[p] = "Active"
    /\ now <= deadline[p]
    /\ a >= MinContribution
    /\ balance[c] >= a
    /\ balance' = [balance EXCEPT ![c] = @ - a]
    /\ contractBalance' = contractBalance + a
    /\ contribution' = [contribution EXCEPT ![p][c] = @ + a]
    /\ totalRaised' = [totalRaised EXCEPT ![p] = @ + a]
    /\ UNCHANGED <<now, nextId, status, goal, deadline, refundProcessed,
                   failureProcessed, events>>

\* Fault variant: only the ProjectFailureProcessed flag guards resolution.
MarkFailedError_FlagOnly(p) ==
    CASE status[p] = "Absent"          -> "ProjectNotFound"
      [] now <= deadline[p]            -> "InvalidInput"
      [] p \in failureProcessed        -> "InvalidProjectStatus"
      [] OTHER                         -> "Ok"

(***************************************************************************)
(* The error mark_project_failed returns, preconditions in the order the  *)
(* code checks them; "Ok" when the call goes on to commit.                *)
(***************************************************************************)
MarkFailedError(p) ==
    CASE status[p] = "Absent"                                -> "ProjectNotFound"
      [] now <= deadline[p]                                  -> "InvalidInput"
      [] p \in failureProcessed \/ status[p] # "Active"      -> "InvalidProjectStatus"
      [] OTHER                                               -> "Ok"

\* Fault variants of mark_project_failed: success needs strictly more than
\* the goal; and a funded project is rejected instead of marked Completed.
MarkProjectFailed_StrictGoal(p) ==
    /\ MarkFailedError(p) = "Ok"
    /\ \/ /\ totalRaised[p] > goal[p]
          /\ status' = [status EXCEPT ![p] = "Completed"]
          /\ UNCHANGED events
       \/ /\ totalRaised[p] <= goal[p]
          /\ status' = [status EXCEPT ![p] = "Failed"]
          /\ events' = Append(events, ProjectFailedEvent(p))
    /\ failureProcessed' = failureProcessed \cup {p}
    /\ UNCHANGED <<now, nextId, goal, deadline, totalRaised, contribution,
                   refundProcessed, balance, contractBalance>>

MarkProjectFailed_FailureOnly(p) ==
    /\ MarkFailedError(p) = "Ok"
    /\ totalRaised[p] < goal[p]
    /\ status' = [status EXCEPT ![p] = "Failed"]
    /\ events' = Append(events, ProjectFailedEvent(p))
    /\ failureProcessed' = failureProcessed \cup {p}
    /\ UNCHANGED <<now, nextId, goal, deadline, totalRaised, contribution,
                   refundProcessed, balance, contractBalance>>

(***************************************************************************)
(* mark_project_failed: after the deadline, commits Completed when        *)
(* total_raised >= funding_goal, otherwise Failed and a PROJECT_FAILED    *)
(* event; in both branches the ProjectFailureProcessed flag is set last.  *)
(***************************************************************************)
MarkProjectFailed(p) ==
    /\ MarkFailedError(p) = "Ok"
    /\ \/ /\ totalRaised[p] >= goal[p]
          /\ status' = [status EXCEPT ![p] = "Completed"]
          /\ UNCHANGED events
       \/ /\ totalRaised[p] < goal[p]
          /\ status' = [status EXCEPT ![p] = "Failed"]
          /\ events' = Append(events, ProjectFailedEvent(p))
    /\ failureProcessed' = failureProcessed \cup {p}
    /\ UNCHANGED <<now, nextId, goal, deadline, totalRaised, contribution,
                   refundProcessed, balance, contractBalance>>

\* Fault variants of the refund preconditions: the RefundProcessed check
\* dropped; refunds also allowed for Cancelled projects; and the flag
\* looked up per project instead of per (project, contributor).
RefundError_NoFlagCheck(p, c) ==
    CASE status[p] = "Absent"                -> "ProjectNotFound"
      [] status[p] # "Failed"                -> "ProjectNotActive"
      [] contribution[p][c] <= 0             -> "InvalidInput"
      [] OTHER                               -> "Ok"

RefundError_AnyClosed(p, c) ==
    CASE status[p] = "Absent"                          -> "ProjectNotFound"
      [] status[p] \notin {"Failed", "Cancelled"}      -> "ProjectNotActive"
      [] <<p, c>> \in refundProcessed                  -> "InvalidInput"
      [] contribution[p][c] <= 0                       -> "InvalidInput"
      [] OTHER                                         -> "Ok"

RefundError_ProjectKeyedFlag(p, c) ==
    CASE status[p] = "Absent"                              -> "ProjectNotFound"
      [] status[p] # "Failed"                              -> "ProjectNotActive"
      [] \E d \in Contributors : <<p, d>> \in refundProcessed -> "InvalidInput"
      [] contribution[p][c] <= 0                           -> "InvalidInput"
      [] OTHER                                             -> "Ok"

(***************************************************************************)
(* The error refund_contributor returns, in the code's order.             *)
(***************************************************************************)
RefundError(p, c) ==
    CASE status[p] = "Absent"                -> "ProjectNotFound"
      [] status[p] # "Failed"                -> "ProjectNotActive"
      [] <<p, c>> \in refundProcessed        -> "InvalidInput"
      [] contribution[p][c] <= 0             -> "InvalidInput"
      [] OTHER                               -> "Ok"

(***************************************************************************)
(* refund_contributor: transfers the recorded contribution from the       *)
(* contract to the contributor (the token contract rejects a transfer the *)
(* contract's balance cannot cover, which aborts the whole call), then    *)
(* sets RefundProcessed and emits REFUND_ISSUED.                          *)
(***************************************************************************)
RefundContributor(p, c) ==
    LET a == contribution[p][c] IN
    /\ RefundError(p, c) = "Ok"
    /\ contractBalance >= a
    /\ contractBalance' = contractBalance - a
    /\ balance' = [balance EXCEPT ![c] = @ + a]
    /\ refundProcessed' = refundProcessed \cup {<<p, c>>}
    /\ events' = Append(events, RefundIssuedEvent(p, c, a))
    /\ UNCHANGED <<now, nextId, status, goal, deadline, totalRaised,
                   contribution, failureProcessed>>

(***************************************************************************)
(* The cancellation path (outside the resolver): Active -> Cancelled.     *)
(***************************************************************************)
CancelProject(p) ==
    /\ status[p] = "Active"
    /\ status' = [status EXCEPT ![p] = "Cancelled"]
    /\ UNCHANGED <<now, nextId, goal, deadline, totalRaised, contribution,
                   refundProcessed, failureProcessed, balance,
                   contractBalance, events>>

(***************************************************************************)
(* Ledger time advances between transactions.                             *)
(***************************************************************************)
Tick ==
    /\ now < MaxTime
    /\ now' = now + 1
    /\ UNCHANGED <<nextId, status, goal, deadline, totalRaised, contribution,
                   refundProcessed, failureProcessed, balance,
                   contractBalance, events>>

Amounts == MinContribution .. InitialBalance

\* Deadlines the model lets a creator pick: inside the explored horizon, so
\* that ledger time can pass every deadline.
Deadlines == 0 .. MaxTime - 1

Next ==
    \/ \E g \in Goals, d \in Deadlines : CreateProject(g, d)
    \/ \E p \in ProjectIds, c \in Contributors, a \in Amounts : Contribute(p, c, a)
    \/ \E p \in ProjectIds : MarkProjectFailed(p) \/ CancelProject(p)
    \/ \E p \in ProjectIds, c \in Contributors : RefundContributor(p, c)
    \/ Tick

Spec == Init /\ [][Next]_vars

(***************************************************************************)
(* Liveness needs callers: the contract schedules nothing itself.  The    *)
(* assumption is the bot of the integration notes: it keeps calling       *)
(* mark_project_failed on every project past its deadline and             *)
(* refund_contributor for every contributor of a failed project, and the  *)
(* ledger keeps closing (time advances).                                  *)
(***************************************************************************)
Fairness ==
    /\ WF_vars(Tick)
    /\ \A p \in ProjectIds : WF_vars(MarkProjectFailed(p))
    /\ \A p \in ProjectIds, c \in Contributors : WF_vars(RefundContributor(p, c))

FairSpec == Spec /\ Fairness

-----------------------------------------------------------------------------
(***************************************************************************)
(* Properties                                                              *)
(***************************************************************************)

EventSet ==
    {ProjectFailedEvent(p) : p \in ProjectIds}
    \cup {RefundIssuedEvent(p, c, a) : p \in ProjectIds, c \in Contributors,
                                       a \in 0 .. InitialBalance * MaxProjects}

TypeOK ==
    /\ now \in Times
    /\ nextId \in 0 .. MaxProjects
    /\ status \in [ProjectIds -> Statuses]
    /\ goal \in [ProjectIds -> Goals]
    /\ deadline \in [ProjectIds -> Times]
    /\ totalRaised \in [ProjectIds -> Nat]
    /\ contribution \in [ProjectIds -> [Contributors -> Nat]]
    /\ refundProcessed \subseteq ProjectIds \X Contributors
    /\ failureProcessed \subseteq ProjectIds
    /\ balance \in [Contributors -> Nat]
    /\ contractBalance \in Nat
    /\ events \in Seq(EventSet)

\* Positions in the event stream holding event e.
Emitted(e) == {i \in 1 .. Len(events) : events[i] = e}
RefundEventsFor(p, c) ==
    {i \in 1 .. Len(events) : events[i].topic = "REFUND_ISSUED"
                             /\ events[i].project = p
                             /\ events[i].contributor = c}

\* What contributor c has in project p that has not been paid back.
Outstanding(p, c) ==
    IF <<p, c>> \in refundProcessed THEN 0 ELSE contribution[p][c]

(***************************************************************************)
(* Exactly-once refund (refund_contributor's RefundProcessed flag and its *)
(* REFUND_ISSUED event): a contributor has a REFUND_ISSUED event for a    *)
(* project exactly when the flag is set, never two, the event carries the *)
(* recorded contribution, and it happened only on a Failed project.  A    *)
(* PROJECT_FAILED event exists exactly for the projects resolved Failed.  *)
(***************************************************************************)
RefundsExactlyOnce ==
    /\ \A p \in ProjectIds, c \in Contributors :
         /\ Cardinality(RefundEventsFor(p, c)) = IF <<p, c>> \in refundProcessed THEN 1 ELSE 0
         /\ \A i \in RefundEventsFor(p, c) :
              /\ events[i].amount = contribution[p][c]
              /\ status[p] = "Failed"
    /\ \A p \in ProjectIds :
         Cardinality(Emitted(ProjectFailedEvent(p))) = IF status[p] = "Failed" THEN 1 ELSE 0

(***************************************************************************)
(* Escrow accounting across contribute and refund_contributor: the        *)
(* contract's single token balance is exactly the sum, over every project *)
(* and contributor, of what was contributed and not yet paid back, and    *)
(* each contributor's wallet plus their outstanding contributions is what *)
(* they started with.  A double refund, a wrong refund amount or a        *)
(* contribution recorded differently from what was transferred breaks it.*)
(***************************************************************************)
EscrowAccounting ==
    /\ contractBalance = SumFunction([pc \in ProjectIds \X Contributors |->
                                        Outstanding(pc[1], pc[2])])
    /\ \A c \in Contributors :
         balance[c] + SumFunction([p \in ProjectIds |-> Outstanding(p, c)]) = InitialBalance

(***************************************************************************)
(* The outcome mark_project_failed committed agrees with the contribution *)
(* ledger as it stands now, not only as it stood when the call ran: a     *)
(* Completed project's recorded contributions reach its goal, a Failed    *)
(* project's fall short, and the ProjectFailureProcessed flag is set      *)
(* exactly for the projects the resolver decided.                         *)
(***************************************************************************)
OutcomeMatchesFunding ==
    \A p \in ProjectIds :
       /\ status[p] = "Completed" => SumFunction(contribution[p]) >= goal[p]
       /\ status[p] = "Failed" => SumFunction(contribution[p]) < goal[p]
       /\ (p \in failureProcessed) <=> status[p] \in {"Completed", "Failed"}

(***************************************************************************)
(* Step property of every call: a project's status only moves along       *)
(* Absent -> Active -> {Completed, Failed, Cancelled} and never leaves a  *)
(* terminal status; the two idempotency flags are never cleared.          *)
(***************************************************************************)
AllowedMoves ==
    {<<"Absent", "Active">>, <<"Active", "Completed">>,
     <<"Active", "Failed">>, <<"Active", "Cancelled">>}

StatusMovesForward ==
    [][/\ \A p \in ProjectIds :
            status'[p] # status[p] => <<status[p], status'[p]>> \in AllowedMoves
       /\ refundProcessed \subseteq refundProcessed'
       /\ failureProcessed \subseteq failureProcessed']_vars

(***************************************************************************)
(* Liveness, under the caller assumption of Fairness: every created       *)
(* project leaves Active (the resolver runs once its deadline passes),    *)
(* and every contributor of a Failed project is eventually paid back.     *)
(***************************************************************************)
EventuallyResolved ==
    \A p \in ProjectIds : status[p] = "Active" ~> status[p] # "Active"

FailedProjectsFullyRefunded ==
    \A p \in ProjectIds, c \in Contributors :
       (status[p] = "Failed" /\ contribution[p][c] > 0) ~> <<p, c>> \in refundProcessed

(***************************************************************************)
(* Refinement: ProjectLaunch implements FundingOutcome, with time, flags, *)
(* balances and events hidden.                                            *)
(***************************************************************************)
Abstract == INSTANCE FundingOutcome
    WITH phase <- status, goalOf <- goal, pledged <- contribution,
         refunded <- refundProcessed

ImplementsFundingOutcome == Abstract!ASpec

=============================================================================
