----------------------------- MODULE TrustScore -----------------------------
(***************************************************************************)
(* ReputationService.updateTrustScore for one creator: calculateTrustScore *)
(* awaits three queries (the count of COMPLETED projects, the milestones   *)
(* of the creator's projects, the projects' goal and currentFunds), mixes  *)
(* them into a score clamped to [0, 1000], and the service then awaits the *)
(* user update that stores it.  The queries are separate round trips, not *)
(* one transaction; the projects and milestones change meanwhile through   *)
(* the rest of the backend, modelled here as environment steps.            *)
(***************************************************************************)
EXTENDS Integers, FiniteSets, Functions

CONSTANTS
    Projects,     \* the creator's projects
    Milestones,   \* the milestones of those projects
    Goal,         \* Projects -> goal (a positive amount)
    FundStep,     \* the amount one contribution adds to currentFunds
    MaxFunds,     \* bound on a project's currentFunds
    Completion,   \* where an approval puts completionDate: "same" or "later" than createdAt
    UpdateSlots   \* updateTrustScore invocations that can be in flight at once

VARIABLES
    status,       \* Projects -> project status
    funds,        \* Projects -> currentFunds
    ms,           \* Milestones -> [status, completion]
    trustScore,   \* user.trustScore as stored
    upd,          \* UpdateSlots -> an updateTrustScore invocation
    since         \* history: "never" updated, or whether the data is "clean"/"dirty"
                  \* since the latest updateTrustScore began

vars == <<status, funds, ms, trustScore, upd, since>>

IdleUpdate == [pc |-> "idle", successful |-> 0, onTime |-> 0, failed |-> 0, score |-> 0]

Init ==
    /\ status = [p \in Projects |-> "ACTIVE"]
    /\ funds = [p \in Projects |-> 0]
    /\ ms = [m \in Milestones |-> [status |-> "PENDING", completion |-> "none"]]
    /\ trustScore = 0
    /\ upd = [u \in UpdateSlots |-> IdleUpdate]
    /\ since = "never"

(* Math.round of num / den for num >= 0 < den: halves round up. *)
RoundDiv(num, den) == (2 * num + den) \div (2 * den)

Clamp(score) == IF score < 0 THEN 0 ELSE IF score > 1000 THEN 1000 ELSE score

\* Fault variant: totalRaised and totalDistributed read from swapped columns.
FundsBonus_Swapped(f) ==
    LET raised      == SumFunction([p \in Projects |-> f[p]])
        distributed == SumFunction(Goal)
    IN  IF raised > 0 THEN RoundDiv(distributed * 200, raised) ELSE 0

(***************************************************************************)
(* totalRaised sums the goals and totalDistributed the currentFunds; the   *)
(* bonus is round(distributed / raised * 200), or 0 without a goal.       *)
(***************************************************************************)
FundsBonus(f) ==
    LET raised      == SumFunction(Goal)
        distributed == SumFunction([p \in Projects |-> f[p]])
    IN  IF raised > 0 THEN RoundDiv(distributed * 200, raised) ELSE 0

(* completedOnTime: APPROVED with a completionDate <= createdAt. *)
OnTime(m) == m.status = "APPROVED" /\ m.completion \in {"same"}

\* Fault variant: no clamp to [0, 1000].
Combine_NoClamp(successful, onTime, failed, bonus) ==
    500 + successful * 100 + onTime * 50 - failed * 75 + bonus

(* The scoring lines of calculateTrustScore. *)
Combine(successful, onTime, failed, bonus) ==
    Clamp(500 + successful * 100 + onTime * 50 - failed * 75 + bonus)

(* calculateTrustScore evaluated on one database state. *)
CalculateTrustScore(st, f, m) ==
    Combine(Cardinality({p \in Projects : st[p] = "COMPLETED"}),
            Cardinality({x \in Milestones : OnTime(m[x])}),
            Cardinality({x \in Milestones : m[x].status = "REJECTED"}),
            FundsBonus(f))

-----------------------------------------------------------------------------
(***************************************************************************)
(* updateTrustScore, one await at a time.                                  *)
(***************************************************************************)

(* prisma.project.count of the creator's COMPLETED projects returns. *)
CountSuccessful(u) ==
    /\ upd[u].pc = "idle"
    /\ upd' = [upd EXCEPT ![u] = [IdleUpdate EXCEPT
                 !.pc = "counted",
                 !.successful = Cardinality({p \in Projects : status[p] = "COMPLETED"})]]
    /\ since' = "clean"
    /\ UNCHANGED <<status, funds, ms, trustScore>>

(* prisma.milestone.findMany returns; the two filters count them. *)
FindMilestones(u) ==
    /\ upd[u].pc = "counted"
    /\ upd' = [upd EXCEPT ![u].pc = "milestones",
                          ![u].onTime = Cardinality({m \in Milestones : OnTime(ms[m])}),
                          ![u].failed = Cardinality({m \in Milestones : ms[m].status = "REJECTED"})]
    /\ UNCHANGED <<status, funds, ms, trustScore, since>>

(* prisma.project.findMany returns; the score is computed and the user   *)
(* update is issued.                                                      *)
FindProjects(u) ==
    /\ upd[u].pc = "milestones"
    /\ upd' = [upd EXCEPT ![u].pc = "writing",
                          ![u].score = Combine(upd[u].successful, upd[u].onTime,
                                               upd[u].failed, FundsBonus(funds))]
    /\ UNCHANGED <<status, funds, ms, trustScore, since>>

(* prisma.user.update stores the score; updateTrustScore returns it. *)
WriteScore(u) ==
    /\ upd[u].pc = "writing"
    /\ trustScore' = upd[u].score
    /\ upd' = [upd EXCEPT ![u] = IdleUpdate]
    /\ UNCHANGED <<status, funds, ms, since>>

(***************************************************************************)
(* The rest of the backend changes the creator's data.                    *)
(***************************************************************************)
Touch == since' = IF since = "never" THEN "never" ELSE "dirty"

CompleteProject(p) ==
    /\ status[p] = "ACTIVE"
    /\ status' = [status EXCEPT ![p] = "COMPLETED"]
    /\ Touch
    /\ UNCHANGED <<funds, ms, trustScore, upd>>

Contribute(p) ==
    /\ funds[p] + FundStep <= MaxFunds
    /\ funds' = [funds EXCEPT ![p] = @ + FundStep]
    /\ Touch
    /\ UNCHANGED <<status, ms, trustScore, upd>>

ApproveMilestone(m, c) ==
    /\ ms[m].status = "PENDING"
    /\ ms' = [ms EXCEPT ![m] = [status |-> "APPROVED", completion |-> c]]
    /\ Touch
    /\ UNCHANGED <<status, funds, trustScore, upd>>

RejectMilestone(m) ==
    /\ ms[m].status = "PENDING"
    /\ ms' = [ms EXCEPT ![m].status = "REJECTED"]
    /\ Touch
    /\ UNCHANGED <<status, funds, trustScore, upd>>

Next ==
    \/ \E u \in UpdateSlots :
          CountSuccessful(u) \/ FindMilestones(u) \/ FindProjects(u) \/ WriteScore(u)
    \/ \E p \in Projects : CompleteProject(p) \/ Contribute(p)
    \/ \E m \in Milestones : RejectMilestone(m) \/ \E c \in Completion : ApproveMilestone(m, c)

Spec == Init /\ [][Next]_vars

-----------------------------------------------------------------------------
(***************************************************************************)
(* Properties                                                              *)
(***************************************************************************)

ScoreNow == CalculateTrustScore(status, funds, ms)

(* Types; the stored score stays within calculateTrustScore's clamp. *)
TypeOK ==
    /\ status \in [Projects -> {"ACTIVE", "COMPLETED"}]
    /\ funds \in [Projects -> 0..MaxFunds]
    /\ ms \in [Milestones -> [status : {"PENDING", "APPROVED", "REJECTED"},
                              completion : Completion \cup {"none"}]]
    /\ trustScore \in 0..1000
    /\ \A u \in UpdateSlots :
          /\ upd[u].pc \in {"idle", "counted", "milestones", "writing"}
          /\ upd[u].score \in 0..1000
    /\ since \in {"never", "clean", "dirty"}

(***************************************************************************)
(* calculateTrustScore rewards what its header promises: a project        *)
(* completing, a contribution or an approved milestone never lowers the   *)
(* score, and a rejected milestone never raises it, through the funds     *)
(* ratio, its rounding and the clamp.                                      *)
(***************************************************************************)
ScoreMonotone ==
    /\ [][(\E p \in Projects : CompleteProject(p) \/ Contribute(p))
          \/ (\E m \in Milestones, c \in Completion : ApproveMilestone(m, c))
              => ScoreNow' >= ScoreNow]_vars
    /\ [][(\E m \in Milestones : RejectMilestone(m)) => ScoreNow' <= ScoreNow]_vars

(***************************************************************************)
(* updateTrustScore's three queries and its write together store what     *)
(* calculateTrustScore gives for the database as it is, whenever no       *)
(* update is in flight and nothing changed since the latest one began.    *)
(***************************************************************************)
UpdateStoresCurrentScore ==
    (since = "clean" /\ \A u \in UpdateSlots : upd[u].pc = "idle")
        => trustScore = ScoreNow

=============================================================================
