---------------------------- MODULE RiskExplain ----------------------------
(***************************************************************************)
(* computeExplainability (risk-engine.ts), the "SHAP-inspired" part of    *)
(* assessProject: each factor of FACTOR_DEFINITIONS gets an impact, the   *)
(* factors of negative impact, most negative first, are the project's     *)
(* risks and those of positive impact, largest first, its strengths, five *)
(* of each.  The function is pure: the model chooses the feature vector   *)
(* in Init and keeps the explanation computed from it.                    *)
(*                                                                         *)
(* Feature values, BASELINES and LR_WEIGHTS are taken in hundredths, so   *)
(* an impact is an exact integer in ten-thousandths; with floats the sign *)
(* of weight * (value - baseline) is the same.  The display name,         *)
(* category, benchmark and the describe/recommend texts of a factor are   *)
(* formatting and are left out.                                            *)
(***************************************************************************)
EXTENDS Integers, Sequences, TLC

CONSTANT Levels   \* feature values a project can present, in hundredths of [0, 1]

VARIABLES fv, risks, strengths

vars == <<fv, risks, strengths>>

(* The keys of FACTOR_DEFINITIONS, in the order the array lists them. *)
Factors == <<"fundingCompletionRate", "earlyMomentum", "whaleConcentration",
             "teamStrength", "prevSuccessBoost", "contractSecurity",
             "auditSafety", "communityEngagement", "sentimentNorm",
             "legalRisk", "liquidityRisk", "projectQuality">>

Keys == {Factors[i] : i \in DOMAIN Factors}

(* LR_WEIGHTS of those keys: whale, legal and liquidity risk count against. *)
LR_WEIGHTS ==
    [fundingCompletionRate |-> 18, earlyMomentum |-> 14, whaleConcentration |-> -10,
     teamStrength |-> 13, prevSuccessBoost |-> 9, contractSecurity |-> 10,
     auditSafety |-> 9, communityEngagement |-> 10, sentimentNorm |-> 8,
     legalRisk |-> -9, liquidityRisk |-> -6, projectQuality |-> 10]

(* BASELINES of those keys. *)
BASELINES ==
    [fundingCompletionRate |-> 40, earlyMomentum |-> 40, whaleConcentration |-> 25,
     teamStrength |-> 50, prevSuccessBoost |-> 40, contractSecurity |-> 40,
     auditSafety |-> 30, communityEngagement |-> 40, sentimentNorm |-> 55,
     legalRisk |-> 30, liquidityRisk |-> 50, projectQuality |-> 45]

AbsVal(x) == IF x < 0 THEN -x ELSE x

(* impact = Math.abs(LR_WEIGHTS[key]) * (value - baselineVal) *)
Impact(v, k) == AbsVal(LR_WEIGHTS[k]) * (v[k] - BASELINES[k])

(* Array.prototype.slice(0, n). *)
Slice(s, n) == SubSeq(s, 1, IF Len(s) < n THEN Len(s) ELSE n)

(***************************************************************************)
(* The factors filtered by the sign of their impact, sorted by the         *)
(* comparator and cut to five.  Array.prototype.sort is stable, so equal   *)
(* impacts keep the order of FACTOR_DEFINITIONS: the index breaks ties.    *)
(***************************************************************************)
ComputeExplainability(v) ==
    LET imp[i \in DOMAIN Factors] == Impact(v, Factors[i])
        idx == [i \in DOMAIN Factors |-> i]
        Ascending(i, j)  == imp[i] < imp[j] \/ (imp[i] = imp[j] /\ i < j)
        Descending(i, j) == imp[i] > imp[j] \/ (imp[i] = imp[j] /\ i < j)
        Keyed(s) == [n \in DOMAIN s |-> Factors[s[n]]]
    IN  [risks     |-> Keyed(Slice(SortSeq(SelectSeq(idx, LAMBDA i : imp[i] < 0), Ascending), 5)),
         strengths |-> Keyed(Slice(SortSeq(SelectSeq(idx, LAMBDA i : imp[i] > 0), Descending), 5))]

Init ==
    /\ fv \in [Keys -> Levels]
    /\ risks = ComputeExplainability(fv).risks
    /\ strengths = ComputeExplainability(fv).strengths

Next == UNCHANGED vars

Spec == Init /\ [][Next]_vars

-----------------------------------------------------------------------------
(* How a factor moves the model's own estimate: the signed LR weight times *)
(* the distance from the baseline (computeRiskScore likewise scores        *)
(* 1 - whaleConcentration, 1 - legalRisk and 1 - liquidityRisk).           *)
Contribution(k) == LR_WEIGHTS[k] * (fv[k] - BASELINES[k])

TypeOK ==
    /\ fv \in [Keys -> Levels]
    /\ risks \in Seq(Keys) /\ Len(risks) <= 5
    /\ strengths \in Seq(Keys) /\ Len(strengths) <= 5

(***************************************************************************)
(* RiskFactor.impact is "negative = hurts, positive = helps": every factor *)
(* computeExplainability lists as a strength helps the project in the     *)
(* model's own terms, and every factor it lists as a risk hurts it.       *)
(***************************************************************************)
ExplanationSignMatchesModel ==
    /\ \A n \in DOMAIN strengths : Contribution(strengths[n]) > 0
    /\ \A n \in DOMAIN risks : Contribution(risks[n]) < 0

=============================================================================
