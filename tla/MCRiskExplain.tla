---------------------------- MODULE MCRiskExplain ----------------------------
EXTENDS RiskExplain

(* Low, middling and high values for every factor: 50 is the baseline of  *)
(* teamStrength and liquidityRisk (impact 0, in neither list), and 10 and *)
(* 90 put every factor on either side of its baseline.                     *)
MCLevels == {10, 50, 90}
=============================================================================
