----------------------------- MODULE MCCampaign -----------------------------
(* Two concurrent tasks of one role, up to two attempts each.                *)
EXTENDS Campaign, TLC

TwoTasks == {1, 2}
TwoAttempts == TwoTasks \X {1, 2}
OneAuditor == {"auditor"}
BothAuditor == [t \in TwoTasks |-> "auditor"]
UnitTokens == [t \in TwoTasks |-> 1]
UnequalCosts == 1 :> 2 @@ 2 :> 1
RoleLimit == [r \in OneAuditor |-> 4]
=============================================================================
