----------------------------- MODULE MCPlanApply -----------------------------
(* Small instances of PlanApply for TLC. *)
EXTENDS PlanApply, TLC

CONSTANTS p1, c1, c2, c3, k1, r1, r2

OnePlan == {p1}

(* One action that can be rolled back, and one that cannot. *)
MixedSteps == p1 :> <<"config", "command">>
Irreversible == p1 :> <<"command", "passive">>
SingleConfig == p1 :> <<"config">>

OneOriginal == p1 :> <<"original">>
TwoOriginals == p1 :> <<"original", "original">>

Symmetric == Permutations(RunIds) \cup Permutations(Clients)
=============================================================================
