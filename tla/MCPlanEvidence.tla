---------------------------- MODULE MCPlanEvidence ----------------------------
(* Two scenes of PlanApply, each around a plan of its own: two requests     *)
(* that overlap at will, and three of a careful operator, c3 the last, who  *)
(* makes no dry runs.                                                       *)
EXTENDS PlanApply, TLC

CONSTANTS crowded, calm, c1, c2, c3, k1, r1, r2

TwoPlans == {crowded, calm}
ScenesSteps == crowded :> <<"package", "config">> @@ calm :> <<"package", "config">>
ScenesBefore ==
  crowded :> <<"missing", "original">> @@ calm :> <<"missing", "original">>

VARIABLE scene

SceneInit == Init /\ scene \in Plans

SceneNext ==
  /\ UNCHANGED scene
  /\ CarefulNext
  /\ \/ scene = crowded /\ clients'[c3] = IdleClient
     \/ /\ scene = calm
        /\ \A c \in Clients : clients'[c].key = NoKey /\ clients'[c].op # "dryRun"
        /\ clients'[c3] # IdleClient => clients[c1] # IdleClient /\ clients[c2] # IdleClient
  /\ \A p \in Plans \ {scene} : rows'[p] = rows[p]

SceneSpec == SceneInit /\ [][SceneNext]_<<vars, scene>>

Symmetric == Permutations(RunIds) \cup Permutations({c1, c2})
=============================================================================
