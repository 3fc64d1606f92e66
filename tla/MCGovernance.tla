------------------------------ MODULE MCGovernance ------------------------------
(* Small instances of the three things admins govern, for TLC.  They share  *)
(* no state, so a behaviour moves one of them: the profiles, with as many   *)
(* as there are ids, or the requirements, under two profiles; the rules; or *)
(* one item of the catalogue, of which no two touch the same.  Requests     *)
(* are made in the order of their numbers.                                  *)
EXTENDS CapabilityStandards, RuleOverlay, CatalogOverrides, TLC

CONSTANTS k1, k2, own, new1, new2, cap1, cap2, anyone,
          rule1, rule2, text1, text2, boot, shipped, added

VARIABLES part, item

Init ==
  /\ StandardsInit /\ RulesInit /\ ItemsInit
  /\ part \in {"profiles", "requirements", "rules", "items"}
  /\ item \in IF part = "items" THEN Items ELSE {NoItem}

Next ==
  /\ UNCHANGED <<part, item>>
  /\ \/ /\ part \in {"profiles", "requirements"}
        /\ StandardsNext /\ UNCHANGED <<ruleVars, itemVars>>
        /\ part = "profiles" => UNCHANGED <<drafts, versions>>
        /\ part = "requirements" => Len(profiles') <= 1
     \/ /\ part = "rules"
        /\ RulesNext /\ UNCHANGED <<standardsVars, itemVars>>
        /\ \A q, r \in Requests :
             q < r /\ calls'[q].pc = "unmade" => calls'[r].pc = "unmade"
     \/ /\ part = "items"
        /\ ItemsNext /\ UNCHANGED <<standardsVars, ruleVars>>
        /\ \A e \in Editors : edits'[e].item \in {item, NoItem}
        /\ \A e, f \in Editors : e < f /\ edits'[e] = Unstarted => edits'[f] = Unstarted

Spec == Init /\ [][Next]_<<standardsVars, ruleVars, itemVars, part, item>>

Symmetric ==
  Permutations(Ids) \cup Permutations(Capabilities)
  \cup Permutations(Rules) \cup Permutations(Contents)

TypeOK == StandardsTypeOK /\ RulesTypeOK /\ ItemsTypeOK
================================================================================
