------------------------------ MODULE MCPlanning ------------------------------
(* Small instances of ApplyGate for TLC: nginx and caddy exclude each      *)
(* other, caddy and k3s call for a warning; and of DecisionInbox, which a   *)
(* behaviour with requests is about.                                       *)
EXTENDS ApplyGate, DecisionInbox, TLC

CONSTANTS nginx, caddy, k3s, p1, p2, pg, web, env, host1

Item(capability, privileged, risks, gates) ==
  [id |-> capability, capability |-> capability, detectOnly |-> FALSE, mutates |-> TRUE,
   privileged |-> privileged, risks |-> risks, gates |-> gates]

SmallCatalog ==
  {Item(nginx, FALSE, {}, {}), Item(caddy, TRUE, {"ports"}, {}),
   Item(k3s, FALSE, {"data", "context"}, {"cluster-confirm"})}

SmallOptions == {[id |-> "keep-both", gone |-> {}], [id |-> "keep-caddy", gone |-> {k3s}]}

SmallRules ==
  {[id |-> "exclusive", keys |-> {nginx, caddy}, block |-> TRUE, options |-> {}],
   [id |-> "warned", keys |-> {caddy, k3s}, block |-> FALSE, options |-> SmallOptions]}

Risk(item, risks) == [item |-> item, risks |-> risks]
Confirms(item, gate) == [item |-> item, gate |-> gate]

OwnGates == {Confirms(k3s, "cluster-confirm"), Confirms(caddy, "high-risk-command-confirm")}
Warning(option) == {[conflict |-> "warned", option |-> option]}

(* Reviewers who confirm everything, in one entry for an item or in two;   *)
(* who leave out the gates of the plan, or the warning.                    *)
SmallAcks ==
  {[risks |-> <<Risk(caddy, {"ports"}), Risk(k3s, {"data", "context"})>>,
    conflicts |-> Warning(NoOption), approvals |-> OwnGates],
   [risks |-> <<Risk(k3s, {"context"}), Risk(caddy, {"ports"}), Risk(k3s, {"data", "context"})>>,
    conflicts |-> Warning("keep-caddy"), approvals |-> OwnGates \cup {TargetGate, PartialGate}],
   [risks |-> <<Risk(caddy, {"ports"}), Risk(k3s, {"data", "context"})>>,
    conflicts |-> {}, approvals |-> OwnGates \cup {TargetGate, PartialGate}]}

Symmetric == Permutations(Plans)

(* A plan that has drifted says nothing more. *)
Undrifted == ~drifted

(* A database, and a program that could be moved without asking: once with *)
(* a secret in its configuration, seen too thinly for a careful profile.   *)
Facts(database, secrets, thin) ==
  [database |-> database, secrets |-> secrets, blocked |-> FALSE, ignored |-> FALSE,
   thin |-> thin, sure |-> IF database THEN {} ELSE {"balanced"},
   minor |-> TRUE, faint |-> FALSE, costly |-> FALSE]

SmallSees ==
  <<pg :> Facts(TRUE, {}, {}) @@ web :> Facts(FALSE, {}, {}),
    web :> Facts(FALSE, {env}, {"conservative"})>>

SmallPatterns == {[covers |-> {pg, web}, rank |-> 1], [covers |-> {web}, rank |-> 5]}

Analysis(n, session) == [n |-> n, session |-> session, decides |-> {}]
Decision(n, session, some) == [n |-> n, session |-> session, decides |-> some]

(* Two sessions on one connection; a decision between analyses, and beside *)
(* one; and no request at all, which leaves the behaviour to the gate.     *)
SmallScenes ==
  {{}, {Analysis(1, 1), Analysis(2, 2)}, {Analysis(1, 2), Decision(2, 1, {pg, web})},
   {Analysis(1, 1), Decision(2, 1, {web}), Analysis(3, 1)}}

AboutGate == DOMAIN asks = {}

PlanningInit ==
  /\ Init /\ InboxInit
  /\ IF AboutGate THEN current = 1 /\ profile = "balanced" ELSE target = {}
  /\ Cardinality(DOMAIN asks) = 3 => current = 2 /\ profile = "balanced"

PlanningNext ==
  \/ AboutGate /\ Next /\ UNCHANGED inboxVars
  \/ ~AboutGate /\ InboxNext /\ UNCHANGED vars

PlanningSpec == PlanningInit /\ [][PlanningNext]_<<vars, inboxVars>>
=============================================================================
