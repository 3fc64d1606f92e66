------------------------------- MODULE ApplyGate -------------------------------
(***************************************************************************)
(* From the choice of capabilities to a changed target: the rebuild plan   *)
(* with its conflicts and approval gates, its freezing, its review and the *)
(* gate of the apply (environment-plan.ts, catalog-conflicts.ts,           *)
(* plan-lifecycle.ts, plan-store.ts approveEnvironmentPlan).               *)
(*                                                                         *)
(* The rules speak of what is on one host; a plan is held against the last *)
(* snapshot of the target, which may be missing, incomplete or out of date.*)
(* Runs, retries and evidence are PlanApply's: an apply here is a claim    *)
(* and what its run gets done.  Left out: support levels as a label, the   *)
(* wording of gates, and the plans without capabilities.                   *)
(***************************************************************************)
EXTENDS FiniteSets, Sequences, Naturals

CONSTANTS
  Plans,
  Capabilities,
  Catalog,    \* items: [id, capability, detectOnly, mutates, privileged, risks, gates]
  Rules,      \* conflict rules: [id, keys, block, options]
  Options,    \* resolutions of a rule: [id, gone], the keys that must not be in the plan
  NoOption,
  Acks,       \* what reviewers send: [risks, conflicts, approvals]
  MaxMoves    \* bound on the probes and changes of the host

ASSUME ApplyGateAssumptions ==
  /\ \A item \in Catalog : /\ item.capability \in Capabilities
                           /\ {item.detectOnly, item.mutates, item.privileged} \subseteq BOOLEAN
  /\ \A rule \in Rules : /\ rule.keys \subseteq Capabilities /\ rule.block \in BOOLEAN
                         /\ rule.options \subseteq Options
  /\ \A one, two \in Rules : one.id = two.id => one = two
  /\ \A option \in Options : option.id # NoOption
  /\ MaxMoves \in Nat

VARIABLES
  plans,      \* plan -> its row
  target,     \* capabilities on the host
  snapshot,   \* what the last probe of the host saw: [known, partial, seen]
  drifted,    \* auxiliary: a plan was applied to a host it had not seen so
  confirmed,  \* auxiliary: warnings confirmed by a plan that was applied
  moves       \* probes and changes of the host so far

vars == <<plans, target, snapshot, drifted, confirmed, moves>>

Stages == {"none", "frozen", "approved", "applied"}

NoApproval == [risks |-> <<>>, conflicts |-> {}, approvals |-> {}]
NoSnapshot == [known |-> FALSE, partial |-> FALSE, seen |-> {}]

NoPlan == [stage |-> "none", items |-> {}, source |-> NoSnapshot,
           conflicts |-> {}, gates |-> {}, approval |-> NoApproval]

-----------------------------------------------------------------------------
(* The conflict rules.                                                     *)
Keys(items) == {item.capability : item \in items}

(* Two of the capabilities of the rule are there.                          *)
Fires(rule, keys) ==
  \E one, two \in rule.keys : one # two /\ one \in keys /\ two \in keys

detectPlanConflicts(keys) == {rule \in Rules : Fires(rule, keys)}

(* A conflict of the plan alone names the target when one of its           *)
(* capabilities is on it; one that takes the target's capabilities to fire *)
(* names it always.                                                        *)
Detected(keys, existing) ==
  {[rule |-> rule, onTarget |-> rule.keys \cap keys \cap existing # {}] :
     rule \in detectPlanConflicts(keys)}
  \cup {[rule |-> rule, onTarget |-> TRUE] :
     rule \in detectPlanConflicts(keys \cup existing) \ detectPlanConflicts(keys)}

RulesOf(conflicts) == {conflict.rule : conflict \in conflicts}

(* Mutant of Conflicts: what only the plan as built could see is dropped.  *)
ConflictsAnew(keys, existing, before) == Detected(keys, existing)

(* Conflicts attached earlier stay unless the rule has fired again.        *)
Conflicts(keys, existing, before) ==
  LET found == Detected(keys, existing) IN
  found \cup {conflict \in before : conflict.rule \notin RulesOf(found)}

TargetGate == [item |-> "plan", gate |-> "target-conflict-confirm"]
PartialGate == [item |-> "plan", gate |-> "partial-snapshot-confirm"]

Gates(items, conflicts, partial) ==
  UNION {{[item |-> item.id, gate |-> gate] : gate \in item.gates} : item \in items}
  \cup {[item |-> item.id, gate |-> "high-risk-command-confirm"] :
          item \in {item \in items : item.privileged}}
  \cup (IF \E conflict \in conflicts : conflict.onTarget THEN {TargetGate} ELSE {})
  \cup (IF partial THEN {PartialGate} ELSE {})

(* attachConflictsAndApprovalAggregate *)
Attached(plan, existing) ==
  LET conflicts == Conflicts(Keys(plan.items), existing, plan.conflicts) IN
  [plan EXCEPT !.conflicts = conflicts,
               !.gates = Gates(plan.items, conflicts, plan.source.partial)]

-----------------------------------------------------------------------------
(* The gate.                                                               *)
(* Object.fromEntries in the review: of two entries for an item the last   *)
(* one counts.  The approval keeps all of them, as item::risk.             *)
Acknowledged(risks, item) ==
  LET entries == {i \in DOMAIN risks : risks[i].item = item.id} IN
  IF entries = {} THEN {}
  ELSE risks[CHOOSE i \in entries : \A j \in entries : j <= i].risks

Stored(risks, item) ==
  UNION {risks[i].risks : i \in {i \in DOMAIN risks : risks[i].item = item.id}}

AcceptedInReview(plan, ack) == [item \in plan.items |-> Acknowledged(ack.risks, item)]
AcceptedInStore(plan, ack) == [item \in plan.items |-> Stored(ack.risks, item)]

(* The conflicts of the frozen plan and those its items give rise to now.  *)
LiveRules(plan) == detectPlanConflicts(Keys(plan.items)) \cup RulesOf(plan.conflicts)

Resolves(entry, keys) ==
  \/ entry.option = NoOption
  \/ \E rule \in Rules : \E option \in rule.options :
       /\ rule.id = entry.conflict /\ option.id = entry.option
       /\ option.gone \cap keys = {}

(* Mutant of ConflictsPass: the rules are held against the items alone.    *)
ConflictsPassByItems(plan, ack) ==
  /\ \A rule \in detectPlanConflicts(Keys(plan.items)) :
       ~rule.block /\ \E entry \in ack.conflicts : entry.conflict = rule.id
  /\ \A entry \in ack.conflicts : Resolves(entry, Keys(plan.items))

(* No rule that blocks has fired, every warning is acknowledged, and every *)
(* resolution named is one of its rule and true of the plan.               *)
ConflictsPass(plan, ack) ==
  /\ \A rule \in LiveRules(plan) :
       ~rule.block /\ \E entry \in ack.conflicts : entry.conflict = rule.id
  /\ \A entry \in ack.conflicts : Resolves(entry, Keys(plan.items))

(* The gate, with the risks accepted of each item as its caller reads them.*)
evaluateApplyGate(plan, ack, accepted) ==
  /\ ConflictsPass(plan, ack)
  /\ \A item \in plan.items : item.risks \subseteq accepted[item]
  /\ plan.gates \subseteq ack.approvals
  /\ \A item \in plan.items : ~(item.detectOnly /\ item.mutates)

-----------------------------------------------------------------------------
CompatibleWith(keys) == \A rule \in Rules : rule.block => ~Fires(rule, keys)
Warned(keys) == {rule \in Rules : ~rule.block /\ Fires(rule, keys)}

Init ==
  /\ plans = [p \in Plans |-> NoPlan]
  /\ target \in {keys \in SUBSET Capabilities : CompatibleWith(keys)}
  /\ snapshot = NoSnapshot
  /\ drifted = FALSE /\ confirmed = Warned(target) /\ moves = 0

Row(p, row) == plans' = [plans EXCEPT ![p] = row]

(* A probe of the host.  One that misses something reports itself partial. *)
Probe(seen) ==
  /\ moves < MaxMoves /\ moves' = moves + 1
  /\ seen \subseteq target
  /\ snapshot' = [known |-> TRUE, partial |-> seen # target, seen |-> seen]
  /\ UNCHANGED <<plans, target, drifted, confirmed>>

(* The host changes by other hands, which bring no conflict of their own.  *)
Changes(keys) ==
  /\ moves < MaxMoves /\ moves' = moves + 1
  /\ CompatibleWith(keys) /\ target' = keys
  /\ confirmed' = confirmed \cup Warned(keys)
  /\ UNCHANGED <<plans, snapshot, drifted>>

(* buildRebuildPlan: the draft, held against the snapshot.                 *)
Draft(items, source) ==
  Attached([NoPlan EXCEPT !.stage = "frozen", !.items = items, !.source = source], source.seen)

(* The draft is attached once more, now without the target, and frozen     *)
(* (prepareEnvironmentPlanForCreation).                                    *)
Create(p, items) ==
  /\ plans[p].stage = "none" /\ items # {}
  /\ Row(p, Attached(Draft(items, snapshot), {}))
  /\ UNCHANGED <<target, snapshot, drifted, confirmed, moves>>

(* The review route holds the gate, approveEnvironmentPlan holds it again  *)
(* on what it is to store; no status stands in the way.                    *)
Approve(p, ack) ==
  /\ plans[p].stage \in {"frozen", "approved", "applied"}
  /\ evaluateApplyGate(plans[p], ack, AcceptedInReview(plans[p], ack))
  /\ evaluateApplyGate(plans[p], ack, AcceptedInStore(plans[p], ack))
  /\ Row(p, [plans[p] EXCEPT !.stage = "approved", !.approval = ack])
  /\ UNCHANGED <<target, snapshot, drifted, confirmed, moves>>

Reject(p) ==
  /\ plans[p].stage \in {"approved", "applied"}
  /\ Row(p, [plans[p] EXCEPT !.stage = "frozen"])
  /\ UNCHANGED <<target, snapshot, drifted, confirmed, moves>>

(* The apply holds the gate on the stored approval; its run may fail on    *)
(* the way.  A plan that knew the host, all of it and as it is now, has    *)
(* not drifted.                                                            *)
Apply(p, done) ==
  LET plan == plans[p]
      mine == Keys({item \in plan.items : item.mutates})
  IN /\ plan.stage = "approved"
     /\ evaluateApplyGate(plan, plan.approval, AcceptedInStore(plan, plan.approval))
     /\ done \subseteq mine
     /\ target' = target \cup done
     /\ Row(p, [plan EXCEPT !.stage = "applied"])
     /\ drifted' = \/ drifted
                   \/ ~plan.source.known \/ plan.source.partial
                   \/ ~(target \subseteq plan.source.seen \cup Keys(plan.items))
     /\ confirmed' = confirmed \cup {rule \in LiveRules(plan) :
                       \E entry \in plan.approval.conflicts : entry.conflict = rule.id}
     /\ UNCHANGED <<snapshot, moves>>

Next ==
  \/ \E keys \in SUBSET Capabilities : Probe(keys) \/ Changes(keys)
  \/ \E p \in Plans :
       \/ \E items \in SUBSET Catalog : Create(p, items)
       \/ \E ack \in Acks : Approve(p, ack)
       \/ \E done \in SUBSET Capabilities : Apply(p, done)
       \/ Reject(p)

Spec == Init /\ [][Next]_vars

-----------------------------------------------------------------------------
(* "Capabilities that cannot safely co-exist on a single host"             *)
(* (catalog-conflicts.ts): no plan brings two of a blocking rule together, *)
(* with each other or with what is on the host, in one apply or in the     *)
(* applies of several plans, as long as each had seen the host as it is.   *)
ExclusivesNeverMeet == ~drifted => CompatibleWith(target)

(* Two capabilities that call for a warning are on the host together only  *)
(* when someone has acknowledged it, or they came by other hands.          *)
WarningsAreConfirmed == ~drifted => Warned(target) \subseteq confirmed
===============================================================================
