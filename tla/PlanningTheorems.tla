-------------------------- MODULE PlanningTheorems ---------------------------
(***************************************************************************)
(* The apply gate and the inbox of decisions, for any catalogue, rules,    *)
(* reviewers, candidates, snapshots, preferences and requests at once, and *)
(* any length of the history.                                              *)
(***************************************************************************)
EXTENDS ApplyGate, DecisionInbox, TLAPS

Fields == {"stage", "items", "source", "conflicts", "gates", "approval"}

IsRow(row) == DOMAIN row = Fields

IsStore == /\ plans = [p \in Plans |-> plans[p]]
           /\ \A p \in Plans : IsRow(plans[p])

(* A plan, once built, has a conflict for every rule that fires among what *)
(* it brings and what the target had when it was built: being attached     *)
(* again without the target takes none of them away.                       *)
Complete(row) ==
  row.stage # "none" => detectPlanConflicts(Keys(row.items) \cup row.source.seen)
                          \subseteq RulesOf(row.conflicts)

GateInv ==
  /\ IsStore
  /\ \A p \in Plans : Complete(plans[p])
  /\ ExclusivesNeverMeet /\ WarningsAreConfirmed

-----------------------------------------------------------------------------
(* Rules and the conflicts found by them.                                  *)
LEMMA FiresOnMore ==
  ASSUME NEW rule, NEW some, NEW more, some \subseteq more, Fires(rule, some)
  PROVE  Fires(rule, more)
BY DEF Fires

LEMMA DetectedIsComplete ==
  ASSUME NEW keys, NEW existing
  PROVE  detectPlanConflicts(keys \cup existing) \subseteq RulesOf(Detected(keys, existing))
<1> SUFFICES ASSUME NEW rule \in detectPlanConflicts(keys \cup existing)
             PROVE  \E conflict \in Detected(keys, existing) : rule = conflict.rule
  BY DEF RulesOf
<1>1. CASE rule \in detectPlanConflicts(keys)
  <2> DEFINE found == [rule |-> rule, onTarget |-> rule.keys \cap keys \cap existing # {}]
  <2>1. found \in Detected(keys, existing)
    BY <1>1 DEF Detected
  <2> QED BY <2>1
<1>2. CASE rule \notin detectPlanConflicts(keys)
  <2>1. [rule |-> rule, onTarget |-> TRUE] \in Detected(keys, existing)
    BY <1>2 DEF Detected
  <2> QED BY <2>1
<1> QED BY <1>1, <1>2

LEMMA ConflictsKeepRules ==
  ASSUME NEW keys, NEW existing, NEW before
  PROVE  RulesOf(before) \cup RulesOf(Detected(keys, existing))
           \subseteq RulesOf(Conflicts(keys, existing, before))
<1> DEFINE found == Detected(keys, existing)
           all == found \cup {conflict \in before : conflict.rule \notin RulesOf(found)}
<1>1. Conflicts(keys, existing, before) = all
  BY DEF Conflicts
<1>2. RulesOf(found) \subseteq RulesOf(all)
  BY DEF RulesOf
<1>3. ASSUME NEW conflict \in before
      PROVE  conflict.rule \in RulesOf(all)
  <2>1. CASE conflict.rule \in RulesOf(found)
    BY <1>2, <2>1
  <2>2. CASE conflict.rule \notin RulesOf(found)
    <3>1. conflict \in all
      BY <2>2
    <3> QED BY <3>1 DEF RulesOf
  <2> QED BY <2>1, <2>2
<1>4. RulesOf(before) \subseteq RulesOf(all)
  BY <1>3 DEF RulesOf
<1> QED BY <1>1, <1>2, <1>4

(* A row, field by field.                                                  *)
LEMMA AttachedFields ==
  ASSUME NEW plan, NEW existing, IsRow(plan)
  PROVE  LET row == Attached(plan, existing) IN
         /\ IsRow(row)
         /\ row.items = plan.items /\ row.source = plan.source
         /\ row.conflicts = Conflicts(Keys(plan.items), existing, plan.conflicts)
<1> DEFINE found == Conflicts(Keys(plan.items), existing, plan.conflicts)
           other == Gates(plan.items, found, plan.source.partial)
<1>1. Attached(plan, existing) = [plan EXCEPT !.conflicts = found, !.gates = other]
  BY DEF Attached
<1> HIDE DEF found, other
<1>2. LET row == [plan EXCEPT !.conflicts = found, !.gates = other] IN
      IsRow(row) /\ row.items = plan.items /\ row.source = plan.source /\ row.conflicts = found
  BY DEF IsRow, Fields
<1> QED BY <1>1, <1>2 DEF found

LEMMA DraftFields ==
  ASSUME NEW items, NEW source
  PROVE  LET row == Attached(Draft(items, source), {}) IN
         /\ IsRow(row)
         /\ row.items = items /\ row.source = source
         /\ row.conflicts = Conflicts(Keys(items), {}, Conflicts(Keys(items), source.seen, {}))
<1> DEFINE new == [NoPlan EXCEPT !.stage = "frozen", !.items = items, !.source = source]
           draft == Draft(items, source)
<1>1. IsRow(new) /\ new.items = items /\ new.source = source /\ new.conflicts = {}
  BY DEF NoPlan, IsRow, Fields
<1>2. draft = Attached(new, source.seen)
  BY DEF Draft
<1> HIDE DEF new, draft
<1>3. /\ IsRow(draft)
      /\ draft.items = items /\ draft.source = source
      /\ draft.conflicts = Conflicts(Keys(items), source.seen, {})
  BY <1>1, <1>2, AttachedFields
<1>4. LET row == Attached(draft, {}) IN
      /\ IsRow(row)
      /\ row.items = items /\ row.source = source
      /\ row.conflicts = Conflicts(Keys(items), {}, Conflicts(Keys(items), source.seen, {}))
  BY <1>3, AttachedFields
<1> QED BY <1>4 DEF draft

LEMMA DraftIsComplete ==
  ASSUME NEW items, NEW source
  PROVE  Complete(Attached(Draft(items, source), {}))
<1> DEFINE keys == Keys(items)
           first == Conflicts(keys, source.seen, {})
           second == Conflicts(keys, {}, first)
<1>1. RulesOf(Detected(keys, source.seen)) \subseteq RulesOf(first)
  BY ConflictsKeepRules
<1>2. RulesOf(first) \subseteq RulesOf(second)
  BY ConflictsKeepRules
<1>3. detectPlanConflicts(keys \cup source.seen) \subseteq RulesOf(second)
  BY <1>1, <1>2, DetectedIsComplete
<1> DEFINE row == Attached(Draft(items, source), {})
<1>4. row.items = items /\ row.source = source /\ row.conflicts = second
  BY DraftFields
<1> HIDE DEF row, second
<1>5. Complete(row)
  BY <1>3, <1>4 DEF Complete
<1> QED BY <1>5 DEF row

-----------------------------------------------------------------------------
LEMMA InitInv == Init => GateInv
<1> SUFFICES ASSUME Init PROVE GateInv
  OBVIOUS
<1>1. IsStore /\ \A p \in Plans : Complete(plans[p])
  BY DEF Init, IsStore, IsRow, Fields, Complete, NoPlan
<1>2. CompatibleWith(target) /\ confirmed = Warned(target)
  BY DEF Init
<1> QED BY <1>1, <1>2 DEF GateInv, ExclusivesNeverMeet, WarningsAreConfirmed

(* Steps on a row that leave the host alone.                               *)
LEMMA RowStep ==
  ASSUME GateInv, NEW p \in Plans, NEW row, IsRow(row), Complete(row), Row(p, row)
  PROVE  IsStore' /\ \A q \in Plans : Complete(plans'[q])
<1>1. \A q \in Plans : plans'[q] = IF q = p THEN row ELSE plans[q]
  BY DEF Row, GateInv, IsStore
<1>2. plans' = [q \in Plans |-> plans'[q]]
  BY DEF Row, GateInv, IsStore
<1> QED BY <1>1, <1>2 DEF GateInv, IsStore

LEMMA SameHost ==
  ASSUME GateInv, UNCHANGED <<target, drifted, confirmed>>
  PROVE  ExclusivesNeverMeet' /\ WarningsAreConfirmed'
BY DEF GateInv, ExclusivesNeverMeet, WarningsAreConfirmed

LEMMA SamePlans ==
  ASSUME GateInv, UNCHANGED plans
  PROVE  IsStore' /\ \A q \in Plans : Complete(plans'[q])
BY DEF GateInv, IsStore

LEMMA CreateStep ==
  ASSUME GateInv, NEW p \in Plans, NEW items, Create(p, items)
  PROVE  GateInv'
<1> DEFINE row == Attached(Draft(items, snapshot), {})
<1>1. IsRow(row) /\ Complete(row)
  BY DraftFields, DraftIsComplete
<1>2. Row(p, row)
  BY DEF Create
<1> HIDE DEF row
<1>3. IsStore' /\ \A q \in Plans : Complete(plans'[q])
  BY <1>1, <1>2, RowStep
<1> QED BY <1>3, SameHost DEF Create, GateInv

LEMMA ReviewStep ==
  ASSUME GateInv, NEW p \in Plans, NEW ack, Approve(p, ack) \/ Reject(p)
  PROVE  GateInv'
<1> DEFINE plan == plans[p]
<1>1. PICK row : /\ Row(p, row) /\ IsRow(row)
                 /\ row.items = plan.items /\ row.source = plan.source
                 /\ row.conflicts = plan.conflicts
                 /\ plan.stage # "none"
  <2>1. IsRow(plan)
    BY DEF GateInv, IsStore
  <2> HIDE DEF plan
  <2>2. \A stage, given :
          LET row == [plan EXCEPT !.stage = stage, !.approval = given] IN
          /\ IsRow(row) /\ row.items = plan.items /\ row.source = plan.source
          /\ row.conflicts = plan.conflicts
    BY <2>1 DEF IsRow, Fields
  <2>3. \A stage :
          LET row == [plan EXCEPT !.stage = stage] IN
          /\ IsRow(row) /\ row.items = plan.items /\ row.source = plan.source
          /\ row.conflicts = plan.conflicts
    BY <2>1 DEF IsRow, Fields
  <2>4. CASE Approve(p, ack)
    <3>1. Row(p, [plan EXCEPT !.stage = "approved", !.approval = ack]) /\ plan.stage # "none"
      BY <2>4 DEF Approve, plan
    <3> QED BY <2>2, <3>1
  <2>5. CASE Reject(p)
    <3>1. Row(p, [plan EXCEPT !.stage = "frozen"]) /\ plan.stage # "none"
      BY <2>5 DEF Reject, plan
    <3> QED BY <2>3, <3>1
  <2> QED BY <2>4, <2>5
<1>2. Complete(row)
  BY <1>1 DEF Complete, GateInv
<1>3. IsStore' /\ \A q \in Plans : Complete(plans'[q])
  BY <1>1, <1>2, RowStep
<1>4. UNCHANGED <<target, drifted, confirmed>>
  BY DEF Approve, Reject
<1> QED BY <1>3, <1>4, SameHost DEF GateInv

(* The gate of an apply has every rule that fires on what the host will    *)
(* hold among the live rules of the plan.                                  *)
LEMMA GateCovers ==
  ASSUME NEW plan, Complete(plan), plan.stage # "none",
         NEW keys, keys \subseteq Keys(plan.items) \cup plan.source.seen,
         NEW rule \in Rules, Fires(rule, keys)
  PROVE  rule \in LiveRules(plan)
<1>1. Fires(rule, Keys(plan.items) \cup plan.source.seen)
  BY FiresOnMore
<1>2. rule \in RulesOf(plan.conflicts)
  BY <1>1 DEF Complete, detectPlanConflicts
<1> QED BY <1>2 DEF LiveRules

LEMMA ApplyStep ==
  ASSUME GateInv, NEW p \in Plans, NEW done, Apply(p, done)
  PROVE  GateInv'
<1> DEFINE plan == plans[p]
           acknowledged == {rule \in LiveRules(plan) :
                              \E entry \in plan.approval.conflicts : entry.conflict = rule.id}
<1>1. /\ IsRow(plan) /\ Complete(plan) /\ plan.stage = "approved"
  BY DEF GateInv, IsStore, Apply
<1>2. /\ Row(p, [plan EXCEPT !.stage = "applied"])
      /\ target' = target \cup done /\ done \subseteq Keys({item \in plan.items : item.mutates})
      /\ confirmed' = confirmed \cup acknowledged
  BY DEF Apply
<1>3. ConflictsPass(plan, plan.approval)
  BY DEF Apply, evaluateApplyGate
<1>4. ~drifted' => ~drifted /\ target \subseteq plan.source.seen \cup Keys(plan.items)
  BY DEF Apply
<1> HIDE DEF plan
<1>5. IsStore' /\ \A q \in Plans : Complete(plans'[q])
  <2> DEFINE row == [plan EXCEPT !.stage = "applied"]
  <2>1. /\ IsRow(row) /\ row.items = plan.items /\ row.source = plan.source
        /\ row.conflicts = plan.conflicts
    BY <1>1 DEF IsRow, Fields
  <2>2. Row(p, row)
    BY <1>2
  <2> HIDE DEF row
  <2>3. Complete(row)
    BY <1>1, <2>1 DEF Complete
  <2> QED BY <2>1, <2>2, <2>3, RowStep
<1>6. ASSUME ~drifted', NEW rule \in Rules, Fires(rule, target')
      PROVE  ~rule.block /\ rule \in acknowledged
  <2>1. done \subseteq Keys(plan.items)
    BY <1>2 DEF Keys
  <2>2. target' \subseteq Keys(plan.items) \cup plan.source.seen
    BY <1>2, <1>4, <1>6, <2>1
  <2>3. rule \in LiveRules(plan)
    <3> DEFINE keys == target'
    <3>1. keys \subseteq Keys(plan.items) \cup plan.source.seen /\ Fires(rule, keys)
      BY <1>6, <2>2
    <3> HIDE DEF keys
    <3> QED BY <1>1, <3>1, GateCovers
  <2> QED BY <1>3, <2>3 DEF ConflictsPass
<1> HIDE DEF acknowledged
<1>7. ExclusivesNeverMeet'
  BY <1>6 DEF ExclusivesNeverMeet, CompatibleWith
<1>8. WarningsAreConfirmed'
  BY <1>2, <1>6 DEF WarningsAreConfirmed, Warned
<1> QED BY <1>5, <1>7, <1>8 DEF GateInv

LEMMA ProbeStep ==
  ASSUME GateInv, NEW seen, Probe(seen)
  PROVE  GateInv'
BY SameHost, SamePlans DEF Probe, GateInv

LEMMA ChangesStep ==
  ASSUME GateInv, NEW keys, Changes(keys)
  PROVE  GateInv'
<1>1. IsStore' /\ \A q \in Plans : Complete(plans'[q])
  BY SamePlans DEF Changes
<1>2. ExclusivesNeverMeet'
  BY DEF Changes, ExclusivesNeverMeet
<1>3. WarningsAreConfirmed'
  BY DEF Changes, WarningsAreConfirmed
<1> QED BY <1>1, <1>2, <1>3 DEF GateInv

LEMMA StepInv == GateInv /\ [Next]_vars => GateInv'
<1> SUFFICES ASSUME GateInv, [Next]_vars PROVE GateInv'
  OBVIOUS
<1>1. CASE \E keys \in SUBSET Capabilities : Probe(keys) \/ Changes(keys)
  BY <1>1, ProbeStep, ChangesStep
<1>2. CASE \E p \in Plans, items \in SUBSET Catalog : Create(p, items)
  BY <1>2, CreateStep
<1>3. CASE \E p \in Plans, ack \in Acks : Approve(p, ack)
  BY <1>3, ReviewStep
<1>4. CASE \E p \in Plans : Reject(p)
  <2>1. PICK p \in Plans : Reject(p)
    BY <1>4
  <2>2. Approve(p, NoApproval) \/ Reject(p)
    BY <2>1
  <2> QED BY <2>2, ReviewStep
<1>5. CASE \E p \in Plans, done \in SUBSET Capabilities : Apply(p, done)
  BY <1>5, ApplyStep
<1>6. CASE UNCHANGED vars
  BY <1>6, SameHost, SamePlans DEF vars, GateInv
<1> QED BY <1>1, <1>2, <1>3, <1>4, <1>5, <1>6 DEF Next

-----------------------------------------------------------------------------
(* The plans are complete and the host is sound in every state: what       *)
(* attachConflictsAndApprovalAggregate found stays found, through the      *)
(* second attaching, review and apply.                                     *)
THEOREM Invariant == Spec => []GateInv
BY InitInv, StepInv, PTL DEF Spec

(* No rule that blocks has two of its capabilities on the host, for any    *)
(* catalog, rules and plans (evaluateApplyGate).                           *)
THEOREM ExclusivesNeverMeetAlways == Spec => []ExclusivesNeverMeet
<1>1. GateInv => ExclusivesNeverMeet
  BY DEF GateInv
<1> QED BY <1>1, Invariant, PTL

(* Nor does a pair that calls for a warning get there unacknowledged.      *)
THEOREM WarningsAreConfirmedAlways == Spec => []WarningsAreConfirmed
<1>1. GateInv => WarningsAreConfirmed
  BY DEF GateInv
<1> QED BY <1>1, Invariant, PTL

-----------------------------------------------------------------------------
(* The decisions.                                                          *)
IsLog(records) == records \in Seq({records[i] : i \in DOMAIN records})
Last(indices) == \E i \in indices : \A j \in indices : i >= j

(* A key that has records has a last one. *)
HasLatest == \A k \in ItemKeys : RecordsOf(k) # {} => Last(RecordsOf(k))

(* No preference answered what is unsafe. *)
SafeRecords ==
  \A i \in DOMAIN history : Unsafe(history[i]) => requiresReviewInbox(history[i].outcome)

IsInbox == inbox = [k \in ItemKeys |-> inbox[k]]

InboxInv == IsLog(history) /\ HasLatest /\ SafeRecords /\ IsInbox /\ InboxFollowsHistory

-----------------------------------------------------------------------------
(* The rules.                                                              *)
LEMMA FirstOfRules ==
  ASSUME NEW applying \in SUBSET (1..12), NEW i \in applying
  PROVE  Min(applying) \in 1..i
<1>1. \E first \in applying : \A j \in applying : first <= j
  <2>1. CASE 1 \in applying BY <2>1
  <2>2. CASE 1 \notin applying /\ 2 \in applying BY <2>2
  <2>3. CASE 1 \notin applying /\ 2 \notin applying /\ 3 \in applying BY <2>3
  <2>4. CASE 1 \notin applying /\ 2 \notin applying /\ 3 \notin applying /\ 4 \in applying
    BY <2>4
  <2> DEFINE Low == {1, 2, 3, 4}
  <2>5. CASE applying \cap Low = {} /\ 5 \in applying BY <2>5
  <2>6. CASE applying \cap Low = {} /\ 5 \notin applying /\ 6 \in applying BY <2>6
  <2>7. CASE applying \cap Low = {} /\ applying \cap {5, 6} = {} /\ 7 \in applying BY <2>7
  <2>8. CASE applying \cap Low = {} /\ applying \cap {5, 6, 7} = {} /\ 8 \in applying BY <2>8
  <2> DEFINE Mid == {5, 6, 7, 8}
  <2>9. CASE applying \cap (Low \cup Mid) = {} /\ 9 \in applying BY <2>9
  <2>10. CASE applying \cap (Low \cup Mid) = {} /\ 9 \notin applying /\ 10 \in applying BY <2>10
  <2>11. CASE applying \cap (Low \cup Mid) = {} /\ applying \cap {9, 10} = {} /\ 11 \in applying
    BY <2>11
  <2>12. CASE applying \cap (Low \cup Mid) = {} /\ applying \cap {9, 10, 11} = {}
    BY <2>12
  <2> QED BY <2>1, <2>2, <2>3, <2>4, <2>5, <2>6, <2>7, <2>8, <2>9, <2>10, <2>11, <2>12
<1> DEFINE least == Min(applying)
<1>2. least \in applying /\ least <= i
  BY <1>1 DEF Min
<1> HIDE DEF least
<1>3. least \in 1..i
  BY <1>2
<1> QED
  BY <1>3 DEF least

(* What is unsafe needs a person, whatever is wished for.                  *)
LEMMA SafeRules ==
  ASSUME NEW facts, NEW strategy, NEW policy, NEW wish, NEW under,
         \/ facts.database /\ ~strategy
         \/ facts.secrets # {} /\ ~policy
         \/ facts.blocked
         \/ under \in facts.thin
  PROVE  requiresReviewInbox(classifyDecision(facts, strategy, policy, wish, under))
<1> DEFINE Rule(applies, outcome) == [applies |-> applies, outcome |-> outcome]
           rules ==
             <<Rule(facts.database /\ ~strategy, "required-decision"),
               Rule(facts.secrets # {} /\ ~policy, "required-decision"),
               Rule(facts.blocked, "blocker"),
               Rule(under \in facts.thin, "blocker"),
               Rule(wish = "required-decision", "required-decision"),
               Rule(wish = "record-only" /\ facts.minor, "record-only"),
               Rule(wish = "hidden-noise" /\ facts.faint, "hidden-noise"),
               Rule(facts.ignored, "hidden-noise"),
               Rule(under \in facts.sure, "auto-staged"),
               Rule(facts.faint, "record-only"),
               Rule(facts.costly, "required-decision"),
               Rule(TRUE, "suggested-decision")>>
           applying == {i \in DOMAIN rules : rules[i].applies}
<1>1. DOMAIN rules = 1..12
  OBVIOUS
<1>2. /\ rules[1].applies <=> facts.database /\ ~strategy
      /\ rules[2].applies <=> facts.secrets # {} /\ ~policy
      /\ rules[3].applies <=> facts.blocked
      /\ rules[4].applies <=> under \in facts.thin
  OBVIOUS
<1>3. /\ rules[1].outcome = "required-decision" /\ rules[2].outcome = "required-decision"
      /\ rules[3].outcome = "blocker" /\ rules[4].outcome = "blocker"
  OBVIOUS
<1>4. classifyDecision(facts, strategy, policy, wish, under) = rules[Min(applying)].outcome
  BY DEF classifyDecision
<1> HIDE DEF rules
<1>5. \E i \in 1..4 : i \in applying
  BY <1>1, <1>2
<1> HIDE DEF applying
<1>6. applying \in SUBSET (1..12)
  BY <1>1 DEF applying
<1>7. PICK i \in 1..4 : i \in applying
  BY <1>5
<1>8. Min(applying) \in 1..i
  BY <1>6, <1>7, FirstOfRules
<1>9. Min(applying) \in 1..4
  BY <1>7, <1>8
<1> QED
  BY <1>3, <1>4, <1>9 DEF requiresReviewInbox

-----------------------------------------------------------------------------
(* The history.                                                            *)
Start(records) == IF Len(records) >= MaxHistory THEN Len(records) + 2 - MaxHistory ELSE 1

(* The newest record is kept and the older ones are, from some place on.   *)
LEMMA Appended ==
  ASSUME NEW records, IsLog(records), NEW record
  PROVE  LET kept == Trimmed(Append(records, record))
             m == Start(records)
         IN /\ m \in 1..Len(records) + 1
            /\ IsLog(kept) /\ Len(kept) = Len(records) + 2 - m /\ DOMAIN kept = 1..Len(kept)
            /\ kept[Len(kept)] = record
            /\ \A i \in 1..Len(records) + 1 - m : kept[i] = records[i + m - 1]
<1> DEFINE longer == Append(records, record)
           kept == Trimmed(longer)
           m == Start(records)
           All == {records[i] : i \in DOMAIN records} \cup {record}
<1>1. records \in Seq(All) /\ Len(records) \in Nat /\ DOMAIN records = 1..Len(records)
  BY DEF IsLog
<1>2. /\ longer \in Seq(All) /\ Len(longer) = Len(records) + 1
      /\ longer[Len(records) + 1] = record
      /\ \A i \in 1..Len(records) : longer[i] = records[i]
  BY <1>1
<1>3. MaxHistory \in Nat \ {0}
  BY InboxAssumptions
<1>4. m \in 1..Len(records) + 1
  BY <1>1, <1>3 DEF Start
<1>5. kept = SubSeq(longer, m, Len(longer))
  <2>1. kept = SubSeq(longer, IF Len(longer) > MaxHistory THEN Len(longer) - MaxHistory + 1 ELSE 1,
                      Len(longer))
    BY DEF Trimmed
  <2>2. (IF Len(longer) > MaxHistory THEN Len(longer) - MaxHistory + 1 ELSE 1) = m
    BY <1>1, <1>2, <1>3 DEF Start
  <2> QED
    BY <2>1, <2>2
<1> HIDE DEF longer, m
<1>6. /\ kept \in Seq(All) /\ Len(kept) = Len(records) + 2 - m
      /\ DOMAIN kept = 1..Len(kept)
      /\ \A i \in 1..Len(kept) : kept[i] = longer[i + m - 1]
  BY <1>1, <1>2, <1>4, <1>5
<1> HIDE DEF kept
<1>7. IsLog(kept)
  BY <1>6 DEF IsLog
<1>8. kept[Len(kept)] = record
  BY <1>1, <1>2, <1>4, <1>6
<1>9. \A i \in 1..Len(records) + 1 - m : kept[i] = records[i + m - 1]
  BY <1>1, <1>2, <1>4, <1>6
<1> QED
  BY <1>4, <1>6, <1>7, <1>8, <1>9 DEF kept, longer, m

RecordsIn(records, k) == {i \in DOMAIN records : records[i].key = k}
LatestIn(records, k) ==
  IF RecordsIn(records, k) = {} THEN NoRecord ELSE records[Max(RecordsIn(records, k))]

LEMMA LatestIs ==
  ASSUME NEW records, IsLog(records), NEW k, NEW i \in RecordsIn(records, k),
         \A j \in RecordsIn(records, k) : i >= j
  PROVE  LatestIn(records, k) = records[i]
<1>1. RecordsIn(records, k) \subseteq Nat
  BY DEF RecordsIn, IsLog
<1>2. Max(RecordsIn(records, k)) = i
  BY <1>1 DEF Max
<1> QED
  BY <1>2 DEF LatestIn

(* The record is the latest of its key, and of the other keys the latest   *)
(* stays as long as it is kept.                                            *)
LEMMA LatestAppended ==
  ASSUME IsLog(history), HasLatest, NEW record,
         history' = Trimmed(Append(history, record))
  PROVE  /\ IsLog(history)' /\ HasLatest'
         /\ Latest(record.key)' = record
         /\ \A k \in ItemKeys \ {record.key} : Latest(k)' = NoRecord \/ Latest(k)' = Latest(k)
         /\ \A i \in DOMAIN history' :
              history'[i] = record \/ \E j \in DOMAIN history : history'[i] = history[j]
<1> DEFINE m == Start(history)
<1>1. Len(history) \in Nat /\ DOMAIN history = 1..Len(history)
  BY DEF IsLog
<1>2. /\ m \in 1..Len(history) + 1
      /\ IsLog(history') /\ Len(history') = Len(history) + 2 - m
      /\ DOMAIN history' = 1..Len(history')
      /\ history'[Len(history')] = record
      /\ \A i \in 1..Len(history) + 1 - m : history'[i] = history[i + m - 1]
  BY Appended
<1> HIDE DEF m
<1>3. Len(history') \in DOMAIN history' /\ \A i \in DOMAIN history' : i <= Len(history')
  BY <1>1, <1>2
<1>4. ASSUME NEW i \in DOMAIN history', i # Len(history')
      PROVE  /\ i \in 1..Len(history) + 1 - m /\ i + m - 1 \in DOMAIN history
             /\ history'[i] = history[i + m - 1]
  <2>1. i \in 1..Len(history')
    BY <1>2
  <2>2. i \in 1..Len(history) + 1 - m
    BY <1>1, <1>2, <1>4, <2>1
  <2>3. i + m - 1 \in 1..Len(history)
    BY <1>1, <1>2, <2>2
  <2> QED
    BY <1>1, <1>2, <2>2, <2>3
<1>5. /\ Len(history') \in RecordsIn(history', record.key)
      /\ \A j \in RecordsIn(history', record.key) : Len(history') >= j
  BY <1>2, <1>3 DEF RecordsIn
<1>6. LatestIn(history', record.key) = record
  BY <1>2, <1>5, LatestIs
<1>7. ASSUME NEW k \in ItemKeys \ {record.key}, RecordsIn(history', k) # {}
      PROVE  /\ Last(RecordsIn(history', k))
             /\ LatestIn(history', k) = LatestIn(history, k)
  <2>1. ASSUME NEW i \in RecordsIn(history', k)
        PROVE  i \in DOMAIN history' /\ i # Len(history') /\ i + m - 1 \in RecordsIn(history, k)
    <3>1. i \in DOMAIN history' /\ history'[i].key = k
      BY DEF RecordsIn
    <3>2. i # Len(history')
      BY <1>2, <1>7, <3>1
    <3> QED
      BY <1>4, <3>1, <3>2 DEF RecordsIn
  <2>2. PICK last \in RecordsIn(history, k) : \A j \in RecordsIn(history, k) : last >= j
    BY <1>7, <2>1 DEF HasLatest, Last, RecordsOf, RecordsIn
  <2>3. LatestIn(history, k) = history[last]
    BY <2>2, LatestIs
  <2>4. PICK i \in RecordsIn(history', k) : TRUE
    BY <1>7
  <2>5. last \in 1..Len(history) /\ i \in 1..Len(history') /\ last >= i + m - 1
    BY <1>1, <1>2, <2>1, <2>2 DEF RecordsIn
  <2>6. last + 1 - m \in 1..Len(history) + 1 - m
    BY <1>1, <1>2, <2>5
  <2>7. history'[last + 1 - m] = history[last]
    BY <1>1, <1>2, <2>5, <2>6
  <2>8. last + 1 - m \in RecordsIn(history', k)
    BY <1>1, <1>2, <2>2, <2>6, <2>7 DEF RecordsIn
  <2>9. \A j \in RecordsIn(history', k) : last + 1 - m >= j
    BY <1>1, <1>2, <2>1, <2>2, <2>5 DEF RecordsIn
  <2>10. LatestIn(history', k) = history'[last + 1 - m]
    BY <1>2, <2>8, <2>9, LatestIs
  <2> QED
    BY <2>3, <2>7, <2>8, <2>9, <2>10 DEF Last
<1>8. HasLatest'
  BY <1>5, <1>7 DEF HasLatest, Last, RecordsOf, RecordsIn
<1>9. \A k \in ItemKeys \ {record.key} : Latest(k)' = NoRecord \/ Latest(k)' = Latest(k)
  BY <1>7 DEF Latest, LatestIn, RecordsOf, RecordsIn
<1>10. Latest(record.key)' = record
  BY <1>6 DEF Latest, LatestIn, RecordsOf, RecordsIn
<1>11. \A i \in DOMAIN history' :
         history'[i] = record \/ \E j \in DOMAIN history : history'[i] = history[j]
  BY <1>2, <1>4
<1>12. IsLog(history)'
  BY <1>2 DEF IsLog
<1> QED
  BY <1>8, <1>9, <1>10, <1>11, <1>12

-----------------------------------------------------------------------------
(* The steps.                                                              *)
LEMMA EvaluationIsSafe ==
  ASSUME NEW key, NEW read
  PROVE  /\ Evaluation(key, read).key = key
         /\ Unsafe(Evaluation(key, read)) => requiresReviewInbox(Evaluation(key, read).outcome)
<1> DEFINE facts == Sees[key.snapshot][key.candidate]
           strategy == facts.database => read.data[key.candidate] = "confirmed"
           policy == \A b \in facts.secrets : read.config[b] = "keptOut"
           wish == findBestDecisionPreference(key.candidate).wish
           record == Evaluation(key, read)
<1>1. /\ record.key = key /\ record.profile = profile
      /\ record.strategy <=> strategy
      /\ record.policy <=> policy
      /\ record.outcome = classifyDecision(facts, strategy, policy, wish, profile)
  BY DEF Evaluation
<1> HIDE DEF record
<1>2. Unsafe(record) => ~strategy \/ ~policy \/ facts.blocked \/ profile \in facts.thin
  BY <1>1 DEF Unsafe
<1>3. ~strategy => facts.database /\ ~strategy
  OBVIOUS
<1>4. ~policy => facts.secrets # {} /\ ~policy
  OBVIOUS
<1> HIDE DEF strategy, policy, wish, facts
<1>5. Unsafe(record) => requiresReviewInbox(classifyDecision(facts, strategy, policy, wish, profile))
  BY <1>2, <1>3, <1>4, SafeRules
<1> QED
  BY <1>1, <1>5 DEF record

LEMMA StepElsewhere ==
  ASSUME InboxInv, UNCHANGED <<history, inbox>>
  PROVE  InboxInv'
BY DEF InboxInv, HasLatest, SafeRecords, IsInbox, InboxFollowsHistory, Latest, RecordsOf, Last

LEMMA StepOfRecord ==
  ASSUME InboxInv, NEW record, Unsafe(record) => requiresReviewInbox(record.outcome),
         Record(record)
  PROVE  InboxInv'
<1>1. CASE record = Latest(record.key)
  BY <1>1, StepElsewhere DEF Record
<1>2. CASE record # Latest(record.key)
  <2> DEFINE key == record.key
             item == IF requiresReviewInbox(record.outcome) THEN Upserted(inbox[key])
                     ELSE Withdrawn(inbox[key])
  <2>1. /\ history' = Trimmed(Append(history, record))
        /\ inbox' = [inbox EXCEPT ![key] = item]
    BY <1>2 DEF Record
  <2>2. /\ IsLog(history)' /\ HasLatest'
        /\ Latest(key)' = record
        /\ \A k \in ItemKeys \ {key} : Latest(k)' = NoRecord \/ Latest(k)' = Latest(k)
        /\ \A i \in DOMAIN history' :
             history'[i] = record \/ \E j \in DOMAIN history : history'[i] = history[j]
    BY <2>1, LatestAppended DEF InboxInv
  <2>3. SafeRecords'
    BY <2>2 DEF InboxInv, SafeRecords, Unsafe
  <2>4. /\ item.status = "open" <=> requiresReviewInbox(record.outcome)
    BY DEF Upserted, Withdrawn
  <2> HIDE DEF item
  <2>5. /\ IsInbox' /\ (key \in ItemKeys => inbox'[key] = item)
        /\ \A k \in ItemKeys \ {key} : inbox'[k] = inbox[k]
    BY <2>1 DEF InboxInv, IsInbox
  <2>6. ASSUME NEW k \in ItemKeys, Latest(k)' # NoRecord
        PROVE  /\ Unsafe(Latest(k)') => requiresReviewInbox(Latest(k)'.outcome)
               /\ requiresReviewInbox(Latest(k)'.outcome) =>
                    \/ inbox'[k].status = "open"
                    \/ inbox'[k].status = "judged" /\ inbox'[k].on = Latest(k)'
               /\ ~requiresReviewInbox(Latest(k)'.outcome) => inbox'[k].status # "open"
    <3>1. CASE k = key
      BY <2>2, <2>4, <2>5, <3>1
    <3>2. CASE k # key
      BY <2>2, <2>5, <2>6, <3>2 DEF InboxInv, InboxFollowsHistory
    <3> QED
      BY <3>1, <3>2
  <2>7. InboxFollowsHistory'
    BY <2>6 DEF InboxFollowsHistory, Unsafe
  <2> QED
    BY <2>2, <2>3, <2>5, <2>7 DEF InboxInv
<1> QED
  BY <1>1, <1>2

LEMMA StepOfJudging ==
  ASSUME InboxInv, NEW k \in ItemKeys, UNCHANGED history,
         inbox' = [inbox EXCEPT ![k] = Judged(k)]
  PROVE  InboxInv'
<1>1. IsLog(history)' /\ HasLatest' /\ SafeRecords'
  BY DEF InboxInv, HasLatest, SafeRecords, RecordsOf, Last
<1>2. \A other \in ItemKeys : Latest(other)' = Latest(other)
  BY DEF Latest, RecordsOf
<1>3. /\ inbox' = [other \in ItemKeys |-> inbox'[other]]
      /\ inbox'[k] = Judged(k)
      /\ \A other \in ItemKeys \ {k} : inbox'[other] = inbox[other]
  BY DEF InboxInv, IsInbox
<1>4. InboxFollowsHistory'
  BY <1>2, <1>3 DEF InboxInv, InboxFollowsHistory, Judged
<1> QED
  BY <1>1, <1>3, <1>4 DEF InboxInv, IsInbox

(* For any preferences, profiles, facts, requests at once and trimmed      *)
(* history: what needs a person is open or was judged on the evaluation    *)
(* that holds, nothing else is open, and no preference answers what is     *)
(* unsafe (evaluateAndRecordDecision, resolveDecisionReview).              *)
THEOREM InboxFollowsHistoryAlways ==
  InboxInit /\ [][InboxNext]_inboxVars => []InboxFollowsHistory
<1>1. InboxInit => InboxInv
  BY DEF InboxInit, InboxInv, IsLog, HasLatest, SafeRecords, IsInbox, InboxFollowsHistory,
         Latest, RecordsOf
<1>2. InboxInv /\ [InboxNext]_inboxVars => InboxInv'
  <2> SUFFICES ASSUME InboxInv, [InboxNext]_inboxVars PROVE InboxInv'
    OBVIOUS
  <2>1. ASSUME NEW a \in DOMAIN asks, NEW c \in Candidates, Evaluate(a, c) PROVE InboxInv'
    <3>1. PICK key : Record(Evaluation(key, asks[a].rows))
      BY <2>1 DEF Evaluate
    <3> QED
      BY <3>1, EvaluationIsSafe, StepOfRecord
  <2>2. ASSUME NEW a \in DOMAIN asks, NEW k \in ItemKeys, Resolve(a, k) PROVE InboxInv'
    BY <2>2, StepOfJudging DEF Resolve
  <2>3. ASSUME NEW k \in ItemKeys, Review(k) PROVE InboxInv'
    BY <2>3, StepOfJudging DEF Review
  <2>4. CASE \E a \in DOMAIN asks : Load(a) \/ ListItems(a)
    BY <2>4, StepElsewhere DEF Load, ListItems
  <2>5. CASE Reread
    BY <2>5, StepElsewhere DEF Reread
  <2>6. CASE \E n \in Snapshots : ProbeEnds(n)
    BY <2>6, StepElsewhere DEF ProbeEnds
  <2>7. ASSUME NEW s, NEW what, NEW status,
               DecideData(s, what, status) \/ DecideConfig(s, what, status) \/ Retarget(s, what)
        PROVE  InboxInv'
    BY <2>7, StepElsewhere DEF DecideData, DecideConfig, Retarget
  <2>8. ASSUME NEW p, NEW wish, Forget(p) \/ Remember(p, wish) PROVE InboxInv'
    BY <2>8, StepElsewhere DEF Forget, Remember
  <2>9. CASE \E name \in Profiles : AssignProfile(name)
    BY <2>9, StepElsewhere DEF AssignProfile
  <2>10. CASE UNCHANGED inboxVars
    BY <2>10, StepElsewhere DEF inboxVars
  <2>11. CASE UserStep
    BY <2>3, <2>6, <2>7, <2>8, <2>9, <2>11 DEF UserStep
  <2> QED
    BY <2>1, <2>2, <2>4, <2>5, <2>10, <2>11 DEF InboxNext
<1>3. InboxInv => InboxFollowsHistory
  BY DEF InboxInv
<1> QED
  BY <1>1, <1>2, <1>3, PTL
-----------------------------------------------------------------------------
(* What a decision under way knows of the items it concerns.               *)
AskFields == {"pc", "snapshot", "rows", "attached", "todo", "since", "cut"}

Knows(a, ask, box) ==
  /\ DOMAIN ask = AskFields
  /\ a.decides # {} => ask.pc # "evaluating"
  /\ a.decides # {} /\ ask.pc \in {"resolving", "done"} /\ ~ask.cut =>
       \A k \in ItemKeys :
         /\ k.snapshot = ask.snapshot /\ k.candidate \in a.decides
         /\ box[k].status = "open"
         => k \in ask.since \/ (ask.pc = "resolving" /\ k \in ask.todo)

AsksInv ==
  /\ asks = [a \in DOMAIN asks |-> asks[a]] /\ IsInbox
  /\ \A a \in DOMAIN asks : Knows(a, asks[a], inbox)

(* Its own steps aside, a request learns no less and no item opens unseen. *)
Alike(one, other) ==
  /\ DOMAIN one = DOMAIN other
  /\ one.pc = other.pc /\ one.snapshot = other.snapshot /\ one.todo = other.todo
  /\ one.since = other.since /\ one.cut = other.cut

LEMMA AlikeKnows ==
  ASSUME NEW a, NEW one, NEW other, Alike(one, other), NEW box, NEW later,
         \A k \in ItemKeys : later[k].status = "open" => box[k].status = "open",
         Knows(a, one, box)
  PROVE  Knows(a, other, later)
BY DEF Knows, Alike

LEMMA OthersStep ==
  ASSUME AsksInv, DOMAIN asks' = DOMAIN asks,
         asks' = [a \in DOMAIN asks |-> asks'[a]],
         \A a \in DOMAIN asks : Alike(asks[a], asks'[a]), UNCHANGED inbox
  PROVE  AsksInv'
BY AlikeKnows DEF AsksInv, IsInbox

LEMMA EndedFields ==
  ASSUME NEW ask, DOMAIN ask = AskFields
  PROVE  /\ DOMAIN Ended(ask) = AskFields
         /\ Ended(ask).snapshot = ask.snapshot /\ Ended(ask).since = ask.since
         /\ Ended(ask).cut = ask.cut /\ Ended(ask).todo = ask.todo
         /\ Ended(ask).pc = IF ask.todo = {} THEN "done" ELSE ask.pc
<1>1. CASE ask.todo = {}
  BY <1>1 DEF Ended, AskFields
<1>2. CASE ask.todo # {}
  BY <1>2 DEF Ended
<1> QED BY <1>1, <1>2

LEMMA AdvancedFields ==
  ASSUME NEW ask, DOMAIN ask = AskFields, NEW what
  PROVE  /\ DOMAIN Advanced(ask, what) = AskFields
         /\ Advanced(ask, what).snapshot = ask.snapshot
         /\ Advanced(ask, what).since = ask.since /\ Advanced(ask, what).cut = ask.cut
         /\ Advanced(ask, what).todo = ask.todo \ {what}
         /\ Advanced(ask, what).pc = IF ask.todo \ {what} = {} THEN "done" ELSE ask.pc
<1> DEFINE less == [ask EXCEPT !.todo = @ \ {what}]
<1>1. /\ DOMAIN less = AskFields /\ less.snapshot = ask.snapshot /\ less.since = ask.since
      /\ less.cut = ask.cut /\ less.todo = ask.todo \ {what} /\ less.pc = ask.pc
  BY DEF AskFields
<1>2. Advanced(ask, what) = Ended(less)
  BY DEF Advanced
<1> HIDE DEF less
<1> QED BY <1>1, <1>2, EndedFields

LEMMA LoadKnows ==
  ASSUME AsksInv, NEW a \in DOMAIN asks, Load(a)
  PROVE  AsksInv'
<1> DEFINE read == [asks[a] EXCEPT !.snapshot = current, !.rows = rows[a.session],
                                   !.attached = TRUE]
           judging == [read EXCEPT !.pc = "listing"]
           begun == [read EXCEPT !.pc = "evaluating", !.todo = Shown(current)]
<1>1. DOMAIN asks[a] = AskFields
  BY DEF AsksInv, Knows
<1>2. /\ DOMAIN judging = AskFields /\ judging.pc = "listing" /\ DOMAIN begun = AskFields
  BY <1>1 DEF AskFields
<1>3. asks' = [asks EXCEPT ![a] = IF a.decides = {} THEN Ended(begun) ELSE judging]
  BY DEF Load
<1>4. UNCHANGED inbox
  BY DEF Load
<1> HIDE DEF judging, begun
<1>5. Knows(a, IF a.decides = {} THEN Ended(begun) ELSE judging, inbox)
  <2>1. CASE a.decides = {}
    BY <1>2, <2>1, EndedFields DEF Knows
  <2>2. CASE a.decides # {}
    BY <1>2, <2>2 DEF Knows
  <2> QED BY <2>1, <2>2
<1> QED BY <1>3, <1>4, <1>5 DEF AsksInv, IsInbox

LEMMA ListKnows ==
  ASSUME AsksInv, NEW a \in DOMAIN asks, ListItems(a)
  PROVE  AsksInv'
<1>1. PICK listed \in SUBSET OpenItems :
        asks' = [asks EXCEPT ![a] =
          Ended([@ EXCEPT !.pc = "resolving", !.todo = {k \in listed : Concerns(a, k)},
                          !.cut = listed # OpenItems])]
  BY DEF ListItems
<1>2. UNCHANGED inbox
  BY DEF ListItems
<1> DEFINE begun == [asks[a] EXCEPT !.pc = "resolving", !.todo = {k \in listed : Concerns(a, k)},
                                    !.cut = listed # OpenItems]
<1>3. DOMAIN asks[a] = AskFields
  BY DEF AsksInv, Knows
<1>4. /\ DOMAIN begun = AskFields /\ begun.pc = "resolving"
      /\ begun.todo = {k \in listed : Concerns(a, k)}
      /\ begun.cut <=> listed # OpenItems
      /\ begun.snapshot = asks[a].snapshot
  BY <1>3 DEF AskFields
<1>5. asks' = [asks EXCEPT ![a] = Ended(begun)]
  BY <1>1
<1> HIDE DEF begun
<1>6. /\ DOMAIN Ended(begun) = AskFields /\ Ended(begun).pc \in {"resolving", "done"}
      /\ Ended(begun).cut = begun.cut /\ Ended(begun).snapshot = asks[a].snapshot
      /\ Ended(begun).todo = begun.todo
      /\ Ended(begun).pc = IF begun.todo = {} THEN "done" ELSE "resolving"
  BY <1>4, EndedFields
<1>7. ASSUME ~begun.cut, NEW k \in ItemKeys, k.snapshot = asks[a].snapshot,
             k.candidate \in a.decides, inbox[k].status = "open"
      PROVE  k \in begun.todo
  BY <1>4, <1>7 DEF OpenItems, Concerns
<1>8. Knows(a, Ended(begun), inbox)
  BY <1>6, <1>7 DEF Knows
<1> QED BY <1>2, <1>5, <1>8 DEF AsksInv, IsInbox

(* A person's word closes the item it is on. *)
LEMMA JudgedCloses ==
  ASSUME IsInbox, NEW k \in ItemKeys, inbox' = [inbox EXCEPT ![k] = Judged(k)]
  PROVE  /\ IsInbox' /\ inbox'[k].status # "open"
         /\ \A other \in ItemKeys : inbox'[other].status = "open" => inbox[other].status = "open"
BY DEF IsInbox, Judged

LEMMA ResolveKnows ==
  ASSUME AsksInv, NEW a \in DOMAIN asks, NEW k \in ItemKeys, Resolve(a, k)
  PROVE  AsksInv'
<1>1. /\ asks[a].pc = "resolving" /\ inbox' = [inbox EXCEPT ![k] = Judged(k)]
      /\ asks' = [asks EXCEPT ![a] = Advanced(asks[a], k)]
  BY DEF Resolve, At
<1>2. Knows(a, asks[a], inbox)
  BY DEF AsksInv
<1>3. /\ IsInbox' /\ inbox'[k].status # "open"
      /\ \A other \in ItemKeys : inbox'[other].status = "open" => inbox[other].status = "open"
  BY <1>1, JudgedCloses DEF AsksInv
<1> DEFINE then == Advanced(asks[a], k)
<1>4. /\ DOMAIN then = AskFields /\ then.snapshot = asks[a].snapshot
      /\ then.since = asks[a].since /\ then.cut = asks[a].cut
      /\ then.todo = asks[a].todo \ {k}
      /\ then.pc = IF asks[a].todo \ {k} = {} THEN "done" ELSE "resolving"
  BY <1>1, <1>2, AdvancedFields DEF Knows
<1> HIDE DEF then
<1>5. Knows(a, then, inbox')
  <2>1. ASSUME ~then.cut, a.decides # {}, NEW other \in ItemKeys,
               other.snapshot = then.snapshot, other.candidate \in a.decides,
               inbox'[other].status = "open"
        PROVE  other \in then.since \/ (then.pc = "resolving" /\ other \in then.todo)
    <3>1. other # k /\ inbox[other].status = "open"
      BY <1>3, <2>1
    <3>2. other \in asks[a].since \/ other \in asks[a].todo
      BY <1>1, <1>2, <1>4, <2>1, <3>1 DEF Knows
    <3> QED BY <1>4, <3>1, <3>2
  <2> QED BY <1>4, <2>1 DEF Knows
<1>6. \A b \in DOMAIN asks : Knows(b, asks[b], inbox')
  <2>1. \A b \in DOMAIN asks : Alike(asks[b], asks[b])
    BY DEF Alike
  <2> QED BY <1>3, <2>1, AlikeKnows DEF AsksInv
<1>7. /\ asks' = [b \in DOMAIN asks' |-> asks'[b]] /\ DOMAIN asks' = DOMAIN asks
      /\ asks'[a] = then /\ \A b \in DOMAIN asks : b # a => asks'[b] = asks[b]
  BY <1>1 DEF AsksInv, then
<1> QED BY <1>3, <1>5, <1>6, <1>7 DEF AsksInv

LEMMA ReviewKnows ==
  ASSUME AsksInv, NEW k \in ItemKeys, Review(k)
  PROVE  AsksInv'
<1>1. inbox' = [inbox EXCEPT ![k] = Judged(k)] /\ UNCHANGED asks
  BY DEF Review
<1>2. /\ IsInbox'
      /\ \A other \in ItemKeys : inbox'[other].status = "open" => inbox[other].status = "open"
  BY <1>1, JudgedCloses DEF AsksInv
<1>3. \A b \in DOMAIN asks : Alike(asks[b], asks[b])
  BY DEF Alike
<1>4. \A b \in DOMAIN asks : Knows(b, asks[b], inbox')
  BY <1>2, <1>3, AlikeKnows DEF AsksInv
<1>5. asks' = asks
  BY <1>1
<1> QED BY <1>2, <1>4, <1>5 DEF AsksInv

(* An evaluation opens the item of its key and no other. *)
LEMMA RecordOpens ==
  ASSUME IsInbox, NEW record, Record(record)
  PROVE  /\ IsInbox'
         /\ \A k \in ItemKeys \ {record.key} :
              inbox'[k].status = "open" => inbox[k].status = "open"
<1>1. UNCHANGED inbox \/ \E item : inbox' = [inbox EXCEPT ![record.key] = item]
  BY DEF Record
<1> QED BY <1>1 DEF IsInbox

LEMMA EvaluateKnows ==
  ASSUME AsksInv, NEW a \in DOMAIN asks, NEW c \in Candidates, Evaluate(a, c)
  PROVE  AsksInv'
<1> DEFINE key == [candidate |-> c, snapshot |-> asks[a].snapshot, target |-> asks[a].rows.target]
<1>1. /\ asks[a].pc = "evaluating" /\ Record(Evaluation(key, asks[a].rows))
      /\ asks' = [b \in DOMAIN asks |->
           IF b = a THEN Advanced(asks[a], c)
           ELSE IF b.decides # {} /\ (At(b, "resolving") \/ At(b, "done"))
                THEN [asks[b] EXCEPT !.since = @ \cup {key}] ELSE asks[b]]
  BY DEF Evaluate, At
<1> HIDE DEF key
<1>2. /\ IsInbox'
      /\ \A k \in ItemKeys \ {key} : inbox'[k].status = "open" => inbox[k].status = "open"
  BY <1>1, RecordOpens, EvaluationIsSafe DEF AsksInv
<1>3. Knows(a, Advanced(asks[a], c), inbox')
  <2>1. a.decides = {} /\ DOMAIN asks[a] = AskFields
    BY <1>1 DEF AsksInv, Knows
  <2> QED BY <2>1, AdvancedFields DEF Knows
<1>4. ASSUME NEW b \in DOMAIN asks, b # a PROVE Knows(b, asks'[b], inbox')
  <2>0. Knows(b, asks[b], inbox)
    BY DEF AsksInv
  <2>1. CASE b.decides # {} /\ asks[b].pc \in {"resolving", "done"}
    <3>1. asks'[b] = [asks[b] EXCEPT !.since = @ \cup {key}]
      BY <1>1, <1>4, <2>1 DEF At
    <3>2. /\ DOMAIN asks'[b] = AskFields /\ asks'[b].since = asks[b].since \cup {key}
          /\ asks'[b].pc = asks[b].pc /\ asks'[b].snapshot = asks[b].snapshot
          /\ asks'[b].todo = asks[b].todo /\ asks'[b].cut = asks[b].cut
      BY <2>0, <3>1 DEF Knows, AskFields
    <3> QED BY <1>2, <2>0, <3>2 DEF Knows
  <2>2. CASE ~(b.decides # {} /\ asks[b].pc \in {"resolving", "done"})
    <3>1. asks'[b] = asks[b]
      BY <1>1, <1>4, <2>2 DEF At
    <3> QED BY <2>0, <2>2, <3>1 DEF Knows
  <2> QED BY <2>1, <2>2
<1>5. asks' = [b \in DOMAIN asks' |-> asks'[b]] /\ DOMAIN asks' = DOMAIN asks
  BY <1>1
<1>6. asks'[a] = Advanced(asks[a], c)
  BY <1>1
<1> QED BY <1>2, <1>3, <1>4, <1>5, <1>6 DEF AsksInv

(* What the user changes in the rows a request has read. *)
LEMMA RowsChange ==
  ASSUME AsksInv,
         \/ Reread
         \/ \E s, what, status :
              DecideData(s, what, status) \/ DecideConfig(s, what, status) \/ Retarget(s, what)
  PROVE  AsksInv'
<1>1. UNCHANGED inbox
  BY DEF Reread, DecideData, DecideConfig, Retarget
<1>2. DOMAIN asks' = DOMAIN asks /\ asks' = [a \in DOMAIN asks |-> asks'[a]]
  BY DEF Reread, DecideData, DecideConfig, Retarget
<1>3. ASSUME NEW a \in DOMAIN asks PROVE Alike(asks[a], asks'[a])
  <2>0. DOMAIN asks[a] = AskFields
    BY DEF AsksInv, Knows
  <2>1. ASSUME NEW seen, asks'[a] = [asks[a] EXCEPT !.rows = seen] PROVE Alike(asks[a], asks'[a])
    BY <2>0, <2>1 DEF Alike, AskFields
  <2>2. CASE Reread
    BY <2>0, <2>2 DEF Reread, Alike, AskFields
  <2>3. ASSUME NEW s, NEW what, NEW status, DecideData(s, what, status)
        PROVE  Alike(asks[a], asks'[a])
    <3>1. \/ asks'[a] = asks[a]
          \/ asks'[a] = [asks[a] EXCEPT !.rows.data[what] = status]
      BY <2>3 DEF DecideData
    <3> QED BY <2>0, <3>1 DEF Alike, AskFields
  <2>4. ASSUME NEW s, NEW what, NEW status, DecideConfig(s, what, status)
        PROVE  Alike(asks[a], asks'[a])
    <3>1. \/ asks'[a] = asks[a]
          \/ asks'[a] = [asks[a] EXCEPT !.rows.config[what] = status]
      BY <2>4 DEF DecideConfig
    <3> QED BY <2>0, <3>1 DEF Alike, AskFields
  <2>5. ASSUME NEW s, NEW what, Retarget(s, what) PROVE Alike(asks[a], asks'[a])
    <3>1. \/ asks'[a] = asks[a]
          \/ asks'[a] = [asks[a] EXCEPT !.rows = [@ EXCEPT !.target = what]]
      BY <2>5 DEF Retarget
    <3> QED BY <2>1, <3>1 DEF Alike
  <2> QED BY <2>2, <2>3, <2>4, <2>5
<1> QED BY <1>1, <1>2, <1>3, OthersStep

LEMMA AsksStay ==
  ASSUME AsksInv, UNCHANGED <<asks, inbox>>
  PROVE  AsksInv'
BY DEF AsksInv, IsInbox

(* A decision about candidates that was answered leaves none of their      *)
(* items open on its snapshot but those evaluated again since, for any     *)
(* requests at once and any limit of the list, unless that limit cut it    *)
(* (resolveMigrationDecisionProducts).                                     *)
THEOREM DecidedIsResolvedAlways ==
  InboxInit /\ [][InboxNext]_inboxVars => []DecidedIsResolved
<1>1. InboxInit => AsksInv
  BY DEF InboxInit, AsksInv, IsInbox, Knows, NewAsk, AskFields
<1>2. AsksInv /\ [InboxNext]_inboxVars => AsksInv'
  <2> SUFFICES ASSUME AsksInv, [InboxNext]_inboxVars PROVE AsksInv'
    OBVIOUS
  <2>1. ASSUME NEW a \in DOMAIN asks,
               \/ Load(a) \/ ListItems(a)
               \/ \E c \in Candidates : Evaluate(a, c)
               \/ \E k \in ItemKeys : Resolve(a, k)
        PROVE  AsksInv'
    BY <2>1, LoadKnows, ListKnows, EvaluateKnows, ResolveKnows
  <2>2. CASE \E k \in ItemKeys : Review(k)
    BY <2>2, ReviewKnows
  <2>3. CASE \E n \in Snapshots : ProbeEnds(n)
    BY <2>3, AsksStay DEF ProbeEnds
  <2>4. ASSUME NEW s, NEW what, NEW status,
               DecideData(s, what, status) \/ DecideConfig(s, what, status) \/ Retarget(s, what)
        PROVE  AsksInv'
    BY <2>4, RowsChange
  <2>5. ASSUME NEW p, NEW wish, Forget(p) \/ Remember(p, wish) PROVE AsksInv'
    BY <2>5, AsksStay DEF Forget, Remember
  <2>6. CASE \E name \in Profiles : AssignProfile(name)
    BY <2>6, AsksStay DEF AssignProfile
  <2>7. CASE UNCHANGED inboxVars
    BY <2>7, AsksStay DEF inboxVars
  <2>8. CASE Reread
    BY <2>8, RowsChange
  <2>9. CASE UserStep
    BY <2>2, <2>3, <2>4, <2>5, <2>6, <2>9 DEF UserStep
  <2> QED BY <2>1, <2>7, <2>8, <2>9 DEF InboxNext
<1>3. AsksInv => DecidedIsResolved
  BY DEF AsksInv, Knows, DecidedIsResolved, Concerns, At
<1> QED BY <1>1, <1>2, <1>3, PTL
==============================================================================
