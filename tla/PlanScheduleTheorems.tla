------------------------- MODULE PlanScheduleTheorems -------------------------
(***************************************************************************)
(* One due time of a schedule starts one apply, and a schedule that moves  *)
(* on goes to the first minute its expression matches, for any schedules,  *)
(* plans, expressions and calendar, however many ticks overlap and however *)
(* often the store fails or the process restarts.                          *)
(***************************************************************************)
EXTENDS PlanSchedule, FiniteSetTheorems, WellFoundedInduction, TLAPS

Minutes == 0..LastMinute
Due == [id : Schedules, at : Minutes]

TickPcs == {"idle", "next", "claiming", "executing", "finalizing", "reporting",
            "announcing", "failing"}
Outcomes == {"none", "succeeded", "failed", "thrown"}

TickRow == [pc : TickPcs, due : SUBSET Due, fired : Schedules \cup {NoSchedule},
            at : Minutes \cup {Never}, run : RunIds \cup {NoRun}, status : Outcomes]

TicksType ==
  /\ now \in Minutes
  /\ ticks \in [Ticks -> TickRow]
  /\ \A k \in Ticks : ticks[k].pc = "claiming" => Key(k) \in Keys

ScheduleType ==
  /\ rows \in [Plans -> Row] /\ runs \in [RunIds -> Run]
  /\ idemLog \in Seq(RunIds) /\ approvals \in Nat
  /\ origin \in [RunIds -> (Schedules \cup {NoSchedule}) \X (Minutes \cup {Never})]

(* A run that a schedule started is for its plan, under the key of the due *)
(* time.                                                                   *)
OfSchedule(r) == origin[r][1] # NoSchedule

RunsAreKeyed ==
  \A r \in RunIds : OfSchedule(r) =>
    /\ runs[r].status # "unused"
    /\ runs[r].key = origin[r] /\ runs[r].plan = Bound[origin[r][1]]

RecordsDiffer ==
  /\ \A i \in 1..Len(idemLog) : runs[idemLog[i]].status # "unused"
  /\ \A i, j \in 1..Len(idemLog) : idemLog[i] = idemLog[j] => i = j

(* The records have room for every run of a behaviour, or have had room so *)
(* far: none was trimmed.                                                  *)
Roomy == IsFiniteSet(RunIds) /\ Cardinality(RunIds) <= RunCap
NoneTrimmed == Roomy \/ Len(idemLog) < RunCap

RecordsLast == NoneTrimmed => \A r \in RunIds : OfSchedule(r) => r \in Range(idemLog)

OnceEach == NoneTrimmed => OneRunPerDue

ScheduleInv ==
  TicksType /\ ScheduleType /\ RunsAreKeyed /\ RecordsDiffer /\ RecordsLast /\ OnceEach

LEMMA ScheduleConstants ==
  /\ Keys = Schedules \X Minutes /\ NoKey \notin Keys
  /\ Bound \in [Schedules -> Plans]
  /\ NoSchedule \notin Schedules
  /\ NoRun \notin RunIds /\ RunCap \in Nat \ {0} /\ LastMinute \in Nat
BY PlanScheduleAssumptions, PlanStoreAssumptions DEF Minutes

-----------------------------------------------------------------------------
(* The ticks.                                                              *)

LEMMA LeavesTyped ==
  ASSUME TicksType, NEW k \in Ticks,
         NEW pc \in {"next", "announcing", "reporting", "failing"}, Leaves(k, pc)
  PROVE  /\ ticks' \in [Ticks -> TickRow]
         /\ \A j \in Ticks : ticks'[j].pc = "claiming" => ticks'[j] = ticks[j]
<1> DEFINE row == [IdleTick EXCEPT !.pc = pc, !.due = ticks[k].due,
                                   !.fired = IF pc = "next" THEN NoSchedule ELSE ticks[k].fired]
<1>1. row \in TickRow /\ row.pc = pc
  BY DEF TicksType, TickRow, IdleTick, TickPcs, Outcomes
<1>2. ticks' = [ticks EXCEPT ![k] = row]
  BY DEF Leaves
<1> HIDE DEF row
<1> QED BY <1>1, <1>2 DEF TicksType

(* Every tick that is claiming after a step of the others was before it.   *)
LEMMA TicksKept ==
  ASSUME TicksType, now' = now, ticks' \in [Ticks -> TickRow],
         \A j \in Ticks : ticks'[j].pc = "claiming" => ticks'[j] = ticks[j]
  PROVE  TicksType'
<1>1. ASSUME NEW j \in Ticks, ticks'[j].pc = "claiming" PROVE Key(j)' \in Keys
  <2>1. ticks'[j] = ticks[j]
    BY <1>1
  <2>2. ticks[j].pc = "claiming"
    BY <1>1, <2>1
  <2> QED BY <2>1, <2>2 DEF TicksType, Key
<1> QED BY <1>1 DEF TicksType

(* A row that gets another pc, and another due, run or status.             *)
LEMMA RowMovesWithDue ==
  ASSUME NEW row \in TickRow, NEW pc \in TickPcs, NEW due \in SUBSET Due
  PROVE  /\ [row EXCEPT !.pc = pc, !.due = due] \in TickRow
         /\ [row EXCEPT !.pc = pc, !.due = due].pc = pc
<1> DEFINE moved == [row EXCEPT !.pc = pc]
<1>1. moved \in TickRow /\ moved.pc = pc
  BY DEF TickRow
<1>2. [moved EXCEPT !.due = due] \in TickRow /\ [moved EXCEPT !.due = due].pc = pc
  BY <1>1 DEF TickRow
<1> QED BY <1>2

LEMMA RowMovesWithRun ==
  ASSUME NEW row \in TickRow, NEW pc \in TickPcs, NEW run \in RunIds \cup {NoRun}
  PROVE  /\ [row EXCEPT !.pc = pc, !.run = run] \in TickRow
         /\ [row EXCEPT !.pc = pc, !.run = run].pc = pc
<1> DEFINE moved == [row EXCEPT !.pc = pc]
<1>1. moved \in TickRow /\ moved.pc = pc
  BY DEF TickRow
<1>2. [moved EXCEPT !.run = run] \in TickRow /\ [moved EXCEPT !.run = run].pc = pc
  BY <1>1 DEF TickRow
<1> QED BY <1>2

LEMMA RowMovesWithStatus ==
  ASSUME NEW row \in TickRow, NEW pc \in TickPcs, NEW status \in Outcomes
  PROVE  /\ [row EXCEPT !.pc = pc, !.status = status] \in TickRow
         /\ [row EXCEPT !.pc = pc, !.status = status].pc = pc
<1> DEFINE moved == [row EXCEPT !.pc = pc]
<1>1. moved \in TickRow /\ moved.pc = pc
  BY DEF TickRow
<1>2. [moved EXCEPT !.status = status] \in TickRow /\ [moved EXCEPT !.status = status].pc = pc
  BY <1>1 DEF TickRow
<1> QED BY <1>2

LEMMA IdleTyped == IdleTick \in TickRow /\ IdleTick.pc = "idle"
BY DEF IdleTick, TickRow, TickPcs, Outcomes

LEMMA TicksFollow ==
  ASSUME TicksType, Next
  PROVE  TicksType'
<1> USE DEF TicksType
<1>1. CASE Initialize
  BY <1>1, TicksKept DEF Initialize
<1>2. CASE InitializeFails \/ Crash \/ \E k \in Ticks : ReportFailureThrows(k)
  <2>1. ticks' = [k \in Ticks |-> IdleTick] /\ now' = now
    BY <1>2 DEF InitializeFails, Crash, ReportFailureThrows, Restarts
  <2> QED BY <2>1, IdleTyped, TicksKept
<1>3. CASE TimePasses
  <2>1. ticks' = ticks /\ now' = now + 1 /\ now < LastMinute
    BY <1>3 DEF TimePasses
  <2> QED BY <2>1, ScheduleConstants DEF Minutes, Key
<1>4. ASSUME NEW k \in Ticks, ReadDue(k) PROVE TicksType'
  <2> DEFINE due == {[id |-> s, at |-> schedules[s].next] : s \in {x \in Schedules : IsDue(x)}}
  <2>1. due \in SUBSET Due
    BY ScheduleConstants DEF Due, IsDue, Minutes
  <2>2. ticks' = [ticks EXCEPT ![k].pc = "next", ![k].due = due] /\ now' = now
    BY <1>4 DEF ReadDue
  <2> HIDE DEF due
  <2>3. ticks'[k] = [ticks[k] EXCEPT !.pc = "next", !.due = due]
    BY <2>2
  <2>4. ticks'[k] \in TickRow /\ ticks'[k].pc = "next"
    <3>1. ticks[k] \in TickRow /\ "next" \in TickPcs
      BY DEF TickPcs
    <3>2. /\ [ticks[k] EXCEPT !.pc = "next", !.due = due] \in TickRow
          /\ [ticks[k] EXCEPT !.pc = "next", !.due = due].pc = "next"
      BY <2>1, <3>1, RowMovesWithDue, Zenon
    <3> QED BY <2>3, <3>2
  <2>5. ticks' \in [Ticks -> TickRow]
    BY <2>2, <2>4
  <2>6. \A j \in Ticks : ticks'[j].pc = "claiming" => ticks'[j] = ticks[j]
    BY <2>2, <2>4
  <2> QED BY <2>2, <2>5, <2>6, TicksKept
<1>5. ASSUME NEW k \in Ticks, TickEnds(k) PROVE TicksType'
  BY <1>5, IdleTyped, TicksKept DEF TickEnds
<1>6. ASSUME NEW k \in Ticks, Fire(k) PROVE TicksType'
  <2>1. PICK d \in ticks[k].due :
          /\ ticks' = [ticks EXCEPT ![k] =
               [pc |-> IF ~Trusted(Bound[d.id]) THEN "reporting"
                       ELSE IF schedules[d.id].dry THEN "executing" ELSE "claiming",
                due |-> @.due \ {d}, fired |-> d.id, at |-> d.at, run |-> NoRun,
                status |-> "none"]]
          /\ now' = now
    BY <1>6 DEF Fire
  <2>2. d.id \in Schedules /\ d.at \in Minutes
    BY DEF TickRow, Due
  <2>3. PICK pc \in TickPcs :
          ticks' = [ticks EXCEPT ![k] =
                      [pc |-> pc, due |-> ticks[k].due \ {d}, fired |-> d.id, at |-> d.at,
                       run |-> NoRun, status |-> "none"]]
    BY <2>1 DEF TickPcs
  <2>4. ticks'[k] \in TickRow /\ ticks'[k].fired = d.id /\ ticks'[k].at = d.at
    BY <2>2, <2>3 DEF TickRow, Outcomes
  <2>5. ticks' \in [Ticks -> TickRow]
    BY <2>3, <2>4
  <2>6. Key(k)' \in Keys
    BY <2>2, <2>4, ScheduleConstants DEF Key
  <2>7. \A j \in Ticks \ {k} : ticks'[j] = ticks[j]
    BY <2>3
  <2>8. \A j \in Ticks \ {k} : ticks'[j].pc = "claiming" => Key(j)' \in Keys
    BY <2>7 DEF Key
  <2> QED BY <2>1, <2>5, <2>6, <2>8
<1>7. ASSUME NEW k \in Ticks, Claim(k) PROVE TicksType'
  <2>1. /\ ticks' = [ticks EXCEPT ![k].pc = "executing", ![k].run = NewRun]
        /\ NewRun \in RunIds /\ now' = now
    BY <1>7 DEF Claim, IdsLast, NewRun
  <2>2. ticks'[k] = [ticks[k] EXCEPT !.pc = "executing", !.run = NewRun]
    BY <2>1
  <2>3. ticks'[k] \in TickRow /\ ticks'[k].pc = "executing"
    <3>1. ticks[k] \in TickRow /\ "executing" \in TickPcs
      BY DEF TickPcs
    <3>2. /\ [ticks[k] EXCEPT !.pc = "executing", !.run = NewRun] \in TickRow
          /\ [ticks[k] EXCEPT !.pc = "executing", !.run = NewRun].pc = "executing"
      BY <2>1, <3>1, RowMovesWithRun, Zenon
    <3> QED BY <2>2, <3>2
  <2>4. ticks' \in [Ticks -> TickRow]
    BY <2>1, <2>3
  <2>5. \A j \in Ticks : ticks'[j].pc = "claiming" => ticks'[j] = ticks[j]
    BY <2>1, <2>3
  <2> QED BY <2>1, <2>4, <2>5, TicksKept
<1>8. ASSUME NEW k \in Ticks,
             \/ NotClaimed(k) \/ ClaimThrows(k) \/ FinalizeRun(k) \/ Report(k)
             \/ Announce(k) \/ UpdateThrows(k) \/ ReportFailure(k)
      PROVE  TicksType'
  <2>1. /\ \E pc \in {"next", "announcing", "reporting", "failing"} : Leaves(k, pc)
        /\ now' = now
    BY <1>8 DEF NotClaimed, ClaimThrows, FinalizeRun, Report, Announce, UpdateThrows,
                ReportFailure
  <2> QED BY <2>1, LeavesTyped, TicksKept
<1>9. ASSUME NEW k \in Ticks, NEW status \in {"succeeded", "failed", "thrown"},
             Execute(k, status)
      PROVE  TicksType'
  <2>1. CASE ticks[k].run # NoRun
    <3>1. ticks' = [ticks EXCEPT ![k].pc = "finalizing", ![k].status = status] /\ now' = now
      BY <1>9, <2>1 DEF Execute
    <3>2. ticks'[k] = [ticks[k] EXCEPT !.pc = "finalizing", !.status = status]
      BY <3>1
    <3>3. ticks'[k] \in TickRow /\ ticks'[k].pc = "finalizing"
      <4>1. ticks[k] \in TickRow /\ "finalizing" \in TickPcs /\ status \in Outcomes
        BY DEF TickPcs, Outcomes
      <4>2. /\ [ticks[k] EXCEPT !.pc = "finalizing", !.status = status] \in TickRow
            /\ [ticks[k] EXCEPT !.pc = "finalizing", !.status = status].pc = "finalizing"
        BY <4>1, RowMovesWithStatus, Zenon
      <4> QED BY <3>2, <4>2
    <3>4. ticks' \in [Ticks -> TickRow]
      BY <3>1, <3>3
    <3>5. \A j \in Ticks : ticks'[j].pc = "claiming" => ticks'[j] = ticks[j]
      BY <3>1, <3>3
    <3> QED BY <3>1, <3>4, <3>5, TicksKept
  <2>2. CASE ticks[k].run = NoRun
    <3>1. /\ \E pc \in {"reporting", "failing"} : Leaves(k, pc)
          /\ now' = now
      BY <1>9, <2>2 DEF Execute
    <3> QED BY <3>1, LeavesTyped, TicksKept
  <2> QED BY <2>1, <2>2
<1>10. CASE \/ \E p \in Plans : ApprovePlan(p) \/ RejectPlan(p) \/ UserClaims(p)
            \/ \E r \in RunIds, ok \in BOOLEAN : UserFinalizes(r, ok)
            \/ \E s \in Schedules : DeleteSchedule(s)
  <2>1. ticks' = ticks /\ now' = now
    BY <1>10 DEF ApprovePlan, RejectPlan, UserClaims, UserFinalizes, DeleteSchedule, scheduler
  <2> QED BY <2>1, TicksKept
<1> QED
  BY <1>1, <1>2, <1>3, <1>4, <1>5, <1>6, <1>7, <1>8, <1>9, <1>10 DEF Next, TickStep

-----------------------------------------------------------------------------
(* What a step does to the store and to the runs' origins.                 *)

ClaimedFor(s, at, p, k, r) ==
  /\ ClaimVerdict(p, k) = "claimed" /\ GrantClaim(p, k, r)
  /\ origin' = [origin EXCEPT ![r] = <<s, at>>]

StoreStep ==
  \/ UNCHANGED <<rows, runs, idemLog, approvals, origin>>
  \/ \E p \in Plans : (Approve(p) \/ Reject(p)) /\ UNCHANGED origin
  \/ \E r \in RunIds \cup {NoRun}, ok \in BOOLEAN : Finalize(r, ok) /\ UNCHANGED origin
  \/ \E p \in Plans, r \in RunIds :
       ClaimVerdict(p, NoKey) = "claimed" /\ GrantClaim(p, NoKey, r) /\ UNCHANGED origin
  \/ \E s \in Schedules, at \in Minutes, r \in RunIds :
       ClaimedFor(s, at, Bound[s], <<s, at>>, r)

LEMMA NextIsStoreStep ==
  ASSUME TicksType, [Next]_vars
  PROVE  StoreStep
<1> DEFINE Same == UNCHANGED <<rows, runs, idemLog, approvals, origin>>
<1> USE DEF StoreStep
<1>1. CASE \/ Initialize \/ InitializeFails \/ TimePasses \/ Crash
           \/ \E s \in Schedules : DeleteSchedule(s)
  <2>1. Same
    BY <1>1 DEF Initialize, InitializeFails, TimePasses, Crash, DeleteSchedule, storeVars
  <2> QED BY <2>1
<1>2. ASSUME NEW k \in Ticks,
             \/ ReadDue(k) \/ TickEnds(k) \/ Fire(k) \/ NotClaimed(k) \/ ClaimThrows(k)
             \/ Report(k) \/ Announce(k) \/ UpdateThrows(k) \/ ReportFailure(k)
             \/ ReportFailureThrows(k)
             \/ \E status \in {"succeeded", "failed", "thrown"} : Execute(k, status)
      PROVE  StoreStep
  <2>1. Same
    BY <1>2 DEF ReadDue, TickEnds, Fire, NotClaimed, ClaimThrows, Report, Announce,
                UpdateThrows, ReportFailure, ReportFailureThrows, Execute, storeVars
  <2> QED BY <2>1
<1>3. ASSUME NEW k \in Ticks, Claim(k) PROVE StoreStep
  <2>1. Key(k) \in Keys
    BY <1>3 DEF Claim, At, TicksType
  <2>2. PICK s \in Schedules, at \in Minutes : ticks[k].fired = s /\ ticks[k].at = at
    BY <2>1, ScheduleConstants DEF Key
  <2>3. NewRun \in RunIds
    BY <1>3 DEF Claim, IdsLast, NewRun
  <2>4. Plan(k) = Bound[s] /\ Key(k) = <<s, at>>
    BY <2>2 DEF Plan, Key
  <2>5. ClaimedFor(s, at, Bound[s], <<s, at>>, NewRun)
    BY <1>3, <2>2, <2>4 DEF Claim, ClaimedFor
  <2> QED BY <2>3, <2>5
<1>4. ASSUME NEW k \in Ticks, FinalizeRun(k) PROVE StoreStep
  <2>1. ticks[k].run \in RunIds \cup {NoRun} /\ (ticks[k].status = "succeeded") \in BOOLEAN
    BY DEF TicksType, TickRow
  <2>2. Finalize(ticks[k].run, ticks[k].status = "succeeded") /\ UNCHANGED origin
    BY <1>4 DEF FinalizeRun
  <2> QED BY <2>1, <2>2
<1>5. ASSUME NEW p \in Plans, ApprovePlan(p) \/ RejectPlan(p) PROVE StoreStep
  BY <1>5 DEF ApprovePlan, RejectPlan, scheduler
<1>6. ASSUME NEW p \in Plans, UserClaims(p) PROVE StoreStep
  <2>1. NewRun \in RunIds
    BY <1>6 DEF UserClaims, IdsLast, NewRun
  <2>2. ClaimVerdict(p, NoKey) = "claimed" /\ GrantClaim(p, NoKey, NewRun) /\ UNCHANGED origin
    BY <1>6 DEF UserClaims
  <2> QED BY <2>1, <2>2
<1>7. ASSUME NEW r \in RunIds, NEW ok \in BOOLEAN, UserFinalizes(r, ok) PROVE StoreStep
  BY <1>7 DEF UserFinalizes
<1>8. CASE UNCHANGED vars
  BY <1>8 DEF vars, storeVars, scheduler
<1> QED
  BY <1>1, <1>2, <1>3, <1>4, <1>5, <1>6, <1>7, <1>8 DEF Next, TickStep

(* Finalizing and moving a plan leave the keys of the runs as they are.    *)
RunsKeep ==
  /\ runs' \in [RunIds -> Run]
  /\ \A r \in RunIds :
       /\ runs'[r].plan = runs[r].plan /\ runs'[r].key = runs[r].key
       /\ runs[r].status # "unused" => runs'[r].status # "unused"

LEMMA RowTyped ==
  ASSUME ScheduleType, NEW p \in Plans, NEW status \in Statuses,
         NEW active \in RunIds \cup {NoRun}, NEW approval \in Nat
  PROVE  /\ [rows[p] EXCEPT !.status = status] \in Row
         /\ [rows[p] EXCEPT !.status = status, !.approval = approval] \in Row
         /\ [rows[p] EXCEPT !.status = status, !.active = active] \in Row
<1> DEFINE row == [rows[p] EXCEPT !.status = status]
<1>1. row \in Row
  <2>1. rows[p] \in Row
    BY DEF ScheduleType
  <2> QED BY <2>1 DEF Row
<1>2. [row EXCEPT !.approval = approval] \in Row /\ [row EXCEPT !.active = active] \in Row
  BY <1>1 DEF Row
<1> QED BY <1>1, <1>2

LEMMA PlanMovesTyped ==
  ASSUME ScheduleType, NEW p \in Plans, Approve(p) \/ Reject(p)
  PROVE  rows' \in [Plans -> Row] /\ approvals' \in Nat /\ UNCHANGED <<runs, idemLog>>
<1>1. CASE Approve(p)
  <2>1. /\ rows' = [rows EXCEPT ![p] = [rows[p] EXCEPT !.status = "approved",
                                                       !.approval = approvals + 1]]
        /\ approvals' = approvals + 1
    BY <1>1 DEF Approve
  <2>2. approvals + 1 \in Nat
    BY DEF ScheduleType
  <2>3. [rows[p] EXCEPT !.status = "approved", !.approval = approvals + 1] \in Row
    BY <2>2, RowTyped DEF Statuses
  <2> QED BY <1>1, <2>1, <2>2, <2>3 DEF ScheduleType, Approve
<1>2. CASE Reject(p)
  <2>1. rows' = [rows EXCEPT ![p] = [rows[p] EXCEPT !.status = "needs-review"]]
    BY <1>2 DEF Reject
  <2>2. [rows[p] EXCEPT !.status = "needs-review"] \in Row
    BY RowTyped DEF Statuses
  <2> QED BY <1>2, <2>1, <2>2 DEF ScheduleType, Reject
<1> QED BY <1>1, <1>2

LEMMA FinalizeTyped ==
  ASSUME ScheduleType, NEW r, NEW ok \in BOOLEAN, Finalize(r, ok)
  PROVE  rows' \in [Plans -> Row] /\ RunsKeep /\ UNCHANGED <<idemLog, approvals>>
<1> DEFINE p == runs[r].plan
<1>1. UNCHANGED <<idemLog, approvals>>
  BY DEF Finalize
<1>2. CASE r \notin Range(runLog)
  BY <1>2, <1>1 DEF Finalize, ScheduleType, RunsKeep
<1>3. CASE r \in Range(runLog)
  <2>1. PICK s \in {"succeeded", "failed"} :
          /\ runs' = [runs EXCEPT ![r].status = s]
          /\ rows' = [rows EXCEPT ![p] = RowAfterFinalize(rows[p], r, s)]
    BY <1>3 DEF Finalize
  <2>2. RunsKeep
    BY <2>1 DEF ScheduleType, RunsKeep, Run
  <2>3. p \in Plans => RowAfterFinalize(rows[p], r, s) \in Row
    BY RowTyped DEF RowAfterFinalize, Statuses, ScheduleType
  <2>4. rows' \in [Plans -> Row]
    BY <2>1, <2>3 DEF ScheduleType
  <2> QED BY <1>1, <2>2, <2>4
<1> QED BY <1>2, <1>3

(* The records that are there.                                             *)
LEMMA KeyedRunsStay ==
  ASSUME ScheduleInv, rows' \in [Plans -> Row], RunsKeep, approvals' \in Nat,
         UNCHANGED <<idemLog, origin>>
  PROVE  ScheduleType' /\ RunsAreKeyed' /\ RecordsDiffer' /\ RecordsLast' /\ OnceEach'
<1>1. ScheduleType'
  BY DEF ScheduleInv, ScheduleType, RunsKeep
<1>2. RunsAreKeyed'
  <2>1. ASSUME NEW r \in RunIds, origin'[r][1] # NoSchedule
        PROVE  /\ runs'[r].status # "unused"
               /\ runs'[r].key = origin'[r] /\ runs'[r].plan = Bound[origin'[r][1]]
    <3>1. OfSchedule(r)
      BY <2>1 DEF OfSchedule
    <3> QED BY <3>1 DEF ScheduleInv, RunsAreKeyed, RunsKeep
  <2> QED BY <2>1 DEF RunsAreKeyed, OfSchedule
<1>3. RecordsDiffer'
  <2>1. \A i \in 1..Len(idemLog) : idemLog[i] \in RunIds
    BY DEF ScheduleInv, ScheduleType
  <2>2. \A i \in 1..Len(idemLog) : runs'[idemLog[i]].status # "unused"
    BY <2>1 DEF ScheduleInv, RecordsDiffer, RunsKeep
  <2> QED BY <2>2 DEF ScheduleInv, RecordsDiffer
<1>4. RecordsLast' /\ OnceEach'
  BY DEF ScheduleInv, RecordsLast, OnceEach, NoneTrimmed, Roomy, OfSchedule, OneRunPerDue
<1> QED BY <1>1, <1>2, <1>3, <1>4

-----------------------------------------------------------------------------
(* A claim: what becomes of the records.                                   *)

LEMMA RangeOfAppend ==
  ASSUME NEW S, NEW s \in Seq(S), NEW e \in S
  PROVE  Range(Append(s, e)) = Range(s) \cup {e}
<1>1. Append(s, e) \in Seq(S) /\ Len(Append(s, e)) = Len(s) + 1 /\ Len(s) \in Nat
  OBVIOUS
<1>2. \A i \in 1..Len(s) + 1 : Append(s, e)[i] = IF i <= Len(s) THEN s[i] ELSE e
  OBVIOUS
<1>3. DOMAIN s = 1..Len(s) /\ DOMAIN Append(s, e) = 1..Len(s) + 1
  OBVIOUS
<1>4. ASSUME NEW x \in Range(Append(s, e)) PROVE x \in Range(s) \cup {e}
  BY <1>1, <1>2, <1>3 DEF Range
<1>5. ASSUME NEW x \in Range(s) PROVE x \in Range(Append(s, e))
  <2>1. PICK i \in 1..Len(s) : x = s[i]
    BY <1>3 DEF Range
  <2>2. i \in DOMAIN Append(s, e) /\ Append(s, e)[i] = x
    BY <2>1, <1>1, <1>2, <1>3
  <2> QED BY <2>2 DEF Range
<1>6. e \in Range(Append(s, e))
  <2>1. Len(s) + 1 \in DOMAIN Append(s, e) /\ Append(s, e)[Len(s) + 1] = e
    BY <1>1, <1>2, <1>3
  <2> QED BY <2>1 DEF Range
<1> QED BY <1>4, <1>5, <1>6

(* t is a with its oldest entries gone.                                    *)
EndOf(t, a) ==
  \E d \in Nat : Len(t) + d = Len(a) /\ \A i \in 1..Len(t) : t[i] = a[i + d]

LEMMA TrimmedEnd ==
  ASSUME NEW S, NEW a \in Seq(S), NEW cap \in Nat \ {0}, Len(a) > 0
  PROVE  /\ Trim(a, cap) \in Seq(S)
         /\ Len(a) <= cap => Trim(a, cap) = a
         /\ Len(a) > cap => Len(Trim(a, cap)) = cap
         /\ EndOf(Trim(a, cap), a)
<1>1. Len(a) \in Nat
  OBVIOUS
<1>2. CASE Len(a) <= cap
  <2>1. Trim(a, cap) = a
    BY <1>1, <1>2 DEF Trim
  <2>2. 0 \in Nat /\ Len(a) + 0 = Len(a) /\ \A i \in 1..Len(a) : a[i] = a[i + 0]
    BY <1>1
  <2>3. EndOf(a, a)
    BY <2>2 DEF EndOf
  <2> QED BY <1>1, <1>2, <2>1, <2>3
<1>3. CASE Len(a) > cap
  <2> DEFINE d == Len(a) - cap
             t == SubSeq(a, d + 1, Len(a))
  <2>1. Trim(a, cap) = t
    BY <1>1, <1>3 DEF Trim
  <2>2. d \in Nat /\ cap + d = Len(a)
    BY <1>1, <1>3
  <2>3. t \in Seq(S) /\ Len(t) = cap /\ \A i \in 1..cap : t[i] = a[d + i]
    BY <1>1, <1>3
  <2> HIDE DEF d, t
  <2>4. \A i \in 1..cap : d + i = i + d
    BY <2>2
  <2>5. EndOf(t, a)
    BY <2>2, <2>3, <2>4 DEF EndOf
  <2> QED BY <1>1, <1>3, <2>1, <2>3, <2>5
<1> QED BY <1>1, <1>2, <1>3

(* A new run is none of those the records are of, and so there is room.    *)
LEMMA RoomForOne ==
  ASSUME ScheduleInv, NoneTrimmed, NEW r \in RunIds, runs[r].status = "unused", Roomy
  PROVE  Len(idemLog) < RunCap
<1> DEFINE others == RunIds \ {r}
<1>1. idemLog \in Seq(RunIds) /\ Len(idemLog) \in Nat
  BY DEF ScheduleInv, ScheduleType
<1>2. \A i \in 1..Len(idemLog) : idemLog[i] \in others
  BY <1>1 DEF ScheduleInv, RecordsDiffer
<1>3. idemLog \in Injection(1..Len(idemLog), others)
  <2>1. idemLog \in [1..Len(idemLog) -> others]
    BY <1>1, <1>2
  <2> QED BY <2>1 DEF ScheduleInv, RecordsDiffer, Injection, IsInjective
<1>4. IsFiniteSet(others) /\ Cardinality(others) = Cardinality(RunIds) - 1
  BY FS_RemoveElement DEF Roomy
<1>5. IsFiniteSet(1..Len(idemLog)) /\ Cardinality(1..Len(idemLog)) = Len(idemLog)
  BY <1>1, FS_Interval
<1>6. Cardinality(1..Len(idemLog)) <= Cardinality(others)
  BY <1>3, <1>4, FS_Injection
<1>7. Cardinality(RunIds) \in Nat
  BY FS_CardinalityType DEF Roomy
<1> QED BY <1>1, <1>4, <1>5, <1>6, <1>7, ScheduleConstants DEF Roomy

LEMMA ClaimIsRecorded ==
  ASSUME ScheduleInv, NEW r \in RunIds, runs[r].status = "unused",
         idemLog' = Trim(Append(idemLog, r), RunCap)
  PROVE  /\ idemLog' \in Seq(RunIds)
         /\ \A i \in 1..Len(idemLog') :
              idemLog'[i] = r \/ \E j \in 1..Len(idemLog) : idemLog'[i] = idemLog[j]
         /\ \A i, j \in 1..Len(idemLog') : idemLog'[i] = idemLog'[j] => i = j
         /\ NoneTrimmed' => NoneTrimmed /\ Range(idemLog') = Range(idemLog) \cup {r}
<1> DEFINE a == Append(idemLog, r)
<1>1. idemLog \in Seq(RunIds) /\ Len(idemLog) \in Nat /\ RunCap \in Nat \ {0}
  BY ScheduleConstants DEF ScheduleInv, ScheduleType
<1>2. \A i \in 1..Len(idemLog) + 1 : a[i] = IF i <= Len(idemLog) THEN idemLog[i] ELSE r
  BY <1>1
<1>3. \A i \in 1..Len(idemLog) : idemLog[i] # r
  BY DEF ScheduleInv, RecordsDiffer
<1>4. \A i, j \in 1..Len(idemLog) + 1 : a[i] = a[j] => i = j
  BY <1>1, <1>2, <1>3 DEF ScheduleInv, RecordsDiffer
<1>5. /\ idemLog' \in Seq(RunIds) /\ EndOf(idemLog', a)
      /\ Len(idemLog) < RunCap => idemLog' = a
      /\ Len(idemLog) >= RunCap => Len(idemLog') = RunCap
  <2>1. a \in Seq(RunIds) /\ Len(a) = Len(idemLog) + 1
    BY <1>1
  <2> HIDE DEF a
  <2>2. /\ Trim(a, RunCap) \in Seq(RunIds)
        /\ Len(a) <= RunCap => Trim(a, RunCap) = a
        /\ Len(a) > RunCap => Len(Trim(a, RunCap)) = RunCap
        /\ EndOf(Trim(a, RunCap), a)
    <3>1. Len(a) > 0
      BY <1>1, <2>1
    <3> QED BY <1>1, <2>1, <3>1, TrimmedEnd
  <2> QED BY <1>1, <2>1, <2>2 DEF a
<1>6. PICK d \in Nat :
        /\ Len(idemLog') + d = Len(idemLog) + 1
        /\ \A i \in 1..Len(idemLog') : idemLog'[i] = a[i + d]
  <2>1. Len(a) = Len(idemLog) + 1
    BY <1>1
  <2> QED BY <1>5, <2>1 DEF EndOf
<1>7. Len(idemLog') \in Nat /\ \A i \in 1..Len(idemLog') : i + d \in 1..Len(idemLog) + 1
  BY <1>1, <1>5, <1>6
<1> HIDE DEF a
<1>8. ASSUME NEW i \in 1..Len(idemLog')
      PROVE  idemLog'[i] = r \/ \E j \in 1..Len(idemLog) : idemLog'[i] = idemLog[j]
  <2>1. idemLog'[i] = a[i + d] /\ i + d \in 1..Len(idemLog) + 1
    BY <1>6, <1>7
  <2> QED BY <2>1, <1>1, <1>2
<1>9. ASSUME NEW i \in 1..Len(idemLog'), NEW j \in 1..Len(idemLog'), idemLog'[i] = idemLog'[j]
      PROVE  i = j
  <2>1. i + d = j + d
    <3>1. a[i + d] = a[j + d]
      BY <1>6, <1>9
    <3> QED BY <1>4, <1>7, <3>1
  <2> QED BY <2>1, <1>7
<1>10. ASSUME NoneTrimmed'
       PROVE  NoneTrimmed /\ Range(idemLog') = Range(idemLog) \cup {r}
  <2>1. NoneTrimmed /\ Len(idemLog) < RunCap
    <3>1. CASE Roomy
      <4>1. NoneTrimmed
        BY <3>1 DEF NoneTrimmed
      <4> QED BY <3>1, <4>1, RoomForOne
    <3>2. CASE ~Roomy
      <4>1. Len(idemLog') < RunCap
        BY <3>2, <1>10 DEF NoneTrimmed, Roomy
      <4> QED BY <4>1, <1>1, <1>5 DEF NoneTrimmed
    <3> QED BY <3>1, <3>2
  <2>2. idemLog' = a
    BY <2>1, <1>5
  <2> QED BY <1>1, <2>1, <2>2, RangeOfAppend DEF a
<1> QED BY <1>5, <1>8, <1>9, <1>10

(* The claims of requests have no key and start no run of a schedule.      *)
LEMMA RequestClaims ==
  ASSUME ScheduleInv, NEW p \in Plans, NEW r \in RunIds, GrantClaim(p, NoKey, r),
         UNCHANGED origin
  PROVE  ScheduleType' /\ RunsAreKeyed' /\ RecordsDiffer' /\ RecordsLast' /\ OnceEach'
<1> DEFINE run == [status |-> "running", plan |-> p, key |-> NoKey,
                   approval |-> rows[p].approval]
<1>1. /\ runs[r].status = "unused" /\ runs' = [runs EXCEPT ![r] = run]
      /\ rows' = [rows EXCEPT ![p] = [rows[p] EXCEPT !.status = "applying", !.active = r]]
      /\ UNCHANGED <<idemLog, approvals>>
  BY DEF GrantClaim
<1>2. run \in Run /\ run.status # "unused"
  BY DEF ScheduleInv, ScheduleType, Row, Run
<1>3. [rows[p] EXCEPT !.status = "applying", !.active = r] \in Row
  BY RowTyped DEF ScheduleInv, Statuses
<1> HIDE DEF run
<1>4. ScheduleType'
  BY <1>1, <1>2, <1>3 DEF ScheduleInv, ScheduleType
<1>5. \A q \in RunIds : runs[q].status # "unused" => runs'[q] = runs[q]
  BY <1>1 DEF ScheduleInv, ScheduleType
<1>6. RunsAreKeyed'
  <2>1. ASSUME NEW q \in RunIds, origin'[q][1] # NoSchedule
        PROVE  /\ runs'[q].status # "unused"
               /\ runs'[q].key = origin'[q] /\ runs'[q].plan = Bound[origin'[q][1]]
    <3>1. OfSchedule(q)
      BY <2>1 DEF OfSchedule
    <3> QED BY <3>1, <1>5 DEF ScheduleInv, RunsAreKeyed
  <2> QED BY <2>1 DEF RunsAreKeyed, OfSchedule
<1>7. RecordsDiffer'
  <2>1. \A i \in 1..Len(idemLog) : idemLog[i] \in RunIds
    BY DEF ScheduleInv, ScheduleType
  <2>2. \A i \in 1..Len(idemLog) : runs'[idemLog[i]].status # "unused"
    BY <2>1, <1>5 DEF ScheduleInv, RecordsDiffer
  <2> QED BY <1>1, <2>2 DEF ScheduleInv, RecordsDiffer
<1>8. RecordsLast' /\ OnceEach'
  BY <1>1 DEF ScheduleInv, RecordsLast, OnceEach, NoneTrimmed, Roomy, OfSchedule, OneRunPerDue
<1> QED BY <1>4, <1>6, <1>7, <1>8

(* A claim of a tick that is granted found no record of its key.           *)
LEMMA ScheduleClaims ==
  ASSUME ScheduleInv, NEW s \in Schedules, NEW at \in Minutes, NEW r \in RunIds,
         ClaimedFor(s, at, Bound[s], <<s, at>>, r)
  PROVE  ScheduleType' /\ RunsAreKeyed' /\ RecordsDiffer' /\ RecordsLast' /\ OnceEach'
<1> DEFINE p == Bound[s]
           k == <<s, at>>
           run == [status |-> "running", plan |-> p, key |-> k, approval |-> rows[p].approval]
<1>1. /\ p \in Plans /\ k \in Keys /\ k # NoKey
      /\ s # NoSchedule /\ k[1] = s
  BY ScheduleConstants
<1>2. /\ runs[r].status = "unused" /\ runs' = [runs EXCEPT ![r] = run]
      /\ rows' = [rows EXCEPT ![p] = [rows[p] EXCEPT !.status = "applying", !.active = r]]
      /\ idemLog' = Trim(Append(idemLog, r), RunCap)
      /\ approvals' = approvals
      /\ origin' = [origin EXCEPT ![r] = k]
  BY <1>1 DEF ClaimedFor, GrantClaim
<1>3. run \in Run /\ run.status # "unused" /\ run.key = k /\ run.plan = p
  BY <1>1 DEF ScheduleInv, ScheduleType, Row, Run
<1>4. [rows[p] EXCEPT !.status = "applying", !.active = r] \in Row
  BY <1>1, RowTyped DEF ScheduleInv, Statuses
<1>5. \A q \in Range(idemLog) : runs[q].plan = p => runs[q].key # k
  <2>1. ~IsDuplicate(p, k)
    BY DEF ClaimedFor, ClaimVerdict
  <2> QED BY <2>1, <1>1 DEF IsDuplicate, KeyHolders
<1>6. k \in (Schedules \cup {NoSchedule}) \X (Minutes \cup {Never})
  OBVIOUS
<1> HIDE DEF run, k, p
<1>7. /\ idemLog' \in Seq(RunIds)
      /\ \A i \in 1..Len(idemLog') :
           idemLog'[i] = r \/ \E j \in 1..Len(idemLog) : idemLog'[i] = idemLog[j]
      /\ \A i, j \in 1..Len(idemLog') : idemLog'[i] = idemLog'[j] => i = j
      /\ NoneTrimmed' => NoneTrimmed /\ Range(idemLog') = Range(idemLog) \cup {r}
  BY <1>2, ClaimIsRecorded
<1>8. ScheduleType'
  BY <1>1, <1>2, <1>3, <1>4, <1>6, <1>7 DEF ScheduleInv, ScheduleType
<1>9. /\ runs'[r] = run /\ origin'[r] = k
      /\ \A q \in RunIds \ {r} : runs'[q] = runs[q] /\ origin'[q] = origin[q]
  BY <1>2 DEF ScheduleInv, ScheduleType
<1>10. RunsAreKeyed'
  <2>1. ASSUME NEW q \in RunIds, origin'[q][1] # NoSchedule
        PROVE  /\ runs'[q].status # "unused"
               /\ runs'[q].key = origin'[q] /\ runs'[q].plan = Bound[origin'[q][1]]
    <3>1. CASE q = r
      BY <3>1, <1>1, <1>3, <1>9 DEF p
    <3>2. CASE q # r
      <4>1. OfSchedule(q)
        BY <2>1, <3>2, <1>9 DEF OfSchedule
      <4> QED BY <3>2, <4>1, <1>9 DEF ScheduleInv, RunsAreKeyed
    <3> QED BY <3>1, <3>2
  <2> QED BY <2>1 DEF RunsAreKeyed, OfSchedule
<1>11. RecordsDiffer'
  <2>1. \A i \in 1..Len(idemLog) : idemLog[i] \in RunIds /\ runs[idemLog[i]].status # "unused"
    BY DEF ScheduleInv, ScheduleType, RecordsDiffer
  <2>2. \A q \in RunIds : runs[q].status # "unused" => runs'[q].status # "unused"
    BY <1>2, <1>9
  <2>3. ASSUME NEW i \in 1..Len(idemLog') PROVE runs'[idemLog'[i]].status # "unused"
    <3>1. CASE idemLog'[i] = r
      BY <3>1, <1>3, <1>9
    <3>2. CASE \E j \in 1..Len(idemLog) : idemLog'[i] = idemLog[j]
      BY <3>2, <2>1, <2>2
    <3> QED BY <3>1, <3>2, <1>7
  <2> QED BY <1>7, <2>3 DEF RecordsDiffer
<1>12. ASSUME NoneTrimmed'
       PROVE  /\ \A q \in RunIds : OfSchedule(q)' => q \in Range(idemLog')
              /\ OneRunPerDue'
  <2>1. NoneTrimmed /\ Range(idemLog') = Range(idemLog) \cup {r}
    BY <1>7, <1>12
  <2>2. ASSUME NEW q \in RunIds \ {r}, OfSchedule(q)' PROVE OfSchedule(q) /\ q \in Range(idemLog)
    <3>1. OfSchedule(q)
      BY <2>2, <1>9 DEF OfSchedule
    <3> QED BY <3>1, <2>1 DEF ScheduleInv, RecordsLast
  <2>3. \A q \in RunIds : OfSchedule(q)' => q \in Range(idemLog')
    BY <2>1, <2>2
  <2>4. ASSUME NEW q \in RunIds \ {r} PROVE origin'[q] # k
    <3>1. SUFFICES ASSUME origin'[q] = k PROVE FALSE
      OBVIOUS
    <3>2. OfSchedule(q)' /\ origin[q] = k
      BY <3>1, <1>1, <1>9 DEF OfSchedule
    <3>3. OfSchedule(q) /\ q \in Range(idemLog)
      BY <2>2, <3>2
    <3>4. runs[q].key = k /\ runs[q].plan = p
      BY <3>2, <3>3, <1>1 DEF ScheduleInv, RunsAreKeyed, p
    <3> QED BY <3>3, <3>4, <1>5
  <2>5. ASSUME NEW q1 \in RunIds, NEW q2 \in RunIds, origin'[q1] = origin'[q2],
               origin'[q1][1] # NoSchedule
        PROVE  q1 = q2
    <3>1. CASE q1 = r \/ q2 = r
      BY <2>4, <2>5, <3>1, <1>9
    <3>2. CASE q1 # r /\ q2 # r
      <4>1. origin[q1] = origin[q2] /\ origin[q1][1] # NoSchedule
        BY <2>5, <3>2, <1>9
      <4> QED BY <2>1, <4>1 DEF ScheduleInv, OnceEach, OneRunPerDue
    <3> QED BY <3>1, <3>2
  <2> QED BY <2>3, <2>5 DEF OneRunPerDue
<1> QED BY <1>8, <1>10, <1>11, <1>12 DEF RecordsLast, OnceEach

-----------------------------------------------------------------------------
LEMMA InitSchedule == Init => ScheduleInv
<1> SUFFICES ASSUME Init PROVE ScheduleInv
  OBVIOUS
<1> USE DEF Init
<1>1. TicksType
  BY IdleTyped, ScheduleConstants DEF TicksType, Minutes
<1>2. ScheduleType
  <2> DEFINE first == [status |-> "approved", active |-> NoRun,
                       approval |-> 1, dryKey |-> NoKey, undoFailed |-> {}]
  <2>1. first \in Row
    BY DEF Row, Statuses
  <2>2. rows = [p \in Plans |-> first]
    OBVIOUS
  <2> HIDE DEF first
  <2>3. rows \in [Plans -> Row]
    BY <2>1, <2>2
  <2>4. runs \in [RunIds -> Run]
    BY DEF Run, UnusedRun
  <2>5. approvals \in Nat /\ idemLog \in Seq(RunIds)
    OBVIOUS
  <2>6. origin \in [RunIds -> (Schedules \cup {NoSchedule}) \X (Minutes \cup {Never})]
    BY DEF Minutes
  <2> QED BY <2>3, <2>4, <2>5, <2>6 DEF ScheduleType
<1>3. \A r \in RunIds : ~OfSchedule(r)
  BY DEF OfSchedule
<1>4. idemLog = <<>> /\ Len(idemLog) = 0
  OBVIOUS
<1> QED
  BY <1>1, <1>2, <1>3, <1>4
  DEF ScheduleInv, RunsAreKeyed, RecordsDiffer, RecordsLast, OnceEach, OneRunPerDue, OfSchedule

LEMMA NextSchedule == ScheduleInv /\ [Next]_vars => ScheduleInv'
<1> SUFFICES ASSUME ScheduleInv, [Next]_vars PROVE ScheduleInv'
  OBVIOUS
<1> DEFINE Others == ScheduleType' /\ RunsAreKeyed' /\ RecordsDiffer' /\ RecordsLast' /\ OnceEach'
<1>1. TicksType'
  <2>1. CASE Next
    BY <2>1, TicksFollow DEF ScheduleInv
  <2>2. CASE UNCHANGED vars
    BY <2>2, TicksKept DEF ScheduleInv, TicksType, vars, scheduler
  <2> QED BY <2>1, <2>2
<1>2. StoreStep
  BY NextIsStoreStep DEF ScheduleInv
<1>3. CASE UNCHANGED <<rows, runs, idemLog, approvals, origin>>
  <2>1. rows' \in [Plans -> Row] /\ RunsKeep /\ approvals' \in Nat
    BY <1>3 DEF ScheduleInv, ScheduleType, RunsKeep
  <2> QED BY <1>1, <1>3, <2>1, KeyedRunsStay DEF ScheduleInv
<1>4. ASSUME NEW q \in Plans, Approve(q) \/ Reject(q), UNCHANGED origin PROVE Others
  <2>1. rows' \in [Plans -> Row] /\ approvals' \in Nat /\ UNCHANGED <<runs, idemLog>>
    BY <1>4, PlanMovesTyped DEF ScheduleInv
  <2>2. RunsKeep
    BY <2>1 DEF ScheduleInv, ScheduleType, RunsKeep
  <2> QED BY <1>4, <2>1, <2>2, KeyedRunsStay
<1>5. ASSUME NEW r \in RunIds \cup {NoRun}, NEW ok \in BOOLEAN, Finalize(r, ok), UNCHANGED origin
      PROVE  Others
  <2>1. rows' \in [Plans -> Row] /\ RunsKeep /\ UNCHANGED <<idemLog, approvals>>
    BY <1>5, FinalizeTyped DEF ScheduleInv
  <2>2. approvals' \in Nat
    BY <2>1 DEF ScheduleInv, ScheduleType
  <2> QED BY <1>5, <2>1, <2>2, KeyedRunsStay
<1>6. ASSUME NEW q \in Plans, NEW r \in RunIds, GrantClaim(q, NoKey, r), UNCHANGED origin
      PROVE  Others
  BY <1>6, RequestClaims
<1>7. ASSUME NEW s \in Schedules, NEW at \in Minutes, NEW r \in RunIds,
             ClaimedFor(s, at, Bound[s], <<s, at>>, r)
      PROVE  Others
  BY <1>7, ScheduleClaims
<1>8. Others
  BY <1>2, <1>3, <1>4, <1>5, <1>6, <1>7 DEF StoreStep, ScheduleInv
<1> QED BY <1>1, <1>8 DEF ScheduleInv

THEOREM ScheduleInductive == Spec => []ScheduleInv
<1>1. Init => ScheduleInv
  BY InitSchedule
<1>2. ScheduleInv /\ [Next]_vars => ScheduleInv'
  BY NextSchedule
<1> QED BY <1>1, <1>2, PTL DEF Spec

(* One due time of a schedule starts one apply as long as no idempotency   *)
(* record was trimmed (claimPlanForApply): always, when the store keeps at *)
(* least as many records as there are runs.                                *)
THEOREM OneRunPerDueAlways ==
  /\ Spec => [](Len(idemLog) < RunCap => OneRunPerDue)
  /\ IsFiniteSet(RunIds) /\ Cardinality(RunIds) <= RunCap => (Spec => []OneRunPerDue)
<1>1. ScheduleInv => (Len(idemLog) < RunCap => OneRunPerDue)
  BY DEF ScheduleInv, OnceEach, NoneTrimmed
<1>2. Spec => [](Len(idemLog) < RunCap => OneRunPerDue)
  BY <1>1, ScheduleInductive, PTL
<1>3. ASSUME IsFiniteSet(RunIds) /\ Cardinality(RunIds) <= RunCap
      PROVE  Spec => []OneRunPerDue
  <2>1. ScheduleInv => OneRunPerDue
    BY <1>3 DEF ScheduleInv, OnceEach, NoneTrimmed, Roomy
  <2> QED BY <2>1, ScheduleInductive, PTL
<1> QED BY <1>2, <1>3

-----------------------------------------------------------------------------
(* The naturals are well-founded, and a set of them that is closed under   *)
(* successors is all of them: induction, without an operator to apply.     *)
NatLess == {p \in Nat \X Nat : p[1] < p[2]}

LEMMA LeastNatural ==
  ASSUME NEW S \in SUBSET Nat, S # {}
  PROVE  \E n \in S : \A m \in S : n <= m
<1>1. OpToRel(<, Nat) = NatLess
  BY DEF OpToRel, NatLess
<1>2. PICK n \in S : \A m \in S : ~(<<m, n>> \in NatLess)
  BY <1>1, NatLessThanWellFounded, WFMin
<1>3. \A m \in S : ~(m < n)
  <2>1. \A m \in S : <<m, n>> \in Nat \X Nat
    OBVIOUS
  <2> QED BY <1>2, <2>1 DEF NatLess
<1> QED BY <1>3

LEMMA ByInduction ==
  ASSUME NEW S \in SUBSET Nat, 0 \in S, \A n \in S : n + 1 \in S
  PROVE  S = Nat
<1>1. ASSUME Nat \ S # {} PROVE FALSE
  <2>1. PICK n \in Nat \ S : \A m \in Nat \ S : n <= m
    BY <1>1, LeastNatural
  <2>2. n # 0 /\ n - 1 \in Nat /\ ~(n <= n - 1)
    BY <2>1
  <2>3. n - 1 \in S
    BY <2>1, <2>2
  <2>4. (n - 1) + 1 \in S
    BY <2>3
  <2> QED BY <2>1, <2>4
<1> QED BY <1>1

(* Products and quotients.                                                 *)
LEMMA Times ==
  ASSUME NEW a \in Nat, NEW b \in Nat, NEW n \in Nat \ {0}
  PROVE  /\ a * n \in Nat /\ (a + 1) * n = a * n + n
         /\ a <= b => a * n <= b * n
         /\ a * n < b * n => a < b
OBVIOUS

LEMMA Quotient ==
  ASSUME NEW t \in Nat, NEW n \in Nat \ {0}
  PROVE  /\ t \div n \in Nat
         /\ (t \div n) * n <= t /\ t < ((t \div n) + 1) * n
OBVIOUS

LEMMA SameQuotient ==
  ASSUME NEW t \in Nat, NEW u \in Nat, NEW n \in Nat \ {0},
         t <= u, u < (t \div n + 1) * n
  PROVE  u \div n = t \div n
<1>1. /\ t \div n \in Nat /\ u \div n \in Nat
      /\ (t \div n) * n <= t /\ (u \div n) * n <= u
      /\ u < ((u \div n) + 1) * n
  BY Quotient
<1> DEFINE p == t \div n
           q == u \div n
<1>2. p \in Nat /\ q \in Nat /\ p + 1 \in Nat /\ q + 1 \in Nat
  BY <1>1
<1>3. p * n < (q + 1) * n /\ q * n < (p + 1) * n
  <2>1. p * n \in Nat /\ q * n \in Nat /\ (p + 1) * n \in Nat /\ (q + 1) * n \in Nat
    BY <1>2, Times
  <2> QED BY <1>1, <2>1
<1> HIDE DEF p, q
<1>4. p < q + 1 /\ q < p + 1
  BY <1>2, <1>3, Times
<1>5. p = q
  BY <1>2, <1>4
<1> QED BY <1>5 DEF p, q

LEMMA QuotientBelow ==
  ASSUME NEW t \in Nat, NEW u \in Nat, NEW n \in Nat \ {0}, NEW m \in Nat, t <= u
  PROVE  /\ t \div n <= u \div n
         /\ u < m * n => u \div n < m
         /\ t \div n < m => t < m * n
<1>1. /\ t \div n \in Nat /\ u \div n \in Nat
      /\ (t \div n) * n <= t /\ (u \div n) * n <= u
      /\ t < ((t \div n) + 1) * n /\ u < ((u \div n) + 1) * n
  BY Quotient
<1> DEFINE p == t \div n
           q == u \div n
<1>2. p \in Nat /\ q \in Nat /\ p + 1 \in Nat /\ q + 1 \in Nat
  BY <1>1
<1>3. /\ p * n \in Nat /\ q * n \in Nat /\ (p + 1) * n \in Nat /\ (q + 1) * n \in Nat
      /\ m * n \in Nat
  BY <1>2, Times
<1>4. /\ p * n <= t /\ q * n <= u /\ t < (p + 1) * n /\ u < (q + 1) * n
  BY <1>1
<1> HIDE DEF p, q
<1>5. p < q + 1
  <2>1. p * n < (q + 1) * n
    BY <1>3, <1>4
  <2> QED BY <1>2, <2>1, Times
<1>6. ASSUME u < m * n PROVE q < m
  <2>1. q * n < m * n
    BY <1>3, <1>4, <1>6
  <2> QED BY <1>2, <2>1, Times
<1>7. ASSUME p < m PROVE t < m * n
  <2>1. p + 1 <= m
    BY <1>2, <1>7
  <2>2. (p + 1) * n <= m * n
    BY <1>2, <2>1, Times
  <2> QED BY <1>3, <1>4, <2>2
<1>8. p <= q
  BY <1>2, <1>5
<1> QED BY <1>6, <1>7, <1>8 DEF p, q

-----------------------------------------------------------------------------
(* The calendar: the months follow each other, and a day within it is in   *)
(* one of them.                                                            *)

Months == Len(MonthLengths)

LEMMA CalendarFacts ==
  /\ MinutesPerHour \in Nat \ {0} /\ HoursPerDay \in Nat \ {0}
  /\ SearchDays \in Nat \ {0} /\ MinutesPerDay \in Nat \ {0}
  /\ Months \in Nat /\ DOMAIN MonthLengths = 1..Months
  /\ \A m \in 1..Months : MonthLengths[m] \in Nat \ {0}
<1>1. /\ MinutesPerHour \in Nat \ {0} /\ HoursPerDay \in Nat \ {0}
      /\ SearchDays \in Nat \ {0} /\ MonthLengths \in Seq(Nat \ {0})
  BY CronAssumptions
<1>2. MinutesPerDay \in Nat \ {0}
  <2>1. \A a, b \in Nat \ {0} : a * b \in Nat \ {0}
    OBVIOUS
  <2> QED BY <1>1, <2>1 DEF MinutesPerDay
<1>3. Months \in Nat /\ DOMAIN MonthLengths = 1..Months
  BY <1>1 DEF Months
<1>4. \A m \in 1..Months : MonthLengths[m] \in Nat \ {0}
  BY <1>1, <1>3
<1> QED BY <1>1, <1>2, <1>3, <1>4

(* What the recursive definition of MonthStart defines.                    *)
Starts(g, k) ==
  /\ g \in [1..Months + 1 -> Nat]
  /\ \A m \in 1..k : g[m] = IF m = 1 THEN 0 ELSE g[m - 1] + MonthLengths[m - 1]

LEMMA StartsExist == \E g : Starts(g, Months + 1)
<1> DEFINE S == {k \in Nat : k <= Months => \E g : Starts(g, k + 1)}
<1> USE CalendarFacts
<1>1. 0 \in S
  <2>1. PICK g : g = [m \in 1..Months + 1 |-> 0]
    OBVIOUS
  <2>2. g \in [1..Months + 1 -> Nat] /\ g[1] = 0
    BY <2>1
  <2>3. Starts(g, 0 + 1)
    BY <2>2 DEF Starts
  <2> QED BY <2>3
<1>2. ASSUME NEW k \in S PROVE k + 1 \in S
  <2> SUFFICES ASSUME k + 1 <= Months PROVE \E h : Starts(h, (k + 1) + 1)
    OBVIOUS
  <2>1. PICK g : Starts(g, k + 1)
    OBVIOUS
  <2>2. /\ g \in [1..Months + 1 -> Nat] /\ k \in Nat
        /\ k + 1 \in 1..Months + 1 /\ k + 2 \in 1..Months + 1 /\ k + 1 \in 1..Months
    BY <2>1 DEF Starts
  <2>3. PICK h : h = [g EXCEPT ![k + 2] = g[k + 1] + MonthLengths[k + 1]]
    OBVIOUS
  <2>4. g[k + 1] \in Nat /\ MonthLengths[k + 1] \in Nat
    BY <2>2
  <2>5. /\ h \in [1..Months + 1 -> Nat] /\ h[k + 2] = g[k + 1] + MonthLengths[k + 1]
        /\ \A m \in 1..k + 1 : h[m] = g[m]
    BY <2>2, <2>3, <2>4
  <2>6. ASSUME NEW m \in 1..(k + 1) + 1
        PROVE  h[m] = IF m = 1 THEN 0 ELSE h[m - 1] + MonthLengths[m - 1]
    <3>1. CASE m = k + 2
      <4>1. m # 1 /\ m - 1 = k + 1
        BY <2>2, <3>1
      <4> QED BY <2>2, <2>5, <3>1, <4>1
    <3>2. CASE m # k + 2
      <4>1. m \in 1..k + 1 /\ (m # 1 => m - 1 \in 1..k + 1)
        BY <2>2, <3>2
      <4>2. g[m] = IF m = 1 THEN 0 ELSE g[m - 1] + MonthLengths[m - 1]
        BY <2>1, <4>1 DEF Starts
      <4> QED BY <2>5, <4>1, <4>2
    <3> QED BY <3>1, <3>2
  <2>7. Starts(h, (k + 1) + 1)
    BY <2>5, <2>6 DEF Starts
  <2> QED BY <2>7
<1>3. S = Nat
  <2>1. S \in SUBSET Nat
    OBVIOUS
  <2> HIDE DEF S
  <2> QED BY <1>1, <1>2, <2>1, ByInduction
<1>4. Months \in S
  BY <1>3
<1> QED BY <1>4

LEMMA MonthStartFacts == Starts(MonthStart, Months + 1)
<1> DEFINE F(g) == [m \in 1..Months + 1 |-> IF m = 1 THEN 0 ELSE g[m - 1] + MonthLengths[m - 1]]
<1>1. PICK g : Starts(g, Months + 1)
  BY StartsExist
<1>2. g = F(g)
  BY <1>1 DEF Starts
<1>3. MonthStart = CHOOSE h : h = F(h)
  BY DEF MonthStart, Months
<1>4. MonthStart = F(MonthStart)
  <2> HIDE DEF F
  <2> QED BY <1>2, <1>3
<1>5. /\ DOMAIN MonthStart = 1..Months + 1
      /\ \A m \in 1..Months + 1 :
           MonthStart[m] = IF m = 1 THEN 0 ELSE MonthStart[m - 1] + MonthLengths[m - 1]
  BY <1>4
<1> HIDE DEF F
<1> DEFINE S == {k \in Nat : k <= Months => MonthStart[k + 1] \in Nat}
<1> USE CalendarFacts
<1>6. 0 \in S
  <2>1. 1 \in 1..Months + 1
    OBVIOUS
  <2> QED BY <1>5, <2>1
<1>7. ASSUME NEW k \in S PROVE k + 1 \in S
  <2> SUFFICES ASSUME k + 1 <= Months PROVE MonthStart[(k + 1) + 1] \in Nat
    OBVIOUS
  <2>1. /\ k \in Nat /\ MonthStart[k + 1] \in Nat /\ MonthLengths[k + 1] \in Nat
        /\ k + 2 \in 1..Months + 1 /\ k + 2 # 1 /\ (k + 2) - 1 = k + 1 /\ (k + 1) + 1 = k + 2
    OBVIOUS
  <2>2. MonthStart[k + 2] = MonthStart[k + 1] + MonthLengths[k + 1]
    BY <1>5, <2>1
  <2> QED BY <2>1, <2>2
<1>8. S = Nat
  <2>1. S \in SUBSET Nat
    OBVIOUS
  <2> HIDE DEF S
  <2> QED BY <1>6, <1>7, <2>1, ByInduction
<1>9. ASSUME NEW m \in 1..Months + 1 PROVE MonthStart[m] \in Nat
  <2>1. m - 1 \in Nat /\ m - 1 <= Months /\ (m - 1) + 1 = m
    OBVIOUS
  <2>2. m - 1 \in S
    BY <1>8, <2>1
  <2> QED BY <2>1, <2>2
<1>10. MonthStart = [m \in 1..Months + 1 |-> MonthStart[m]]
  BY <1>4 DEF F
<1>11. MonthStart \in [1..Months + 1 -> Nat]
  BY <1>9, <1>10
<1> QED BY <1>5, <1>11 DEF Starts

LEMMA MonthsFollow ==
  ASSUME NEW m \in 1..Months, NEW n \in 1..Months + 1
  PROVE  /\ MonthStart[m] \in Nat /\ MonthStart[m + 1] \in Nat /\ MonthStart[n] \in Nat
         /\ MonthStart[1] = 0
         /\ MonthStart[m] < MonthStart[m + 1]
         /\ m < n => MonthStart[m + 1] <= MonthStart[n]
<1> USE CalendarFacts
<1>1. \A k \in 1..Months + 1 : MonthStart[k] \in Nat
  BY MonthStartFacts DEF Starts
<1>2. MonthStart[1] = 0
  <2>1. 1 \in 1..Months + 1
    OBVIOUS
  <2> QED BY <2>1, MonthStartFacts DEF Starts
<1>3. ASSUME NEW k \in 1..Months
      PROVE  /\ k + 1 \in 1..Months + 1 /\ k \in 1..Months + 1
             /\ MonthStart[k + 1] = MonthStart[k] + MonthLengths[k]
             /\ MonthStart[k] < MonthStart[k + 1]
  <2>1. k + 1 \in 1..Months + 1 /\ k + 1 # 1 /\ (k + 1) - 1 = k /\ k \in 1..Months + 1
    OBVIOUS
  <2>2. MonthStart[k + 1] = MonthStart[k] + MonthLengths[k]
    BY <2>1, MonthStartFacts DEF Starts
  <2>3. MonthLengths[k] \in Nat \ {0} /\ MonthStart[k] \in Nat
    BY <1>1, <2>1
  <2> QED BY <2>1, <2>2, <2>3
<1> DEFINE S == {k \in Nat : m + 1 + k <= Months + 1 => MonthStart[m + 1] <= MonthStart[m + 1 + k]}
<1>4. 0 \in S
  <2>1. m + 1 + 0 = m + 1 /\ m + 1 \in 1..Months + 1
    OBVIOUS
  <2> QED BY <1>1, <2>1
<1>5. ASSUME NEW k \in S PROVE k + 1 \in S
  <2> SUFFICES ASSUME m + 1 + (k + 1) <= Months + 1
               PROVE  MonthStart[m + 1] <= MonthStart[m + 1 + (k + 1)]
    OBVIOUS
  <2>1. /\ k \in Nat /\ m + 1 + k \in 1..Months /\ m + 1 + (k + 1) = (m + 1 + k) + 1
        /\ m + 1 + k <= Months + 1 /\ m + 1 \in 1..Months + 1
    OBVIOUS
  <2>2. MonthStart[m + 1] <= MonthStart[m + 1 + k]
    BY <2>1
  <2>3. MonthStart[m + 1 + k] < MonthStart[(m + 1 + k) + 1]
    BY <1>3, <2>1
  <2>4. /\ MonthStart[m + 1] \in Nat /\ MonthStart[m + 1 + k] \in Nat
        /\ MonthStart[(m + 1 + k) + 1] \in Nat
    BY <1>1, <1>3, <2>1
  <2> QED BY <2>1, <2>2, <2>3, <2>4
<1>6. S = Nat
  <2>1. S \in SUBSET Nat
    OBVIOUS
  <2> HIDE DEF S
  <2> QED BY <1>4, <1>5, <2>1, ByInduction
<1>7. ASSUME m < n PROVE MonthStart[m + 1] <= MonthStart[n]
  <2>1. n - (m + 1) \in Nat /\ m + 1 + (n - (m + 1)) = n /\ n <= Months + 1
    BY <1>7
  <2>2. n - (m + 1) \in S
    BY <1>6, <2>1
  <2>3. MonthStart[m + 1] <= MonthStart[m + 1 + (n - (m + 1))]
    BY <2>1, <2>2
  <2> QED BY <2>1, <2>3
<1> QED BY <1>1, <1>2, <1>3, <1>7

(* The days that MonthLengths has.                                         *)
Days == MonthStart[Months + 1]

LEMMA MonthOf ==
  ASSUME NEW d \in Nat, d < Days
  PROVE  \E m \in 1..Months :
           /\ MonthStart[m] <= d /\ d < MonthStart[m + 1]
           /\ \A n \in 1..Months : MonthStart[n] <= d /\ d < MonthStart[n + 1] => n = m
<1> USE CalendarFacts
<1>1. \A k \in 1..Months + 1 : MonthStart[k] \in Nat
  BY MonthStartFacts DEF Starts
<1> DEFINE S == {k \in Nat : k <= Months /\ d < MonthStart[k + 1]}
<1>2. Months \in S
  BY DEF Days
<1>3. PICK k \in S : \A l \in S : k <= l
  <2>1. S \in SUBSET Nat /\ S # {}
    BY <1>2
  <2> HIDE DEF S
  <2> QED BY <2>1, LeastNatural
<1>4. k # 0
  <2>1. MonthStart[1] = 0
    <3>1. 1 \in 1..Months + 1
      OBVIOUS
    <3> QED BY <3>1, MonthStartFacts DEF Starts
  <2> QED BY <2>1
<1>5. k \in 1..Months /\ d < MonthStart[k + 1]
  BY <1>4
<1>6. MonthStart[k] <= d
  <2>1. k - 1 \in Nat /\ k - 1 <= Months /\ (k - 1) + 1 = k /\ ~(k <= k - 1)
    BY <1>5
  <2>2. k - 1 \notin S
    BY <1>3, <2>1
  <2>3. ~(d < MonthStart[k])
    BY <2>1, <2>2
  <2>4. MonthStart[k] \in Nat
    BY <1>1, <1>5
  <2> QED BY <2>3, <2>4
<1> HIDE DEF S
<1>7. ASSUME NEW n \in 1..Months, MonthStart[n] <= d, d < MonthStart[n + 1]
      PROVE  n = k
  <2>1. /\ n \in 1..Months + 1 /\ k \in 1..Months + 1
        /\ n + 1 \in 1..Months + 1 /\ k + 1 \in 1..Months + 1
    BY <1>5
  <2>2. /\ MonthStart[n] \in Nat /\ MonthStart[k] \in Nat
        /\ MonthStart[n + 1] \in Nat /\ MonthStart[k + 1] \in Nat
    BY <1>1, <2>1
  <2>3. n < k => MonthStart[n + 1] <= MonthStart[k]
    BY <2>1, MonthsFollow
  <2>4. k < n => MonthStart[k + 1] <= MonthStart[n]
    BY <1>5, <2>1, MonthsFollow
  <2>5. ~(n < k) /\ ~(k < n)
    BY <1>5, <1>6, <1>7, <2>2, <2>3, <2>4
  <2> QED BY <1>5, <2>5
<1> QED BY <1>5, <1>6, <1>7

LEMMA MonthIndexFacts ==
  ASSUME NEW t \in Nat, Day(t) < Days
  PROVE  /\ Day(t) \in Nat /\ MonthIndex(t) \in 1..Months
         /\ MonthStart[MonthIndex(t)] <= Day(t)
         /\ Day(t) < MonthStart[MonthIndex(t) + 1]
         /\ \A n \in 1..Months :
              MonthStart[n] <= Day(t) /\ Day(t) < MonthStart[n + 1] => n = MonthIndex(t)
<1>1. Day(t) \in Nat
  BY CalendarFacts, Quotient DEF Day
<1>2. PICK d \in Nat : d = Day(t)
  BY <1>1
<1>3. PICK m \in 1..Months :
        /\ MonthStart[m] <= d /\ d < MonthStart[m + 1]
        /\ \A n \in 1..Months : MonthStart[n] <= d /\ d < MonthStart[n + 1] => n = m
  BY <1>2, MonthOf
<1>4. MonthIndex(t) = CHOOSE n \in 1..Months : MonthStart[n] <= d /\ d < MonthStart[n + 1]
  BY <1>2, CalendarFacts DEF MonthIndex
<1>5. MonthIndex(t) = m
  BY <1>3, <1>4
<1> QED BY <1>1, <1>2, <1>3, <1>5

-----------------------------------------------------------------------------
(* Later passes over no match: up to the next candidate, the field that    *)
(* did not match stays what it is.                                         *)

Within(t) == t \in Nat /\ Day(t) < Days

LEMMA SameDay ==
  ASSUME NEW t, NEW u, Day(u) = Day(t)
  PROVE  /\ MonthIndex(u) = MonthIndex(t) /\ Month(u) = Month(t)
         /\ \A cron : OnDay(u, cron) = OnDay(t, cron)
<1>1. MonthIndex(u) = MonthIndex(t)
  BY DEF MonthIndex
<1> QED BY <1>1 DEF Month, OnDay, DayOfMonth, DayOfWeek

LEMMA ToNextMonth ==
  ASSUME NEW t, Within(t)
  PROVE  /\ NextMonth(t) \in Nat /\ t < NextMonth(t)
         /\ \A u \in t..NextMonth(t) - 1 : Month(u) = Month(t)
<1> DEFINE m == MonthIndex(t)
           e == MonthStart[m + 1]
<1>1. /\ t \in Nat /\ m \in 1..Months /\ MonthStart[m] <= Day(t) /\ Day(t) < e
      /\ Day(t) \in Nat
  BY MonthIndexFacts DEF Within
<1>2. MonthStart[m] \in Nat /\ e \in Nat /\ e <= Days /\ Days \in Nat
  <2>1. /\ m + 1 \in 1..Months + 1 /\ Months + 1 \in 1..Months + 1 /\ m \in 1..Months + 1
        /\ m < Months + 1
    BY <1>1, CalendarFacts
  <2>2. MonthStart[m + 1] <= MonthStart[Months + 1]
    BY <1>1, <2>1, MonthsFollow
  <2> QED BY <2>1, <2>2, MonthStartFacts DEF Days, Starts
<1> HIDE DEF e
<1>3. NextMonth(t) = e * MinutesPerDay
  BY DEF NextMonth, e
<1>4. e * MinutesPerDay \in Nat
  BY <1>2, CalendarFacts, Times
<1>5. t < NextMonth(t)
  <2>1. t \div MinutesPerDay < e /\ t <= t
    BY <1>1 DEF Day, e
  <2>2. t < e * MinutesPerDay
    BY <1>1, <1>2, <2>1, CalendarFacts, QuotientBelow
  <2> QED BY <1>3, <2>2
<1>6. ASSUME NEW u \in t..NextMonth(t) - 1 PROVE Month(u) = Month(t)
  <2>1. u \in Nat /\ t <= u /\ u < e * MinutesPerDay
    BY <1>1, <1>3, <1>4
  <2>2. Day(t) <= Day(u) /\ Day(u) < e /\ Day(u) \in Nat
    BY <1>1, <1>2, <2>1, CalendarFacts, QuotientBelow, Quotient DEF Day
  <2>3. MonthStart[m] <= Day(u) /\ Day(u) < Days
    BY <1>1, <1>2, <2>2
  <2>4. Day(u) < MonthStart[m + 1]
    BY <2>2 DEF e
  <2>5. m = MonthIndex(u)
    BY <1>1, <2>1, <2>3, <2>4, MonthIndexFacts
  <2> QED BY <2>5 DEF Month
<1> QED BY <1>3, <1>4, <1>5, <1>6

LEMMA ToNextDay ==
  ASSUME NEW t \in Nat
  PROVE  /\ NextDay(t) \in Nat /\ t < NextDay(t)
         /\ \A u \in t..NextDay(t) - 1 : Day(u) = Day(t)
<1>1. /\ Day(t) \in Nat /\ t < (Day(t) + 1) * MinutesPerDay
  BY CalendarFacts, Quotient DEF Day
<1>2. Day(t) + 1 \in Nat
  BY <1>1
<1>3. (Day(t) + 1) * MinutesPerDay \in Nat
  BY <1>2, CalendarFacts, Times
<1>4. ASSUME NEW u \in t..NextDay(t) - 1 PROVE Day(u) = Day(t)
  <2>1. u \in Nat /\ t <= u /\ u < (Day(t) + 1) * MinutesPerDay
    BY <1>3 DEF NextDay
  <2> QED BY <2>1, CalendarFacts, SameQuotient DEF Day
<1> QED BY <1>1, <1>3, <1>4 DEF NextDay

LEMMA ToNextHour ==
  ASSUME NEW t \in Nat
  PROVE  /\ NextHour(t) \in Nat /\ t < NextHour(t)
         /\ \A u \in t..NextHour(t) - 1 : Hour(u) = Hour(t)
<1> DEFINE h == t \div MinutesPerHour
<1>1. /\ h \in Nat /\ t < (h + 1) * MinutesPerHour
  BY CalendarFacts, Quotient
<1>2. h + 1 \in Nat
  BY <1>1
<1>3. (h + 1) * MinutesPerHour \in Nat
  BY <1>2, CalendarFacts, Times
<1>4. NextHour(t) = (h + 1) * MinutesPerHour
  BY DEF NextHour
<1>5. ASSUME NEW u \in t..NextHour(t) - 1 PROVE Hour(u) = Hour(t)
  <2>1. u \in Nat /\ t <= u /\ u < (h + 1) * MinutesPerHour
    BY <1>3, <1>4
  <2>2. u \div MinutesPerHour = t \div MinutesPerHour
    BY <2>1, CalendarFacts, SameQuotient
  <2> QED BY <2>2 DEF Hour
<1> QED BY <1>1, <1>3, <1>4, <1>5

LEMMA LaterSkips ==
  ASSUME NEW t, Within(t), NEW cron, ~Matches(t, cron)
  PROVE  /\ Later(t, cron) \in Nat /\ t < Later(t, cron)
         /\ \A u \in t..Later(t, cron) - 1 : ~Matches(u, cron)
<1>1. t \in Nat
  BY DEF Within
<1>2. CASE Month(t) \notin cron.month
  <2>1. Later(t, cron) = NextMonth(t)
    BY <1>2 DEF Later
  <2> QED BY <1>2, <2>1, ToNextMonth DEF Matches
<1>3. CASE Month(t) \in cron.month /\ ~OnDay(t, cron)
  <2>1. Later(t, cron) = NextDay(t)
    BY <1>3 DEF Later
  <2>2. ASSUME NEW u \in t..NextDay(t) - 1 PROVE ~Matches(u, cron)
    <3>1. OnDay(u, cron) = OnDay(t, cron)
      BY <1>1, ToNextDay, SameDay
    <3> QED BY <1>3, <3>1 DEF Matches
  <2> QED BY <1>1, <2>1, <2>2, ToNextDay
<1>4. CASE Month(t) \in cron.month /\ OnDay(t, cron) /\ Hour(t) \notin cron.hour
  <2>1. Later(t, cron) = NextHour(t)
    BY <1>4 DEF Later
  <2> QED BY <1>1, <1>4, <2>1, ToNextHour DEF Matches
<1>5. CASE Month(t) \in cron.month /\ OnDay(t, cron) /\ Hour(t) \in cron.hour
  <2>1. Later(t, cron) = t + 1
    BY <1>5 DEF Later
  <2>2. \A u \in t..(t + 1) - 1 : u = t
    BY <1>1
  <2> QED BY <1>1, <2>1, <2>2
<1> QED BY <1>2, <1>3, <1>4, <1>5

-----------------------------------------------------------------------------
(* The search.  The recursive definition of NextRunAfter defines a         *)
(* function, and by induction on how far the end is what it finds is the   *)
(* first match.                                                            *)

Horizon == SearchDays * MinutesPerDay

(* A step of the search up to end, by what g finds from later minutes.     *)
SearchStep(g, cron, end, t) ==
  IF t >= end THEN Never ELSE IF Matches(t, cron) THEN t ELSE g[Later(t, cron)]

SearchOf(g, cron, end) == [t \in Nat |-> SearchStep(g, cron, end, t)]

LEMMA SearchExists ==
  ASSUME NEW cron, NEW end \in Nat, \A t \in Nat : t < end => Within(t)
  PROVE  \E g : g = SearchOf(g, cron, end)
<1> DEFINE Good(g, k) == /\ g \in [Nat -> Int]
                         /\ \A t \in Nat : t + k >= end => g[t] = SearchStep(g, cron, end, t)
           S == {k \in Nat : \E g : Good(g, k)}
<1>1. 0 \in S
  <2>1. PICK g : g = [t \in Nat |-> Never]
    OBVIOUS
  <2>2. Good(g, 0)
    BY <2>1 DEF Never, SearchStep
  <2> QED BY <2>2
<1>2. ASSUME NEW k \in S PROVE k + 1 \in S
  <2>1. PICK g : Good(g, k)
    OBVIOUS
  <2>2. g \in [Nat -> Int] /\ k \in Nat
    BY <2>1
  <2>3. CASE end - (k + 1) \notin Nat
    <3>1. \A t \in Nat : t + k >= end
      BY <2>2, <2>3
    <3>2. Good(g, k + 1)
      BY <2>1, <3>1
    <3> QED BY <2>2, <3>2
  <2>4. CASE end - (k + 1) \in Nat
    <3>1. PICK s \in Nat : s = end - (k + 1)
      BY <2>4
    <3>2. s < end /\ \A t \in Nat : t + (k + 1) >= end => t = s \/ (t + k >= end /\ s < t)
      BY <2>2, <3>1
    <3>3. ASSUME NEW t \in Nat, t < end, ~Matches(t, cron)
          PROVE  Later(t, cron) \in Nat /\ t < Later(t, cron)
      BY <3>3, LaterSkips
    <3>4. SearchStep(g, cron, end, s) \in Int
      <4>1. ~Matches(s, cron) => g[Later(s, cron)] \in Int
        BY <2>2, <3>2, <3>3
      <4> QED BY <4>1 DEF SearchStep, Never
    <3>5. PICK h : h = [g EXCEPT ![s] = SearchStep(g, cron, end, s)]
      OBVIOUS
    <3>6. /\ h \in [Nat -> Int] /\ h[s] = SearchStep(g, cron, end, s)
          /\ \A t \in Nat : t # s => h[t] = g[t]
      BY <2>2, <3>4, <3>5
    <3>7. ASSUME NEW t \in Nat, s <= t
          PROVE  SearchStep(h, cron, end, t) = SearchStep(g, cron, end, t)
      <4>1. CASE t < end /\ ~Matches(t, cron)
        <5>1. Later(t, cron) \in Nat /\ Later(t, cron) # s
          BY <3>3, <3>7, <4>1
        <5> QED BY <3>6, <5>1 DEF SearchStep
      <4>2. CASE t >= end \/ Matches(t, cron)
        BY <4>2 DEF SearchStep
      <4> QED BY <4>1, <4>2
    <3>8. ASSUME NEW t \in Nat, t + (k + 1) >= end
          PROVE  h[t] = SearchStep(h, cron, end, t)
      <4>1. CASE t = s
        BY <3>6, <3>7, <4>1
      <4>2. CASE t + k >= end /\ s < t
        BY <2>1, <3>6, <3>7, <4>2
      <4> QED BY <3>2, <3>8, <4>1, <4>2
    <3>9. Good(h, k + 1)
      BY <3>6, <3>8
    <3> QED BY <2>2, <3>9
  <2> QED BY <2>3, <2>4
<1>3. end \in S
  <2>1. S \in SUBSET Nat
    OBVIOUS
  <2> HIDE DEF S
  <2> QED BY <1>1, <1>2, <2>1, ByInduction
<1>4. PICK g : Good(g, end)
  BY <1>3
<1>5. \A t \in Nat : t + end >= end
  OBVIOUS
<1>6. g \in [Nat -> Int] /\ \A t \in Nat : g[t] = SearchStep(g, cron, end, t)
  BY <1>4, <1>5
<1>7. g = SearchOf(g, cron, end)
  BY <1>6 DEF SearchOf
<1> QED BY <1>7

(* What a search from t on should find.                                    *)
FirstFrom(found, cron, end, t) ==
  IF \E u \in t..end - 1 : Matches(u, cron)
  THEN /\ found \in t..end - 1 /\ Matches(found, cron)
       /\ \A u \in t..end - 1 : Matches(u, cron) => found <= u
  ELSE found = Never

LEMMA SearchFinds ==
  ASSUME NEW cron, NEW end \in Nat, \A t \in Nat : t < end => Within(t),
         NEW g, g = SearchOf(g, cron, end), NEW from \in Nat
  PROVE  FirstFrom(g[from], cron, end, from)
<1> DEFINE S == {k \in Nat : \A t \in Nat : t + k >= end => FirstFrom(g[t], cron, end, t)}
<1>1. \A t \in Nat : g[t] = SearchStep(g, cron, end, t)
  BY DEF SearchOf
<1>2. ASSUME NEW t \in Nat, t >= end PROVE FirstFrom(g[t], cron, end, t)
  <2>1. g[t] = Never
    BY <1>1, <1>2 DEF SearchStep
  <2>2. t..end - 1 = {}
    BY <1>2
  <2> QED BY <2>1, <2>2 DEF FirstFrom
<1>3. 0 \in S
  BY <1>2
<1>4. ASSUME NEW k \in S PROVE k + 1 \in S
  <2> SUFFICES ASSUME NEW t \in Nat, t + (k + 1) >= end
               PROVE  FirstFrom(g[t], cron, end, t)
    OBVIOUS
  <2>1. CASE t >= end
    BY <2>1, <1>2
  <2>2. CASE t < end /\ Matches(t, cron)
    <3>1. g[t] = t
      BY <2>2, <1>1 DEF SearchStep
    <3>2. t \in t..end - 1 /\ \A u \in t..end - 1 : t <= u
      BY <2>2
    <3> QED BY <2>2, <3>1, <3>2 DEF FirstFrom
  <2>3. CASE t < end /\ ~Matches(t, cron)
    <3>1. PICK s : s = Later(t, cron)
      OBVIOUS
    <3>2. s \in Nat /\ t < s /\ \A u \in t..s - 1 : ~Matches(u, cron)
      BY <2>3, <3>1, LaterSkips
    <3>3. g[t] = g[s]
      BY <1>1, <2>3, <3>1 DEF SearchStep
    <3>4. k \in Nat /\ s + k >= end
      BY <3>2
    <3>5. FirstFrom(g[s], cron, end, s)
      BY <3>2, <3>4
    <3>6. \A u \in t..end - 1 : Matches(u, cron) => u \in s..end - 1
      BY <3>2
    <3>7. \A u \in s..end - 1 : u \in t..end - 1
      BY <3>2
    <3> QED BY <3>3, <3>5, <3>6, <3>7 DEF FirstFrom
  <2> QED BY <2>1, <2>2, <2>3
<1>5. end \in S
  <2>1. S \in SUBSET Nat
    OBVIOUS
  <2> HIDE DEF S
  <2> QED BY <1>3, <1>4, <2>1, ByInduction
<1>6. from + end >= end
  OBVIOUS
<1> QED BY <1>5, <1>6

Runs(cron, from) ==
  {t \in from + 1..from + SearchDays * MinutesPerDay - 1 : Matches(t, cron)}

LEMMA FirstOfRuns ==
  ASSUME NEW cron, NEW from \in Nat
  PROVE  /\ Runs(cron, from) = {} => FirstMatchAfter(cron, from) = Never
         /\ \A r \in Runs(cron, from) :
              (\A u \in Runs(cron, from) : r <= u) => FirstMatchAfter(cron, from) = r
<1>1. ASSUME Runs(cron, from) = {} PROVE FirstMatchAfter(cron, from) = Never
  BY <1>1 DEF FirstMatchAfter, Runs
<1>2. ASSUME NEW r \in Runs(cron, from), \A u \in Runs(cron, from) : r <= u
      PROVE  FirstMatchAfter(cron, from) = r
  <2>1. SearchDays * MinutesPerDay \in Nat
    BY CalendarFacts, Times
  <2> QED BY <1>2, <2>1 DEF FirstMatchAfter, Runs
<1> QED BY <1>1, <1>2

(* The calendar has every minute that a search from one of the first may   *)
(* look at.                                                                *)
CalendarLasts(from) == from + Horizon <= Days * MinutesPerDay

LEMMA SearchResult ==
  ASSUME NEW cron, NEW from \in Nat, CalendarLasts(from)
  PROVE  /\ NextRunAfter(cron, from) = FirstMatchAfter(cron, from)
         /\ NextRunAfter(cron, from) \in Int
<1> DEFINE end == from + SearchDays * MinutesPerDay
<1>1. end \in Nat /\ from + 1 \in Nat
  <2>1. SearchDays * MinutesPerDay \in Nat
    BY CalendarFacts, Times
  <2> QED BY <2>1
<1>2. ASSUME NEW t \in Nat, t < end PROVE Within(t)
  <2>1. end <= Days * MinutesPerDay
    BY DEF CalendarLasts, Horizon
  <2>2. Days \in Nat
    <3>1. Months + 1 \in 1..Months + 1
      BY CalendarFacts
    <3> QED BY <3>1, MonthStartFacts DEF Days, Starts
  <2>3. Days * MinutesPerDay \in Nat
    BY <2>2, CalendarFacts, Times
  <2>4. t < Days * MinutesPerDay /\ t <= t
    BY <1>1, <1>2, <2>1, <2>3
  <2>5. t \div MinutesPerDay < Days
    BY <2>2, <2>4, CalendarFacts, QuotientBelow
  <2> QED BY <2>5 DEF Within, Day
<1>3. NextRunAfter(cron, from) = (CHOOSE g : g = SearchOf(g, cron, end))[from + 1]
  BY DEF NextRunAfter, SearchOf, SearchStep
<1>8. Runs(cron, from) = {t \in from + 1..end - 1 : Matches(t, cron)}
  <2>1. SearchDays * MinutesPerDay \in Nat
    BY CalendarFacts, Times
  <2>2. from + SearchDays * MinutesPerDay - 1 = end - 1
    BY <2>1
  <2> QED BY <2>2 DEF Runs
<1> HIDE DEF end
<1>4. PICK g : g = CHOOSE h : h = SearchOf(h, cron, end)
  OBVIOUS
<1>5. g = SearchOf(g, cron, end)
  BY <1>1, <1>2, <1>4, SearchExists
<1>6. FirstFrom(g[from + 1], cron, end, from + 1)
  BY <1>1, <1>2, <1>5, SearchFinds
<1>7. NextRunAfter(cron, from) = g[from + 1]
  BY <1>3, <1>4
<1>9. g[from + 1] \in Int
  <2>1. g[from + 1] \in from + 1..end - 1 \/ g[from + 1] = Never
    BY <1>6 DEF FirstFrom
  <2> QED BY <1>1, <2>1 DEF Never
<1>10. CASE Runs(cron, from) = {}
  <2>1. g[from + 1] = Never
    BY <1>6, <1>8, <1>10 DEF FirstFrom
  <2> QED BY <1>7, <1>9, <1>10, <2>1, FirstOfRuns
<1>11. CASE Runs(cron, from) # {}
  <2>1. /\ g[from + 1] \in Runs(cron, from)
        /\ \A u \in Runs(cron, from) : g[from + 1] <= u
    BY <1>6, <1>8, <1>11 DEF FirstFrom
  <2> QED BY <1>7, <1>9, <2>1, FirstOfRuns
<1> QED BY <1>7, <1>9, <1>10, <1>11

(* NextRunAfter jumps over months, days and hours and finds what it        *)
(* promises, the first minute after from that matches, or Never if there   *)
(* is none before the horizon (nextRunAfter of cron.ts), for any lengths   *)
(* of hours, days, weeks and months.                                       *)
THEOREM SearchIsFirstMatch ==
  ASSUME NEW cron, NEW from \in Nat, CalendarLasts(from)
  PROVE  NextRunAfter(cron, from) = FirstMatchAfter(cron, from)
BY SearchResult

-----------------------------------------------------------------------------
(* The schedules go by the search.                                         *)

ScheduleRow == [kept : BOOLEAN, dry : BOOLEAN, cron : Crons, next : Int]

SchedulesType == schedules \in [Schedules -> ScheduleRow]

CalendarReaches == CalendarLasts(LastMinute)

LEMMA MinuteFits ==
  ASSUME CalendarReaches, NEW t \in Minutes
  PROVE  t \in Nat /\ CalendarLasts(t)
<1>1. LastMinute \in Nat /\ t \in Nat /\ t <= LastMinute
  BY PlanScheduleAssumptions DEF Minutes
<1>2. Horizon \in Nat
  BY CalendarFacts, Times DEF Horizon
<1>3. Days * MinutesPerDay \in Nat
  <2>1. Months + 1 \in 1..Months + 1
    BY CalendarFacts
  <2>2. Days \in Nat
    BY <2>1, MonthStartFacts DEF Days, Starts
  <2> QED BY <2>2, CalendarFacts, Times
<1> QED BY <1>1, <1>2, <1>3 DEF CalendarReaches, CalendarLasts

LEMMA RescheduledFacts ==
  ASSUME CalendarReaches, now \in Minutes, NEW row \in ScheduleRow
  PROVE  /\ Rescheduled(row) \in ScheduleRow
         /\ Rescheduled(row).next = FirstMatchAfter(row.cron, now)
<1>1. /\ NextRunAfter(row.cron, now) \in Int
      /\ NextRunAfter(row.cron, now) = FirstMatchAfter(row.cron, now)
  BY MinuteFits, SearchResult
<1>2. PICK n \in Int : n = NextRunAfter(row.cron, now)
  BY <1>1
<1>3. Rescheduled(row) = [row EXCEPT !.next = n]
  BY <1>2 DEF Rescheduled
<1>4. [row EXCEPT !.next = n] \in ScheduleRow /\ [row EXCEPT !.next = n].next = n
  BY DEF ScheduleRow
<1> QED BY <1>1, <1>2, <1>3, <1>4

(* What a step does to the schedules: each stays, is rescheduled, or goes. *)
LEMMA SchedulesMove ==
  ASSUME SchedulesType, [Next]_vars
  PROVE  \/ schedules' = schedules
         \/ /\ schedules' \in [Schedules -> {schedules'[s] : s \in Schedules}]
            /\ \A s \in Schedules :
                 \/ schedules'[s] = schedules[s] \/ schedules'[s] = Rescheduled(schedules[s])
                 \/ schedules'[s] = [schedules[s] EXCEPT !.kept = FALSE, !.next = Never]
<1>1. CASE Initialize
  BY <1>1 DEF Initialize
<1>2. ASSUME NEW k \in Ticks, Report(k) \/ ReportFailure(k)
      PROVE  \/ schedules' = schedules
             \/ /\ schedules' \in [Schedules -> {schedules'[s] : s \in Schedules}]
                /\ \A s \in Schedules :
                     schedules'[s] = schedules[s] \/ schedules'[s] = Rescheduled(schedules[s])
  <2>1. Update(ticks[k].fired)
    BY <1>2 DEF Report, ReportFailure
  <2> QED BY <2>1 DEF Update, SchedulesType
<1>3. ASSUME NEW t \in Schedules, DeleteSchedule(t)
      PROVE  /\ schedules' \in [Schedules -> {schedules'[s] : s \in Schedules}]
             /\ \A s \in Schedules :
                  \/ schedules'[s] = schedules[s]
                  \/ schedules'[s] = [schedules[s] EXCEPT !.kept = FALSE, !.next = Never]
  <2>1. PICK r : r = [schedules[t] EXCEPT !.kept = FALSE, !.next = Never]
    OBVIOUS
  <2>2. schedules' = [schedules EXCEPT ![t] = r]
    BY <1>3, <2>1 DEF DeleteSchedule, SchedulesType
  <2> QED BY <2>1, <2>2 DEF SchedulesType
<1>4. CASE InitializeFails \/ TimePasses \/ Crash \/ UNCHANGED vars
  BY <1>4 DEF InitializeFails, TimePasses, Crash, vars, scheduler
<1>5. ASSUME NEW k \in Ticks, ReadDue(k) \/ TickStep(k), ~Report(k), ~ReportFailure(k)
      PROVE  schedules' = schedules
  BY <1>5
  DEF TickStep, ReadDue, TickEnds, Fire, Claim, NotClaimed, ClaimThrows, Execute,
      FinalizeRun, Announce, UpdateThrows, ReportFailureThrows
<1>6. ASSUME NEW p \in Plans, ApprovePlan(p) \/ RejectPlan(p) \/ UserClaims(p)
      PROVE  schedules' = schedules
  BY <1>6 DEF ApprovePlan, RejectPlan, UserClaims, scheduler
<1>7. ASSUME NEW r \in RunIds, NEW ok \in BOOLEAN, UserFinalizes(r, ok)
      PROVE  schedules' = schedules
  BY <1>7 DEF UserFinalizes
<1> QED BY <1>1, <1>2, <1>3, <1>4, <1>5, <1>6, <1>7 DEF Next

LEMMA RowsMove ==
  ASSUME CalendarReaches, now \in Minutes, SchedulesType, [Next]_vars
  PROVE  /\ SchedulesType'
         /\ \A s \in Schedules :
              schedules'[s].kept /\ schedules'[s].next # schedules[s].next =>
                schedules'[s].next = FirstMatchAfter(schedules[s].cron, now)
<1>1. CASE schedules' = schedules
  BY <1>1 DEF SchedulesType
<1>2. CASE schedules' # schedules
  <2>1. /\ schedules' \in [Schedules -> {schedules'[s] : s \in Schedules}]
        /\ \A s \in Schedules :
             \/ schedules'[s] = schedules[s] \/ schedules'[s] = Rescheduled(schedules[s])
             \/ schedules'[s] = [schedules[s] EXCEPT !.kept = FALSE, !.next = Never]
    BY <1>2, SchedulesMove
  <2>2. ASSUME NEW row \in ScheduleRow
        PROVE  /\ [row EXCEPT !.kept = FALSE, !.next = Never] \in ScheduleRow
               /\ [row EXCEPT !.kept = FALSE, !.next = Never].kept = FALSE
    <3>1. PICK r : r = [row EXCEPT !.kept = FALSE, !.next = Never]
      OBVIOUS
    <3>2. /\ r = [kept |-> FALSE, dry |-> row.dry, cron |-> row.cron, next |-> Never]
      BY <3>1 DEF ScheduleRow
    <3>3. row.dry \in BOOLEAN /\ row.cron \in Crons /\ Never \in Int
      BY DEF ScheduleRow, Never
    <3>4. PICK c, d, n : c = row.cron /\ d = row.dry /\ n = Never
      OBVIOUS
    <3>5. r = [kept |-> FALSE, dry |-> d, cron |-> c, next |-> n] /\ r.kept = FALSE
      BY <3>2, <3>4
    <3>6. d \in BOOLEAN /\ c \in Crons /\ n \in Int /\ FALSE \in BOOLEAN
      BY <3>3, <3>4
    <3>7. r \in ScheduleRow
      BY <3>5, <3>6, Zenon DEF ScheduleRow
    <3> QED BY <3>1, <3>5, <3>7
  <2>3. ASSUME NEW s \in Schedules
        PROVE  /\ schedules'[s] \in ScheduleRow
               /\ schedules'[s].kept /\ schedules'[s].next # schedules[s].next =>
                    schedules'[s].next = FirstMatchAfter(schedules[s].cron, now)
    <3>1. schedules[s] \in ScheduleRow
      BY DEF SchedulesType
    <3>2. CASE schedules'[s] = schedules[s]
      BY <3>1, <3>2
    <3>3. CASE schedules'[s] = Rescheduled(schedules[s])
      BY <3>1, <3>3, RescheduledFacts
    <3>4. CASE schedules'[s] = [schedules[s] EXCEPT !.kept = FALSE, !.next = Never]
      BY <3>1, <3>4, <2>2
    <3> QED BY <2>1, <3>2, <3>3, <3>4
  <2>4. schedules' \in [Schedules -> ScheduleRow]
    BY <2>1, <2>3
  <2> QED BY <2>3, <2>4 DEF SchedulesType
<1> QED BY <1>1, <1>2

LEMMA InitSchedules ==
  ASSUME CalendarReaches, Init
  PROVE  SchedulesType
<1>1. PICK cron \in [Schedules -> Crons], dry \in [Schedules -> BOOLEAN] :
        schedules = [s \in Schedules |->
          [kept |-> TRUE, dry |-> dry[s], cron |-> cron[s], next |-> NextRunAfter(cron[s], 0)]]
  BY DEF Init
<1>2. 0 \in Minutes
  BY PlanScheduleAssumptions DEF Minutes
<1>3. ASSUME NEW s \in Schedules PROVE schedules[s] \in ScheduleRow
  <2>1. NextRunAfter(cron[s], 0) \in Int
    BY <1>2, MinuteFits, SearchResult
  <2>2. PICK n \in Int : n = NextRunAfter(cron[s], 0)
    BY <2>1
  <2>3. schedules[s] = [kept |-> TRUE, dry |-> dry[s], cron |-> cron[s], next |-> n]
    BY <1>1, <2>2
  <2> QED BY <2>3 DEF ScheduleRow
<1>4. schedules = [s \in Schedules |-> schedules[s]]
  BY <1>1
<1> QED BY <1>3, <1>4 DEF SchedulesType

(* NextIsFirstMatch for any calendar that has the minutes looked at:       *)
(* whatever moves a schedule on, a run, a skip, a failure or a restart, it *)
(* goes to the first minute after now that its expression matches          *)
(* (updateScheduleAfterRun, initializeNextRunTimes).                       *)
THEOREM NextIsFirstMatchAlways ==
  ASSUME CalendarReaches
  PROVE  Spec => NextIsFirstMatch
<1>1. Init => SchedulesType
  BY InitSchedules
<1>2. ScheduleInv => now \in Minutes
  BY DEF ScheduleInv, TicksType
<1>3. now \in Minutes /\ SchedulesType /\ [Next]_vars => SchedulesType'
  BY RowsMove
<1>4. now \in Minutes /\ SchedulesType /\ [Next]_vars => [MovesToFirstMatch]_schedules
  BY RowsMove DEF MovesToFirstMatch
<1> QED BY <1>1, <1>2, <1>3, <1>4, ScheduleInductive, PTL DEF Spec, NextIsFirstMatch
===============================================================================
