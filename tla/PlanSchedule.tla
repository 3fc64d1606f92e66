----------------------------- MODULE PlanSchedule -----------------------------
(***************************************************************************)
(* The plan scheduler (scheduler.ts): schedules bound to an approved plan, *)
(* fired by ticks that read the schedules that are due, claim the plan in  *)
(* the plan store, execute it and move the schedule on.                    *)
(*                                                                         *)
(* A tick comes every 30 s whether or not the one before it is through, so *)
(* ticks overlap, and each works on the schedules as it read them.  A      *)
(* rejected tick is an unhandled rejection, which ends the process.        *)
(* Executions are abstract here: PlanApply has their steps.  A schedule    *)
(* that is not enabled never runs and is no schedule here; none can be     *)
(* created or changed any more, the routes answer 410.                     *)
(***************************************************************************)
EXTENDS PlanStore, Cron

CONSTANTS
  Schedules, NoSchedule,
  Bound,          \* schedule -> its plan
  Crons,          \* the parsed expressions a schedule may have
  Ticks,          \* ticks that may be under way at once
  LastMinute,     \* bound on the time of a behaviour
  MaxFaults       \* bound on the updates of the store that fail and the crashes

ASSUME PlanScheduleAssumptions ==
  /\ Bound \in [Schedules -> Plans]
  /\ NoSchedule \notin Schedules
  /\ Keys = Schedules \X (0..LastMinute)
  /\ LastMinute \in Nat /\ MaxFaults \in Nat

VARIABLES
  now,        \* the minute it is
  schedules,  \* schedule -> its row
  ticks,      \* tick -> its local state
  starting,   \* initializeNextRunTimes has not come to its update yet
  userRuns,   \* runs claimed by requests that are under way
  origin,     \* auxiliary: run -> the schedule and the due time it is for
  faults

scheduler == <<now, schedules, ticks, starting, userRuns, origin, faults>>
vars == <<storeVars, scheduler>>

IdleTick == [pc |-> "idle", due |-> {}, fired |-> NoSchedule, at |-> Never,
             run |-> NoRun, status |-> "none"]

(* A schedule was made for an approved plan; nothing else has happened yet. *)
Init ==
  /\ rows = [p \in Plans |-> [status |-> "approved", active |-> NoRun,
                              approval |-> 1, dryKey |-> NoKey, undoFailed |-> {}]]
  /\ runs = [r \in RunIds |-> UnusedRun] /\ runLog = <<>> /\ idemLog = <<>>
  /\ evidence = <<>> /\ approvals = 1
  /\ now = 0
  /\ \E cron \in [Schedules -> Crons], dry \in [Schedules -> BOOLEAN] :
       schedules = [s \in Schedules |->
         [kept |-> TRUE, dry |-> dry[s], cron |-> cron[s], next |-> NextRunAfter(cron[s], 0)]]
  /\ ticks = [k \in Ticks |-> IdleTick] /\ starting = TRUE
  /\ userRuns = {} /\ origin = [r \in RunIds |-> <<NoSchedule, Never>>]
  /\ faults = 0

IsDue(s) == schedules[s].kept /\ schedules[s].next \in 0..now

At(k, pc) == ticks[k].pc = pc

(* What is left of fireApprovedPlanSchedule needs the schedule only.       *)
Leaves(k, pc) ==
  ticks' = [ticks EXCEPT ![k] = [IdleTick EXCEPT !.pc = pc, !.due = ticks[k].due,
                                   !.fired = IF pc = "next" THEN NoSchedule ELSE ticks[k].fired]]

Plan(k) == Bound[ticks[k].fired]

Faults == faults < MaxFaults /\ faults' = faults + 1

(* The process starts again; what it did is left where it was.             *)
Restarts ==
  /\ ticks' = [k \in Ticks |-> IdleTick] /\ starting' = TRUE /\ userRuns' = {}

-----------------------------------------------------------------------------
(* Mutant of Rescheduled: the next run counts from the one that was due. *)
RescheduledFromDue(row) == [row EXCEPT !.next = NextRunAfter(row.cron, row.next)]

Rescheduled(row) == [row EXCEPT !.next = NextRunAfter(row.cron, now)]

(* updateScheduleAfterRun: nothing if the schedule is gone.  The status it *)
(* keeps for display is left out.                                          *)
Update(s) ==
  schedules' = IF schedules[s].kept THEN [schedules EXCEPT ![s] = Rescheduled(@)] ELSE schedules

(* initializeNextRunTimes, beside the first tick: its update is queued on  *)
(* the store's mutex before any that a tick makes.                         *)
Initialize ==
  /\ starting /\ starting' = FALSE
  /\ schedules' = [s \in Schedules |->
       IF schedules[s].kept /\ (schedules[s].next = Never \/ schedules[s].next <= now)
       THEN Rescheduled(schedules[s]) ELSE schedules[s]]
  /\ UNCHANGED <<storeVars, now, ticks, userRuns, origin, faults>>

InitializeFails ==
  /\ starting /\ Faults
  /\ Restarts
  /\ UNCHANGED <<storeVars, now, schedules, origin>>

(* A tick reads what is due.                                               *)
ReadDue(k) ==
  /\ At(k, "idle")
  /\ \E s \in Schedules : IsDue(s)
  /\ ticks' = [ticks EXCEPT ![k].pc = "next",
       ![k].due = {[id |-> s, at |-> schedules[s].next] : s \in {x \in Schedules : IsDue(x)}}]
  /\ UNCHANGED <<storeVars, now, schedules, starting, userRuns, origin, faults>>

TickEnds(k) ==
  /\ At(k, "next") /\ ticks[k].due = {}
  /\ ticks' = [ticks EXCEPT ![k] = IdleTick]
  /\ UNCHANGED <<storeVars, now, schedules, starting, userRuns, origin, faults>>

Trusted(p) == rows[p].status = "approved" /\ rows[p].approval # 0

(* fireApprovedPlanSchedule reads the plan.                                *)
Fire(k) ==
  \E d \in ticks[k].due :
    /\ At(k, "next")
    /\ ticks' = [ticks EXCEPT ![k] =
         [pc |-> IF ~Trusted(Bound[d.id]) THEN "reporting"
                 ELSE IF schedules[d.id].dry THEN "executing" ELSE "claiming",
          due |-> @.due \ {d}, fired |-> d.id, at |-> d.at, run |-> NoRun,
          status |-> "none"]]
    /\ UNCHANGED <<storeVars, now, schedules, starting, userRuns, origin, faults>>

(* Mutant of Key: a key for every attempt. *)
KeyOfAttempt(k) == <<ticks[k].fired, now>>

(* The idempotency key: the schedule, and when it was due as the tick read *)
(* it.                                                                     *)
Key(k) == <<ticks[k].fired, ticks[k].at>>

(* The id of a new run, while the ids of a behaviour last.                 *)
IdsLast == \E r \in RunIds : runs[r].status = "unused"
NewRun == CHOOSE r \in RunIds : runs[r].status = "unused"

Claim(k) ==
  /\ At(k, "claiming") /\ ~starting /\ IdsLast
  /\ ClaimVerdict(Plan(k), Key(k)) = "claimed"
  /\ GrantClaim(Plan(k), Key(k), NewRun)
  /\ ticks' = [ticks EXCEPT ![k].pc = "executing", ![k].run = NewRun]
  /\ origin' = [origin EXCEPT ![NewRun] = <<ticks[k].fired, ticks[k].at>>]
  /\ UNCHANGED <<now, schedules, starting, userRuns, faults>>

(* Not claimed: the webhooks are told and the schedule stays as it is.     *)
NotClaimed(k) ==
  /\ At(k, "claiming") /\ ~starting
  /\ ClaimVerdict(Plan(k), Key(k)) \in {"duplicate", "already-running", "already-applied"}
  /\ Leaves(k, "announcing")
  /\ UNCHANGED <<storeVars, now, schedules, starting, userRuns, origin, faults>>

(* The claim throws: the plan is no longer approved, or the store fails.   *)
ClaimThrows(k) ==
  /\ At(k, "claiming") /\ ~starting
  /\ \/ ClaimVerdict(Plan(k), Key(k)) = "refused" /\ UNCHANGED faults
     \/ Faults
  /\ Leaves(k, "failing")
  /\ UNCHANGED <<storeVars, now, schedules, starting, userRuns, origin>>

(* executeEnvironmentPlan returns, or throws; a dry run has no claim.      *)
Execute(k, status) ==
  /\ At(k, "executing")
  /\ IF ticks[k].run # NoRun
     THEN ticks' = [ticks EXCEPT ![k].pc = "finalizing", ![k].status = status]
     ELSE Leaves(k, IF status = "thrown" THEN "failing" ELSE "reporting")
  /\ UNCHANGED <<storeVars, now, schedules, starting, userRuns, origin, faults>>

FinalizeRun(k) ==
  /\ At(k, "finalizing")
  /\ Finalize(ticks[k].run, ticks[k].status = "succeeded")
  /\ Leaves(k, IF ticks[k].status = "thrown" THEN "failing" ELSE "reporting")
  /\ UNCHANGED <<now, schedules, starting, userRuns, origin, faults>>

Report(k) ==
  /\ At(k, "reporting") /\ ~starting
  /\ Update(ticks[k].fired)
  /\ Leaves(k, "announcing")
  /\ UNCHANGED <<storeVars, now, starting, userRuns, origin, faults>>

Announce(k) ==
  /\ At(k, "announcing")
  /\ Leaves(k, "next")
  /\ UNCHANGED <<storeVars, now, schedules, starting, userRuns, origin, faults>>

(* The store fails: finalizing, reporting, or noting a webhook's delivery. *)
UpdateThrows(k) ==
  /\ ticks[k].pc \in {"finalizing", "reporting", "announcing"} /\ ~starting /\ Faults
  /\ Leaves(k, "failing")
  /\ UNCHANGED <<storeVars, now, schedules, starting, userRuns, origin>>

(* Mutant of ReportFailure: the schedule of a failed run stays as it is. *)
ReportFailureOnly(k) ==
  /\ At(k, "failing") /\ ~starting
  /\ Leaves(k, "next")
  /\ UNCHANGED <<storeVars, now, schedules, starting, userRuns, origin, faults>>

(* The catch of the tick.                                                  *)
ReportFailure(k) ==
  /\ At(k, "failing") /\ ~starting
  /\ Update(ticks[k].fired)
  /\ Leaves(k, "next")
  /\ UNCHANGED <<storeVars, now, starting, userRuns, origin, faults>>

(* The catch throws, and nobody catches it: the process ends.              *)
ReportFailureThrows(k) ==
  /\ At(k, "failing") /\ ~starting /\ Faults
  /\ Restarts
  /\ UNCHANGED <<storeVars, now, schedules, origin>>

-----------------------------------------------------------------------------
(* The others: reviewers, requests that apply the plan themselves, the     *)
(* owner, time.                                                            *)
ApprovePlan(p) == Approve(p) /\ UNCHANGED scheduler
RejectPlan(p) == Reject(p) /\ UNCHANGED scheduler

UserClaims(p) ==
  /\ IdsLast
  /\ ClaimVerdict(p, NoKey) = "claimed" /\ GrantClaim(p, NoKey, NewRun)
  /\ userRuns' = userRuns \cup {NewRun}
  /\ UNCHANGED <<now, schedules, ticks, starting, origin, faults>>

UserFinalizes(r, ok) ==
  /\ r \in userRuns /\ userRuns' = userRuns \ {r}
  /\ Finalize(r, ok)
  /\ UNCHANGED <<now, schedules, ticks, starting, origin, faults>>

DeleteSchedule(s) ==
  /\ schedules[s].kept /\ schedules' = [schedules EXCEPT ![s].kept = FALSE, ![s].next = Never]
  /\ UNCHANGED <<storeVars, now, ticks, starting, userRuns, origin, faults>>

TimePasses ==
  /\ now < LastMinute /\ now' = now + 1
  /\ UNCHANGED <<storeVars, schedules, ticks, starting, userRuns, origin, faults>>

Crash ==
  /\ Faults
  /\ Restarts
  /\ UNCHANGED <<storeVars, now, schedules, origin>>

TickStep(k) ==
  \/ TickEnds(k) \/ Fire(k) \/ Claim(k) \/ NotClaimed(k)
  \/ ClaimThrows(k) \/ (\E status \in {"succeeded", "failed", "thrown"} : Execute(k, status))
  \/ FinalizeRun(k) \/ Report(k) \/ Announce(k) \/ UpdateThrows(k)
  \/ ReportFailure(k) \/ ReportFailureThrows(k)

Next ==
  \/ Initialize \/ InitializeFails \/ TimePasses \/ Crash
  \/ \E k \in Ticks : ReadDue(k) \/ TickStep(k)
  \/ \E p \in Plans : \/ ApprovePlan(p) \/ RejectPlan(p) \/ UserClaims(p)
  \/ \E r \in RunIds, ok \in BOOLEAN : UserFinalizes(r, ok)
  \/ \E s \in Schedules : DeleteSchedule(s)

Spec == Init /\ [][Next]_vars

(* Ticks come every 30 s, each goes on, and every execution ends.          *)
FairSpec ==
  /\ Spec
  /\ WF_vars(Initialize \/ InitializeFails)
  /\ WF_vars(\E k \in Ticks : ReadDue(k))
  /\ \A k \in Ticks : WF_vars(TickStep(k))

-----------------------------------------------------------------------------
(* One due time of a schedule starts one apply, however many ticks read it *)
(* as due, whoever approves the plan again meanwhile, and over a crash.    *)
OneRunPerDue ==
  \A r, q \in RunIds :
    origin[r] = origin[q] /\ origin[r][1] # NoSchedule => r = q

MovesToFirstMatch ==
  \A s \in Schedules : schedules'[s].kept /\ schedules'[s].next # schedules[s].next =>
    schedules'[s].next = FirstMatchAfter(schedules[s].cron, now)

(* Whatever moves a schedule on, a run, a skip, a failure or a restart, it *)
(* goes to the first minute after now that its expression matches.         *)
NextIsFirstMatch == [][MovesToFirstMatch]_schedules

(* A schedule that is due moves on: a refused claim, a plan left applying, *)
(* a failing store and a crash only put it off.                            *)
SchedulesGoOn == \A s \in Schedules : IsDue(s) ~> ~IsDue(s)
===============================================================================
