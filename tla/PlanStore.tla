------------------------------ MODULE PlanStore ------------------------------
(***************************************************************************)
(* The persistent Environment Plan store (plan-store.ts): the plan rows,   *)
(* the apply runs that claims create, the idempotency records and the      *)
(* ActionRunRecord evidence, with one action per exported mutation.        *)
(*                                                                         *)
(* Every mutation of the code runs inside one updateRuntimeDatabase call,  *)
(* under the process-wide mutex, so each is one atomic step here.  Reads   *)
(* are made elsewhere (PlanApply) and may be stale when they are used.     *)
(*                                                                         *)
(* A row keeps one status: the code stores it twice, on the row and in the *)
(* payload, and every mutation writes both.  A plan's hash never changes   *)
(* while its row exists (mutateEnvironmentPlan refuses it), so a hash is   *)
(* the plan's identity.                                                    *)
(***************************************************************************)
EXTENDS Integers, Sequences, FiniteSets, Functions, TargetHost

CONSTANTS
  Plans, NoPlan,  \* plan ids, and the absence of one
  Steps,          \* Steps[p]: the frozen actions of plan p, each by its kind
  Keys, NoKey,    \* idempotency keys, and the absence of one
  RunIds, NoRun,  \* the ids createId("apply") may return, and the absence of one
  RunCap,         \* length at which applyRuns and the idempotency records are trimmed
  EvidenceCap,    \* length at which actionRuns is trimmed
  MaxApprovals    \* bound on the approvals a behaviour grants

ASSUME PlanStoreAssumptions ==
  /\ Steps \in [Plans -> Seq(Kinds)]
  /\ NoPlan \notin Plans
  /\ NoKey \notin Keys
  /\ NoRun \notin RunIds
  /\ RunCap \in Nat \ {0}
  /\ EvidenceCap \in Nat \ {0}
  /\ MaxApprovals \in Nat

VARIABLES
  rows,       \* plan id -> its row
  runs,       \* run id -> the StoredApplyRun created under it
  runLog,     \* the ids still in db.applyRuns, oldest first
  idemLog,    \* the ids whose idempotency record is still kept, oldest first
  evidence,   \* db.actionRuns, oldest first
  approvals   \* approvals granted so far; the stamp (approvedAt) of the latest

storeVars == <<rows, runs, runLog, idemLog, evidence, approvals>>

Statuses == {"absent", "needs-review", "approved", "applying", "succeeded",
             "failed", "rolled-back"}
AppliedStatuses == {"succeeded"}

(* approval is the stamp of the row's approvalRecord, 0 when it has none;  *)
(* dryKey the idempotency key of lastDryRunResult; undoFailed the steps    *)
(* whose entry in rollbackResults says failed.                             *)
Row == [status : Statuses, active : RunIds \cup {NoRun},
        approval : Nat, dryKey : Keys \cup {NoKey}, undoFailed : SUBSET Nat]

(* approval is an auxiliary field: the stamp of the approval the claim     *)
(* consumed.  A StoredApplyRun does not keep it.                           *)
Run == [status : {"unused", "running", "succeeded", "failed"},
        plan : Plans \cup {NoPlan}, key : Keys \cup {NoKey}, approval : Nat]

UnusedRun == [status |-> "unused", plan |-> NoPlan, key |-> NoKey, approval |-> 0]

(* refused marks the skipped-after-failure records, whose applyResult.ok   *)
(* is false; run is auxiliary, NoRun in a dry run.                         *)
Evidence == [plan : Plans, step : Nat \ {0}, status : ActionOutcomes,
             dry : BOOLEAN, refused : BOOLEAN, run : RunIds \cup {NoRun}]

NumSteps(p) == Len(Steps[p])

(* list.splice(0, list.length - cap): the oldest entries go first.         *)
Trim(s, cap) == IF Len(s) > cap THEN SubSeq(s, Len(s) - cap + 1, Len(s)) ELSE s

-----------------------------------------------------------------------------
(* createEnvironmentPlan: create-only, and never pre-approved. *)
Create(p) ==
  /\ rows[p].status = "absent"
  /\ rows' = [rows EXCEPT ![p].status = "needs-review"]
  /\ UNCHANGED <<runs, runLog, idemLog, evidence, approvals>>

(* approveEnvironmentPlan looks at the hash and the apply gate and at no   *)
(* status: a plan can be approved again whatever has become of it.  The    *)
(* active run is left as it is.                                            *)
Approve(p) ==
  /\ rows[p].status # "absent"
  /\ approvals < MaxApprovals
  /\ approvals' = approvals + 1
  /\ rows' = [rows EXCEPT ![p] = [@ EXCEPT !.status = "approved", !.approval = approvals + 1]]
  /\ UNCHANGED <<runs, runLog, idemLog, evidence>>

(* setPlanStatus(id, "needs-review") of a rejected review; the approval    *)
(* record stays on the row.                                                *)
Reject(p) ==
  /\ rows[p].status # "absent"
  /\ rows' = [rows EXCEPT ![p].status = "needs-review"]
  /\ UNCHANGED <<runs, runLog, idemLog, evidence, approvals>>

RecordDryRun(p, k) ==
  /\ rows' = [rows EXCEPT ![p].dryKey = k]
  /\ UNCHANGED <<runs, runLog, idemLog, evidence, approvals>>

(* What verifyPlanAndPersist and rollbackPlanAndPersist write, over what-  *)
(* ever the row holds when they come to write it.  The results of the last *)
(* rollback replace those of an earlier one and stay.                      *)
PersistVerify(p, status) ==
  /\ rows' = [rows EXCEPT ![p].status = status]
  /\ UNCHANGED <<runs, runLog, idemLog, evidence, approvals>>

PersistRollback(p, failed) ==
  /\ rows' = [rows EXCEPT ![p] = [@ EXCEPT !.status = "rolled-back", !.undoFailed = failed]]
  /\ UNCHANGED <<runs, runLog, idemLog, evidence, approvals>>

-----------------------------------------------------------------------------
(* claimPlanForApply: the idempotency lookup comes before the status.      *)
KeyHolders(p, k) == {r \in Range(idemLog) : runs[r].plan = p /\ runs[r].key = k}

IsDuplicate(p, k) == k # NoKey /\ KeyHolders(p, k) # {}

ClaimVerdict(p, k) ==
  IF IsDuplicate(p, k) THEN "duplicate"
  ELSE CASE rows[p].status = "applying" -> "already-running"
         [] rows[p].status \in AppliedStatuses -> "already-applied"
         [] rows[p].status = "approved" /\ rows[p].approval # 0 -> "claimed"
         [] OTHER -> "refused"

(* The claim granted: r is the id createId("apply") returned. *)
GrantClaim(p, k, r) ==
  /\ runs[r].status = "unused"
  /\ runs' = [runs EXCEPT ![r] = [status |-> "running", plan |-> p, key |-> k,
                                  approval |-> rows[p].approval]]
  /\ runLog' = Trim(Append(runLog, r), RunCap)
  /\ idemLog' = IF k = NoKey THEN idemLog ELSE Trim(Append(idemLog, r), RunCap)
  /\ rows' = [rows EXCEPT ![p] = [@ EXCEPT !.status = "applying", !.active = r]]
  /\ UNCHANGED <<evidence, approvals>>

(* Mutants of RowAfterFinalize: the row goes on naming the finished run; a *)
(* failed run hands its approval back for another try.                     *)
RowKeepsActive(row, r, status) ==
  IF row.active = r THEN [row EXCEPT !.status = status] ELSE row

RowApprovedForRetry(row, r, status) ==
  IF row.active = r
    THEN [row EXCEPT !.status = IF status = "failed" THEN "approved" ELSE status, !.active = NoRun]
    ELSE row

(* finalizeApplyClaim: a run no longer kept is left alone, and a row only  *)
(* follows the run it names as active.                                     *)
RowAfterFinalize(row, r, status) ==
  IF row.active = r THEN [row EXCEPT !.status = status, !.active = NoRun] ELSE row

Finalize(r, ok) ==
  LET status == IF ok THEN "succeeded" ELSE "failed"
      p == runs[r].plan
  IN  /\ IF r \in Range(runLog)
         THEN /\ runs' = [runs EXCEPT ![r].status = status]
              /\ rows' = [rows EXCEPT ![p] = RowAfterFinalize(@, r, status)]
         ELSE UNCHANGED <<runs, rows>>
      /\ UNCHANGED <<runLog, idemLog, evidence, approvals>>

(* Mutant of ReplayedResponse: a run without an outcome is told as failed. *)
ReplayedAsFailed(r) ==
  IF r \in Range(runLog) /\ runs[r].status # "running" THEN runs[r].status ELSE "failed"

(* getApplyRunResponse: the stored snapshot when the run has one; a run    *)
(* still going, or no longer kept, is answered as running.                 *)
ReplayedResponse(r) == IF r \in Range(runLog) THEN runs[r].status ELSE "running"

(* appendActionRunRecord *)
AppendEvidence(e) ==
  /\ evidence' = Trim(Append(evidence, e), EvidenceCap)
  /\ UNCHANGED <<rows, runs, runLog, idemLog, approvals>>

(* Mutant of RealEvidence: the dryRun filter the wrong way round. *)
DryEvidence(p) == {e \in Range(evidence) : e.plan = p /\ e.dry}

(* The executedActionIds of verifyPlanAndPersist and rollbackPlanAndPersist. *)
RealEvidence(p) == {e \in Range(evidence) : e.plan = p /\ ~e.dry}

VerifiableSteps(p) ==
  {e.step : e \in {f \in RealEvidence(p) :
                     f.status = "succeeded" \/ (f.status = "skipped" /\ ~f.refused)}}

RevertibleSteps(p) ==
  {e.step : e \in {f \in RealEvidence(p) : f.status = "succeeded"}}

-----------------------------------------------------------------------------
StoreInit ==
  /\ rows = [p \in Plans |-> [status |-> "absent", active |-> NoRun,
                              approval |-> 0, dryKey |-> NoKey, undoFailed |-> {}]]
  /\ runs = [r \in RunIds |-> UnusedRun]
  /\ runLog = <<>>
  /\ idemLog = <<>>
  /\ evidence = <<>>
  /\ approvals = 0

StoreTypeOK ==
  /\ rows \in [Plans -> Row]
  /\ runs \in [RunIds -> Run]
  /\ runLog \in Seq(RunIds)
  /\ idemLog \in Seq(RunIds)
  /\ evidence \in Seq(Evidence)
  /\ approvals \in 0..MaxApprovals
=============================================================================
