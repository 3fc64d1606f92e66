------------------------------ MODULE PlanApply ------------------------------
(***************************************************************************)
(* The requests that drive an Environment Plan (routes.ts, plan-runner.ts, *)
(* engine/managed-execution.ts): review, apply, dry run, verify, rollback, *)
(* interleaved at every await, over the store of PlanStore.                *)
(*                                                                         *)
(* A client is one request being handled.  Between two of its steps the    *)
(* process may run any other handler; what it read before (its snapshot of *)
(* the plan's status, its evidence) it keeps.  A crash loses the handlers  *)
(* and keeps the store.                                                    *)
(***************************************************************************)
EXTENDS PlanStore, FiniteSetsExt

CONSTANTS
  Clients,      \* requests that may be made
  Before,       \* Before[p][i]: what the host holds of step i before the plan
  Careful,      \* the plans in the hands of a careful operator (CarefulNext)
  MaxCrashes    \* bound on the crashes of a behaviour

ASSUME PlanApplyAssumptions ==
  /\ MaxCrashes \in Nat
  /\ Careful \subseteq Plans
  /\ DOMAIN Before = Plans
  /\ \A p \in Plans : Before[p] \in [1..NumSteps(p) -> {"missing", "original"}]

VARIABLES
  clients,   \* client -> the local state of its handler
  target,    \* target[p][i]: the target host, as far as step i of plan p goes
  crashes

vars == <<rows, runs, runLog, idemLog, evidence, approvals, clients, target, crashes>>

(* pc: idle, gated (plan read and gate passed, claim not made yet),        *)
(* executing (about to run step), recording (step run, its record not      *)
(* appended yet), replaying, checking, undoing, done, lost (crashed).      *)
(* snap is the plan status the handler read; pending the evidence steps a  *)
(* rollback has still to undo, failed those whose undo failed; halted is   *)
(* haltedByActionId # undefined; step the action executed next, in a       *)
(* rollback 1 until an undo was tried.                                     *)
Client ==
  [op : {"none", "apply", "dryRun", "verify", "rollback"},
   pc : {"idle", "gated", "executing", "recording", "replaying", "checking",
         "undoing", "done", "lost"},
   plan : Plans \cup {NoPlan}, key : Keys \cup {NoKey}, snap : Statuses,
   run : RunIds \cup {NoRun}, step : Nat \ {0},
   outcome : ActionOutcomes,
   halted : BOOLEAN, pending : SUBSET Nat, failed : SUBSET Nat,
   reply : {"none", "running", "succeeded", "failed", "already-running",
            "already-applied", "refused", "dry-run"}]

IdleClient ==
  [op |-> "none", pc |-> "idle", plan |-> NoPlan, key |-> NoKey, snap |-> "absent",
   run |-> NoRun, step |-> 1, outcome |-> "skipped", halted |-> FALSE,
   pending |-> {}, failed |-> {}, reply |-> "none"]

Init ==
  /\ StoreInit
  /\ clients = [c \in Clients |-> IdleClient]
  /\ target = [p \in Plans |-> [i \in 1..NumSteps(p) |->
                   [content |-> Before[p][i], backup |-> "none"]]]
  /\ crashes = 0

(* c's handler returns with the reply given. *)
Done(c, reply) ==
  clients' = [clients EXCEPT ![c] = [@ EXCEPT !.pc = "done", !.reply = reply]]

At(c, op, pc) == clients[c].op = op /\ clients[c].pc = pc

-----------------------------------------------------------------------------
(* POST /plans and POST /plans/:id/review.  A review reads the row only    *)
(* for its immutable payload, so its one write is its one step.            *)
CreatePlan(p) == Create(p) /\ UNCHANGED <<clients, target, crashes>>
ApprovePlan(p) == Approve(p) /\ UNCHANGED <<clients, target, crashes>>
RejectPlan(p) == Reject(p) /\ UNCHANGED <<clients, target, crashes>>

-----------------------------------------------------------------------------
(* POST /plans/:id/apply: the part before the claim.  Refused requests     *)
(* leave no trace and are no steps.                                        *)
ApplicableStatuses == {"approved", "applying", "succeeded", "failed"}

RequestApply(c, p, k) ==
  /\ clients[c].pc = "idle"
  /\ rows[p].status \in ApplicableStatuses
  /\ rows[p].approval # 0
  /\ clients' = [clients EXCEPT ![c] =
       [@ EXCEPT !.op = "apply", !.pc = "gated", !.plan = p, !.key = k,
                 !.snap = rows[p].status]]
  /\ UNCHANGED <<storeVars, target, crashes>>

(* claimPlanForApply, by its verdict. *)
ClaimGranted(c, r) ==
  /\ At(c, "apply", "gated")
  /\ ClaimVerdict(clients[c].plan, clients[c].key) = "claimed"
  /\ GrantClaim(clients[c].plan, clients[c].key, r)
  /\ clients' = [clients EXCEPT ![c] = [@ EXCEPT !.pc = "executing", !.run = r]]
  /\ UNCHANGED <<target, crashes>>

(* Mutant of ClaimDuplicate: the known run is executed once more. *)
DuplicateExecutes(c, r) ==
  /\ At(c, "apply", "gated")
  /\ ClaimVerdict(clients[c].plan, clients[c].key) = "duplicate"
  /\ r \in KeyHolders(clients[c].plan, clients[c].key)
  /\ clients' = [clients EXCEPT ![c] = [@ EXCEPT !.pc = "executing", !.run = r]]
  /\ UNCHANGED <<storeVars, target, crashes>>

ClaimDuplicate(c, r) ==
  /\ At(c, "apply", "gated")
  /\ ClaimVerdict(clients[c].plan, clients[c].key) = "duplicate"
  /\ r \in KeyHolders(clients[c].plan, clients[c].key)
  /\ clients' = [clients EXCEPT ![c] = [@ EXCEPT !.pc = "replaying", !.run = r]]
  /\ UNCHANGED <<storeVars, target, crashes>>

ClaimTurnedAway(c) ==
  LET verdict == ClaimVerdict(clients[c].plan, clients[c].key)
  IN  /\ At(c, "apply", "gated")
      /\ verdict \in {"already-running", "already-applied", "refused"}
      /\ Done(c, verdict)
      /\ UNCHANGED <<storeVars, target, crashes>>

(* getApplyRunResponse, read after the claim returned. *)
Replay(c) ==
  /\ At(c, "apply", "replaying")
  /\ Done(c, ReplayedResponse(clients[c].run))
  /\ UNCHANGED <<storeVars, target, crashes>>

(* A dry run claims nothing; its key is looked up on the row read. *)
RequestDryRun(c, p, k) ==
  /\ clients[c].pc = "idle"
  /\ rows[p].status # "absent"
  /\ clients' = [clients EXCEPT ![c] =
       [@ EXCEPT !.op = "dryRun", !.plan = p, !.key = k, !.snap = rows[p].status,
                 !.pc = IF k # NoKey /\ rows[p].dryKey = k THEN "done" ELSE "executing",
                 !.reply = IF k # NoKey /\ rows[p].dryKey = k THEN "dry-run" ELSE "none"]]
  /\ UNCHANGED <<storeVars, target, crashes>>

-----------------------------------------------------------------------------
(* executeEnvironmentPlan                                                  *)

(* Mutant of ExecutionThrows: no catch, the claim is never finalized. *)
ExecutionThrowsUncaught(c) ==
  /\ clients[c].pc = "executing"
  /\ ~clients[c].halted
  /\ clients[c].step = 1 \/ clients[c].step <= NumSteps(clients[c].plan)
  /\ Done(c, "failed")
  /\ UNCHANGED <<storeVars, target, crashes>>

(* The execution throws: the snapshot is not approved, an artifact does    *)
(* not load, an adapter cannot be made.  The route finalizes a claimed run *)
(* as failed and lets a dry run go.                                        *)
ExecutionThrows(c) ==
  /\ clients[c].pc = "executing"
  /\ ~clients[c].halted
  /\ clients[c].step = 1 \/ clients[c].step <= NumSteps(clients[c].plan)
  /\ IF clients[c].op = "apply"
       THEN Finalize(clients[c].run, FALSE)
       ELSE UNCHANGED storeVars
  /\ Done(c, "failed")
  /\ UNCHANGED <<target, crashes>>

MayStart(c) == clients[c].op = "dryRun" \/ clients[c].snap = "approved"

(* runManagedAction; other handlers' commands come before it or after it.  *)
RunStep(c) ==
  LET p == clients[c].plan
      i == clients[c].step
  IN  /\ clients[c].pc = "executing"
      /\ MayStart(c)
      /\ i <= NumSteps(p)
      /\ ~clients[c].halted
      /\ \E run \in RunsOf(Steps[p][i], clients[c].op = "dryRun", target[p][i]) :
           /\ clients' = [clients EXCEPT ![c] =
                [@ EXCEPT !.pc = "recording", !.outcome = run.outcome]]
           /\ target' = [target EXCEPT ![p][i] = run.host]
      /\ UNCHANGED <<storeVars, crashes>>

RecordOf(c, refused) ==
  [plan |-> clients[c].plan, step |-> clients[c].step,
   status |-> IF refused THEN "skipped" ELSE clients[c].outcome,
   dry |-> clients[c].op = "dryRun", refused |-> refused, run |-> clients[c].run]

(* Mutant of RecordStep: a failed action does not halt the plan. *)
RecordStepOnwards(c) ==
  /\ clients[c].pc = "recording"
  /\ AppendEvidence(RecordOf(c, FALSE))
  /\ clients' = [clients EXCEPT ![c] =
       [@ EXCEPT !.pc = "executing", !.step = clients[c].step + 1]]
  /\ UNCHANGED <<target, crashes>>

RecordStep(c) ==
  /\ clients[c].pc = "recording"
  /\ AppendEvidence(RecordOf(c, FALSE))
  /\ clients' = [clients EXCEPT ![c] =
       [@ EXCEPT !.pc = "executing", !.step = clients[c].step + 1,
                 !.halted = clients[c].halted \/ clients[c].outcome \in HaltingOutcomes]]
  /\ UNCHANGED <<target, crashes>>

SkipStep(c) ==
  /\ clients[c].pc = "executing"
  /\ clients[c].halted
  /\ clients[c].step <= NumSteps(clients[c].plan)
  /\ AppendEvidence(RecordOf(c, TRUE))
  /\ clients' = [clients EXCEPT ![c] = [@ EXCEPT !.step = clients[c].step + 1]]
  /\ UNCHANGED <<target, crashes>>

(* Every action has its record: the apply route finalizes its claim with   *)
(* the execution's outcome, the dry run is stored on the plan.             *)
Executed(c) ==
  /\ clients[c].pc = "executing"
  /\ MayStart(c)
  /\ clients[c].step > NumSteps(clients[c].plan)

(* Mutant of FinishApply: the outcome is not the execution's. *)
FinishApplyAlwaysOk(c) ==
  /\ Executed(c)
  /\ clients[c].op = "apply"
  /\ Finalize(clients[c].run, TRUE)
  /\ Done(c, "succeeded")
  /\ UNCHANGED <<target, crashes>>

FinishApply(c) ==
  /\ Executed(c)
  /\ clients[c].op = "apply"
  /\ Finalize(clients[c].run, ~clients[c].halted)
  /\ Done(c, IF clients[c].halted THEN "failed" ELSE "succeeded")
  /\ UNCHANGED <<target, crashes>>

FinishDryRun(c) ==
  /\ Executed(c)
  /\ clients[c].op = "dryRun"
  /\ RecordDryRun(clients[c].plan, clients[c].key)
  /\ Done(c, "dry-run")
  /\ UNCHANGED <<target, crashes>>

-----------------------------------------------------------------------------
(* verifyPlanAndPersist and rollbackPlanAndPersist: evidence is read, the  *)
(* host is worked on, and the row is written without another look at it.   *)
RequestVerify(c, p) ==
  /\ clients[c].pc = "idle"
  /\ VerifiableSteps(p) # {}
  /\ clients' = [clients EXCEPT ![c] =
       [@ EXCEPT !.op = "verify", !.pc = "checking", !.plan = p]]
  /\ UNCHANGED <<storeVars, target, crashes>>

FinishVerify(c) ==
  /\ At(c, "verify", "checking")
  /\ \E status \in {"succeeded", "failed"} : PersistVerify(clients[c].plan, status)
  /\ Done(c, "none")
  /\ UNCHANGED <<target, crashes>>

RequestRollback(c, p) ==
  /\ clients[c].pc = "idle"
  /\ RevertibleSteps(p) # {}
  /\ clients' = [clients EXCEPT ![c] =
       [@ EXCEPT !.op = "rollback", !.pc = "undoing", !.plan = p,
                 !.pending = RevertibleSteps(p)]]
  /\ UNCHANGED <<storeVars, target, crashes>>

(* Steps are undone last first; one without a rollback path is skipped,    *)
(* and an undo that fails is recorded and does not stop the walk.          *)
UndoStep(c) ==
  LET p == clients[c].plan
      i == Max(clients[c].pending)
      rest == clients[c].pending \ {i}
  IN  /\ At(c, "rollback", "undoing")
      /\ clients[c].pending # {}
      /\ \E undo \in Undone(Steps[p][i], target[p][i]) :
           LET failed == clients[c].failed \cup (IF undo.result = "failed" THEN {i} ELSE {})
           IN  /\ target' = [target EXCEPT ![p][i] = undo.host]
               /\ clients' = [clients EXCEPT ![c] =
                    [@ EXCEPT !.pending = rest, !.step = 2, !.failed = failed]]
      /\ UNCHANGED <<storeVars, crashes>>

(* Mutant of FinishRollback: an undo that fails ends the walk. *)
FinishRollbackEarly(c) ==
  /\ At(c, "rollback", "undoing")
  /\ clients[c].pending = {} \/ clients[c].failed # {}
  /\ PersistRollback(clients[c].plan, clients[c].failed)
  /\ Done(c, "none")
  /\ UNCHANGED <<target, crashes>>

(* The row is set to "rolled-back" however many of the undos failed. *)
FinishRollback(c) ==
  /\ At(c, "rollback", "undoing")
  /\ clients[c].pending = {}
  /\ PersistRollback(clients[c].plan, clients[c].failed)
  /\ Done(c, "none")
  /\ UNCHANGED <<target, crashes>>

(* No SSH client could be opened, which is tried before the first check or *)
(* undo: the request fails and nothing is written.                         *)
TargetUnreachable(c) ==
  /\ At(c, "verify", "checking") \/ At(c, "rollback", "undoing")
  /\ clients[c].step = 1
  /\ Done(c, "failed")
  /\ UNCHANGED <<storeVars, target, crashes>>
-----------------------------------------------------------------------------
Busy(c) == clients[c].pc \notin {"idle", "done", "lost"}

(* The process dies and comes back: initializeDatabase, healTaskStates and *)
(* startScheduler touch no plan, run or claim.                             *)
Crash ==
  /\ crashes < MaxCrashes
  /\ crashes' = crashes + 1
  /\ clients' = [c \in Clients |->
                   IF Busy(c) THEN [clients[c] EXCEPT !.pc = "lost"] ELSE clients[c]]
  /\ UNCHANGED <<storeVars, target>>

(* The steps a handler takes by itself once its request was accepted. *)
Progress(c) ==
  \/ \E r \in RunIds : ClaimGranted(c, r) \/ ClaimDuplicate(c, r)
  \/ ClaimTurnedAway(c)
  \/ Replay(c)
  \/ ExecutionThrows(c)
  \/ RunStep(c)
  \/ RecordStep(c)
  \/ SkipStep(c)
  \/ FinishApply(c)
  \/ FinishDryRun(c)
  \/ FinishVerify(c)
  \/ UndoStep(c)
  \/ FinishRollback(c)
  \/ TargetUnreachable(c)

Next ==
  \/ \E p \in Plans : CreatePlan(p) \/ ApprovePlan(p) \/ RejectPlan(p)
  \/ \E c \in Clients, p \in Plans :
       \/ \E k \in Keys \cup {NoKey} : RequestApply(c, p, k) \/ RequestDryRun(c, p, k)
       \/ RequestVerify(c, p)
       \/ RequestRollback(c, p)
  \/ \E c \in Clients : Progress(c)
  \/ Crash

Spec == Init /\ [][Next]_vars

(* Node runs every ready handler.  Assumed of the host: a command on it    *)
(* ends or its connection drops; the adapters set no timeout of their own. *)
Fairness == \A c \in Clients : WF_vars(Progress(c))
FairSpec == Spec /\ Fairness

-----------------------------------------------------------------------------
(* The careful operator approves, verifies or rolls back a plan of his     *)
(* only while no request is at work on it, and one that he approved he     *)
(* applies before he verifies it or rolls it back again.  Nothing in the   *)
(* code asks for this.                                                     *)
Quiet(p) == \A c \in Clients : clients[c].plan = p => ~Busy(c)

CarefulNext ==
  \/ \E p \in Plans :
       CreatePlan(p) \/ ((p \in Careful => Quiet(p)) /\ ApprovePlan(p)) \/ RejectPlan(p)
  \/ \E c \in Clients, p \in Plans :
       \/ \E k \in Keys \cup {NoKey} : RequestApply(c, p, k) \/ RequestDryRun(c, p, k)
       \/ /\ p \in Careful => Quiet(p) /\ rows[p].status # "approved"
          /\ RequestVerify(c, p) \/ RequestRollback(c, p)
  \/ \E c \in Clients : Progress(c)
  \/ Crash

CarefulSpec == Init /\ [][CarefulNext]_vars

-----------------------------------------------------------------------------
TypeOK ==
  /\ StoreTypeOK
  /\ clients \in [Clients -> Client]
  /\ DOMAIN target = Plans
  /\ \A p \in Plans : target[p] \in [1..NumSteps(p) -> TargetStates]
  /\ crashes \in 0..MaxCrashes

Finished == {"succeeded", "failed"}

(* A plan shown as applying names the run that is to take it out of that   *)
(* status, and the run a row names is its own and still running: no        *)
(* interleaving of claims, finalizations, reviews, verifies and rollbacks  *)
(* leaves a row waiting for a run that is over (plan-store.ts, claim and   *)
(* finalize).                                                              *)
ActiveRunOwned ==
  \A p \in Plans :
    /\ rows[p].status = "applying" => rows[p].active # NoRun
    /\ rows[p].active # NoRun =>
         /\ runs[rows[p].active].status = "running"
         /\ runs[rows[p].active].plan = p

(* One approval pays for one apply run: however claims, retries, reviews   *)
(* and crashes interleave, two runs never rest on the same approval.       *)
OneRunPerApproval ==
  \A r, s \in RunIds :
    /\ runs[r].status # "unused"
    /\ runs[s].status # "unused"
    /\ runs[r].approval = runs[s].approval
    => r = s

(* Among the idempotency records kept, a plan and a key name one run: a    *)
(* repeated request cannot have started a second one.                      *)
OneRunPerKey ==
  \A r, s \in Range(idemLog) :
    runs[r].plan = runs[s].plan /\ runs[r].key = runs[s].key => r = s

(* Requests repeated under one key are never told different outcomes, be   *)
(* it the request that ran the plan or one answered from the store, as     *)
(* long as the records of the key are kept (claimPlanForApply).            *)
RepliesAgree ==
  \A c, d \in Clients :
    /\ clients[c].op = "apply" /\ clients[d].op = "apply"
    /\ clients[c].plan = clients[d].plan
    /\ clients[c].key = clients[d].key /\ clients[c].key # NoKey
    /\ {clients[c].run, clients[d].run} \subseteq Range(idemLog)
    /\ clients[c].reply \in Finished /\ clients[d].reply \in Finished
    => clients[c].reply = clients[d].reply

(* An outcome once recorded stays: no late handler finalizes a run again.  *)
OutcomeIsFinal ==
  [][\A r \in RunIds : runs[r].status \in Finished => runs'[r].status = runs[r].status]_vars

(* Reviews and applies keep the promise of ApprovalTokens: the status      *)
(* "approved" is the token, and the claim spends it.                       *)
Tokens == INSTANCE ApprovalTokens WITH
  token <- [p \in Plans |-> IF rows[p].status = "approved" THEN rows[p].approval ELSE 0],
  spent <- {<<runs[r].approval, r>> : r \in {s \in RunIds : runs[s].status # "unused"}},
  granted <- approvals

SpendsTokens == Tokens!Spec

(* The records of a run follow the plan's order, and after the record of   *)
(* an action that did not complete come refusals only (the halting loop of *)
(* executeEnvironmentPlan), other handlers' records lying between or not.  *)
EvidenceFollowsPlan ==
  \A i, j \in DOMAIN evidence :
    i < j /\ evidence[i].run = evidence[j].run /\ evidence[i].run # NoRun
    => /\ evidence[i].step < evidence[j].step
       /\ (evidence[i].status \in HaltingOutcomes \/ evidence[i].refused)
            => evidence[j].refused

(* A run recorded as succeeded has a record of every frozen action, none   *)
(* halting, as long as the evidence was not trimmed.                       *)
SuccessIsEvidenced ==
  \A r \in RunIds :
    runs[r].status = "succeeded" /\ Len(evidence) < EvidenceCap =>
      \A i \in 1..NumSteps(runs[r].plan) :
        \E e \in Range(evidence) :
          /\ e.run = r /\ e.step = i
          /\ e.status \notin HaltingOutcomes /\ ~e.refused

(* Both: the evidence tells how far a run came and whether it got through. *)
EvidenceTellsTheRun == EvidenceFollowsPlan /\ SuccessIsEvidenced

(* Unless the process died, a change on the host is known to the store or  *)
(* about to be: verify and rollback, which go by evidence, cannot miss it. *)
EffectsAreEvidenced ==
  crashes = 0 /\ Len(evidence) < EvidenceCap =>
    \A p \in Plans : \A i \in 1..NumSteps(p) :
      target[p][i].content # Before[p][i] =>
        \/ \E e \in RealEvidence(p) : e.step = i /\ e.status # "skipped"
        \/ \E c \in Clients : /\ At(c, "apply", "recording")
                               /\ clients[c].plan = p /\ clients[c].step = i

AtWork(c, p) ==
  /\ clients[c].op = "apply"
  /\ clients[c].plan = p
  /\ clients[c].pc \in {"executing", "recording"}

OneAtWork(p) == \A c, d \in Clients : AtWork(c, p) /\ AtWork(d, p) => c = d

(* A plan is executed by one request at a time ("concurrent real apply     *)
(* requests cannot both execute the same approved Plan").                  *)
ExclusiveApply == \A p \in Plans : OneAtWork(p)

(* What step i of plan p put on the host does not stand there any more; a  *)
(* path has one backup, and a second apply puts its own file into it.      *)
Gone(p, i) ==
  \/ Steps[p][i] = "package"
  \/ Steps[p][i] = "config" /\ target[p][i].backup # "planned"
  => target[p][i].content # "planned"

(* "rolled-back" does not say that the changes are off the host: undos     *)
(* fail, and the row gets the status all the same.  But on a plan that a   *)
(* careful operator rolled back, a change recorded as applied that still   *)
(* stands has a failed result on the row: the walk leaves no step out,     *)
(* none comes back behind it, and no second rollback takes a failure off   *)
(* the row that it did not make good (rollbackPlanAndPersist).             *)
RolledBackUndone ==
  \A p \in Careful :
    rows[p].status = "rolled-back" =>
      \A i \in RevertibleSteps(p) : Gone(p, i) \/ i \in rows[p].undoFailed

(* A claimed run reaches an outcome. *)
RunsSettle ==
  \A r \in RunIds : runs[r].status = "running" ~> runs[r].status \in Finished

-----------------------------------------------------------------------------
(* The inductive invariant behind OneRunPerApproval, OneRunPerKey,         *)
(* OutcomeIsFinal and the refinement of ApprovalTokens.                    *)

(* Stamps are granted in order, and a plan's stamp is its own. *)
StampsGranted ==
  /\ \A p \in Plans : rows[p].approval <= approvals
  /\ \A r \in RunIds : runs[r].approval <= approvals
  /\ \A p, q \in Plans :
       rows[p].approval = rows[q].approval /\ rows[p].approval # 0 => p = q

(* An approved row holds an approval, and no run has spent it. *)
ApprovedIsUnspent ==
  \A p \in Plans : rows[p].status = "approved" =>
    /\ rows[p].approval # 0
    /\ \A r \in RunIds :
         runs[r].status # "unused" => runs[r].approval # rows[p].approval

(* What the store keeps, it keeps of runs that were created. *)
KeptRunsAreUsed ==
  /\ \A r \in Range(runLog) : runs[r].status # "unused"
  /\ \A r \in Range(idemLog) : runs[r].status # "unused"

(* A handler at work owns a running run of its plan, alone. *)
Working(c) == clients[c].op = "apply" /\ clients[c].pc \in {"executing", "recording"}

WorkersOwnRuns ==
  /\ \A c \in Clients : Working(c) =>
       /\ clients[c].run \in RunIds
       /\ runs[clients[c].run].status = "running"
       /\ runs[clients[c].run].plan = clients[c].plan
  /\ \A c, d \in Clients :
       Working(c) /\ Working(d) /\ clients[c].run = clients[d].run => c = d

(* What a handler may rely on about its own local state. *)
Sane(h) ==
  /\ h.pc # "idle" => h.plan \in Plans
  /\ h.pc = "idle" => h.op = "none"
  /\ h.pc \in {"executing", "recording"} => h.op \in {"apply", "dryRun"}
  /\ h.pc \in {"gated", "replaying"} => h.op = "apply"
  /\ h.pc = "recording" => h.step <= NumSteps(h.plan)
  /\ h.pc = "undoing" => h.pending \subseteq 1..NumSteps(h.plan)

HandlersSane == \A c \in Clients : Sane(clients[c])

EvidenceOfSteps ==
  \A e \in Range(evidence) : e.step <= NumSteps(e.plan)

IInv ==
  /\ TypeOK
  /\ HandlersSane
  /\ EvidenceOfSteps
  /\ ActiveRunOwned
  /\ StampsGranted
  /\ ApprovedIsUnspent
  /\ OneRunPerApproval
  /\ KeptRunsAreUsed
  /\ OneRunPerKey
  /\ WorkersOwnRuns
=============================================================================
