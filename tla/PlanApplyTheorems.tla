-------------------------- MODULE PlanApplyTheorems --------------------------
(***************************************************************************)
(* Theorems about PlanApply, for every set of plans, keys, runs, clients,  *)
(* every trimming cap and every bound: who applies what and how often, and *)
(* then what the evidence and the replies tell.                            *)
(***************************************************************************)
EXTENDS PlanApply, WellFoundedInduction, TLAPS

-----------------------------------------------------------------------------
(* Sequences: what an append and a trim do to the entries.                 *)

LEMMA AppendEntries ==
  ASSUME NEW S, NEW s \in Seq(S), NEW e \in S
  PROVE  /\ Append(s, e) \in Seq(S)
         /\ Range(Append(s, e)) = Range(s) \cup {e}
<1>1. Append(s, e) \in Seq(S) /\ Len(Append(s, e)) = Len(s) + 1 /\ Len(s) \in Nat
  OBVIOUS
<1>2. \A i \in 1..Len(s) + 1 : Append(s, e)[i] = IF i <= Len(s) THEN s[i] ELSE e
  OBVIOUS
<1>3. DOMAIN s = 1..Len(s) /\ DOMAIN Append(s, e) = 1..Len(s) + 1
  OBVIOUS
<1>4. ASSUME NEW x \in Range(Append(s, e)) PROVE x \in Range(s) \cup {e}
  BY <1>1, <1>2, <1>3 DEF Range
<1>5. ASSUME NEW x \in Range(s) PROVE x \in Range(Append(s, e))
  <2>1. PICK i \in 1..Len(s) : x = s[i]
    BY <1>3 DEF Range
  <2>2. i \in DOMAIN Append(s, e) /\ Append(s, e)[i] = x
    BY <2>1, <1>1, <1>2, <1>3
  <2> QED BY <2>2 DEF Range
<1>6. e \in Range(Append(s, e))
  <2>1. Len(s) + 1 \in DOMAIN Append(s, e) /\ Append(s, e)[Len(s) + 1] = e
    BY <1>1, <1>2, <1>3
  <2> QED BY <2>1 DEF Range
<1> QED BY <1>1, <1>4, <1>5, <1>6

LEMMA TrimEntries ==
  ASSUME NEW S, NEW s \in Seq(S), NEW cap \in Nat \ {0}
  PROVE  /\ Trim(s, cap) \in Seq(S)
         /\ Range(Trim(s, cap)) \subseteq Range(s)
<1>1. CASE Len(s) <= cap
  BY <1>1 DEF Trim
<1>2. CASE Len(s) > cap
  <2> DEFINE t == SubSeq(s, Len(s) - cap + 1, Len(s))
  <2>1. Trim(s, cap) = t
    BY <1>2 DEF Trim
  <2>2. Len(s) \in Nat /\ DOMAIN s = 1..Len(s)
    OBVIOUS
  <2>3. /\ t \in Seq(S)
        /\ Len(t) = cap
        /\ \A i \in 1..cap : t[i] = s[Len(s) - cap + i]
    BY <1>2, <2>2
  <2>4. ASSUME NEW x \in Range(t) PROVE x \in Range(s)
    <3>1. PICK i \in 1..cap : x = t[i]
      BY <2>3 DEF Range
    <3>2. Len(s) - cap + i \in DOMAIN s /\ x = s[Len(s) - cap + i]
      BY <3>1, <2>2, <2>3, <1>2
    <3> QED BY <3>2 DEF Range
  <2> QED BY <2>1, <2>3, <2>4
<1> QED BY <1>1, <1>2

LEMMA EntriesTyped ==
  ASSUME NEW S, NEW s \in Seq(S), NEW x \in Range(s)
  PROVE  x \in S
BY DEF Range

(* What a trimmed append keeps. *)
LEMMA LoggedEntries ==
  ASSUME NEW S, NEW s \in Seq(S), NEW e \in S, NEW cap \in Nat \ {0}
  PROVE  /\ Trim(Append(s, e), cap) \in Seq(S)
         /\ Range(Trim(Append(s, e), cap)) \subseteq Range(s) \cup {e}
<1>1. Append(s, e) \in Seq(S) /\ Range(Append(s, e)) = Range(s) \cup {e}
  BY AppendEntries
<1> QED BY <1>1, TrimEntries

-----------------------------------------------------------------------------
(* What a step may do to the store.                                        *)

FinalizedBy(c, ok) == Working(c) /\ Finalize(clients[c].run, ok)

StoreStep ==
  \/ UNCHANGED <<rows, runs, runLog, idemLog, approvals>>
  \/ \E p \in Plans : Create(p) \/ Approve(p) \/ Reject(p)
  \/ \E p \in Plans, k \in Keys \cup {NoKey} : RecordDryRun(p, k)
  \/ \E p \in Plans, s \in {"succeeded", "failed"} : PersistVerify(p, s)
  \/ \E p \in Plans, failed \in SUBSET Nat : PersistRollback(p, failed)
  \/ \E c \in Clients, r \in RunIds : ClaimGranted(c, r) /\ clients[c].plan \in Plans
  \/ \E c \in Clients, ok \in BOOLEAN : FinalizedBy(c, ok)

(* What finalizing a run does, its outcome apart. *)
Settles(r, s) ==
  /\ r \in Range(runLog)
  /\ runs' = [runs EXCEPT ![r].status = s]
  /\ rows' = [rows EXCEPT ![runs[r].plan] = RowAfterFinalize(rows[runs[r].plan], r, s)]
  /\ UNCHANGED <<runLog, idemLog, evidence, approvals>>

LEMMA FinalizeEffect ==
  ASSUME NEW r, NEW ok \in BOOLEAN, Finalize(r, ok)
  PROVE  UNCHANGED storeVars \/ \E s \in {"succeeded", "failed"} : Settles(r, s)
<1>1. CASE r \notin Range(runLog)
  BY <1>1 DEF Finalize, storeVars
<1>2. CASE r \in Range(runLog) /\ ok
  <2>1. Settles(r, "succeeded")
    BY <1>2 DEF Finalize, Settles
  <2> QED BY <2>1
<1>3. CASE r \in Range(runLog) /\ ~ok
  <2>1. Settles(r, "failed")
    BY <1>3 DEF Finalize, Settles
  <2> QED BY <2>1
<1> QED BY <1>1, <1>2, <1>3

LEMMA NextIsStoreStep ==
  ASSUME TypeOK, HandlersSane, [Next]_vars
  PROVE  StoreStep
<1> DEFINE Same == UNCHANGED <<rows, runs, runLog, idemLog, approvals>>
<1> USE DEF StoreStep
<1>1. ASSUME NEW p \in Plans, CreatePlan(p) \/ ApprovePlan(p) \/ RejectPlan(p)
      PROVE  StoreStep
  BY <1>1 DEF CreatePlan, ApprovePlan, RejectPlan
<1>2. ASSUME NEW c \in Clients, NEW p \in Plans, NEW k \in Keys \cup {NoKey},
             RequestApply(c, p, k) \/ RequestDryRun(c, p, k)
      PROVE  Same
  BY <1>2 DEF RequestApply, RequestDryRun, storeVars
<1>3. ASSUME NEW c \in Clients, NEW p \in Plans, RequestVerify(c, p) \/ RequestRollback(c, p)
      PROVE  Same
  BY <1>3 DEF RequestVerify, RequestRollback, storeVars
<1>4. ASSUME NEW c \in Clients, NEW r \in RunIds, ClaimGranted(c, r)
      PROVE  StoreStep
  <2>1. clients[c].plan \in Plans
    BY <1>4 DEF ClaimGranted, At, HandlersSane, Sane
  <2> QED BY <1>4, <2>1
<1>5. ASSUME NEW c \in Clients, NEW r \in RunIds, ClaimDuplicate(c, r)
      PROVE  Same
  BY <1>5 DEF ClaimDuplicate, storeVars
<1>6. ASSUME NEW c \in Clients,
             \/ ClaimTurnedAway(c) \/ Replay(c) \/ RunStep(c) \/ UndoStep(c)
             \/ TargetUnreachable(c)
      PROVE  Same
  BY <1>6 DEF ClaimTurnedAway, Replay, RunStep, UndoStep, TargetUnreachable, storeVars
<1>7. ASSUME NEW c \in Clients, RecordStep(c) \/ SkipStep(c)
      PROVE  Same
  BY <1>7 DEF RecordStep, SkipStep, AppendEvidence
<1>8. ASSUME NEW c \in Clients, ExecutionThrows(c)
      PROVE  StoreStep
  <2>1. CASE clients[c].op = "apply"
    <3>1. FinalizedBy(c, FALSE)
      BY <1>8, <2>1 DEF ExecutionThrows, FinalizedBy, Working
    <3> QED BY <3>1
  <2>2. CASE clients[c].op # "apply"
    BY <1>8, <2>2 DEF ExecutionThrows, storeVars
  <2> QED BY <2>1, <2>2
<1>9. ASSUME NEW c \in Clients, FinishApply(c)
      PROVE  StoreStep
  <2>1. FinalizedBy(c, ~clients[c].halted)
    BY <1>9 DEF FinishApply, Executed, FinalizedBy, Working
  <2> QED BY <2>1
<1>10. ASSUME NEW c \in Clients, FinishDryRun(c) \/ FinishVerify(c) \/ FinishRollback(c)
       PROVE  StoreStep
  <2>1. /\ clients[c].plan \in Plans /\ clients[c].key \in Keys \cup {NoKey}
        /\ clients[c].failed \in SUBSET Nat
    BY <1>10 DEF FinishDryRun, FinishVerify, FinishRollback, Executed, At, HandlersSane, Sane,
                 TypeOK, Client
  <2> QED BY <1>10, <2>1 DEF FinishDryRun, FinishVerify, FinishRollback
<1>11. CASE Crash
  BY <1>11 DEF Crash, storeVars
<1>12. CASE UNCHANGED vars
  BY <1>12 DEF vars
<1> QED BY <1>1, <1>2, <1>3, <1>4, <1>5, <1>6, <1>7, <1>8, <1>9, <1>10, <1>11, <1>12
        DEF Next, Progress

-----------------------------------------------------------------------------
(* Type correctness.                                                       *)

LEMMA StoreTypeStep ==
  ASSUME TypeOK, HandlersSane, StoreStep
  PROVE  /\ rows' \in [Plans -> Row]
         /\ runs' \in [RunIds -> Run]
         /\ runLog' \in Seq(RunIds)
         /\ idemLog' \in Seq(RunIds)
         /\ approvals' \in 0..MaxApprovals
<1> USE PlanStoreAssumptions DEF TypeOK, StoreTypeOK
<1>1. CASE UNCHANGED <<rows, runs, runLog, idemLog, approvals>>
  BY <1>1
<1>2. ASSUME NEW p \in Plans, Create(p) \/ Approve(p) \/ Reject(p)
      PROVE  /\ rows' \in [Plans -> Row] /\ approvals' \in 0..MaxApprovals
             /\ UNCHANGED <<runs, runLog, idemLog>>
  <2>1. rows[p] \in Row /\ approvals + 1 \in Nat
    OBVIOUS
  <2>2. CASE Create(p)
    BY <2>1, <2>2 DEF Create, Row, Statuses
  <2>3. CASE Approve(p)
    <3>1. [rows[p] EXCEPT !.status = "approved", !.approval = approvals + 1] \in Row
      BY <2>1 DEF Row, Statuses
    <3> QED BY <2>3, <3>1 DEF Approve
  <2>4. CASE Reject(p)
    BY <2>1, <2>4 DEF Reject, Row, Statuses
  <2> QED BY <1>2, <2>2, <2>3, <2>4
<1>3. ASSUME NEW p \in Plans, NEW k \in Keys \cup {NoKey}, RecordDryRun(p, k)
      PROVE  rows' \in [Plans -> Row] /\ UNCHANGED <<runs, runLog, idemLog, approvals>>
  BY <1>3 DEF RecordDryRun, Row
<1>4. ASSUME NEW p \in Plans,
             \/ \E s \in {"succeeded", "failed"} : PersistVerify(p, s)
             \/ \E failed \in SUBSET Nat : PersistRollback(p, failed)
      PROVE  rows' \in [Plans -> Row] /\ UNCHANGED <<runs, runLog, idemLog, approvals>>
  <2>1. ASSUME NEW s \in {"succeeded", "failed"}, PersistVerify(p, s)
        PROVE  rows' \in [Plans -> Row] /\ UNCHANGED <<runs, runLog, idemLog, approvals>>
    BY <2>1 DEF PersistVerify, Row, Statuses
  <2>2. ASSUME NEW failed \in SUBSET Nat, PersistRollback(p, failed)
        PROVE  rows' \in [Plans -> Row] /\ UNCHANGED <<runs, runLog, idemLog, approvals>>
    <3> DEFINE row == [rows[p] EXCEPT !.status = "rolled-back", !.undoFailed = failed]
    <3>1. row \in Row
      <4>1. PICK old : old = rows[p] /\ old \in Row
        OBVIOUS
      <4>2. failed \in SUBSET Nat /\ "rolled-back" \in Statuses
        BY DEF Statuses
      <4>3. [old EXCEPT !.status = "rolled-back"] \in Row
        BY <4>1, <4>2 DEF Row
      <4>4. [[old EXCEPT !.status = "rolled-back"] EXCEPT !.undoFailed = failed] \in Row
        BY <4>2, <4>3 DEF Row
      <4> QED BY <4>1, <4>4
    <3>2. rows' = [rows EXCEPT ![p] = row]
      BY <2>2 DEF PersistRollback
    <3> HIDE DEF row
    <3> QED BY <2>2, <3>1, <3>2 DEF PersistRollback
  <2> QED BY <1>4, <2>1, <2>2
<1>5. ASSUME NEW c \in Clients, NEW r \in RunIds, ClaimGranted(c, r), clients[c].plan \in Plans
      PROVE  /\ rows' \in [Plans -> Row] /\ runs' \in [RunIds -> Run]
             /\ runLog' \in Seq(RunIds) /\ idemLog' \in Seq(RunIds)
             /\ UNCHANGED approvals
  <2> DEFINE p == clients[c].plan
             k == clients[c].key
  <2>1. GrantClaim(p, k, r) /\ k \in Keys \cup {NoKey}
    BY <1>5 DEF ClaimGranted, Client
  <2>2. rows[p] \in Row
    BY <1>5
  <2>3. [status |-> "running", plan |-> p, key |-> k, approval |-> rows[p].approval] \in Run
    BY <1>5, <2>1, <2>2 DEF Run, Row
  <2>4. runs' \in [RunIds -> Run]
    BY <2>1, <2>3 DEF GrantClaim
  <2>5. rows' \in [Plans -> Row]
    <3>1. [rows[p] EXCEPT !.status = "applying", !.active = r] \in Row
      BY <2>2 DEF Row, Statuses
    <3> QED BY <2>1, <3>1 DEF GrantClaim
  <2>6. runLog' \in Seq(RunIds) /\ idemLog' \in Seq(RunIds)
    BY <2>1, LoggedEntries DEF GrantClaim
  <2> QED BY <2>1, <2>4, <2>5, <2>6 DEF GrantClaim
<1>6. ASSUME NEW c \in Clients, NEW ok \in BOOLEAN, FinalizedBy(c, ok)
      PROVE  /\ rows' \in [Plans -> Row] /\ runs' \in [RunIds -> Run]
             /\ UNCHANGED <<runLog, idemLog, approvals>>
  <2> DEFINE r == clients[c].run
  <2>1. runLog \in Seq(RunIds) /\ Finalize(r, ok)
    BY <1>6 DEF FinalizedBy
  <2>2. CASE UNCHANGED storeVars
    BY <2>2 DEF storeVars
  <2>3. CASE \E s \in {"succeeded", "failed"} : Settles(r, s)
    <3>1. PICK s \in {"succeeded", "failed"} : Settles(r, s)
      BY <2>3
    <3>2. r \in RunIds
      BY <2>1, <3>1, EntriesTyped DEF Settles
    <3>3. [runs[r] EXCEPT !.status = s] \in Run
      <4>1. \A run \in Run : [run EXCEPT !.status = s] \in Run
        BY DEF Run
      <4>2. runs[r] \in Run
        BY <3>2
      <4> QED BY <4>1, <4>2
    <3>4. runs' \in [RunIds -> Run]
      BY <3>1, <3>2, <3>3 DEF Settles
    <3>5. ASSUME NEW row \in Row PROVE RowAfterFinalize(row, r, s) \in Row
      <4>1. [row EXCEPT !.status = s, !.active = NoRun] \in Row
        BY DEF Row, Statuses
      <4> QED BY <4>1 DEF RowAfterFinalize
    <3>6. rows' \in [Plans -> Row]
      <4> DEFINE q == runs[r].plan
      <4>1. q \in Plans => RowAfterFinalize(rows[q], r, s) \in Row
        BY <3>5
      <4>2. rows' = [rows EXCEPT ![q] = RowAfterFinalize(rows[q], r, s)]
        BY <3>1 DEF Settles
      <4> HIDE DEF q
      <4> QED BY <4>1, <4>2
    <3> QED BY <3>1, <3>4, <3>6 DEF Settles
  <2> QED BY <2>1, <2>2, <2>3, FinalizeEffect
<1> QED BY <1>1, <1>2, <1>3, <1>4, <1>5, <1>6 DEF StoreStep

(* Every step moves at most one handler, to a state it may rely on. *)
HandlerMoves(c) ==
  \E h \in Client : Sane(h) /\ clients' = [clients EXCEPT ![c] = h]

LEMMA DoneMoves ==
  ASSUME TypeOK, HandlersSane, NEW c \in Clients, clients[c].pc # "idle",
         NEW reply \in {"none", "running", "succeeded", "failed", "already-running",
                        "already-applied", "refused", "dry-run"},
         Done(c, reply)
  PROVE  HandlerMoves(c)
<1>1. clients[c] \in Client /\ Sane(clients[c])
  BY DEF TypeOK, HandlersSane
<1>2. [clients[c] EXCEPT !.pc = "done", !.reply = reply] \in Client
  BY <1>1 DEF Client
<1>3. Sane([clients[c] EXCEPT !.pc = "done", !.reply = reply])
  BY <1>1 DEF Sane, Client
<1> QED BY <1>2, <1>3 DEF Done, HandlerMoves

LEMMA RequestMoves ==
  ASSUME TypeOK, HandlersSane, EvidenceOfSteps, NEW c \in Clients, NEW p \in Plans,
         \/ \E k \in Keys \cup {NoKey} : RequestApply(c, p, k) \/ RequestDryRun(c, p, k)
         \/ RequestVerify(c, p)
         \/ RequestRollback(c, p)
  PROVE  HandlerMoves(c)
<1>1. clients[c] \in Client /\ Sane(clients[c]) /\ rows[p].status \in Statuses
  BY DEF TypeOK, StoreTypeOK, HandlersSane, Row
<1>2. ASSUME NEW k \in Keys \cup {NoKey}, RequestApply(c, p, k) PROVE HandlerMoves(c)
  <2> DEFINE h == [clients[c] EXCEPT !.op = "apply", !.pc = "gated", !.plan = p, !.key = k,
                                     !.snap = rows[p].status]
  <2>1. h \in Client
    BY <1>1 DEF Client
  <2>2. Sane(h)
    BY <1>1 DEF Sane, Client
  <2> QED BY <1>2, <2>1, <2>2 DEF RequestApply, HandlerMoves
<1>3. ASSUME NEW k \in Keys \cup {NoKey}, RequestDryRun(c, p, k) PROVE HandlerMoves(c)
  <2>1. PICK pc \in {"done", "executing"}, reply \in {"dry-run", "none"} :
          clients' = [clients EXCEPT ![c] =
            [@ EXCEPT !.op = "dryRun", !.plan = p, !.key = k, !.snap = rows[p].status,
                      !.pc = pc, !.reply = reply]]
    BY <1>3 DEF RequestDryRun
  <2> DEFINE h == [clients[c] EXCEPT !.op = "dryRun", !.plan = p, !.key = k,
                     !.snap = rows[p].status, !.pc = pc, !.reply = reply]
  <2>2. h \in Client
    BY <1>1 DEF Client
  <2>3. Sane(h)
    BY <1>1 DEF Sane, Client
  <2> QED BY <2>1, <2>2, <2>3 DEF HandlerMoves
<1>4. ASSUME RequestVerify(c, p) PROVE HandlerMoves(c)
  <2> DEFINE h == [clients[c] EXCEPT !.op = "verify", !.pc = "checking", !.plan = p]
  <2>1. h \in Client
    BY <1>1 DEF Client
  <2>2. Sane(h)
    BY <1>1 DEF Sane, Client
  <2> QED BY <1>4, <2>1, <2>2 DEF RequestVerify, HandlerMoves
<1>5. ASSUME RequestRollback(c, p) PROVE HandlerMoves(c)
  <2> DEFINE h == [clients[c] EXCEPT !.op = "rollback", !.pc = "undoing", !.plan = p,
                                     !.pending = RevertibleSteps(p)]
  <2>1. RevertibleSteps(p) \subseteq 1..NumSteps(p)
    <3>1. SUFFICES ASSUME NEW e \in Range(evidence), e.plan = p
                   PROVE  e.step \in 1..NumSteps(p)
      BY DEF RevertibleSteps, RealEvidence
    <3>2. e \in Evidence
      BY EntriesTyped DEF TypeOK, StoreTypeOK
    <3>3. NumSteps(p) \in Nat
      BY PlanStoreAssumptions DEF NumSteps
    <3> QED BY <3>1, <3>2, <3>3 DEF EvidenceOfSteps, Evidence
  <2>2. 1..NumSteps(p) \subseteq Nat
    BY PlanStoreAssumptions DEF NumSteps
  <2>3. h \in Client
    BY <1>1, <2>1, <2>2 DEF Client
  <2>4. Sane(h)
    BY <1>1, <2>1 DEF Sane, Client
  <2> QED BY <1>5, <2>3, <2>4 DEF RequestRollback, HandlerMoves
<1> QED BY <1>2, <1>3, <1>4, <1>5

(* The host states an action passes through are host states again. *)
LEMMA HostTyped ==
  ASSUME NEW t \in TargetStates
  PROVE  /\ \A c \in Contents : Holding(t, c) \in TargetStates
         /\ BackedUp(t) \subseteq TargetStates
         /\ t.backup # "none" => Restored(t) \in TargetStates
<1>1. \A c \in Contents : Holding(t, c) \in TargetStates
  BY DEF TargetStates, Holding
<1>2. BackedUp(t) \subseteq TargetStates
  <2>1. t.content # "missing" => t.content \in Backups
    BY DEF TargetStates, Contents, Backups
  <2>2. \A b \in Backups : [t EXCEPT !.backup = b] \in TargetStates
    BY DEF TargetStates
  <2>3. "unknown" \in Backups
    BY DEF Backups
  <2> QED BY <2>1, <2>2, <2>3 DEF BackedUp, Copied
<1>3. t.backup # "none" => t.backup \in Contents
  BY DEF TargetStates, Contents, Backups
<1> QED BY <1>1, <1>2, <1>3 DEF Restored

LEMMA AppliesTyped ==
  ASSUME NEW t \in TargetStates, NEW kind \in Kinds,
         NEW h \in Applied(kind, t) \cup Stopped(kind, t)
  PROVE  h \in TargetStates
<1>1. BackedUp(t) \subseteq TargetStates
  BY HostTyped
<1>2. \A b \in BackedUp(t) \cup {t} : \A c \in Contents : Holding(b, c) \in TargetStates
  BY <1>1, HostTyped
<1>3. {"planned", "unknown", "original"} \subseteq Contents
  BY DEF Contents
<1> HIDE DEF Contents
<1>4. CASE h \in Applied(kind, t)
  BY <1>4, <1>2, <1>3 DEF Applied
<1>5. CASE h \in Stopped(kind, t)
  BY <1>5, <1>1, <1>2, <1>3 DEF Stopped
<1> QED BY <1>4, <1>5

LEMMA RollbacksTyped ==
  ASSUME NEW t \in TargetStates, NEW h \in TargetStates, NEW kind \in Kinds,
         NEW run \in Rollbacks(kind, t, h)
  PROVE  run.outcome \in ActionOutcomes /\ run.host \in TargetStates
<1>1. /\ Holding(h, "unknown") \in TargetStates
      /\ Holding(h, "missing") \in TargetStates
      /\ h.backup # "none" => Restored(h) \in TargetStates
  BY HostTyped DEF Contents
<1>2. CASE kind = "config"
  BY <1>1, <1>2 DEF Rollbacks, ActionOutcomes
<1>3. CASE kind # "config"
  BY <1>1, <1>3 DEF Rollbacks, ActionOutcomes
<1> QED BY <1>2, <1>3

LEMMA RunsTyped ==
  ASSUME NEW t \in TargetStates, NEW kind \in Kinds, NEW dry \in BOOLEAN,
         NEW run \in RunsOf(kind, dry, t)
  PROVE  run.outcome \in ActionOutcomes /\ run.host \in TargetStates
<1>1. CASE kind = "detectOnly" \/ dry \/ kind = "passive"
  BY <1>1 DEF RunsOf, ActionOutcomes
<1>2. CASE kind # "detectOnly" /\ ~dry /\ kind # "passive"
  <2>1. \/ run = [outcome |-> "failed", host |-> t]
        \/ \E h \in Applied(kind, t) : run = [outcome |-> "succeeded", host |-> h]
        \/ \E h \in Applied(kind, t) \cup Stopped(kind, t) :
             run \in IF kind \in Revertible THEN Rollbacks(kind, t, h)
                     ELSE {[outcome |-> "failed", host |-> h]}
    BY <1>2 DEF RunsOf
  <2>2. CASE run = [outcome |-> "failed", host |-> t]
    BY <2>2 DEF ActionOutcomes
  <2>3. ASSUME NEW h \in Applied(kind, t), run = [outcome |-> "succeeded", host |-> h]
        PROVE  run.outcome \in ActionOutcomes /\ run.host \in TargetStates
    BY <2>3, AppliesTyped DEF ActionOutcomes
  <2>4. ASSUME NEW h \in Applied(kind, t) \cup Stopped(kind, t),
               run \in IF kind \in Revertible THEN Rollbacks(kind, t, h)
                       ELSE {[outcome |-> "failed", host |-> h]}
        PROVE  run.outcome \in ActionOutcomes /\ run.host \in TargetStates
    <3>1. h \in TargetStates
      BY AppliesTyped
    <3>2. CASE kind \in Revertible
      BY <3>1, <3>2, <2>4, RollbacksTyped
    <3>3. CASE kind \notin Revertible
      BY <3>1, <3>3, <2>4 DEF ActionOutcomes
    <3> QED BY <3>2, <3>3
  <2> QED BY <2>1, <2>2, <2>3, <2>4
<1> QED BY <1>1, <1>2

LEMMA UndoneTyped ==
  ASSUME NEW t \in TargetStates, NEW kind, NEW undo \in Undone(kind, t)
  PROVE  undo.host \in TargetStates
<1>1. /\ Holding(t, "unknown") \in TargetStates
      /\ Holding(t, "missing") \in TargetStates
      /\ t.backup # "none" => Restored(t) \in TargetStates
  BY HostTyped DEF Contents
<1>2. t \in TargetStates
  OBVIOUS
<1>3. CASE kind = "config"
  BY <1>1, <1>3 DEF Undone, Revertible
<1>4. CASE kind = "package"
  BY <1>1, <1>4 DEF Undone, Revertible
<1>5. CASE kind \notin Revertible
  BY <1>1, <1>5 DEF Undone
<1> QED BY <1>3, <1>4, <1>5 DEF Revertible

(* Numbers: the naturals are well-founded, so that bounded sets of them    *)
(* have a greatest member.                                                 *)
NatLess == {p \in Nat \X Nat : p[1] < p[2]}
LEMMA LeastNatural ==
  ASSUME NEW S \in SUBSET Nat, S # {}
  PROVE  \E n \in S : \A m \in S : n <= m
<1>1. OpToRel(<, Nat) = NatLess
  BY DEF OpToRel, NatLess
<1>2. PICK n \in S : \A m \in S : ~(<<m, n>> \in NatLess)
  BY <1>1, NatLessThanWellFounded, WFMin
<1>3. \A m \in S : ~(m < n)
  <2>1. \A m \in S : <<m, n>> \in Nat \X Nat
    OBVIOUS
  <2> QED BY <1>2, <2>1 DEF NatLess
<1> QED BY <1>3

LEMMA GreatestNatural ==
  ASSUME NEW S, S # {}, NEW b \in Nat, \A i \in S : i \in Nat /\ i <= b
  PROVE  \E n \in S : \A m \in S : n >= m
<1> DEFINE T == {i \in Nat : b - i \in S}
<1>1. T # {}
  <2>1. PICK i \in S : i \in Nat /\ i <= b
    OBVIOUS
  <2>2. b - i \in Nat /\ b - (b - i) = i
    BY <2>1
  <2> QED BY <2>1, <2>2
<1>2. PICK t \in T : \A u \in T : t <= u
  BY <1>1, LeastNatural
<1>3. ASSUME NEW m \in S PROVE b - t >= m
  <2>1. m \in Nat /\ m <= b
    OBVIOUS
  <2>2. b - m \in Nat /\ b - (b - m) = m
    BY <2>1
  <2>3. b - m \in T
    BY <2>2
  <2>4. t <= b - m /\ t \in Nat
    BY <1>2, <2>3
  <2> QED BY <2>1, <2>4
<1> QED BY <1>2, <1>3

LEMMA MaxIsGreatest ==
  ASSUME NEW S, S # {}, NEW b \in Nat, \A i \in S : i \in Nat /\ i <= b
  PROVE  Max(S) \in S /\ \A i \in S : Max(S) >= i
BY GreatestNatural DEF Max

(* An undo takes one step off the list of those to undo.                   *)
LEMMA UndoMoves ==
  ASSUME TypeOK, HandlersSane, NEW c \in Clients, UndoStep(c)
  PROVE  \E rest \in SUBSET clients[c].pending, failed \in SUBSET Nat :
           clients' = [clients EXCEPT ![c] =
             [@ EXCEPT !.pending = rest, !.step = 2, !.failed = failed]]
<1> DEFINE p == clients[c].plan
           i == Max(clients[c].pending)
           Failed(undo) == clients[c].failed \cup (IF undo.result = "failed" THEN {i} ELSE {})
<1>1. i \in Nat /\ clients[c].failed \in SUBSET Nat
  <2>1. /\ p \in Plans /\ NumSteps(p) \in Nat /\ clients[c].pending # {}
        /\ clients[c].pending \subseteq 1..NumSteps(p)
    BY PlanStoreAssumptions DEF UndoStep, At, HandlersSane, Sane, NumSteps
  <2>2. i \in clients[c].pending
    BY <2>1, MaxIsGreatest
  <2> QED BY <2>1, <2>2 DEF TypeOK, Client
<1>2. PICK undo \in Undone(Steps[p][i], target[p][i]) :
        clients' = [clients EXCEPT ![c] =
          [@ EXCEPT !.pending = clients[c].pending \ {i}, !.step = 2, !.failed = Failed(undo)]]
  BY DEF UndoStep
<1>3. Failed(undo) \in SUBSET Nat
  BY <1>1
<1>4. clients[c].pending \ {i} \in SUBSET clients[c].pending
  OBVIOUS
<1> HIDE DEF Failed, i
<1> QED BY <1>2, <1>3, <1>4

LEMMA ProgressMoves ==
  ASSUME TypeOK, HandlersSane, KeptRunsAreUsed, NEW c \in Clients, Progress(c)
  PROVE  HandlerMoves(c)
<1> DEFINE cl == clients[c]
<1>1. cl \in Client /\ Sane(cl)
  BY DEF TypeOK, HandlersSane
<1>2. ASSUME NEW r \in RunIds, ClaimGranted(c, r) PROVE HandlerMoves(c)
  <2>1. cl.op = "apply" /\ cl.pc = "gated"
    BY <1>2 DEF ClaimGranted, At
  <2>2. [cl EXCEPT !.pc = "executing", !.run = r] \in Client
    BY <1>1 DEF Client
  <2>3. Sane([cl EXCEPT !.pc = "executing", !.run = r])
    BY <1>1, <2>1 DEF Sane, Client
  <2> QED BY <1>2, <2>2, <2>3 DEF ClaimGranted, HandlerMoves
<1>3. ASSUME NEW r \in RunIds, ClaimDuplicate(c, r) PROVE HandlerMoves(c)
  <2>1. cl.op = "apply" /\ cl.pc = "gated"
    BY <1>3 DEF ClaimDuplicate, At
  <2>2. [cl EXCEPT !.pc = "replaying", !.run = r] \in Client
    BY <1>1 DEF Client
  <2>3. Sane([cl EXCEPT !.pc = "replaying", !.run = r])
    BY <1>1, <2>1 DEF Sane, Client
  <2> QED BY <1>3, <2>2, <2>3 DEF ClaimDuplicate, HandlerMoves
<1>4. ASSUME ClaimTurnedAway(c) PROVE HandlerMoves(c)
  <2>1. PICK v \in {"already-running", "already-applied", "refused"} :
          cl.pc = "gated" /\ Done(c, v)
    BY <1>4 DEF ClaimTurnedAway, At
  <2> QED BY <2>1, DoneMoves
<1>5. ASSUME Replay(c) PROVE HandlerMoves(c)
  <2>1. cl.pc = "replaying" /\ Done(c, ReplayedResponse(cl.run))
    BY <1>5 DEF Replay, At
  <2>2. ReplayedResponse(cl.run) \in {"running", "succeeded", "failed"}
    <3>1. CASE cl.run \in Range(runLog)
      <4>1. runLog \in Seq(RunIds) /\ runs \in [RunIds -> Run]
        BY DEF TypeOK, StoreTypeOK
      <4>2. cl.run \in RunIds
        BY <3>1, <4>1, EntriesTyped
      <4>3. runs[cl.run].status \in {"unused", "running", "succeeded", "failed"}
        BY <4>1, <4>2 DEF Run
      <4>4. runs[cl.run].status # "unused"
        BY <3>1 DEF KeptRunsAreUsed
      <4> QED BY <3>1, <4>3, <4>4 DEF ReplayedResponse
    <3>2. CASE cl.run \notin Range(runLog)
      BY <3>2 DEF ReplayedResponse
    <3> QED BY <3>1, <3>2
  <2> QED BY <2>1, <2>2, DoneMoves
<1>6. ASSUME ExecutionThrows(c) PROVE HandlerMoves(c)
  <2>1. cl.pc = "executing" /\ Done(c, "failed")
    BY <1>6 DEF ExecutionThrows
  <2> QED BY <2>1, DoneMoves
<1>7. ASSUME RunStep(c) PROVE HandlerMoves(c)
  <2>1. cl.pc = "executing" /\ cl.step <= NumSteps(cl.plan)
    BY <1>7 DEF RunStep
  <2>2. Steps[cl.plan][cl.step] \in Kinds /\ target[cl.plan][cl.step] \in TargetStates
    <3>1. cl.plan \in Plans /\ cl.step \in Nat \ {0}
      BY <1>1, <2>1 DEF Sane, Client
    <3>2. NumSteps(cl.plan) = Len(Steps[cl.plan]) /\ Steps[cl.plan] \in Seq(Kinds)
      BY <3>1, PlanStoreAssumptions DEF NumSteps
    <3>3. cl.step \in 1..NumSteps(cl.plan)
      BY <3>1, <3>2, <2>1
    <3>4. target[cl.plan] \in [1..NumSteps(cl.plan) -> TargetStates]
      BY <3>1 DEF TypeOK
    <3> QED BY <3>2, <3>3, <3>4
  <2>3. PICK run \in RunsOf(Steps[cl.plan][cl.step], cl.op = "dryRun", target[cl.plan][cl.step]) :
          clients' = [clients EXCEPT ![c] =
            [@ EXCEPT !.pc = "recording", !.outcome = run.outcome]]
    BY <1>7 DEF RunStep
  <2>4. (cl.op = "dryRun") \in BOOLEAN
    OBVIOUS
  <2>5. run.outcome \in ActionOutcomes
    BY <2>2, <2>3, <2>4, RunsTyped
  <2>6. PICK o : o = run.outcome
    OBVIOUS
  <2>7. [cl EXCEPT !.pc = "recording", !.outcome = o] \in Client
    BY <1>1, <2>5, <2>6 DEF Client
  <2>8. Sane([cl EXCEPT !.pc = "recording", !.outcome = o])
    BY <1>1, <2>1 DEF Sane, Client
  <2> QED BY <2>1, <2>3, <2>6, <2>7, <2>8 DEF HandlerMoves
<1>8. ASSUME RecordStep(c) PROVE HandlerMoves(c)
  <2>1. PICK b \in BOOLEAN : clients' = [clients EXCEPT ![c] =
          [cl EXCEPT !.pc = "executing", !.step = cl.step + 1, !.halted = b]]
    BY <1>8, <1>1 DEF RecordStep, Client
  <2>2. cl.pc = "recording" /\ cl.step + 1 \in Nat \ {0}
    BY <1>1, <1>8 DEF RecordStep, Client
  <2> DEFINE h == [cl EXCEPT !.pc = "executing", !.step = cl.step + 1, !.halted = b]
  <2>3. h \in Client
    BY <1>1, <2>2 DEF Client
  <2>4. Sane(h)
    BY <1>1, <2>2 DEF Sane, Client
  <2> QED BY <2>1, <2>3, <2>4 DEF HandlerMoves
<1>9. ASSUME SkipStep(c) PROVE HandlerMoves(c)
  <2>1. cl.pc = "executing" /\ cl.step + 1 \in Nat \ {0}
    BY <1>1, <1>9 DEF SkipStep, Client
  <2> DEFINE h == [cl EXCEPT !.step = cl.step + 1]
  <2>2. h \in Client
    BY <1>1, <2>1 DEF Client
  <2>3. Sane(h)
    BY <1>1, <2>1 DEF Sane, Client
  <2>4. clients' = [clients EXCEPT ![c] = h]
    BY <1>9 DEF SkipStep
  <2> QED BY <2>2, <2>3, <2>4 DEF HandlerMoves
<1>10. ASSUME FinishApply(c) PROVE HandlerMoves(c)
  <2>1. PICK reply \in {"failed", "succeeded"} : cl.pc = "executing" /\ Done(c, reply)
    BY <1>10 DEF FinishApply, Executed
  <2> QED BY <2>1, DoneMoves
<1>11. ASSUME FinishDryRun(c) PROVE HandlerMoves(c)
  <2>1. cl.pc = "executing" /\ Done(c, "dry-run")
    BY <1>11 DEF FinishDryRun, Executed
  <2> QED BY <2>1, DoneMoves
<1>12. ASSUME FinishVerify(c) \/ FinishRollback(c) PROVE HandlerMoves(c)
  <2>1. cl.pc # "idle" /\ Done(c, "none")
    BY <1>12 DEF FinishVerify, FinishRollback, At
  <2> QED BY <2>1, DoneMoves
<1>13. ASSUME UndoStep(c) PROVE HandlerMoves(c)
  <2>1. PICK rest \in SUBSET cl.pending, failed \in SUBSET Nat :
          clients' = [clients EXCEPT ![c] =
            [@ EXCEPT !.pending = rest, !.step = 2, !.failed = failed]]
    BY <1>13, UndoMoves
  <2> DEFINE h == [cl EXCEPT !.pending = rest, !.step = 2, !.failed = failed]
  <2>2. cl.pc = "undoing" /\ clients' = [clients EXCEPT ![c] = h]
    BY <1>13, <2>1 DEF UndoStep, At
  <2>3. h \in Client
    <3>1. rest \subseteq Nat /\ 2 \in Nat \ {0} /\ failed \subseteq Nat
      BY <1>1 DEF Client
    <3> DEFINE tried == [cl EXCEPT !.step = 2, !.failed = failed]
    <3>2. tried \in Client
      BY <1>1, <3>1 DEF Client
    <3>3. [tried EXCEPT !.pending = rest] \in Client
      <4> HIDE DEF tried
      <4> QED BY <3>1, <3>2 DEF Client
    <3>4. h = [tried EXCEPT !.pending = rest]
      BY <1>1 DEF Client
    <3> QED BY <3>3, <3>4
  <2>4. Sane(h)
    BY <1>1, <2>2 DEF Sane, Client
  <2> QED BY <2>2, <2>3, <2>4 DEF HandlerMoves
<1>14. ASSUME TargetUnreachable(c) PROVE HandlerMoves(c)
  <2>1. cl.pc # "idle" /\ Done(c, "failed")
    BY <1>14 DEF TargetUnreachable, At
  <2> QED BY <2>1, DoneMoves
<1> QED BY <1>2, <1>3, <1>4, <1>5, <1>6, <1>7, <1>8, <1>9, <1>10, <1>11, <1>12, <1>13, <1>14
        DEF Progress

(* The handlers and the host after any step. *)
LEMMA HandlersStep ==
  ASSUME TypeOK, HandlersSane, EvidenceOfSteps, KeptRunsAreUsed, [Next]_vars
  PROVE  clients' \in [Clients -> Client] /\ HandlersSane'
<1>1. ASSUME NEW c \in Clients, HandlerMoves(c)
      PROVE  clients' \in [Clients -> Client] /\ HandlersSane'
  <2>1. PICK h \in Client : Sane(h) /\ clients' = [clients EXCEPT ![c] = h]
    BY <1>1 DEF HandlerMoves
  <2>2. clients' \in [Clients -> Client]
    BY <2>1 DEF TypeOK
  <2>3. \A d \in Clients : clients'[d] = IF d = c THEN h ELSE clients[d]
    BY <2>1 DEF TypeOK
  <2>4. \A d \in Clients : Sane(clients'[d])
    BY <2>1, <2>3 DEF HandlersSane
  <2> QED BY <2>2, <2>4 DEF HandlersSane, Sane
<1>2. CASE UNCHANGED clients
  BY <1>2 DEF TypeOK, HandlersSane, Sane
<1>3. CASE Crash
  <2>1. ASSUME NEW c \in Clients
        PROVE  [clients[c] EXCEPT !.pc = "lost"] \in Client
    BY DEF TypeOK, Client
  <2>2. ASSUME NEW c \in Clients, Busy(c)
        PROVE  Sane([clients[c] EXCEPT !.pc = "lost"])
    BY <2>2 DEF TypeOK, Client, HandlersSane, Sane, Busy
  <2>3. clients' = [c \in Clients |->
                      IF Busy(c) THEN [clients[c] EXCEPT !.pc = "lost"] ELSE clients[c]]
    BY <1>3 DEF Crash
  <2>4. clients' \in [Clients -> Client]
    BY <2>1, <2>3 DEF TypeOK
  <2>5. \A c \in Clients : Sane(clients'[c])
    BY <2>2, <2>3 DEF HandlersSane
  <2> QED BY <2>4, <2>5 DEF HandlersSane, Sane
<1>4. ASSUME NEW p \in Plans, CreatePlan(p) \/ ApprovePlan(p) \/ RejectPlan(p)
      PROVE  UNCHANGED clients
  BY <1>4 DEF CreatePlan, ApprovePlan, RejectPlan
<1>5. UNCHANGED vars => UNCHANGED clients
  BY DEF vars
<1> QED BY <1>1, <1>2, <1>3, <1>4, <1>5, RequestMoves, ProgressMoves DEF Next

LEMMA TargetStep ==
  ASSUME TypeOK, HandlersSane, [Next]_vars
  PROVE  /\ DOMAIN target' = Plans
         /\ \A p \in Plans : target'[p] \in [1..NumSteps(p) -> TargetStates]
<1> USE DEF TypeOK
<1>1. ASSUME NEW p \in Plans, NEW i, NEW s,
             i \in 1..NumSteps(p) => s \in TargetStates,
             target' = [target EXCEPT ![p][i] = s]
      PROVE  /\ DOMAIN target' = Plans
             /\ \A q \in Plans : target'[q] \in [1..NumSteps(q) -> TargetStates]
  <2>1. [target[p] EXCEPT ![i] = s] \in [1..NumSteps(p) -> TargetStates]
    BY <1>1
  <2>2. target' = [target EXCEPT ![p] = [target[p] EXCEPT ![i] = s]]
    BY <1>1
  <2> QED BY <2>1, <2>2
<1>2. ASSUME NEW c \in Clients, RunStep(c)
      PROVE  /\ DOMAIN target' = Plans
             /\ \A q \in Plans : target'[q] \in [1..NumSteps(q) -> TargetStates]
  <2> DEFINE p == clients[c].plan
             i == clients[c].step
  <2>1. p \in Plans /\ i \in Nat \ {0} /\ i <= NumSteps(p)
    BY <1>2 DEF RunStep, HandlersSane, Sane, Client
  <2>2. PICK run \in RunsOf(Steps[p][i], clients[c].op = "dryRun", target[p][i]) :
          target' = [target EXCEPT ![p][i] = run.host]
    BY <1>2 DEF RunStep
  <2>3. NumSteps(p) = Len(Steps[p]) /\ Steps[p] \in Seq(Kinds)
    BY <2>1, PlanStoreAssumptions DEF NumSteps
  <2>4. Steps[p][i] \in Kinds /\ target[p][i] \in TargetStates
    BY <2>1, <2>3
  <2>5. (clients[c].op = "dryRun") \in BOOLEAN
    OBVIOUS
  <2>6. run.host \in TargetStates
    BY <2>2, <2>4, <2>5, RunsTyped
  <2> HIDE DEF p, i
  <2> QED BY <2>1, <2>2, <2>6, <1>1
<1>3. ASSUME NEW c \in Clients, UndoStep(c)
      PROVE  /\ DOMAIN target' = Plans
             /\ \A q \in Plans : target'[q] \in [1..NumSteps(q) -> TargetStates]
  <2> DEFINE p == clients[c].plan
             i == Max(clients[c].pending)
  <2>1. p \in Plans
    BY <1>3 DEF UndoStep, At, HandlersSane, Sane
  <2>2. PICK undo \in Undone(Steps[p][i], target[p][i]) :
          target' = [target EXCEPT ![p][i] = undo.host]
    BY <1>3 DEF UndoStep
  <2> HIDE DEF i
  <2>3. i \in 1..NumSteps(p) => undo.host \in TargetStates
    <3>1. i \in 1..NumSteps(p) => target[p][i] \in TargetStates
      BY <2>1
    <3> QED BY <2>2, <3>1, UndoneTyped
  <2> QED BY <2>1, <2>2, <2>3, <1>1
<1>4. CASE UNCHANGED target
  BY <1>4
<1> QED BY <1>2, <1>3, <1>4
        DEF Next, Progress, vars, CreatePlan, ApprovePlan, RejectPlan, RequestApply,
            RequestDryRun, RequestVerify, RequestRollback, ClaimGranted, ClaimDuplicate,
            ClaimTurnedAway, Replay, ExecutionThrows, RecordStep, SkipStep, FinishApply,
            FinishDryRun, FinishVerify, FinishRollback, TargetUnreachable, Crash

(* Every record appended is of a step its plan has. *)
LEMMA EvidenceStep ==
  ASSUME TypeOK, HandlersSane, EvidenceOfSteps, [Next]_vars
  PROVE  evidence' \in Seq(Evidence) /\ EvidenceOfSteps'
<1>1. evidence \in Seq(Evidence) /\ EvidenceCap \in Nat \ {0}
  BY PlanStoreAssumptions DEF TypeOK, StoreTypeOK
<1>2. ASSUME NEW c \in Clients, NEW b \in BOOLEAN, AppendEvidence(RecordOf(c, b)),
             clients[c].pc # "idle", clients[c].step <= NumSteps(clients[c].plan)
      PROVE  evidence' \in Seq(Evidence) /\ EvidenceOfSteps'
  <2> DEFINE e == RecordOf(c, b)
  <2>1. clients[c] \in Client /\ clients[c].plan \in Plans
    BY <1>2 DEF TypeOK, HandlersSane, Sane
  <2>2. e \in Evidence
    BY <2>1 DEF RecordOf, Evidence, Client, ActionOutcomes
  <2>3. e.step <= NumSteps(e.plan)
    BY <1>2 DEF RecordOf
  <2>4. evidence' = Trim(Append(evidence, e), EvidenceCap)
    BY <1>2 DEF AppendEvidence
  <2> HIDE DEF e
  <2>5. evidence' \in Seq(Evidence) /\ Range(evidence') \subseteq Range(evidence) \cup {e}
    BY <1>1, <2>2, <2>4, LoggedEntries
  <2> QED BY <2>3, <2>5 DEF EvidenceOfSteps, NumSteps
<1>3. CASE UNCHANGED evidence
  BY <1>1, <1>3 DEF EvidenceOfSteps, NumSteps
<1>4. ASSUME NEW c \in Clients, RecordStep(c)
      PROVE  evidence' \in Seq(Evidence) /\ EvidenceOfSteps'
  BY <1>2, <1>4 DEF RecordStep, HandlersSane, Sane
<1>5. ASSUME NEW c \in Clients, SkipStep(c)
      PROVE  evidence' \in Seq(Evidence) /\ EvidenceOfSteps'
  BY <1>2, <1>5 DEF SkipStep
<1>6. ASSUME NEW c \in Clients, ExecutionThrows(c) \/ FinishApply(c) PROVE UNCHANGED evidence
  BY <1>6 DEF ExecutionThrows, FinishApply, Finalize, storeVars
<1> QED BY <1>3, <1>4, <1>5, <1>6
        DEF Next, Progress, vars, storeVars, CreatePlan, Create, ApprovePlan, Approve,
            RejectPlan, Reject, RequestApply, RequestDryRun, RequestVerify, RequestRollback,
            ClaimGranted, GrantClaim, ClaimDuplicate, ClaimTurnedAway, Replay, RunStep,
            FinishDryRun, RecordDryRun, FinishVerify, FinishRollback, PersistVerify,
            PersistRollback,
            UndoStep, TargetUnreachable, Crash

-----------------------------------------------------------------------------
(* The store part of the inductive invariant, one lemma per kind of store  *)
(* step.                                                                   *)
StoreInv ==
  /\ ActiveRunOwned
  /\ StampsGranted
  /\ ApprovedIsUnspent
  /\ OneRunPerApproval
  /\ KeptRunsAreUsed
  /\ OneRunPerKey

(* Reviews that reject, verifies, rollbacks, dry runs: the row's status    *)
(* may change, to neither approved nor applying.                           *)
LEMMA RowOnlyStep ==
  ASSUME TypeOK, StoreInv,
         UNCHANGED <<runs, runLog, idemLog, approvals>>,
         \A p \in Plans :
           /\ rows'[p].active = rows[p].active
           /\ rows'[p].approval = rows[p].approval
           /\ rows'[p].status \in {rows[p].status, "needs-review", "succeeded", "failed",
                                   "rolled-back"}
  PROVE  StoreInv'
<1>1. ActiveRunOwned'
  BY DEF StoreInv, ActiveRunOwned
<1>2. StampsGranted'
  BY DEF StoreInv, StampsGranted
<1>3. ApprovedIsUnspent'
  BY DEF StoreInv, ApprovedIsUnspent
<1>4. OneRunPerApproval' /\ KeptRunsAreUsed' /\ OneRunPerKey'
  BY DEF StoreInv, OneRunPerApproval, KeptRunsAreUsed, OneRunPerKey
<1> QED BY <1>1, <1>2, <1>3, <1>4 DEF StoreInv

LEMMA ApproveStep ==
  ASSUME TypeOK, StoreInv, NEW p \in Plans, Approve(p)
  PROVE  StoreInv'
<1> DEFINE a == approvals + 1
<1>1. /\ approvals \in Nat /\ approvals' = a
      /\ UNCHANGED <<runs, runLog, idemLog>>
  BY PlanStoreAssumptions DEF Approve, TypeOK, StoreTypeOK
<1>2. /\ rows'[p].status = "approved" /\ rows'[p].approval = a
      /\ rows'[p].active = rows[p].active
      /\ \A q \in Plans : q # p => rows'[q] = rows[q]
  BY DEF Approve, TypeOK, StoreTypeOK, Row
<1>3. /\ \A q \in Plans : rows[q].approval \in Nat /\ rows[q].approval <= approvals
      /\ \A r \in RunIds : runs[r].approval \in Nat /\ runs[r].approval <= approvals
  BY DEF StoreInv, StampsGranted, TypeOK, StoreTypeOK, Row, Run
<1>4. ActiveRunOwned'
  BY <1>1, <1>2 DEF StoreInv, ActiveRunOwned
<1>5. StampsGranted'
  BY <1>1, <1>2, <1>3 DEF StoreInv, StampsGranted
<1>6. ApprovedIsUnspent'
  BY <1>1, <1>2, <1>3 DEF StoreInv, ApprovedIsUnspent
<1>7. OneRunPerApproval' /\ KeptRunsAreUsed' /\ OneRunPerKey'
  BY <1>1 DEF StoreInv, OneRunPerApproval, KeptRunsAreUsed, OneRunPerKey
<1> QED BY <1>4, <1>5, <1>6, <1>7 DEF StoreInv

(* A claim: the plan was approved, its approval unspent, its key unknown. *)
LEMMA ClaimStep ==
  ASSUME TypeOK, StoreInv, NEW p \in Plans, NEW k \in Keys \cup {NoKey}, NEW r \in RunIds,
         ClaimVerdict(p, k) = "claimed", GrantClaim(p, k, r)
  PROVE  StoreInv'
<1>1. rows[p].status = "approved" /\ ~IsDuplicate(p, k)
  BY DEF ClaimVerdict, AppliedStatuses
<1>2. /\ runs[r].status = "unused"
      /\ runs'[r].status = "running" /\ runs'[r].plan = p /\ runs'[r].key = k
      /\ runs'[r].approval = rows[p].approval
      /\ \A s \in RunIds : s # r => runs'[s] = runs[s]
      /\ approvals' = approvals
  BY DEF GrantClaim, TypeOK, StoreTypeOK
<1>3. /\ rows'[p].status = "applying" /\ rows'[p].active = r
      /\ rows'[p].approval = rows[p].approval
      /\ \A q \in Plans : q # p => rows'[q] = rows[q]
  BY DEF GrantClaim, TypeOK, StoreTypeOK, Row
<1>4. /\ Range(runLog') \subseteq Range(runLog) \cup {r}
      /\ Range(idemLog') \subseteq Range(idemLog) \cup {r}
      /\ k = NoKey => idemLog' = idemLog
  <2>1. runLog \in Seq(RunIds) /\ idemLog \in Seq(RunIds) /\ RunCap \in Nat \ {0}
    BY PlanStoreAssumptions DEF TypeOK, StoreTypeOK
  <2>2. Range(Trim(Append(runLog, r), RunCap)) \subseteq Range(runLog) \cup {r}
    BY <2>1, LoggedEntries
  <2>3. Range(Trim(Append(idemLog, r), RunCap)) \subseteq Range(idemLog) \cup {r}
    BY <2>1, LoggedEntries
  <2> QED BY <2>2, <2>3 DEF GrantClaim
<1>5. /\ Range(runLog) \subseteq RunIds
      /\ Range(idemLog) \subseteq RunIds
  BY EntriesTyped DEF TypeOK, StoreTypeOK
<1>6. ActiveRunOwned'
  <2>1. r # NoRun
    BY PlanStoreAssumptions
  <2>2. ASSUME NEW q \in Plans, q # p, rows'[q].active # NoRun
        PROVE  /\ runs'[rows'[q].active].status = "running"
               /\ runs'[rows'[q].active].plan = q
    <3>1. rows[q].active \in RunIds /\ runs[rows[q].active].status = "running"
          /\ runs[rows[q].active].plan = q
      BY <1>3, <2>2 DEF StoreInv, ActiveRunOwned, TypeOK, StoreTypeOK, Row
    <3>2. rows[q].active # r
      BY <1>2, <3>1
    <3> QED BY <1>2, <1>3, <2>2, <3>1, <3>2
  <2> QED BY <1>2, <1>3, <2>1, <2>2 DEF StoreInv, ActiveRunOwned
<1>7. StampsGranted'
  BY <1>2, <1>3 DEF StoreInv, StampsGranted
<1>8. ApprovedIsUnspent'
  <2>1. SUFFICES ASSUME NEW q \in Plans, rows'[q].status = "approved"
                 PROVE  /\ rows'[q].approval # 0
                        /\ \A s \in RunIds :
                             runs'[s].status # "unused" => runs'[s].approval # rows'[q].approval
    BY DEF ApprovedIsUnspent
  <2>2. q # p /\ rows'[q] = rows[q]
    BY <1>3, <2>1
  <2>3. rows[q].approval # 0 /\ rows[q].approval # rows[p].approval
    BY <2>1, <2>2 DEF StoreInv, ApprovedIsUnspent, StampsGranted
  <2> QED BY <1>2, <2>1, <2>2, <2>3 DEF StoreInv, ApprovedIsUnspent
<1>9. OneRunPerApproval'
  <2>1. \A s \in RunIds : runs[s].status # "unused" => runs[s].approval # rows[p].approval
    BY <1>1 DEF StoreInv, ApprovedIsUnspent
  <2> QED BY <1>2, <2>1 DEF StoreInv, OneRunPerApproval
<1>10. KeptRunsAreUsed'
  BY <1>2, <1>4, <1>5 DEF StoreInv, KeptRunsAreUsed
<1>11. OneRunPerKey'
  <2>1. r \notin Range(idemLog)
    BY <1>2 DEF StoreInv, KeptRunsAreUsed
  <2>2. \A s \in Range(idemLog) : k # NoKey => runs[s].plan # p \/ runs[s].key # k
    BY <1>1 DEF IsDuplicate, KeyHolders
  <2>3. \A s \in Range(idemLog) : s # r /\ runs'[s] = runs[s]
    BY <1>2, <1>5, <2>1
  <2>4. CASE k = NoKey
    BY <1>4, <2>3, <2>4 DEF StoreInv, OneRunPerKey
  <2>5. CASE k # NoKey
    BY <1>2, <1>4, <2>2, <2>3, <2>5 DEF StoreInv, OneRunPerKey
  <2> QED BY <2>4, <2>5
<1> QED BY <1>6, <1>7, <1>8, <1>9, <1>10, <1>11 DEF StoreInv

LEMMA SettleStep ==
  ASSUME TypeOK, StoreInv, NEW r \in RunIds, NEW s \in {"succeeded", "failed"},
         runs[r].status = "running", runs[r].plan \in Plans, Settles(r, s)
  PROVE  StoreInv'
<1> DEFINE p == runs[r].plan
<1>1. /\ runs'[r].status = s
      /\ \A t \in RunIds :
           /\ runs'[t].plan = runs[t].plan /\ runs'[t].key = runs[t].key
           /\ runs'[t].approval = runs[t].approval
           /\ t # r => runs'[t].status = runs[t].status
      /\ UNCHANGED <<runLog, idemLog, approvals>>
  BY DEF Settles, TypeOK, StoreTypeOK, Run
<1>2. \A t \in RunIds : runs'[t].status # "unused" <=> runs[t].status # "unused"
  BY <1>1
<1>3. \A q \in Plans : q # p => rows'[q] = rows[q]
  BY DEF Settles, TypeOK, StoreTypeOK
<1>4. /\ rows'[p].approval = rows[p].approval
      /\ rows[p].active # r => rows'[p] = rows[p]
      /\ rows[p].active = r => rows'[p].active = NoRun /\ rows'[p].status = s
  BY DEF Settles, RowAfterFinalize, TypeOK, StoreTypeOK, Row
<1>5. \A q \in Plans : rows'[q].approval = rows[q].approval
  BY <1>3, <1>4
<1>6. \A q \in Plans : rows'[q].status = "approved" => rows[q].status = "approved"
  BY <1>3, <1>4
<1>7. \A q \in Plans : rows'[q].active # NoRun =>
         rows'[q].active = rows[q].active /\ rows[q].active # r
  <2>1. \A q \in Plans : rows[q].active = r => q = p
    BY PlanStoreAssumptions DEF StoreInv, ActiveRunOwned
  <2> QED BY <1>3, <1>4, <2>1
<1>8. \A q \in Plans : rows[q].active \in RunIds \cup {NoRun}
  BY DEF TypeOK, StoreTypeOK, Row
<1>9. ActiveRunOwned'
  <2>1. \A q \in Plans : rows'[q].status = "applying" => rows'[q].active # NoRun
    BY <1>3, <1>4 DEF StoreInv, ActiveRunOwned
  <2>2. \A q \in Plans : rows'[q].active # NoRun =>
          /\ runs'[rows'[q].active].status = "running"
          /\ runs'[rows'[q].active].plan = q
    BY <1>1, <1>7, <1>8 DEF StoreInv, ActiveRunOwned
  <2> QED BY <2>1, <2>2 DEF ActiveRunOwned
<1>10. StampsGranted'
  BY <1>1, <1>5 DEF StoreInv, StampsGranted
<1>11. ApprovedIsUnspent'
  BY <1>1, <1>2, <1>5, <1>6 DEF StoreInv, ApprovedIsUnspent
<1>12. OneRunPerApproval'
  BY <1>1, <1>2 DEF StoreInv, OneRunPerApproval
<1>13. \A t \in Range(runLog) \cup Range(idemLog) : t \in RunIds
  BY EntriesTyped DEF TypeOK, StoreTypeOK
<1>14. KeptRunsAreUsed' /\ OneRunPerKey'
  BY <1>1, <1>2, <1>13 DEF StoreInv, KeptRunsAreUsed, OneRunPerKey
<1> QED BY <1>9, <1>10, <1>11, <1>12, <1>14 DEF StoreInv

(* A working handler's run is kept running for it, so finalizing it is     *)
(* the first and only outcome it gets.                                     *)
LEMMA FinalizeStep ==
  ASSUME TypeOK, StoreInv, WorkersOwnRuns, HandlersSane,
         NEW c \in Clients, NEW ok \in BOOLEAN, FinalizedBy(c, ok)
  PROVE  StoreInv'
<1> DEFINE r == clients[c].run
<1>1. /\ r \in RunIds /\ runs[r].status = "running"
      /\ runs[r].plan = clients[c].plan /\ clients[c].plan \in Plans
      /\ Finalize(r, ok)
  BY DEF FinalizedBy, Working, WorkersOwnRuns, HandlersSane, Sane
<1>2. CASE UNCHANGED storeVars
  BY <1>2, RowOnlyStep DEF storeVars
<1>3. ASSUME NEW s \in {"succeeded", "failed"}, Settles(r, s) PROVE StoreInv'
  BY <1>1, <1>3, SettleStep
<1> QED BY <1>1, <1>2, <1>3, FinalizeEffect

LEMMA StoreInvStep ==
  ASSUME TypeOK, HandlersSane, StoreInv, WorkersOwnRuns, StoreStep
  PROVE  StoreInv'
<1>1. CASE UNCHANGED <<rows, runs, runLog, idemLog, approvals>>
  BY <1>1, RowOnlyStep
<1>2. ASSUME NEW p \in Plans, Create(p) \/ Reject(p) PROVE StoreInv'
  <2>1. /\ UNCHANGED <<runs, runLog, idemLog, approvals>>
        /\ rows' = [rows EXCEPT ![p].status = "needs-review"]
    BY <1>2 DEF Create, Reject
  <2>2. \A q \in Plans :
          /\ rows'[q].active = rows[q].active /\ rows'[q].approval = rows[q].approval
          /\ rows'[q].status \in {rows[q].status, "needs-review"}
    BY <2>1 DEF TypeOK, StoreTypeOK, Row
  <2> QED BY <2>1, <2>2, RowOnlyStep
<1>3. ASSUME NEW p \in Plans, Approve(p) PROVE StoreInv'
  BY <1>3, ApproveStep
<1>4. ASSUME NEW p \in Plans, NEW k \in Keys \cup {NoKey}, RecordDryRun(p, k) PROVE StoreInv'
  <2>1. \A q \in Plans :
          /\ rows'[q].active = rows[q].active /\ rows'[q].approval = rows[q].approval
          /\ rows'[q].status = rows[q].status
    BY <1>4 DEF RecordDryRun, TypeOK, StoreTypeOK, Row
  <2> QED BY <1>4, <2>1, RowOnlyStep DEF RecordDryRun
<1>5. ASSUME NEW p \in Plans,
             \/ \E s \in {"succeeded", "failed"} : PersistVerify(p, s)
             \/ \E failed \in SUBSET Nat : PersistRollback(p, failed)
      PROVE  StoreInv'
  <2> DEFINE Same(q) ==
        /\ rows'[q].active = rows[q].active /\ rows'[q].approval = rows[q].approval
        /\ rows'[q].status \in {rows[q].status, "succeeded", "failed", "rolled-back"}
  <2>1. \A q \in Plans : Same(q)
    <3>1. ASSUME NEW s \in {"succeeded", "failed"}, PersistVerify(p, s), NEW q \in Plans
          PROVE  Same(q)
      BY <3>1 DEF PersistVerify, TypeOK, StoreTypeOK, Row
    <3>2. ASSUME NEW failed \in SUBSET Nat, PersistRollback(p, failed), NEW q \in Plans
          PROVE  Same(q)
      BY <3>2 DEF PersistRollback, TypeOK, StoreTypeOK, Row
    <3> QED BY <1>5, <3>1, <3>2
  <2>2. UNCHANGED <<runs, runLog, idemLog, approvals>>
    BY <1>5 DEF PersistVerify, PersistRollback
  <2> QED BY <2>1, <2>2, RowOnlyStep
<1>6. ASSUME NEW c \in Clients, NEW r \in RunIds, ClaimGranted(c, r), clients[c].plan \in Plans
      PROVE  StoreInv'
  <2>1. clients[c].key \in Keys \cup {NoKey}
    BY DEF TypeOK, Client
  <2> QED BY <1>6, <2>1, ClaimStep DEF ClaimGranted
<1>7. ASSUME NEW c \in Clients, NEW ok \in BOOLEAN, FinalizedBy(c, ok) PROVE StoreInv'
  BY <1>7, FinalizeStep
<1> QED BY <1>1, <1>2, <1>3, <1>4, <1>5, <1>6, <1>7 DEF StoreStep

-----------------------------------------------------------------------------
(* Who works on which run.                                                 *)

LEMMA WorkersKept ==
  ASSUME WorkersOwnRuns, UNCHANGED runs,
         \A d \in Clients : Working(d)' =>
           /\ Working(d)
           /\ clients'[d].run = clients[d].run /\ clients'[d].plan = clients[d].plan
  PROVE  WorkersOwnRuns'
BY DEF WorkersOwnRuns

LEMMA HandlerLeavesWork ==
  ASSUME TypeOK, WorkersOwnRuns, UNCHANGED runs, NEW c \in Clients, NEW h,
         clients' = [clients EXCEPT ![c] = h],
         h.op = "apply" /\ h.pc \in {"executing", "recording"} =>
           /\ Working(c)
           /\ h.run = clients[c].run /\ h.plan = clients[c].plan
  PROVE  WorkersOwnRuns'
<1>1. /\ clients'[c] = h
      /\ \A d \in Clients : d # c => clients'[d] = clients[d]
  BY DEF TypeOK
<1>2. ASSUME NEW d \in Clients, Working(d)'
      PROVE  /\ Working(d)
             /\ clients'[d].run = clients[d].run /\ clients'[d].plan = clients[d].plan
  <2>1. CASE d = c
    BY <1>1, <1>2, <2>1 DEF Working
  <2>2. CASE d # c
    BY <1>1, <1>2, <2>2 DEF Working
  <2> QED BY <2>1, <2>2
<1> QED BY <1>2, WorkersKept

LEMMA WorkersClaim ==
  ASSUME TypeOK, HandlersSane, WorkersOwnRuns,
         NEW c \in Clients, NEW r \in RunIds, ClaimGranted(c, r)
  PROVE  WorkersOwnRuns'
<1> DEFINE p == clients[c].plan
<1>1. /\ clients[c].op = "apply"
      /\ runs[r].status = "unused"
      /\ runs'[r].status = "running" /\ runs'[r].plan = p
      /\ \A s \in RunIds : s # r => runs'[s] = runs[s]
  BY DEF ClaimGranted, At, GrantClaim, TypeOK, StoreTypeOK
<1>2. /\ clients'[c].op = "apply" /\ clients'[c].run = r /\ clients'[c].plan = p
      /\ \A d \in Clients : d # c => clients'[d] = clients[d]
  BY <1>1 DEF ClaimGranted, TypeOK, Client
<1>3. ASSUME NEW d \in Clients, d # c, Working(d)'
      PROVE  /\ Working(d) /\ clients'[d] = clients[d]
             /\ clients[d].run \in RunIds /\ clients[d].run # r
             /\ runs'[clients[d].run] = runs[clients[d].run]
  <2>1. clients'[d] = clients[d]
    BY <1>2, <1>3
  <2>2. Working(d)
    BY <1>3, <2>1 DEF Working
  <2>3. clients[d].run \in RunIds /\ runs[clients[d].run].status = "running"
    BY <2>2 DEF WorkersOwnRuns
  <2> QED BY <1>1, <2>1, <2>2, <2>3
<1>4. ASSUME NEW d \in Clients, Working(d)'
      PROVE  /\ clients'[d].run \in RunIds
             /\ runs'[clients'[d].run].status = "running"
             /\ runs'[clients'[d].run].plan = clients'[d].plan
  <2>1. CASE d = c
    BY <1>1, <1>2, <2>1
  <2>2. CASE d # c
    BY <1>3, <1>4, <2>2 DEF WorkersOwnRuns
  <2> QED BY <2>1, <2>2
<1>5. ASSUME NEW d \in Clients, NEW e \in Clients, Working(d)', Working(e)',
             clients'[d].run = clients'[e].run
      PROVE  d = e
  <2>1. CASE d # c /\ e # c
    BY <1>3, <1>5, <2>1 DEF WorkersOwnRuns
  <2>2. CASE d = c /\ e # c
    BY <1>2, <1>3, <1>5, <2>2
  <2>3. CASE d # c /\ e = c
    BY <1>2, <1>3, <1>5, <2>3
  <2> QED BY <2>1, <2>2, <2>3
<1> QED BY <1>4, <1>5 DEF WorkersOwnRuns

LEMMA WorkersFinalize ==
  ASSUME TypeOK, WorkersOwnRuns, NEW c \in Clients, NEW ok \in BOOLEAN, NEW reply,
         FinalizedBy(c, ok), Done(c, reply)
  PROVE  WorkersOwnRuns'
<1> DEFINE r == clients[c].run
<1>1. /\ clients'[c].pc = "done"
      /\ \A d \in Clients : d # c => clients'[d] = clients[d]
  BY DEF Done, TypeOK, Client
<1>2. /\ Working(c) /\ r \in RunIds /\ Finalize(r, ok)
  BY DEF FinalizedBy, WorkersOwnRuns
<1>3. \A s \in RunIds : s # r => runs'[s] = runs[s]
  BY <1>2 DEF Finalize, TypeOK, StoreTypeOK
<1>4. ASSUME NEW d \in Clients, Working(d)'
      PROVE  /\ d # c /\ Working(d) /\ clients'[d] = clients[d]
             /\ runs'[clients[d].run] = runs[clients[d].run]
  <2>1. d # c
    BY <1>1, <1>4 DEF Working
  <2>2. clients'[d] = clients[d]
    BY <1>1, <2>1
  <2>3. Working(d)
    BY <1>4, <2>2 DEF Working
  <2>4. clients[d].run \in RunIds /\ clients[d].run # r
    BY <1>2, <2>1, <2>3 DEF WorkersOwnRuns
  <2> QED BY <1>3, <2>1, <2>2, <2>3, <2>4
<1> QED BY <1>4 DEF WorkersOwnRuns

LEMMA WorkersProgress ==
  ASSUME TypeOK, HandlersSane, WorkersOwnRuns, NEW c \in Clients, Progress(c)
  PROVE  WorkersOwnRuns'
<1> DEFINE cl == clients[c]
<1>0. cl \in Client
  BY DEF TypeOK
<1>1. ASSUME NEW reply, Done(c, reply), UNCHANGED runs PROVE WorkersOwnRuns'
  <2> DEFINE h == [cl EXCEPT !.pc = "done", !.reply = reply]
  <2>1. clients' = [clients EXCEPT ![c] = h] /\ h.pc = "done"
    BY <1>0, <1>1 DEF Done, Client
  <2> HIDE DEF h
  <2> QED BY <1>1, <2>1, HandlerLeavesWork
<1>2. ASSUME NEW r \in RunIds, ClaimGranted(c, r) PROVE WorkersOwnRuns'
  BY <1>2, WorkersClaim
<1>3. ASSUME NEW r \in RunIds, ClaimDuplicate(c, r) PROVE WorkersOwnRuns'
  <2> DEFINE h == [cl EXCEPT !.pc = "replaying", !.run = r]
  <2>1. clients' = [clients EXCEPT ![c] = h] /\ h.pc = "replaying" /\ UNCHANGED runs
    BY <1>0, <1>3 DEF ClaimDuplicate, Client, storeVars
  <2> HIDE DEF h
  <2> QED BY <2>1, HandlerLeavesWork
<1>4. ASSUME ExecutionThrows(c) PROVE WorkersOwnRuns'
  <2>1. CASE cl.op = "apply"
    <3>1. FinalizedBy(c, FALSE) /\ Done(c, "failed")
      BY <1>4, <2>1 DEF ExecutionThrows, FinalizedBy, Working
    <3> QED BY <3>1, WorkersFinalize
  <2>2. CASE cl.op # "apply"
    BY <1>1, <1>4, <2>2 DEF ExecutionThrows, storeVars
  <2> QED BY <2>1, <2>2
<1>5. ASSUME FinishApply(c) PROVE WorkersOwnRuns'
  <2>1. FinalizedBy(c, ~cl.halted)
    BY <1>5 DEF FinishApply, Executed, FinalizedBy, Working
  <2> QED BY <1>5, <2>1, WorkersFinalize DEF FinishApply
<1>6. ASSUME RunStep(c) \/ RecordStep(c) \/ SkipStep(c) PROVE WorkersOwnRuns'
  <2>1. cl.pc \in {"executing", "recording"}
    BY <1>6 DEF RunStep, RecordStep, SkipStep
  <2>2. UNCHANGED runs
    BY <1>6 DEF RunStep, RecordStep, SkipStep, AppendEvidence, storeVars
  <2>3. ASSUME NEW h, clients' = [clients EXCEPT ![c] = h],
               h.op = cl.op, h.run = cl.run, h.plan = cl.plan
        PROVE  WorkersOwnRuns'
    <3>1. h.op = "apply" => Working(c)
      BY <2>1, <2>3 DEF Working
    <3> QED BY <2>2, <2>3, <3>1, HandlerLeavesWork
  <2>4. CASE RunStep(c)
    <3>1. PICK o : clients' = [clients EXCEPT ![c] = [@ EXCEPT !.pc = "recording", !.outcome = o]]
      BY <2>4 DEF RunStep
    <3> DEFINE h == [cl EXCEPT !.pc = "recording", !.outcome = o]
    <3>2. clients' = [clients EXCEPT ![c] = h] /\ h.op = cl.op /\ h.run = cl.run /\ h.plan = cl.plan
      BY <1>0, <3>1 DEF Client
    <3> HIDE DEF h
    <3> QED BY <2>3, <3>2
  <2>5. CASE RecordStep(c)
    <3> DEFINE h == [cl EXCEPT !.pc = "executing", !.step = cl.step + 1,
                       !.halted = cl.halted \/ cl.outcome \in HaltingOutcomes]
    <3>1. clients' = [clients EXCEPT ![c] = h]
      BY <2>5 DEF RecordStep
    <3>2. h.op = cl.op /\ h.run = cl.run /\ h.plan = cl.plan
      BY <1>0 DEF Client
    <3> HIDE DEF h
    <3> QED BY <2>3, <3>1, <3>2
  <2>6. CASE SkipStep(c)
    <3> DEFINE h == [cl EXCEPT !.step = cl.step + 1]
    <3>1. clients' = [clients EXCEPT ![c] = h]
      BY <2>6 DEF SkipStep
    <3>2. h.op = cl.op /\ h.run = cl.run /\ h.plan = cl.plan
      BY <1>0 DEF Client
    <3> HIDE DEF h
    <3> QED BY <2>3, <3>1, <3>2
  <2> QED BY <1>6, <2>4, <2>5, <2>6
<1>7. ASSUME UndoStep(c) PROVE WorkersOwnRuns'
  <2>1. PICK rest, failed :
          clients' = [clients EXCEPT ![c] =
            [@ EXCEPT !.pending = rest, !.step = 2, !.failed = failed]]
    BY <1>7 DEF UndoStep
  <2> DEFINE h == [cl EXCEPT !.pending = rest, !.step = 2, !.failed = failed]
  <2>2. clients' = [clients EXCEPT ![c] = h] /\ h.pc = cl.pc /\ UNCHANGED runs
    BY <1>0, <1>7, <2>1 DEF Client, UndoStep, storeVars
  <2>3. cl.pc = "undoing"
    BY <1>7 DEF UndoStep, At
  <2> HIDE DEF h
  <2> QED BY <2>2, <2>3, HandlerLeavesWork
<1>8. ASSUME \/ ClaimTurnedAway(c) \/ Replay(c) \/ FinishDryRun(c) \/ FinishVerify(c)
             \/ FinishRollback(c) \/ TargetUnreachable(c)
      PROVE  WorkersOwnRuns'
  <2>1. UNCHANGED runs /\ \E reply : Done(c, reply)
    BY <1>8 DEF ClaimTurnedAway, Replay, FinishDryRun, RecordDryRun, FinishVerify,
                FinishRollback, PersistVerify, PersistRollback, TargetUnreachable, storeVars
  <2> QED BY <1>1, <2>1
<1> QED BY <1>2, <1>3, <1>4, <1>5, <1>6, <1>7, <1>8 DEF Progress

LEMMA WorkersStep ==
  ASSUME TypeOK, HandlersSane, WorkersOwnRuns, [Next]_vars
  PROVE  WorkersOwnRuns'
<1>1. ASSUME NEW p \in Plans, CreatePlan(p) \/ ApprovePlan(p) \/ RejectPlan(p)
      PROVE  UNCHANGED <<runs, clients>>
  BY <1>1 DEF CreatePlan, Create, ApprovePlan, Approve, RejectPlan, Reject
<1>2. ASSUME NEW c \in Clients, NEW p \in Plans,
             \/ \E k \in Keys \cup {NoKey} : RequestApply(c, p, k) \/ RequestDryRun(c, p, k)
             \/ RequestVerify(c, p)
             \/ RequestRollback(c, p)
      PROVE  WorkersOwnRuns'
  <2> DEFINE MovesElsewhere ==
               \E h : /\ clients' = [clients EXCEPT ![c] = h]
                     /\ ~(h.op = "apply" /\ h.pc \in {"executing", "recording"})
  <2>1. MovesElsewhere
    <3>0. clients[c] \in Client
      BY DEF TypeOK
    <3>1. ASSUME NEW k \in Keys \cup {NoKey}, RequestApply(c, p, k)
          PROVE  MovesElsewhere
      <4> DEFINE h == [clients[c] EXCEPT !.op = "apply", !.pc = "gated", !.plan = p, !.key = k,
                                         !.snap = rows[p].status]
      <4>1. clients' = [clients EXCEPT ![c] = h]
        BY <3>1 DEF RequestApply
      <4>2. h.pc = "gated"
        BY <3>0 DEF Client
      <4> HIDE DEF h
      <4> QED BY <4>1, <4>2
    <3>2. ASSUME NEW k \in Keys \cup {NoKey}, RequestDryRun(c, p, k)
          PROVE  MovesElsewhere
      <4>1. PICK pc, reply : clients' = [clients EXCEPT ![c] =
              [@ EXCEPT !.op = "dryRun", !.plan = p, !.key = k, !.snap = rows[p].status,
                        !.pc = pc, !.reply = reply]]
        BY <3>2 DEF RequestDryRun
      <4> DEFINE h == [clients[c] EXCEPT !.op = "dryRun", !.plan = p, !.key = k,
                         !.snap = rows[p].status, !.pc = pc, !.reply = reply]
      <4>2. clients' = [clients EXCEPT ![c] = h]
        BY <4>1
      <4>3. h.op = "dryRun"
        BY <3>0 DEF Client
      <4> HIDE DEF h
      <4> QED BY <4>2, <4>3
    <3>3. ASSUME RequestVerify(c, p)
          PROVE  MovesElsewhere
      <4> DEFINE h == [clients[c] EXCEPT !.op = "verify", !.pc = "checking", !.plan = p]
      <4>1. clients' = [clients EXCEPT ![c] = h] /\ h.op = "verify"
        BY <3>0, <3>3 DEF RequestVerify, Client
      <4> HIDE DEF h
      <4> QED BY <4>1
    <3>4. ASSUME RequestRollback(c, p)
          PROVE  MovesElsewhere
      <4> DEFINE h == [clients[c] EXCEPT !.op = "rollback", !.pc = "undoing", !.plan = p,
                                         !.pending = RevertibleSteps(p)]
      <4>1. clients' = [clients EXCEPT ![c] = h] /\ h.op = "rollback"
        BY <3>0, <3>4 DEF RequestRollback, Client
      <4> HIDE DEF h
      <4> QED BY <4>1
    <3> QED BY <1>2, <3>1, <3>2, <3>3, <3>4
  <2>2. UNCHANGED runs
    BY <1>2 DEF RequestApply, RequestDryRun, RequestVerify, RequestRollback, storeVars
  <2> QED BY <2>1, <2>2, HandlerLeavesWork
<1>3. ASSUME NEW c \in Clients, Progress(c) PROVE WorkersOwnRuns'
  BY <1>3, WorkersProgress
<1>4. CASE Crash
  <2>1. UNCHANGED runs
    BY <1>4 DEF Crash, storeVars
  <2>2. ASSUME NEW d \in Clients, Working(d)' PROVE clients'[d] = clients[d]
    <3>1. clients'[d] = IF Busy(d) THEN [clients[d] EXCEPT !.pc = "lost"] ELSE clients[d]
      BY <1>4 DEF Crash
    <3>2. [clients[d] EXCEPT !.pc = "lost"].pc = "lost"
      BY DEF TypeOK, Client
    <3>3. CASE Busy(d)
      BY <2>2, <3>1, <3>2, <3>3 DEF Working
    <3> QED BY <3>1, <3>3
  <2>3. ASSUME NEW d \in Clients, Working(d)' PROVE Working(d)
    BY <2>2, <2>3 DEF Working
  <2> QED BY <2>1, <2>2, <2>3, WorkersKept
<1>5. CASE UNCHANGED <<runs, clients>>
  <2>1. \A d \in Clients : Working(d)' => Working(d)
    BY <1>5 DEF Working
  <2> QED BY <1>5, <2>1, WorkersKept
<1>6. UNCHANGED vars => UNCHANGED <<runs, clients>>
  BY DEF vars
<1> QED BY <1>1, <1>2, <1>3, <1>4, <1>5, <1>6 DEF Next

-----------------------------------------------------------------------------
(* The inductive invariant.                                                *)

LEMMA InitInv == Init => IInv
<1> SUFFICES ASSUME Init PROVE IInv
  OBVIOUS
<1> USE PlanStoreAssumptions, PlanApplyAssumptions
<1>1. /\ rows = [p \in Plans |-> [status |-> "absent", active |-> NoRun,
                                  approval |-> 0, dryKey |-> NoKey, undoFailed |-> {}]]
      /\ runs = [r \in RunIds |-> UnusedRun]
      /\ runLog = <<>> /\ idemLog = <<>> /\ evidence = <<>> /\ approvals = 0
      /\ clients = [c \in Clients |-> IdleClient]
      /\ target = [p \in Plans |-> [i \in 1..NumSteps(p) |->
                     [content |-> Before[p][i], backup |-> "none"]]]
      /\ crashes = 0
  BY DEF Init, StoreInit
<1>2. Range(runLog) = {} /\ Range(idemLog) = {} /\ Range(evidence) = {}
  BY <1>1 DEF Range
<1>3. StoreTypeOK
  BY <1>1 DEF StoreTypeOK, Row, Statuses, Run, UnusedRun
<1>4. TypeOK
  <2>1. IdleClient \in Client
    BY DEF IdleClient, Client, Statuses, ActionOutcomes
  <2>2. \A p \in Plans : target[p] \in [1..NumSteps(p) -> TargetStates]
    <3>1. ASSUME NEW p \in Plans, NEW i \in 1..NumSteps(p)
          PROVE  [content |-> Before[p][i], backup |-> "none"] \in TargetStates
      BY <3>1 DEF TargetStates, Contents, Backups
    <3> QED BY <1>1, <3>1
  <2> QED BY <1>1, <1>3, <2>1, <2>2 DEF TypeOK
<1>5. HandlersSane
  BY <1>1 DEF HandlersSane, Sane, IdleClient
<1>6. EvidenceOfSteps /\ KeptRunsAreUsed /\ OneRunPerKey
  BY <1>2 DEF EvidenceOfSteps, KeptRunsAreUsed, OneRunPerKey
<1>7. ActiveRunOwned /\ StampsGranted /\ ApprovedIsUnspent
  BY <1>1 DEF ActiveRunOwned, StampsGranted, ApprovedIsUnspent, UnusedRun
<1>8. OneRunPerApproval
  BY <1>1 DEF OneRunPerApproval, UnusedRun
<1>9. WorkersOwnRuns
  BY <1>1 DEF WorkersOwnRuns, Working, IdleClient
<1> QED BY <1>4, <1>5, <1>6, <1>7, <1>8, <1>9 DEF IInv

LEMMA InvStep == IInv /\ [Next]_vars => IInv'
<1> SUFFICES ASSUME IInv, [Next]_vars PROVE IInv'
  OBVIOUS
<1>1. /\ TypeOK /\ HandlersSane /\ EvidenceOfSteps /\ WorkersOwnRuns
      /\ StoreInv /\ KeptRunsAreUsed
  BY DEF IInv, StoreInv
<1>2. StoreStep
  BY <1>1, NextIsStoreStep
<1>3. StoreInv'
  BY <1>1, <1>2, StoreInvStep
<1>4. crashes' \in 0..MaxCrashes
  <2>1. CASE Crash
    BY <1>1, <2>1, PlanApplyAssumptions DEF Crash, TypeOK
  <2>2. CASE UNCHANGED crashes
    BY <1>1, <2>2 DEF TypeOK
  <2> QED BY <2>1, <2>2
          DEF Next, Progress, vars, CreatePlan, ApprovePlan, RejectPlan, RequestApply,
              RequestDryRun, RequestVerify, RequestRollback, ClaimGranted, ClaimDuplicate,
              ClaimTurnedAway, Replay, ExecutionThrows, RunStep, RecordStep, SkipStep,
              FinishApply, FinishDryRun, FinishVerify, UndoStep, FinishRollback,
              TargetUnreachable
<1>5. TypeOK'
  <2>1. StoreTypeOK'
    BY <1>1, <1>2, StoreTypeStep, EvidenceStep DEF StoreTypeOK
  <2>2. clients' \in [Clients -> Client]
    BY <1>1, HandlersStep
  <2>3. DOMAIN target' = Plans /\ \A p \in Plans : target'[p] \in [1..NumSteps(p) -> TargetStates]
    BY <1>1, TargetStep
  <2> QED BY <2>1, <2>2, <2>3, <1>4 DEF TypeOK, NumSteps
<1>6. HandlersSane' /\ EvidenceOfSteps' /\ WorkersOwnRuns'
  BY <1>1, HandlersStep, EvidenceStep, WorkersStep
<1> QED BY <1>3, <1>5, <1>6 DEF IInv, StoreInv

(* The invariant the other theorems rest on.                               *)
THEOREM Invariant == Spec => []IInv
BY InitInv, InvStep, PTL DEF Spec

(* Every variable keeps its type (rows, runs, logs, evidence, handlers).   *)
THEOREM TypeCorrect == Spec => []TypeOK
<1>1. IInv => TypeOK
  BY DEF IInv
<1> QED BY <1>1, Invariant, PTL

(* No interleaving leaves a plan "applying" with no running run behind it  *)
(* (claimPlanForApply, finalizeApplyClaim).                                *)
THEOREM ActiveRunOwnedAlways == Spec => []ActiveRunOwned
<1>1. IInv => ActiveRunOwned
  BY DEF IInv
<1> QED BY <1>1, Invariant, PTL

(* However many clients retry, one approval starts one apply run.          *)
THEOREM OneRunPerApprovalAlways == Spec => []OneRunPerApproval
<1>1. IInv => OneRunPerApproval
  BY DEF IInv
<1> QED BY <1>1, Invariant, PTL

(* Among the idempotency records kept, one run per plan and key, whatever  *)
(* the cap at which they are trimmed.                                      *)
THEOREM OneRunPerKeyAlways == Spec => []OneRunPerKey
<1>1. IInv => OneRunPerKey
  BY DEF IInv
<1> QED BY <1>1, Invariant, PTL

-----------------------------------------------------------------------------
(* An outcome recorded by finalizeApplyClaim is never written over.        *)
THEOREM OutcomeIsFinalAlways == Spec => OutcomeIsFinal
<1> DEFINE Final == \A r \in RunIds :
                      runs[r].status \in Finished => runs'[r].status = runs[r].status
<1>1. ASSUME IInv, StoreStep PROVE Final
  <2> USE DEF Finished
  <2>1. /\ runs \in [RunIds -> Run] /\ WorkersOwnRuns
    BY <1>1 DEF IInv, TypeOK, StoreTypeOK
  <2>2. ASSUME NEW c \in Clients, NEW r \in RunIds, ClaimGranted(c, r) PROVE Final
    BY <2>1, <2>2 DEF ClaimGranted, GrantClaim
  <2>3. ASSUME NEW c \in Clients, NEW ok \in BOOLEAN, FinalizedBy(c, ok) PROVE Final
    <3>1. /\ clients[c].run \in RunIds /\ runs[clients[c].run].status = "running"
          /\ Finalize(clients[c].run, ok)
      BY <2>1, <2>3 DEF FinalizedBy, WorkersOwnRuns
    <3>2. \A s \in RunIds : s # clients[c].run => runs'[s] = runs[s]
      BY <2>1, <3>1 DEF Finalize
    <3> QED BY <3>1, <3>2
  <2>4. CASE UNCHANGED runs
    BY <2>4
  <2> QED BY <1>1, <2>2, <2>3, <2>4
          DEF StoreStep, Create, Approve, Reject, RecordDryRun, PersistVerify, PersistRollback
<1>2. IInv /\ [Next]_vars => StoreStep
  BY NextIsStoreStep DEF IInv
<1>3. IInv /\ [Next]_vars => [Final]_vars
  BY <1>1, <1>2
<1> QED BY <1>3, Invariant, PTL DEF Spec, OutcomeIsFinal

-----------------------------------------------------------------------------
(* PlanApply implements ApprovalTokens.                                    *)

LEMMA TokensInit == Init => Tokens!Init
<1> SUFFICES ASSUME Init PROVE Tokens!Init
  OBVIOUS
<1>1. \A p \in Plans : rows[p].status = "absent"
  BY DEF Init, StoreInit
<1>2. \A r \in RunIds : runs[r].status = "unused"
  BY DEF Init, StoreInit, UnusedRun
<1>3. approvals = 0
  BY DEF Init, StoreInit
<1> QED BY <1>1, <1>2, <1>3 DEF Tokens!Init

(* A row that loses its approved status revokes its token. *)
LEMMA RevokesToken ==
  ASSUME NEW p \in Plans,
         \A q \in Plans : q # p => rows'[q].status = rows[q].status
                                   /\ rows'[q].approval = rows[q].approval,
         rows'[p].status # "approved",
         UNCHANGED approvals,
         \A r \in RunIds : /\ runs'[r].status # "unused" <=> runs[r].status # "unused"
                           /\ runs'[r].approval = runs[r].approval
  PROVE  Tokens!Revoke(p)
BY DEF Tokens!Revoke

LEMMA KeepsTokens ==
  ASSUME \A q \in Plans : rows'[q].status = rows[q].status
                          /\ rows'[q].approval = rows[q].approval,
         UNCHANGED approvals,
         \A r \in RunIds : /\ runs'[r].status # "unused" <=> runs[r].status # "unused"
                           /\ runs'[r].approval = runs[r].approval
  PROVE  UNCHANGED Tokens!vars
BY DEF Tokens!vars

LEMMA TokensStep ==
  ASSUME IInv, StoreStep
  PROVE  [Tokens!Next]_(Tokens!vars)
<1> USE DEF Tokens!Next
<1>1. /\ rows \in [Plans -> Row] /\ runs \in [RunIds -> Run]
      /\ approvals \in Nat
      /\ WorkersOwnRuns /\ ApprovedIsUnspent /\ HandlersSane
  BY PlanStoreAssumptions DEF IInv, TypeOK, StoreTypeOK
<1>2. CASE UNCHANGED <<rows, runs, runLog, idemLog, approvals>>
  BY <1>2, KeepsTokens
<1>3. ASSUME NEW p \in Plans, Create(p) \/ Reject(p) PROVE Tokens!Revoke(p)
  <2>1. /\ rows' = [rows EXCEPT ![p].status = "needs-review"] /\ UNCHANGED <<runs, approvals>>
    BY <1>3 DEF Create, Reject
  <2>2. /\ \A q \in Plans : q # p => rows'[q] = rows[q]
        /\ rows'[p].status = "needs-review"
    BY <1>1, <2>1 DEF Row
  <2> QED BY <2>1, <2>2, RevokesToken
<1>4. ASSUME NEW p \in Plans, Approve(p) PROVE Tokens!Grant(p)
  <2>1. /\ rows'[p].status = "approved" /\ rows'[p].approval = approvals + 1
        /\ \A q \in Plans : q # p => rows'[q] = rows[q]
        /\ approvals < MaxApprovals /\ approvals' = approvals + 1 /\ UNCHANGED runs
    BY <1>1, <1>4 DEF Approve, Row
  <2> QED BY <2>1 DEF Tokens!Grant
<1>5. ASSUME NEW p \in Plans, NEW k \in Keys \cup {NoKey}, RecordDryRun(p, k)
      PROVE  UNCHANGED Tokens!vars
  <2>1. \A q \in Plans : rows'[q].status = rows[q].status /\ rows'[q].approval = rows[q].approval
    BY <1>1, <1>5 DEF RecordDryRun, Row
  <2> QED BY <1>5, <2>1, KeepsTokens DEF RecordDryRun
<1>6. ASSUME NEW p \in Plans,
             \/ \E s \in {"succeeded", "failed"} : PersistVerify(p, s)
             \/ \E failed \in SUBSET Nat : PersistRollback(p, failed)
      PROVE  Tokens!Revoke(p)
  <2>1. /\ \A q \in Plans : q # p => rows'[q] = rows[q]
        /\ rows'[p].status \in {"succeeded", "failed", "rolled-back"}
        /\ UNCHANGED <<runs, approvals>>
    BY <1>1, <1>6 DEF PersistVerify, PersistRollback, Row
  <2> QED BY <2>1, RevokesToken
<1>7. ASSUME NEW c \in Clients, NEW r \in RunIds, ClaimGranted(c, r), clients[c].plan \in Plans
      PROVE  Tokens!Spend(clients[c].plan, r)
  <2> DEFINE p == clients[c].plan
  <2>1. rows[p].status = "approved"
    BY <1>7 DEF ClaimGranted, ClaimVerdict, AppliedStatuses
  <2>2. /\ rows'[p].status = "applying"
        /\ \A q \in Plans : q # p => rows'[q] = rows[q]
        /\ UNCHANGED approvals
    BY <1>1, <1>7 DEF ClaimGranted, GrantClaim, Row
  <2>3. /\ runs[r].status = "unused"
        /\ runs'[r].status = "running" /\ runs'[r].approval = rows[p].approval
        /\ \A s \in RunIds : s # r => runs'[s] = runs[s]
    BY <1>1, <1>7 DEF ClaimGranted, GrantClaim
  <2>4. rows[p].approval # 0
    BY <1>1, <1>7, <2>1 DEF ApprovedIsUnspent
  <2> QED BY <1>7, <2>1, <2>2, <2>3, <2>4 DEF Tokens!Spend
<1>8. ASSUME NEW c \in Clients, NEW ok \in BOOLEAN, FinalizedBy(c, ok)
      PROVE  [Tokens!Next]_(Tokens!vars)
  <2>1. PICK r \in RunIds, p \in Plans :
          runs[r].status = "running" /\ runs[r].plan = p /\ Finalize(r, ok)
    BY <1>1, <1>8 DEF FinalizedBy, Working, WorkersOwnRuns, HandlersSane, Sane
  <2>2. CASE UNCHANGED storeVars
    BY <2>2, KeepsTokens DEF storeVars
  <2>3. ASSUME NEW s \in {"succeeded", "failed"}, Settles(r, s)
        PROVE  [Tokens!Next]_(Tokens!vars)
    <3>1. /\ \A t \in RunIds : /\ runs'[t].status # "unused" <=> runs[t].status # "unused"
                               /\ runs'[t].approval = runs[t].approval
          /\ UNCHANGED approvals
          /\ \A q \in Plans : q # p => rows'[q] = rows[q]
      BY <1>1, <2>1, <2>3 DEF Settles, Run
    <3>2. CASE rows[p].active = r
      <4>1. rows'[p].status # "approved"
        BY <1>1, <2>1, <2>3, <3>2 DEF Settles, RowAfterFinalize, Row
      <4>2. \A q \in Plans : q # p => rows'[q].status = rows[q].status
                                      /\ rows'[q].approval = rows[q].approval
        BY <3>1
      <4>3. Tokens!Revoke(p)
        BY <3>1, <4>1, <4>2, RevokesToken
      <4> QED BY <4>3
    <3>3. CASE rows[p].active # r
      <4>1. rows'[p] = rows[p]
        BY <1>1, <2>1, <2>3, <3>3 DEF Settles, RowAfterFinalize
      <4> QED BY <3>1, <4>1, KeepsTokens
    <3> QED BY <3>2, <3>3
  <2> QED BY <2>1, <2>2, <2>3, FinalizeEffect
<1> QED BY <1>2, <1>3, <1>4, <1>5, <1>6, <1>7, <1>8 DEF StoreStep

(* Reviews, claims and everything between them keep the promise of         *)
(* ApprovalTokens: an approval is granted by a review, revoked by any      *)
(* other outcome written on its plan, and spent by the one run it starts.  *)
THEOREM Implementation == Spec => SpendsTokens
<1>1. IInv /\ [Next]_vars => [Tokens!Next]_(Tokens!vars)
  BY NextIsStoreStep, TokensStep DEF IInv
<1> QED BY <1>1, TokensInit, Invariant, PTL DEF Spec, SpendsTokens, Tokens!Spec

-----------------------------------------------------------------------------
(* Exclusive execution, for the careful operator.                          *)

LEMMA CarefulIsNext == CarefulNext => Next
BY DEF CarefulNext, Next

(* What the claim needs: nobody is at work on a plan that may be claimed.  *)
NoneAtWorkOnApproved ==
  \A c \in Clients, p \in Careful : AtWork(c, p) => rows[p].status # "approved"

CarefulExclusive == \A p \in Careful : OneAtWork(p)

(* A handler at work was at work on the same plan before, or has just made *)
(* its claim.                                                              *)
LEMMA WorkComesFromClaims ==
  ASSUME TypeOK, HandlersSane, [Next]_vars, NEW c \in Clients, Working(c)'
  PROVE  \/ Working(c) /\ clients'[c].plan = clients[c].plan
         \/ \E r \in RunIds : ClaimGranted(c, r)
<1> DEFINE Goal == \/ Working(c) /\ clients'[c].plan = clients[c].plan
                   \/ \E r \in RunIds : ClaimGranted(c, r)
<1>0. \A d \in Clients : clients[d] \in Client
  BY DEF TypeOK
<1>1. clients'[c] = clients[c] => Goal
  BY DEF Working
<1>2. ASSUME NEW d \in Clients, NEW p \in Plans,
             \/ \E k \in Keys \cup {NoKey} : RequestApply(d, p, k) \/ RequestDryRun(d, p, k)
             \/ RequestVerify(d, p)
             \/ RequestRollback(d, p)
      PROVE  Goal
  <2>1. d # c => clients'[c] = clients[c]
    BY <1>2 DEF RequestApply, RequestDryRun, RequestVerify, RequestRollback, TypeOK
  <2>2. ASSUME d = c PROVE FALSE
    <3>1. ASSUME NEW k \in Keys \cup {NoKey}, RequestApply(c, p, k) PROVE FALSE
      BY <1>0, <3>1 DEF RequestApply, Working, TypeOK, Client
    <3>2. ASSUME NEW k \in Keys \cup {NoKey}, RequestDryRun(c, p, k) PROVE FALSE
      BY <1>0, <3>2 DEF RequestDryRun, Working, TypeOK, Client
    <3>3. ASSUME RequestVerify(c, p) PROVE FALSE
      BY <1>0, <3>3 DEF RequestVerify, Working, TypeOK, Client
    <3>4. ASSUME RequestRollback(c, p) PROVE FALSE
      <4>1. PICK pending : clients' = [clients EXCEPT ![c] =
              [@ EXCEPT !.op = "rollback", !.pc = "undoing", !.plan = p, !.pending = pending]]
        BY <3>4 DEF RequestRollback
      <4> QED BY <1>0, <4>1 DEF Working, TypeOK, Client
    <3> QED BY <1>2, <2>2, <3>1, <3>2, <3>3, <3>4
  <2> QED BY <1>1, <2>1, <2>2
<1>3. ASSUME NEW d \in Clients, Progress(d), d # c PROVE Goal
  <2>1. clients'[c] = clients[c]
    BY <1>3 DEF Progress, ClaimGranted, ClaimDuplicate, ClaimTurnedAway, Replay,
                ExecutionThrows, RunStep, RecordStep, SkipStep, FinishApply, FinishDryRun,
                FinishVerify, UndoStep, FinishRollback, TargetUnreachable, Done, TypeOK
  <2> QED BY <1>1, <2>1
<1>4. ASSUME Progress(c) PROVE Goal
  <2>1. CASE RunStep(c) \/ RecordStep(c) \/ SkipStep(c)
    <3>1. CASE RunStep(c)
      <4>1. PICK o : clients' = [clients EXCEPT ![c] = [@ EXCEPT !.pc = "recording", !.outcome = o]]
        BY <3>1 DEF RunStep
      <4>2. clients[c].pc = "executing"
        BY <3>1 DEF RunStep
      <4> QED BY <1>0, <4>1, <4>2 DEF Working, TypeOK, Client
    <3>2. CASE RecordStep(c)
      BY <1>0, <3>2 DEF RecordStep, Working, TypeOK, Client
    <3>3. CASE SkipStep(c)
      BY <1>0, <3>3 DEF SkipStep, Working, TypeOK, Client
    <3> QED BY <2>1, <3>1, <3>2, <3>3
  <2>2. CASE UndoStep(c)
    <3>1. PICK rest, failed :
            clients' = [clients EXCEPT ![c] =
              [@ EXCEPT !.pending = rest, !.step = 2, !.failed = failed]]
      BY <2>2 DEF UndoStep
    <3>2. clients[c].pc = "undoing"
      BY <2>2 DEF UndoStep, At
    <3> QED BY <1>0, <3>1, <3>2 DEF Working, TypeOK, Client
  <2>3. CASE \E r \in RunIds : ClaimDuplicate(c, r)
    BY <1>0, <2>3 DEF ClaimDuplicate, Working, TypeOK, Client
  <2>4. ASSUME NEW reply, Done(c, reply) PROVE FALSE
    BY <1>0, <2>4 DEF Done, Working, TypeOK, Client
  <2> QED BY <1>4, <2>1, <2>2, <2>3, <2>4
          DEF Progress, ClaimTurnedAway, Replay, ExecutionThrows, FinishApply, FinishDryRun,
              FinishVerify, FinishRollback, TargetUnreachable
<1>5. CASE Crash
  <2>1. clients'[c] = IF Busy(c) THEN [clients[c] EXCEPT !.pc = "lost"] ELSE clients[c]
    BY <1>5 DEF Crash
  <2>2. [clients[c] EXCEPT !.pc = "lost"].pc = "lost"
    BY <1>0 DEF Client
  <2> QED BY <1>1, <2>1, <2>2 DEF Working
<1>6. CASE UNCHANGED clients
  BY <1>1, <1>6
<1> QED BY <1>2, <1>3, <1>4, <1>5, <1>6
        DEF Next, vars, CreatePlan, ApprovePlan, RejectPlan

LEMMA ApprovalIsQuiet ==
  ASSUME IInv, [CarefulNext]_vars, NEW p \in Careful,
         rows[p].status # "approved", rows'[p].status = "approved"
  PROVE  Quiet(p)
<1>1. TypeOK /\ StoreStep /\ p \in Plans
  BY CarefulIsNext, NextIsStoreStep, PlanApplyAssumptions DEF IInv
<1>2. approvals' # approvals
  <2>1. \A q \in Plans, s \in {"needs-review", "succeeded", "failed", "rolled-back"} :
          rows' # [rows EXCEPT ![q].status = s]
    BY <1>1 DEF TypeOK, StoreTypeOK, Row
  <2>2. \A q \in Plans : ~Create(q) /\ ~Reject(q)
    BY <2>1 DEF Create, Reject
  <2>3. /\ \A q \in Plans, s \in {"succeeded", "failed"} : ~PersistVerify(q, s)
        /\ \A q \in Plans, failed \in SUBSET Nat : ~PersistRollback(q, failed)
    <3>1. ASSUME NEW q \in Plans, NEW failed \in SUBSET Nat, PersistRollback(q, failed)
          PROVE  rows'[p].status \in {rows[p].status, "rolled-back"}
      BY <1>1, <3>1 DEF PersistRollback, TypeOK, StoreTypeOK, Row
    <3> QED BY <1>1, <2>1, <3>1 DEF PersistVerify
  <2>4. ASSUME NEW q \in Plans, NEW k \in Keys \cup {NoKey}, RecordDryRun(q, k) PROVE FALSE
    <3>1. rows' = [rows EXCEPT ![q].dryKey = k]
      BY <2>4 DEF RecordDryRun
    <3>2. rows'[p].status = rows[p].status
      BY <1>1, <3>1 DEF TypeOK, StoreTypeOK, Row
    <3> QED BY <3>2
  <2>5. ASSUME NEW c \in Clients, NEW r \in RunIds, ClaimGranted(c, r), clients[c].plan \in Plans
        PROVE  FALSE
    <3>1. PICK q \in Plans : rows' = [rows EXCEPT ![q] = [@ EXCEPT !.status = "applying", !.active = r]]
      BY <2>5 DEF ClaimGranted, GrantClaim
    <3>2. rows'[p].status \in {rows[p].status, "applying"}
      BY <1>1, <3>1 DEF TypeOK, StoreTypeOK, Row
    <3> QED BY <3>2
  <2>6. \A c \in Clients, ok \in BOOLEAN : ~FinalizedBy(c, ok)
    <3> SUFFICES ASSUME NEW c \in Clients, NEW ok \in BOOLEAN, FinalizedBy(c, ok) PROVE FALSE
      OBVIOUS
    <3>1. Finalize(clients[c].run, ok)
      BY DEF FinalizedBy
    <3>2. UNCHANGED storeVars \/ \E s \in {"succeeded", "failed"} : Settles(clients[c].run, s)
      BY <3>1, FinalizeEffect
    <3>3. ASSUME NEW s \in {"succeeded", "failed"}, Settles(clients[c].run, s)
          PROVE  rows'[p].status \in {rows[p].status, s}
      <4>1. CASE p = runs[clients[c].run].plan
        BY <1>1, <3>3, <4>1 DEF Settles, RowAfterFinalize, TypeOK, StoreTypeOK, Row
      <4>2. CASE p # runs[clients[c].run].plan
        BY <1>1, <3>3, <4>2 DEF Settles, TypeOK, StoreTypeOK
      <4> QED BY <4>1, <4>2
    <3> QED BY <3>2, <3>3 DEF storeVars
  <2>7. \E q \in Plans : Approve(q)
    BY <1>1, <2>2, <2>3, <2>4, <2>5, <2>6 DEF StoreStep
  <2> QED BY <1>1, <2>7, PlanStoreAssumptions DEF Approve, TypeOK, StoreTypeOK
<1>3. \E q \in Plans : (q \in Careful => Quiet(q)) /\ ApprovePlan(q)
  <2>1. ASSUME NEW c \in Clients, Progress(c) PROVE UNCHANGED approvals
    <3>1. CASE \E r \in RunIds : ClaimGranted(c, r) \/ ClaimDuplicate(c, r)
      BY <3>1 DEF ClaimGranted, ClaimDuplicate, GrantClaim, storeVars
    <3>2. CASE ClaimTurnedAway(c) \/ Replay(c) \/ TargetUnreachable(c)
      BY <3>2 DEF ClaimTurnedAway, Replay, TargetUnreachable, storeVars
    <3>3. CASE ExecutionThrows(c) \/ FinishApply(c)
      BY <3>3 DEF ExecutionThrows, FinishApply, Finalize, storeVars
    <3>4. CASE RunStep(c) \/ UndoStep(c)
      BY <3>4 DEF RunStep, UndoStep, storeVars
    <3>5. CASE RecordStep(c) \/ SkipStep(c)
      BY <3>5 DEF RecordStep, SkipStep, AppendEvidence
    <3>6. CASE FinishDryRun(c) \/ FinishVerify(c) \/ FinishRollback(c)
      BY <3>6 DEF FinishDryRun, FinishVerify, FinishRollback, RecordDryRun, PersistVerify,
                  PersistRollback
    <3> QED BY <2>1, <3>1, <3>2, <3>3, <3>4, <3>5, <3>6 DEF Progress
  <2>2. CASE Crash \/ UNCHANGED vars
    BY <1>2, <2>2 DEF Crash, vars, storeVars
  <2>3. ASSUME NEW q \in Plans, CreatePlan(q) \/ RejectPlan(q) PROVE UNCHANGED approvals
    BY <2>3 DEF CreatePlan, RejectPlan, Create, Reject
  <2>4. ASSUME NEW c \in Clients, NEW q \in Plans,
               \/ \E k \in Keys \cup {NoKey} : RequestApply(c, q, k) \/ RequestDryRun(c, q, k)
               \/ RequestVerify(c, q) \/ RequestRollback(c, q)
        PROVE  UNCHANGED approvals
    BY <2>4 DEF RequestApply, RequestDryRun, RequestVerify, RequestRollback, storeVars
  <2> QED BY <1>2, <2>1, <2>2, <2>3, <2>4 DEF CarefulNext
<1>4. PICK q \in Plans : (q \in Careful => Quiet(q)) /\ Approve(q)
  BY <1>3 DEF ApprovePlan
<1>5. q = p
  BY <1>1, <1>4 DEF Approve, TypeOK, StoreTypeOK, Row
<1> QED BY <1>4, <1>5

(* Who is at work on a plan has been so, or has its approval.              *)
LEMMA WorkBegins ==
  ASSUME IInv, [Next]_vars, NEW c \in Clients, NEW p \in Plans, AtWork(c, p)', ~AtWork(c, p)
  PROVE  /\ \E r \in RunIds : ClaimGranted(c, r)
         /\ rows[p].status = "approved" /\ rows'[p].status = "applying"
<1>1. TypeOK /\ HandlersSane
  BY DEF IInv
<1>2. PICK r \in RunIds : ClaimGranted(c, r)
  BY <1>1, WorkComesFromClaims DEF AtWork, Working
<1>3. clients'[c].plan = clients[c].plan
  BY <1>1, <1>2 DEF ClaimGranted, TypeOK, Client
<1>4. clients[c].plan = p
  BY <1>3 DEF AtWork
<1>5. rows[p].status = "approved"
  BY <1>2, <1>4 DEF ClaimGranted, ClaimVerdict, AppliedStatuses
<1>6. rows'[p].status = "applying"
  BY <1>1, <1>2, <1>4 DEF ClaimGranted, GrantClaim, TypeOK, StoreTypeOK, Row
<1> QED BY <1>2, <1>5, <1>6

LEMMA CarefulStep ==
  ASSUME IInv, NoneAtWorkOnApproved, CarefulExclusive, [CarefulNext]_vars
  PROVE  NoneAtWorkOnApproved' /\ CarefulExclusive'
<1>1. TypeOK /\ HandlersSane /\ [Next]_vars /\ Careful \subseteq Plans
  BY CarefulIsNext, PlanApplyAssumptions DEF IInv
<1>2. ASSUME NEW c \in Clients, NEW p \in Careful, AtWork(c, p)', ~AtWork(c, p)
      PROVE  /\ \E r \in RunIds : ClaimGranted(c, r)
             /\ rows[p].status = "approved" /\ rows'[p].status = "applying"
  BY <1>1, <1>2, WorkBegins
<1>3. ASSUME NEW c \in Clients, NEW p \in Careful, AtWork(c, p)', rows'[p].status = "approved"
      PROVE  FALSE
  <2>1. AtWork(c, p)
    BY <1>2, <1>3
  <2>2. rows[p].status # "approved"
    BY <2>1 DEF NoneAtWorkOnApproved
  <2>3. Quiet(p)
    BY <1>3, <2>2, ApprovalIsQuiet
  <2> QED BY <2>1, <2>3 DEF Quiet, Busy, AtWork
<1>4. ASSUME NEW c \in Clients, NEW d \in Clients, NEW p \in Careful,
             AtWork(c, p)', AtWork(d, p)', c # d
      PROVE  FALSE
  <2>1. CASE AtWork(c, p) /\ AtWork(d, p)
    BY <1>4, <2>1 DEF CarefulExclusive, OneAtWork
  <2>2. CASE AtWork(c, p) /\ ~AtWork(d, p)
    BY <1>2, <1>4, <2>2 DEF NoneAtWorkOnApproved
  <2>3. CASE ~AtWork(c, p) /\ AtWork(d, p)
    BY <1>2, <1>4, <2>3 DEF NoneAtWorkOnApproved
  <2>4. CASE ~AtWork(c, p) /\ ~AtWork(d, p)
    <3>1. PICK r \in RunIds : ClaimGranted(c, r)
      BY <1>2, <1>4, <2>4
    <3>2. PICK s \in RunIds : ClaimGranted(d, s)
      BY <1>2, <1>4, <2>4
    <3>3. clients'[d] = clients[d] /\ clients[d].pc = "gated"
      BY <1>1, <1>4, <3>1, <3>2 DEF ClaimGranted, At, TypeOK
    <3>4. clients'[d].pc = "executing"
      BY <1>1, <3>2 DEF ClaimGranted, TypeOK, Client
    <3> QED BY <3>3, <3>4
  <2> QED BY <2>1, <2>2, <2>3, <2>4
<1>5. NoneAtWorkOnApproved'
  BY <1>3 DEF NoneAtWorkOnApproved
<1>6. CarefulExclusive'
  BY <1>4 DEF CarefulExclusive, OneAtWork, AtWork
<1> QED BY <1>5, <1>6

(* A plan that is reviewed again only while nobody works on it is executed *)
(* by one request at a time, whatever else is interleaved: ExclusiveApply, *)
(* as far as careful operators go.                                         *)
THEOREM CarefulIsExclusive == CarefulSpec => []CarefulExclusive
<1> DEFINE CInv == IInv /\ NoneAtWorkOnApproved /\ CarefulExclusive
<1>1. Init => CInv
  <2>1. Init => \A c \in Clients, p \in Plans : ~AtWork(c, p)
    BY DEF Init, AtWork, IdleClient
  <2> QED BY <2>1, InitInv, PlanApplyAssumptions
          DEF NoneAtWorkOnApproved, CarefulExclusive, OneAtWork
<1>2. CInv /\ [CarefulNext]_vars => CInv'
  <2>1. [CarefulNext]_vars => [Next]_vars
    BY CarefulIsNext
  <2> QED BY <2>1, InvStep, CarefulStep
<1>3. CInv => CarefulExclusive
  OBVIOUS
<1> QED BY <1>1, <1>2, <1>3, PTL DEF CarefulSpec

-----------------------------------------------------------------------------
(* Evidence and replies.                                                   *)

Halts(e) == e.status \in HaltingOutcomes \/ e.refused

(* A request not under way has done nothing, a dry run has no run, and an  *)
(* action is only run while nothing has failed.                            *)
HandlersFresh ==
  \A c \in Clients :
    /\ clients[c].pc \in {"idle", "gated"} =>
         /\ clients[c].step = 1 /\ ~clients[c].halted
         /\ clients[c].run = NoRun /\ clients[c].reply = "none"
    /\ clients[c].op # "apply" => clients[c].run = NoRun
    /\ clients[c].pc = "recording" => ~clients[c].halted

(* The records of a run are of a run that was created, and while a handler *)
(* executes it they are of the steps it has behind it.                     *)
OwnRecords ==
  /\ \A e \in Range(evidence) : e.run # NoRun => runs[e.run].status # "unused"
  /\ \A c \in Clients : Working(c) =>
       \A e \in Range(evidence) : e.run = clients[c].run =>
         e.step < clients[c].step /\ (Halts(e) => clients[c].halted)

GotThrough(r, i) == \E e \in Range(evidence) : e.run = r /\ e.step = i /\ ~Halts(e)

(* A handler that nothing has halted has a record of every step behind it. *)
StepsAreEvidenced ==
  Len(evidence) < EvidenceCap =>
    \A c \in Clients : Working(c) /\ ~clients[c].halted =>
      \A i \in 1..NumSteps(clients[c].plan) :
        i < clients[c].step => GotThrough(clients[c].run, i)

EvidenceInv ==
  HandlersFresh /\ OwnRecords /\ EvidenceTellsTheRun /\ StepsAreEvidenced

-----------------------------------------------------------------------------
(* How a step moves a handler.                                             *)

Requests(c) ==
  \E p \in Plans :
    \/ \E k \in Keys \cup {NoKey} : RequestApply(c, p, k) \/ RequestDryRun(c, p, k)
    \/ RequestVerify(c, p)
    \/ RequestRollback(c, p)

Reviews == \E p \in Plans : CreatePlan(p) \/ ApprovePlan(p) \/ RejectPlan(p)

LEMMA OneMoves ==
  ASSUME TypeOK, [Next]_vars
  PROVE  \/ UNCHANGED vars \/ Reviews \/ Crash
         \/ \E c \in Clients : /\ Requests(c) \/ Progress(c)
                               /\ \A d \in Clients \ {c} : clients'[d] = clients[d]
<1>1. ASSUME NEW c \in Clients, Requests(c)
      PROVE  \A d \in Clients \ {c} : clients'[d] = clients[d]
  BY <1>1 DEF Requests, RequestApply, RequestDryRun, RequestVerify, RequestRollback, TypeOK
<1>2. ASSUME NEW c \in Clients, Progress(c)
      PROVE  \A d \in Clients \ {c} : clients'[d] = clients[d]
  BY <1>2 DEF Progress, ClaimGranted, ClaimDuplicate, ClaimTurnedAway, Replay,
              ExecutionThrows, RunStep, RecordStep, SkipStep, FinishApply, FinishDryRun,
              FinishVerify, UndoStep, FinishRollback, TargetUnreachable, Done, TypeOK
<1> QED BY <1>1, <1>2 DEF Next, Requests, Reviews

(* What no progress changes in a handler. *)
Keeps(c) ==
  /\ clients'[c].op = clients[c].op /\ clients'[c].plan = clients[c].plan
  /\ clients'[c].key = clients[c].key

LEMMA Requested ==
  ASSUME TypeOK, NEW c \in Clients, Requests(c)
  PROVE  /\ clients[c].pc = "idle" /\ UNCHANGED <<storeVars, target, crashes>>
         /\ clients'[c].step = clients[c].step /\ clients'[c].halted = clients[c].halted
         /\ clients'[c].run = clients[c].run
         /\ \/ clients'[c].op = "apply" /\ clients'[c].pc = "gated"
               /\ clients'[c].reply = clients[c].reply
            \/ clients'[c].op = "dryRun" /\ clients'[c].pc \in {"done", "executing"}
            \/ clients'[c].op = "verify" /\ clients'[c].pc = "checking"
            \/ /\ clients'[c].op = "rollback" /\ clients'[c].pc = "undoing"
               /\ clients'[c].pending = RevertibleSteps(clients'[c].plan)
<1> USE DEF TypeOK, Client
<1>1. ASSUME NEW p \in Plans, NEW k \in Keys \cup {NoKey}, RequestApply(c, p, k)
      PROVE  /\ clients'[c].step = clients[c].step /\ clients'[c].halted = clients[c].halted
             /\ clients'[c].run = clients[c].run /\ clients'[c].op = "apply"
             /\ clients'[c].pc = "gated" /\ clients'[c].reply = clients[c].reply
  BY <1>1 DEF RequestApply
<1>2. ASSUME NEW p \in Plans, NEW k \in Keys \cup {NoKey}, RequestDryRun(c, p, k)
      PROVE  /\ clients'[c].step = clients[c].step /\ clients'[c].halted = clients[c].halted
             /\ clients'[c].run = clients[c].run /\ clients'[c].op = "dryRun"
             /\ clients'[c].pc \in {"done", "executing"}
  <2>1. PICK pc \in {"done", "executing"}, reply \in {"dry-run", "none"} :
          clients' = [clients EXCEPT ![c] =
            [@ EXCEPT !.op = "dryRun", !.plan = p, !.key = k, !.snap = rows[p].status,
                      !.pc = pc, !.reply = reply]]
    BY <1>2 DEF RequestDryRun
  <2> QED BY <2>1
<1>3. ASSUME NEW p \in Plans, RequestVerify(c, p)
      PROVE  /\ clients'[c].step = clients[c].step /\ clients'[c].halted = clients[c].halted
             /\ clients'[c].run = clients[c].run /\ clients'[c].op = "verify"
             /\ clients'[c].pc = "checking"
  BY <1>3 DEF RequestVerify
<1>4. ASSUME NEW p \in Plans, RequestRollback(c, p)
      PROVE  /\ clients'[c].step = clients[c].step /\ clients'[c].halted = clients[c].halted
             /\ clients'[c].run = clients[c].run /\ clients'[c].op = "rollback"
             /\ clients'[c].pc = "undoing"
             /\ clients'[c].pending = RevertibleSteps(clients'[c].plan)
  <2>1. PICK pending : pending = RevertibleSteps(p)
    OBVIOUS
  <2>2. clients' = [clients EXCEPT ![c] =
          [@ EXCEPT !.op = "rollback", !.pc = "undoing", !.plan = p, !.pending = pending]]
    BY <1>4, <2>1 DEF RequestRollback
  <2>3. clients'[c].plan = p /\ clients'[c].pending = pending
    BY <2>2
  <2> QED BY <2>1, <2>2, <2>3
<1>5. clients[c].pc = "idle" /\ UNCHANGED <<storeVars, target, crashes>>
  BY DEF Requests, RequestApply, RequestDryRun, RequestVerify, RequestRollback
<1> QED BY <1>1, <1>2, <1>3, <1>4, <1>5 DEF Requests

LEMMA DoneFields ==
  ASSUME TypeOK, NEW c \in Clients, NEW reply, Done(c, reply)
  PROVE  /\ Keeps(c) /\ clients'[c].pc = "done" /\ clients'[c].reply = reply
         /\ clients'[c].run = clients[c].run
BY DEF Done, TypeOK, Client, Keeps

(* The steps that end a request.                                           *)
Ends(c) ==
  \/ ClaimTurnedAway(c) \/ Replay(c) \/ ExecutionThrows(c) \/ FinishApply(c)
  \/ FinishDryRun(c) \/ FinishVerify(c) \/ FinishRollback(c) \/ TargetUnreachable(c)

LEMMA EndFields ==
  ASSUME TypeOK, NEW c \in Clients, Ends(c)
  PROVE  /\ Keeps(c) /\ clients'[c].pc = "done" /\ clients'[c].run = clients[c].run
         /\ UNCHANGED <<evidence, target, crashes>>
<1>1. \E reply : Done(c, reply)
  BY DEF Ends, ClaimTurnedAway, Replay, ExecutionThrows, FinishApply, FinishDryRun,
         FinishVerify, FinishRollback, TargetUnreachable
<1>2. UNCHANGED <<target, crashes>>
  BY DEF Ends, ClaimTurnedAway, Replay, ExecutionThrows, FinishApply, FinishDryRun,
         FinishVerify, FinishRollback, TargetUnreachable
<1>3. UNCHANGED evidence
  BY DEF Ends, ClaimTurnedAway, Replay, ExecutionThrows, FinishApply, FinishDryRun,
         FinishVerify, FinishRollback, TargetUnreachable, Finalize, RecordDryRun,
         PersistVerify, PersistRollback, storeVars
<1> QED BY <1>1, <1>2, <1>3, DoneFields

LEMMA ProgressKinds ==
  ASSUME NEW c \in Clients, Progress(c)
  PROVE  \/ Ends(c) \/ RunStep(c) \/ RecordStep(c) \/ SkipStep(c) \/ UndoStep(c)
         \/ \E r \in RunIds : ClaimGranted(c, r) \/ ClaimDuplicate(c, r)
BY DEF Progress, Ends

LEMMA ClaimFields ==
  ASSUME TypeOK, NEW c \in Clients, NEW r \in RunIds, ClaimGranted(c, r) \/ ClaimDuplicate(c, r)
  PROVE  /\ Keeps(c) /\ clients'[c].run = r
         /\ clients[c].op = "apply" /\ clients[c].pc = "gated"
         /\ clients'[c].step = clients[c].step /\ clients'[c].halted = clients[c].halted
         /\ clients'[c].reply = clients[c].reply
         /\ UNCHANGED <<evidence, target, crashes>>
         /\ ClaimGranted(c, r) => clients'[c].pc = "executing"
         /\ ClaimDuplicate(c, r) => clients'[c].pc = "replaying"
<1>1. CASE ClaimGranted(c, r)
  BY <1>1 DEF ClaimGranted, ClaimDuplicate, GrantClaim, At, TypeOK, Client, Keeps
<1>2. CASE ClaimDuplicate(c, r)
  BY <1>2 DEF ClaimGranted, ClaimDuplicate, At, TypeOK, Client, Keeps, storeVars
<1> QED BY <1>1, <1>2

LEMMA RunFields ==
  ASSUME TypeOK, NEW c \in Clients, RunStep(c)
  PROVE  /\ Keeps(c) /\ clients'[c].pc = "recording" /\ clients[c].pc = "executing"
         /\ ~clients[c].halted /\ clients[c].step <= NumSteps(clients[c].plan)
         /\ clients'[c].run = clients[c].run /\ clients'[c].reply = clients[c].reply
         /\ clients'[c].step = clients[c].step /\ clients'[c].halted = clients[c].halted
         /\ UNCHANGED <<storeVars, crashes>>
<1>1. PICK o : clients' = [clients EXCEPT ![c] = [@ EXCEPT !.pc = "recording", !.outcome = o]]
  BY DEF RunStep
<1>2. /\ clients[c].pc = "executing" /\ ~clients[c].halted
      /\ clients[c].step <= NumSteps(clients[c].plan) /\ UNCHANGED <<storeVars, crashes>>
  BY DEF RunStep
<1> QED BY <1>1, <1>2 DEF TypeOK, Client, Keeps

LEMMA UndoFields ==
  ASSUME TypeOK, NEW c \in Clients, UndoStep(c)
  PROVE  /\ Keeps(c) /\ At(c, "rollback", "undoing") /\ clients'[c].pc = "undoing"
         /\ clients'[c].run = clients[c].run /\ clients'[c].reply = clients[c].reply
         /\ clients'[c].halted = clients[c].halted
         /\ clients'[c].pending \subseteq clients[c].pending
         /\ UNCHANGED <<storeVars, crashes>>
<1>1. PICK rest, failed :
        /\ rest \subseteq clients[c].pending
        /\ clients' = [clients EXCEPT ![c] =
             [@ EXCEPT !.pending = rest, !.step = 2, !.failed = failed]]
  <2>1. clients[c].pending \ {Max(clients[c].pending)} \subseteq clients[c].pending
    OBVIOUS
  <2>2. \E failed : clients' = [clients EXCEPT ![c] =
          [@ EXCEPT !.pending = clients[c].pending \ {Max(clients[c].pending)},
                    !.step = 2, !.failed = failed]]
    BY DEF UndoStep
  <2> QED BY <2>1, <2>2
<1>2. At(c, "rollback", "undoing") /\ UNCHANGED <<storeVars, crashes>>
  BY DEF UndoStep
<1> QED BY <1>1, <1>2 DEF TypeOK, Client, Keeps, At

(* The two ways of putting a record of the step at hand.                   *)
Records(c, refused) == IF refused THEN SkipStep(c) ELSE RecordStep(c)

LEMMA RecordFields ==
  ASSUME TypeOK, HandlersFresh, NEW c \in Clients, NEW refused \in BOOLEAN, Records(c, refused)
  PROVE  /\ Keeps(c) /\ clients'[c].pc = "executing"
         /\ clients[c].pc \in {"executing", "recording"}
         /\ clients'[c].run = clients[c].run /\ clients'[c].reply = clients[c].reply
         /\ clients'[c].step = clients[c].step + 1
         /\ clients'[c].halted <=> Halts(RecordOf(c, refused))
         /\ clients[c].halted <=> refused
         /\ evidence' = Trim(Append(evidence, RecordOf(c, refused)), EvidenceCap)
         /\ UNCHANGED <<rows, runs, runLog, idemLog, approvals, target, crashes>>
<1>1. CASE refused
  <2>1. SkipStep(c) /\ refused = TRUE
    BY <1>1 DEF Records
  <2>2. Halts(RecordOf(c, TRUE))
    BY DEF Halts, RecordOf
  <2>3. /\ clients' = [clients EXCEPT ![c] = [@ EXCEPT !.step = clients[c].step + 1]]
        /\ clients[c].pc = "executing" /\ clients[c].halted
        /\ evidence' = Trim(Append(evidence, RecordOf(c, TRUE)), EvidenceCap)
        /\ UNCHANGED <<rows, runs, runLog, idemLog, approvals, target, crashes>>
    BY <2>1 DEF SkipStep, AppendEvidence
  <2>4. /\ Keeps(c) /\ clients'[c].pc = "executing"
        /\ clients'[c].run = clients[c].run /\ clients'[c].reply = clients[c].reply
        /\ clients'[c].step = clients[c].step + 1 /\ clients'[c].halted
    BY <2>3 DEF TypeOK, Client, Keeps
  <2> QED BY <2>1, <2>2, <2>3, <2>4
<1>2. CASE ~refused
  <2>1. RecordStep(c)
    BY <1>2 DEF Records
  <2>2. ~clients[c].halted
    BY <2>1 DEF RecordStep, HandlersFresh
  <2>3. Halts(RecordOf(c, FALSE)) <=> clients[c].outcome \in HaltingOutcomes
    BY DEF Halts, RecordOf
  <2> QED BY <1>2, <2>1, <2>2, <2>3 DEF RecordStep, AppendEvidence, TypeOK, Client, Keeps
<1> QED BY <1>1, <1>2

-----------------------------------------------------------------------------
(* The evidence after a record was put: the record is the last entry, the  *)
(* others are the newest there were, all of them below the cap.            *)
KeepsFrom(s, m, e, cap, t, S) ==
  /\ t \in Seq(S) /\ Len(t) = Len(s) + 1 - m /\ DOMAIN t = 1..Len(t)
  /\ t[Len(t)] = e
  /\ \A i \in 1..Len(s) - m : t[i] = s[i + m]
  /\ Len(t) < cap => m = 0 /\ Len(s) < cap

LEMMA TrimmedAppend ==
  ASSUME NEW S, NEW s \in Seq(S), NEW e \in S, NEW cap \in Nat \ {0}
  PROVE  \E m \in 0..Len(s) : KeepsFrom(s, m, e, cap, Trim(Append(s, e), cap), S)
<1> DEFINE longer == Append(s, e)
           t == Trim(longer, cap)
<1> USE DEF KeepsFrom
<1>1. /\ longer \in Seq(S) /\ Len(longer) = Len(s) + 1 /\ Len(s) \in Nat
      /\ longer[Len(s) + 1] = e
      /\ \A i \in 1..Len(s) : longer[i] = s[i]
  OBVIOUS
<1>2. CASE Len(longer) <= cap
  <2>1. t = longer
    BY <1>2 DEF Trim
  <2>2. \A i \in 1..Len(s) - 0 : t[i] = s[i + 0]
    BY <1>1, <2>1
  <2>3. t \in Seq(S) /\ Len(t) = Len(s) + 1 - 0 /\ DOMAIN t = 1..Len(t) /\ t[Len(t)] = e
    BY <1>1, <2>1
  <2>4. 0 \in 0..Len(s) /\ (Len(t) < cap => Len(s) < cap)
    BY <1>1, <2>1
  <2> QED BY <2>2, <2>3, <2>4
<1>3. CASE Len(longer) > cap
  <2> DEFINE m == Len(s) + 1 - cap
  <2>1. m \in 0..Len(s) /\ Len(s) + 1 - m = cap
    BY <1>1, <1>3
  <2>2. t = SubSeq(longer, m + 1, Len(longer))
    BY <1>1, <1>3 DEF Trim
  <2> HIDE DEF longer, t, m
  <2>3. /\ t \in Seq(S) /\ Len(t) = Len(s) + 1 - m /\ DOMAIN t = 1..Len(t)
        /\ \A i \in 1..Len(t) : t[i] = longer[i + m]
    BY <1>1, <2>1, <2>2
  <2>4. t[Len(t)] = e
    BY <1>1, <2>1, <2>3
  <2>5. ASSUME NEW i \in 1..Len(s) - m PROVE t[i] = s[i + m]
    <3>1. i \in 1..Len(t) /\ i + m \in 1..Len(s)
      BY <1>1, <2>1, <2>3
    <3> QED BY <1>1, <2>3, <3>1
  <2>6. ~(Len(t) < cap)
    BY <2>1, <2>3
  <2> QED BY <2>1, <2>3, <2>4, <2>5, <2>6 DEF t, longer
<1> QED BY <1>1, <1>2, <1>3

(* The records of runs in the order of the plan.                           *)
Follows(records) ==
  \A i, j \in DOMAIN records :
    i < j /\ records[i].run = records[j].run /\ records[i].run # NoRun
    => records[i].step < records[j].step /\ (Halts(records[i]) => records[j].refused)

LEMMA FollowsAppended ==
  ASSUME NEW S, NEW s \in Seq(S), NEW e \in S, NEW cap \in Nat \ {0}, Follows(s),
         e.run # NoRun => \A old \in Range(s) : old.run = e.run =>
           old.step < e.step /\ (Halts(old) => e.refused)
  PROVE  Follows(Trim(Append(s, e), cap))
<1> DEFINE t == Trim(Append(s, e), cap)
<1>0. PICK m \in 0..Len(s) : KeepsFrom(s, m, e, cap, t, S)
  BY TrimmedAppend
<1>1. /\ t \in Seq(S) /\ Len(t) = Len(s) + 1 - m /\ DOMAIN t = 1..Len(t)
      /\ t[Len(t)] = e
      /\ \A i \in 1..Len(s) - m : t[i] = s[i + m]
  BY <1>0 DEF KeepsFrom
<1>2. Len(s) \in Nat /\ DOMAIN s = 1..Len(s)
  OBVIOUS
<1> HIDE DEF t
<1>3. ASSUME NEW i \in DOMAIN t, i < Len(t)
      PROVE  i + m \in DOMAIN s /\ t[i] = s[i + m]
  BY <1>1, <1>2, <1>3
<1>4. ASSUME NEW i \in DOMAIN t, NEW j \in DOMAIN t, i < j, t[i].run = t[j].run, t[i].run # NoRun
      PROVE  t[i].step < t[j].step /\ (Halts(t[i]) => t[j].refused)
  <2>1. i \in 1..Len(t) /\ j \in 1..Len(t) /\ i < Len(t)
    BY <1>1, <1>2, <1>4
  <2>2. i + m \in DOMAIN s /\ t[i] = s[i + m]
    BY <1>3, <2>1
  <2>3. CASE j = Len(t)
    <3>1. t[j] = e /\ s[i + m] \in Range(s)
      BY <1>1, <2>2, <2>3 DEF Range
    <3> QED BY <1>4, <2>2, <3>1
  <2>4. CASE j < Len(t)
    <3>1. j + m \in DOMAIN s /\ t[j] = s[j + m]
      BY <1>3, <2>4
    <3>2. i + m < j + m
      BY <1>1, <1>4, <2>1
    <3> QED BY <1>4, <2>2, <3>1, <3>2 DEF Follows
  <2> QED BY <1>1, <2>1, <2>3, <2>4
<1> QED BY <1>4 DEF Follows, t

(* Below the cap nothing is lost. *)
LEMMA NothingTrimmed ==
  ASSUME NEW S, NEW s \in Seq(S), NEW e \in S, NEW cap \in Nat \ {0},
         Len(Trim(Append(s, e), cap)) < cap
  PROVE  Len(s) < cap /\ Range(Trim(Append(s, e), cap)) = Range(s) \cup {e}
<1>1. Len(s) < cap
  BY TrimmedAppend DEF KeepsFrom
<1>2. Trim(Append(s, e), cap) = Append(s, e)
  BY <1>1 DEF Trim
<1> QED BY <1>1, <1>2, AppendEntries

-----------------------------------------------------------------------------
(* What becomes of a run in a step.                                        *)
Outcome(r, s) ==
  /\ runs'[r].status = s
  /\ runs'[r].plan = runs[r].plan /\ runs'[r].key = runs[r].key

LEMMA FinalizedRun ==
  ASSUME TypeOK, NEW r \in RunIds, NEW q, NEW ok \in BOOLEAN, Finalize(q, ok), runs'[r] # runs[r]
  PROVE  r = q /\ Outcome(r, IF ok THEN "succeeded" ELSE "failed")
<1> DEFINE s == IF ok THEN "succeeded" ELSE "failed"
<1>1. runs' = [runs EXCEPT ![q].status = s]
  BY DEF Finalize
<1> HIDE DEF s
<1>2. r = q
  BY <1>1 DEF TypeOK, StoreTypeOK
<1> QED BY <1>1, <1>2 DEF Outcome, TypeOK, StoreTypeOK, Run, s

LEMMA RunMoves ==
  ASSUME TypeOK, [Next]_vars, NEW r \in RunIds, runs'[r] # runs[r]
  PROVE  \E c \in Clients :
           \/ /\ ClaimGranted(c, r) /\ runs[r].status = "unused" /\ runs'[r].status = "running"
              /\ runs'[r].plan = clients[c].plan /\ runs'[r].key = clients[c].key
           \/ /\ FinishApply(c) /\ clients[c].run = r
              /\ Outcome(r, IF clients[c].halted THEN "failed" ELSE "succeeded")
           \/ /\ ExecutionThrows(c) /\ clients[c].op = "apply" /\ clients[c].run = r
              /\ Outcome(r, "failed")
<1>1. PICK c \in Clients : Progress(c)
  BY OneMoves, Requested
     DEF vars, Reviews, CreatePlan, ApprovePlan, RejectPlan, Create, Approve, Reject, Crash,
         storeVars
<1>2. ASSUME NEW q \in RunIds, ClaimGranted(c, q)
      PROVE  /\ q = r /\ runs[r].status = "unused" /\ runs'[r].status = "running"
             /\ runs'[r].plan = clients[c].plan /\ runs'[r].key = clients[c].key
  <2>1. /\ runs[q].status = "unused"
        /\ runs' = [runs EXCEPT ![q] = [status |-> "running", plan |-> clients[c].plan,
                       key |-> clients[c].key, approval |-> rows[clients[c].plan].approval]]
    BY <1>2 DEF ClaimGranted, GrantClaim
  <2>2. q = r
    BY <2>1 DEF TypeOK, StoreTypeOK
  <2> QED BY <2>1, <2>2 DEF TypeOK, StoreTypeOK
<1>3. ASSUME FinishApply(c)
      PROVE  clients[c].run = r /\ Outcome(r, IF clients[c].halted THEN "failed" ELSE "succeeded")
  <2>1. Finalize(clients[c].run, ~clients[c].halted) /\ clients[c].halted \in BOOLEAN
    BY <1>3 DEF FinishApply, TypeOK, Client
  <2>2. CASE clients[c].halted
    BY <2>1, <2>2, FinalizedRun
  <2>3. CASE ~clients[c].halted
    BY <2>1, <2>3, FinalizedRun
  <2> QED BY <2>1, <2>2, <2>3
<1>4. ASSUME ExecutionThrows(c)
      PROVE  clients[c].op = "apply" /\ clients[c].run = r /\ Outcome(r, "failed")
  <2>1. CASE clients[c].op = "apply"
    <3>1. Finalize(clients[c].run, FALSE)
      BY <1>4, <2>1 DEF ExecutionThrows
    <3> QED BY <2>1, <3>1, FinalizedRun
  <2>2. CASE clients[c].op # "apply"
    BY <1>4, <2>2 DEF ExecutionThrows, storeVars
  <2> QED BY <2>1, <2>2
<1>5. ~RunStep(c) /\ ~UndoStep(c) /\ ~RecordStep(c) /\ ~SkipStep(c)
  BY DEF RunStep, UndoStep, RecordStep, SkipStep, AppendEvidence, storeVars
<1>6. \A q \in RunIds : ~ClaimDuplicate(c, q)
  BY DEF ClaimDuplicate, storeVars
<1>7. /\ ~ClaimTurnedAway(c) /\ ~Replay(c) /\ ~TargetUnreachable(c)
      /\ ~FinishDryRun(c) /\ ~FinishVerify(c) /\ ~FinishRollback(c)
  BY DEF ClaimTurnedAway, Replay, TargetUnreachable, FinishDryRun, FinishVerify,
         FinishRollback, RecordDryRun, PersistVerify, PersistRollback, storeVars
<1> QED BY <1>1, <1>2, <1>3, <1>4, <1>5, <1>6, <1>7 DEF Progress

(* A run that was created stays, with its plan and its key. *)
LEMMA UsedRunsStay ==
  ASSUME TypeOK, [Next]_vars, NEW r \in RunIds, runs[r].status # "unused"
  PROVE  /\ runs'[r].status # "unused"
         /\ runs'[r].plan = runs[r].plan /\ runs'[r].key = runs[r].key
<1>1. CASE runs'[r] = runs[r]
  BY <1>1
<1>2. CASE runs'[r] # runs[r]
  BY <1>2, RunMoves DEF Outcome
<1> QED BY <1>1, <1>2

-----------------------------------------------------------------------------
(* The evidence of runs.                                                   *)
LEMMA HandlersFreshStep ==
  ASSUME TypeOK, HandlersSane, HandlersFresh, [Next]_vars
  PROVE  HandlersFresh'
<1> DEFINE Good(d) ==
      /\ clients'[d].pc \in {"idle", "gated"} =>
           /\ clients'[d].step = 1 /\ ~clients'[d].halted
           /\ clients'[d].run = NoRun /\ clients'[d].reply = "none"
      /\ clients'[d].op # "apply" => clients'[d].run = NoRun
      /\ clients'[d].pc = "recording" => ~clients'[d].halted
<1>1. \A d \in Clients : clients'[d] = clients[d] => Good(d)
  BY DEF HandlersFresh
<1>2. ASSUME NEW c \in Clients, Requests(c) PROVE Good(c)
  BY <1>2, Requested DEF HandlersFresh
<1>3. ASSUME NEW c \in Clients, Progress(c) PROVE Good(c)
  <2>1. CASE Ends(c)
    BY <2>1, EndFields DEF HandlersFresh, Keeps
  <2>2. CASE RunStep(c)
    BY <2>2, RunFields DEF HandlersFresh, Keeps
  <2>3. ASSUME NEW refused \in BOOLEAN, Records(c, refused) PROVE Good(c)
    BY <2>3, RecordFields DEF HandlersFresh, Keeps
  <2>4. CASE RecordStep(c) \/ SkipStep(c)
    BY <2>3, <2>4 DEF Records
  <2>5. CASE UndoStep(c)
    BY <2>5, UndoFields DEF HandlersFresh, Keeps
  <2>6. ASSUME NEW r \in RunIds, ClaimGranted(c, r) \/ ClaimDuplicate(c, r) PROVE Good(c)
    BY <2>6, ClaimFields DEF HandlersFresh, Keeps
  <2> QED BY <1>3, <2>1, <2>2, <2>4, <2>5, <2>6, ProgressKinds
<1>4. ASSUME Crash, NEW d \in Clients PROVE Good(d)
  <2>1. clients'[d] = IF Busy(d) THEN [clients[d] EXCEPT !.pc = "lost"] ELSE clients[d]
    BY <1>4 DEF Crash
  <2>2. [clients[d] EXCEPT !.pc = "lost"].op = clients[d].op
        /\ [clients[d] EXCEPT !.pc = "lost"].run = clients[d].run
        /\ [clients[d] EXCEPT !.pc = "lost"].pc = "lost"
    BY DEF TypeOK, Client
  <2> QED BY <1>1, <2>1, <2>2 DEF HandlersFresh
<1>5. ASSUME UNCHANGED vars \/ Reviews, NEW d \in Clients PROVE Good(d)
  <2>1. clients' = clients
    BY <1>5 DEF vars, Reviews, CreatePlan, ApprovePlan, RejectPlan
  <2> QED BY <1>1, <2>1
<1> HIDE DEF Good
<1>6. \A d \in Clients : Good(d)
  BY <1>1, <1>2, <1>3, <1>4, <1>5, OneMoves
<1> QED BY <1>6 DEF HandlersFresh, Good

(* Evidence changes by the records of handlers only. *)
LEMMA EvidenceMoves ==
  ASSUME TypeOK, [Next]_vars
  PROVE  UNCHANGED evidence \/ \E c \in Clients, refused \in BOOLEAN : Records(c, refused)
<1>1. ASSUME NEW c \in Clients, Requests(c) PROVE UNCHANGED evidence
  BY <1>1, Requested DEF storeVars
<1>2. ASSUME NEW c \in Clients, Progress(c)
      PROVE  UNCHANGED evidence \/ \E refused \in BOOLEAN : Records(c, refused)
  <2>1. CASE RecordStep(c) \/ SkipStep(c)
    <3>1. Records(c, FALSE) \/ Records(c, TRUE)
      BY <2>1 DEF Records
    <3> QED BY <3>1
  <2>2. CASE Ends(c) \/ RunStep(c) \/ UndoStep(c)
    BY <2>2, EndFields, RunFields, UndoFields DEF storeVars
  <2>3. ASSUME NEW r \in RunIds, ClaimGranted(c, r) \/ ClaimDuplicate(c, r)
        PROVE  UNCHANGED evidence
    BY <2>3, ClaimFields
  <2> QED BY <1>2, <2>1, <2>2, <2>3, ProgressKinds
<1>3. CASE UNCHANGED vars \/ Reviews \/ Crash
  BY <1>3 DEF vars, Reviews, CreatePlan, ApprovePlan, RejectPlan, Create, Approve, Reject,
              Crash, storeVars
<1> QED BY <1>1, <1>2, <1>3, OneMoves

LEMMA RecordPut ==
  ASSUME IInv, HandlersFresh, NEW c \in Clients, NEW refused \in BOOLEAN, Records(c, refused)
  PROVE  /\ evidence \in Seq(Evidence) /\ EvidenceCap \in Nat \ {0}
         /\ RecordOf(c, refused) \in Evidence
         /\ Range(evidence') \subseteq Range(evidence) \cup {RecordOf(c, refused)}
         /\ Len(evidence') < EvidenceCap =>
              /\ Len(evidence) < EvidenceCap
              /\ Range(evidence') = Range(evidence) \cup {RecordOf(c, refused)}
<1>1. evidence \in Seq(Evidence) /\ EvidenceCap \in Nat \ {0}
  BY PlanStoreAssumptions DEF IInv, TypeOK, StoreTypeOK
<1>2. clients[c].pc \in {"executing", "recording"}
  BY RecordFields DEF IInv
<1>3. clients[c] \in Client /\ clients[c].plan \in Plans
  BY <1>2 DEF IInv, TypeOK, HandlersSane, Sane
<1> DEFINE e == RecordOf(c, refused)
<1>4. e \in Evidence
  BY <1>3 DEF RecordOf, Evidence, Client, ActionOutcomes
<1>5. evidence' = Trim(Append(evidence, e), EvidenceCap)
  BY RecordFields DEF IInv
<1> HIDE DEF e
<1>6. Range(evidence') \subseteq Range(evidence) \cup {e}
  BY <1>1, <1>4, <1>5, LoggedEntries
<1>7. Len(evidence') < EvidenceCap =>
        Len(evidence) < EvidenceCap /\ Range(evidence') = Range(evidence) \cup {e}
  BY <1>1, <1>4, <1>5, NothingTrimmed
<1> QED BY <1>1, <1>4, <1>6, <1>7 DEF e

(* What a handler at work did: it goes on with what it had, it put a       *)
(* record, or it was granted its claim just now.                           *)
LEMMA WorkerMoves ==
  ASSUME IInv, HandlersFresh, [Next]_vars, NEW c \in Clients, Working(c)'
  PROVE  \/ /\ Working(c)
            /\ clients'[c].run = clients[c].run /\ clients'[c].plan = clients[c].plan
            /\ clients'[c].step = clients[c].step /\ clients'[c].halted = clients[c].halted
         \/ Working(c) /\ \E refused \in BOOLEAN : Records(c, refused)
         \/ /\ \E r \in RunIds : /\ ClaimGranted(c, r) /\ clients'[c].run = r
                                 /\ runs[r].status = "unused"
            /\ clients'[c].step = 1 /\ ~clients'[c].halted
<1>0. TypeOK /\ HandlersSane
  BY DEF IInv
<1>1. CASE \E r \in RunIds : ClaimGranted(c, r)
  <2>1. PICK r \in RunIds : ClaimGranted(c, r)
    BY <1>1
  <2>2. runs[r].status = "unused"
    BY <2>1 DEF ClaimGranted, GrantClaim
  <2> QED BY <1>0, <2>1, <2>2, ClaimFields DEF HandlersFresh
<1>2. CASE \A r \in RunIds : ~ClaimGranted(c, r)
  <2>1. Working(c) /\ clients'[c].plan = clients[c].plan
    BY <1>0, <1>2, WorkComesFromClaims
  <2>2. CASE clients'[c] = clients[c]
    BY <2>1, <2>2
  <2>3. CASE Progress(c)
    <3>1. CASE Ends(c)
      BY <1>0, <3>1, EndFields DEF Working
    <3>2. CASE RunStep(c)
      BY <1>0, <2>1, <3>2, RunFields
    <3>3. CASE RecordStep(c) \/ SkipStep(c)
      <4>1. Records(c, FALSE) \/ Records(c, TRUE)
        BY <3>3 DEF Records
      <4> QED BY <2>1, <4>1
    <3>4. CASE UndoStep(c)
      BY <2>1, <3>4 DEF UndoStep, At, Working
    <3>5. ASSUME NEW r \in RunIds, ClaimDuplicate(c, r) PROVE FALSE
      BY <2>1, <3>5 DEF ClaimDuplicate, At, Working
    <3> QED BY <1>2, <2>3, <3>1, <3>2, <3>3, <3>4, <3>5, ProgressKinds
  <2>4. CASE Requests(c)
    BY <1>0, <2>1, <2>4, Requested DEF Working
  <2>5. CASE Crash
    <3>1. clients'[c] = IF Busy(c) THEN [clients[c] EXCEPT !.pc = "lost"] ELSE clients[c]
      BY <2>5 DEF Crash
    <3>2. [clients[c] EXCEPT !.pc = "lost"].pc = "lost"
      BY <1>0 DEF TypeOK, Client
    <3> QED BY <2>1, <3>1, <3>2 DEF Working
  <2>6. CASE UNCHANGED vars \/ Reviews
    BY <2>1, <2>6 DEF vars, Reviews, CreatePlan, ApprovePlan, RejectPlan
  <2> QED BY <1>0, <2>2, <2>3, <2>4, <2>5, <2>6, OneMoves
<1> QED BY <1>1, <1>2

(* A handler at work has its run to itself, and a dry run has none. *)
LEMMA RunIsOwn ==
  ASSUME IInv, HandlersFresh, NEW c \in Clients, Working(c)
  PROVE  /\ clients[c].run \in RunIds /\ clients[c].run # NoRun
         /\ runs[clients[c].run].status = "running"
         /\ runs[clients[c].run].plan = clients[c].plan
         /\ \A d \in Clients \ {c}, refused \in BOOLEAN :
              Records(d, refused) => RecordOf(d, refused).run # clients[c].run
<1>1. /\ clients[c].run \in RunIds /\ clients[c].run # NoRun
      /\ runs[clients[c].run].status = "running"
      /\ runs[clients[c].run].plan = clients[c].plan
  BY PlanStoreAssumptions DEF IInv, WorkersOwnRuns
<1>2. ASSUME NEW d \in Clients \ {c}, NEW refused \in BOOLEAN, Records(d, refused)
      PROVE  RecordOf(d, refused).run # clients[c].run
  <2>1. RecordOf(d, refused).run = clients[d].run
    BY DEF RecordOf
  <2>2. CASE clients[d].op = "apply"
    <3>1. Working(d)
      BY <1>2, <2>2, RecordFields DEF Working, IInv
    <3> QED BY <2>1, <3>1 DEF IInv, WorkersOwnRuns
  <2>3. CASE clients[d].op # "apply"
    BY <1>1, <2>1, <2>3 DEF HandlersFresh
  <2> QED BY <2>2, <2>3
<1> QED BY <1>1, <1>2

LEMMA RecordsTyped ==
  ASSUME TypeOK, NEW e \in Range(evidence)
  PROVE  /\ e.run \in RunIds \cup {NoRun} /\ e.step \in Nat /\ e.plan \in Plans
         /\ e.status \in ActionOutcomes
<1>1. e \in Evidence
  BY EntriesTyped DEF TypeOK, StoreTypeOK
<1> QED BY <1>1 DEF Evidence

LEMMA OwnRecordsStep ==
  ASSUME IInv, HandlersFresh, OwnRecords, [Next]_vars
  PROVE  OwnRecords'
<1>0. TypeOK /\ evidence \in Seq(Evidence)
  BY DEF IInv, TypeOK, StoreTypeOK
<1>1. ASSUME NEW e \in Range(evidence), e.run # NoRun
      PROVE  runs[e.run].status # "unused" /\ runs'[e.run].status # "unused"
  <2>1. e.run \in RunIds
    BY <1>1, RecordsTyped DEF IInv
  <2> QED BY <1>0, <1>1, <2>1, UsedRunsStay DEF OwnRecords
<1>2. CASE UNCHANGED evidence
  <2>1. ASSUME NEW c \in Clients, Working(c)', NEW e \in Range(evidence),
               e.run = clients'[c].run
        PROVE  e.step < clients'[c].step /\ (Halts(e) => clients'[c].halted)
    <3>1. CASE Working(c) /\ \E refused \in BOOLEAN : Records(c, refused)
      <4>1. PICK refused \in BOOLEAN : Records(c, refused)
        BY <3>1
      <4>2. /\ clients'[c].run = clients[c].run /\ clients'[c].step = clients[c].step + 1
            /\ clients[c].halted => clients'[c].halted
        BY <1>0, <4>1, RecordFields DEF Halts, RecordOf
      <4>3. e.step < clients[c].step /\ (Halts(e) => clients[c].halted)
        BY <2>1, <3>1, <4>2 DEF OwnRecords
      <4>4. e.step \in Nat /\ clients[c].step \in Nat
        BY <1>0, RecordsTyped DEF TypeOK, Client
      <4> QED BY <4>2, <4>3, <4>4
    <3>2. CASE /\ Working(c)
               /\ clients'[c].run = clients[c].run /\ clients'[c].plan = clients[c].plan
               /\ clients'[c].step = clients[c].step /\ clients'[c].halted = clients[c].halted
      BY <2>1, <3>2 DEF OwnRecords
    <3>3. ASSUME NEW r \in RunIds, clients'[c].run = r, runs[r].status = "unused" PROVE FALSE
      BY <1>1, <2>1, <3>3, PlanStoreAssumptions
    <3> QED BY <2>1, <3>1, <3>2, <3>3, WorkerMoves
  <2> QED BY <1>1, <1>2, <2>1 DEF OwnRecords, Working
<1>3. ASSUME NEW d \in Clients, NEW refused \in BOOLEAN, Records(d, refused)
      PROVE  OwnRecords'
  <2> DEFINE new == RecordOf(d, refused)
  <2>1. Range(evidence') \subseteq Range(evidence) \cup {new}
    BY <1>3, RecordPut
  <2>2. /\ new.run = clients[d].run /\ new.step = clients[d].step
    BY DEF RecordOf
  <2>3. /\ clients'[d].run = clients[d].run /\ clients'[d].step = clients[d].step + 1
        /\ clients'[d].halted <=> Halts(new)
        /\ clients[d].halted <=> refused
        /\ refused => Halts(new)
        /\ UNCHANGED runs
        /\ clients[d].pc \in {"executing", "recording"}
        /\ clients'[d].op = clients[d].op
    BY <1>0, <1>3, RecordFields DEF Halts, RecordOf, Keeps
  <2>4. clients[d].step \in Nat /\ new.run # NoRun => Working(d)
    BY <1>0, <2>2, <2>3 DEF TypeOK, Client, Working, HandlersFresh
  <2> HIDE DEF new
  <2>5. ASSUME NEW e \in Range(evidence'), e.run # NoRun PROVE runs'[e.run].status # "unused"
    <3>1. CASE e \in Range(evidence)
      BY <1>1, <2>5, <3>1
    <3>2. CASE e = new
      <4>1. Working(d)
        BY <1>0, <2>4, <2>5, <3>2 DEF TypeOK, Client
      <4> QED BY <2>2, <2>3, <3>2, <4>1, RunIsOwn
    <3> QED BY <2>1, <3>1, <3>2
  <2>6. ASSUME NEW c \in Clients, Working(c)', NEW e \in Range(evidence'), e.run = clients'[c].run
        PROVE  e.step < clients'[c].step /\ (Halts(e) => clients'[c].halted)
    <3>1. CASE c = d
      <4>1. Working(d)
        BY <2>3, <2>6, <3>1 DEF Working
      <4>2. CASE e = new
        <5>1. clients[d].step \in Nat
          BY <1>0 DEF TypeOK, Client
        <5> QED BY <2>2, <2>3, <3>1, <4>2, <5>1
      <4>3. CASE e \in Range(evidence)
        <5>1. e.step < clients[d].step /\ (Halts(e) => clients[d].halted)
          BY <2>3, <2>6, <3>1, <4>1, <4>3 DEF OwnRecords
        <5>2. e.step \in Nat /\ clients[d].step \in Nat
          BY <1>0, <4>3, RecordsTyped DEF TypeOK, Client
        <5> QED BY <2>3, <3>1, <5>1, <5>2
      <4> QED BY <2>1, <4>2, <4>3
    <3>2. CASE c # d
      <4>1. clients'[c] = clients[c]
        <5>1. clients' = [clients EXCEPT ![d] = clients'[d]]
          BY <1>0, <1>3 DEF Records, SkipStep, RecordStep, TypeOK
        <5> QED BY <1>0, <3>2, <5>1 DEF TypeOK
      <4>2. Working(c)
        BY <2>6, <4>1 DEF Working
      <4>3. new.run # clients[c].run
        BY <1>3, <3>2, <4>2, RunIsOwn DEF new
      <4>4. e \in Range(evidence)
        BY <2>1, <2>6, <4>1, <4>3
      <4> QED BY <2>6, <4>1, <4>2, <4>4 DEF OwnRecords
    <3> QED BY <3>1, <3>2
  <2> QED BY <2>5, <2>6 DEF OwnRecords, Working
<1> QED BY <1>0, <1>2, <1>3, EvidenceMoves

LEMMA FollowsIs == EvidenceFollowsPlan <=> Follows(evidence)
BY DEF EvidenceFollowsPlan, Follows, Halts

LEMMA FollowsStep ==
  ASSUME IInv, HandlersFresh, OwnRecords, EvidenceFollowsPlan, [Next]_vars
  PROVE  Follows(evidence')
<1>0. TypeOK /\ Follows(evidence)
  BY FollowsIs DEF IInv
<1>1. CASE UNCHANGED evidence
  BY <1>0, <1>1
<1>2. ASSUME NEW d \in Clients, NEW refused \in BOOLEAN, Records(d, refused)
      PROVE  Follows(evidence')
  <2> DEFINE new == RecordOf(d, refused)
  <2>1. /\ evidence \in Seq(Evidence) /\ EvidenceCap \in Nat \ {0} /\ new \in Evidence
        /\ evidence' = Trim(Append(evidence, new), EvidenceCap)
    BY <1>0, <1>2, RecordPut, RecordFields
  <2>2. /\ new.run = clients[d].run /\ new.step = clients[d].step /\ new.refused = refused
    BY DEF RecordOf
  <2>3. /\ clients[d].pc \in {"executing", "recording"}
        /\ clients[d].halted <=> refused
    BY <1>0, <1>2, RecordFields
  <2> HIDE DEF new
  <2>4. ASSUME new.run # NoRun, NEW old \in Range(evidence), old.run = new.run
        PROVE  old.step < new.step /\ (Halts(old) => new.refused)
    <3>1. Working(d)
      BY <2>2, <2>3, <2>4 DEF Working, HandlersFresh
    <3> QED BY <2>2, <2>3, <2>4, <3>1 DEF OwnRecords
  <2> QED BY <1>0, <2>1, <2>4, FollowsAppended
<1> QED BY <1>0, <1>1, <1>2, EvidenceMoves

LEMMA EvidenceGrows ==
  ASSUME IInv, HandlersFresh, [Next]_vars, Len(evidence') < EvidenceCap
  PROVE  Len(evidence) < EvidenceCap /\ Range(evidence) \subseteq Range(evidence')
<1>1. CASE UNCHANGED evidence
  BY <1>1
<1>2. ASSUME NEW d \in Clients, NEW refused \in BOOLEAN, Records(d, refused)
      PROVE  Len(evidence) < EvidenceCap /\ Range(evidence) \subseteq Range(evidence')
  BY <1>2, RecordPut
<1> QED BY <1>1, <1>2, EvidenceMoves DEF IInv

LEMMA StepsAreEvidencedStep ==
  ASSUME IInv, HandlersFresh, StepsAreEvidenced, [Next]_vars
  PROVE  StepsAreEvidenced'
<1>0. TypeOK
  BY DEF IInv
<1>1. SUFFICES ASSUME Len(evidence') < EvidenceCap, NEW c \in Clients,
                      Working(c)', ~clients'[c].halted,
                      NEW i \in 1..NumSteps(clients'[c].plan), i < clients'[c].step
               PROVE  \E e \in Range(evidence') : e.run = clients'[c].run /\ e.step = i /\ ~Halts(e)
  BY DEF StepsAreEvidenced, GotThrough, Working, NumSteps, Halts
<1>2. Len(evidence) < EvidenceCap /\ Range(evidence) \subseteq Range(evidence')
  BY <1>1, EvidenceGrows
<1>3. CASE /\ Working(c)
           /\ clients'[c].run = clients[c].run /\ clients'[c].plan = clients[c].plan
           /\ clients'[c].step = clients[c].step /\ clients'[c].halted = clients[c].halted
  <2>1. GotThrough(clients[c].run, i)
    BY <1>1, <1>2, <1>3 DEF StepsAreEvidenced
  <2> QED BY <1>2, <1>3, <2>1 DEF GotThrough
<1>4. ASSUME Working(c), NEW refused \in BOOLEAN, Records(c, refused)
      PROVE  \E e \in Range(evidence') : e.run = clients'[c].run /\ e.step = i /\ ~Halts(e)
  <2> DEFINE new == RecordOf(c, refused)
  <2>1. new \in Range(evidence')
    BY <1>1, <1>4, RecordPut
  <2>2. /\ clients'[c].run = clients[c].run /\ clients'[c].plan = clients[c].plan
        /\ clients'[c].step = clients[c].step + 1
        /\ clients'[c].halted <=> Halts(new)
        /\ clients[c].halted <=> refused
        /\ refused => Halts(new)
        /\ new.run = clients[c].run /\ new.step = clients[c].step
    BY <1>0, <1>4, RecordFields DEF Halts, RecordOf, Keeps
  <2> HIDE DEF new
  <2>3. CASE i = clients[c].step
    BY <1>1, <2>1, <2>2, <2>3
  <2>4. CASE i # clients[c].step
    <3>1. i < clients[c].step
      BY <1>0, <1>1, <2>2, <2>4 DEF TypeOK, Client
    <3>2. GotThrough(clients[c].run, i)
      BY <1>1, <1>2, <1>4, <2>2, <3>1 DEF StepsAreEvidenced
    <3> QED BY <1>2, <2>2, <3>2 DEF GotThrough
  <2> QED BY <2>3, <2>4
<1>5. ~(clients'[c].step = 1)
  BY <1>1
<1> QED BY <1>1, <1>3, <1>4, <1>5, WorkerMoves

LEMMA SuccessStep ==
  ASSUME IInv, HandlersFresh, StepsAreEvidenced, SuccessIsEvidenced, [Next]_vars
  PROVE  SuccessIsEvidenced'
<1>0. TypeOK
  BY DEF IInv
<1>1. SUFFICES ASSUME Len(evidence') < EvidenceCap, NEW r \in RunIds,
                      runs'[r].status = "succeeded",
                      NEW i \in 1..NumSteps(runs'[r].plan)
               PROVE  \E e \in Range(evidence') :
                        e.run = r /\ e.step = i /\ e.status \notin HaltingOutcomes /\ ~e.refused
  BY DEF SuccessIsEvidenced, NumSteps
<1>2. Len(evidence) < EvidenceCap /\ Range(evidence) \subseteq Range(evidence')
  BY <1>1, EvidenceGrows
<1>3. CASE runs[r].status = "succeeded"
  <2>1. runs'[r].plan = runs[r].plan
    BY <1>0, <1>3, UsedRunsStay
  <2> QED BY <1>1, <1>2, <1>3, <2>1 DEF SuccessIsEvidenced
<1>4. CASE runs[r].status # "succeeded"
  <2>1. PICK c \in Clients :
          /\ FinishApply(c) /\ clients[c].run = r
          /\ Outcome(r, IF clients[c].halted THEN "failed" ELSE "succeeded")
    BY <1>0, <1>1, <1>4, RunMoves DEF Outcome
  <2>2. ~clients[c].halted /\ runs'[r].plan = runs[r].plan
    BY <1>1, <2>1 DEF Outcome
  <2>3. Working(c) /\ clients[c].step > NumSteps(clients[c].plan)
    BY <2>1 DEF FinishApply, Executed, Working
  <2>4. runs[r].plan = clients[c].plan
    BY <2>1, <2>3, RunIsOwn
  <2>5. i < clients[c].step /\ i \in 1..NumSteps(clients[c].plan)
    <3>1. clients[c].step \in Nat /\ clients[c].plan \in Plans
      BY <1>0, <2>3 DEF TypeOK, Client, Working, IInv, HandlersSane, Sane
    <3>2. NumSteps(clients[c].plan) \in Nat
      BY <3>1, PlanStoreAssumptions DEF NumSteps
    <3> QED BY <1>1, <2>2, <2>3, <2>4, <3>1, <3>2
  <2>6. GotThrough(r, i)
    BY <1>2, <2>1, <2>2, <2>3, <2>5 DEF StepsAreEvidenced
  <2> QED BY <1>2, <2>6 DEF GotThrough, Halts
<1> QED BY <1>3, <1>4

(* How far each run came and whether it got through is what its records    *)
(* say: they are in the order of the plan, after one that did not complete *)
(* there are refusals only, and a success has one for every action         *)
(* (executeEnvironmentPlan, appendActionRunRecord).                        *)
THEOREM EvidenceTellsTheRunAlways == Spec => []EvidenceTellsTheRun
<1>1. Init => EvidenceInv
  BY DEF Init, StoreInit, EvidenceInv, HandlersFresh, OwnRecords, EvidenceTellsTheRun,
         EvidenceFollowsPlan, SuccessIsEvidenced, StepsAreEvidenced, Working, IdleClient,
         UnusedRun, Range
<1>2. IInv /\ EvidenceInv /\ [Next]_vars => EvidenceInv'
  <2> SUFFICES ASSUME IInv, EvidenceInv, [Next]_vars PROVE EvidenceInv'
    OBVIOUS
  <2>1. HandlersFresh' /\ OwnRecords' /\ StepsAreEvidenced' /\ SuccessIsEvidenced'
    BY HandlersFreshStep, OwnRecordsStep, StepsAreEvidencedStep, SuccessStep
       DEF EvidenceInv, EvidenceTellsTheRun, IInv
  <2>2. Follows(evidence')
    BY FollowsStep DEF EvidenceInv, EvidenceTellsTheRun
  <2>3. EvidenceFollowsPlan'
    BY <2>2 DEF EvidenceFollowsPlan, Follows, Halts
  <2> QED BY <2>1, <2>3 DEF EvidenceInv, EvidenceTellsTheRun
<1>3. EvidenceInv => EvidenceTellsTheRun
  BY DEF EvidenceInv
<1> QED BY <1>1, <1>2, <1>3, Invariant, PTL DEF Spec

-----------------------------------------------------------------------------
-----------------------------------------------------------------------------
(* What a run of an action may change on the host.                         *)
LEMMA IdleRuns ==
  ASSUME NEW kind, NEW dry \in BOOLEAN, NEW t, NEW run \in RunsOf(kind, dry, t),
         dry \/ kind = "passive"
  PROVE  run.host = t
<1>1. CASE kind = "detectOnly"
  BY <1>1 DEF RunsOf
<1>2. CASE kind # "detectOnly"
  BY <1>2 DEF RunsOf
<1> QED BY <1>1, <1>2

LEMMA SkippedRuns ==
  ASSUME NEW kind, NEW t, NEW run \in RunsOf(kind, FALSE, t), run.outcome = "skipped"
  PROVE  kind = "passive"
<1> SUFFICES ASSUME kind # "passive" PROVE FALSE
  OBVIOUS
<1>1. CASE kind = "detectOnly"
  BY <1>1 DEF RunsOf
<1>2. CASE kind # "detectOnly"
  <2>1. \/ run = [outcome |-> "failed", host |-> t]
        \/ \E h \in Applied(kind, t) : run = [outcome |-> "succeeded", host |-> h]
        \/ \E h \in Applied(kind, t) \cup Stopped(kind, t) :
             run \in IF kind \in Revertible THEN Rollbacks(kind, t, h)
                     ELSE {[outcome |-> "failed", host |-> h]}
    BY <1>2 DEF RunsOf
  <2>2. ASSUME NEW h, run \in Rollbacks(kind, t, h)
        PROVE  run.outcome \in {"rolled-back", "rollback-failed"}
    BY <2>2 DEF Rollbacks
  <2>3. ASSUME NEW h, run \in IF kind \in Revertible THEN Rollbacks(kind, t, h)
                              ELSE {[outcome |-> "failed", host |-> h]}
        PROVE  FALSE
    <3>1. CASE kind \in Revertible
      BY <2>2, <2>3, <3>1
    <3>2. CASE kind \notin Revertible
      BY <2>3, <3>2
    <3> QED BY <3>1, <3>2
  <2> QED BY <2>1, <2>3
<1> QED BY <1>1, <1>2

(* An action that has nothing to apply changes nothing, and only such an   *)
(* action is skipped.                                                      *)
NothingToApply ==
  /\ \A p \in Plans : \A i \in 1..NumSteps(p) :
       Steps[p][i] = "passive" => target[p][i].content = Before[p][i]
  /\ \A c \in Clients : At(c, "apply", "recording") /\ clients[c].outcome = "skipped" =>
       Steps[clients[c].plan][clients[c].step] = "passive"

(* A rollback goes by records that are there. *)
PendingIsEvidenced ==
  Len(evidence) < EvidenceCap =>
    \A c \in Clients : At(c, "rollback", "undoing") =>
      \A i \in clients[c].pending :
        \E e \in RealEvidence(clients[c].plan) : e.step = i /\ e.status = "succeeded"

EffectsInv ==
  HandlersFresh /\ NothingToApply /\ PendingIsEvidenced /\ EffectsAreEvidenced

(* What a step does to an entry of the host.                               *)
LEMMA RunEffect ==
  ASSUME TypeOK, HandlersSane, NEW c \in Clients, RunStep(c)
  PROVE  LET p == clients[c].plan
             i == clients[c].step
             kind == Steps[p][i] IN
         /\ \A q \in Plans : \A j \in 1..NumSteps(q) :
              q # p \/ j # i => target'[q][j] = target[q][j]
         /\ clients[c].op = "dryRun" \/ kind = "passive" => target'[p][i] = target[p][i]
         /\ clients[c].op = "apply" /\ clients'[c].outcome = "skipped" => kind = "passive"
<1> DEFINE p == clients[c].plan
           i == clients[c].step
           kind == Steps[p][i]
           dry == clients[c].op = "dryRun"
<1>1. p \in Plans /\ i \in 1..NumSteps(p)
  BY PlanStoreAssumptions DEF RunStep, HandlersSane, Sane, TypeOK, Client, NumSteps
<1>2. PICK run \in RunsOf(kind, dry, target[p][i]) :
        /\ clients' = [clients EXCEPT ![c] =
             [@ EXCEPT !.pc = "recording", !.outcome = run.outcome]]
        /\ target' = [target EXCEPT ![p][i] = run.host]
  BY DEF RunStep
<1>3. clients'[c].outcome = run.outcome
  BY <1>2 DEF TypeOK, Client
<1>4. dry \/ kind = "passive" => run.host = target[p][i]
  BY <1>2, IdleRuns
<1>5. clients[c].op = "apply" => dry = FALSE
  OBVIOUS
<1>6. clients[c].op = "apply" /\ run.outcome = "skipped" => kind = "passive"
  BY <1>2, <1>5, SkippedRuns
<1> HIDE DEF p, i, kind, dry
<1>7. /\ \A q \in Plans : \A j \in 1..NumSteps(q) :
           q # p \/ j # i => target'[q][j] = target[q][j]
      /\ target'[p][i] = run.host
  BY <1>1, <1>2 DEF TypeOK
<1> QED BY <1>3, <1>4, <1>6, <1>7 DEF p, i, kind, dry

LEMMA UndoEffect ==
  ASSUME TypeOK, HandlersSane, NEW c \in Clients, UndoStep(c)
  PROVE  \E i \in clients[c].pending :
           /\ i \in 1..NumSteps(clients[c].plan)
           /\ \A q \in Plans : \A j \in 1..NumSteps(q) :
                q # clients[c].plan \/ j # i => target'[q][j] = target[q][j]
           /\ Steps[clients[c].plan][i] = "passive" =>
                target'[clients[c].plan][i] = target[clients[c].plan][i]
<1> DEFINE p == clients[c].plan
           i == Max(clients[c].pending)
<1>1. /\ p \in Plans /\ NumSteps(p) \in Nat /\ clients[c].pending # {}
      /\ clients[c].pending \subseteq 1..NumSteps(p)
  BY PlanStoreAssumptions DEF UndoStep, At, HandlersSane, Sane, NumSteps
<1>2. i \in clients[c].pending
  BY <1>1, MaxIsGreatest
<1>3. PICK undo \in Undone(Steps[p][i], target[p][i]) :
        target' = [target EXCEPT ![p][i] = undo.host]
  BY DEF UndoStep
<1>4. Steps[p][i] = "passive" => undo.host = target[p][i]
  BY <1>3 DEF Undone, Revertible
<1> HIDE DEF p, i
<1>5. i \in 1..NumSteps(p)
  BY <1>1, <1>2
<1>6. /\ \A q \in Plans : \A j \in 1..NumSteps(q) :
           q # p \/ j # i => target'[q][j] = target[q][j]
      /\ target'[p][i] = undo.host
  BY <1>1, <1>3, <1>5 DEF TypeOK
<1> QED BY <1>2, <1>4, <1>5, <1>6 DEF p
-----------------------------------------------------------------------------
(* How the effects on the host keep up with the evidence.                  *)
LEMMA HandlerSteps ==
  ASSUME TypeOK, [Next]_vars, NEW c \in Clients
  PROVE  \/ clients'[c] = clients[c] \/ Requests(c) \/ Progress(c)
         \/ /\ clients'[c].pc = "lost" /\ clients[c].pc # "done" /\ Keeps(c)
            /\ clients'[c].run = clients[c].run /\ clients'[c].reply = clients[c].reply
<1>1. CASE Crash
  <2>1. clients'[c] = IF Busy(c) THEN [clients[c] EXCEPT !.pc = "lost"] ELSE clients[c]
    BY <1>1 DEF Crash
  <2>2. CASE Busy(c)
    BY <2>1, <2>2 DEF TypeOK, Client, Keeps, Busy
  <2> QED BY <2>1, <2>2
<1>2. CASE UNCHANGED vars \/ Reviews
  BY <1>2 DEF vars, Reviews, CreatePlan, ApprovePlan, RejectPlan
<1> QED BY <1>1, <1>2, OneMoves

LEMMA HostMoves ==
  ASSUME TypeOK, [Next]_vars
  PROVE  UNCHANGED target \/ \E c \in Clients : RunStep(c) \/ UndoStep(c)
<1>1. ASSUME NEW c \in Clients, Progress(c)
      PROVE  UNCHANGED target \/ RunStep(c) \/ UndoStep(c)
  <2>1. CASE RecordStep(c) \/ SkipStep(c)
    BY <2>1 DEF RecordStep, SkipStep
  <2>2. CASE Ends(c)
    BY <2>2, EndFields
  <2>3. ASSUME NEW r \in RunIds, ClaimGranted(c, r) \/ ClaimDuplicate(c, r)
        PROVE  UNCHANGED target
    BY <2>3, ClaimFields
  <2> QED BY <1>1, <2>1, <2>2, <2>3, ProgressKinds
<1>2. ASSUME NEW c \in Clients, Requests(c) PROVE UNCHANGED target
  BY <1>2, Requested
<1>3. CASE UNCHANGED vars \/ Reviews \/ Crash
  BY <1>3 DEF vars, Reviews, CreatePlan, ApprovePlan, RejectPlan, Crash
<1> QED BY <1>1, <1>2, <1>3, OneMoves

(* Only running an action leads to its recording. *)
LEMMA RecordingMoves ==
  ASSUME TypeOK, HandlersFresh, [Next]_vars, NEW c \in Clients, clients'[c].pc = "recording"
  PROVE  clients'[c] = clients[c] \/ RunStep(c)
<1>1. CASE Requests(c)
  BY <1>1, Requested
<1>2. CASE Progress(c)
  <2>1. CASE RecordStep(c) \/ SkipStep(c)
    <3>1. Records(c, FALSE) \/ Records(c, TRUE)
      BY <2>1 DEF Records
    <3> QED BY <3>1, RecordFields
  <2>2. CASE Ends(c) \/ UndoStep(c)
    BY <2>2, EndFields, UndoFields
  <2>3. ASSUME NEW r \in RunIds, ClaimGranted(c, r) \/ ClaimDuplicate(c, r) PROVE FALSE
    BY <2>3, ClaimFields
  <2> QED BY <1>2, <2>1, <2>2, <2>3, ProgressKinds
<1> QED BY <1>1, <1>2, HandlerSteps

(* A handler that undoes got its list when it began. *)
LEMMA UndoingMoves ==
  ASSUME TypeOK, HandlersFresh, [Next]_vars, NEW c \in Clients, At(c, "rollback", "undoing")'
  PROVE  \/ /\ At(c, "rollback", "undoing") /\ clients'[c].plan = clients[c].plan
            /\ clients'[c].pending \subseteq clients[c].pending
         \/ /\ UNCHANGED evidence
            /\ clients'[c].pending = RevertibleSteps(clients'[c].plan)
<1>0. clients'[c].pc = "undoing" /\ clients'[c].op = "rollback"
  BY DEF At
<1>1. CASE clients'[c] = clients[c]
  BY <1>0, <1>1 DEF At
<1>2. CASE Requests(c)
  BY <1>0, <1>2, Requested DEF storeVars
<1>3. CASE Progress(c)
  <2>1. CASE RecordStep(c) \/ SkipStep(c)
    <3>1. Records(c, FALSE) \/ Records(c, TRUE)
      BY <2>1 DEF Records
    <3> QED BY <1>0, <3>1, RecordFields
  <2>2. CASE Ends(c) \/ RunStep(c)
    BY <1>0, <2>2, EndFields, RunFields
  <2>3. CASE UndoStep(c)
    BY <2>3, UndoFields DEF Keeps
  <2>4. ASSUME NEW r \in RunIds, ClaimGranted(c, r) \/ ClaimDuplicate(c, r) PROVE FALSE
    BY <1>0, <2>4, ClaimFields
  <2> QED BY <1>3, <2>1, <2>2, <2>3, <2>4, ProgressKinds
<1> QED BY <1>0, <1>1, <1>2, <1>3, HandlerSteps

LEMMA NothingToApplyStep ==
  ASSUME IInv, HandlersFresh, NothingToApply, [Next]_vars
  PROVE  NothingToApply'
<1>0. TypeOK /\ HandlersSane
  BY DEF IInv
<1>1. ASSUME NEW p \in Plans, NEW i \in 1..NumSteps(p), Steps[p][i] = "passive"
      PROVE  target'[p][i].content = Before[p][i]
  <2>0. target[p][i].content = Before[p][i]
    BY <1>1 DEF NothingToApply
  <2>1. CASE UNCHANGED target
    BY <2>0, <2>1
  <2>2. ASSUME NEW c \in Clients, RunStep(c) PROVE target'[p][i] = target[p][i]
    <3>1. CASE p = clients[c].plan /\ i = clients[c].step
      BY <1>0, <1>1, <2>2, <3>1, RunEffect
    <3>2. CASE p # clients[c].plan \/ i # clients[c].step
      BY <1>0, <2>2, <3>2, RunEffect
    <3> QED BY <3>1, <3>2
  <2>3. ASSUME NEW c \in Clients, UndoStep(c) PROVE target'[p][i] = target[p][i]
    <3>1. PICK j \in clients[c].pending :
            /\ \A q \in Plans : \A k \in 1..NumSteps(q) :
                 q # clients[c].plan \/ k # j => target'[q][k] = target[q][k]
            /\ Steps[clients[c].plan][j] = "passive" =>
                 target'[clients[c].plan][j] = target[clients[c].plan][j]
      BY <1>0, <2>3, UndoEffect
    <3>2. CASE p = clients[c].plan /\ i = j
      BY <1>1, <3>1, <3>2
    <3>3. CASE p # clients[c].plan \/ i # j
      BY <3>1, <3>3
    <3> QED BY <3>2, <3>3
  <2> QED BY <1>0, <2>0, <2>1, <2>2, <2>3, HostMoves
<1>2. ASSUME NEW c \in Clients, At(c, "apply", "recording")', clients'[c].outcome = "skipped"
      PROVE  Steps[clients'[c].plan][clients'[c].step] = "passive"
  <2>1. clients'[c].pc = "recording" /\ clients'[c].op = "apply"
    BY <1>2 DEF At
  <2>2. CASE clients'[c] = clients[c]
    BY <1>2, <2>1, <2>2 DEF NothingToApply, At
  <2>3. CASE RunStep(c)
    <3>1. /\ clients'[c].op = clients[c].op /\ clients'[c].plan = clients[c].plan
          /\ clients'[c].step = clients[c].step
      BY <1>0, <2>3, RunFields DEF Keeps
    <3> QED BY <1>0, <1>2, <2>1, <2>3, <3>1, RunEffect
  <2> QED BY <1>0, <2>1, <2>2, <2>3, RecordingMoves
<1>3. \A p \in Plans : \A i \in 1..NumSteps(p) :
        Steps[p][i] = "passive" => target'[p][i].content = Before[p][i]
  BY <1>1
<1> QED BY <1>2, <1>3 DEF NothingToApply, NumSteps, At

LEMMA RealEvidenceGrows ==
  ASSUME IInv, HandlersFresh, [Next]_vars, Len(evidence') < EvidenceCap,
         NEW p, NEW e \in RealEvidence(p)
  PROVE  e \in Range(evidence') /\ e.plan = p /\ ~e.dry
BY EvidenceGrows DEF RealEvidence

LEMMA PendingStep ==
  ASSUME IInv, HandlersFresh, PendingIsEvidenced, [Next]_vars
  PROVE  PendingIsEvidenced'
<1>1. SUFFICES ASSUME Len(evidence') < EvidenceCap, NEW c \in Clients,
                      At(c, "rollback", "undoing")', NEW i \in clients'[c].pending
               PROVE  \E e \in Range(evidence') :
                        e.plan = clients'[c].plan /\ ~e.dry /\ e.step = i /\ e.status = "succeeded"
  BY DEF PendingIsEvidenced, RealEvidence, At
<1>2. Len(evidence) < EvidenceCap
  BY <1>1, EvidenceGrows
<1>3. CASE /\ At(c, "rollback", "undoing") /\ clients'[c].plan = clients[c].plan
           /\ clients'[c].pending \subseteq clients[c].pending
  <2>1. PICK e \in RealEvidence(clients[c].plan) : e.step = i /\ e.status = "succeeded"
    BY <1>1, <1>2, <1>3 DEF PendingIsEvidenced
  <2> QED BY <1>1, <1>3, <2>1, RealEvidenceGrows
<1>4. CASE UNCHANGED evidence /\ clients'[c].pending = RevertibleSteps(clients'[c].plan)
  BY <1>1, <1>4 DEF RevertibleSteps, RealEvidence
<1> QED BY <1>1, <1>3, <1>4, UndoingMoves DEF IInv
(* A change that was waiting for its record has it, or goes on waiting. *)
LEMMA RecordingStays ==
  ASSUME IInv, HandlersFresh, NothingToApply, [Next]_vars, crashes' = 0,
         Len(evidence') < EvidenceCap,
         NEW c \in Clients, At(c, "apply", "recording"),
         Steps[clients[c].plan][clients[c].step] # "passive"
  PROVE  \/ clients'[c] = clients[c]
         \/ \E e \in Range(evidence') :
              /\ e.plan = clients[c].plan /\ e.step = clients[c].step
              /\ ~e.dry /\ e.status # "skipped"
<1>0. TypeOK /\ clients[c].pc = "recording" /\ clients[c].op = "apply"
  BY DEF IInv, At
<1>1. ~Requests(c)
  BY <1>0, Requested
<1>2. CASE Progress(c)
  <2>1. RecordStep(c)
    BY <1>0, <1>2 DEF Progress, ClaimGranted, ClaimDuplicate, ClaimTurnedAway, Replay,
       ExecutionThrows, RunStep, SkipStep, Executed, FinishApply, FinishDryRun, FinishVerify,
       UndoStep, FinishRollback, TargetUnreachable, At
  <2>2. RecordOf(c, FALSE) \in Range(evidence')
    BY <2>1, RecordPut DEF Records
  <2>3. clients[c].outcome # "skipped"
    BY DEF NothingToApply
  <2>4. /\ RecordOf(c, FALSE).plan = clients[c].plan /\ RecordOf(c, FALSE).step = clients[c].step
        /\ ~RecordOf(c, FALSE).dry /\ RecordOf(c, FALSE).status = clients[c].outcome
    BY <1>0 DEF RecordOf
  <2> QED BY <2>2, <2>3, <2>4
<1>3. CASE clients'[c].pc = "lost" /\ ~Progress(c)
  <2>1. crashes \in Nat
    BY <1>0, PlanApplyAssumptions DEF TypeOK
  <2>2. ~Crash
    BY <2>1 DEF Crash
  <2>3. UNCHANGED clients \/ clients'[c] = clients[c]
    BY <1>0, <1>1, <1>3, <2>2, OneMoves
       DEF vars, Reviews, CreatePlan, ApprovePlan, RejectPlan
  <2> QED BY <2>3
<1> QED BY <1>0, <1>1, <1>2, <1>3, HandlerSteps

LEMMA EffectsStep ==
  ASSUME IInv, EffectsInv, [Next]_vars
  PROVE  EffectsAreEvidenced'
<1>0. TypeOK /\ HandlersSane /\ HandlersFresh
  BY DEF IInv, EffectsInv
<1> DEFINE Known(p, i) ==
      \/ \E e \in Range(evidence') : e.plan = p /\ ~e.dry /\ e.step = i /\ e.status # "skipped"
      \/ \E c \in Clients : /\ At(c, "apply", "recording")'
                             /\ clients'[c].plan = p /\ clients'[c].step = i
<1>1. SUFFICES ASSUME crashes' = 0, Len(evidence') < EvidenceCap, NEW p \in Plans,
                      NEW i \in 1..NumSteps(p), target'[p][i].content # Before[p][i]
               PROVE  Known(p, i)
  BY DEF EffectsAreEvidenced, NumSteps, RealEvidence, At
<1>2. Len(evidence) < EvidenceCap /\ crashes = 0
  <2>1. crashes' \in {crashes, crashes + 1}
    BY <1>0, OneMoves, Requested, EndFields, RunFields, UndoFields, ClaimFields
       DEF vars, Reviews, CreatePlan, ApprovePlan, RejectPlan, Crash, Progress, ClaimGranted,
           ClaimDuplicate, ClaimTurnedAway, Replay, ExecutionThrows, RunStep, RecordStep,
           SkipStep, FinishApply, FinishDryRun, FinishVerify, UndoStep, FinishRollback,
           TargetUnreachable
  <2>2. crashes \in Nat
    BY <1>0, PlanApplyAssumptions DEF TypeOK
  <2> QED BY <1>0, <1>1, <2>1, <2>2, EvidenceGrows
<1>3. ASSUME NEW e \in RealEvidence(p), e.step = i, e.status # "skipped" PROVE Known(p, i)
  BY <1>0, <1>1, <1>3, RealEvidenceGrows
<1>4. CASE target'[p][i] = target[p][i]
  <2>1. target[p][i].content # Before[p][i]
    BY <1>1, <1>4
  <2>2. Steps[p][i] # "passive"
    BY <2>1 DEF EffectsInv, NothingToApply
  <2>3. CASE \E e \in RealEvidence(p) : e.step = i /\ e.status # "skipped"
    BY <1>3, <2>3
  <2>4. ASSUME NEW c \in Clients, At(c, "apply", "recording"),
               clients[c].plan = p, clients[c].step = i
        PROVE  Known(p, i)
    <3>1. CASE clients'[c] = clients[c]
      BY <2>4, <3>1 DEF At
    <3>2. CASE clients'[c] # clients[c]
      BY <1>0, <1>1, <2>2, <2>4, <3>2, RecordingStays DEF EffectsInv
    <3> QED BY <3>1, <3>2
  <2> QED BY <1>2, <2>1, <2>3, <2>4 DEF EffectsInv, EffectsAreEvidenced
<1>5. ASSUME target'[p][i] # target[p][i], NEW c \in Clients, RunStep(c)
      PROVE  Known(p, i)
  <2>1. p = clients[c].plan /\ i = clients[c].step
    BY <1>0, <1>5, RunEffect
  <2>2. clients[c].op # "dryRun"
    BY <1>0, <1>5, <2>1, RunEffect
  <2>3. /\ clients'[c].pc = "recording" /\ clients[c].pc = "executing" /\ Keeps(c)
        /\ clients'[c].step = clients[c].step
    BY <1>0, <1>5, RunFields
  <2>4. clients[c].op = "apply"
    BY <1>0, <2>2, <2>3 DEF HandlersSane, Sane
  <2> QED BY <2>1, <2>3, <2>4 DEF Keeps, At
<1>6. ASSUME target'[p][i] # target[p][i], NEW c \in Clients, UndoStep(c)
      PROVE  Known(p, i)
  <2>1. p = clients[c].plan /\ i \in clients[c].pending
    BY <1>0, <1>6, UndoEffect
  <2>2. At(c, "rollback", "undoing")
    BY <1>6 DEF UndoStep
  <2>3. \E e \in RealEvidence(p) : e.step = i /\ e.status = "succeeded"
    BY <1>2, <2>1, <2>2 DEF EffectsInv, PendingIsEvidenced
  <2> QED BY <1>3, <2>3
<1>7. CASE UNCHANGED target
  BY <1>4, <1>7
<1> HIDE DEF Known
<1> QED BY <1>0, <1>4, <1>5, <1>6, <1>7, HostMoves

(* While the process lives, a change made on the host by an apply is in    *)
(* the evidence or in the hands of the handler about to record it, so that *)
(* verify and rollback cannot miss it (appendActionRunRecord and its       *)
(* readers).                                                               *)
THEOREM EffectsAreEvidencedAlways == Spec => []EffectsAreEvidenced
<1>1. Init => EffectsInv
  BY DEF Init, StoreInit, EffectsInv, HandlersFresh, NothingToApply, PendingIsEvidenced,
         EffectsAreEvidenced, IdleClient, At
<1>2. IInv /\ EffectsInv /\ [Next]_vars => EffectsInv'
  <2> SUFFICES ASSUME IInv, EffectsInv, [Next]_vars PROVE EffectsInv'
    OBVIOUS
  <2> QED BY HandlersFreshStep, NothingToApplyStep, PendingStep, EffectsStep
          DEF EffectsInv, IInv
<1>3. EffectsInv => EffectsAreEvidenced
  BY DEF EffectsInv
<1> QED BY <1>1, <1>2, <1>3, Invariant, PTL DEF Spec
-----------------------------------------------------------------------------
(* What requests are told.                                                 *)
Applies(c) == clients[c].op = "apply" /\ clients[c].run # NoRun

Told(c) == clients[c].op = "apply" /\ clients[c].reply \in Finished

(* The run a request was given is one created for its plan and its key. *)
RunsAreAsked ==
  /\ \A c \in Clients : Applies(c) =>
       /\ clients[c].run \in RunIds /\ runs[clients[c].run].status # "unused"
       /\ runs[clients[c].run].plan = clients[c].plan
       /\ runs[clients[c].run].key = clients[c].key
  /\ \A c \in Clients : At(c, "apply", "replaying") => Applies(c)

(* An outcome told is the outcome recorded, unless the run was trimmed     *)
(* before it could be recorded.                                            *)
ToldIsRecorded ==
  \A c \in Clients : Told(c) =>
    /\ Applies(c) /\ clients[c].pc = "done"
    /\ runs[clients[c].run].status \in {"running", clients[c].reply}

(* The outcome of a run that was trimmed is told to one request only. *)
ToldAlone ==
  \A c, d \in Clients :
    /\ Told(c) /\ c # d
    /\ clients[c].run = clients[d].run /\ runs[clients[c].run].status = "running"
    => ~Working(d) /\ ~Told(d)

RepliesInv == HandlersFresh /\ RunsAreAsked /\ ToldIsRecorded /\ ToldAlone

LEMMA RunsEnd ==
  ASSUME IInv, [Next]_vars, NEW r \in RunIds, runs[r].status # "unused",
         runs'[r].status # runs[r].status
  PROVE  /\ runs[r].status = "running" /\ runs'[r].status \in Finished
         /\ \E c \in Clients : Working(c) /\ clients[c].run = r
<1>0. TypeOK
  BY DEF IInv
<1>1. PICK c \in Clients :
        \/ ClaimGranted(c, r) /\ runs[r].status = "unused"
        \/ /\ FinishApply(c) /\ clients[c].run = r
           /\ Outcome(r, IF clients[c].halted THEN "failed" ELSE "succeeded")
        \/ /\ ExecutionThrows(c) /\ clients[c].op = "apply" /\ clients[c].run = r
           /\ Outcome(r, "failed")
  BY <1>0, RunMoves
<1>2. Working(c) /\ clients[c].run = r
  BY <1>1 DEF FinishApply, Executed, ExecutionThrows, Working
<1>3. runs'[r].status \in Finished
  BY <1>1 DEF Outcome, Finished
<1> QED BY <1>2, <1>3 DEF IInv, WorkersOwnRuns

(* A request keeps the run it was given. *)
LEMMA AppliesMoves ==
  ASSUME IInv, HandlersFresh, [Next]_vars, NEW c \in Clients, Applies(c)'
  PROVE  \/ /\ Applies(c) /\ clients'[c].run = clients[c].run
            /\ clients'[c].plan = clients[c].plan /\ clients'[c].key = clients[c].key
         \/ \E r \in RunIds : ClaimGranted(c, r) \/ ClaimDuplicate(c, r)
<1>0. TypeOK /\ clients'[c].op = "apply" /\ clients'[c].run # NoRun
  BY DEF IInv, Applies
<1>1. CASE clients'[c] = clients[c]
  BY <1>0, <1>1 DEF Applies
<1>2. CASE Keeps(c) /\ clients'[c].run = clients[c].run
  BY <1>0, <1>2 DEF Keeps, Applies
<1>3. CASE Requests(c)
  BY <1>0, <1>3, Requested DEF HandlersFresh
<1>4. CASE Progress(c)
  <2>1. CASE RecordStep(c) \/ SkipStep(c)
    <3>1. Records(c, FALSE) \/ Records(c, TRUE)
      BY <2>1 DEF Records
    <3> QED BY <1>0, <1>2, <3>1, RecordFields
  <2>2. CASE Ends(c) \/ RunStep(c) \/ UndoStep(c)
    BY <1>0, <1>2, <2>2, EndFields, RunFields, UndoFields
  <2> QED BY <1>4, <2>1, <2>2, ProgressKinds
<1> QED BY <1>0, <1>1, <1>2, <1>3, <1>4, HandlerSteps

LEMMA RunsAreAskedStep ==
  ASSUME IInv, HandlersFresh, RunsAreAsked, [Next]_vars
  PROVE  RunsAreAsked'
<1>0. TypeOK
  BY DEF IInv
<1>1. ASSUME NEW c \in Clients, Applies(c)'
      PROVE  /\ clients'[c].run \in RunIds /\ runs'[clients'[c].run].status # "unused"
             /\ runs'[clients'[c].run].plan = clients'[c].plan
             /\ runs'[clients'[c].run].key = clients'[c].key
  <2> DEFINE Asked ==
        /\ clients'[c].run \in RunIds /\ runs'[clients'[c].run].status # "unused"
        /\ runs'[clients'[c].run].plan = clients'[c].plan
        /\ runs'[clients'[c].run].key = clients'[c].key
  <2>1. CASE /\ Applies(c) /\ clients'[c].run = clients[c].run
             /\ clients'[c].plan = clients[c].plan /\ clients'[c].key = clients[c].key
    BY <1>0, <2>1, UsedRunsStay DEF RunsAreAsked
  <2>2. ASSUME NEW r \in RunIds, ClaimGranted(c, r) PROVE Asked
    <3>1. /\ runs[r].status = "unused"
          /\ runs' = [runs EXCEPT ![r] = [status |-> "running", plan |-> clients[c].plan,
                         key |-> clients[c].key, approval |-> rows[clients[c].plan].approval]]
      BY <2>2 DEF ClaimGranted, GrantClaim
    <3>2. /\ runs'[r].status = "running" /\ runs'[r].plan = clients[c].plan
          /\ runs'[r].key = clients[c].key
      BY <1>0, <3>1 DEF TypeOK, StoreTypeOK
    <3>3. clients'[c].run = r /\ Keeps(c)
      BY <1>0, <2>2, ClaimFields
    <3> QED BY <3>2, <3>3 DEF Keeps
  <2>3. ASSUME NEW r \in RunIds, ClaimDuplicate(c, r) PROVE Asked
    <3>1. /\ r \in Range(idemLog) /\ runs[r].plan = clients[c].plan
          /\ runs[r].key = clients[c].key /\ runs' = runs
      BY <2>3 DEF ClaimDuplicate, KeyHolders, storeVars
    <3>2. runs[r].status # "unused"
      BY <3>1 DEF IInv, KeptRunsAreUsed
    <3>3. clients'[c].run = r /\ Keeps(c)
      BY <1>0, <2>3, ClaimFields
    <3> QED BY <3>1, <3>2, <3>3 DEF Keeps
  <2> QED BY <1>1, <2>1, <2>2, <2>3, AppliesMoves
<1>2. ASSUME NEW c \in Clients, At(c, "apply", "replaying")' PROVE Applies(c)'
  <2>0. clients'[c].pc = "replaying" /\ clients'[c].op = "apply"
    BY <1>2 DEF At
  <2>1. CASE clients'[c] = clients[c]
    BY <2>0, <2>1 DEF RunsAreAsked, At, Applies
  <2>2. CASE Requests(c)
    BY <1>0, <2>0, <2>2, Requested
  <2>3. CASE Progress(c)
    <3>1. CASE RecordStep(c) \/ SkipStep(c)
      <4>1. Records(c, FALSE) \/ Records(c, TRUE)
        BY <3>1 DEF Records
      <4> QED BY <1>0, <2>0, <4>1, RecordFields
    <3>2. CASE Ends(c) \/ RunStep(c) \/ UndoStep(c)
      BY <1>0, <2>0, <3>2, EndFields, RunFields, UndoFields
    <3>3. ASSUME NEW r \in RunIds, ClaimGranted(c, r) \/ ClaimDuplicate(c, r)
          PROVE  Applies(c)'
      BY <1>0, <2>0, <3>3, ClaimFields, PlanStoreAssumptions DEF Applies
    <3> QED BY <2>3, <3>1, <3>2, <3>3, ProgressKinds
  <2> QED BY <1>0, <2>0, <2>1, <2>2, <2>3, HandlerSteps
<1> QED BY <1>1, <1>2 DEF RunsAreAsked, Applies, At

(* Outcomes are told by the handler that executed the run, or from the     *)
(* record of it.                                                           *)
LEMMA ToldMoves ==
  ASSUME IInv, RepliesInv, [Next]_vars, NEW c \in Clients, Told(c)'
  PROVE  /\ Applies(c) /\ clients'[c].run = clients[c].run
         /\ \/ Told(c) /\ clients'[c] = clients[c]
            \/ /\ clients'[c].pc = "done" /\ clients'[c].op = "apply"
               /\ \/ Working(c) /\ runs'[clients[c].run].status \in {"running", clients'[c].reply}
                  \/ runs' = runs /\ runs[clients[c].run].status = clients'[c].reply
<1>0. TypeOK /\ HandlersFresh /\ clients'[c].op = "apply" /\ clients'[c].reply \in Finished
  BY DEF IInv, RepliesInv, Told
<1>1. ASSUME Working(c) PROVE Applies(c)
  BY <1>1, RunIsOwn DEF RepliesInv, Applies, Working
<1>2. CASE clients'[c] = clients[c]
  BY <1>0, <1>2 DEF Told, RepliesInv, ToldIsRecorded
<1>3. CASE Requests(c)
  <2>1. clients'[c].reply = "none"
    BY <1>0, <1>3, Requested DEF HandlersFresh
  <2> QED BY <1>0, <2>1 DEF Finished
<1>4. CASE Progress(c)
  <2>1. ASSUME NEW ok \in BOOLEAN, Working(c), Finalize(clients[c].run, ok),
               Done(c, IF ok THEN "succeeded" ELSE "failed")
        PROVE  /\ clients'[c].pc = "done" /\ clients'[c].run = clients[c].run
               /\ runs'[clients[c].run].status \in {"running", clients'[c].reply}
    <3>1. /\ clients'[c].pc = "done" /\ clients'[c].run = clients[c].run
          /\ clients'[c].reply = IF ok THEN "succeeded" ELSE "failed"
      BY <1>0, <2>1, DoneFields
    <3>2. clients[c].run \in RunIds /\ runs[clients[c].run].status = "running"
      BY <2>1 DEF IInv, WorkersOwnRuns
    <3>3. CASE runs'[clients[c].run] # runs[clients[c].run]
      BY <1>0, <2>1, <3>1, <3>2, <3>3, FinalizedRun DEF Outcome
    <3> QED BY <3>1, <3>2, <3>3
  <2>2. CASE FinishApply(c)
    <3>1. Working(c) /\ clients[c].halted \in BOOLEAN
      BY <1>0, <2>2 DEF FinishApply, Executed, Working, TypeOK, Client
    <3>2. CASE clients[c].halted = TRUE
      BY <1>0, <1>1, <2>1, <2>2, <3>1, <3>2 DEF FinishApply
    <3>3. CASE clients[c].halted = FALSE
      BY <1>0, <1>1, <2>1, <2>2, <3>1, <3>3 DEF FinishApply
    <3> QED BY <3>1, <3>2, <3>3
  <2>3. CASE ExecutionThrows(c)
    <3>0. Keeps(c)
      BY <1>0, <2>3, EndFields DEF Ends
    <3>1. Working(c)
      BY <1>0, <2>3, <3>0 DEF ExecutionThrows, Working, Keeps
    <3>2. Finalize(clients[c].run, FALSE) /\ Done(c, "failed")
      BY <2>3, <3>1 DEF ExecutionThrows, Working
    <3> QED BY <1>0, <1>1, <2>1, <3>1, <3>2
  <2>4. CASE Replay(c)
    <3>1. /\ At(c, "apply", "replaying") /\ Done(c, ReplayedResponse(clients[c].run))
          /\ runs' = runs
      BY <2>4 DEF Replay, storeVars
    <3>2. Applies(c)
      BY <3>1 DEF RepliesInv, RunsAreAsked
    <3>3. /\ clients'[c].pc = "done" /\ clients'[c].run = clients[c].run
          /\ clients'[c].reply = ReplayedResponse(clients[c].run)
      BY <1>0, <3>1, DoneFields
    <3>4. ReplayedResponse(clients[c].run) # "running"
      BY <1>0, <3>3 DEF Finished
    <3>5. ReplayedResponse(clients[c].run) = runs[clients[c].run].status
      BY <3>4 DEF ReplayedResponse
    <3> QED BY <1>0, <3>1, <3>2, <3>3, <3>5
  <2>5. CASE ClaimTurnedAway(c)
    <3>1. \E reply \in {"already-running", "already-applied", "refused"} : Done(c, reply)
      BY <2>5 DEF ClaimTurnedAway
    <3> QED BY <1>0, <3>1, DoneFields DEF Finished
  <2>6. CASE FinishDryRun(c) \/ FinishVerify(c) \/ FinishRollback(c) \/ TargetUnreachable(c)
    <3>1. Keeps(c) /\ clients[c].op # "apply"
      BY <1>0, <2>6, EndFields DEF Ends, FinishDryRun, FinishVerify, FinishRollback,
                                   TargetUnreachable, At
    <3> QED BY <1>0, <3>1 DEF Keeps
  <2>7. CASE clients'[c].pc # "done" /\ clients'[c].reply = clients[c].reply /\ Keeps(c)
             /\ clients[c].pc # "done"
    <3>1. Told(c)
      BY <1>0, <2>7 DEF Told, Keeps
    <3> QED BY <2>7, <3>1 DEF RepliesInv, ToldIsRecorded
  <2>8. CASE RecordStep(c) \/ SkipStep(c)
    <3>1. Records(c, FALSE) \/ Records(c, TRUE)
      BY <2>8 DEF Records
    <3> QED BY <1>0, <2>7, <3>1, RecordFields
  <2>9. CASE RunStep(c) \/ UndoStep(c)
    BY <1>0, <2>7, <2>9, RunFields, UndoFields DEF At
  <2>10. ASSUME NEW r \in RunIds, ClaimGranted(c, r) \/ ClaimDuplicate(c, r)
         PROVE  clients'[c].pc # "done" /\ clients'[c].reply = clients[c].reply /\ Keeps(c)
                /\ clients[c].pc # "done"
    BY <1>0, <2>10, ClaimFields
  <2> QED BY <1>4, <2>2, <2>3, <2>4, <2>5, <2>6, <2>7, <2>8, <2>9, <2>10, ProgressKinds DEF Ends
<1>5. CASE clients'[c].pc = "lost" /\ Keeps(c) /\ clients[c].pc # "done"
           /\ clients'[c].reply = clients[c].reply
  <2>1. Told(c)
    BY <1>0, <1>5 DEF Told, Keeps
  <2> QED BY <1>5, <2>1 DEF RepliesInv, ToldIsRecorded
<1> QED BY <1>0, <1>2, <1>3, <1>4, <1>5, HandlerSteps

LEMMA ToldIsRecordedStep ==
  ASSUME IInv, RepliesInv, [Next]_vars
  PROVE  ToldIsRecorded'
<1>1. ASSUME NEW c \in Clients, Told(c)'
      PROVE  /\ Applies(c)' /\ clients'[c].pc = "done"
             /\ runs'[clients'[c].run].status \in {"running", clients'[c].reply}
  <2> DEFINE r == clients[c].run
  <2>1. /\ Applies(c) /\ clients'[c].run = r
        /\ r \in RunIds /\ runs[r].status # "unused"
    BY <1>1, ToldMoves DEF RepliesInv, RunsAreAsked
  <2>2. CASE Told(c) /\ clients'[c] = clients[c]
    <3>1. /\ clients[c].pc = "done" /\ runs[r].status \in {"running", clients[c].reply}
      BY <2>2 DEF RepliesInv, ToldIsRecorded
    <3>2. runs'[r].status = runs[r].status
      <4> SUFFICES ASSUME runs'[r].status # runs[r].status PROVE FALSE
        OBVIOUS
      <4>1. PICK d \in Clients : Working(d) /\ clients[d].run = r /\ runs[r].status = "running"
        BY <2>1, RunsEnd
      <4>2. c # d
        BY <3>1, <4>1 DEF Working
      <4> QED BY <2>2, <4>1, <4>2 DEF RepliesInv, ToldAlone
    <3> QED BY <2>1, <2>2, <3>1, <3>2 DEF Applies
  <2>3. CASE /\ clients'[c].pc = "done" /\ clients'[c].op = "apply"
             /\ runs'[r].status \in {"running", clients'[c].reply}
    BY <2>1, <2>3 DEF Applies
  <2> QED BY <1>1, <2>1, <2>2, <2>3, ToldMoves
<1> QED BY <1>1 DEF ToldIsRecorded, Told, Applies

LEMMA ToldAloneStep ==
  ASSUME IInv, RepliesInv, [Next]_vars
  PROVE  ToldAlone'
<1>0. TypeOK /\ HandlersFresh
  BY DEF IInv, RepliesInv
<1>1. ASSUME NEW c \in Clients, NEW r, Told(c)', clients'[c].run = r, runs'[r].status = "running"
      PROVE  /\ Told(c) \/ Working(c)
             /\ clients[c].run = r /\ r \in RunIds /\ runs[r].status = "running"
  <2>1. Applies(c) /\ clients[c].run = r /\ r \in RunIds /\ runs[r].status # "unused"
    BY <1>1, ToldMoves DEF RepliesInv, RunsAreAsked
  <2>2. runs[r].status = "running"
    BY <1>1, <2>1, RunsEnd DEF Finished
  <2>3. clients'[c].reply # "running"
    BY <1>1 DEF Told, Finished
  <2> QED BY <1>1, <2>1, <2>2, <2>3, ToldMoves
<1>2. ASSUME NEW c \in Clients, NEW r \in RunIds, Working(c)', clients'[c].run = r,
             runs[r].status = "running"
      PROVE  Working(c) /\ clients[c].run = r
  BY <1>0, <1>2, WorkerMoves, RecordFields
<1>3. ASSUME NEW c \in Clients, NEW d \in Clients, Told(c)', c # d,
             clients'[c].run = clients'[d].run, runs'[clients'[c].run].status = "running"
      PROVE  ~Working(d)' /\ ~Told(d)'
  <2> DEFINE r == clients'[c].run
  <2>1. /\ Told(c) \/ Working(c)
        /\ clients[c].run = r /\ r \in RunIds /\ runs[r].status = "running"
    BY <1>1, <1>3
  <2>2. ASSUME Told(d)' \/ Working(d)'
        PROVE  /\ Told(d) \/ Working(d)
               /\ clients[d].run = r
    BY <1>1, <1>2, <1>3, <2>1, <2>2
  <2>3. ~(Working(c) /\ Working(d) /\ clients[c].run = clients[d].run)
    BY <1>3 DEF IInv, WorkersOwnRuns
  <2> HIDE DEF r
  <2> QED BY <1>3, <2>1, <2>2, <2>3 DEF RepliesInv, ToldAlone
<1> QED BY <1>3 DEF ToldAlone, Told, Working

(* Requests repeated under one key are told one outcome for as long as the *)
(* records of the key are kept, and a request that executed the run is     *)
(* told what the record of it says (claimPlanForApply,                     *)
(* getApplyRunResponse).                                                   *)
THEOREM RepliesAgreeAlways == Spec => []RepliesAgree
<1>1. Init => RepliesInv
  BY DEF Init, StoreInit, RepliesInv, HandlersFresh, RunsAreAsked, ToldIsRecorded, ToldAlone,
         IdleClient, Applies, Told, At
<1>2. IInv /\ RepliesInv /\ [Next]_vars => RepliesInv'
  <2> SUFFICES ASSUME IInv, RepliesInv, [Next]_vars PROVE RepliesInv'
    OBVIOUS
  <2> QED BY HandlersFreshStep, RunsAreAskedStep, ToldIsRecordedStep, ToldAloneStep
          DEF RepliesInv, IInv
<1>3. IInv /\ RepliesInv => RepliesAgree
  <2> SUFFICES ASSUME IInv, RepliesInv, NEW c \in Clients, NEW d \in Clients,
                      Told(c), Told(d), clients[c].plan = clients[d].plan,
                      clients[c].key = clients[d].key,
                      {clients[c].run, clients[d].run} \subseteq Range(idemLog)
               PROVE  clients[c].reply = clients[d].reply
    BY DEF RepliesAgree, Told
  <2>1. clients[c].run = clients[d].run
    BY DEF RepliesInv, ToldIsRecorded, RunsAreAsked, IInv, OneRunPerKey
  <2>2. CASE c # d /\ runs[clients[c].run].status = "running"
    BY <2>1, <2>2 DEF RepliesInv, ToldAlone
  <2>3. CASE runs[clients[c].run].status # "running"
    BY <2>1, <2>3 DEF RepliesInv, ToldIsRecorded
  <2> QED BY <2>2, <2>3
<1> QED BY <1>1, <1>2, <1>3, Invariant, PTL DEF Spec

-----------------------------------------------------------------------------
(* The rollback of a careful operator.                                     *)

(* While a plan of his is rolled back, and once it is, nobody works on it, *)
(* and it is not approved.                                                 *)
Undoing(c, p) == At(c, "rollback", "undoing") /\ clients[c].plan = p

Alone(p) == rows[p].status # "approved" /\ \A c \in Clients : ~AtWork(c, p)

RollbackAlone ==
  \A p \in Careful :
    rows[p].status = "rolled-back" \/ (\E c \in Clients : Undoing(c, p)) => Alone(p)

(* The walk has undone what it has behind it, or recorded that it did not. *)
WalkedIsGone ==
  \A c \in Clients, p \in Careful : Undoing(c, p) =>
    \A i \in RevertibleSteps(p) \ clients[c].pending : Gone(p, i) \/ i \in clients[c].failed

CarefulInv ==
  /\ HandlersFresh /\ NoneAtWorkOnApproved /\ CarefulExclusive
  /\ RollbackAlone /\ WalkedIsGone /\ RolledBackUndone

(* A plan becomes one that is rolled back, or one rolled back with other   *)
(* results, by the end of a rollback only.                                 *)
LEMMA RolledBackByRollback ==
  ASSUME IInv, HandlersFresh, [Next]_vars, NEW p \in Plans, rows'[p].status = "rolled-back",
         rows[p].status # "rolled-back" \/ rows'[p].undoFailed # rows[p].undoFailed
  PROVE  \E c \in Clients :
           /\ Undoing(c, p) /\ clients[c].pending = {}
           /\ rows'[p].undoFailed = clients[c].failed
           /\ UNCHANGED <<target, evidence>>
<1>1. TypeOK /\ StoreStep /\ HandlersSane
  BY NextIsStoreStep DEF IInv
<1>2. \A q \in Plans, s \in Statuses : rows' = [rows EXCEPT ![q].status = s] =>
        q = p /\ s = "rolled-back"
  BY <1>1 DEF TypeOK, StoreTypeOK, Row
<1>3. ASSUME NEW c \in Clients, Progress(c)
      PROVE  \/ UNCHANGED rows \/ FinishDryRun(c) \/ FinishVerify(c) \/ FinishRollback(c)
             \/ ExecutionThrows(c) \/ FinishApply(c) \/ \E r \in RunIds : ClaimGranted(c, r)
  BY <1>3 DEF Progress, ClaimDuplicate, ClaimTurnedAway, Replay, RunStep, RecordStep, SkipStep,
              UndoStep, TargetUnreachable, AppendEvidence, storeVars
<1>4. ASSUME NEW q \in Plans, CreatePlan(q) \/ ApprovePlan(q) \/ RejectPlan(q) PROVE FALSE
  <2>1. CASE CreatePlan(q) \/ RejectPlan(q)
    BY <1>2, <2>1 DEF CreatePlan, RejectPlan, Create, Reject, Statuses
  <2>2. CASE ApprovePlan(q)
    <3>1. PICK a : rows' = [rows EXCEPT ![q] = [@ EXCEPT !.status = "approved", !.approval = a]]
      BY <2>2 DEF ApprovePlan, Approve
    <3>2. \/ rows'[p].status = "approved"
          \/ rows'[p].status = rows[p].status /\ rows'[p].undoFailed = rows[p].undoFailed
      BY <1>1, <3>1 DEF TypeOK, StoreTypeOK, Row
    <3> QED BY <3>2
  <2> QED BY <1>4, <2>1, <2>2
<1>5. ASSUME NEW c \in Clients, FinishDryRun(c) \/ \E r \in RunIds : ClaimGranted(c, r)
      PROVE  FALSE
  <2>1. clients[c].plan \in Plans
    BY <1>1, <1>5 DEF FinishDryRun, Executed, ClaimGranted, At, HandlersSane, Sane
  <2>2. CASE FinishDryRun(c)
    <3>1. PICK k : rows' = [rows EXCEPT ![clients[c].plan].dryKey = k]
      BY <2>2 DEF FinishDryRun, RecordDryRun
    <3>2. rows'[p].status = rows[p].status /\ rows'[p].undoFailed = rows[p].undoFailed
      BY <1>1, <2>1, <3>1 DEF TypeOK, StoreTypeOK, Row
    <3> QED BY <3>2
  <2>3. ASSUME NEW r \in RunIds, ClaimGranted(c, r) PROVE FALSE
    <3>1. PICK q \in Plans : rows' = [rows EXCEPT ![q] = [@ EXCEPT !.status = "applying", !.active = r]]
      BY <2>1, <2>3 DEF ClaimGranted, GrantClaim
    <3>2. \/ rows'[p].status = "applying"
          \/ rows'[p].status = rows[p].status /\ rows'[p].undoFailed = rows[p].undoFailed
      BY <1>1, <3>1 DEF TypeOK, StoreTypeOK, Row
    <3> QED BY <3>2
  <2> QED BY <1>5, <2>2, <2>3
<1>6. ASSUME NEW r, NEW ok \in BOOLEAN, Finalize(r, ok) PROVE FALSE
  <2>1. UNCHANGED storeVars \/ \E s \in {"succeeded", "failed"} : Settles(r, s)
    BY <1>6, FinalizeEffect
  <2>2. ASSUME NEW s \in {"succeeded", "failed"}, Settles(r, s)
        PROVE  /\ rows'[p].status \in {rows[p].status, s}
               /\ rows'[p].undoFailed = rows[p].undoFailed
    <3>1. CASE p = runs[r].plan
      BY <1>1, <2>2, <3>1 DEF Settles, RowAfterFinalize, TypeOK, StoreTypeOK, Row
    <3>2. CASE p # runs[r].plan
      BY <1>1, <2>2, <3>2 DEF Settles, TypeOK, StoreTypeOK
    <3> QED BY <3>1, <3>2
  <2> QED BY <2>1, <2>2 DEF storeVars
<1>7. ASSUME NEW c \in Clients, ExecutionThrows(c) \/ FinishApply(c) PROVE UNCHANGED rows
  <2>1. ~Finalize(clients[c].run, FALSE) /\ ~Finalize(clients[c].run, ~clients[c].halted)
    <3>1. clients[c].halted \in BOOLEAN
      BY <1>1 DEF TypeOK, Client
    <3>2. FALSE \in BOOLEAN /\ (~clients[c].halted) \in BOOLEAN
      OBVIOUS
    <3> QED BY <3>2, <1>6
  <2> QED BY <1>7, <2>1 DEF ExecutionThrows, FinishApply, storeVars
<1>8. ASSUME NEW c \in Clients, FinishVerify(c) \/ FinishRollback(c)
      PROVE  /\ Undoing(c, p) /\ clients[c].pending = {}
             /\ rows'[p].undoFailed = clients[c].failed
             /\ UNCHANGED <<target, evidence>>
  <2>1. clients[c].plan \in Plans
    BY <1>1, <1>8 DEF FinishVerify, FinishRollback, At, HandlersSane, Sane
  <2>2. ~FinishVerify(c)
    BY <1>2, <2>1 DEF FinishVerify, PersistVerify, Statuses
  <2>3. FinishRollback(c)
    BY <1>8, <2>2
  <2>4. PersistRollback(clients[c].plan, clients[c].failed)
    BY <2>3 DEF FinishRollback
  <2>5. clients[c].plan = p /\ rows'[p].undoFailed = clients[c].failed
    <3>1. clients[c].plan # p => rows'[p] = rows[p]
      BY <1>1, <2>4 DEF PersistRollback, TypeOK, StoreTypeOK
    <3>2. clients[c].plan = p => rows'[p].undoFailed = clients[c].failed
      BY <1>1, <2>4 DEF PersistRollback, TypeOK, StoreTypeOK, Row
    <3> QED BY <3>1, <3>2
  <2> QED BY <2>3, <2>4, <2>5 DEF FinishRollback, PersistRollback, Undoing
<1>9. ~UNCHANGED rows
  OBVIOUS
<1>10. ASSUME NEW c \in Clients, Requests(c) PROVE FALSE
  BY <1>1, <1>9, <1>10, Requested DEF storeVars
<1>11. ~UNCHANGED vars /\ ~Crash /\ ~Reviews
  BY <1>4, <1>9 DEF vars, Crash, Reviews, storeVars
<1>12. PICK c \in Clients : Progress(c)
  BY <1>1, <1>10, <1>11, OneMoves
<1> QED BY <1>3, <1>5, <1>7, <1>8, <1>9, <1>12

(* A rollback that begins on a careful operator's plan finds it quiet.     *)
LEMMA RollbackBegins ==
  ASSUME IInv, HandlersFresh, [CarefulNext]_vars, NEW c \in Clients, NEW p \in Careful,
         Undoing(c, p)', ~Undoing(c, p)
  PROVE  /\ Quiet(p) /\ rows[p].status # "approved" /\ UNCHANGED storeVars
         /\ \A d \in Clients \ {c} : clients'[d] = clients[d]
         /\ clients'[c].pending = RevertibleSteps(p)
<1>1. TypeOK /\ [Next]_vars /\ p \in Plans
  BY CarefulIsNext, PlanApplyAssumptions DEF IInv
<1>2. clients'[c].pc = "undoing" /\ clients'[c].op = "rollback" /\ clients'[c].plan = p
  BY DEF Undoing, At
<1>3. ASSUME Progress(c) PROVE FALSE
  <2>1. CASE RecordStep(c) \/ SkipStep(c)
    <3>1. Records(c, FALSE) \/ Records(c, TRUE)
      BY <2>1 DEF Records
    <3> QED BY <1>1, <1>2, <3>1, RecordFields
  <2>2. CASE Ends(c) \/ RunStep(c)
    BY <1>1, <1>2, <2>2, EndFields, RunFields
  <2>3. CASE UndoStep(c)
    BY <1>1, <1>2, <2>3, UndoFields DEF Keeps, Undoing
  <2>4. ASSUME NEW r \in RunIds, ClaimGranted(c, r) \/ ClaimDuplicate(c, r) PROVE FALSE
    BY <1>1, <1>2, <2>4, ClaimFields
  <2> QED BY <1>3, <2>1, <2>2, <2>3, <2>4, ProgressKinds
<1>4. clients'[c] # clients[c]
  BY DEF Undoing, At
<1>5. Requests(c)
  BY <1>1, <1>2, <1>3, <1>4, HandlerSteps
<1>6. /\ clients[c].pc = "idle" /\ UNCHANGED storeVars
      /\ clients'[c].pending = RevertibleSteps(p)
  BY <1>1, <1>2, <1>5, Requested
<1>7. \A d \in Clients \ {c} : clients'[d] = clients[d]
  BY <1>1, <1>5 DEF Requests, RequestApply, RequestDryRun, RequestVerify, RequestRollback, TypeOK
<1>8. Quiet(p) /\ rows[p].status # "approved"
  <2>1. ~UNCHANGED clients /\ ~UNCHANGED vars
    BY <1>4 DEF vars
  <2>2. \A q \in Plans : ~CreatePlan(q) /\ ~ApprovePlan(q) /\ ~RejectPlan(q)
    BY <2>1 DEF CreatePlan, ApprovePlan, RejectPlan
  <2>3. ~Crash
    <3>1. CASE Crash
      <4>1. clients'[c] = IF Busy(c) THEN [clients[c] EXCEPT !.pc = "lost"] ELSE clients[c]
        BY <3>1 DEF Crash
      <4> QED BY <1>4, <1>6, <4>1 DEF Busy
    <3> QED BY <3>1
  <2>4. ASSUME NEW d \in Clients, Progress(d) PROVE FALSE
    <3>1. d # c
      BY <1>3, <2>4
    <3>2. clients'[c] = clients[c]
      BY <1>1, <2>4, <3>1 DEF Progress, ClaimGranted, ClaimDuplicate, ClaimTurnedAway, Replay,
         ExecutionThrows, RunStep, RecordStep, SkipStep, FinishApply, FinishDryRun,
         FinishVerify, UndoStep, FinishRollback, TargetUnreachable, Done, TypeOK
    <3> QED BY <1>4, <3>2
  <2>5. PICK d \in Clients, q \in Plans :
          \/ \E k \in Keys \cup {NoKey} : RequestApply(d, q, k) \/ RequestDryRun(d, q, k)
          \/ /\ q \in Careful => Quiet(q) /\ rows[q].status # "approved"
             /\ RequestVerify(d, q) \/ RequestRollback(d, q)
    BY <2>1, <2>2, <2>3, <2>4 DEF CarefulNext
  <2>6. d = c
    BY <1>1, <1>4, <2>5 DEF RequestApply, RequestDryRun, RequestVerify, RequestRollback, TypeOK
  <2>7. ASSUME NEW k \in Keys \cup {NoKey}, RequestApply(d, q, k) \/ RequestDryRun(d, q, k)
        PROVE  FALSE
    <3>1. CASE RequestApply(d, q, k)
      BY <1>1, <1>2, <2>6, <3>1 DEF RequestApply, TypeOK, Client
    <3>2. CASE RequestDryRun(d, q, k)
      <4>1. PICK pc \in {"done", "executing"}, reply \in {"dry-run", "none"} :
              clients' = [clients EXCEPT ![c] =
                [@ EXCEPT !.op = "dryRun", !.plan = q, !.key = k, !.snap = rows[q].status,
                          !.pc = pc, !.reply = reply]]
        BY <2>6, <3>2 DEF RequestDryRun
      <4> QED BY <1>1, <1>2, <4>1 DEF TypeOK, Client
    <3> QED BY <2>7, <3>1, <3>2
  <2>8. ~RequestVerify(d, q)
    BY <1>1, <1>2, <2>6 DEF RequestVerify, TypeOK, Client
  <2>9. q = p
    <3>1. RequestRollback(c, q)
      BY <2>5, <2>6, <2>7, <2>8
    <3>2. PICK pending : clients' = [clients EXCEPT ![c] =
            [@ EXCEPT !.op = "rollback", !.pc = "undoing", !.plan = q, !.pending = pending]]
      BY <3>1 DEF RequestRollback
    <3>3. clients'[c].plan = q
      BY <1>1, <3>2 DEF TypeOK, Client
    <3> QED BY <1>2, <3>3
  <2> QED BY <2>5, <2>7, <2>8, <2>9
<1> QED BY <1>6, <1>7, <1>8

LEMMA RollbackAloneStep ==
  ASSUME IInv, CarefulInv, [CarefulNext]_vars
  PROVE  RollbackAlone'
<1>0. TypeOK /\ HandlersFresh /\ [Next]_vars /\ Careful \subseteq Plans
  BY CarefulIsNext, PlanApplyAssumptions DEF IInv, CarefulInv
<1>1. ASSUME NEW p \in Careful, Alone(p), NEW c \in Clients, AtWork(c, p)' PROVE FALSE
  BY <1>0, <1>1, WorkBegins DEF Alone
<1>2. ASSUME NEW p \in Careful, NEW c \in Clients, Undoing(c, p)
      PROVE  rows'[p].status # "approved"
  <2>1. ~Quiet(p)
    BY <1>2 DEF Undoing, At, Quiet, Busy
  <2>2. rows[p].status # "approved"
    BY <1>2 DEF CarefulInv, RollbackAlone, Alone
  <2> QED BY <2>1, <2>2, ApprovalIsQuiet
<1>3. ASSUME NEW p \in Careful, NEW c \in Clients, Undoing(c, p)', ~Undoing(c, p)
      PROVE  rows'[p].status # "approved" /\ \A d \in Clients : ~AtWork(d, p)'
  <2>1. /\ Quiet(p) /\ rows[p].status # "approved" /\ UNCHANGED storeVars
        /\ \A d \in Clients \ {c} : clients'[d] = clients[d]
    BY <1>0, <1>3, RollbackBegins
  <2>2. \A d \in Clients \ {c} : ~AtWork(d, p)'
    BY <2>1 DEF Quiet, Busy, AtWork
  <2>3. ~AtWork(c, p)'
    BY <1>3 DEF Undoing, At, AtWork
  <2> QED BY <2>1, <2>2, <2>3 DEF storeVars
<1>4. ASSUME NEW p \in Careful, rows'[p].status = "rolled-back" PROVE Alone(p)
  <2>1. CASE rows[p].status = "rolled-back"
    BY <2>1 DEF CarefulInv, RollbackAlone
  <2>2. CASE rows[p].status # "rolled-back"
    <3>1. \E c \in Clients : Undoing(c, p)
      BY <1>0, <1>4, <2>2, RolledBackByRollback
    <3> QED BY <3>1 DEF CarefulInv, RollbackAlone
  <2> QED BY <2>1, <2>2
<1>5. ASSUME NEW p \in Careful, NEW c \in Clients, Undoing(c, p) PROVE Alone(p)
  BY <1>5 DEF CarefulInv, RollbackAlone
<1>6. ASSUME NEW p \in Careful,
             rows'[p].status = "rolled-back" \/ (\E c \in Clients : Undoing(c, p)')
      PROVE  rows'[p].status # "approved" /\ \A c \in Clients : ~AtWork(c, p)'
  <2>1. CASE rows'[p].status = "rolled-back"
    BY <1>1, <1>4, <2>1
  <2>2. ASSUME NEW c \in Clients, Undoing(c, p)'
        PROVE  rows'[p].status # "approved" /\ \A d \in Clients : ~AtWork(d, p)'
    <3>1. CASE Undoing(c, p)
      BY <1>1, <1>2, <1>5, <3>1
    <3>2. CASE ~Undoing(c, p)
      BY <1>3, <2>2, <3>2
    <3> QED BY <3>1, <3>2
  <2> QED BY <1>6, <2>1, <2>2
<1> QED BY <1>6 DEF RollbackAlone, Alone, Undoing, AtWork, At

(* On a plan that nobody works on, no step is recorded as applied anew,    *)
(* and what is gone from the host does not come back.                      *)
LEMMA QuietEvidence ==
  ASSUME IInv, HandlersFresh, [Next]_vars, NEW p \in Plans, \A c \in Clients : ~AtWork(c, p)
  PROVE  RevertibleSteps(p)' \subseteq RevertibleSteps(p)
<1>1. TypeOK /\ HandlersSane
  BY DEF IInv
<1>2. ASSUME NEW e \in Range(evidence'), e.plan = p, ~e.dry
      PROVE  e \in Range(evidence)
  <2>1. CASE UNCHANGED evidence
    BY <1>2, <2>1
  <2>2. ASSUME NEW c \in Clients, NEW refused \in BOOLEAN, Records(c, refused)
        PROVE  e \in Range(evidence)
    <3>1. e # RecordOf(c, refused)
      <4>1. clients[c].pc \in {"executing", "recording"}
        BY <1>1, <2>2, RecordFields
      <4>2. clients[c].op \in {"apply", "dryRun"} /\ ~AtWork(c, p)
        BY <1>1, <4>1 DEF HandlersSane, Sane
      <4>3. clients[c].plan # p \/ clients[c].op = "dryRun"
        BY <4>1, <4>2 DEF AtWork
      <4>4. /\ RecordOf(c, refused).plan = clients[c].plan
            /\ RecordOf(c, refused).dry = (clients[c].op = "dryRun")
        BY DEF RecordOf
      <4> QED BY <1>2, <4>3, <4>4
    <3> QED BY <1>2, <2>2, <3>1, RecordPut
  <2> QED BY <1>1, <2>1, <2>2, EvidenceMoves
<1> QED BY <1>2 DEF RevertibleSteps, RealEvidence

(* What the plan-level undo leaves of a step. *)
LEMMA UndoneIsGone ==
  ASSUME NEW kind, NEW t \in TargetStates, NEW undo \in Undone(kind, t),
         kind = "package" \/ (kind = "config" /\ undo.host.backup # "planned")
  PROVE  /\ undo.result # "failed" => undo.host.content # "planned"
         /\ undo.result = "failed" =>
              undo.host.backup = t.backup /\ undo.host.content \in {t.content, "unknown"}
<1>1. CASE kind = "package"
  BY <1>1 DEF Undone, Revertible, Holding, TargetStates
<1>2. CASE kind = "config" /\ t.backup = "none"
  BY <1>2 DEF Undone, Revertible
<1>3. CASE kind = "config" /\ t.backup # "none"
  BY <1>3 DEF Undone, Revertible, Restored, Holding, TargetStates
<1> QED BY <1>1, <1>2, <1>3

LEMMA UndoStepGone ==
  ASSUME TypeOK, HandlersSane, NEW c \in Clients, UndoStep(c), NEW p, p = clients[c].plan
  PROVE  \E i \in clients[c].pending :
           /\ clients'[c].pending = clients[c].pending \ {i}
           /\ clients[c].failed \subseteq clients'[c].failed
           /\ \A q \in Plans : \A j \in 1..NumSteps(q) :
                q # p \/ j # i => target'[q][j] = target[q][j]
           /\ Gone(p, i)' \/ i \in clients'[c].failed
           /\ Gone(p, i) => Gone(p, i)'
<1>1. /\ p \in Plans /\ NumSteps(p) \in Nat /\ clients[c].pending # {}
      /\ clients[c].pending \subseteq 1..NumSteps(p)
  BY PlanStoreAssumptions DEF UndoStep, At, HandlersSane, Sane, NumSteps
<1>2. PICK i \in clients[c].pending : i = Max(clients[c].pending)
  BY <1>1, MaxIsGreatest
<1> DEFINE Failed(undo) == clients[c].failed \cup (IF undo.result = "failed" THEN {i} ELSE {})
<1>3. PICK undo \in Undone(Steps[p][i], target[p][i]) :
        /\ target' = [target EXCEPT ![p][i] = undo.host]
        /\ clients' = [clients EXCEPT ![c] =
             [@ EXCEPT !.pending = clients[c].pending \ {i}, !.step = 2, !.failed = Failed(undo)]]
  BY <1>2 DEF UndoStep
<1>4. /\ clients'[c].pending = clients[c].pending \ {i}
      /\ clients'[c].failed = Failed(undo)
  <2>1. PICK rest, failed :
          /\ rest = clients[c].pending \ {i} /\ failed = Failed(undo)
          /\ clients' = [clients EXCEPT ![c] =
               [@ EXCEPT !.pending = rest, !.step = 2, !.failed = failed]]
    BY <1>3
  <2> HIDE DEF Failed
  <2> QED BY <2>1 DEF TypeOK, Client
<1>5. i \in 1..NumSteps(p)
  BY <1>1, <1>2
<1>6. /\ \A q \in Plans : \A j \in 1..NumSteps(q) :
           q # p \/ j # i => target'[q][j] = target[q][j]
      /\ target'[p][i] = undo.host
  BY <1>1, <1>3, <1>5 DEF TypeOK
<1>7. target[p][i] \in TargetStates
  BY <1>1, <1>5 DEF TypeOK
<1>8. Steps[p][i] = "package" \/ (Steps[p][i] = "config" /\ undo.host.backup # "planned") =>
        /\ undo.result # "failed" => undo.host.content # "planned"
        /\ undo.result = "failed" =>
             /\ undo.host.backup = target[p][i].backup
             /\ undo.host.content \in {target[p][i].content, "unknown"}
  BY <1>3, <1>7, UndoneIsGone
<1>9. undo.result # "failed" => Gone(p, i)'
  BY <1>6, <1>8 DEF Gone
<1>10. undo.result = "failed" => i \in clients'[c].failed
  BY <1>4
<1>11. Gone(p, i) => Gone(p, i)'
  BY <1>6, <1>8, <1>9 DEF Gone
<1>12. clients[c].failed \subseteq clients'[c].failed
  BY <1>4
<1> QED BY <1>2, <1>4, <1>6, <1>9, <1>10, <1>11, <1>12

LEMMA GoneStays ==
  ASSUME IInv, HandlersFresh, [Next]_vars, NEW p \in Plans, \A c \in Clients : ~AtWork(c, p),
         NEW i \in 1..NumSteps(p), Gone(p, i)
  PROVE  Gone(p, i)'
<1>1. TypeOK /\ HandlersSane
  BY DEF IInv
<1>2. CASE target'[p][i] = target[p][i]
  BY <1>2 DEF Gone
<1>3. ASSUME NEW c \in Clients, RunStep(c) PROVE target'[p][i] = target[p][i]
  <2>1. CASE clients[c].plan = p
    <3>1. clients[c].pc = "executing" /\ clients[c].op = "dryRun"
      BY <1>1, <1>3, <2>1, RunFields DEF HandlersSane, Sane, AtWork
    <3> QED BY <1>1, <1>3, <2>1, <3>1, RunEffect
  <2>2. CASE clients[c].plan # p
    BY <1>1, <1>3, <2>2, RunEffect
  <2> QED BY <2>1, <2>2
<1>4. ASSUME NEW c \in Clients, UndoStep(c) PROVE target'[p][i] = target[p][i] \/ Gone(p, i)'
  <2>1. PICK q : q = clients[c].plan
    OBVIOUS
  <2>2. PICK j \in clients[c].pending :
          /\ \A r \in Plans : \A k \in 1..NumSteps(r) :
               r # q \/ k # j => target'[r][k] = target[r][k]
          /\ Gone(q, j) => Gone(q, j)'
    BY <1>1, <1>4, <2>1, UndoStepGone
  <2>3. CASE p = q /\ i = j
    BY <2>2, <2>3
  <2>4. CASE p # q \/ i # j
    BY <2>2, <2>4
  <2> QED BY <2>3, <2>4
<1> QED BY <1>1, <1>2, <1>3, <1>4, HostMoves

LEMMA WalkedStep ==
  ASSUME IInv, CarefulInv, [CarefulNext]_vars
  PROVE  WalkedIsGone' /\ RolledBackUndone'
<1>0. TypeOK /\ HandlersSane /\ HandlersFresh /\ [Next]_vars /\ Careful \subseteq Plans
  BY CarefulIsNext, PlanApplyAssumptions DEF IInv, CarefulInv
<1>1. ASSUME NEW p \in Careful, Alone(p)
      PROVE  /\ RevertibleSteps(p)' \subseteq RevertibleSteps(p)
             /\ RevertibleSteps(p) \subseteq 1..NumSteps(p)
             /\ \A i \in 1..NumSteps(p) : Gone(p, i) => Gone(p, i)'
  <2>1. RevertibleSteps(p) \subseteq 1..NumSteps(p)
    <3>1. \A e \in Range(evidence) : e.step \in Nat \ {0} /\ e.step <= NumSteps(e.plan)
      <4>1. \A e \in Range(evidence) : e \in Evidence
        BY <1>0, EntriesTyped DEF TypeOK, StoreTypeOK
      <4> QED BY <4>1 DEF IInv, EvidenceOfSteps, Evidence
    <3>2. NumSteps(p) \in Nat
      BY <1>0, PlanStoreAssumptions DEF NumSteps
    <3> QED BY <3>1, <3>2 DEF RevertibleSteps, RealEvidence
  <2> QED BY <1>0, <1>1, <2>1, QuietEvidence, GoneStays DEF Alone
<1>2. ASSUME NEW p \in Careful, NEW c \in Clients, Undoing(c, p), Undoing(c, p)',
             NEW i \in RevertibleSteps(p)' \ clients'[c].pending
      PROVE  Gone(p, i)' \/ i \in clients'[c].failed
  <2>1. Alone(p)
    BY <1>2 DEF CarefulInv, RollbackAlone
  <2>2. i \in RevertibleSteps(p) /\ i \in 1..NumSteps(p)
    BY <1>1, <1>2, <2>1
  <2>3. clients'[c] = clients[c] \/ UndoStep(c)
    <3> SUFFICES ASSUME clients'[c] # clients[c] PROVE UndoStep(c)
      OBVIOUS
    <3>1. clients'[c].pc = "undoing" /\ clients[c].pc = "undoing"
      BY <1>2 DEF Undoing, At
    <3>2. Progress(c)
      BY <1>0, <3>1, HandlerSteps, Requested
    <3>3. ~RecordStep(c) /\ ~SkipStep(c)
      BY <3>1 DEF RecordStep, SkipStep
    <3>4. ~Ends(c) /\ ~RunStep(c)
      BY <1>0, <3>1, EndFields, RunFields
    <3>5. \A r \in RunIds : ~ClaimGranted(c, r) /\ ~ClaimDuplicate(c, r)
      BY <3>1 DEF ClaimGranted, ClaimDuplicate, At
    <3> QED BY <3>2, <3>3, <3>4, <3>5, ProgressKinds
  <2>4. CASE clients'[c] = clients[c]
    <3>1. Gone(p, i) \/ i \in clients[c].failed
      BY <1>2, <2>2, <2>4 DEF CarefulInv, WalkedIsGone
    <3> QED BY <1>1, <2>1, <2>2, <2>4, <3>1
  <2>5. CASE UndoStep(c)
    <3>1. PICK j \in clients[c].pending :
            /\ clients'[c].pending = clients[c].pending \ {j}
            /\ clients[c].failed \subseteq clients'[c].failed
            /\ Gone(p, j)' \/ j \in clients'[c].failed
      BY <1>0, <1>2, <2>5, UndoStepGone DEF Undoing
    <3>2. CASE i = j
      BY <3>1, <3>2
    <3>3. CASE i # j
      <4>1. Gone(p, i) \/ i \in clients[c].failed
        BY <1>2, <2>2, <3>1, <3>3 DEF CarefulInv, WalkedIsGone
      <4> QED BY <1>1, <2>1, <2>2, <3>1, <4>1
    <3> QED BY <3>2, <3>3
  <2> QED BY <2>3, <2>4, <2>5
<1>3. ASSUME NEW p \in Careful, NEW c \in Clients, ~Undoing(c, p), Undoing(c, p)'
      PROVE  RevertibleSteps(p)' \subseteq clients'[c].pending
  BY <1>0, <1>3, RollbackBegins DEF RevertibleSteps, RealEvidence, storeVars
<1>4. ASSUME NEW p \in Careful, rows'[p].status = "rolled-back", NEW i \in RevertibleSteps(p)'
      PROVE  Gone(p, i)' \/ i \in rows'[p].undoFailed
  <2>1. CASE rows[p].status = "rolled-back" /\ rows'[p].undoFailed = rows[p].undoFailed
    <3>1. Alone(p)
      BY <2>1 DEF CarefulInv, RollbackAlone
    <3>2. i \in RevertibleSteps(p) /\ i \in 1..NumSteps(p)
      BY <1>1, <1>4, <3>1
    <3>3. Gone(p, i) \/ i \in rows[p].undoFailed
      BY <2>1, <3>2 DEF CarefulInv, RolledBackUndone
    <3> QED BY <1>1, <2>1, <3>1, <3>2, <3>3
  <2>2. CASE rows[p].status # "rolled-back" \/ rows'[p].undoFailed # rows[p].undoFailed
    <3>1. PICK c \in Clients : /\ Undoing(c, p) /\ clients[c].pending = {}
                               /\ rows'[p].undoFailed = clients[c].failed
      BY <1>0, <1>4, <2>2, RolledBackByRollback
    <3>2. Alone(p)
      BY <3>1 DEF CarefulInv, RollbackAlone
    <3>3. i \in RevertibleSteps(p) /\ i \in 1..NumSteps(p)
      BY <1>1, <1>4, <3>2
    <3>4. Gone(p, i) \/ i \in clients[c].failed
      BY <3>1, <3>3 DEF CarefulInv, WalkedIsGone
    <3> QED BY <1>1, <3>1, <3>2, <3>3, <3>4
  <2> QED BY <2>1, <2>2
<1>5. WalkedIsGone'
  <2>1. ASSUME NEW c \in Clients, NEW p \in Careful, Undoing(c, p)',
               NEW i \in RevertibleSteps(p)' \ clients'[c].pending
        PROVE  Gone(p, i)' \/ i \in clients'[c].failed
    BY <1>2, <1>3, <2>1
  <2> QED BY <2>1 DEF WalkedIsGone, Undoing, At
<1>6. RolledBackUndone'
  BY <1>4 DEF RolledBackUndone
<1> QED BY <1>5, <1>6

(* On a plan that a careful operator rolled back, a change recorded as     *)
(* applied that still stands has a failed result on the row, for any       *)
(* plans, whatever is done to others, whatever of the evidence was         *)
(* trimmed, and through crashes (rollbackPlanAndPersist).                  *)
THEOREM RolledBackUndoneAlways == CarefulSpec => []RolledBackUndone
<1> DEFINE CInv == IInv /\ CarefulInv
<1>1. Init => CInv
  BY InitInv, PlanApplyAssumptions
  DEF Init, StoreInit, CarefulInv, HandlersFresh, NoneAtWorkOnApproved, CarefulExclusive,
      OneAtWork, RollbackAlone, WalkedIsGone, RolledBackUndone, Undoing, AtWork, At, IdleClient
<1>2. CInv /\ [CarefulNext]_vars => CInv'
  <2> SUFFICES ASSUME IInv, CarefulInv, [CarefulNext]_vars PROVE IInv' /\ CarefulInv'
    OBVIOUS
  <2>1. [Next]_vars
    BY CarefulIsNext
  <2>2. IInv' /\ HandlersFresh'
    BY <2>1, InvStep, HandlersFreshStep DEF CarefulInv, IInv
  <2>3. NoneAtWorkOnApproved' /\ CarefulExclusive'
    BY CarefulStep DEF CarefulInv
  <2> QED BY <2>2, <2>3, RollbackAloneStep, WalkedStep DEF CarefulInv
<1>3. CInv => RolledBackUndone
  BY DEF CarefulInv
<1> QED BY <1>1, <1>2, <1>3, PTL DEF CarefulSpec
===============================================================================
