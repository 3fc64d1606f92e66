--------------------------- MODULE ManagedAction ---------------------------
(***************************************************************************)
(* One managed action of a plan, run through its lifecycle step by step    *)
(* (runManagedAction of managed-execution.ts over the adapters of          *)
(* managed-adapters.ts), as often as its plan is applied.  TargetHost says *)
(* what a whole run may come to; PlanApply takes it as one step, and the   *)
(* properties below say that it may.                                       *)
(*                                                                         *)
(* Commands on the host fail, or are cut off and count as successful;      *)
(* validators pass or fail as the host pleases; the process may die        *)
(* between any two of them, and what it had in memory is gone.             *)
(***************************************************************************)
EXTENDS TargetHost, Integers

CONSTANT MaxRuns    \* bound on the runs of the action

ASSUME ManagedActionAssumptions == MaxRuns \in Nat

VARIABLES
  kind,      \* the kind of the action
  dry,       \* whether the current run is a dry run
  host,
  status,    \* the status of the ActionRunRecord; "none" before it and after a crash
  at,        \* where in the adapter's hooks the run is
  start,     \* auxiliary: the host when the run began
  seen,      \* the snapshot: the package was installed, as far as it tells
  saved,     \* auxiliary: this run's backup was made
  runsMade

vars == <<kind, dry, host, status, at, start, seen, saved, runsMade>>
told == <<kind, dry, start, runsMade>>

RunStatuses == {"pending", "snapshotting", "applying", "verifying", "rolling-back"}
               \cup ActionOutcomes

Init ==
  /\ kind \in Kinds
  /\ dry = FALSE
  /\ host \in [content : {"missing", "original"}, backup : {"none"}]
  /\ status = "none" /\ at = "end"
  /\ start = host
  /\ seen = FALSE /\ saved = FALSE
  /\ runsMade = 0

Begin(d) ==
  /\ at = "end"
  /\ runsMade < MaxRuns
  /\ runsMade' = runsMade + 1
  /\ dry' = d
  /\ status' = "pending" /\ at' = "begin"
  /\ start' = host
  /\ seen' = FALSE /\ saved' = FALSE
  /\ UNCHANGED <<kind, host>>

Mutating == kind \in {"config", "package", "command"}

(* Detect-only items and dry runs and actions that change nothing go no    *)
(* further, in this order.                                                 *)
Bypass ==
  /\ at = "begin"
  /\ kind = "detectOnly" \/ dry \/ ~Mutating
  /\ status' = IF kind = "detectOnly" THEN "manual-required" ELSE "skipped"
  /\ at' = "end"
  /\ UNCHANGED <<told, host, seen, saved>>

-----------------------------------------------------------------------------
(* 1. Snapshot.  Of a package in an unknown state the probe says anything. *)
TakeSnapshot ==
  /\ at = "begin"
  /\ kind # "detectOnly" /\ ~dry /\ Mutating
  /\ status' = "snapshotting" /\ at' = "snapshot"
  /\ UNCHANGED <<told, host, seen, saved>>

SnapshotTaken ==
  /\ at = "snapshot"
  /\ seen' \in CASE host.content = "missing" -> {FALSE}
                 [] host.content = "unknown" -> BOOLEAN
                 [] OTHER -> {TRUE}
  /\ status' = "applying" /\ at' = "apply"
  /\ UNCHANGED <<told, host, saved>>

SnapshotThrows ==
  /\ at = "snapshot"
  /\ status' = "failed" /\ at' = "end"
  /\ UNCHANGED <<told, host, seen, saved>>

(* Mutant of Failing: a failed action is left as it is. *)
FailingForGood == status' = "failed" /\ at' = "end"

(* applyError, and what is left of the run: a rollback where it may be.    *)
Failing == status' = "failed" /\ at' = IF kind \in Revertible THEN "rollback" ELSE "end"

(* 2. Apply.  No content, no command, no connection, a live file that does *)
(* not validate: nothing is done.                                          *)
ApplyRefused ==
  /\ at = "apply"
  /\ Failing
  /\ UNCHANGED <<told, host, seen, saved>>

(* Mutant of BackUp: a backup there already is kept. *)
BackUpOnce ==
  /\ at = "apply" /\ kind = "config"
  /\ \/ saved' = FALSE /\ UNCHANGED host
     \/ saved' = TRUE /\ host' \in IF host.backup = "none" THEN Copied(host) ELSE {host}
  /\ at' = "backedUp"
  /\ UNCHANGED <<told, status, seen>>

(* safeWriteConfigFile backs the file up, if it can, *)
BackUp ==
  /\ at = "apply" /\ kind = "config"
  /\ \/ saved' = FALSE /\ UNCHANGED host
     \/ saved' = TRUE /\ host' \in Copied(host)
  /\ at' = "backedUp"
  /\ UNCHANGED <<told, status, seen>>

(* writes the candidate and validates the live file once more, *)
WriteRefused ==
  /\ at = "backedUp"
  /\ Failing
  /\ UNCHANGED <<told, host, seen, saved>>

(* Mutant of Install: the old file is removed first. *)
InstallAfterRemoving ==
  /\ at = "backedUp"
  /\ \/ /\ host' \in {Holding(host, "planned"), Holding(host, "unknown")}
        /\ at' = "installed"
        /\ UNCHANGED status
     \/ host' = Holding(host, "missing") /\ Failing
  /\ UNCHANGED <<told, seen, saved>>

(* and installs the candidate. *)
Install ==
  /\ at = "backedUp"
  /\ \/ /\ host' \in {Holding(host, "planned"), Holding(host, "unknown")}
        /\ at' = "installed"
        /\ UNCHANGED status
     \/ host' = Holding(host, "unknown") /\ Failing
  /\ UNCHANGED <<told, seen, saved>>

PostValidatePasses ==
  /\ at = "installed"
  /\ status' = "verifying" /\ at' = "verify"
  /\ UNCHANGED <<told, host, seen, saved>>

(* A failed post-validate restores the backup before it reports; whether   *)
(* that worked it does not ask.                                            *)
PostValidateFails ==
  /\ at = "installed"
  /\ host' \in IF host.backup = "none" THEN {host}
               ELSE {host, Restored(host), Holding(host, "unknown")}
  /\ Failing
  /\ UNCHANGED <<told, seen, saved>>

(* The other adapters run one command. *)
RunCommand ==
  LET done == IF kind = "package" /\ host.content = "original" THEN "original" ELSE "planned"
  IN  /\ at = "apply" /\ kind # "config"
      /\ \/ /\ host' \in {Holding(host, done), Holding(host, "unknown")}
            /\ status' = "verifying" /\ at' = "verify"
         \/ host' = Holding(host, "unknown") /\ Failing
      /\ UNCHANGED <<told, seen, saved>>

(* 3. Verify *)
Verify ==
  /\ at = "verify"
  /\ \/ status' = "succeeded" /\ at' = "end"
     \/ Failing
  /\ UNCHANGED <<told, host, seen, saved>>

-----------------------------------------------------------------------------
(* tryRollback *)
StartRollback ==
  /\ at = "rollback" /\ status = "failed"
  /\ status' = "rolling-back"
  /\ UNCHANGED <<told, host, at, seen, saved>>

(* Mutant of RestoreFile: the result of the restore is not looked at. *)
RestoreFileForgotten ==
  /\ at = "rollback" /\ status = "rolling-back" /\ kind = "config"
  /\ at' = "end"
  /\ status' = "rolled-back"
  /\ UNCHANGED <<told, host, seen, saved>>

(* Mutant of RestoreFile: nothing catches a restore that throws. *)
RestoreFileUncaught ==
  /\ at = "rollback" /\ status = "rolling-back" /\ kind = "config"
  /\ IF host.backup = "none"
       THEN UNCHANGED <<host, status>>
       ELSE host' = Restored(host) /\ status' = "rolled-back"
  /\ at' = "end"
  /\ UNCHANGED <<told, seen, saved>>

(* The restore needs a backup; it is not asked which run made it.  Without *)
(* one, a restore that is cut off still counts as done.                    *)
RestoreFile ==
  /\ at = "rollback" /\ status = "rolling-back" /\ kind = "config"
  /\ at' = "end"
  /\ \/ /\ host' \in IF host.backup = "none" THEN {host}
                     ELSE {Restored(host), Holding(host, "unknown")}
        /\ status' = "rolled-back"
     \/ /\ host' \in IF host.backup = "none" THEN {host}
                     ELSE {host, Restored(host), Holding(host, "unknown")}
        /\ status' = "rollback-failed"
  /\ UNCHANGED <<told, seen, saved>>

(* The removal of a package the snapshot did not see ends in "|| true".    *)
RemovePackage ==
  /\ at = "rollback" /\ status = "rolling-back" /\ kind = "package"
  /\ at' = "end"
  /\ \/ /\ status' = "rolled-back"
        /\ host' \in IF seen THEN {host}
                     ELSE {host, Holding(host, "missing"), Holding(host, "unknown")}
     \/ status' = "rollback-failed" /\ UNCHANGED host
  /\ UNCHANGED <<told, seen, saved>>

(* The process dies: no record of the run is ever stored. *)
Crash ==
  /\ at # "end"
  /\ status' = "none" /\ at' = "end"
  /\ UNCHANGED <<told, host, seen, saved>>

Lifecycle ==
  \/ Bypass
  \/ TakeSnapshot \/ SnapshotTaken \/ SnapshotThrows
  \/ ApplyRefused \/ BackUp \/ WriteRefused \/ Install
  \/ PostValidatePasses \/ PostValidateFails \/ RunCommand
  \/ Verify
  \/ StartRollback \/ RestoreFile \/ RemovePackage

Next == (\E d \in BOOLEAN : Begin(d)) \/ Lifecycle \/ Crash

(* The commands of a run end, and Node goes on to the next one. *)
Spec == Init /\ [][Next]_vars /\ WF_vars(Lifecycle)

-----------------------------------------------------------------------------
TypeOK ==
  /\ kind \in Kinds
  /\ dry \in BOOLEAN
  /\ host \in TargetStates
  /\ status \in RunStatuses \cup {"none"}
  /\ at \in {"begin", "snapshot", "apply", "backedUp", "installed", "verify",
             "rollback", "end"}
  /\ start \in TargetStates
  /\ seen \in BOOLEAN /\ saved \in BOOLEAN
  /\ runsMade \in 0..MaxRuns

(* A run that returns has the outcome and leaves the host of one of the    *)
(* atomic runs PlanApply works with.                                       *)
EndsAsPromised ==
  at = "end" /\ status # "none" =>
    [outcome |-> status, host |-> host] \in RunsOf(kind, dry, start)

(* A run cut short by a crash leaves a host that some run might have left, *)
(* or the one it began with: to PlanApply it crashed before or after.      *)
CutShortAsPromised ==
  host = start \/ \E run \in RunsOf(kind, dry, start) : run.host = host

(* For an action that can be rolled back, a failure is reported as such    *)
(* only when the host was not touched; once the apply has begun, its       *)
(* outcome tells of the rollback.                                          *)
FailedIsUntouched ==
  at = "end" /\ status = "failed" /\ kind \in Revertible => host = start

(* The three together: what PlanApply builds on, run after run.            *)
KeepsItsPromise == EndsAsPromised /\ CutShortAsPromised /\ FailedIsUntouched

(* What a run backed up itself it gives back.                              *)
GivesBackItsBackup ==
  status = "rolled-back" /\ saved => host.content \in {start.content, "unknown"}

(* A package the snapshot saw stays installed when its action fails.       *)
SeenPackageStays ==
  kind = "package" /\ seen /\ at = "end" => host.content # "missing"

(* Every run comes to an outcome, or is forgotten by a crash. *)
RunEnds == at = "begin" ~> (at = "end" /\ status \in ActionOutcomes \cup {"none"})
=============================================================================
