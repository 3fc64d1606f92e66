----------------------------- MODULE TargetHost -----------------------------
(***************************************************************************)
(* The target host as far as one managed action can change it, and what a  *)
(* whole run of the action (runManagedAction over one of the adapters of   *)
(* managed-adapters.ts) or the plan-level undo of it (runPlanRollback) may *)
(* make of it.  Module ManagedAction takes the run step by step.           *)
(*                                                                         *)
(* Kinds of action, by adapter and canRollback:                            *)
(*   config      writeConfig, copyConfig: the file and its .envforge.bak   *)
(*   package     installPackage                                            *)
(*   command     a mutating kind without canRollback                       *)
(*   passive     review, validate, manualStep: nothing to apply            *)
(*   detectOnly  an item of support level detect-only                      *)
(***************************************************************************)

Kinds == {"config", "package", "command", "passive", "detectOnly"}
Revertible == {"config", "package"}

(* content: the file is missing or the package not installed; it is what   *)
(* it was before EnvForge came; it is what the action puts there; a        *)
(* command failed or was cut off, and nobody knows.                        *)
(* backup: the content of the one stable backup a path has, if it has one. *)
Contents == {"missing", "original", "planned", "unknown"}
Backups == {"none", "original", "planned", "unknown"}
TargetStates == [content : Contents, backup : Backups]

ActionOutcomes == {"succeeded", "failed", "rolled-back", "rollback-failed",
                   "skipped", "manual-required"}
HaltingOutcomes == {"failed", "rolled-back", "rollback-failed", "manual-required"}

Holding(t, c) == [t EXCEPT !.content = c]

(* cp -p file file.envforge.bak || true: overwrites the backup there was,  *)
(* and does nothing when there is no file.  It may be cut off; when it     *)
(* fails, nobody asks.                                                     *)
Copied(t) ==
  IF t.content = "missing" THEN {}
  ELSE {[t EXCEPT !.backup = b] : b \in {t.content, "unknown"}}

BackedUp(t) == {t} \cup Copied(t)

(* The host after an apply that reported success.  A command that was cut  *)
(* off reports no exit status, which is read as 0.                         *)
Applied(kind, t) ==
  CASE kind = "config" ->
         {Holding(b, c) : b \in BackedUp(t), c \in {"planned", "unknown"}}
    [] kind = "package" ->
         {Holding(t, c) : c \in {IF t.content = "original" THEN "original" ELSE "planned",
                                 "unknown"}}
    [] OTHER -> {Holding(t, c) : c \in {"planned", "unknown"}}

(* The host after one that did not: refused before it touched anything, or *)
(* stopped after the backup, or in the middle.                             *)
Stopped(kind, t) ==
  LET reached == IF kind = "config" THEN BackedUp(t) ELSE {t}
  IN  reached \cup {Holding(b, "unknown") : b \in reached}

(* Restoring a file takes what the stable backup holds, whoever wrote it.  *)
Restored(t) == Holding(t, t.backup)

(* tryRollback from h of an action whose snapshot was taken at t.  Only a  *)
(* package the snapshot did not see is removed, and the removal ends in    *)
(* "|| true": it counts as done, the package removed or not.               *)
Rollbacks(kind, t, h) ==
  {[outcome |-> "rollback-failed", host |-> h]} \cup
    IF kind = "config"
      THEN {[outcome |-> o, host |-> g] :
              o \in {"rolled-back", "rollback-failed"},
              g \in IF h.backup = "none" THEN {h}
                    ELSE {Restored(h), Holding(h, "unknown")}}
      ELSE {[outcome |-> "rolled-back", host |-> g] :
              g \in {h} \cup
                    IF t.content \in {"missing", "unknown"}
                      THEN {Holding(h, "missing"), Holding(h, "unknown")} ELSE {}}

(* What runManagedAction may return, and the host it may leave.  The       *)
(* snapshot fails without a trace; an apply or a verify that fails is      *)
(* rolled back where the action allows it.                                 *)
RunsOf(kind, dry, t) ==
  CASE kind = "detectOnly" -> {[outcome |-> "manual-required", host |-> t]}
    [] kind # "detectOnly" /\ (dry \/ kind = "passive") ->
         {[outcome |-> "skipped", host |-> t]}
    [] OTHER ->
         {[outcome |-> "failed", host |-> t]}
         \cup {[outcome |-> "succeeded", host |-> h] : h \in Applied(kind, t)}
         \cup UNION {IF kind \in Revertible THEN Rollbacks(kind, t, h)
                     ELSE {[outcome |-> "failed", host |-> h]} :
                       h \in Applied(kind, t) \cup Stopped(kind, t)}

(* runPlanRollback on one action: the result it records and the host it    *)
(* leaves.  A file is restored if it has a backup, a package is removed    *)
(* whether or not the snapshot had seen it.  A command that fails may have *)
(* done nothing or a part; one that was cut off counts as passed.          *)
Undone(kind, t) ==
  LET may == \/ kind = "config" /\ t.backup # "none"
             \/ kind = "package"
      there == IF kind = "config" THEN Restored(t) ELSE Holding(t, "missing")
  IN  CASE kind \notin Revertible -> {[result |-> "skipped", host |-> t]}
        [] kind \in Revertible /\ ~may -> {[result |-> "failed", host |-> t]}
        [] OTHER -> {[result |-> "passed", host |-> h] : h \in {there, Holding(t, "unknown")}}
                    \cup {[result |-> "failed", host |-> h] : h \in {t, Holding(t, "unknown")}}
=============================================================================
