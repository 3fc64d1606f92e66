------------------------- MODULE ManagedActionTheorems -------------------------
(***************************************************************************)
(* The safety properties of ManagedAction, for any number of runs.         *)
(***************************************************************************)
EXTENDS ManagedAction, TLAPS

(* What the one backup may hold in a run, and what it holds when this run  *)
(* made it.                                                                *)
Fresh(b) == start.content # "missing" /\ b \in {start.content, "unknown"}
Kept(b) == b = start.backup \/ Fresh(b)

(* A package that is there is seen, one that is not is not.                *)
SeesStart ==
  /\ start.content = "missing" => ~seen
  /\ start.content \in {"original", "planned"} => seen

(* The host after the commands of each hook, in the order of the run.      *)
AtBegin == at = "begin" => status = "pending" /\ host = start /\ ~saved /\ ~seen

AtSnapshot ==
  at = "snapshot" =>
    status = "snapshotting" /\ host = start /\ ~saved /\ ~seen /\ Mutating /\ ~dry

AtApply ==
  at = "apply" =>
    status = "applying" /\ host = start /\ ~saved /\ SeesStart /\ Mutating /\ ~dry

AtBackedUp ==
  at = "backedUp" =>
    /\ status = "applying" /\ kind = "config" /\ ~dry
    /\ host.content = start.content /\ Kept(host.backup)

AtInstalled ==
  at = "installed" =>
    /\ status = "applying" /\ kind = "config" /\ ~dry
    /\ host.content \in {"planned", "unknown"} /\ Kept(host.backup)

AtVerify ==
  at = "verify" =>
    /\ status = "verifying" /\ Mutating /\ ~dry
    /\ host \in Applied(kind, start)
    /\ kind = "config" => Kept(host.backup) /\ host.content \in {"planned", "unknown"}
    /\ kind = "package" => SeesStart

AtRollback ==
  at = "rollback" =>
    /\ status \in {"failed", "rolling-back"} /\ kind \in Revertible /\ ~dry
    /\ kind = "config" =>
         /\ Kept(host.backup)
         /\ \/ host.content \in {start.content, "planned", "unknown"}
            \/ host.backup # "none" /\ host.content = host.backup
    /\ kind = "package" =>
         /\ SeesStart
         /\ host \in Applied(kind, start) \cup Stopped(kind, start)

(* While the run lasts, its backup is of what it found.                    *)
SavedIsFresh == saved => kind = "config" /\ (at # "end" => Fresh(host.backup))

SeenIsThere == kind = "package" /\ seen => host.content # "missing"

Places ==
  /\ TypeOK
  /\ AtBegin /\ AtSnapshot /\ AtApply /\ AtBackedUp /\ AtInstalled /\ AtVerify /\ AtRollback
  /\ SavedIsFresh /\ SeenIsThere
  /\ at = "end" => status \in ActionOutcomes \cup {"none"}

IInv == Places /\ EndsAsPromised /\ CutShortAsPromised /\ FailedIsUntouched /\ GivesBackItsBackup

-----------------------------------------------------------------------------
(* What RunsOf holds.                                                      *)
State(c, b) == [content |-> c, backup |-> b]

LEMMA Fields ==
  ASSUME NEW t \in TargetStates, NEW c
  PROVE  /\ t = State(t.content, t.backup)
         /\ Holding(t, c) = State(c, t.backup)
         /\ t.content \in Contents /\ t.backup \in Backups
BY DEF TargetStates, Holding, State

LEMMA KeptIsBackedUp ==
  ASSUME start \in TargetStates, NEW b, Kept(b)
  PROVE  State(start.content, b) \in BackedUp(start)
<1>1. CASE b = start.backup
  BY <1>1, Fields DEF BackedUp
<1>2. CASE Fresh(b)
  <2>1. [start EXCEPT !.backup = b] = State(start.content, b)
    BY DEF TargetStates, State
  <2> QED BY <1>2, <2>1 DEF Fresh, BackedUp, Copied
<1> QED BY <1>1, <1>2 DEF Kept

LEMMA AppliedConfig ==
  ASSUME start \in TargetStates, NEW b, Kept(b), NEW c \in {"planned", "unknown"}
  PROVE  State(c, b) \in Applied("config", start)
<1>1. Holding(State(start.content, b), c) = State(c, b)
  BY DEF Holding, State
<1> QED BY <1>1, KeptIsBackedUp DEF Applied

LEMMA ReachedConfig ==
  ASSUME start \in TargetStates, NEW b, Kept(b), NEW c \in {start.content, "planned", "unknown"}
  PROVE  State(c, b) \in Applied("config", start) \cup Stopped("config", start)
<1>1. CASE c = start.content
  BY <1>1, KeptIsBackedUp DEF Stopped
<1>2. CASE c # start.content
  BY <1>2, AppliedConfig
<1> QED BY <1>1, <1>2

LEMMA RunsThatFail ==
  ASSUME NEW k \in {"config", "package", "command"}, NEW t,
         NEW h \in Applied(k, t) \cup Stopped(k, t)
  PROVE  /\ k \in Revertible => Rollbacks(k, t, h) \subseteq RunsOf(k, FALSE, t)
         /\ k \notin Revertible => [outcome |-> "failed", host |-> h] \in RunsOf(k, FALSE, t)
<1> DEFINE Results(g) == IF k \in Revertible THEN Rollbacks(k, t, g)
                         ELSE {[outcome |-> "failed", host |-> g]}
<1>1. UNION {Results(g) : g \in Applied(k, t) \cup Stopped(k, t)} \subseteq RunsOf(k, FALSE, t)
  BY DEF RunsOf
<1>2. Results(h) \subseteq RunsOf(k, FALSE, t)
  <2> HIDE DEF Results
  <2> QED BY <1>1
<1> QED BY <1>2

LEMMA RunsThatSucceed ==
  ASSUME NEW k \in {"config", "package", "command"}, NEW t, NEW h \in Applied(k, t)
  PROVE  [outcome |-> "succeeded", host |-> h] \in RunsOf(k, FALSE, t)
BY DEF RunsOf

-----------------------------------------------------------------------------
(* Where a run stands.                                                     *)
LEMMA InitInv == Init => IInv
<1> SUFFICES ASSUME Init PROVE IInv
  OBVIOUS
<1>1. host \in TargetStates /\ host.content # "planned"
  BY DEF Init, TargetStates, Contents, Backups
<1>2. TypeOK
  <2>1. runsMade \in 0..MaxRuns
    BY ManagedActionAssumptions DEF Init
  <2> QED BY <1>1, <2>1 DEF Init, TypeOK
<1>3. EndsAsPromised /\ CutShortAsPromised /\ FailedIsUntouched /\ GivesBackItsBackup
  BY DEF Init, EndsAsPromised, CutShortAsPromised, FailedIsUntouched, GivesBackItsBackup
<1> QED
  BY <1>2, <1>3
  DEF Init, IInv, Places, AtBegin, AtSnapshot, AtApply, AtBackedUp, AtInstalled,
      AtVerify, AtRollback, SavedIsFresh, SeenIsThere

LEMMA BeginStep ==
  ASSUME IInv, NEW d \in BOOLEAN, Begin(d)
  PROVE  IInv'
<1>1. /\ at' = "begin" /\ status' = "pending" /\ host' = host /\ start' = host
      /\ dry' = d /\ kind' = kind /\ seen' = FALSE /\ saved' = FALSE
  BY DEF Begin
<1>4. runsMade' \in 0..MaxRuns
  <2>1. runsMade \in Nat /\ runsMade < MaxRuns /\ runsMade' = runsMade + 1
    BY ManagedActionAssumptions DEF Begin, IInv, Places, TypeOK
  <2> QED BY <2>1, ManagedActionAssumptions
<1>2. TypeOK'
  BY <1>1, <1>4 DEF IInv, Places, TypeOK, RunStatuses
<1>3. EndsAsPromised' /\ CutShortAsPromised' /\ FailedIsUntouched' /\ GivesBackItsBackup'
  BY <1>1 DEF EndsAsPromised, CutShortAsPromised, FailedIsUntouched, GivesBackItsBackup
<1> QED
  BY <1>1, <1>2, <1>3
  DEF IInv, Places, AtBegin, AtSnapshot, AtApply, AtBackedUp, AtInstalled,
      AtVerify, AtRollback, SavedIsFresh, SeenIsThere

(* A step that leaves the host and what is told of the run as they are,    *)
(* and does not end it.                                                    *)
LEMMA StillStep ==
  ASSUME IInv, UNCHANGED <<told, host>>, at' # "end", status' # "rolled-back"
  PROVE  EndsAsPromised' /\ CutShortAsPromised' /\ FailedIsUntouched' /\ GivesBackItsBackup'
BY DEF IInv, told, EndsAsPromised, CutShortAsPromised, FailedIsUntouched, GivesBackItsBackup

LEMMA SnapshotStep ==
  ASSUME IInv, TakeSnapshot \/ SnapshotTaken
  PROVE  IInv'
<1>1. /\ kind' = kind /\ dry' = dry /\ start' = start /\ runsMade' = runsMade /\ host' = host
      /\ saved' = saved
  BY DEF TakeSnapshot, SnapshotTaken, told
<1>2. CASE TakeSnapshot
  BY <1>1, <1>2, StillStep
  DEF TakeSnapshot, told, IInv, Places, TypeOK, AtBegin, AtSnapshot, AtApply, AtBackedUp,
      AtInstalled, AtVerify, AtRollback, SavedIsFresh, SeenIsThere, Mutating, RunStatuses
<1>3. CASE SnapshotTaken
  <2>1. host = start /\ host.content \in Contents
    BY <1>3, Fields DEF SnapshotTaken, IInv, Places, AtSnapshot, TypeOK
  <2>2. seen' \in BOOLEAN /\ SeesStart' /\ (seen' => host.content # "missing")
    BY <1>1, <1>3, <2>1 DEF SnapshotTaken, SeesStart, Contents
  <2>3. EndsAsPromised' /\ CutShortAsPromised' /\ FailedIsUntouched' /\ GivesBackItsBackup'
    BY <1>1, <1>3, StillStep DEF SnapshotTaken, told
  <2> QED
    BY <1>1, <1>3, <2>1, <2>2, <2>3
    DEF SnapshotTaken, IInv, Places, TypeOK, AtBegin, AtSnapshot, AtApply, AtBackedUp,
        AtInstalled, AtVerify, AtRollback, SavedIsFresh, SeenIsThere, Mutating, RunStatuses
<1> QED BY <1>2, <1>3

LEMMA EndsAtOnce ==
  ASSUME IInv, Bypass \/ SnapshotThrows
  PROVE  IInv'
<1>1. /\ kind' = kind /\ dry' = dry /\ start' = start /\ runsMade' = runsMade /\ host' = host
      /\ saved' = saved /\ seen' = seen /\ at' = "end"
      /\ host = start
      /\ status' \in {"manual-required", "skipped", "failed"}
  BY DEF Bypass, SnapshotThrows, told, IInv, Places, AtBegin, AtSnapshot
<1>2. [outcome |-> status', host |-> start] \in RunsOf(kind, dry, start)
  <2>1. CASE Bypass
    BY <2>1 DEF Bypass, RunsOf, Mutating, IInv, Places, TypeOK, Kinds
  <2>2. CASE SnapshotThrows
    BY <2>2 DEF SnapshotThrows, RunsOf, Mutating, IInv, Places, AtSnapshot
  <2> QED BY <2>1, <2>2
<1>3. EndsAsPromised' /\ CutShortAsPromised' /\ FailedIsUntouched' /\ GivesBackItsBackup'
  BY <1>1, <1>2
  DEF EndsAsPromised, CutShortAsPromised, FailedIsUntouched, GivesBackItsBackup
<1>4. TypeOK' /\ SavedIsFresh' /\ SeenIsThere' /\ status' \in ActionOutcomes
  BY <1>1 DEF IInv, Places, TypeOK, SavedIsFresh, SeenIsThere, RunStatuses, ActionOutcomes
<1> QED
  BY <1>1, <1>3, <1>4
  DEF IInv, Places, AtBegin, AtSnapshot, AtApply, AtBackedUp, AtInstalled, AtVerify, AtRollback

-----------------------------------------------------------------------------
(* Runs of a config action that were rolled back, or should have been.     *)
LEMMA ConfigFailed ==
  ASSUME start \in TargetStates, NEW b, Kept(b), NEW c,
         c \in {start.content, "planned", "unknown"} \/ (b # "none" /\ c = b)
  PROVE  [outcome |-> "rollback-failed", host |-> State(c, b)] \in RunsOf("config", FALSE, start)
<1>1. CASE c \in {start.content, "planned", "unknown"}
  <2>1. State(c, b) \in Applied("config", start) \cup Stopped("config", start)
    BY <1>1, ReachedConfig
  <2>2. [outcome |-> "rollback-failed", host |-> State(c, b)]
          \in Rollbacks("config", start, State(c, b))
    BY DEF Rollbacks
  <2> QED BY <2>1, <2>2, RunsThatFail DEF Revertible
<1>2. CASE b # "none" /\ c = b
  <2>1. State("unknown", b) \in Applied("config", start) \cup Stopped("config", start)
    BY ReachedConfig
  <2>2. Restored(State("unknown", b)) = State(c, b) /\ State("unknown", b).backup = b
    BY <1>2 DEF Restored, Holding, State
  <2>3. [outcome |-> "rollback-failed", host |-> State(c, b)]
          \in Rollbacks("config", start, State("unknown", b))
    BY <1>2, <2>2 DEF Rollbacks
  <2> QED BY <2>1, <2>3, RunsThatFail DEF Revertible
<1> QED BY <1>1, <1>2

LEMMA ConfigRestored ==
  ASSUME start \in TargetStates, NEW b, Kept(b), NEW o \in {"rolled-back", "rollback-failed"},
         NEW c, IF b = "none" THEN c \in {start.content, "planned", "unknown"}
                ELSE c \in {b, "unknown"}
  PROVE  [outcome |-> o, host |-> State(c, b)] \in RunsOf("config", FALSE, start)
<1>1. CASE b = "none"
  <2>1. State(c, b) \in Applied("config", start) \cup Stopped("config", start)
    BY <1>1, ReachedConfig
  <2>2. [outcome |-> o, host |-> State(c, b)] \in Rollbacks("config", start, State(c, b))
    BY <1>1 DEF Rollbacks, State
  <2> QED BY <2>1, <2>2, RunsThatFail DEF Revertible
<1>2. CASE b # "none"
  <2> DEFINE h == State("unknown", b)
  <2>1. h \in Applied("config", start) \cup Stopped("config", start)
    BY ReachedConfig
  <2>2. Restored(h) = State(b, b) /\ Holding(h, "unknown") = State("unknown", b) /\ h.backup = b
    BY DEF Restored, Holding, State
  <2>3. [outcome |-> o, host |-> State(c, b)] \in Rollbacks("config", start, h)
    BY <1>2, <2>2 DEF Rollbacks
  <2> QED BY <2>1, <2>3, RunsThatFail DEF Revertible
<1> QED BY <1>1, <1>2

(* A run that fails with a host it may leave so.                           *)
LEMMA FailStep ==
  ASSUME IInv, Failing, UNCHANGED <<told, seen, saved>>, Mutating, ~dry, at # "end",
         NEW h, h = host', h \in TargetStates,
         saved => kind = "config" /\ Fresh(h.backup),
         kind = "config" =>
           /\ Kept(h.backup)
           /\ \/ h.content \in {start.content, "planned", "unknown"}
              \/ h.backup # "none" /\ h.content = h.backup,
         kind # "config" => h \in Applied(kind, start) \cup Stopped(kind, start),
         kind = "package" => SeesStart /\ (seen => h.content # "missing")
  PROVE  IInv'
<1>1. /\ kind' = kind /\ dry' = dry /\ start' = start /\ runsMade' = runsMade
      /\ seen' = seen /\ saved' = saved /\ host' = h
      /\ status' = "failed" /\ at' = IF kind \in Revertible THEN "rollback" ELSE "end"
      /\ kind \in {"config", "package", "command"} /\ dry = FALSE /\ start \in TargetStates
  BY DEF Failing, told, Mutating, IInv, Places, TypeOK
<1>2. kind = "config" =>
        [outcome |-> "rollback-failed", host |-> h] \in RunsOf(kind, dry, start)
  <2> SUFFICES ASSUME kind = "config"
               PROVE  [outcome |-> "rollback-failed", host |-> h] \in RunsOf("config", FALSE, start)
    BY <1>1
  <2> DEFINE c == h.content
             b == h.backup
  <2>1. h = State(c, b)
    BY Fields
  <2>2. Kept(b) /\ (c \in {start.content, "planned", "unknown"} \/ (b # "none" /\ c = b))
    OBVIOUS
  <2> HIDE DEF c, b
  <2> QED BY <1>1, <2>1, <2>2, ConfigFailed
<1>3. kind = "package" =>
        [outcome |-> "rollback-failed", host |-> h] \in RunsOf(kind, dry, start)
  <2> SUFFICES ASSUME kind = "package"
               PROVE  [outcome |-> "rollback-failed", host |-> h] \in RunsOf("package", FALSE, start)
    BY <1>1
  <2>1. [outcome |-> "rollback-failed", host |-> h] \in Rollbacks("package", start, h)
    BY DEF Rollbacks
  <2> QED BY <2>1, RunsThatFail DEF Revertible
<1>4. kind = "command" => [outcome |-> "failed", host |-> h] \in RunsOf(kind, dry, start)
  BY <1>1, RunsThatFail DEF Revertible
<1>5. CutShortAsPromised'
  BY <1>1, <1>2, <1>3, <1>4 DEF CutShortAsPromised
<1>6. EndsAsPromised' /\ FailedIsUntouched' /\ GivesBackItsBackup'
  BY <1>1, <1>4 DEF EndsAsPromised, FailedIsUntouched, GivesBackItsBackup, Revertible
<1>7. TypeOK'
  BY <1>1 DEF IInv, Places, TypeOK, RunStatuses, ActionOutcomes
<1>8. AtRollback'
  BY <1>1 DEF AtRollback, Kept, Fresh, SeesStart
<1>9. SavedIsFresh' /\ SeenIsThere' /\ (at' = "end" => status' \in ActionOutcomes \cup {"none"})
  BY <1>1 DEF SavedIsFresh, SeenIsThere, Fresh, ActionOutcomes
<1> QED
  BY <1>1, <1>5, <1>6, <1>7, <1>8, <1>9
  DEF IInv, Places, AtBegin, AtSnapshot, AtApply, AtBackedUp, AtInstalled, AtVerify

-----------------------------------------------------------------------------
LEMMA Moves ==
  ASSUME IInv, UNCHANGED told
  PROVE  kind' = kind /\ dry' = dry /\ start' = start /\ runsMade' = runsMade
         /\ start \in TargetStates /\ host \in TargetStates /\ dry \in BOOLEAN /\ kind \in Kinds
         /\ host = State(host.content, host.backup)
BY Fields DEF told, IInv, Places, TypeOK

LEMMA ApplyRefusedStep ==
  ASSUME IInv, ApplyRefused
  PROVE  IInv'
<1>1. host = start /\ ~saved /\ SeesStart /\ Mutating /\ ~dry /\ host' = host
      /\ Failing /\ UNCHANGED <<told, seen, saved>> /\ at # "end"
  BY DEF ApplyRefused, IInv, Places, AtApply
<1>2. Kept(start.backup) /\ start \in TargetStates
  BY <1>1, Moves DEF Kept
<1>3. kind # "config" => start \in Stopped(kind, start)
  BY DEF Stopped
<1>4. kind = "package" => SeesStart /\ (seen => start.content # "missing")
  BY <1>1 DEF SeesStart
<1> QED BY <1>1, <1>2, <1>3, <1>4, FailStep

LEMMA BackUpStep ==
  ASSUME IInv, BackUp
  PROVE  IInv'
<1>1. kind' = kind /\ dry' = dry /\ start' = start /\ runsMade' = runsMade /\ seen' = seen
      /\ status' = status /\ at' = "backedUp" /\ status = "applying" /\ kind = "config"
      /\ host = start /\ ~dry /\ start \in TargetStates /\ saved = FALSE
  BY DEF BackUp, told, IInv, Places, AtApply, TypeOK
<1>2. PICK b \in Backups :
        /\ host' = State(start.content, b) /\ Kept(b)
        /\ saved' \in BOOLEAN /\ (saved' => Fresh(b))
  <2>1. CASE saved' = FALSE /\ host' = host
    BY <1>1, <2>1, Fields DEF Kept
  <2>2. CASE saved' = TRUE /\ host' \in Copied(host)
    <3>1. PICK b \in {start.content, "unknown"} :
            host' = [start EXCEPT !.backup = b] /\ start.content # "missing"
      BY <1>1, <2>2 DEF Copied
    <3>2. b \in Backups /\ Fresh(b) /\ host' = State(start.content, b)
      BY <1>1, <3>1, Fields DEF Fresh, TargetStates, State, Contents, Backups
    <3> QED BY <2>2, <3>2 DEF Kept
  <2> QED BY <2>1, <2>2 DEF BackUp
<1>3. host' \in TargetStates /\ host'.content = start.content /\ host'.backup = b
  BY <1>1, <1>2, Fields DEF State, TargetStates
<1>4. [outcome |-> "rollback-failed", host |-> host'] \in RunsOf(kind, dry, start)
  BY <1>1, <1>2, ConfigFailed DEF IInv, Places, TypeOK
<1>5. CutShortAsPromised'
  BY <1>1, <1>4 DEF CutShortAsPromised
<1>6. EndsAsPromised' /\ FailedIsUntouched' /\ GivesBackItsBackup'
  BY <1>1 DEF EndsAsPromised, FailedIsUntouched, GivesBackItsBackup
<1>7. TypeOK'
  BY <1>1, <1>2, <1>3 DEF IInv, Places, TypeOK, RunStatuses
<1>8. AtBackedUp' /\ SavedIsFresh'
  BY <1>1, <1>2, <1>3 DEF AtBackedUp, SavedIsFresh, Kept, Fresh
<1> QED
  BY <1>1, <1>5, <1>6, <1>7, <1>8
  DEF IInv, Places, AtBegin, AtSnapshot, AtApply, AtInstalled, AtVerify, AtRollback, SeenIsThere

LEMMA WriteRefusedStep ==
  ASSUME IInv, WriteRefused
  PROVE  IInv'
<1>1. kind = "config" /\ ~dry /\ host' = host /\ Failing /\ UNCHANGED <<told, seen, saved>>
      /\ at # "end" /\ host.content = start.content /\ Kept(host.backup)
      /\ (saved => Fresh(host.backup)) /\ host \in TargetStates
  BY DEF WriteRefused, IInv, Places, TypeOK, AtBackedUp, SavedIsFresh
<1> QED BY <1>1, FailStep DEF Mutating

LEMMA InstallStep ==
  ASSUME IInv, Install
  PROVE  IInv'
<1>1. kind = "config" /\ ~dry /\ UNCHANGED <<told, seen, saved>>
      /\ at # "end" /\ Kept(host.backup) /\ status = "applying"
      /\ (saved => Fresh(host.backup)) /\ host \in TargetStates
  BY DEF Install, IInv, Places, TypeOK, AtBackedUp, SavedIsFresh
<1>2. PICK c \in {"planned", "unknown"} :
        host' = Holding(host, c) /\ (Failing \/ (at' = "installed" /\ status' = status))
  BY DEF Install
<1>3. host' = State(c, host.backup) /\ host' \in TargetStates
      /\ host'.content = c /\ host'.backup = host.backup
  BY <1>1, <1>2, Fields DEF State, TargetStates, Contents
<1>4. CASE Failing
  BY <1>1, <1>3, <1>4, FailStep DEF Mutating
<1>5. CASE at' = "installed" /\ status' = status
  <2>1. kind' = kind /\ dry' = dry /\ start' = start /\ runsMade' = runsMade
        /\ start \in TargetStates /\ dry = FALSE
    BY <1>1, Moves
  <2>2. [outcome |-> "rollback-failed", host |-> host'] \in RunsOf(kind, dry, start)
    BY <1>1, <1>3, <2>1, ConfigFailed
  <2>3. CutShortAsPromised'
    BY <2>1, <2>2 DEF CutShortAsPromised
  <2>4. EndsAsPromised' /\ FailedIsUntouched' /\ GivesBackItsBackup'
    BY <1>1, <1>5 DEF EndsAsPromised, FailedIsUntouched, GivesBackItsBackup
  <2>5. TypeOK'
    BY <1>1, <1>3, <1>5, <2>1 DEF IInv, Places, TypeOK
  <2>6. AtInstalled' /\ SavedIsFresh'
    BY <1>1, <1>3, <1>5, <2>1 DEF AtInstalled, SavedIsFresh, Kept, Fresh
  <2> QED
    BY <1>1, <1>5, <2>1, <2>3, <2>4, <2>5, <2>6
    DEF IInv, Places, AtBegin, AtSnapshot, AtApply, AtBackedUp, AtVerify, AtRollback, SeenIsThere
<1> QED BY <1>2, <1>4, <1>5

-----------------------------------------------------------------------------
LEMMA PostValidatePassesStep ==
  ASSUME IInv, PostValidatePasses
  PROVE  IInv'
<1>1. /\ kind' = kind /\ dry' = dry /\ start' = start /\ runsMade' = runsMade
      /\ seen' = seen /\ saved' = saved /\ host' = host /\ status' = "verifying" /\ at' = "verify"
      /\ kind = "config" /\ ~dry /\ start \in TargetStates /\ at = "installed"
      /\ host.content \in {"planned", "unknown"} /\ Kept(host.backup)
      /\ host = State(host.content, host.backup)
  BY Fields DEF PostValidatePasses, told, IInv, Places, TypeOK, AtInstalled
<1>2. host \in Applied("config", start)
  <2> DEFINE c == host.content
             b == host.backup
  <2>1. host = State(c, b) /\ c \in {"planned", "unknown"} /\ Kept(b)
    BY <1>1
  <2> HIDE DEF c, b
  <2> QED BY <1>1, <2>1, AppliedConfig
<1>3. AtVerify'
  BY <1>1, <1>2 DEF AtVerify, Mutating, Kept, Fresh
<1>4. EndsAsPromised' /\ CutShortAsPromised' /\ FailedIsUntouched' /\ GivesBackItsBackup'
  BY <1>1, StillStep DEF told
<1>5. SavedIsFresh'
  BY <1>1 DEF SavedIsFresh, IInv, Places, Fresh
<1> QED
  BY <1>1, <1>3, <1>4, <1>5
  DEF IInv, Places, TypeOK, RunStatuses, AtBegin, AtSnapshot, AtApply, AtBackedUp, AtInstalled,
      AtRollback, SeenIsThere

LEMMA PostValidateFailsStep ==
  ASSUME IInv, PostValidateFails
  PROVE  IInv'
<1>1. kind = "config" /\ ~dry /\ Failing /\ UNCHANGED <<told, seen, saved>>
      /\ at # "end" /\ Kept(host.backup) /\ host.content \in {"planned", "unknown"}
      /\ (saved => Fresh(host.backup)) /\ host \in TargetStates
  BY DEF PostValidateFails, IInv, Places, TypeOK, AtInstalled, SavedIsFresh
<1>2. /\ host' \in TargetStates /\ host'.backup = host.backup
      /\ \/ host'.content \in {"planned", "unknown"}
         \/ host.backup # "none" /\ host'.content = host.backup
  BY <1>1, Fields DEF PostValidateFails, Restored, State, TargetStates, Contents, Backups
<1> QED BY <1>1, <1>2, FailStep DEF Mutating

LEMMA RunCommandStep ==
  ASSUME IInv, RunCommand
  PROVE  IInv'
<1>1. kind \in {"package", "command"} /\ ~dry /\ UNCHANGED <<told, seen, saved>>
      /\ at = "apply" /\ host = start /\ ~saved /\ SeesStart /\ status = "applying"
      /\ start \in TargetStates /\ Mutating
  BY DEF RunCommand, IInv, Places, TypeOK, AtApply, Mutating
<1> DEFINE done == IF kind = "package" /\ start.content = "original" THEN "original" ELSE "planned"
<1>2. PICK c \in {done, "unknown"} :
        /\ host' = Holding(start, c)
        /\ Failing \/ (status' = "verifying" /\ at' = "verify")
  BY <1>1 DEF RunCommand
<1>3. host' \in TargetStates /\ host'.content = c /\ c # "missing"
  BY <1>1, <1>2, Fields DEF State, TargetStates, Contents
<1>4. host' \in Applied(kind, start)
  BY <1>1, <1>2 DEF Applied
<1>5. CASE Failing
  <2>1. kind # "config" /\ host' \in Applied(kind, start) \cup Stopped(kind, start)
    BY <1>1, <1>4
  <2> QED BY <1>1, <1>3, <1>5, <2>1, FailStep
<1>6. CASE status' = "verifying" /\ at' = "verify"
  <2>1. kind' = kind /\ dry' = dry /\ start' = start /\ runsMade' = runsMade
        /\ seen' = seen /\ saved' = saved /\ dry = FALSE
    BY <1>1, Moves
  <2>2. [outcome |-> "succeeded", host |-> host'] \in RunsOf(kind, dry, start)
    BY <1>1, <1>4, <2>1, RunsThatSucceed
  <2>3. CutShortAsPromised'
    BY <2>1, <2>2 DEF CutShortAsPromised
  <2>4. EndsAsPromised' /\ FailedIsUntouched' /\ GivesBackItsBackup'
    BY <1>1, <1>6, <2>1 DEF EndsAsPromised, FailedIsUntouched, GivesBackItsBackup
  <2>5. TypeOK'
    BY <1>1, <1>3, <1>6, <2>1 DEF IInv, Places, TypeOK, RunStatuses
  <2>6. AtVerify' /\ SavedIsFresh' /\ SeenIsThere'
    BY <1>1, <1>3, <1>4, <1>6, <2>1 DEF AtVerify, SavedIsFresh, SeenIsThere, SeesStart, Mutating
  <2> QED
    BY <1>1, <1>6, <2>1, <2>3, <2>4, <2>5, <2>6
    DEF IInv, Places, AtBegin, AtSnapshot, AtApply, AtBackedUp, AtInstalled, AtRollback
<1> QED BY <1>2, <1>5, <1>6

LEMMA VerifyStep ==
  ASSUME IInv, Verify
  PROVE  IInv'
<1>1. /\ kind' = kind /\ dry' = dry /\ start' = start /\ runsMade' = runsMade
      /\ seen' = seen /\ saved' = saved /\ host' = host
      /\ at = "verify" /\ Mutating /\ ~dry /\ dry = FALSE /\ start \in TargetStates
      /\ host \in TargetStates /\ host \in Applied(kind, start)
  BY DEF Verify, told, IInv, Places, TypeOK, AtVerify
<1>2. CASE status' = "succeeded" /\ at' = "end"
  <2>1. [outcome |-> "succeeded", host |-> host] \in RunsOf(kind, dry, start)
    BY <1>1, RunsThatSucceed DEF Mutating
  <2>2. EndsAsPromised' /\ CutShortAsPromised' /\ FailedIsUntouched' /\ GivesBackItsBackup'
    BY <1>1, <1>2, <2>1
    DEF EndsAsPromised, CutShortAsPromised, FailedIsUntouched, GivesBackItsBackup
  <2> QED
    BY <1>1, <1>2, <2>2
    DEF IInv, Places, TypeOK, AtBegin, AtSnapshot, AtApply, AtBackedUp, AtInstalled,
        AtVerify, AtRollback, SavedIsFresh, SeenIsThere, RunStatuses, ActionOutcomes
<1>3. CASE Failing
  <2>1. kind = "config" => Kept(host.backup) /\ host.content \in {"planned", "unknown"}
    BY <1>1 DEF IInv, Places, AtVerify
  <2>2. kind = "package" => SeesStart /\ (seen => host.content # "missing")
    BY <1>1 DEF IInv, Places, AtVerify, SeenIsThere
  <2>3. saved => kind = "config" /\ Fresh(host.backup)
    BY <1>1 DEF IInv, Places, SavedIsFresh
  <2>4. UNCHANGED <<told, seen, saved>>
    BY <1>1 DEF told
  <2> QED BY <1>1, <1>3, <2>1, <2>2, <2>3, <2>4, FailStep
<1> QED BY <1>2, <1>3 DEF Verify

-----------------------------------------------------------------------------
LEMMA StartRollbackStep ==
  ASSUME IInv, StartRollback
  PROVE  IInv'
<1>1. /\ kind' = kind /\ dry' = dry /\ start' = start /\ runsMade' = runsMade
      /\ seen' = seen /\ saved' = saved /\ host' = host /\ at' = at
      /\ at = "rollback" /\ status' = "rolling-back"
  BY DEF StartRollback, told
<1>2. EndsAsPromised' /\ CutShortAsPromised' /\ FailedIsUntouched' /\ GivesBackItsBackup'
  BY <1>1, StillStep DEF told
<1>3. AtRollback' /\ SavedIsFresh'
  BY <1>1 DEF IInv, Places, AtRollback, SavedIsFresh, SeesStart, Kept, Fresh
<1> QED
  BY <1>1, <1>2, <1>3
  DEF IInv, Places, TypeOK, AtBegin, AtSnapshot, AtApply, AtBackedUp, AtInstalled,
      AtVerify, SeenIsThere, RunStatuses

(* A rollback that ends as a run may.                                      *)
LEMMA RolledStep ==
  ASSUME IInv, at = "rollback", at' = "end", UNCHANGED <<told, seen, saved>>,
         NEW h \in TargetStates, h = host',
         NEW o \in {"rolled-back", "rollback-failed"}, o = status',
         [outcome |-> o, host |-> h] \in RunsOf(kind, dry, start),
         o = "rolled-back" /\ saved => h.content \in {start.content, "unknown"},
         kind = "package" /\ seen => h.content # "missing"
  PROVE  IInv'
<1>1. /\ kind' = kind /\ dry' = dry /\ start' = start /\ runsMade' = runsMade
      /\ seen' = seen /\ saved' = saved
  BY DEF told
<1>2. EndsAsPromised' /\ CutShortAsPromised' /\ FailedIsUntouched' /\ GivesBackItsBackup'
  BY <1>1 DEF EndsAsPromised, CutShortAsPromised, FailedIsUntouched, GivesBackItsBackup
<1>3. TypeOK' /\ SavedIsFresh' /\ SeenIsThere'
  BY <1>1 DEF IInv, Places, TypeOK, SavedIsFresh, SeenIsThere, RunStatuses, ActionOutcomes
<1> QED
  BY <1>1, <1>2, <1>3
  DEF IInv, Places, AtBegin, AtSnapshot, AtApply, AtBackedUp, AtInstalled, AtVerify, AtRollback,
      ActionOutcomes

LEMMA RestoreFileStep ==
  ASSUME IInv, RestoreFile
  PROVE  IInv'
<1> DEFINE b == host.backup
<1>1. /\ kind = "config" /\ dry = FALSE /\ start \in TargetStates /\ host \in TargetStates
      /\ at = "rollback" /\ at' = "end" /\ UNCHANGED <<told, seen, saved>>
      /\ Kept(b) /\ (saved => Fresh(b))
      /\ host.content \in {start.content, "planned", "unknown"}
           \/ (b # "none" /\ host.content = b)
  BY DEF RestoreFile, IInv, Places, TypeOK, AtRollback, SavedIsFresh
<1>2. PICK o \in {"rolled-back", "rollback-failed"} :
        /\ status' = o
        /\ host' \in IF b = "none" THEN {host}
                     ELSE {Restored(host), Holding(host, "unknown")}
                          \cup (IF o = "rollback-failed" THEN {host} ELSE {})
  BY DEF RestoreFile
<1>3. PICK c : /\ host' = State(c, b) /\ host' \in TargetStates /\ host'.content = c
               /\ \/ b = "none" /\ c = host.content
                  \/ b # "none" /\ c \in {b, "unknown"}
                  \/ o = "rollback-failed" /\ c = host.content
  BY <1>1, <1>2, Fields DEF Restored, State, TargetStates, Contents, Backups
<1>4. [outcome |-> o, host |-> State(c, b)] \in RunsOf("config", FALSE, start)
  <2> HIDE DEF b
  <2>1. CASE o = "rollback-failed" /\ c = host.content
    BY <1>1, <2>1, ConfigFailed
  <2>2. CASE b = "none" /\ c = host.content
    BY <1>1, <2>2, ConfigRestored
  <2>3. CASE b # "none" /\ c \in {b, "unknown"}
    BY <1>1, <2>3, ConfigRestored
  <2> QED BY <1>3, <2>1, <2>2, <2>3
<1>5. o = "rolled-back" /\ saved => c \in {start.content, "unknown"}
  <2>1. saved => b # "none"
    BY <1>1, Fields DEF Fresh, Contents
  <2> QED BY <1>1, <1>3, <2>1 DEF Fresh
<1> QED BY <1>1, <1>2, <1>3, <1>4, <1>5, RolledStep

LEMMA RemovePackageStep ==
  ASSUME IInv, RemovePackage
  PROVE  IInv'
<1>1. /\ kind = "package" /\ dry = FALSE /\ start \in TargetStates /\ host \in TargetStates
      /\ at = "rollback" /\ at' = "end" /\ UNCHANGED <<told, seen, saved>> /\ ~saved
      /\ SeesStart /\ host \in Applied(kind, start) \cup Stopped(kind, start)
      /\ (seen => host.content # "missing")
  BY DEF RemovePackage, IInv, Places, TypeOK, AtRollback, SavedIsFresh, SeenIsThere
<1>2. PICK o \in {"rolled-back", "rollback-failed"} :
        /\ status' = o
        /\ IF o = "rollback-failed" \/ seen THEN host' = host
           ELSE host' \in {host, Holding(host, "missing"), Holding(host, "unknown")}
  BY DEF RemovePackage
<1>3. host' \in TargetStates
  BY <1>1, <1>2, Fields DEF State, TargetStates, Contents
<1>4. [outcome |-> o, host |-> host'] \in Rollbacks("package", start, host)
  <2>1. CASE o = "rollback-failed"
    BY <1>2, <2>1 DEF Rollbacks
  <2>2. CASE o = "rolled-back" /\ seen
    BY <1>1, <1>2, <2>2 DEF Rollbacks, SeesStart
  <2>3. CASE o = "rolled-back" /\ ~seen
    <3>1. start.content \in {"missing", "unknown"}
      BY <1>1, <2>3, Fields DEF SeesStart, Contents
    <3>2. host' \in {host, Holding(host, "missing"), Holding(host, "unknown")}
      BY <1>2, <2>3
    <3> QED BY <2>3, <3>1, <3>2 DEF Rollbacks
  <2> QED BY <2>1, <2>2, <2>3
<1>5. [outcome |-> o, host |-> host'] \in RunsOf("package", FALSE, start)
  BY <1>1, <1>4, RunsThatFail DEF Revertible
<1> QED BY <1>1, <1>2, <1>3, <1>5, RolledStep

LEMMA CrashStep ==
  ASSUME IInv, Crash
  PROVE  IInv'
<1>1. /\ kind' = kind /\ dry' = dry /\ start' = start /\ runsMade' = runsMade
      /\ seen' = seen /\ saved' = saved /\ host' = host /\ at' = "end" /\ status' = "none"
  BY DEF Crash, told
<1>2. EndsAsPromised' /\ CutShortAsPromised' /\ FailedIsUntouched' /\ GivesBackItsBackup'
  BY <1>1 DEF IInv, EndsAsPromised, CutShortAsPromised, FailedIsUntouched, GivesBackItsBackup
<1> QED
  BY <1>1, <1>2
  DEF IInv, Places, TypeOK, AtBegin, AtSnapshot, AtApply, AtBackedUp, AtInstalled,
      AtVerify, AtRollback, SavedIsFresh, SeenIsThere

-----------------------------------------------------------------------------
LEMMA StepInv == IInv /\ [Next]_vars => IInv'
<1> SUFFICES ASSUME IInv, [Next]_vars PROVE IInv'
  OBVIOUS
<1>1. CASE UNCHANGED vars
  BY <1>1
  DEF vars, IInv, Places, TypeOK, AtBegin, AtSnapshot, AtApply, AtBackedUp, AtInstalled, AtVerify,
      AtRollback, SavedIsFresh, SeenIsThere, SeesStart, Kept, Fresh, Mutating,
      EndsAsPromised, CutShortAsPromised, FailedIsUntouched, GivesBackItsBackup
<1>2. CASE \E d \in BOOLEAN : Begin(d)
  BY <1>2, BeginStep
<1>3. CASE Lifecycle
  BY <1>3, EndsAtOnce, SnapshotStep, ApplyRefusedStep, BackUpStep, WriteRefusedStep, InstallStep,
     PostValidatePassesStep, PostValidateFailsStep, RunCommandStep, VerifyStep,
     StartRollbackStep, RestoreFileStep, RemovePackageStep
  DEF Lifecycle
<1>4. CASE Crash
  BY <1>4, CrashStep
<1> QED BY <1>1, <1>2, <1>3, <1>4 DEF Next

(* The strengthening holds after any number of runs and crashes.           *)
THEOREM Invariant == Spec => []IInv
BY InitInv, StepInv, PTL DEF Spec

(* Whatever fails, is cut off or crashes in however many runs, a run that  *)
(* returns has done what RunsOf says, which is what PlanApply builds on.   *)
THEOREM EndsAsPromisedAlways == Spec => []EndsAsPromised
<1>1. IInv => EndsAsPromised
  BY DEF IInv
<1> QED BY <1>1, Invariant, PTL

(* A run cut short at any point leaves a host of RunsOf or an untouched one. *)
THEOREM CutShortAsPromisedAlways == Spec => []CutShortAsPromised
<1>1. IInv => CutShortAsPromised
  BY DEF IInv
<1> QED BY <1>1, Invariant, PTL

(* "failed" is never said of a host that was touched and could be restored. *)
THEOREM FailedIsUntouchedAlways == Spec => []FailedIsUntouched
<1>1. IInv => FailedIsUntouched
  BY DEF IInv
<1> QED BY <1>1, Invariant, PTL

(* The three of them: PlanApply may take a managed action for one of RunsOf.*)
THEOREM KeepsItsPromiseAlways == Spec => []KeepsItsPromise
<1>1. IInv => KeepsItsPromise
  BY DEF IInv, KeepsItsPromise
<1> QED BY <1>1, Invariant, PTL

(* A backup made by the run is what its rollback gives back.               *)
THEOREM GivesBackItsBackupAlways == Spec => []GivesBackItsBackup
<1>1. IInv => GivesBackItsBackup
  BY DEF IInv
<1> QED BY <1>1, Invariant, PTL

(* No run removes a package its snapshot saw.                              *)
THEOREM SeenPackageStaysAlways == Spec => []SeenPackageStays
<1>1. IInv => SeenPackageStays
  BY DEF IInv, Places, SeenIsThere, SeenPackageStays
<1> QED BY <1>1, Invariant, PTL
=============================================================================
