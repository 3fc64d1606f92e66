------------------------------- MODULE Community -------------------------------
(***************************************************************************)
(* Comments, reports, suggestions and the two queues (runtime-store.ts),   *)
(* with the workers that drain the queues (scheduler.ts runWorkersTick; the*)
(* sync-fts route runs its first half, a tick that finds no notification). *)
(*                                                                         *)
(* All of them run on the one connection of the process.  Every statement  *)
(* is a step of its own and may fail; between two statements of a call,    *)
(* within its transaction too, any other call runs one.  BEGIN throws when *)
(* a transaction is open, whoever opened it, and COMMIT and ROLLBACK end   *)
(* the one that is open, whoever opened it.                                *)
(*                                                                         *)
(* Left out: what a comment says, paging, the telemetry rows, and LIMIT    *)
(* (a batch of fewer rows is followed by another).                         *)
(***************************************************************************)
EXTENDS Naturals, Sequences, FiniteSets, Functions

CONSTANTS
  Comments, Users, Suggestions,
  Calls,        \* route calls: records [id, op, item, user]
  Mixes,        \* the calls a behaviour may make, and the ticks it overlaps
  Workers,      \* ticks that may be under way at once
  Threshold,    \* pending reports a comment bears before it is hidden: 5
  MaxAttempts,  \* failures before a task is dead: 5
  NoTx,
  MaxFails,     \* bound on the statements that fail in a behaviour
  MaxCrashes    \* bound on the crashes of a behaviour

ASSUME CommunityAssumptions ==
  /\ \A c \in Calls : \/ c.op \in {"add", "like", "report", "keep", "delete"} /\ c.item \in Comments
                      \/ c.op \in {"accept", "reject"} /\ c.item \in Suggestions
                      \/ c.op = "notify"
  /\ \A c \in Calls : c.user \in Users
  /\ \A c, d \in Calls : c.op = "add" /\ d.op = "add" /\ c.item = d.item => c = d
  /\ Mixes \subseteq [calls : SUBSET Calls, ticks : SUBSET Workers]
  /\ NoTx \notin Calls \cup Workers /\ Calls \cap Workers = {}
  /\ Threshold \in Nat /\ MaxAttempts \in Nat \ {0}
  /\ MaxFails \in Nat /\ MaxCrashes \in Nat

(* Mutant of Program: the suggestion is read before the transaction. *)
ProgramReadsFirst(op) ==
  CASE op = "add"    -> <<"begin", "insert", "enqueue", "commit">>
    [] op = "like"   -> <<"check", "begin", "toggle", "commit", "count">>
    [] op = "report" -> <<"check", "begin", "report", "escalate", "commit">>
    [] op = "keep"   -> <<"begin", "resolve", "restore", "enqueue", "commit">>
    [] op = "delete" -> <<"begin", "resolve", "remove", "unindex", "commit">>
    [] op \in {"accept", "reject"} -> <<"read", "begin", "decide", "audit", "commit">>
    [] op = "notify" -> <<"enqueue">>

(* The statements of each operation.  What is before "begin" or after      *)
(* "commit" runs outside the transaction.                                  *)
Program(op) ==
  CASE op = "add"    -> <<"begin", "insert", "enqueue", "commit">>
    [] op = "like"   -> <<"check", "begin", "toggle", "commit", "count">>
    [] op = "report" -> <<"check", "begin", "report", "escalate", "commit">>
    [] op = "keep"   -> <<"begin", "resolve", "restore", "enqueue", "commit">>
    [] op = "delete" -> <<"begin", "resolve", "remove", "unindex", "commit">>
    [] op \in {"accept", "reject"} -> <<"begin", "read", "decide", "audit", "commit">>
    [] op = "notify" -> <<"enqueue">>

(* A task carries the name of the call that enqueues it; "done" is synced  *)
(* for the index and sent for a notification.                              *)
Enqueuers == {c \in Calls : c.op \in {"add", "keep", "notify"}}
QueueOf(t) == IF t.op = "notify" THEN "notification" ELSE "fts"

VARIABLES
  db,       \* the tables as the connection sees them
  undo,     \* the tables at the BEGIN of the open transaction
  tx,       \* who began the open transaction
  calls,    \* call -> [at: position in its program, or how it ended]
  workers,  \* worker -> the local state of its run
  sends,    \* notification -> how often it was handed to the sender
  failures, \* auxiliary: task -> attempts that failed
  overlapped, \* auxiliary: two workers were at the notifications at once
  stray,    \* auxiliary: a COMMIT or ROLLBACK ended another's transaction
  fails, crashes

vars == <<db, undo, tx, calls, workers, sends, failures, overlapped, stray, fails, crashes>>

EmptyTables ==
  [comment |-> [c \in Comments |-> "absent"],
   isDeleted |-> {}, likes |-> {}, told |-> {},
   report |-> [r \in Comments \X Users |-> "none"],
   suggestion |-> [s \in Suggestions |-> "pending"],
   audit |-> [s \in Suggestions |-> <<>>],
   task |-> [t \in Enqueuers |-> [status |-> "none", attempts |-> 0]],
   index |-> [c \in Comments |-> 0]]

(* How a call may stand, beside the statement it is at. *)
Undoing == 0      \* in its catch, before the ROLLBACK
Failed == 100
Unused == 101

IdleWorker == [pc |-> "select", queue |-> "fts", batch |-> {}, task |-> NoTx, shown |-> FALSE]

Init ==
  /\ db = EmptyTables /\ undo = EmptyTables /\ tx = NoTx
  /\ \E mix \in Mixes :
       /\ calls = [c \in Calls |->
            [at |-> IF c \in mix.calls THEN 1 ELSE Unused, old |-> "pending"]]
       /\ workers = [w \in Workers |->
            [IdleWorker EXCEPT !.pc = IF w \in mix.ticks THEN @ ELSE "unused"]]
  /\ sends = [t \in Enqueuers |-> 0] /\ failures = [t \in Enqueuers |-> 0]
  /\ overlapped = FALSE /\ stray = FALSE /\ fails = 0 /\ crashes = 0

Committed == IF tx = NoTx THEN db ELSE undo

history == <<sends, failures, overlapped>>

-----------------------------------------------------------------------------
(* The connection.                                                         *)
(* Mutant of Opens: a BEGIN within an open transaction goes on in it.      *)
OpensNested(p) == tx' = p /\ undo' = db /\ UNCHANGED db

Opens(p) == tx = NoTx /\ tx' = p /\ undo' = db /\ UNCHANGED db

Closes(p) ==
  /\ tx # NoTx /\ tx' = NoTx /\ undo' = EmptyTables
  /\ stray' = (stray \/ tx # p)

Commits(p) == Closes(p) /\ UNCHANGED db
RollsBack(p) == Closes(p) /\ db' = undo

(* A statement of p fails; SQLite keeps the transaction open.              *)
StatementFails == fails < MaxFails /\ fails' = fails + 1

-----------------------------------------------------------------------------
(* The calls.                                                              *)
Statement(c) ==
  IF calls[c].at \in DOMAIN Program(c.op) THEN Program(c.op)[calls[c].at] ELSE "none"

Goes(c, at) == calls' = [calls EXCEPT ![c].at = at]
Advances(c) == Goes(c, calls[c].at + 1)

(* The statement stands inside the try of its operation.                   *)
Guarded(c) == \E i \in 1..calls[c].at - 1 : Program(c.op)[i] = "begin"

(* UPDATE ... WHERE id: nothing when the row is gone. *)
Shows(d, c, v) == [d.comment EXCEPT ![c] = IF @ = "absent" THEN @ ELSE v]

PendingOn(d, c) == {u \in Users : d.report[<<c, u>>] = "pending"}

(* Mutant of Escalated: one report more before the comment is hidden.      *)
EscalatedLate(d, c) ==
  IF Cardinality(PendingOn(d, c)) > Threshold + 1
  THEN [d EXCEPT !.comment = Shows(d, c, "hidden_pending_review"), !.told = @ \cup {c}]
  ELSE d

(* Over the threshold the comment is hidden and the admins get a message.  *)
Escalated(d, c) ==
  IF Cardinality(PendingOn(d, c)) > Threshold
  THEN [d EXCEPT !.comment = Shows(d, c, "hidden_pending_review"), !.told = @ \cup {c}]
  ELSE d

Verdict(op) == IF op = "keep" THEN "resolved_keep" ELSE "resolved_deleted"
Decision(op) == IF op = "accept" THEN "accepted" ELSE "rejected"

(* The tables after a statement of c.  INSERT OR IGNORE keeps the report   *)
(* the user has already made.                                              *)
After(c, statement, d) ==
  LET report == <<c.item, c.user>> IN
  CASE statement = "insert"   -> [d EXCEPT !.comment[c.item] = "public"]
    [] statement = "enqueue"  -> [d EXCEPT !.task[c] = [status |-> "pending", attempts |-> 0]]
    [] statement = "toggle"   -> [d EXCEPT !.likes = IF report \in @ THEN @ \ {report} ELSE @ \cup {report}]
    [] statement = "report"   -> [d EXCEPT !.report[report] = IF @ = "none" THEN "pending" ELSE @]
    [] statement = "escalate" -> Escalated(d, c.item)
    [] statement = "resolve"  -> [d EXCEPT !.report[report] = Verdict(c.op)]
    [] statement = "restore"  -> [d EXCEPT !.comment = Shows(d, c.item, "public")]
    [] statement = "remove"   -> [d EXCEPT !.comment = Shows(d, c.item, "deleted"),
                                           !.isDeleted = @ \cup {c.item}]
    [] statement = "unindex"  -> [d EXCEPT !.index[c.item] = 0]
    [] statement = "decide"   -> [d EXCEPT !.suggestion[c.item] = Decision(c.op)]
    [] statement = "audit"    -> [d EXCEPT !.audit[c.item] =
                                    Append(@, [old |-> calls[c].old, new |-> Decision(c.op)])]
    [] OTHER -> d

Plain == {"insert", "enqueue", "toggle", "report", "escalate", "resolve", "restore",
          "remove", "unindex", "read", "decide", "audit", "count"}

Execute(c) ==
  /\ Statement(c) \in Plain
  /\ Statement(c) = "resolve" => db.report[<<c.item, c.user>>] # "none"
  /\ db' = After(c, Statement(c), db)
  /\ calls' = [calls EXCEPT ![c].at = @ + 1,
       ![c].old = IF Statement(c) = "read" THEN db.suggestion[c.item] ELSE @]
  /\ UNCHANGED <<undo, tx, workers, history, stray, fails, crashes>>

(* The route looks for the comment before the transaction.                 *)
Check(c) ==
  /\ Statement(c) = "check"
  /\ IF db.comment[c.item] # "absent" /\ c.item \notin db.isDeleted
     THEN Advances(c) ELSE Goes(c, Failed)
  /\ UNCHANGED <<db, undo, tx, workers, history, stray, fails, crashes>>

Begin(c) ==
  /\ Statement(c) = "begin"
  /\ Opens(c) /\ Advances(c)
  /\ UNCHANGED <<workers, history, stray, fails, crashes>>

(* BEGIN stands before the try: the call ends, without a ROLLBACK.         *)
BeginRefused(c) ==
  /\ Statement(c) = "begin" /\ tx # NoTx
  /\ Goes(c, Failed)
  /\ UNCHANGED <<db, undo, tx, workers, history, stray, fails, crashes>>

Commit(c) ==
  /\ Statement(c) = "commit"
  /\ Commits(c) /\ Advances(c)
  /\ UNCHANGED <<workers, history, fails, crashes>>

(* A statement throws: it fails, there is no such report, or there is no   *)
(* transaction any more to commit.                                         *)
Throws(c) ==
  /\ Statement(c) # "none"
  /\ \/ StatementFails
     \/ /\ \/ Statement(c) = "resolve" /\ db.report[<<c.item, c.user>>] = "none"
           \/ Statement(c) = "commit" /\ tx = NoTx
        /\ UNCHANGED fails
  /\ Goes(c, IF Guarded(c) THEN Undoing ELSE Failed)
  /\ UNCHANGED <<db, undo, tx, workers, history, stray, crashes>>

(* Mutant of Rollback: the transaction of a call that failed stays open. *)
RollbackForgotten(c) ==
  /\ calls[c].at = Undoing
  /\ Goes(c, Failed)
  /\ UNCHANGED <<db, undo, tx, workers, history, stray, fails, crashes>>

(* The ROLLBACK of the catch, which throws when nothing is open.           *)
Rollback(c) ==
  /\ calls[c].at = Undoing
  /\ Goes(c, Failed)
  /\ IF tx = NoTx THEN UNCHANGED <<db, undo, tx, stray>> ELSE RollsBack(c)
  /\ UNCHANGED <<workers, history, fails, crashes>>

Done(c) == calls[c].at = Len(Program(c.op)) + 1

-----------------------------------------------------------------------------
(* The workers.                                                            *)
Open == {"pending", "retry"}

Waiting(d, queue) == {t \in Enqueuers : QueueOf(t) = queue /\ d.task[t].status \in Open}

(* The run is through with its queue: a tick goes on to the notifications. *)
NextQueue(w) ==
  IF workers[w].queue = "fts"
  THEN [IdleWorker EXCEPT !.queue = "notification"] ELSE IdleWorker

AtNotifications(w) == workers[w].queue = "notification" /\ workers[w].pc # "select"

Turns(w, state) == workers' = [workers EXCEPT ![w] = state]
Moves(w, pc) == workers' = [workers EXCEPT ![w].pc = pc]

(* SELECT: the rows and their attempts as they are now; late are those     *)
(* whose next_retry_at has not come.                                       *)
Select(w, late) ==
  /\ workers[w].pc = "select"
  /\ late \subseteq {t \in Waiting(db, workers[w].queue) : db.task[t].status = "retry"}
  /\ LET rows == Waiting(db, workers[w].queue) \ late IN
     /\ Turns(w, IF rows = {} THEN NextQueue(w)
                 ELSE [workers[w] EXCEPT !.pc = "begin",
                        !.batch = {[id |-> t, attempts |-> db.task[t].attempts] : t \in rows}])
     /\ overlapped' = (overlapped \/ (/\ workers[w].queue = "notification" /\ rows # {}
                                      /\ \E v \in Workers : AtNotifications(v)))
  /\ UNCHANGED <<db, undo, tx, calls, sends, failures, stray, fails, crashes>>

(* SELECT fails: the telemetry takes the error and the tick goes on.       *)
SelectFails(w) ==
  /\ workers[w].pc = "select" /\ StatementFails
  /\ Turns(w, NextQueue(w))
  /\ UNCHANGED <<db, undo, tx, calls, history, stray, crashes>>

BeginTask(w) ==
  \E row \in workers[w].batch :
    /\ workers[w].pc = "begin"
    /\ Opens(w)
    /\ Turns(w, [workers[w] EXCEPT !.task = row, !.batch = @ \ {row},
         !.pc = IF workers[w].queue = "fts" THEN "load" ELSE "send"])
    /\ UNCHANGED <<calls, history, stray, fails, crashes>>

(* BEGIN throws out of the batch.                                          *)
BatchRefused(w) ==
  /\ workers[w].pc = "begin"
  /\ (tx # NoTx /\ UNCHANGED fails) \/ StatementFails
  /\ Turns(w, NextQueue(w))
  /\ UNCHANGED <<db, undo, tx, calls, history, stray, crashes>>

Load(w) ==
  /\ workers[w].pc = "load"
  /\ LET c == workers[w].task.id.item IN
     Turns(w, [workers[w] EXCEPT !.pc = "index",
       !.shown = db.comment[c] = "public" /\ c \notin db.isDeleted])
  /\ UNCHANGED <<db, undo, tx, calls, history, stray, fails, crashes>>

(* The index has no key: INSERT OR REPLACE adds a row.                     *)
Index(w) ==
  /\ workers[w].pc = "index"
  /\ db' = [db EXCEPT !.index[workers[w].task.id.item] =
              IF workers[w].shown THEN @ + 1 ELSE 0]
  /\ Moves(w, "mark")
  /\ UNCHANGED <<undo, tx, calls, history, stray, fails, crashes>>

Send(w) ==
  /\ workers[w].pc = "send"
  /\ sends' = [sends EXCEPT ![workers[w].task.id] = @ + 1]
  /\ Moves(w, "mark")
  /\ UNCHANGED <<db, undo, tx, calls, failures, overlapped, stray, fails, crashes>>

Updated(t, row) == [db EXCEPT !.task[t] = IF @.status = "none" THEN @ ELSE row]

(* Mutant of Mark: the worker's transaction is over before the mark. *)
MarkUncommitted(w) ==
  /\ workers[w].pc = "mark"
  /\ Moves(w, "commit")
  /\ UNCHANGED <<db, undo, tx, calls, history, stray, fails, crashes>>

Mark(w) ==
  /\ workers[w].pc = "mark"
  /\ LET t == workers[w].task.id IN
     db' = Updated(t, [status |-> "done", attempts |-> db.task[t].attempts])
  /\ Moves(w, "commit")
  /\ UNCHANGED <<undo, tx, calls, history, stray, fails, crashes>>

(* The worker's task is over, one way or the other.                        *)
NextTask(w) ==
  IF workers[w].batch = {} THEN NextQueue(w)
  ELSE [workers[w] EXCEPT !.pc = "begin", !.task = NoTx, !.shown = FALSE]

CommitTask(w) ==
  /\ workers[w].pc = "commit"
  /\ Commits(w) /\ Turns(w, NextTask(w))
  /\ UNCHANGED <<calls, history, fails, crashes>>

(* The sender or a statement of the transaction throws.                    *)
TaskFails(w) ==
  /\ workers[w].pc \in {"load", "index", "send", "mark", "commit"}
  /\ \/ StatementFails
     \/ (workers[w].pc = "commit" /\ tx = NoTx /\ UNCHANGED fails)
  /\ failures' = [failures EXCEPT ![workers[w].task.id] = @ + 1]
  /\ Moves(w, "rollback")
  /\ UNCHANGED <<db, undo, tx, calls, sends, overlapped, stray, crashes>>

RollbackTask(w) ==
  /\ workers[w].pc = "rollback" /\ tx # NoTx
  /\ RollsBack(w) /\ Moves(w, "record")
  /\ UNCHANGED <<calls, history, fails, crashes>>

(* ROLLBACK throws out of the batch when nothing is open.                  *)
NothingToRollBack(w) ==
  /\ workers[w].pc = "rollback" /\ tx = NoTx
  /\ Turns(w, NextQueue(w))
  /\ UNCHANGED <<db, undo, tx, calls, history, stray, fails, crashes>>

(* Mutant of Recorded: a task is given up one failure early.               *)
RecordedEarly(attempts) ==
  [status |-> IF attempts + 1 >= MaxAttempts THEN "dead_letter" ELSE "retry",
   attempts |-> attempts]

Recorded(attempts) ==
  [status |-> IF attempts >= MaxAttempts THEN "dead_letter" ELSE "retry",
   attempts |-> attempts]

(* The attempts are those of the SELECT, plus one; the UPDATE runs after   *)
(* the ROLLBACK, within whatever transaction is open by then.              *)
Record(w) ==
  /\ workers[w].pc = "record"
  /\ db' = Updated(workers[w].task.id, Recorded(workers[w].task.attempts + 1))
  /\ Turns(w, NextTask(w))
  /\ UNCHANGED <<undo, tx, calls, history, stray, fails, crashes>>

RecordFails(w) ==
  /\ workers[w].pc = "record" /\ StatementFails
  /\ Turns(w, NextQueue(w))
  /\ UNCHANGED <<db, undo, tx, calls, history, stray, crashes>>

-----------------------------------------------------------------------------
(* The process dies; SQLite drops the open transaction.                    *)
Crash ==
  /\ crashes < MaxCrashes /\ crashes' = crashes + 1
  /\ db' = Committed /\ undo' = EmptyTables /\ tx' = NoTx
  /\ calls' = [c \in Calls |-> IF calls[c].at \in {1, Unused} \/ Done(c) THEN calls[c]
                               ELSE [calls[c] EXCEPT !.at = Failed]]
  /\ workers' = [w \in Workers |-> IF workers[w].pc = "unused" THEN workers[w] ELSE IdleWorker]
  /\ UNCHANGED <<history, stray, fails>>

CallStep(c) ==
  \/ Execute(c) \/ Check(c) \/ Begin(c) \/ BeginRefused(c)
  \/ Commit(c) \/ Throws(c) \/ Rollback(c)

WorkerStep(w) ==
  \/ \E late \in SUBSET Enqueuers : Select(w, late)
  \/ SelectFails(w) \/ BeginTask(w) \/ BatchRefused(w)
  \/ Load(w) \/ Index(w) \/ Send(w) \/ Mark(w) \/ CommitTask(w)
  \/ TaskFails(w) \/ RollbackTask(w) \/ NothingToRollBack(w)
  \/ Record(w) \/ RecordFails(w)

Next ==
  \/ \E c \in Calls : CallStep(c)
  \/ \E w \in Workers : WorkerStep(w)
  \/ Crash

Spec == Init /\ [][Next]_vars

(* A call that has begun goes on, the ticks come every five seconds, and   *)
(* a backoff ends: again and again a tick finds every row due.             *)
FairSpec ==
  /\ Spec
  /\ WF_vars(\E c \in Calls : calls[c].at # 1 /\ CallStep(c))
  /\ \A w \in Workers : WF_vars(workers[w].pc # "select" /\ WorkerStep(w))
  /\ \A queue \in {"fts", "notification"} :
       SF_vars(\E w \in Workers : workers[w].queue = queue /\ Select(w, {}))

-----------------------------------------------------------------------------
(* A deleted comment is not in the index, whatever sync was under way when *)
(* it was deleted: the worker reads it and indexes it in one transaction.  *)
(* Only a ROLLBACK in another's transaction breaks this one.               *)
DeletedIsUnindexed ==
  ~stray => \A c \in Committed.isDeleted : Committed.index[c] = 0

(* Over the threshold a comment is out of sight, and the admins know, from *)
(* the very report that takes it there, unless an admin has kept it        *)
(* (reportComment: the count and the hiding are one transaction).          *)
EscalatedIsHidden ==
  ~stray => \A c \in Comments :
    Cardinality(PendingOn(Committed, c)) > Threshold =>
      \/ Committed.comment[c] # "public" /\ (c \in Committed.told \/ c \in Committed.isDeleted)
      \/ \E u \in Users : Committed.report[<<c, u>>] = "resolved_keep"

(* The audit log tells the whole story of a suggestion: every entry starts *)
(* where the one before it ended, the last one ends where the suggestion   *)
(* is, whichever admins decide at once (processSuggestion).                *)
AuditChains ==
  ~stray => \A s \in Suggestions :
    LET log == Committed.audit[s]
        Before(i) == IF i = 1 THEN "pending" ELSE log[i - 1].new
    IN /\ \A i \in DOMAIN log : log[i].old = Before(i)
       /\ Committed.suggestion[s] = Before(Len(log) + 1)

(* A task is given up only after MaxAttempts attempts of it have failed,   *)
(* however many workers count at once and whatever a ROLLBACK takes back.  *)
DeadIsExhausted ==
  \A t \in Enqueuers :
    Committed.task[t].status = "dead_letter" => failures[t] >= MaxAttempts

(* A notification recorded as sent was sent, and one is sent again only    *)
(* after a failure, a crash or when two ticks were at the queue at once.   *)
SentOnce ==
  \A t \in Enqueuers :
    /\ QueueOf(t) = "notification" /\ Committed.task[t].status = "done" => sends[t] > 0
    /\ sends[t] > 1 => fails > 0 \/ crashes > 0 \/ overlapped

(* The attempts of a task and its sending are told apart and counted right,*)
(* also when a batch overlaps another or a transaction is rolled back.     *)
TasksAreCounted == DeadIsExhausted /\ SentOnce

(* Every task on disk is done or given up in the end: a refused BEGIN, a   *)
(* ROLLBACK that takes its attempts back, a crash or a lost race puts it   *)
(* off only.                                                               *)
TasksSettle ==
  \A t \in Enqueuers :
    Committed.task[t].status \in Open ~> Committed.task[t].status \in {"done", "dead_letter"}
===============================================================================
