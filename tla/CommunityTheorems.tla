--------------------------- MODULE CommunityTheorems ---------------------------
(***************************************************************************)
(* The comments, suggestions and queues keep their tables consistent, for  *)
(* any calls, users, workers and threshold, however many statements fail   *)
(* and however often the process dies.                                     *)
(*                                                                         *)
(* Every argument is the same: what holds of the tables at a BEGIN holds   *)
(* of them at a COMMIT, and what breaks it in between is a statement of    *)
(* the one that holds the transaction.                                     *)
(***************************************************************************)
EXTENDS Community, FiniteSetTheorems, TLAPS

-----------------------------------------------------------------------------
(* The programs.                                                           *)
Ops == {"add", "like", "report", "keep", "delete", "accept", "reject", "notify"}

StatementOf(op, at) == IF at \in DOMAIN Program(op) THEN Program(op)[at] ELSE "none"

(* Inside the transaction of the operation, and past its BEGIN.            *)
Begins(op) == CASE op \in {"like", "report"} -> 2 [] op = "notify" -> 0 [] OTHER -> 1
Ends(op) == CASE op = "report" -> 5 [] op \in {"add", "like"} -> 4 [] op = "notify" -> 0 [] OTHER -> 5
Within(op, at) == Begins(op) < at /\ at <= Ends(op)

LEMMA AddProgram ==
  \A at \in Nat : StatementOf("add", at) =
    CASE at = 1 -> "begin" [] at = 2 -> "insert" [] at = 3 -> "enqueue" [] at = 4 -> "commit"
      [] OTHER -> "none"
BY DEF StatementOf, Program

LEMMA LikeProgram ==
  \A at \in Nat : StatementOf("like", at) =
    CASE at = 1 -> "check" [] at = 2 -> "begin" [] at = 3 -> "toggle" [] at = 4 -> "commit"
      [] at = 5 -> "count" [] OTHER -> "none"
BY DEF StatementOf, Program

LEMMA ReportProgram ==
  \A at \in Nat : StatementOf("report", at) =
    CASE at = 1 -> "check" [] at = 2 -> "begin" [] at = 3 -> "report" [] at = 4 -> "escalate"
      [] at = 5 -> "commit" [] OTHER -> "none"
BY DEF StatementOf, Program

LEMMA KeepProgram ==
  \A at \in Nat : StatementOf("keep", at) =
    CASE at = 1 -> "begin" [] at = 2 -> "resolve" [] at = 3 -> "restore" [] at = 4 -> "enqueue"
      [] at = 5 -> "commit" [] OTHER -> "none"
BY DEF StatementOf, Program

LEMMA DeleteProgram ==
  \A at \in Nat : StatementOf("delete", at) =
    CASE at = 1 -> "begin" [] at = 2 -> "resolve" [] at = 3 -> "remove" [] at = 4 -> "unindex"
      [] at = 5 -> "commit" [] OTHER -> "none"
BY DEF StatementOf, Program

LEMMA DecideProgram ==
  \A op \in {"accept", "reject"} : \A at \in Nat : StatementOf(op, at) =
    CASE at = 1 -> "begin" [] at = 2 -> "read" [] at = 3 -> "decide" [] at = 4 -> "audit"
      [] at = 5 -> "commit" [] OTHER -> "none"
BY DEF StatementOf, Program

LEMMA NotifyProgram ==
  \A at \in Nat : StatementOf("notify", at) = IF at = 1 THEN "enqueue" ELSE "none"
BY DEF StatementOf, Program

(* What a statement says of the call it is of.                             *)
LEMMA Programs ==
  ASSUME NEW op \in Ops, NEW at \in Nat
  PROVE  LET st == StatementOf(op, at) IN
    /\ st = "begin" <=> at = Begins(op) /\ op # "notify"
    /\ st = "commit" <=> at = Ends(op) /\ op # "notify"
    /\ st = "check" => op \in {"like", "report"} /\ at = 1
    /\ st = "insert" <=> op = "add" /\ at = 2
    /\ st = "enqueue" <=> \/ (op = "add" /\ at = 3)
                          \/ (op = "keep" /\ at = 4)
                          \/ (op = "notify" /\ at = 1)
    /\ st = "toggle" <=> op = "like" /\ at = 3
    /\ st = "count" <=> op = "like" /\ at = 5
    /\ st = "report" <=> op = "report" /\ at = 3
    /\ st = "escalate" <=> op = "report" /\ at = 4
    /\ st = "resolve" <=> op \in {"keep", "delete"} /\ at = 2
    /\ st = "restore" <=> op = "keep" /\ at = 3
    /\ st = "remove" <=> op = "delete" /\ at = 3
    /\ st = "unindex" <=> op = "delete" /\ at = 4
    /\ st = "read" <=> op \in {"accept", "reject"} /\ at = 2
    /\ st = "decide" <=> op \in {"accept", "reject"} /\ at = 3
    /\ st = "audit" <=> op \in {"accept", "reject"} /\ at = 4
    /\ st # "none" => at >= 1 /\ at <= 5
<1>1. CASE op = "add"
  BY <1>1, AddProgram DEF Begins, Ends
<1>2. CASE op = "like"
  BY <1>2, LikeProgram DEF Begins, Ends
<1>3. CASE op = "report"
  BY <1>3, ReportProgram DEF Begins, Ends
<1>4. CASE op = "keep"
  BY <1>4, KeepProgram DEF Begins, Ends
<1>5. CASE op = "delete"
  BY <1>5, DeleteProgram DEF Begins, Ends
<1>6. CASE op \in {"accept", "reject"}
  BY <1>6, DecideProgram DEF Begins, Ends
<1>7. CASE op = "notify"
  BY <1>7, NotifyProgram DEF Begins, Ends
<1> QED BY <1>1, <1>2, <1>3, <1>4, <1>5, <1>6, <1>7 DEF Ops

-----------------------------------------------------------------------------
(* The tables.                                                             *)
CommentStatus == {"absent", "public", "hidden_pending_review", "deleted"}
ReportStatus == {"none", "pending", "resolved_keep", "resolved_deleted"}
Decisions == {"pending", "accepted", "rejected"}
TaskStatus == {"none", "pending", "retry", "done", "dead_letter"}
Pairs == Comments \X Users
Entries == [old : Decisions, new : Decisions]
Tasks == [status : TaskStatus, attempts : Nat]

Tables ==
  [comment : [Comments -> CommentStatus],
   isDeleted : SUBSET Comments, likes : SUBSET Pairs, told : SUBSET Comments,
   report : [Pairs -> ReportStatus],
   suggestion : [Suggestions -> Decisions],
   audit : [Suggestions -> Seq(Entries)],
   task : [Enqueuers -> Tasks],
   index : [Comments -> Nat]]

Named(c) == <<c.item, c.user>>

(* Where each statement leads a call.                                      *)
LEMMA OpsOfCalls ==
  ASSUME NEW c \in Calls
  PROVE  /\ c.op \in Ops /\ c.user \in Users
         /\ c.op \in {"add", "like", "report", "keep", "delete"} =>
              c.item \in Comments /\ Named(c) \in Pairs
         /\ c.op \in {"accept", "reject"} => c.item \in Suggestions
         /\ c.op \in {"add", "keep", "notify"} => c \in Enqueuers
BY CommunityAssumptions DEF Ops, Named, Pairs, Enqueuers

Marks(c, v, d) == [d.comment EXCEPT ![c] = IF @ = "absent" THEN @ ELSE v]
Hides(c, d) == Cardinality(PendingOn(d, c)) > Threshold

(* What a statement changes of the tables, field by field.                 *)
Changed(c, st, d, e) ==
  /\ e.comment = CASE st = "insert" -> [d.comment EXCEPT ![c.item] = "public"]
                   [] st = "escalate" /\ Hides(c.item, d) -> Marks(c.item, "hidden_pending_review", d)
                   [] st = "restore" -> Marks(c.item, "public", d)
                   [] st = "remove" -> Marks(c.item, "deleted", d)
                   [] OTHER -> d.comment
  /\ e.isDeleted = IF st = "remove" THEN d.isDeleted \cup {c.item} ELSE d.isDeleted
  /\ e.told = IF st = "escalate" /\ Hides(c.item, d) THEN d.told \cup {c.item} ELSE d.told
  /\ e.report = CASE st = "report" -> [d.report EXCEPT ![Named(c)] = IF @ = "none" THEN "pending" ELSE @]
                  [] st = "resolve" -> [d.report EXCEPT ![Named(c)] = Verdict(c.op)]
                  [] OTHER -> d.report
  /\ e.suggestion = IF st = "decide" THEN [d.suggestion EXCEPT ![c.item] = Decision(c.op)]
                    ELSE d.suggestion
  /\ e.audit = IF st = "audit"
               THEN [d.audit EXCEPT ![c.item] =
                       Append(@, [old |-> calls[c].old, new |-> Decision(c.op)])]
               ELSE d.audit
  /\ e.task = IF st = "enqueue"
              THEN [d.task EXCEPT ![c] = [status |-> "pending", attempts |-> 0]]
              ELSE d.task
  /\ e.index = IF st = "unindex" THEN [d.index EXCEPT ![c.item] = 0] ELSE d.index

LEMMA AfterChanges ==
  ASSUME NEW c \in Calls, NEW d \in Tables, NEW st \in Plain
  PROVE  Changed(c, st, d, After(c, st, d))
<1>1. CASE st = "insert"
  BY <1>1 DEF Changed, After, Tables
<1>2. CASE st = "enqueue"
  BY <1>2 DEF Changed, After, Tables
<1>3. CASE st = "toggle"
  BY <1>3 DEF Changed, After, Tables
<1>4. CASE st = "report"
  BY <1>4 DEF Changed, After, Tables, Named
<1>5. CASE st = "escalate"
  BY <1>5 DEF Changed, After, Tables, Escalated, Hides, Marks, Shows
<1>6. CASE st = "resolve"
  BY <1>6 DEF Changed, After, Tables, Named
<1>7. CASE st = "restore"
  BY <1>7 DEF Changed, After, Tables, Marks, Shows
<1>8. CASE st = "remove"
  BY <1>8 DEF Changed, After, Tables, Marks, Shows
<1>9. CASE st = "unindex"
  BY <1>9 DEF Changed, After, Tables
<1>10. CASE st = "decide"
  BY <1>10 DEF Changed, After, Tables
<1>11. CASE st = "audit"
  BY <1>11 DEF Changed, After, Tables
<1>12. CASE st \in {"read", "count"}
  BY <1>12 DEF Changed, After
<1> QED BY <1>1, <1>2, <1>3, <1>4, <1>5, <1>6, <1>7, <1>8, <1>9, <1>10, <1>11, <1>12 DEF Plain

-----------------------------------------------------------------------------
(* Types.                                                                  *)
Rows == [id : Enqueuers, attempts : Nat]
Busy == {"load", "index", "send", "mark", "commit", "rollback"}
WorkerPcs == {"select", "begin", "record", "unused"} \cup Busy
WorkerStates ==
  [pc : WorkerPcs, queue : {"fts", "notification"}, batch : SUBSET Rows,
   task : Rows \cup {NoTx}, shown : BOOLEAN]
CallStates == [at : Nat, old : Decisions]

(* What a worker has in hand is of the queue it is at.                     *)
OfItsQueue(state) ==
  /\ \A row \in state.batch : QueueOf(row.id) = state.queue
  /\ state.pc \in Busy \cup {"record"} => state.task \in Rows /\ QueueOf(state.task.id) = state.queue
  /\ state.pc \in {"load", "index"} => state.queue = "fts"
  /\ state.pc = "send" => state.queue = "notification"

ConnectionType ==
  db \in Tables /\ undo \in Tables /\ tx \in Calls \cup Workers \cup {NoTx} /\ stray \in BOOLEAN
CallType == calls \in [Calls -> CallStates]
WorkerType == workers \in [Workers -> WorkerStates] /\ \A w \in Workers : OfItsQueue(workers[w])
CountType ==
  /\ sends \in [Enqueuers -> Nat] /\ failures \in [Enqueuers -> Nat]
  /\ overlapped \in BOOLEAN /\ fails \in Nat /\ crashes \in Nat

TypeInv == ConnectionType /\ CallType /\ WorkerType /\ CountType

LEMMA EmptyTablesType == EmptyTables \in Tables
<1>1. <<>> \in Seq(Entries)
  OBVIOUS
<1> HIDE DEF Entries
<1>2. [s \in Suggestions |-> <<>>] \in [Suggestions -> Seq(Entries)]
  BY <1>1
<1> QED BY <1>2 DEF EmptyTables, Tables, CommentStatus, ReportStatus, Decisions, Tasks, TaskStatus, Pairs

LEMMA StatementIs ==
  ASSUME TypeInv, NEW c \in Calls
  PROVE  /\ Statement(c) = StatementOf(c.op, calls[c].at)
         /\ c.op \in Ops /\ calls[c].at \in Nat /\ calls[c].old \in Decisions
BY OpsOfCalls DEF Statement, StatementOf, TypeInv, CallType, CallStates

LEMMA AfterType ==
  ASSUME TypeInv, NEW c \in Calls, Statement(c) \in Plain
  PROVE  After(c, Statement(c), db) \in Tables
<1> DEFINE st == Statement(c)
           e == After(c, st, db)
<1>1. db \in Tables /\ st \in Plain /\ st = StatementOf(c.op, calls[c].at)
      /\ c.op \in Ops /\ calls[c].at \in Nat /\ calls[c].old \in Decisions
  BY StatementIs DEF TypeInv, ConnectionType
<1>2. Changed(c, st, db, e)
  BY <1>1, AfterChanges
<1>3. /\ st \in {"insert", "unindex", "escalate", "restore", "remove"} => c.item \in Comments
      /\ st \in {"report", "resolve", "toggle"} => Named(c) \in Pairs
      /\ st \in {"decide", "audit"} => c.op \in {"accept", "reject"} /\ c.item \in Suggestions
      /\ st = "enqueue" => c \in Enqueuers
  BY <1>1, Programs, OpsOfCalls
<1>4. e.likes \in SUBSET Pairs /\ e = [comment |-> e.comment, isDeleted |-> e.isDeleted,
         likes |-> e.likes, told |-> e.told, report |-> e.report, suggestion |-> e.suggestion,
         audit |-> e.audit, task |-> e.task, index |-> e.index]
  <2>1. CASE st = "toggle"
    BY <1>1, <1>3, <2>1 DEF After, Tables, Named
  <2>2. CASE st \in {"insert", "enqueue", "report"}
    BY <1>1, <2>2 DEF After, Tables
  <2>3. CASE st \in {"resolve", "restore", "remove"}
    BY <1>1, <2>3 DEF After, Tables
  <2>4. CASE st \in {"unindex", "decide", "audit"}
    BY <1>1, <2>4 DEF After, Tables
  <2>5. CASE st = "escalate"
    BY <1>1, <2>5 DEF After, Tables, Escalated
  <2>6. CASE st \in {"read", "count"}
    BY <1>1, <2>6 DEF After, Tables
  <2> QED BY <1>1, <2>1, <2>2, <2>3, <2>4, <2>5, <2>6 DEF Plain
<1> HIDE DEF e, st
<1>5. /\ db.comment \in [Comments -> CommentStatus] /\ db.isDeleted \in SUBSET Comments
      /\ db.told \in SUBSET Comments /\ db.report \in [Pairs -> ReportStatus]
      /\ db.suggestion \in [Suggestions -> Decisions] /\ db.audit \in [Suggestions -> Seq(Entries)]
      /\ db.task \in [Enqueuers -> Tasks] /\ db.index \in [Comments -> Nat]
  BY <1>1 DEF Tables
<1>6. e.comment \in [Comments -> CommentStatus] /\ e.told \in SUBSET Comments
      /\ e.isDeleted \in SUBSET Comments
  BY <1>2, <1>3, <1>5 DEF Changed, Marks, CommentStatus
<1>7. e.report \in [Pairs -> ReportStatus]
  BY <1>2, <1>3, <1>5 DEF Changed, Verdict, ReportStatus
<1>8. e.suggestion \in [Suggestions -> Decisions] /\ e.index \in [Comments -> Nat]
  BY <1>2, <1>3, <1>5 DEF Changed, Decision, Decisions
<1>9. e.audit \in [Suggestions -> Seq(Entries)]
  <2>1. [old |-> calls[c].old, new |-> Decision(c.op)] \in Entries
    BY <1>1 DEF Entries, Decision, Decisions
  <2>2. CASE st = "audit"
    <3>1. Append(db.audit[c.item], [old |-> calls[c].old, new |-> Decision(c.op)]) \in Seq(Entries)
      BY <1>3, <1>5, <2>1, <2>2
    <3> QED BY <1>2, <1>3, <1>5, <2>2, <3>1 DEF Changed
  <2> QED BY <1>2, <1>5, <2>2 DEF Changed
<1>10. e.task \in [Enqueuers -> Tasks]
  BY <1>2, <1>3, <1>5 DEF Changed, Tasks, TaskStatus
<1>11. e \in Tables
  BY <1>4, <1>6, <1>7, <1>8, <1>9, <1>10 DEF Tables
<1> QED BY <1>11 DEF e, st

LEMMA CallsMove ==
  ASSUME TypeInv, NEW c \in Calls, NEW at \in Nat, Goes(c, at)
  PROVE  /\ CallType' /\ \A d \in Calls : d # c => calls'[d] = calls[d]
         /\ calls'[c].at = at /\ calls'[c].old = calls[c].old
BY DEF Goes, TypeInv, CallType, CallStates

LEMMA WorkersMove ==
  ASSUME TypeInv, NEW w \in Workers, NEW state \in WorkerStates, OfItsQueue(state),
         Turns(w, state)
  PROVE  /\ WorkerType' /\ \A v \in Workers : v # w => workers'[v] = workers[v]
         /\ workers'[w] = state
<1>1. workers' = [workers EXCEPT ![w] = state] /\ workers \in [Workers -> WorkerStates]
  BY DEF Turns, TypeInv, WorkerType
<1> HIDE DEF WorkerStates
<1>2. /\ workers' \in [Workers -> WorkerStates] /\ workers'[w] = state
      /\ \A v \in Workers : v # w => workers'[v] = workers[v]
  BY <1>1
<1>3. \A v \in Workers : OfItsQueue(workers'[v])
  BY <1>2 DEF TypeInv, WorkerType
<1> QED BY <1>2, <1>3 DEF WorkerType

(* The states a worker leaves a queue or a task in.                        *)
LEMMA NextStates ==
  ASSUME TypeInv, NEW w \in Workers
  PROVE  /\ workers[w] \in WorkerStates /\ OfItsQueue(workers[w])
         /\ IdleWorker \in WorkerStates /\ OfItsQueue(IdleWorker)
         /\ NextQueue(w) \in WorkerStates /\ OfItsQueue(NextQueue(w))
         /\ NextQueue(w).pc = "select" /\ NextQueue(w).batch = {}
         /\ NextTask(w) \in WorkerStates /\ OfItsQueue(NextTask(w))
         /\ NextTask(w).pc \in {"select", "begin"}
         /\ NextTask(w).pc = "begin" =>
              NextTask(w).queue = workers[w].queue /\ NextTask(w).batch = workers[w].batch
         /\ NextTask(w).pc = "select" => NextTask(w).batch = {}
<1>1. workers[w] \in WorkerStates /\ OfItsQueue(workers[w])
  BY DEF TypeInv, WorkerType
<1>2. /\ IdleWorker \in WorkerStates /\ OfItsQueue(IdleWorker)
      /\ IdleWorker.pc = "select" /\ IdleWorker.batch = {}
  BY DEF IdleWorker, WorkerStates, WorkerPcs, Busy, OfItsQueue
<1>3. /\ [IdleWorker EXCEPT !.queue = "notification"] \in WorkerStates
      /\ OfItsQueue([IdleWorker EXCEPT !.queue = "notification"])
      /\ [IdleWorker EXCEPT !.queue = "notification"].pc = "select"
      /\ [IdleWorker EXCEPT !.queue = "notification"].batch = {}
  BY DEF IdleWorker, WorkerStates, WorkerPcs, Busy, OfItsQueue
<1>4. /\ NextQueue(w) \in WorkerStates /\ OfItsQueue(NextQueue(w))
      /\ NextQueue(w).pc = "select" /\ NextQueue(w).batch = {}
  BY <1>2, <1>3 DEF NextQueue
<1> DEFINE next == [workers[w] EXCEPT !.pc = "begin", !.task = NoTx, !.shown = FALSE]
<1>5. /\ next \in WorkerStates /\ OfItsQueue(next) /\ next.pc = "begin"
      /\ next.queue = workers[w].queue /\ next.batch = workers[w].batch
  BY <1>1 DEF WorkerStates, WorkerPcs, Busy, OfItsQueue
<1> HIDE DEF next
<1>6. NextTask(w) = IF workers[w].batch = {} THEN NextQueue(w) ELSE next
  BY DEF NextTask, next
<1> QED BY <1>1, <1>2, <1>4, <1>5, <1>6

LEMMA MovesTo ==
  ASSUME TypeInv, NEW w \in Workers, NEW pc \in WorkerPcs, Moves(w, pc),
         workers[w].pc \in Busy, pc \in {"mark", "commit", "rollback", "record"}
  PROVE  /\ WorkerType' /\ \A v \in Workers : v # w => workers'[v] = workers[v]
         /\ workers'[w].pc = pc /\ workers'[w].queue = workers[w].queue
         /\ workers'[w].batch = workers[w].batch /\ workers'[w].task = workers[w].task
         /\ workers'[w].shown = workers[w].shown
<1> DEFINE state == [workers[w] EXCEPT !.pc = pc]
<1>1. workers[w] \in WorkerStates /\ OfItsQueue(workers[w])
  BY NextStates
<1>2. /\ state \in WorkerStates /\ OfItsQueue(state) /\ state.pc = pc
      /\ state.queue = workers[w].queue /\ state.batch = workers[w].batch
      /\ state.task = workers[w].task /\ state.shown = workers[w].shown
  BY <1>1 DEF WorkerStates, OfItsQueue, WorkerPcs, Busy
<1>3. Turns(w, state)
  BY DEF Moves, Turns, TypeInv, WorkerType
<1> HIDE DEF state
<1> QED BY <1>2, <1>3, WorkersMove

LEMMA CallStepType ==
  ASSUME TypeInv, NEW c \in Calls, CallStep(c)
  PROVE  /\ TypeInv' /\ UNCHANGED <<workers, sends, failures, overlapped, crashes>>
         /\ fails' \in Nat /\ fails' >= fails
         /\ \A d \in Calls : d # c => calls'[d] = calls[d]
<1>1. calls[c].at \in Nat /\ calls[c].old \in Decisions
  BY StatementIs
<1>2. UNCHANGED <<workers, sends, failures, overlapped, crashes>> /\ fails' \in Nat /\ fails' >= fails
  BY DEF CallStep, Execute, Check, Begin, BeginRefused, Commit, Throws, Rollback, history,
         StatementFails, TypeInv, CountType
<1>3. WorkerType' /\ CountType'
  BY <1>2 DEF TypeInv, WorkerType, CountType
<1>4. CallType' /\ \A d \in Calls : d # c => calls'[d] = calls[d]
  <2>1. ASSUME Execute(c) PROVE CallType' /\ \A d \in Calls : d # c => calls'[d] = calls[d]
    <3> DEFINE old == IF Statement(c) = "read" THEN db.suggestion[c.item] ELSE calls[c].old
    <3>1. old \in Decisions
      <4>1. CASE Statement(c) = "read"
        <5>1. c.item \in Suggestions
          BY <4>1, StatementIs, Programs, OpsOfCalls
        <5> QED BY <4>1, <5>1 DEF TypeInv, ConnectionType, Tables
      <4> QED BY <1>1, <4>1
    <3>2. calls' = [calls EXCEPT ![c].at = calls[c].at + 1, ![c].old = old]
      BY <2>1 DEF Execute, TypeInv, CallType
    <3> HIDE DEF old
    <3>3. /\ \A d \in Calls : d # c => calls'[d] = calls[d]
          /\ calls'[c] = [at |-> calls[c].at + 1, old |-> old]
          /\ DOMAIN calls' = Calls /\ calls' = [d \in Calls |-> calls'[d]]
      BY <3>2 DEF TypeInv, CallType, CallStates
    <3>4. [at |-> calls[c].at + 1, old |-> old] \in CallStates
      BY <1>1, <3>1 DEF CallStates
    <3>5. \A d \in Calls : calls'[d] \in CallStates
      BY <3>3, <3>4 DEF TypeInv, CallType
    <3> QED BY <3>3, <3>5 DEF CallType
  <2>2. ASSUME \E at \in Nat : Goes(c, at)
        PROVE  CallType' /\ \A d \in Calls : d # c => calls'[d] = calls[d]
    BY <2>2, CallsMove
  <2>3. CallStep(c) => Execute(c) \/ \E at \in Nat : Goes(c, at)
    BY <1>1 DEF CallStep, Check, Begin, BeginRefused, Commit, Throws, Rollback, Advances,
                Undoing, Failed
  <2> QED BY <2>1, <2>2, <2>3
<1>5. ConnectionType'
  <2>1. CASE Execute(c)
    BY <2>1, AfterType DEF Execute, TypeInv, ConnectionType
  <2>2. CASE Check(c) \/ BeginRefused(c) \/ Throws(c)
    BY <2>2 DEF Check, BeginRefused, Throws, TypeInv, ConnectionType
  <2>3. CASE Begin(c)
    BY <2>3 DEF Begin, Opens, TypeInv, ConnectionType
  <2>4. CASE Commit(c)
    BY <2>4, EmptyTablesType DEF Commit, Commits, Closes, TypeInv, ConnectionType
  <2>5. CASE Rollback(c)
    BY <2>5, EmptyTablesType DEF Rollback, RollsBack, Closes, TypeInv, ConnectionType
  <2> QED BY <2>1, <2>2, <2>3, <2>4, <2>5 DEF CallStep
<1> QED BY <1>2, <1>3, <1>4, <1>5 DEF TypeInv

(* What each step of a worker leaves in the worker.                        *)
LEMMA SelectLeaves ==
  ASSUME TypeInv, NEW w \in Workers, NEW late \in SUBSET Enqueuers, Select(w, late)
  PROVE  /\ WorkerType' /\ \A v \in Workers : v # w => workers'[v] = workers[v]
         /\ \/ workers'[w] = NextQueue(w)
            \/ /\ workers'[w].pc = "begin" /\ workers'[w].queue = workers[w].queue
               /\ workers'[w].batch =
                    {[id |-> t, attempts |-> db.task[t].attempts] :
                       t \in Waiting(db, workers[w].queue) \ late}
               /\ Waiting(db, workers[w].queue) \ late # {}
<1> DEFINE rows == Waiting(db, workers[w].queue) \ late
           batch == {[id |-> t, attempts |-> db.task[t].attempts] : t \in rows}
           state == [workers[w] EXCEPT !.pc = "begin", !.batch = batch]
<1>1. workers[w] \in WorkerStates /\ OfItsQueue(workers[w]) /\ db \in Tables
  BY NextStates DEF TypeInv, ConnectionType
<1>2. \A t \in rows : t \in Enqueuers /\ QueueOf(t) = workers[w].queue /\ db.task[t].attempts \in Nat
  BY <1>1 DEF Waiting, Tables, Tasks
<1>3. batch \in SUBSET Rows /\ \A row \in batch : QueueOf(row.id) = workers[w].queue
  BY <1>2 DEF Rows
<1>4. Turns(w, IF rows = {} THEN NextQueue(w) ELSE state)
  BY DEF Select
<1> HIDE DEF batch, rows
<1>5. /\ state \in WorkerStates /\ OfItsQueue(state)
      /\ state.pc = "begin" /\ state.queue = workers[w].queue /\ state.batch = batch
  BY <1>1, <1>3 DEF WorkerStates, OfItsQueue, WorkerPcs, Busy
<1> HIDE DEF state
<1>6. CASE rows = {}
  BY <1>4, <1>6, WorkersMove, NextStates
<1>7. CASE rows # {}
  BY <1>4, <1>5, <1>7, WorkersMove DEF batch, rows
<1> QED BY <1>6, <1>7

LEMMA BeginTaskLeaves ==
  ASSUME TypeInv, NEW w \in Workers, BeginTask(w)
  PROVE  /\ WorkerType' /\ \A v \in Workers : v # w => workers'[v] = workers[v]
         /\ \E row \in workers[w].batch :
              /\ row \in Rows /\ workers'[w].task = row
              /\ workers'[w].batch = workers[w].batch \ {row}
              /\ workers'[w].queue = workers[w].queue
              /\ workers'[w].pc = IF workers[w].queue = "fts" THEN "load" ELSE "send"
<1>1. PICK row \in workers[w].batch :
        Turns(w, [workers[w] EXCEPT !.task = row, !.batch = @ \ {row},
                    !.pc = IF workers[w].queue = "fts" THEN "load" ELSE "send"])
  BY DEF BeginTask
<1> DEFINE state == [workers[w] EXCEPT !.task = row, !.batch = @ \ {row},
                       !.pc = IF workers[w].queue = "fts" THEN "load" ELSE "send"]
<1>2. workers[w] \in WorkerStates /\ OfItsQueue(workers[w])
  BY NextStates
<1>3. row \in Rows /\ QueueOf(row.id) = workers[w].queue
  BY <1>2 DEF WorkerStates, OfItsQueue
<1>4. /\ state.task = row /\ state.batch = workers[w].batch \ {row}
      /\ state.queue = workers[w].queue /\ state \in WorkerStates
      /\ state.pc = IF workers[w].queue = "fts" THEN "load" ELSE "send"
  BY <1>2, <1>3 DEF WorkerStates, WorkerPcs, Busy
<1>5. OfItsQueue(state)
  <2>1. state.queue \in {"fts", "notification"}
    BY <1>4 DEF WorkerStates
  <2> HIDE DEF state
  <2> QED BY <1>2, <1>3, <1>4, <2>1 DEF OfItsQueue, Busy
<1>6. Turns(w, state)
  BY <1>1
<1> HIDE DEF state
<1> QED BY <1>3, <1>4, <1>5, <1>6, WorkersMove

LEMMA LoadLeaves ==
  ASSUME TypeInv, NEW w \in Workers, Load(w)
  PROVE  /\ WorkerType' /\ \A v \in Workers : v # w => workers'[v] = workers[v]
         /\ workers'[w].pc = "index" /\ workers'[w].queue = workers[w].queue
         /\ workers'[w].batch = workers[w].batch /\ workers'[w].task = workers[w].task
         /\ workers'[w].shown = (/\ db.comment[workers[w].task.id.item] = "public"
                                 /\ workers[w].task.id.item \notin db.isDeleted)
<1> DEFINE shown == /\ db.comment[workers[w].task.id.item] = "public"
                    /\ workers[w].task.id.item \notin db.isDeleted
           state == [workers[w] EXCEPT !.pc = "index", !.shown = shown]
<1>1. workers[w] \in WorkerStates /\ OfItsQueue(workers[w]) /\ workers[w].pc = "load"
  BY NextStates DEF Load
<1>2. Turns(w, state)
  BY DEF Load
<1>3. shown \in BOOLEAN
  OBVIOUS
<1> HIDE DEF shown
<1>4. /\ state \in WorkerStates /\ OfItsQueue(state)
      /\ state.pc = "index" /\ state.queue = workers[w].queue
      /\ state.batch = workers[w].batch /\ state.task = workers[w].task /\ state.shown = shown
  BY <1>1, <1>3 DEF WorkerStates, OfItsQueue, WorkerPcs, Busy
<1> HIDE DEF state
<1> QED BY <1>2, <1>4, WorkersMove DEF shown

(* The steps that only move on.                                            *)
Going(w) == Index(w) \/ Send(w) \/ Mark(w) \/ TaskFails(w) \/ RollbackTask(w)

Same(w) ==
  /\ WorkerType' /\ \A v \in Workers : v # w => workers'[v] = workers[v]
  /\ workers'[w].queue = workers[w].queue /\ workers'[w].shown = workers[w].shown
  /\ workers'[w].batch = workers[w].batch /\ workers'[w].task = workers[w].task
  /\ workers[w].pc \in Busy

LEMMA GoingLeaves ==
  ASSUME TypeInv, NEW w \in Workers, Going(w)
  PROVE  /\ Same(w)
         /\ Index(w) => workers[w].pc = "index" /\ workers'[w].pc = "mark"
         /\ Send(w) => workers[w].pc = "send" /\ workers'[w].pc = "mark"
         /\ Mark(w) => workers[w].pc = "mark" /\ workers'[w].pc = "commit"
         /\ TaskFails(w) => workers'[w].pc = "rollback"
         /\ RollbackTask(w) => workers[w].pc = "rollback" /\ workers'[w].pc = "record"
<1>1. ASSUME Index(w) \/ Send(w) PROVE Same(w) /\ workers'[w].pc = "mark"
  <2>1. Moves(w, "mark") /\ workers[w].pc \in {"index", "send"}
    BY <1>1 DEF Index, Send
  <2> QED BY <2>1, MovesTo DEF WorkerPcs, Busy, Same
<1>2. ASSUME Mark(w) PROVE Same(w) /\ workers'[w].pc = "commit"
  <2>1. Moves(w, "commit") /\ workers[w].pc = "mark"
    BY <1>2 DEF Mark
  <2> QED BY <2>1, MovesTo DEF WorkerPcs, Busy, Same
<1>3. ASSUME RollbackTask(w) PROVE Same(w) /\ workers'[w].pc = "record"
  <2>1. Moves(w, "record") /\ workers[w].pc = "rollback"
    BY <1>3 DEF RollbackTask
  <2> QED BY <2>1, MovesTo DEF WorkerPcs, Busy, Same
<1>4. ASSUME TaskFails(w) PROVE Same(w) /\ workers'[w].pc = "rollback"
  <2>1. Moves(w, "rollback") /\ workers[w].pc \in {"load", "index", "send", "mark", "commit"}
    BY <1>4 DEF TaskFails
  <2> QED BY <2>1, MovesTo DEF WorkerPcs, Busy, Same
<1>5. /\ Index(w) => workers[w].pc = "index"
      /\ Send(w) => workers[w].pc = "send"
      /\ Mark(w) => workers[w].pc = "mark"
      /\ RollbackTask(w) => workers[w].pc = "rollback"
  BY DEF Index, Send, Mark, RollbackTask
<1> QED BY <1>1, <1>2, <1>3, <1>4, <1>5 DEF Going

(* The steps that end a task or a run.                                     *)
Leaving(w) ==
  \/ SelectFails(w) \/ BatchRefused(w) \/ CommitTask(w) \/ NothingToRollBack(w)
  \/ Record(w) \/ RecordFails(w)

LEMMA LeavingLeaves ==
  ASSUME TypeInv, NEW w \in Workers, Leaving(w)
  PROVE  /\ WorkerType' /\ \A v \in Workers : v # w => workers'[v] = workers[v]
         /\ workers'[w] = IF CommitTask(w) \/ Record(w) THEN NextTask(w) ELSE NextQueue(w)
<1>1. Turns(w, IF CommitTask(w) \/ Record(w) THEN NextTask(w) ELSE NextQueue(w))
  BY DEF Leaving, SelectFails, BatchRefused, CommitTask, NothingToRollBack, Record, RecordFails
<1> QED BY <1>1, NextStates, WorkersMove

LEMMA UpdatedType ==
  ASSUME TypeInv, NEW t \in Enqueuers, NEW row \in Tasks
  PROVE  /\ Updated(t, row) \in Tables
         /\ \A u \in Enqueuers : Updated(t, row).task[u] =
              IF u = t /\ db.task[t].status # "none" THEN row ELSE db.task[u]
         /\ Updated(t, row).comment = db.comment /\ Updated(t, row).isDeleted = db.isDeleted
         /\ Updated(t, row).told = db.told /\ Updated(t, row).report = db.report
         /\ Updated(t, row).suggestion = db.suggestion /\ Updated(t, row).audit = db.audit
         /\ Updated(t, row).index = db.index
<1>1. db \in Tables /\ db.task \in [Enqueuers -> Tasks]
  BY DEF TypeInv, ConnectionType, Tables
<1> DEFINE task == [db.task EXCEPT ![t] = IF @.status = "none" THEN @ ELSE row]
<1>2. task \in [Enqueuers -> Tasks]
  BY <1>1
<1>3. \A u \in Enqueuers : task[u] = IF u = t /\ db.task[t].status # "none" THEN row ELSE db.task[u]
  BY <1>1
<1>4. Updated(t, row) = [db EXCEPT !.task = task]
  BY <1>1 DEF Updated, Tables
<1> HIDE DEF task
<1> QED BY <1>1, <1>2, <1>3, <1>4 DEF Tables

LEMMA ItemOfTask ==
  ASSUME TypeInv, NEW w \in Workers, workers[w].pc \in {"load", "index"}
  PROVE  workers[w].task.id.item \in Comments
<1>1. workers[w].task.id \in Enqueuers /\ QueueOf(workers[w].task.id) = "fts"
  BY NextStates DEF OfItsQueue, Busy, Rows
<1> QED BY <1>1, OpsOfCalls DEF QueueOf, Enqueuers

LEMMA WorkerStepType ==
  ASSUME TypeInv, NEW w \in Workers, WorkerStep(w)
  PROVE  /\ TypeInv' /\ UNCHANGED <<calls, crashes>> /\ fails' >= fails
         /\ \A v \in Workers : v # w => workers'[v] = workers[v]
<1>1. UNCHANGED <<calls, crashes>> /\ fails' \in Nat /\ fails' >= fails
  <2>1. UNCHANGED <<calls, crashes>>
    BY DEF WorkerStep, Select, SelectFails, BeginTask, BatchRefused, Load, Index, Send, Mark,
           CommitTask, TaskFails, RollbackTask, NothingToRollBack, Record, RecordFails
  <2>2. fails' = fails \/ fails' = fails + 1
    BY DEF WorkerStep, Select, SelectFails, BeginTask, BatchRefused, Load, Index, Send, Mark,
           CommitTask, TaskFails, RollbackTask, NothingToRollBack, Record, RecordFails,
           StatementFails
  <2> QED BY <2>1, <2>2 DEF TypeInv, CountType
<1>2. CallType' /\ crashes' \in Nat
  BY <1>1 DEF TypeInv, CallType, CountType
<1>3. \/ \E late \in SUBSET Enqueuers : Select(w, late)
      \/ BeginTask(w) \/ Load(w) \/ Going(w) \/ Leaving(w)
  BY DEF WorkerStep, Going, Leaving
<1>4. WorkerType' /\ \A v \in Workers : v # w => workers'[v] = workers[v]
  BY <1>3, SelectLeaves, BeginTaskLeaves, LoadLeaves, GoingLeaves, LeavingLeaves DEF Same
<1>5. workers[w].pc \in Busy \cup {"record"} =>
        /\ workers[w].task \in Rows /\ workers[w].task.id \in Enqueuers
        /\ workers[w].task.attempts \in Nat
  BY NextStates DEF OfItsQueue, Rows
<1>6. sends' \in [Enqueuers -> Nat] /\ failures' \in [Enqueuers -> Nat] /\ overlapped' \in BOOLEAN
  <2>1. CASE \E late \in SUBSET Enqueuers : Select(w, late)
    BY <2>1 DEF Select, TypeInv, CountType
  <2>2. CASE BeginTask(w) \/ Load(w) \/ Leaving(w)
    BY <2>2 DEF BeginTask, Load, Leaving, SelectFails, BatchRefused, CommitTask,
         NothingToRollBack, Record, RecordFails, history, TypeInv, CountType
  <2>3. CASE Index(w) \/ Mark(w) \/ RollbackTask(w)
    BY <2>3 DEF Index, Mark, RollbackTask, history, TypeInv, CountType
  <2>4. CASE Send(w)
    BY <2>4, <1>5 DEF Send, Busy, TypeInv, CountType
  <2>5. CASE TaskFails(w)
    BY <2>5, <1>5 DEF TaskFails, Busy, TypeInv, CountType
  <2> QED BY <1>3, <2>1, <2>2, <2>3, <2>4, <2>5 DEF Going
<1>7. ConnectionType'
  <2>1. CASE \/ \E late \in SUBSET Enqueuers : Select(w, late)
             \/ Load(w) \/ Send(w) \/ TaskFails(w) \/ SelectFails(w) \/ BatchRefused(w)
             \/ NothingToRollBack(w) \/ RecordFails(w)
    BY <2>1 DEF Select, Load, Send, TaskFails, SelectFails, BatchRefused, NothingToRollBack,
         RecordFails, TypeInv, ConnectionType
  <2>2. CASE BeginTask(w)
    BY <2>2 DEF BeginTask, Opens, TypeInv, ConnectionType
  <2>3. CASE CommitTask(w)
    BY <2>3, EmptyTablesType DEF CommitTask, Commits, Closes, TypeInv, ConnectionType
  <2>4. CASE RollbackTask(w)
    BY <2>4, EmptyTablesType DEF RollbackTask, RollsBack, Closes, TypeInv, ConnectionType
  <2>5. CASE Index(w)
    <3> DEFINE index == [db.index EXCEPT ![workers[w].task.id.item] =
                           IF workers[w].shown THEN @ + 1 ELSE 0]
    <3>1. db' = [db EXCEPT !.index = index] /\ UNCHANGED <<undo, tx, stray>>
      BY <2>5 DEF Index, TypeInv, ConnectionType, Tables
    <3>2. index \in [Comments -> Nat]
      <4>1. db.index \in [Comments -> Nat] /\ workers[w].task.id.item \in Comments
        BY <2>5, ItemOfTask DEF Index, TypeInv, ConnectionType, Tables
      <4>2. db.index[workers[w].task.id.item] + 1 \in Nat
        BY <4>1
      <4> QED BY <4>1, <4>2
    <3> HIDE DEF index
    <3> QED BY <3>1, <3>2 DEF TypeInv, ConnectionType, Tables
  <2>6. CASE Mark(w)
    <3>1. db.task \in [Enqueuers -> Tasks] /\ workers[w].task.id \in Enqueuers
      BY <2>6, <1>5 DEF Mark, Busy, TypeInv, ConnectionType, Tables
    <3>2. [status |-> "done", attempts |-> db.task[workers[w].task.id].attempts] \in Tasks
      BY <3>1 DEF Tasks, TaskStatus
    <3>3. db' \in Tables
      BY <2>6, <3>1, <3>2, UpdatedType DEF Mark
    <3> QED BY <2>6, <3>3 DEF Mark, TypeInv, ConnectionType
  <2>7. CASE Record(w)
    <3>1. Recorded(workers[w].task.attempts + 1) \in Tasks /\ workers[w].task.id \in Enqueuers
      BY <2>7, <1>5 DEF Record, Recorded, Tasks, TaskStatus
    <3>2. db' \in Tables
      BY <2>7, <3>1, UpdatedType DEF Record
    <3> QED BY <2>7, <3>2 DEF Record, TypeInv, ConnectionType
  <2> QED BY <1>3, <2>1, <2>2, <2>3, <2>4, <2>5, <2>6, <2>7 DEF Going, Leaving
<1> QED BY <1>1, <1>2, <1>4, <1>6, <1>7 DEF TypeInv, CountType

(* The process dies.                                                       *)
LEMMA CrashType ==
  ASSUME TypeInv, Crash
  PROVE  /\ TypeInv' /\ tx' = NoTx /\ db' = Committed /\ undo' = EmptyTables
         /\ crashes' > crashes /\ UNCHANGED <<sends, failures, overlapped, stray, fails>>
         /\ \A c \in Calls :
              \/ calls'[c] = calls[c] /\ (calls[c].at \in {1, Unused} \/ Done(c))
              \/ calls'[c].at = Failed
         /\ \A w \in Workers : \/ workers'[w] = workers[w] /\ workers[w].pc = "unused"
                               \/ workers'[w] = IdleWorker
<1>1. /\ calls' = [c \in Calls |-> IF calls[c].at \in {1, Unused} \/ Done(c) THEN calls[c]
                                   ELSE [calls[c] EXCEPT !.at = Failed]]
      /\ workers' = [w \in Workers |-> IF workers[w].pc = "unused" THEN workers[w] ELSE IdleWorker]
      /\ tx' = NoTx /\ db' = Committed /\ undo' = EmptyTables
      /\ crashes' = crashes + 1 /\ UNCHANGED <<sends, failures, overlapped, stray, fails>>
  BY DEF Crash, history
<1>2. CallType'
  BY <1>1 DEF TypeInv, CallType, CallStates, Failed
<1>3. \A w \in Workers : /\ workers'[w] \in WorkerStates /\ OfItsQueue(workers'[w])
                         /\ \/ workers'[w] = workers[w] /\ workers[w].pc = "unused"
                            \/ workers'[w] = IdleWorker
  BY <1>1, NextStates
<1>4. WorkerType'
  BY <1>1, <1>3 DEF WorkerType
<1>5. ConnectionType' /\ CountType' /\ crashes' > crashes
  BY <1>1, EmptyTablesType DEF TypeInv, ConnectionType, CountType, Committed
<1> QED BY <1>1, <1>2, <1>3, <1>4, <1>5 DEF TypeInv, CallType, CallStates

-----------------------------------------------------------------------------
(* The connection.  Unless a transaction was ended by another one, whoever *)
(* is between BEGIN and COMMIT holds the open transaction.                 *)
Inside(c) == Within(c.op, calls[c].at)

Owner ==
  ~stray => /\ \A c \in Calls : Inside(c) => tx = c
            /\ \A w \in Workers : workers[w].pc \in Busy => tx = w

LEMMA Positions ==
  ASSUME NEW op \in Ops, NEW at \in Nat
  PROVE  /\ ~Within(op, 0) /\ ~Within(op, 1) /\ ~Within(op, 100) /\ ~Within(op, 101)
         /\ at = Len(Program(op)) + 1 => ~Within(op, at)
         /\ StatementOf(op, at) \in {"commit", "check"} => ~Within(op, at + 1)
         /\ StatementOf(op, at) \in Plain /\ Within(op, at + 1) => Within(op, at)
         /\ Len(Program(op)) \in Nat /\ Len(Program(op)) <= 5
<1>1. Begins(op) \in 0..2 /\ Ends(op) \in {0, 4, 5} /\ (Begins(op) = 0 <=> op = "notify")
  BY DEF Ops, Begins, Ends
<1>2. /\ ~Within(op, 0) /\ ~Within(op, 1) /\ ~Within(op, 100) /\ ~Within(op, 101)
  BY <1>1 DEF Within, Begins, Ends
<1>3. Len(Program(op)) \in Nat /\ Len(Program(op)) <= 5 /\ Len(Program(op)) >= Ends(op)
  BY DEF Ops, Program, Ends
<1>4. at = Len(Program(op)) + 1 => ~Within(op, at)
  BY <1>1, <1>3 DEF Within
<1>5. StatementOf(op, at) \in {"commit", "check"} => ~Within(op, at + 1)
  BY <1>1, Programs DEF Within, Begins, Ends
<1>6. StatementOf(op, at) \in Plain /\ Within(op, at + 1) => Within(op, at)
  <2>1. StatementOf(op, at) \in Plain => StatementOf(op, at) # "begin"
    BY DEF Plain
  <2>2. Within(op, at + 1) => op # "notify" /\ at >= Begins(op) /\ at <= Ends(op)
    BY <1>1 DEF Within, Ends
  <2>3. StatementOf(op, at) = "begin" <=> at = Begins(op) /\ op # "notify"
    BY Programs
  <2> QED BY <1>1, <2>1, <2>2, <2>3 DEF Within
<1> QED BY <1>2, <1>3, <1>4, <1>5, <1>6

(* Nobody is inside while no transaction is open.                          *)
LEMMA NobodyInside ==
  ASSUME TypeInv, Owner, ~stray, tx = NoTx
  PROVE  /\ \A c \in Calls : ~Inside(c)
         /\ \A w \in Workers : workers[w].pc \notin Busy
BY CommunityAssumptions DEF Owner

LEMMA CallOwner ==
  ASSUME TypeInv, Owner, NEW c \in Calls, CallStep(c)
  PROVE  Owner'
<1>1. /\ c.op \in Ops /\ calls[c].at \in Nat /\ Statement(c) = StatementOf(c.op, calls[c].at)
      /\ UNCHANGED workers /\ \A d \in Calls : d # c => calls'[d] = calls[d]
  BY StatementIs, CallStepType
<1>2. (stray => stray') /\ \A d \in Calls : d # c => (Inside(d)' <=> Inside(d))
  BY <1>1 DEF CallStep, Execute, Check, Begin, BeginRefused, Commit, Throws, Rollback,
       Commits, RollsBack, Closes, Inside
<1>3. CASE Execute(c)
  <2>1. calls'[c].at = calls[c].at + 1 /\ UNCHANGED tx
    BY <1>3 DEF Execute, TypeInv, CallType, CallStates
  <2>2. Inside(c)' => Inside(c)
    BY <1>1, <1>3, <2>1, Positions DEF Inside, Execute
  <2> QED BY <1>1, <1>2, <2>1, <2>2 DEF Owner
<1>4. CASE Check(c)
  <2>1. Statement(c) = "check" /\ UNCHANGED tx
        /\ (Goes(c, calls[c].at + 1) \/ Goes(c, Failed))
    BY <1>4 DEF Check, Advances
  <2>2. calls'[c].at \in {calls[c].at + 1, 100}
    BY <1>1, <2>1, CallsMove DEF Failed
  <2>3. ~Inside(c)'
    <3>1. ~Within(c.op, calls[c].at + 1) /\ ~Within(c.op, 100)
      BY <1>1, <2>1, Positions
    <3> QED BY <2>2, <3>1 DEF Inside
  <2> QED BY <1>1, <1>2, <2>1, <2>3 DEF Owner
<1>5. CASE Begin(c)
  <2>1. tx = NoTx /\ tx' = c /\ UNCHANGED stray
    BY <1>5 DEF Begin, Opens
  <2> QED BY <1>1, <1>2, <2>1, NobodyInside DEF Owner
<1>6. CASE BeginRefused(c) \/ Throws(c)
  <2>1. UNCHANGED tx /\ (Goes(c, 0) \/ Goes(c, 100))
    BY <1>6 DEF BeginRefused, Throws, Failed, Undoing
  <2>2. calls'[c].at \in {0, 100}
    BY <2>1, CallsMove
  <2>3. ~Inside(c)'
    BY <1>1, <2>2, Positions DEF Inside
  <2> QED BY <1>1, <1>2, <2>1, <2>3 DEF Owner
<1>7. CASE Commit(c)
  <2>1. /\ Statement(c) = "commit" /\ Goes(c, calls[c].at + 1)
        /\ stray' = (stray \/ tx # c)
    BY <1>7 DEF Commit, Commits, Closes, Advances
  <2>2. calls'[c].at = calls[c].at + 1
    BY <1>1, <2>1, CallsMove
  <2>3. ~Inside(c)'
    <3>1. ~Within(c.op, calls[c].at + 1) /\ ~Within(c.op, 100)
      BY <1>1, <2>1, Positions
    <3> QED BY <2>2, <3>1 DEF Inside
  <2>4. ~stray' => ~stray /\ tx = c
    BY <2>1
  <2> QED BY <1>1, <1>2, <2>3, <2>4, CommunityAssumptions DEF Owner
<1>8. CASE Rollback(c)
  <2>1. Goes(c, 100) /\ (UNCHANGED <<tx, stray>> \/ stray' = (stray \/ tx # c))
    BY <1>8 DEF Rollback, RollsBack, Closes, Failed
  <2>2. calls'[c].at = 100
    BY <2>1, CallsMove
  <2>3. ~Inside(c)'
    BY <1>1, <2>2, Positions DEF Inside
  <2>4. ~stray' => ~stray /\ (UNCHANGED tx \/ tx = c)
    BY <2>1
  <2> QED BY <1>1, <1>2, <2>3, <2>4, CommunityAssumptions DEF Owner
<1> QED BY <1>3, <1>4, <1>5, <1>6, <1>7, <1>8 DEF CallStep

LEMMA WorkerOwner ==
  ASSUME TypeInv, Owner, NEW w \in Workers, WorkerStep(w)
  PROVE  Owner'
<1>1. /\ UNCHANGED calls /\ \A v \in Workers : v # w => workers'[v] = workers[v]
      /\ \A c \in Calls : Inside(c)' <=> Inside(c)
  BY WorkerStepType DEF Inside
<1>2. CASE \E late \in SUBSET Enqueuers : Select(w, late)
  <2>1. workers'[w].pc \notin Busy
    BY <1>2, SelectLeaves, NextStates DEF Busy
  <2>2. UNCHANGED <<tx, stray>>
    BY <1>2 DEF Select
  <2> QED BY <1>1, <2>1, <2>2 DEF Owner
<1>3. CASE BeginTask(w)
  <2>1. tx = NoTx /\ tx' = w /\ UNCHANGED stray
    BY <1>3 DEF BeginTask, Opens
  <2> QED BY <1>1, <2>1, NobodyInside DEF Owner
<1>4. CASE Load(w)
  BY <1>1, <1>4 DEF Load, Owner, Busy
<1>5. CASE Index(w) \/ Send(w) \/ Mark(w) \/ TaskFails(w)
  <2>1. workers[w].pc \in Busy /\ UNCHANGED <<tx, stray>>
    BY <1>5 DEF Index, Send, Mark, TaskFails, Busy
  <2> QED BY <1>1, <2>1 DEF Owner
<1>6. CASE RollbackTask(w)
  <2>1. workers'[w].pc \notin Busy
    BY <1>6, GoingLeaves DEF Going, Busy
  <2>2. ~stray' => ~stray /\ tx = w
    BY <1>6 DEF RollbackTask, RollsBack, Closes
  <2> QED BY <1>1, <2>1, <2>2, CommunityAssumptions DEF Owner
<1>7. CASE Leaving(w)
  <2>1. workers'[w].pc \notin Busy
    BY <1>7, LeavingLeaves, NextStates DEF Busy
  <2>2. CASE CommitTask(w)
    <3>1. ~stray' => ~stray /\ tx = w
      BY <2>2 DEF CommitTask, Commits, Closes
    <3> QED BY <1>1, <2>1, <3>1, CommunityAssumptions DEF Owner
  <2>3. CASE ~CommitTask(w)
    <3>1. UNCHANGED <<tx, stray>>
      BY <1>7, <2>3 DEF Leaving, SelectFails, BatchRefused, NothingToRollBack, Record, RecordFails
    <3> QED BY <1>1, <2>1, <3>1 DEF Owner
  <2> QED BY <2>2, <2>3
<1> QED BY <1>2, <1>3, <1>4, <1>5, <1>6, <1>7 DEF WorkerStep, Leaving

LEMMA CrashOwner ==
  ASSUME TypeInv, Owner, Crash
  PROVE  Owner'
<1>1. \A w \in Workers : workers'[w].pc \notin Busy
  BY CrashType DEF Busy, IdleWorker
<1>2. ASSUME NEW c \in Calls PROVE ~Inside(c)'
  <2>1. \/ calls'[c] = calls[c] /\ (calls[c].at \in {1, Unused} \/ Done(c))
        \/ calls'[c].at = Failed
    BY CrashType
  <2> QED BY <2>1, StatementIs, Positions DEF Inside, Unused, Failed, Done
<1> QED BY <1>1, <1>2 DEF Owner

-----------------------------------------------------------------------------
(* The tables at a COMMIT.                                                 *)

(* A comment not inserted yet was not reported and is not about to be.     *)
Untouched(d, c) == d.comment[c] = "absent" /\ \A u \in Users : d.report[<<c, u>>] = "none"

Fresh ==
  \A x \in Calls : x.op = "add" /\ calls[x].at \in {1, 2} =>
    /\ Untouched(db, x.item) /\ Untouched(undo, x.item)
    /\ \A y \in Calls : y.op = "report" /\ y.item = x.item => calls[y].at \notin 2..5

FinitelyPending ==
  \A c \in Comments : IsFiniteSet(PendingOn(db, c)) /\ IsFiniteSet(PendingOn(undo, c))

Handled(d, c) ==
  \/ d.comment[c] # "public" /\ (c \in d.told \/ c \in d.isDeleted)
  \/ \E u \in Users : d.report[<<c, u>>] = "resolved_keep"

Before(log, i) == IF i = 1 THEN "pending" ELSE log[i - 1].new
Linked(log) == \A i \in 1..Len(log) : log[i].old = Before(log, i)
Last(log) == Before(log, Len(log) + 1)

Whole(d) ==
  /\ \A c \in d.isDeleted : d.index[c] = 0
  /\ \A c \in Comments : Hides(c, d) => Handled(d, c)
  /\ \A s \in Suggestions : Linked(d.audit[s]) /\ d.suggestion[s] = Last(d.audit[s])

(* Within a transaction: what the statements of whoever holds it have left *)
(* to do, and what they go by.                                             *)
HalfIndexed ==
  /\ \A c \in db.isDeleted :
       db.index[c] = 0 \/ \E x \in Calls : x.item = c /\ Statement(x) = "unindex"
  /\ \A w \in Workers : workers[w].pc = "index" /\ workers[w].shown =>
       workers[w].task.id.item \notin db.isDeleted

HalfHandled ==
  /\ \A c \in Comments : Hides(c, db) =>
       \/ Handled(db, c)
       \/ \E x \in Calls : x.item = c /\ Statement(x) \in {"escalate", "remove"}
  /\ \A x \in Calls : Statement(x) = "restore" => db.report[Named(x)] = "resolved_keep"

HalfChained ==
  /\ \A s \in Suggestions :
       /\ Linked(db.audit[s])
       /\ \/ db.suggestion[s] = Last(db.audit[s])
          \/ \E x \in Calls : x.item = s /\ Statement(x) = "audit"
  /\ \A x \in Calls : Statement(x) \in {"decide", "audit"} =>
       /\ calls[x].old = Last(db.audit[x.item])
       /\ Statement(x) = "audit" => db.suggestion[x.item] = Decision(x.op)

Half == HalfIndexed /\ HalfHandled /\ HalfChained

(* The open transaction is about to be rolled back.                        *)
Doomed ==
  \/ \E c \in Calls : tx = c /\ calls[c].at = Undoing
  \/ \E w \in Workers : tx = w /\ workers[w].pc = "rollback"

WholeInv == ~stray => Whole(undo) /\ (Doomed \/ Half)

(* What a step does to the tables, and to where a call is.                 *)
LEMMA TablesMove ==
  ASSUME TypeInv, Next
  PROVE  /\ undo' = undo \/ undo' = db \/ undo' = EmptyTables
         /\ \/ db' = db \/ db' = undo
            \/ \E c \in Calls : Execute(c)
            \/ \E w \in Workers : Index(w) \/ Mark(w) \/ Record(w)
<1>1. CASE \E c \in Calls : CallStep(c)
  BY <1>1 DEF CallStep, Check, Begin, BeginRefused, Commit, Throws, Rollback, Execute,
       Opens, Commits, RollsBack, Closes
<1>2. CASE \E w \in Workers : WorkerStep(w)
  BY <1>2 DEF WorkerStep, Select, SelectFails, BeginTask, BatchRefused, Load, Index, Send, Mark,
       CommitTask, TaskFails, RollbackTask, NothingToRollBack, Record, RecordFails,
       Opens, Commits, RollsBack, Closes
<1>3. CASE Crash
  BY <1>3 DEF Crash, Committed
<1> QED BY <1>1, <1>2, <1>3 DEF Next

LEMMA WorkerTables ==
  ASSUME TypeInv, NEW w \in Workers, Index(w) \/ Mark(w) \/ Record(w)
  PROVE  /\ db'.comment = db.comment /\ db'.isDeleted = db.isDeleted /\ db'.told = db.told
         /\ db'.report = db.report /\ db'.suggestion = db.suggestion /\ db'.audit = db.audit
         /\ Mark(w) \/ Record(w) => db'.index = db.index
         /\ Index(w) => db'.task = db.task
         /\ Index(w) => \A c \in Comments : db'.index[c] =
              IF c = workers[w].task.id.item
              THEN IF workers[w].shown THEN db.index[c] + 1 ELSE 0
              ELSE db.index[c]
<1>1. CASE Index(w)
  <2>1. db \in Tables /\ db.index \in [Comments -> Nat]
        /\ workers[w].task.id.item \in Comments
        /\ ~Mark(w) /\ ~Record(w)
    BY <1>1, ItemOfTask DEF Index, Mark, Record, TypeInv, ConnectionType, Tables
  <2> DEFINE index == [db.index EXCEPT ![workers[w].task.id.item] =
                         IF workers[w].shown THEN @ + 1 ELSE 0]
  <2>2. db' = [db EXCEPT !.index = index]
    BY <1>1, <2>1 DEF Index, Tables
  <2>3. \A c \in Comments : index[c] =
          IF c = workers[w].task.id.item
          THEN IF workers[w].shown THEN db.index[c] + 1 ELSE 0
          ELSE db.index[c]
    BY <2>1
  <2> HIDE DEF index
  <2> QED BY <2>1, <2>2, <2>3 DEF Tables
<1>2. CASE Mark(w)
  <2>1. workers[w].pc = "mark" /\ ~Index(w)
    BY <1>2 DEF Mark, Index
  <2>2. workers[w].task.id \in Enqueuers
    BY <2>1, NextStates DEF OfItsQueue, Busy, Rows
  <2>3. [status |-> "done", attempts |-> db.task[workers[w].task.id].attempts] \in Tasks
    BY <2>2 DEF Tasks, TaskStatus, TypeInv, ConnectionType, Tables
  <2> QED BY <1>2, <2>1, <2>2, <2>3, UpdatedType DEF Mark
<1>3. CASE Record(w)
  <2>1. workers[w].pc = "record" /\ ~Index(w)
    BY <1>3 DEF Record, Index
  <2>2. workers[w].task.id \in Enqueuers /\ workers[w].task.attempts \in Nat
    BY <2>1, NextStates DEF OfItsQueue, Rows
  <2>3. Recorded(workers[w].task.attempts + 1) \in Tasks
    BY <2>2 DEF Recorded, Tasks, TaskStatus
  <2> QED BY <1>3, <2>1, <2>2, <2>3, UpdatedType DEF Record
<1> QED BY <1>1, <1>2, <1>3

LEMMA CallMoves ==
  ASSUME TypeInv, NEW c \in Calls, CallStep(c)
  PROVE  \/ Statement(c) # "none" /\ calls'[c].at = calls[c].at + 1
         \/ calls'[c].at \in {0, 100}
<1>1. calls[c].at \in Nat /\ calls[c].at + 1 \in Nat
  BY StatementIs
<1>2. CASE Execute(c)
  BY <1>2 DEF Execute, Plain, TypeInv, CallType, CallStates
<1>3. ASSUME Goes(c, calls[c].at + 1), Statement(c) # "none"
      PROVE  calls'[c].at = calls[c].at + 1
  BY <1>1, <1>3, CallsMove
<1>4. ASSUME Goes(c, 0) \/ Goes(c, 100)
      PROVE  calls'[c].at \in {0, 100}
  BY <1>4, CallsMove
<1>5. \/ Execute(c) \/ Goes(c, 0) \/ Goes(c, 100)
      \/ Goes(c, calls[c].at + 1) /\ Statement(c) # "none"
  BY DEF CallStep, Check, Begin, BeginRefused, Commit, Throws, Rollback, Advances,
       Undoing, Failed
<1> QED BY <1>2, <1>3, <1>4, <1>5

LEMMA AnyCallMoves ==
  ASSUME TypeInv, Next, NEW c \in Calls
  PROVE  \/ calls'[c] = calls[c]
         \/ calls'[c].at \in {0, 100}
         \/ CallStep(c) /\ Statement(c) # "none" /\ calls'[c].at = calls[c].at + 1
<1>1. CASE \E d \in Calls : CallStep(d)
  BY <1>1, CallMoves, CallStepType
<1>2. CASE \E w \in Workers : WorkerStep(w)
  BY <1>2, WorkerStepType
<1>3. CASE Crash
  BY <1>3, CrashType DEF Failed
<1> QED BY <1>1, <1>2, <1>3 DEF Next

LEMMA FreshStep ==
  ASSUME TypeInv, Fresh, Next
  PROVE  Fresh'
<1> SUFFICES ASSUME NEW x \in Calls, x.op = "add", calls'[x].at \in {1, 2}
             PROVE  /\ Untouched(db', x.item) /\ Untouched(undo', x.item)
                    /\ \A y \in Calls : y.op = "report" /\ y.item = x.item =>
                         calls'[y].at \notin 2..5
  BY DEF Fresh
<1>1. calls[x].at \in {1, 2}
  <2>1. calls[x].at \in Nat /\ Statement(x) = StatementOf("add", calls[x].at)
    BY StatementIs
  <2>2. Statement(x) # "none" => calls[x].at >= 1
    BY <2>1, AddProgram
  <2> QED BY <2>1, <2>2, AnyCallMoves
<1>2. /\ Untouched(db, x.item) /\ Untouched(undo, x.item)
      /\ \A y \in Calls : y.op = "report" /\ y.item = x.item => calls[y].at \notin 2..5
  BY <1>1 DEF Fresh
<1>3. x.item \in Comments /\ db \in Tables /\ undo \in Tables
  BY OpsOfCalls DEF TypeInv, ConnectionType
<1>4. Untouched(EmptyTables, x.item)
  BY <1>3 DEF Untouched, EmptyTables
<1>5. ASSUME NEW y \in Calls, y.op = "report", y.item = x.item PROVE calls'[y].at \notin 2..5
  <2>1. calls[y].at \in Nat /\ calls[y].at \notin 2..5 /\ Statement(y) = StatementOf("report", calls[y].at)
    BY <1>2, <1>5, StatementIs
  <2>2. Statement(y) # "none" => calls[y].at = 1 /\ Statement(y) = "check"
    BY <2>1, ReportProgram
  <2>3. CASE CallStep(y) /\ Statement(y) = "check" /\ calls'[y].at = 2
    <3>1. Check(y) \/ Throws(y)
      <4>1. calls[y].at = 1
        BY <2>2, <2>3
      <4> QED BY <2>3, <4>1 DEF CallStep, Execute, Begin, BeginRefused, Commit, Rollback, Plain,
                Undoing
    <3>2. CASE Check(y)
      <4>1. Goes(y, Failed)
        BY <1>2, <1>5, <3>2 DEF Check, Untouched
      <4> QED BY <2>3, <4>1, CallsMove DEF Failed
    <3>3. CASE Throws(y)
      <4>1. Goes(y, 0) \/ Goes(y, 100)
        BY <3>3 DEF Throws, Undoing, Failed
      <4> QED BY <2>3, <4>1, CallsMove
    <3> QED BY <3>1, <3>2, <3>3
  <2> QED BY <2>1, <2>2, <2>3, AnyCallMoves
<1>6. Untouched(undo', x.item)
  BY <1>2, <1>4, TablesMove
<1>7. Untouched(db', x.item)
  <2>1. CASE \E w \in Workers : Index(w) \/ Mark(w) \/ Record(w)
    BY <1>2, <2>1, WorkerTables DEF Untouched
  <2>2. ASSUME NEW c \in Calls, Execute(c) PROVE Untouched(db', x.item)
    <3> DEFINE st == Statement(c)
    <3>1. /\ st \in Plain /\ Changed(c, st, db, db')
          /\ st = "resolve" => db.report[Named(c)] # "none"
      BY <1>3, <2>2, AfterChanges DEF Execute, Named
    <3>2. st = "insert" => c.item # x.item
      <4>1. st = "insert" => c.op = "add" /\ calls[c].at = 2
        BY StatementIs, Programs
      <4>2. st = "insert" => calls'[c].at = 3
        BY <2>2, <4>1 DEF Execute, TypeInv, CallType, CallStates
      <4> QED BY <4>1, <4>2, CommunityAssumptions
    <3>3. st = "report" => c.item # x.item
      BY <1>2, StatementIs, Programs
    <3>4. st = "resolve" => c.item # x.item
      BY <1>2, <3>1, OpsOfCalls DEF Untouched, Named
    <3>5. db.comment \in [Comments -> CommentStatus] /\ db.report \in [Pairs -> ReportStatus]
      BY <1>3 DEF Tables
    <3>6. db'.comment[x.item] = "absent"
      BY <1>2, <1>3, <3>1, <3>2, <3>5 DEF Changed, Marks, Untouched
    <3>7. ASSUME NEW u \in Users PROVE db'.report[<<x.item, u>>] = "none"
      <4>1. <<x.item, u>> \in Pairs /\ db.report[<<x.item, u>>] = "none"
        BY <1>2, <1>3 DEF Pairs, Untouched
      <4>2. st \in {"report", "resolve"} => Named(c) # <<x.item, u>>
        BY <3>3, <3>4 DEF Named
      <4> QED BY <3>1, <3>5, <4>1, <4>2 DEF Changed
    <3> QED BY <3>6, <3>7 DEF Untouched
  <2> QED BY <1>2, <2>1, <2>2, TablesMove
<1> QED BY <1>5, <1>6, <1>7

LEMMA FewerArePending ==
  ASSUME NEW S, NEW T, NEW u, IsFiniteSet(S), T \subseteq S \cup {u}
  PROVE  IsFiniteSet(T)
<1>1. IsFiniteSet(S \cup {u})
  BY FS_AddElement
<1> QED BY <1>1, FS_Subset

LEMMA PendingStep ==
  ASSUME TypeInv, FinitelyPending, Next
  PROVE  FinitelyPending'
<1> SUFFICES ASSUME NEW c \in Comments
             PROVE  IsFiniteSet(PendingOn(db', c)) /\ IsFiniteSet(PendingOn(undo', c))
  BY DEF FinitelyPending, PendingOn
<1>1. IsFiniteSet(PendingOn(db, c)) /\ IsFiniteSet(PendingOn(undo, c))
  BY DEF FinitelyPending
<1>2. PendingOn(EmptyTables, c) = {}
  BY DEF PendingOn, EmptyTables
<1>3. IsFiniteSet(PendingOn(undo', c))
  BY <1>1, <1>2, TablesMove, FS_EmptySet
<1>4. CASE \E w \in Workers : Index(w) \/ Mark(w) \/ Record(w)
  <2>1. PendingOn(db', c) = PendingOn(db, c)
    BY <1>4, WorkerTables DEF PendingOn
  <2> QED BY <1>1, <1>3, <2>1
<1>5. ASSUME NEW x \in Calls, Execute(x) PROVE IsFiniteSet(PendingOn(db', c))
  <2>1. Changed(x, Statement(x), db, db') /\ db.report \in [Pairs -> ReportStatus]
    BY <1>5, AfterChanges DEF Execute, TypeInv, ConnectionType, Tables
  <2>2. \A u \in Users : <<c, u>> \in Pairs
    BY DEF Pairs
  <2>3. ASSUME NEW u \in Users, db'.report[<<c, u>>] = "pending", u # x.user
        PROVE  db.report[<<c, u>>] = "pending"
    <3>1. Named(x) # <<c, u>>
      BY <2>3 DEF Named
    <3> QED BY <2>1, <2>2, <2>3, <3>1 DEF Changed
  <2>4. PendingOn(db', c) \subseteq PendingOn(db, c) \cup {x.user}
    BY <2>3 DEF PendingOn
  <2> QED BY <1>1, <2>4, FewerArePending
<1> QED BY <1>1, <1>3, <1>4, <1>5, TablesMove

-----------------------------------------------------------------------------
(* The statements that have something left to do or go by what was read.   *)
Telling == {"unindex", "escalate", "remove", "restore", "decide", "audit"}

LEMMA TellingIsInside ==
  ASSUME TypeInv, NEW c \in Calls
  PROVE  /\ Statement(c) \in Telling \cup {"insert", "toggle", "report", "resolve", "read", "commit"}
              => Inside(c)
         /\ Statement(c) # "none" => calls[c].at # Undoing
         /\ Inside(c) => Guarded(c)
         /\ Statement(c) = "enqueue" => Inside(c) \/ c.op = "notify"
<1> DEFINE st == StatementOf(c.op, calls[c].at)
<1>1. /\ Statement(c) = st /\ c.op \in Ops /\ calls[c].at \in Nat
  BY StatementIs
<1>2. /\ st \in Telling \cup {"insert", "toggle", "report", "resolve", "read", "commit"} => Inside(c)
      /\ st = "enqueue" => Inside(c) \/ c.op = "notify"
  <2>1. st \in {"unindex", "remove", "resolve", "restore"} => Inside(c)
    BY <1>1, Programs DEF Inside, Within, Begins, Ends
  <2>2. st \in {"escalate", "report", "toggle", "insert"} => Inside(c)
    BY <1>1, Programs DEF Inside, Within, Begins, Ends
  <2>3. st \in {"decide", "audit", "read"} => Inside(c)
    BY <1>1, Programs DEF Inside, Within, Begins, Ends
  <2>4. st = "commit" => Inside(c)
    BY <1>1, Programs DEF Ops, Inside, Within, Begins, Ends
  <2>5. st = "enqueue" => Inside(c) \/ c.op = "notify"
    BY <1>1, Programs DEF Inside, Within, Begins, Ends
  <2> QED BY <2>1, <2>2, <2>3, <2>4, <2>5 DEF Telling
<1>3. Statement(c) # "none" => calls[c].at # Undoing
  BY <1>1, Programs DEF Undoing
<1>4. Inside(c) => Guarded(c)
  <2>1. Inside(c) => /\ Begins(c.op) \in 1..calls[c].at - 1 /\ Begins(c.op) \in Nat
                     /\ c.op # "notify"
    BY <1>1 DEF Inside, Within, Begins, Ends
  <2>2. c.op # "notify" => Program(c.op)[Begins(c.op)] = "begin"
    BY <1>1 DEF Ops, Program, Begins
  <2> QED BY <2>1, <2>2 DEF Guarded
<1> QED BY <1>1, <1>2, <1>3, <1>4

LEMMA WholeIsHalf ==
  ASSUME Whole(db)', \A x \in Calls : Statement(x)' \notin Telling,
         \A w \in Workers : workers'[w].pc # "index"
  PROVE  Half'
BY DEF Whole, Half, HalfIndexed, HalfHandled, HalfChained, Telling, Handled, Hides, PendingOn

LEMMA HalfIsWhole ==
  ASSUME Half, \A x \in Calls : Statement(x) \notin Telling
  PROVE  Whole(db)
BY DEF Whole, Half, HalfIndexed, HalfHandled, HalfChained, Telling

LEMMA EmptyIsWhole == Whole(EmptyTables)
<1>1. \A c \in EmptyTables.isDeleted : EmptyTables.index[c] = 0
  BY DEF EmptyTables
<1>2. ASSUME NEW c \in Comments PROVE ~Hides(c, EmptyTables)
  <2>1. PendingOn(EmptyTables, c) = {}
    BY DEF PendingOn, EmptyTables
  <2> QED BY <2>1, FS_EmptySet, CommunityAssumptions DEF Hides
<1>3. ASSUME NEW s \in Suggestions
      PROVE  /\ Linked(EmptyTables.audit[s])
             /\ EmptyTables.suggestion[s] = Last(EmptyTables.audit[s])
  <2>1. EmptyTables.audit[s] = <<>> /\ EmptyTables.suggestion[s] = "pending"
    BY DEF EmptyTables
  <2>2. Linked(<<>>) /\ Last(<<>>) = "pending"
    BY DEF Linked, Last, Before
  <2> QED BY <2>1, <2>2
<1> QED BY <1>1, <1>2, <1>3 DEF Whole

(* A step that leaves the tables and the telling statements where they were*)
LEMMA HalfFrame ==
  ASSUME Half,
         db'.comment = db.comment, db'.isDeleted = db.isDeleted, db'.told = db.told,
         db'.report = db.report, db'.suggestion = db.suggestion, db'.audit = db.audit,
         db'.index = db.index,
         \A x \in Calls : Statement(x) \in Telling \/ Statement(x)' \in Telling =>
           Statement(x)' = Statement(x) /\ calls'[x].old = calls[x].old,
         \A w \in Workers : workers'[w].pc = "index" /\ workers'[w].shown =>
           \/ workers[w].pc = "index" /\ workers[w].shown /\ workers'[w].task = workers[w].task
           \/ workers'[w].task.id.item \notin db.isDeleted
  PROVE  Half'
<1>1. HalfIndexed'
  BY DEF Half, HalfIndexed, Telling
<1>2. HalfHandled'
  <2>1. \A c \in Comments : PendingOn(db', c) = PendingOn(db, c)
    BY DEF PendingOn
  <2> QED BY <2>1 DEF Half, HalfHandled, Telling, Hides, Handled
<1>3. HalfChained'
  BY DEF Half, HalfChained, Telling
<1> QED BY <1>1, <1>2, <1>3 DEF Half

(* Which statement follows which.                                          *)
LEMMA Follows ==
  ASSUME TypeInv, NEW c \in Calls, Execute(c)
  PROVE  /\ TypeInv' /\ UNCHANGED <<workers, undo, tx, stray>>
         /\ \A d \in Calls : d # c => calls'[d] = calls[d] /\ Statement(d)' = Statement(d)
         /\ calls'[c].at = calls[c].at + 1
         /\ calls'[c].old = IF Statement(c) = "read" THEN db.suggestion[c.item] ELSE calls[c].old
         /\ Statement(c)' = "unindex" <=> Statement(c) = "remove"
         /\ Statement(c)' = "escalate" <=> Statement(c) = "report"
         /\ Statement(c)' = "restore" <=> Statement(c) = "resolve" /\ c.op = "keep"
         /\ Statement(c)' = "remove" <=> Statement(c) = "resolve" /\ c.op = "delete"
         /\ Statement(c)' = "decide" <=> Statement(c) = "read"
         /\ Statement(c)' = "audit" <=> Statement(c) = "decide"
<1>1. /\ TypeInv' /\ UNCHANGED <<workers, undo, tx, stray>>
      /\ \A d \in Calls : d # c => calls'[d] = calls[d]
  BY CallStepType DEF CallStep, Execute
<1>2. calls'[c].at = calls[c].at + 1
      /\ calls'[c].old = IF Statement(c) = "read" THEN db.suggestion[c.item] ELSE calls[c].old
  BY DEF Execute, TypeInv, CallType, CallStates
<1>3. \A d \in Calls : d # c => Statement(d)' = Statement(d)
  BY <1>1 DEF Statement
<1> DEFINE at == calls[c].at
<1>4. /\ c.op \in Ops /\ at \in Nat /\ at + 1 \in Nat
      /\ Statement(c) = StatementOf(c.op, at)
  BY StatementIs
<1>5. Statement(c)' = StatementOf(c.op, at + 1)
  BY <1>2, <1>4 DEF Statement, StatementOf
<1>6. Statement(c) \in Plain
  BY DEF Execute
<1>7. /\ StatementOf(c.op, at + 1) = "unindex" <=> StatementOf(c.op, at) = "remove"
      /\ StatementOf(c.op, at + 1) = "escalate" <=> StatementOf(c.op, at) = "report"
      /\ StatementOf(c.op, at + 1) = "restore" <=> StatementOf(c.op, at) = "resolve" /\ c.op = "keep"
      /\ StatementOf(c.op, at + 1) = "remove" <=> StatementOf(c.op, at) = "resolve" /\ c.op = "delete"
      /\ StatementOf(c.op, at + 1) = "decide" <=> StatementOf(c.op, at) = "read"
      /\ StatementOf(c.op, at + 1) = "audit" <=> StatementOf(c.op, at) = "decide"
  BY <1>4, Programs
<1> QED BY <1>1, <1>2, <1>3, <1>4, <1>5, <1>7

LEMMA ExecuteIndexed ==
  ASSUME TypeInv, Owner, ~stray, Half, NEW c \in Calls, Execute(c), Inside(c)
  PROVE  HalfIndexed'
<1> DEFINE st == Statement(c)
<1>1. /\ st \in Plain /\ Changed(c, st, db, db')
      /\ UNCHANGED <<workers, tx>> /\ tx = c
  BY AfterChanges, Follows DEF Execute, TypeInv, ConnectionType, Owner
<1>2. \A w \in Workers : workers[w].pc # "index"
  BY <1>1, CommunityAssumptions DEF Owner, Busy
<1>3. \A x \in Calls : Statement(x) = "unindex" => x = c
  BY <1>1, TellingIsInside DEF Owner, Telling
<1>4. db.index \in [Comments -> Nat] /\ db.isDeleted \in SUBSET Comments
  BY DEF TypeInv, ConnectionType, Tables
<1>5. ASSUME NEW d \in db'.isDeleted
      PROVE  db'.index[d] = 0 \/ \E x \in Calls : x.item = d /\ Statement(x)' = "unindex"
  <2>1. CASE st = "remove"
    <3>1. d \in db.isDeleted \/ d = c.item
      BY <1>1, <2>1 DEF Changed
    <3>2. Statement(c)' = "unindex" /\ db'.index = db.index
      BY <1>1, <2>1, Follows DEF Changed
    <3> QED BY <1>3, <2>1, <3>1, <3>2 DEF Half, HalfIndexed
  <2>2. CASE st = "unindex"
    <3>1. d \in db.isDeleted /\ (d = c.item => db'.index[d] = 0)
          /\ (d # c.item => db'.index[d] = db.index[d])
      BY <1>1, <1>4, <2>2 DEF Changed
    <3> QED BY <1>3, <3>1 DEF Half, HalfIndexed
  <2>3. CASE st \notin {"remove", "unindex"}
    <3>1. d \in db.isDeleted /\ db'.index = db.index
      BY <1>1, <2>3 DEF Changed
    <3> QED BY <1>3, <2>3, <3>1 DEF Half, HalfIndexed
  <2> QED BY <2>1, <2>2, <2>3
<1> QED BY <1>1, <1>2, <1>5 DEF HalfIndexed

LEMMA ExecuteHandled ==
  ASSUME TypeInv, Owner, Fresh, FinitelyPending, ~stray, Half,
         NEW c \in Calls, Execute(c), Inside(c)
  PROVE  HalfHandled'
<1> DEFINE st == Statement(c)
<1>1. /\ st \in Plain /\ Changed(c, st, db, db') /\ tx = c
      /\ \A x \in Calls : x # c => Statement(x)' = Statement(x)
  BY AfterChanges, Follows DEF Execute, TypeInv, ConnectionType, Owner
<1>2. \A x \in Calls : Statement(x) \in Telling => x = c
  BY <1>1, TellingIsInside DEF Owner
<1>3. /\ db.comment \in [Comments -> CommentStatus] /\ db.isDeleted \in SUBSET Comments
      /\ db.told \in SUBSET Comments /\ db.report \in [Pairs -> ReportStatus]
  BY DEF TypeInv, ConnectionType, Tables
<1>4. /\ st \in {"insert", "escalate", "restore", "remove", "report", "resolve"} =>
           c.item \in Comments /\ Named(c) \in Pairs /\ c.user \in Users
      /\ st = "insert" => c.op = "add" /\ calls[c].at = 2
      /\ st = "resolve" => c.op \in {"keep", "delete"}
  BY StatementIs, Programs, OpsOfCalls
<1>5. \A x \in Calls : Statement(x)' = "restore" => db'.report[Named(x)] = "resolved_keep"
  <2>1. \A x \in Calls : Statement(x)' = "restore" => x = c
    BY <1>1, <1>2 DEF Telling
  <2>2. Statement(c)' = "restore" => st = "resolve" /\ c.op = "keep"
    BY Follows
  <2>3. st = "resolve" /\ c.op = "keep" => db'.report[Named(c)] = "resolved_keep"
    BY <1>1, <1>3, <1>4 DEF Changed, Verdict
  <2> QED BY <2>1, <2>2, <2>3
<1>6. ASSUME NEW d \in Comments, Hides(d, db')
      PROVE  \/ Handled(db', d)
             \/ \E x \in Calls : x.item = d /\ Statement(x)' \in {"escalate", "remove"}
  <2>1. \A u \in Users : <<d, u>> \in Pairs
    BY DEF Pairs
  <2>2. d # c.item \/ st \notin {"report", "resolve"} =>
          /\ \A u \in Users : db'.report[<<d, u>>] = db.report[<<d, u>>]
          /\ PendingOn(db', d) = PendingOn(db, d)
    <3>1. ASSUME d # c.item, NEW u \in Users PROVE Named(c) # <<d, u>>
      BY <3>1 DEF Named
    <3>2. ASSUME d # c.item \/ st \notin {"report", "resolve"}, NEW u \in Users
          PROVE  db'.report[<<d, u>>] = db.report[<<d, u>>]
      BY <1>1, <1>3, <2>1, <3>1, <3>2 DEF Changed
    <3> QED BY <3>2 DEF PendingOn
  <2>3. CASE d # c.item
    <3>1. Hides(d, db) /\ ~\E x \in Calls : x.item = d /\ Statement(x) \in {"escalate", "remove"}
      BY <1>2, <1>6, <2>2, <2>3 DEF Hides, Telling
    <3>2. Handled(db, d)
      BY <3>1 DEF Half, HalfHandled
    <3>3. /\ db'.comment[d] = db.comment[d] /\ (d \in db.told => d \in db'.told)
          /\ (d \in db.isDeleted => d \in db'.isDeleted)
      BY <1>1, <1>3, <2>3 DEF Changed, Marks
    <3> QED BY <2>2, <2>3, <3>2, <3>3 DEF Handled
  <2>4. CASE d = c.item
    <3>1. CASE st = "insert"
      <4>1. Untouched(db, d)
        BY <1>4, <2>4, <3>1 DEF Fresh
      <4>2. PendingOn(db', d) = {}
        BY <2>2, <3>1, <4>1 DEF Untouched, PendingOn
      <4> QED BY <1>6, <4>2, FS_EmptySet, CommunityAssumptions DEF Hides
    <3>2. CASE st = "report"
      BY <2>4, <3>2, Follows
    <3>3. CASE st = "resolve"
      <4>1. CASE c.op = "keep"
        <5>1. db'.report[<<d, c.user>>] = "resolved_keep"
          BY <1>1, <1>3, <1>4, <2>4, <3>3, <4>1 DEF Changed, Verdict, Named
        <5> QED BY <1>4, <3>3, <5>1 DEF Handled
      <4>2. CASE c.op = "delete"
        BY <2>4, <3>3, <4>2, Follows
      <4> QED BY <1>4, <3>3, <4>1, <4>2
    <3>4. CASE st = "restore"
      <4>1. db.report[<<d, c.user>>] = "resolved_keep"
        BY <2>4, <3>4 DEF Half, HalfHandled, Named
      <4> QED BY <1>4, <2>2, <3>4, <4>1 DEF Handled
    <3>5. CASE st = "remove"
      <4>1. db'.comment[d] # "public" /\ d \in db'.isDeleted
        BY <1>1, <1>3, <2>4, <3>5 DEF Changed, Marks
      <4> QED BY <4>1 DEF Handled
    <3>6. CASE st = "escalate"
      <4>1. Hides(d, db)
        BY <1>6, <2>2, <3>6 DEF Hides
      <4>2. db'.comment[d] # "public" /\ d \in db'.told
        BY <1>1, <1>3, <2>4, <3>6, <4>1 DEF Changed, Marks
      <4> QED BY <4>2 DEF Handled
    <3>7. CASE st \notin {"insert", "report", "resolve", "restore", "remove", "escalate"}
      <4>1. Hides(d, db) /\ ~\E x \in Calls : Statement(x) \in {"escalate", "remove"}
        BY <1>2, <1>6, <2>2, <3>7 DEF Hides, Telling
      <4>2. Handled(db, d)
        BY <4>1 DEF Half, HalfHandled
      <4>3. db'.comment = db.comment /\ db'.told = db.told /\ db'.isDeleted = db.isDeleted
        BY <1>1, <3>7 DEF Changed
      <4> QED BY <2>2, <3>7, <4>2, <4>3 DEF Handled
    <3> QED BY <3>1, <3>2, <3>3, <3>4, <3>5, <3>6, <3>7
  <2> QED BY <2>3, <2>4
<1> QED BY <1>5, <1>6 DEF HalfHandled

LEMMA LogGrows ==
  ASSUME NEW log \in Seq(Entries), NEW e \in Entries, Linked(log), e.old = Last(log)
  PROVE  Linked(Append(log, e)) /\ Last(Append(log, e)) = e.new
<1> HIDE DEF Entries
<1> DEFINE more == Append(log, e)
<1>1. /\ Len(log) \in Nat /\ Len(more) = Len(log) + 1 /\ more[Len(log) + 1] = e
      /\ \A i \in 1..Len(log) : more[i] = log[i]
  OBVIOUS
<1> HIDE DEF more
<1>2. \A i \in 1..Len(log) + 1 : Before(more, i) = Before(log, i)
  <2> SUFFICES ASSUME NEW i \in 1..Len(log) + 1 PROVE Before(more, i) = Before(log, i)
    OBVIOUS
  <2>1. i # 1 => i - 1 \in 1..Len(log)
    BY <1>1
  <2> QED BY <1>1, <2>1 DEF Before
<1>3. ASSUME NEW i \in 1..Len(more) PROVE more[i].old = Before(more, i)
  <2>1. CASE i = Len(log) + 1
    BY <1>1, <1>2, <2>1 DEF Last
  <2>2. CASE i \in 1..Len(log)
    BY <1>1, <1>2, <2>2 DEF Linked
  <2> QED BY <1>1, <2>1, <2>2
<1>4. Last(more) = e.new
  <2>1. Len(more) + 1 # 1 /\ Len(more) + 1 - 1 = Len(log) + 1
    BY <1>1
  <2> QED BY <1>1, <2>1 DEF Last, Before
<1> QED BY <1>3, <1>4 DEF Linked, more

LEMMA ExecuteChained ==
  ASSUME TypeInv, Owner, ~stray, Half, NEW c \in Calls, Execute(c), Inside(c)
  PROVE  HalfChained'
<1> DEFINE st == Statement(c)
           entry == [old |-> calls[c].old, new |-> Decision(c.op)]
<1>1. /\ st \in Plain /\ Changed(c, st, db, db') /\ tx = c
      /\ \A x \in Calls : x # c => Statement(x)' = Statement(x)
  BY AfterChanges, Follows DEF Execute, TypeInv, ConnectionType, Owner
<1>2. /\ \A x \in Calls : Statement(x) \in Telling => x = c
      /\ \A x \in Calls : Statement(x)' \in {"decide", "audit"} => x = c
  <2>1. \A x \in Calls : Statement(x) \in Telling => x = c
    BY <1>1, TellingIsInside DEF Owner
  <2> QED BY <1>1, <2>1 DEF Telling
<1>3. db.suggestion \in [Suggestions -> Decisions] /\ db.audit \in [Suggestions -> Seq(Entries)]
  BY DEF TypeInv, ConnectionType, Tables
<1>4. /\ st \in {"read", "decide", "audit"} => c.item \in Suggestions
      /\ entry \in Entries
  BY StatementIs, Programs, OpsOfCalls DEF Entries, Decision, Decisions
<1>5. /\ Statement(c)' = "decide" <=> st = "read"
      /\ Statement(c)' = "audit" <=> st = "decide"
      /\ calls'[c].old = IF st = "read" THEN db.suggestion[c.item] ELSE calls[c].old
  BY Follows
<1>6. \A s \in Suggestions :
        /\ Linked(db.audit[s])
        /\ st # "audit" \/ s # c.item => db.suggestion[s] = Last(db.audit[s])
  BY <1>2 DEF Half, HalfChained, Telling
<1>7. st \in {"decide", "audit"} =>
        /\ calls[c].old = Last(db.audit[c.item])
        /\ st = "audit" => db.suggestion[c.item] = Decision(c.op)
  BY DEF Half, HalfChained
<1>8. CASE st = "audit"
  <2>1. /\ Linked(Append(db.audit[c.item], entry))
        /\ Last(Append(db.audit[c.item], entry)) = Decision(c.op)
    BY <1>3, <1>4, <1>6, <1>7, <1>8, LogGrows
  <2>2. db'.audit[c.item] = Append(db.audit[c.item], entry) /\ db'.suggestion = db.suggestion
    BY <1>1, <1>3, <1>4, <1>8 DEF Changed
  <2>3. \A s \in Suggestions : s # c.item => db'.audit[s] = db.audit[s]
    BY <1>1, <1>3, <1>4, <1>8 DEF Changed
  <2>4. \A x \in Calls : Statement(x)' \notin {"decide", "audit"}
    BY <1>2, <1>5, <1>8
  <2>5. \A s \in Suggestions : Linked(db'.audit[s]) /\ db'.suggestion[s] = Last(db'.audit[s])
    BY <1>6, <1>7, <1>8, <2>1, <2>2, <2>3
  <2> QED BY <2>4, <2>5 DEF HalfChained
<1>9. CASE st = "decide"
  <2>1. db'.audit = db.audit /\ db'.suggestion[c.item] = Decision(c.op)
        /\ \A s \in Suggestions : s # c.item => db'.suggestion[s] = db.suggestion[s]
    BY <1>1, <1>3, <1>4, <1>9 DEF Changed
  <2> QED BY <1>2, <1>5, <1>6, <1>7, <1>9, <2>1 DEF HalfChained
<1>10. CASE st \notin {"decide", "audit"}
  <2>1. db'.audit = db.audit /\ db'.suggestion = db.suggestion
    BY <1>1, <1>10 DEF Changed
  <2> QED BY <1>2, <1>4, <1>5, <1>6, <1>10, <2>1 DEF HalfChained
<1> QED BY <1>8, <1>9, <1>10

-----------------------------------------------------------------------------
(* The tables stay whole at a COMMIT, one kind of step at a time.          *)

(* What is not a statement in Plain leads to none in Telling.              *)
LEMMA OthersLead ==
  ASSUME TypeInv, NEW c \in Calls, CallStep(c), ~Execute(c)
  PROVE  /\ TypeInv' /\ UNCHANGED workers
         /\ \A d \in Calls : d # c => calls'[d] = calls[d] /\ Statement(d)' = Statement(d)
         /\ Statement(c)' \notin Telling
<1>1. /\ TypeInv' /\ UNCHANGED workers
      /\ \A d \in Calls : d # c => calls'[d] = calls[d] /\ Statement(d)' = Statement(d)
  BY CallStepType DEF Statement
<1>2. /\ c.op \in Ops /\ calls[c].at \in Nat /\ calls[c].at + 1 \in Nat
      /\ Statement(c) = StatementOf(c.op, calls[c].at)
      /\ calls'[c].at \in Nat /\ Statement(c)' = StatementOf(c.op, calls'[c].at)
  <2>1. calls'[c].at \in Nat
    BY <1>1 DEF TypeInv, CallType, CallStates
  <2> QED BY <2>1, StatementIs DEF Statement, StatementOf
<1>3. \/ calls'[c].at \in {0, 100}
      \/ Statement(c) \in {"check", "begin", "commit"} /\ calls'[c].at = calls[c].at + 1
  <2>1. \/ Goes(c, 0) \/ Goes(c, 100)
        \/ Statement(c) \in {"check", "begin", "commit"} /\ Goes(c, calls[c].at + 1)
    BY DEF CallStep, Check, Begin, BeginRefused, Commit, Throws, Rollback, Advances,
         Undoing, Failed
  <2> QED BY <1>2, <2>1, CallsMove
<1>4. CASE calls'[c].at \in {0, 100}
  <2>1. \A at \in {0, 100} : StatementOf(c.op, at) = "none"
    <3>1. \A at \in {0, 100} : at \in Nat /\ ~(at >= 1 /\ at <= 5)
      OBVIOUS
    <3> QED BY <1>2, <3>1, Programs
  <2>2. Statement(c)' = "none"
    BY <1>2, <1>4, <2>1
  <2> QED BY <1>1, <2>2 DEF Telling
<1>5. CASE Statement(c) \in {"check", "begin", "commit"} /\ calls'[c].at = calls[c].at + 1
  <2> DEFINE at == calls[c].at
             next == StatementOf(c.op, at + 1)
  <2>1. /\ next = "unindex" => StatementOf(c.op, at) = "remove"
        /\ next = "escalate" => StatementOf(c.op, at) = "report"
        /\ next = "restore" => StatementOf(c.op, at) = "resolve"
        /\ next = "remove" => StatementOf(c.op, at) = "resolve"
        /\ next = "decide" => StatementOf(c.op, at) = "read"
        /\ next = "audit" => StatementOf(c.op, at) = "decide"
    BY <1>2, Programs
  <2>2. Statement(c)' = next /\ StatementOf(c.op, at) \in {"check", "begin", "commit"}
    BY <1>2, <1>5
  <2> HIDE DEF next, at
  <2>3. next \notin Telling
    BY <2>1, <2>2 DEF Telling
  <2> QED BY <1>1, <2>2, <2>3
<1> QED BY <1>1, <1>3, <1>4, <1>5

(* Whoever is at a telling statement, or indexes, holds the transaction,   *)
(* and it is not about to be rolled back.                                  *)
LEMMA TellingHolds ==
  ASSUME TypeInv, Owner, ~stray
  PROVE  /\ \A c \in Calls : Statement(c) \in Telling => tx = c
         /\ \A w \in Workers : workers[w].pc \in {"load", "index"} => tx = w
         /\ tx = NoTx => ~Doomed
         /\ \A c \in Calls : tx = c /\ Statement(c) # "none" => ~Doomed
         /\ \A w \in Workers : tx = w /\ workers[w].pc # "rollback" => ~Doomed
<1>1. \A c \in Calls : /\ Statement(c) \in Telling => tx = c
                       /\ Statement(c) # "none" => calls[c].at # Undoing
  BY TellingIsInside DEF Owner
<1>2. \A w \in Workers : workers[w].pc \in {"load", "index"} => tx = w
  BY DEF Owner, Busy
<1> QED BY <1>1, <1>2, CommunityAssumptions DEF Doomed

LEMMA ExecuteWhole ==
  ASSUME TypeInv, Owner, Fresh, FinitelyPending, WholeInv, ~stray,
         NEW c \in Calls, Execute(c)
  PROVE  Whole(undo') /\ (Doomed' \/ Half')
<1>1. Whole(undo') /\ (Doomed \/ Half) /\ UNCHANGED <<workers, tx>>
  BY Follows DEF WholeInv
<1>2. /\ \A d \in Calls : d # c => calls'[d] = calls[d] /\ Statement(d)' = Statement(d)
      /\ Statement(c) \in Plain /\ calls[c].at # Undoing
  <2>1. Statement(c) \in Plain /\ Statement(c) # "none"
    BY DEF Execute, Plain
  <2> QED BY <2>1, Follows, TellingIsInside
<1>3. CASE Doomed
  BY <1>1, <1>2, <1>3 DEF Doomed
<1>4. CASE Half /\ Inside(c)
  BY <1>1, <1>4, ExecuteIndexed, ExecuteHandled, ExecuteChained DEF Half
<1>5. CASE Half /\ ~Inside(c)
  <2>1. Statement(c) \in {"enqueue", "count"}
    BY <1>2, <1>5, TellingIsInside DEF Plain, Telling
  <2>2. Changed(c, Statement(c), db, db')
    BY AfterChanges DEF Execute, TypeInv, ConnectionType
  <2>3. Statement(c)' \notin Telling
    BY <2>1, Follows DEF Telling
  <2>4. Half'
    BY <1>1, <1>2, <1>5, <2>1, <2>2, <2>3, HalfFrame DEF Changed, Telling
  <2> QED BY <1>1, <2>4
<1> QED BY <1>1, <1>3, <1>4, <1>5

LEMMA CallWhole ==
  ASSUME TypeInv, Owner, WholeInv, ~stray', NEW c \in Calls, CallStep(c), ~Execute(c)
  PROVE  Whole(undo') /\ (Doomed' \/ Half')
<1>1. ~stray /\ Whole(undo) /\ (Doomed \/ Half)
  BY DEF WholeInv, CallStep, Check, Begin, BeginRefused, Commit, Throws, Rollback,
       Commits, RollsBack, Closes
<1>2. /\ UNCHANGED workers /\ Statement(c)' \notin Telling
      /\ \A d \in Calls : d # c => calls'[d] = calls[d] /\ Statement(d)' = Statement(d)
  BY OthersLead
<1>3. ASSUME Half, Statement(c) \notin Telling, db' = db PROVE Half'
  BY <1>2, <1>3, HalfFrame
<1>4. ASSUME Doomed, calls[c].at # Undoing, UNCHANGED tx PROVE Doomed'
  BY <1>2, <1>4 DEF Doomed
<1>5. CASE Check(c) \/ BeginRefused(c)
  <2>1. /\ UNCHANGED <<db, undo, tx>> /\ Statement(c) \notin Telling /\ Statement(c) # "none"
    BY <1>5 DEF Check, BeginRefused, Telling
  <2> QED BY <1>1, <1>3, <1>4, <2>1, TellingIsInside
<1>6. CASE Begin(c)
  <2>1. tx = NoTx /\ undo' = db /\ db' = db /\ Statement(c) = "begin"
    BY <1>6 DEF Begin, Opens
  <2>2. Half /\ \A x \in Calls : Statement(x) \notin Telling
    BY <1>1, <2>1, TellingHolds, CommunityAssumptions
  <2> QED BY <1>3, <2>1, <2>2, HalfIsWhole
<1>7. CASE Commit(c)
  <2>1. tx = c /\ undo' = EmptyTables /\ db' = db /\ Statement(c) = "commit"
    BY <1>7 DEF Commit, Commits, Closes
  <2>2. Half
    BY <1>1, <2>1, TellingHolds
  <2> QED BY <1>3, <2>1, <2>2, EmptyIsWhole DEF Telling
<1>8. CASE Throws(c)
  <2>1. UNCHANGED <<db, undo, tx>> /\ Statement(c) # "none"
    BY <1>8 DEF Throws
  <2>2. CASE Statement(c) \in Telling
    <3>1. tx = c /\ Guarded(c)
      BY <1>1, <2>2, TellingHolds, TellingIsInside
    <3>2. Goes(c, 0)
      BY <1>8, <3>1 DEF Throws, Undoing
    <3>3. calls'[c].at = Undoing
      BY <3>2, CallsMove DEF Undoing
    <3> QED BY <1>1, <2>1, <3>1, <3>3 DEF Doomed
  <2>3. CASE Statement(c) \notin Telling
    BY <1>1, <1>3, <1>4, <2>1, <2>3, TellingIsInside
  <2> QED BY <2>2, <2>3
<1>9. CASE Rollback(c)
  <2>1. Statement(c) \notin Telling
    BY <1>9, TellingIsInside DEF Rollback, Telling
  <2>2. CASE tx = NoTx
    BY <1>1, <1>3, <1>9, <2>1, <2>2, TellingHolds DEF Rollback
  <2>3. CASE tx # NoTx
    <3>1. tx = c /\ db' = undo /\ undo' = EmptyTables
      BY <1>9, <2>3 DEF Rollback, RollsBack, Closes
    <3>2. /\ \A x \in Calls : Statement(x)' \notin Telling
          /\ \A w \in Workers : workers'[w].pc # "index"
      BY <1>1, <1>2, <2>1, <3>1, TellingHolds, CommunityAssumptions
    <3> QED BY <1>1, <3>1, <3>2, WholeIsHalf, EmptyIsWhole
  <2> QED BY <2>2, <2>3
<1> QED BY <1>5, <1>6, <1>7, <1>8, <1>9 DEF CallStep

LEMMA WorkerWhole ==
  ASSUME TypeInv, Owner, WholeInv, ~stray', NEW w \in Workers, WorkerStep(w)
  PROVE  Whole(undo') /\ (Doomed' \/ Half')
<1>1. ~stray /\ Whole(undo) /\ (Doomed \/ Half)
  <2>1. CASE CommitTask(w) \/ RollbackTask(w)
    BY <2>1 DEF WholeInv, CommitTask, RollbackTask, Commits, RollsBack, Closes
  <2>2. CASE ~(CommitTask(w) \/ RollbackTask(w))
    <3>1. UNCHANGED stray
      BY <2>2 DEF WorkerStep, Select, SelectFails, BeginTask, BatchRefused, Load, Index, Send,
           Mark, TaskFails, NothingToRollBack, Record, RecordFails
    <3> QED BY <3>1 DEF WholeInv
  <2> QED BY <2>1, <2>2
<1>2. /\ UNCHANGED calls /\ \A v \in Workers : v # w => workers'[v] = workers[v]
      /\ \A c \in Calls : Statement(c)' = Statement(c)
  BY WorkerStepType DEF Statement
<1> DEFINE Keeps == /\ db'.comment = db.comment /\ db'.isDeleted = db.isDeleted
                    /\ db'.told = db.told /\ db'.report = db.report
                    /\ db'.suggestion = db.suggestion /\ db'.audit = db.audit
<1>3. ASSUME Half, Keeps, db'.index = db.index,
             workers'[w].pc = "index" => workers'[w].task.id.item \notin db.isDeleted \/ ~workers'[w].shown
      PROVE  Half'
  BY <1>2, <1>3, HalfFrame
<1>4. ASSUME Doomed, workers[w].pc # "rollback", UNCHANGED tx PROVE Doomed'
  BY <1>2, <1>4 DEF Doomed
<1>5. CASE \E late \in SUBSET Enqueuers : Select(w, late)
  <2>1. UNCHANGED <<db, undo, tx>> /\ workers[w].pc = "select" /\ workers'[w].pc # "index"
    BY <1>5, SelectLeaves, NextStates DEF Select
  <2> QED BY <1>1, <1>3, <1>4, <2>1
<1>6. CASE BeginTask(w)
  <2>1. tx = NoTx /\ undo' = db /\ db' = db /\ workers'[w].pc # "index"
    BY <1>6, BeginTaskLeaves DEF BeginTask, Opens
  <2>2. Half /\ \A c \in Calls : Statement(c) \notin Telling
    BY <1>1, <2>1, TellingHolds, CommunityAssumptions
  <2> QED BY <1>3, <2>1, <2>2, HalfIsWhole
<1>7. CASE Load(w)
  <2>1. UNCHANGED <<db, undo, tx>> /\ workers[w].pc = "load"
    BY <1>7 DEF Load
  <2>2. workers'[w].shown => workers'[w].task.id.item \notin db.isDeleted
    BY <1>7, LoadLeaves
  <2> QED BY <1>1, <1>3, <1>4, <2>1, <2>2
<1>8. CASE Index(w)
  <2>1. UNCHANGED <<undo, tx>> /\ workers[w].pc = "index" /\ workers'[w].pc = "mark"
    BY <1>8, GoingLeaves DEF Index, Going
  <2>2. tx = w /\ Half /\ \A c \in Calls : Statement(c) \notin Telling
    BY <1>1, <2>1, TellingHolds, CommunityAssumptions
  <2>3. Keeps /\ \A c \in Comments : db'.index[c] =
          IF c = workers[w].task.id.item
          THEN IF workers[w].shown THEN db.index[c] + 1 ELSE 0
          ELSE db.index[c]
    BY <1>8, WorkerTables
  <2>4. workers[w].shown => workers[w].task.id.item \notin db.isDeleted
    BY <2>1, <2>2 DEF Half, HalfIndexed
  <2>5. \A c \in db.isDeleted : c \in Comments /\ db.index[c] = 0
    BY <2>2 DEF Half, HalfIndexed, Telling, TypeInv, ConnectionType, Tables
  <2>6. \A c \in db'.isDeleted : db'.index[c] = 0
    BY <2>3, <2>4, <2>5
  <2>7. \A v \in Workers : workers'[v].pc # "index"
    BY <1>1, <1>2, <2>1, <2>2, TellingHolds
  <2>8. Half'
    <3>1. Whole(db)
      BY <2>2, HalfIsWhole
    <3>2. /\ \A c \in Comments : Hides(c, db)' = Hides(c, db)
          /\ \A c \in Comments : Handled(db, c)' = Handled(db, c)
      BY <2>3 DEF Hides, PendingOn, Handled
    <3>3. Whole(db)'
      BY <2>3, <2>6, <3>1, <3>2 DEF Whole
    <3> QED BY <1>2, <2>2, <2>7, <3>3, WholeIsHalf
  <2> QED BY <1>1, <2>1, <2>8
<1>9. CASE Send(w)
  <2>1. UNCHANGED <<db, undo, tx>> /\ workers[w].pc = "send" /\ workers'[w].pc # "index"
    BY <1>9, GoingLeaves DEF Send, Going
  <2> QED BY <1>1, <1>3, <1>4, <2>1
<1>10. CASE Mark(w)
  <2>1. UNCHANGED <<undo, tx>> /\ workers[w].pc = "mark" /\ workers'[w].pc # "index"
    BY <1>10, GoingLeaves DEF Mark, Going
  <2> QED BY <1>1, <1>3, <1>4, <1>10, <2>1, WorkerTables
<1>11. CASE TaskFails(w)
  <2>1. /\ UNCHANGED <<db, undo, tx>> /\ workers'[w].pc = "rollback"
        /\ workers[w].pc \in Busy /\ workers[w].pc # "rollback"
    BY <1>11, GoingLeaves DEF TaskFails, Going, Busy
  <2>2. tx' = w
    BY <1>1, <2>1 DEF Owner
  <2> QED BY <1>1, <2>1, <2>2 DEF Doomed
<1>12. CASE RollbackTask(w)
  <2>1. tx = w /\ db' = undo /\ undo' = EmptyTables /\ workers'[w].pc # "index"
    BY <1>12, GoingLeaves DEF RollbackTask, RollsBack, Closes, Going
  <2>2. /\ \A c \in Calls : Statement(c)' \notin Telling
        /\ \A v \in Workers : workers'[v].pc # "index"
    BY <1>1, <1>2, <2>1, TellingHolds, CommunityAssumptions
  <2> QED BY <1>1, <2>1, <2>2, WholeIsHalf, EmptyIsWhole
<1>13. CASE CommitTask(w)
  <2>1. tx = w /\ undo' = EmptyTables /\ db' = db /\ workers[w].pc = "commit"
    BY <1>13 DEF CommitTask, Commits, Closes
  <2>2. workers'[w].pc # "index"
    BY <1>13, LeavingLeaves, NextStates DEF Leaving
  <2>3. Half
    BY <1>1, <2>1, TellingHolds
  <2> QED BY <1>3, <2>1, <2>2, <2>3, EmptyIsWhole
<1>14. CASE NothingToRollBack(w)
  <2>1. UNCHANGED <<db, undo, tx>> /\ tx = NoTx
    BY <1>14 DEF NothingToRollBack
  <2>2. workers'[w].pc # "index"
    BY <1>14, LeavingLeaves, NextStates DEF Leaving
  <2> QED BY <1>1, <1>3, <2>1, <2>2, TellingHolds
<1>15. CASE SelectFails(w) \/ BatchRefused(w) \/ Record(w) \/ RecordFails(w)
  <2>1. UNCHANGED <<undo, tx>> /\ workers[w].pc # "rollback" /\ (Record(w) \/ UNCHANGED db)
    BY <1>15 DEF SelectFails, BatchRefused, Record, RecordFails
  <2>2. workers'[w].pc # "index"
    BY <1>15, LeavingLeaves, NextStates DEF Leaving
  <2>3. Keeps /\ db'.index = db.index
    BY <2>1, WorkerTables
  <2> QED BY <1>1, <1>3, <1>4, <2>1, <2>2, <2>3
<1> QED BY <1>5, <1>6, <1>7, <1>8, <1>9, <1>10, <1>11, <1>12, <1>13, <1>14, <1>15 DEF WorkerStep

LEMMA CrashWhole ==
  ASSUME TypeInv, Owner, WholeInv, ~stray', Crash
  PROVE  Whole(undo') /\ (Doomed' \/ Half')
<1>1. ~stray /\ Whole(undo) /\ (Doomed \/ Half)
  BY CrashType DEF WholeInv
<1>2. Whole(Committed)
  BY <1>1, TellingHolds, HalfIsWhole, CommunityAssumptions DEF Committed
<1>3. \A c \in Calls : Statement(c)' \notin Telling
  <2> SUFFICES ASSUME NEW c \in Calls PROVE Statement(c)' \notin Telling
    OBVIOUS
  <2>1. c.op \in Ops /\ calls[c].at \in Nat
    BY StatementIs
  <2>2. /\ \A at \in {1, 100, 101} : StatementOf(c.op, at) \notin Telling
        /\ StatementOf(c.op, Len(Program(c.op)) + 1) \notin Telling
    <3>1. \A at \in {1, 100, 101} : at \in Nat /\ StatementOf(c.op, at) \notin Telling
      <4>1. \A at \in {1, 100, 101} : at \in Nat
        OBVIOUS
      <4> QED BY <2>1, <4>1, Programs DEF Telling
    <3>2. StatementOf(c.op, Len(Program(c.op)) + 1) = "none"
      BY <2>1 DEF Ops, Program, StatementOf
    <3> QED BY <3>1, <3>2 DEF Telling
  <2>3. calls'[c].at \in {1, 100, 101} \/ calls'[c].at = Len(Program(c.op)) + 1
    BY CrashType DEF Unused, Failed, Done
  <2> QED BY <2>2, <2>3 DEF Statement, StatementOf
<1>4. \A w \in Workers : workers'[w].pc # "index"
  BY CrashType DEF IdleWorker
<1> QED BY <1>2, <1>3, <1>4, CrashType, WholeIsHalf, EmptyIsWhole

LEMMA WholeStep ==
  ASSUME TypeInv, Owner, Fresh, FinitelyPending, WholeInv, Next
  PROVE  WholeInv'
<1> SUFFICES ASSUME ~stray' PROVE Whole(undo') /\ (Doomed' \/ Half')
  BY DEF WholeInv
<1>1. ASSUME NEW c \in Calls, Execute(c) PROVE ~stray
  BY <1>1 DEF Execute
<1> QED BY <1>1, ExecuteWhole, CallWhole, WorkerWhole, CrashWhole DEF Next

-----------------------------------------------------------------------------
(* The invariant, and what it says of the tables on disk.                  *)
Inv == TypeInv /\ Owner /\ Fresh /\ FinitelyPending /\ WholeInv

LEMMA InvInit == Init => Inv
<1> SUFFICES ASSUME Init PROVE Inv
  OBVIOUS
<1>1. PICK mix \in Mixes :
        /\ calls = [c \in Calls |->
             [at |-> IF c \in mix.calls THEN 1 ELSE Unused, old |-> "pending"]]
        /\ workers = [w \in Workers |->
             [IdleWorker EXCEPT !.pc = IF w \in mix.ticks THEN @ ELSE "unused"]]
  BY DEF Init
<1>2. db = EmptyTables /\ undo = EmptyTables /\ tx = NoTx /\ stray = FALSE
  BY DEF Init
<1>3. \A c \in Calls : calls[c].at \in {1, 101} /\ calls[c] \in CallStates
  BY <1>1 DEF Unused, CallStates, Decisions
<1>4. \A w \in Workers : /\ workers[w].pc \in {"select", "unused"} /\ workers[w] \in WorkerStates
                         /\ workers[w].batch = {} /\ OfItsQueue(workers[w])
  BY <1>1 DEF IdleWorker, WorkerStates, WorkerPcs, Busy, OfItsQueue
<1>5. TypeInv
  <2>1. ConnectionType /\ CountType
    BY <1>2, EmptyTablesType DEF ConnectionType, CountType, Init
  <2>2. CallType
    BY <1>1, <1>3 DEF CallType
  <2>3. WorkerType
    <3>1. workers \in [Workers -> WorkerStates]
      BY <1>1, <1>4
    <3> QED BY <1>4, <3>1 DEF WorkerType
  <2> QED BY <2>1, <2>2, <2>3 DEF TypeInv
<1>6. Owner
  <2>1. \A c \in Calls : ~Inside(c)
    <3> SUFFICES ASSUME NEW c \in Calls PROVE ~Inside(c)
      OBVIOUS
    <3>1. c.op \in Ops /\ calls[c].at \in {1, 101}
      BY <1>3, OpsOfCalls
    <3>2. ~Within(c.op, 1) /\ ~Within(c.op, 101)
      BY <3>1, Positions
    <3> QED BY <3>1, <3>2 DEF Inside
  <2> QED BY <1>4, <2>1 DEF Owner, Busy
<1>7. Fresh
  <2>1. \A c \in Comments : Untouched(EmptyTables, c)
    BY DEF Untouched, EmptyTables
  <2>2. \A y \in Calls : calls[y].at \notin 2..5
    BY <1>3
  <2> QED BY <1>2, <2>1, <2>2, OpsOfCalls DEF Fresh
<1>8. FinitelyPending
  <2>1. \A c \in Comments : PendingOn(EmptyTables, c) = {}
    BY DEF PendingOn, EmptyTables
  <2> QED BY <1>2, <2>1, FS_EmptySet DEF FinitelyPending
<1>9. WholeInv
  <2>1. \A c \in Calls : Statement(c) \notin Telling
    <3> SUFFICES ASSUME NEW c \in Calls PROVE Statement(c) \notin Telling
      OBVIOUS
    <3>1. Statement(c) \in Telling => Inside(c)
      BY <1>5, TellingIsInside
    <3> QED BY <1>2, <1>6, <3>1, CommunityAssumptions DEF Owner
  <2>2. Half
    <3>1. \A w \in Workers : workers[w].pc # "index"
      BY <1>4
    <3> QED BY <1>2, <2>1, <3>1, EmptyIsWhole
          DEF Whole, Half, HalfIndexed, HalfHandled, HalfChained, Telling
  <2> QED BY <1>2, <2>2, EmptyIsWhole DEF WholeInv
<1> QED BY <1>5, <1>6, <1>7, <1>8, <1>9 DEF Inv

LEMMA InvStutter ==
  ASSUME Inv, UNCHANGED vars
  PROVE  Inv'
<1>1. UNCHANGED <<db, undo, tx, calls, workers, stray>>
      /\ UNCHANGED <<sends, failures, overlapped, fails, crashes>>
  BY DEF vars
<1>2. TypeInv'
  BY <1>1 DEF Inv, TypeInv, ConnectionType, CallType, WorkerType, CountType
<1>3. \A c \in Calls : (Statement(c)' = Statement(c)) /\ (Inside(c)' <=> Inside(c))
  BY <1>1 DEF Statement, Inside
<1>4. Owner' /\ Fresh' /\ FinitelyPending'
  BY <1>1, <1>3 DEF Inv, Owner, Fresh, FinitelyPending
<1>5. WholeInv'
  <2>1. Doomed' <=> Doomed
    BY <1>1 DEF Doomed
  <2>2. Half => Half'
    BY <1>1, <1>3, HalfFrame
  <2> QED BY <1>1, <2>1, <2>2 DEF Inv, WholeInv
<1> QED BY <1>2, <1>4, <1>5 DEF Inv

LEMMA InvNext ==
  ASSUME Inv, [Next]_vars
  PROVE  Inv'
<1>1. CASE Next
  <2>1. TypeInv'
    BY <1>1, CallStepType, WorkerStepType, CrashType DEF Inv, Next
  <2>2. Owner'
    BY <1>1, CallOwner, WorkerOwner, CrashOwner DEF Inv, Next
  <2> QED BY <1>1, <2>1, <2>2, FreshStep, PendingStep, WholeStep DEF Inv
<1>2. CASE UNCHANGED vars
  BY <1>2, InvStutter
<1> QED BY <1>1, <1>2

(* The tables on disk are whole.                                           *)
LEMMA CommittedIsWhole ==
  ASSUME Inv, ~stray
  PROVE  Whole(Committed)
BY TellingHolds, HalfIsWhole, CommunityAssumptions DEF Inv, WholeInv, Committed

(* The types of the state are kept by every step.                          *)
THEOREM CommunityTypes == Spec => []TypeInv
BY InvInit, InvNext, PTL DEF Spec, Inv

(* Unless a transaction was ended by another's ROLLBACK or COMMIT, a       *)
(* deleted comment is not in the index: the worker that indexes it read it *)
(* in the transaction it still holds.                                      *)
THEOREM DeletedIsUnindexedAlways == Spec => []DeletedIsUnindexed
<1>1. Inv => DeletedIsUnindexed
  BY CommittedIsWhole DEF Whole, DeletedIsUnindexed
<1> QED BY <1>1, InvInit, InvNext, PTL DEF Spec

(* A comment with more pending reports than it bears is out of sight and   *)
(* was told of, unless an admin kept it: the report and the hiding are one *)
(* transaction, which nobody reports, keeps or deletes within.             *)
THEOREM EscalatedIsHiddenAlways == Spec => []EscalatedIsHidden
<1>1. Inv => EscalatedIsHidden
  BY CommittedIsWhole DEF Whole, EscalatedIsHidden, Hides, Handled
<1> QED BY <1>1, InvInit, InvNext, PTL DEF Spec

(* The audit log of a suggestion is one chain, up to where the suggestion  *)
(* is: what a decision replaces is read in the transaction that replaces   *)
(* it.                                                                     *)
THEOREM AuditChainsAlways == Spec => []AuditChains
<1>1. ASSUME Inv PROVE AuditChains
  <2> SUFFICES ASSUME ~stray, NEW s \in Suggestions
               PROVE  LET log == Committed.audit[s]
                          Before2(i) == IF i = 1 THEN "pending" ELSE log[i - 1].new
                      IN /\ \A i \in DOMAIN log : log[i].old = Before2(i)
                         /\ Committed.suggestion[s] = Before2(Len(log) + 1)
    BY DEF AuditChains
  <2> DEFINE log == Committed.audit[s]
  <2>1. Linked(log) /\ Committed.suggestion[s] = Last(log)
    BY <1>1, CommittedIsWhole DEF Whole
  <2>2. log \in Seq(Entries)
    BY <1>1 DEF Inv, TypeInv, ConnectionType, Tables, Committed
  <2>3. DOMAIN log = 1..Len(log)
    BY <2>2
  <2> QED BY <2>1, <2>3 DEF Linked, Last, Before
<1> QED BY <1>1, InvInit, InvNext, PTL DEF Spec

-----------------------------------------------------------------------------
(* The attempts of a task, and its sending.                                *)
Counted(d, failed, sent) ==
  \A t \in Enqueuers :
    /\ d.task[t].attempts <= failed[t]
    /\ d.task[t].status = "dead_letter" => d.task[t].attempts >= MaxAttempts
    /\ QueueOf(t) = "notification" /\ d.task[t].status = "done" => sent[t] > 0

(* A worker counts from what it selected, and its own failure is counted.  *)
WorkerCounts(state, failed, sent) ==
  /\ \A row \in state.batch : row.attempts <= failed[row.id]
  /\ state.pc \in Busy => state.task.attempts <= failed[state.task.id]
  /\ state.pc \in {"rollback", "record"} => state.task.attempts + 1 <= failed[state.task.id]
  /\ state.pc \in {"mark", "commit"} /\ state.queue = "notification" => sent[state.task.id] > 0

CountInv ==
  /\ Counted(db, failures, sends) /\ Counted(undo, failures, sends)
  /\ \A w \in Workers : WorkerCounts(workers[w], failures, sends)

Counters == [Enqueuers -> Nat]
AtLeast(f, g) == \A t \in Enqueuers : f[t] >= g[t]

LEMMA CountedStays ==
  ASSUME NEW f \in Counters, NEW s \in Counters, NEW f2 \in Counters, NEW s2 \in Counters,
         AtLeast(f2, f), AtLeast(s2, s)
  PROVE  /\ \A d \in Tables : Counted(d, f, s) => Counted(d, f2, s2)
         /\ \A state \in WorkerStates :
              WorkerCounts(state, f, s) /\ OfItsQueue(state) => WorkerCounts(state, f2, s2)
<1>1. \A t \in Enqueuers : /\ f[t] \in Nat /\ f2[t] \in Nat /\ f2[t] >= f[t]
                           /\ s[t] \in Nat /\ s2[t] \in Nat /\ s2[t] >= s[t]
  BY DEF Counters, AtLeast
<1>2. ASSUME NEW d \in Tables, Counted(d, f, s) PROVE Counted(d, f2, s2)
  <2>1. \A t \in Enqueuers : d.task[t].attempts \in Nat
    BY DEF Tables, Tasks
  <2> QED BY <1>1, <1>2, <2>1 DEF Counted
<1>3. ASSUME NEW state \in WorkerStates, WorkerCounts(state, f, s), OfItsQueue(state)
      PROVE  WorkerCounts(state, f2, s2)
  <2>1. /\ \A row \in state.batch : row.id \in Enqueuers /\ row.attempts \in Nat
        /\ state.pc \in Busy \cup {"record"} =>
             state.task.id \in Enqueuers /\ state.task.attempts \in Nat
    BY <1>3 DEF WorkerStates, Rows, OfItsQueue
  <2> QED BY <1>1, <1>3, <2>1 DEF WorkerCounts, Busy
<1> QED BY <1>2, <1>3

LEMMA CountersGrow ==
  ASSUME TypeInv, Next
  PROVE  /\ sends \in Counters /\ failures \in Counters /\ sends' \in Counters /\ failures' \in Counters
         /\ AtLeast(sends', sends) /\ AtLeast(failures', failures)
         /\ TypeInv' /\ fails' >= fails /\ crashes' >= crashes
<1>1. TypeInv' /\ fails' >= fails /\ crashes' >= crashes
  <2>1. fails \in Nat /\ crashes \in Nat
    BY DEF TypeInv, CountType
  <2>2. TypeInv' /\ (crashes' = crashes \/ crashes' > crashes) /\ (fails' = fails \/ fails' >= fails)
    BY CallStepType, WorkerStepType, CrashType DEF Next
  <2>3. fails' \in Nat /\ crashes' \in Nat
    BY <2>2 DEF TypeInv, CountType
  <2> QED BY <2>1, <2>2, <2>3
<1>2. sends \in Counters /\ failures \in Counters /\ sends' \in Counters /\ failures' \in Counters
  BY <1>1 DEF TypeInv, CountType, Counters
<1>3. ASSUME NEW w \in Workers, Send(w) \/ TaskFails(w)
      PROVE  AtLeast(sends', sends) /\ AtLeast(failures', failures)
  <2>1. workers[w].task.id \in Enqueuers
    BY <1>3, NextStates DEF Send, TaskFails, OfItsQueue, Busy, Rows
  <2>2. CASE Send(w)
    BY <1>2, <2>1, <2>2 DEF Send, AtLeast, Counters
  <2>3. CASE TaskFails(w)
    BY <1>2, <2>1, <2>3 DEF TaskFails, AtLeast, Counters
  <2> QED BY <1>3, <2>2, <2>3
<1>4. \/ UNCHANGED <<sends, failures>>
      \/ \E w \in Workers : Send(w) \/ TaskFails(w)
  <2>1. ASSUME NEW w \in Workers, WorkerStep(w), ~Send(w), ~TaskFails(w)
        PROVE  UNCHANGED <<sends, failures>>
    BY <2>1 DEF WorkerStep, Select, SelectFails, BeginTask, BatchRefused, Load, Index, Mark,
         CommitTask, RollbackTask, NothingToRollBack, Record, RecordFails, history
  <2> QED BY <2>1, CallStepType, CrashType DEF Next
<1>5. AtLeast(sends', sends) /\ AtLeast(failures', failures)
  BY <1>2, <1>3, <1>4 DEF AtLeast, Counters
<1> QED BY <1>1, <1>2, <1>5

LEMMA CountedTables ==
  ASSUME TypeInv, CountInv, Next
  PROVE  Counted(db', failures', sends') /\ Counted(undo', failures', sends')
<1>1. /\ db \in Tables /\ undo \in Tables /\ db' \in Tables /\ EmptyTables \in Tables
      /\ sends \in Counters /\ failures \in Counters
  BY CountersGrow, EmptyTablesType DEF TypeInv, ConnectionType
<1>2. Counted(EmptyTables, failures, sends)
  <2>1. \A t \in Enqueuers : EmptyTables.task[t] = [status |-> "none", attempts |-> 0]
    BY DEF EmptyTables
  <2>2. \A t \in Enqueuers : failures[t] \in Nat
    BY <1>1 DEF Counters
  <2> QED BY <2>1, <2>2 DEF Counted
<1>3. Counted(undo', failures', sends')
  BY <1>1, <1>2, TablesMove, CountersGrow, CountedStays DEF CountInv
<1>4. ASSUME Counted(db', failures, sends) PROVE Counted(db', failures', sends')
  BY <1>1, <1>4, CountersGrow, CountedStays
<1>5. \A t \in Enqueuers : failures[t] \in Nat
  BY <1>1 DEF Counters
<1>6. ASSUME NEW c \in Calls, Execute(c) PROVE Counted(db', failures, sends)
  <2>1. Changed(c, Statement(c), db, db') /\ db.task \in [Enqueuers -> Tasks]
    BY <1>6, AfterChanges DEF Execute, TypeInv, ConnectionType, Tables
  <2>2. \A t \in Enqueuers : db'.task[t] = db.task[t]
                             \/ db'.task[t] = [status |-> "pending", attempts |-> 0]
    BY <2>1 DEF Changed
  <2> QED BY <1>5, <2>2 DEF Counted, CountInv
<1>7. ASSUME NEW w \in Workers, Index(w) PROVE Counted(db', failures, sends)
  BY <1>7, WorkerTables DEF Counted, CountInv
<1>8. ASSUME NEW w \in Workers, Mark(w) PROVE Counted(db', failures, sends)
  <2> DEFINE t == workers[w].task.id
             row == [status |-> "done", attempts |-> db.task[t].attempts]
  <2>1. workers[w].pc = "mark" /\ db' = Updated(t, row)
    BY <1>8 DEF Mark
  <2>2. t \in Enqueuers /\ QueueOf(t) = workers[w].queue
    BY <2>1, NextStates DEF OfItsQueue, Busy, Rows
  <2>3. row \in Tasks
    BY <1>1, <2>2 DEF Tasks, TaskStatus, Tables
  <2>4. \A u \in Enqueuers : db'.task[u] = IF u = t /\ db.task[t].status # "none" THEN row
                                           ELSE db.task[u]
    BY <2>1, <2>2, <2>3, UpdatedType
  <2>5. workers[w].queue = "notification" => sends[t] > 0
    BY <2>1 DEF CountInv, WorkerCounts
  <2> QED BY <2>2, <2>4, <2>5 DEF Counted, CountInv
<1>9. ASSUME NEW w \in Workers, Record(w) PROVE Counted(db', failures, sends)
  <2> DEFINE t == workers[w].task.id
             attempts == workers[w].task.attempts + 1
             row == Recorded(attempts)
  <2>1. workers[w].pc = "record" /\ db' = Updated(t, row)
    BY <1>9 DEF Record
  <2>2. t \in Enqueuers /\ attempts \in Nat
    BY <2>1, NextStates DEF OfItsQueue, Rows
  <2>3. row \in Tasks /\ row.attempts = attempts /\ row.status \in {"dead_letter", "retry"}
        /\ (row.status = "dead_letter" => attempts >= MaxAttempts)
    BY <2>2 DEF Tasks, TaskStatus, Recorded
  <2>4. \A u \in Enqueuers : db'.task[u] = IF u = t /\ db.task[t].status # "none" THEN row
                                           ELSE db.task[u]
    BY <2>1, <2>2, <2>3, UpdatedType
  <2>5. attempts <= failures[t]
    BY <2>1 DEF CountInv, WorkerCounts
  <2> HIDE DEF row, attempts
  <2> QED BY <2>2, <2>3, <2>4, <2>5 DEF Counted, CountInv
<1> QED BY <1>1, <1>3, <1>4, <1>6, <1>7, <1>8, <1>9, TablesMove DEF CountInv

LEMMA CountStep ==
  ASSUME TypeInv, CountInv, Next
  PROVE  CountInv'
<1> SUFFICES ASSUME NEW v \in Workers PROVE WorkerCounts(workers'[v], failures', sends')
  BY CountedTables DEF CountInv
<1>1. /\ workers[v] \in WorkerStates /\ OfItsQueue(workers[v])
      /\ workers'[v] \in WorkerStates /\ OfItsQueue(workers'[v])
      /\ WorkerCounts(workers[v], failures, sends)
      /\ sends \in Counters /\ failures \in Counters /\ db \in Tables
  BY CountersGrow DEF TypeInv, WorkerType, ConnectionType, CountInv
<1>2. ASSUME WorkerCounts(workers'[v], failures, sends)
      PROVE  WorkerCounts(workers'[v], failures', sends')
  BY <1>1, <1>2, CountersGrow, CountedStays
<1>3. ASSUME NEW state, state.batch = {}, state.pc \in {"select", "unused"}
      PROVE  WorkerCounts(state, failures, sends)
  BY <1>3 DEF WorkerCounts, Busy
<1>4. CASE workers'[v] = workers[v]
  BY <1>1, <1>2, <1>4
<1>5. CASE Crash
  BY <1>1, <1>2, <1>3, <1>5, CrashType DEF IdleWorker
<1>6. CASE WorkerStep(v)
  <2>1. CASE \E late \in SUBSET Enqueuers : Select(v, late)
    <3>1. PICK late \in SUBSET Enqueuers : Select(v, late)
      BY <2>1
    <3>2. CASE workers'[v] = NextQueue(v)
      BY <1>2, <1>3, <3>2, NextStates
    <3>3. CASE /\ workers'[v].pc = "begin"
               /\ workers'[v].batch = {[id |-> t, attempts |-> db.task[t].attempts] :
                                         t \in Waiting(db, workers[v].queue) \ late}
      <4>1. \A row \in workers'[v].batch :
              row.id \in Enqueuers /\ row.attempts = db.task[row.id].attempts
        BY <3>3 DEF Waiting
      <4> QED BY <1>2, <3>3, <4>1 DEF WorkerCounts, Busy, Counted, CountInv
    <3> QED BY <3>1, <3>2, <3>3, SelectLeaves
  <2>2. CASE BeginTask(v)
    <3>1. workers'[v].pc \in {"load", "send"} /\ workers'[v].batch \subseteq workers[v].batch
          /\ workers'[v].task \in workers[v].batch
      BY <2>2, BeginTaskLeaves
    <3> QED BY <1>1, <1>2, <3>1 DEF WorkerCounts
  <2>3. CASE Load(v)
    <3>1. /\ workers'[v].pc = "index" /\ workers[v].pc \in Busy
          /\ workers'[v].batch = workers[v].batch /\ workers'[v].task = workers[v].task
      BY <2>3, LoadLeaves DEF Load, Busy
    <3> QED BY <1>1, <1>2, <3>1 DEF WorkerCounts
  <2>4. CASE Going(v)
    <3>1. /\ workers[v].pc \in Busy /\ workers'[v].queue = workers[v].queue
          /\ workers'[v].batch = workers[v].batch /\ workers'[v].task = workers[v].task
      BY <2>4, GoingLeaves DEF Same
    <3>2. /\ workers[v].task.id \in Enqueuers /\ workers[v].task.attempts \in Nat
          /\ failures[workers[v].task.id] \in Nat /\ sends[workers[v].task.id] \in Nat
      BY <1>1, <3>1 DEF OfItsQueue, Rows, Counters
    <3>3. CASE Index(v)
      <4>1. workers'[v].pc = "mark" /\ workers[v].queue = "fts"
        BY <1>1, <2>4, <3>3, GoingLeaves DEF OfItsQueue
      <4> QED BY <1>1, <1>2, <3>1, <4>1 DEF WorkerCounts
    <3>4. CASE Send(v)
      <4>1. workers'[v].pc = "mark" /\ failures' = failures
            /\ sends' = [sends EXCEPT ![workers[v].task.id] = @ + 1]
        BY <2>4, <3>4, GoingLeaves DEF Send
      <4>2. sends'[workers[v].task.id] > 0
        BY <1>1, <3>2, <4>1 DEF Counters
      <4> QED BY <1>1, <3>1, <4>1, <4>2 DEF WorkerCounts
    <3>5. CASE Mark(v)
      <4>1. workers'[v].pc = "commit" /\ workers[v].pc = "mark"
        BY <2>4, <3>5, GoingLeaves
      <4> QED BY <1>1, <1>2, <3>1, <4>1 DEF WorkerCounts
    <3>6. CASE TaskFails(v)
      <4>1. workers'[v].pc = "rollback" /\ sends' = sends
            /\ failures' = [failures EXCEPT ![workers[v].task.id] = @ + 1]
        BY <2>4, <3>6, GoingLeaves DEF TaskFails
      <4>2. failures'[workers[v].task.id] = failures[workers[v].task.id] + 1
        BY <1>1, <3>2, <4>1 DEF Counters
      <4>3. workers[v].task.attempts <= failures[workers[v].task.id]
        BY <1>1, <3>1 DEF WorkerCounts
      <4>4. workers'[v].task.attempts + 1 <= failures'[workers'[v].task.id]
            /\ workers'[v].task.attempts <= failures'[workers'[v].task.id]
        BY <3>1, <3>2, <4>2, <4>3
      <4>5. \A row \in workers'[v].batch : row.attempts <= failures'[row.id]
        <5>1. \A row \in workers[v].batch :
                row.id \in Enqueuers /\ row.attempts \in Nat /\ row.attempts <= failures[row.id]
          BY <1>1 DEF WorkerStates, Rows, WorkerCounts
        <5> QED BY <1>1, <3>1, <3>2, <4>1, <5>1 DEF Counters
      <4> QED BY <4>1, <4>4, <4>5 DEF WorkerCounts
    <3>7. CASE RollbackTask(v)
      <4>1. workers'[v].pc = "record" /\ workers[v].pc = "rollback"
        BY <2>4, <3>7, GoingLeaves
      <4> QED BY <1>1, <1>2, <3>1, <4>1 DEF WorkerCounts, Busy
    <3> QED BY <2>4, <3>3, <3>4, <3>5, <3>6, <3>7 DEF Going
  <2>5. CASE Leaving(v)
    <3>1. workers'[v].pc \in {"select", "begin"} /\ workers'[v].batch \in {{}, workers[v].batch}
      BY <2>5, LeavingLeaves, NextStates
    <3>2. WorkerCounts(workers'[v], failures, sends)
      BY <1>1, <3>1 DEF WorkerCounts, Busy
    <3> QED BY <1>2, <3>2
  <2> QED BY <1>6, <2>1, <2>2, <2>3, <2>4, <2>5 DEF WorkerStep, Going, Leaving
<1> QED BY <1>4, <1>5, <1>6, CallStepType, WorkerStepType DEF Next

-----------------------------------------------------------------------------
(* While nothing fails and the process lives, a transaction ends by the    *)
(* one that began it, and one tick at a time is at the notifications.      *)
Quiet ==
  /\ ~stray
  /\ \A w \in Workers : workers[w].pc \notin {"rollback", "record"}
  /\ \A c \in Calls : calls[c].at = Undoing => tx = c

Alone == \A v, w \in Workers : AtNotifications(v) /\ AtNotifications(w) => v = w

(* Enqueued and not sent yet.                                              *)
Unsent(t) == sends[t] = 0 /\ calls[t].at # 1

(* What a worker is still to send.                                         *)
ToSend(w) ==
  /\ \A row \in workers[w].batch : Unsent(row.id)
  /\ \A r, s \in workers[w].batch : r.id = s.id => r = s
  /\ workers[w].pc \in Busy =>
       /\ \A row \in workers[w].batch : row.id # workers[w].task.id
       /\ calls[workers[w].task.id].at # 1
  /\ workers[w].pc = "send" => Unsent(workers[w].task.id)

Batched == \A w \in Workers : AtNotifications(w) => ToSend(w)

Carried(t, pcs) == \E w \in Workers : workers[w].pc \in pcs /\ workers[w].task.id = t

(* Once it is sent only the worker that sent it may find it open.          *)
Settled(t) ==
  sends[t] > 0 =>
    /\ sends[t] = 1
    /\ db.task[t].status \in Open => Carried(t, {"mark"})
    /\ undo.task[t].status \in Open => Carried(t, {"mark", "commit"})

Unmade(t) ==
  calls[t].at = 1 =>
    sends[t] = 0 /\ db.task[t].status = "none" /\ undo.task[t].status = "none"

Notifications == {t \in Enqueuers : QueueOf(t) = "notification"}

OnceInv ==
  /\ fails = 0 /\ crashes = 0 => Quiet
  /\ fails = 0 /\ crashes = 0 /\ ~overlapped =>
       Alone /\ Batched /\ \A t \in Notifications : Settled(t) /\ Unmade(t)
  /\ \A t \in Enqueuers \ Notifications : sends[t] = 0

LEMMA QuietStep ==
  ASSUME TypeInv, Owner, Quiet, Next, fails' = fails, crashes' = crashes
  PROVE  Quiet'
<1>1. fails \in Nat /\ crashes \in Nat /\ ~StatementFails /\ ~Crash
  BY CrashType DEF TypeInv, CountType, StatementFails
<1>2. ASSUME NEW c \in Calls, CallStep(c) PROVE Quiet'
  <2>1. /\ UNCHANGED workers /\ \A d \in Calls : d # c => calls'[d] = calls[d]
        /\ calls[c].at \in Nat
    BY <1>2, CallStepType, StatementIs
  <2>2. CASE Execute(c) \/ Check(c) \/ BeginRefused(c)
    <3>1. Goes(c, calls[c].at + 1) \/ Goes(c, 100) \/ calls'[c].at = calls[c].at + 1
      BY <2>2, Follows DEF Check, BeginRefused, Advances, Failed
    <3>2. calls'[c].at # 0
      BY <2>1, <3>1, CallsMove
    <3>3. UNCHANGED <<tx, stray>>
      BY <2>2 DEF Execute, Check, BeginRefused
    <3> QED BY <2>1, <3>2, <3>3 DEF Quiet, Undoing
  <2>3. CASE Begin(c)
    <3>1. tx = NoTx /\ UNCHANGED stray /\ Goes(c, calls[c].at + 1)
      BY <2>3 DEF Begin, Opens, Advances
    <3>2. calls'[c].at # 0
      BY <2>1, <3>1, CallsMove
    <3> QED BY <2>1, <3>1, <3>2, CommunityAssumptions DEF Quiet, Undoing
  <2>4. CASE Commit(c)
    <3>1. Statement(c) = "commit" /\ Goes(c, calls[c].at + 1) /\ stray' = (stray \/ tx # c)
      BY <2>4 DEF Commit, Commits, Closes, Advances
    <3>2. calls'[c].at # 0
      BY <2>1, <3>1, CallsMove
    <3>3. tx = c
      BY <3>1, TellingIsInside DEF Owner, Quiet
    <3> QED BY <2>1, <3>1, <3>2, <3>3 DEF Quiet, Undoing
  <2>5. CASE Throws(c)
    <3>1. /\ Statement(c) = "resolve" \/ (Statement(c) = "commit" /\ tx = NoTx)
          /\ UNCHANGED <<tx, stray>>
      BY <1>1, <2>5 DEF Throws
    <3>2. tx = c
      BY <3>1, TellingIsInside DEF Owner, Quiet
    <3> QED BY <2>1, <3>1, <3>2 DEF Quiet
  <2>6. CASE Rollback(c)
    <3>1. tx = c
      BY <2>6 DEF Rollback, Quiet
    <3>2. Goes(c, 100) /\ stray' = (stray \/ tx # c)
      BY <2>6, <3>1, CommunityAssumptions DEF Rollback, RollsBack, Closes, Failed
    <3>3. calls'[c].at # 0
      BY <2>1, <3>2, CallsMove
    <3> QED BY <2>1, <3>1, <3>2, <3>3 DEF Quiet, Undoing
  <2> QED BY <1>2, <2>2, <2>3, <2>4, <2>5, <2>6 DEF CallStep
<1>3. ASSUME NEW w \in Workers, WorkerStep(w) PROVE Quiet'
  <2>1. /\ UNCHANGED calls /\ \A v \in Workers : v # w => workers'[v] = workers[v]
        /\ workers[w].pc \notin {"rollback", "record"}
    BY <1>3, WorkerStepType DEF Quiet
  <2>2. ASSUME UNCHANGED <<tx, stray>>, workers'[w].pc \notin {"rollback", "record"}
        PROVE  Quiet'
    BY <2>1, <2>2 DEF Quiet
  <2>3. CASE \E late \in SUBSET Enqueuers : Select(w, late)
    BY <2>2, <2>3, SelectLeaves, NextStates DEF Select
  <2>4. CASE BeginTask(w)
    <3>1. tx = NoTx /\ UNCHANGED stray /\ workers'[w].pc \in {"load", "send"}
      BY <2>4, BeginTaskLeaves DEF BeginTask, Opens
    <3> QED BY <2>1, <3>1, CommunityAssumptions DEF Quiet
  <2>5. CASE Load(w)
    BY <2>2, <2>5, LoadLeaves DEF Load
  <2>6. CASE Index(w) \/ Send(w) \/ Mark(w)
    BY <2>2, <2>6, GoingLeaves DEF Index, Send, Mark, Going
  <2>7. CASE CommitTask(w)
    <3>1. stray' = (stray \/ tx # w) /\ workers[w].pc = "commit"
      BY <2>7 DEF CommitTask, Commits, Closes
    <3>2. tx = w
      BY <3>1 DEF Owner, Quiet, Busy
    <3>3. workers'[w].pc \in {"select", "begin"}
      BY <2>7, LeavingLeaves, NextStates DEF Leaving
    <3> QED BY <2>1, <3>1, <3>2, <3>3, CommunityAssumptions DEF Quiet
  <2>8. CASE BatchRefused(w)
    BY <2>2, <2>8, LeavingLeaves, NextStates DEF BatchRefused, Leaving
  <2>9. ~SelectFails(w) /\ ~TaskFails(w) /\ ~RollbackTask(w) /\ ~NothingToRollBack(w)
        /\ ~Record(w) /\ ~RecordFails(w)
    <3>1. ~TaskFails(w)
      <4>1. TaskFails(w) => workers[w].pc = "commit" /\ tx = NoTx
        BY <1>1 DEF TaskFails
      <4> QED BY <4>1, CommunityAssumptions DEF Owner, Quiet, Busy
    <3> QED BY <1>1, <2>1, <3>1 DEF SelectFails, RollbackTask, NothingToRollBack, Record, RecordFails
  <2> QED BY <1>3, <2>3, <2>4, <2>5, <2>6, <2>7, <2>8, <2>9 DEF WorkerStep
<1> QED BY <1>1, <1>2, <1>3 DEF Next

Once == Alone /\ Batched /\ \A t \in Notifications : Settled(t) /\ Unmade(t)

(* Nobody carries a task while no worker holds the transaction.            *)
LEMMA NobodyCarries ==
  ASSUME TypeInv, Owner, ~stray, \A w \in Workers : tx # w
  PROVE  \A t \in Enqueuers : ~Carried(t, {"mark"}) /\ ~Carried(t, {"mark", "commit"})
BY DEF Owner, Carried, Busy

LEMMA FirstStatement ==
  ASSUME TypeInv, Next, NEW c \in Calls, calls'[c].at = 1
  PROVE  calls'[c] = calls[c]
<1>1. Statement(c) # "none" => calls[c].at >= 1 /\ calls[c].at \in Nat
  BY StatementIs, Programs
<1> QED BY <1>1, AnyCallMoves

LEMMA CallOnce ==
  ASSUME TypeInv, Owner, Quiet, Once, NEW c \in Calls, CallStep(c), TypeInv'
  PROVE  Once'
<1>1. UNCHANGED <<workers, sends>> /\ Next
  BY CallStepType DEF Next
<1>2. \A d \in Calls : calls'[d].at = 1 => calls[d].at = 1 /\ ~(d = c /\ Execute(c))
  BY <1>1, FirstStatement, Follows, StatementIs
<1>3. \A t \in Enqueuers : t \in Calls
  BY DEF Enqueuers
<1>4. Alone'
  BY <1>1 DEF Once, Alone, AtNotifications
<1>5. Batched'
  <2> SUFFICES ASSUME NEW w \in Workers, AtNotifications(w)' PROVE ToSend(w)'
    BY DEF Batched
  <2>1. ToSend(w) /\ workers[w] \in WorkerStates /\ OfItsQueue(workers[w])
    BY <1>1, NextStates DEF Once, Batched, AtNotifications
  <2>2. \A row \in workers[w].batch : row.id \in Calls
    BY <1>3, <2>1 DEF WorkerStates, Rows
  <2>3. workers[w].pc \in Busy => workers[w].task.id \in Calls
    BY <1>3, <2>1 DEF OfItsQueue, Rows
  <2> QED BY <1>1, <1>2, <2>1, <2>2, <2>3 DEF ToSend, Unsent, Busy
<1>6. ASSUME NEW t \in Notifications PROVE Settled(t)' /\ Unmade(t)'
  <2>1. t \in Calls /\ t \in Enqueuers /\ t.op = "notify" /\ Settled(t) /\ Unmade(t)
    BY <1>3, <1>6 DEF Notifications, QueueOf, Enqueuers, Once
  <2>2. /\ (Carried(t, {"mark"}))' = Carried(t, {"mark"})
        /\ (Carried(t, {"mark", "commit"}))' = Carried(t, {"mark", "commit"})
    BY <1>1 DEF Carried
  <2>3. EmptyTables.task[t].status = "none"
    BY <2>1 DEF EmptyTables
  <2>4. CASE Execute(c)
    <3>1. undo' = undo /\ Changed(c, Statement(c), db, db') /\ db.task \in [Enqueuers -> Tasks]
      BY <2>4, AfterChanges DEF Execute, TypeInv, ConnectionType, Tables
    <3>2. CASE Statement(c) = "enqueue" /\ t = c
      <4>1. calls[t].at = 1 /\ calls'[t].at # 1
        BY <1>2, <2>1, <2>4, <3>2, StatementIs, Programs
      <4> QED BY <1>1, <2>1, <4>1 DEF Settled, Unmade
    <3>3. CASE ~(Statement(c) = "enqueue" /\ t = c)
      <4>1. db'.task[t] = db.task[t]
        BY <2>1, <3>1, <3>3 DEF Changed
      <4> QED BY <1>1, <1>2, <2>1, <2>2, <3>1, <4>1 DEF Settled, Unmade
    <3> QED BY <3>2, <3>3
  <2>5. CASE Check(c) \/ BeginRefused(c) \/ Throws(c)
    <3>1. UNCHANGED <<db, undo>>
      BY <2>5 DEF Check, BeginRefused, Throws
    <3> QED BY <1>1, <1>2, <2>1, <2>2, <3>1 DEF Settled, Unmade
  <2>6. CASE Begin(c)
    <3>1. tx = NoTx /\ undo' = db /\ db' = db
      BY <2>6 DEF Begin, Opens
    <3>2. ~Carried(t, {"mark"})
      BY <2>1, <3>1, NobodyCarries, CommunityAssumptions DEF Quiet
    <3> QED BY <1>1, <1>2, <2>1, <2>2, <3>1, <3>2 DEF Settled, Unmade
  <2>7. CASE Commit(c)
    <3>1. undo' = EmptyTables /\ db' = db
      BY <2>7 DEF Commit, Commits, Closes
    <3> QED BY <1>1, <1>2, <2>1, <2>2, <2>3, <3>1 DEF Settled, Unmade, Open
  <2>8. CASE Rollback(c)
    <3>1. tx = c /\ calls[c].at = Undoing
      BY <2>8 DEF Rollback, Quiet
    <3>2. undo' = EmptyTables /\ db' = undo
      BY <2>8, <3>1, CommunityAssumptions DEF Rollback, RollsBack, Closes
    <3>3. ~Carried(t, {"mark", "commit"})
      BY <2>1, <3>1, NobodyCarries, CommunityAssumptions DEF Quiet
    <3> QED BY <1>1, <1>2, <2>1, <2>2, <2>3, <3>2, <3>3 DEF Settled, Unmade, Open
  <2> QED BY <2>4, <2>5, <2>6, <2>7, <2>8 DEF CallStep
<1> QED BY <1>4, <1>5, <1>6 DEF Once

LEMMA SelectOnce ==
  ASSUME TypeInv, Owner, Quiet, Once, NEW w \in Workers, NEW late \in SUBSET Enqueuers,
         Select(w, late), ~overlapped'
  PROVE  Once'
<1> DEFINE rows == Waiting(db, workers[w].queue) \ late
<1>1. /\ UNCHANGED <<db, undo, calls, sends>> /\ workers[w].pc = "select"
      /\ \A v \in Workers : v # w => workers'[v] = workers[v]
  BY SelectLeaves DEF Select
<1>2. \/ workers'[w].pc = "select"
      \/ /\ workers'[w].pc = "begin" /\ workers'[w].queue = workers[w].queue /\ rows # {}
         /\ workers'[w].batch = {[id |-> t, attempts |-> db.task[t].attempts] : t \in rows}
  BY SelectLeaves, NextStates
<1>3. ASSUME AtNotifications(w)'
      PROVE  /\ \A v \in Workers : ~AtNotifications(v)
             /\ workers'[w].pc = "begin" /\ workers[w].queue = "notification"
             /\ workers'[w].batch = {[id |-> t, attempts |-> db.task[t].attempts] : t \in rows}
  <2>1. /\ workers'[w].pc = "begin" /\ workers[w].queue = "notification" /\ rows # {}
        /\ workers'[w].batch = {[id |-> t, attempts |-> db.task[t].attempts] : t \in rows}
    BY <1>2, <1>3 DEF AtNotifications
  <2> QED BY <2>1 DEF Select
<1>4. Alone'
  <2>1. \A v \in Workers : v # w => (AtNotifications(v)' <=> AtNotifications(v))
    BY <1>1 DEF AtNotifications
  <2> QED BY <1>3, <2>1 DEF Once, Alone
<1>5. Batched'
  <2>1. ASSUME NEW v \in Workers, v # w, AtNotifications(v)' PROVE ToSend(v)'
    BY <1>1, <2>1 DEF Once, Batched, AtNotifications, ToSend, Unsent
  <2>2. ASSUME AtNotifications(w)' PROVE ToSend(w)'
    <3>1. ASSUME NEW t \in rows PROVE Unsent(t) /\ t \in Notifications
      <4>1. t \in Notifications /\ t \in Enqueuers /\ db.task[t].status \in Open
        BY <1>3, <2>2 DEF Waiting, Notifications
      <4>2. ~Carried(t, {"mark"})
        <5>1. ASSUME NEW v \in Workers, workers[v].pc = "mark", workers[v].task.id = t
              PROVE  FALSE
          <6>1. workers[v].queue = QueueOf(t)
            BY <5>1, NextStates DEF OfItsQueue, Busy
          <6> QED BY <1>3, <2>2, <4>1, <5>1, <6>1 DEF AtNotifications, Notifications
        <5> QED BY <5>1 DEF Carried
      <4>3. sends[t] \in Nat /\ ~(sends[t] > 0)
        BY <4>1, <4>2 DEF Once, Settled, TypeInv, CountType
      <4>4. calls[t].at # 1
        BY <4>1 DEF Once, Unmade, Open
      <4> QED BY <4>1, <4>3, <4>4 DEF Unsent
    <3>2. /\ \A row \in workers'[w].batch : row.id \in rows
          /\ \A r, s \in workers'[w].batch : r.id = s.id => r = s
      BY <1>3, <2>2
    <3> QED BY <1>1, <1>3, <2>2, <3>1, <3>2 DEF ToSend, Unsent, Busy
  <2> QED BY <2>1, <2>2 DEF Batched
<1>6. ASSUME NEW t \in Notifications PROVE Settled(t)' /\ Unmade(t)'
  <2>1. /\ Carried(t, {"mark"}) => (Carried(t, {"mark"}))'
        /\ Carried(t, {"mark", "commit"}) => (Carried(t, {"mark", "commit"}))'
    BY <1>1 DEF Carried
  <2> QED BY <1>1, <1>6, <2>1 DEF Once, Settled, Unmade
<1> QED BY <1>4, <1>5, <1>6 DEF Once

LEMMA BeginOnce ==
  ASSUME TypeInv, Owner, Quiet, Once, NEW w \in Workers, BeginTask(w)
  PROVE  Once'
<1>1. /\ tx = NoTx /\ undo' = db /\ db' = db /\ UNCHANGED <<calls, sends>> /\ workers[w].pc = "begin"
      /\ \A v \in Workers : v # w => workers'[v] = workers[v]
  BY BeginTaskLeaves DEF BeginTask, Opens, history
<1>2. PICK row \in workers[w].batch :
        /\ row \in Rows /\ workers'[w].task = row
        /\ workers'[w].batch = workers[w].batch \ {row} /\ workers'[w].queue = workers[w].queue
        /\ workers'[w].pc = IF workers[w].queue = "fts" THEN "load" ELSE "send"
  BY BeginTaskLeaves
<1>3. \A v \in Workers : AtNotifications(v)' <=> AtNotifications(v)
  BY <1>1, <1>2 DEF AtNotifications
<1>4. Batched'
  <2>1. ASSUME NEW v \in Workers, v # w, AtNotifications(v)' PROVE ToSend(v)'
    BY <1>1, <1>3, <2>1 DEF Once, Batched, ToSend, Unsent
  <2>2. ASSUME AtNotifications(w)' PROVE ToSend(w)'
    <3>1. ToSend(w)
      BY <1>3, <2>2 DEF Once, Batched
    <3>2. /\ \A r \in workers[w].batch : Unsent(r.id)
          /\ \A r, s \in workers[w].batch : r.id = s.id => r = s
      BY <3>1 DEF ToSend
    <3> QED BY <1>1, <1>2, <3>2 DEF ToSend, Unsent
  <2> QED BY <2>1, <2>2 DEF Batched
<1>5. ASSUME NEW t \in Notifications PROVE Settled(t)' /\ Unmade(t)'
  <2>1. ~Carried(t, {"mark"})
    BY <1>1, <1>5, NobodyCarries, CommunityAssumptions DEF Quiet, Notifications
  <2> QED BY <1>1, <1>5, <2>1 DEF Once, Settled, Unmade
<1> QED BY <1>3, <1>4, <1>5 DEF Once, Alone

LEMMA SendOnce ==
  ASSUME TypeInv, Quiet, Once, NEW w \in Workers, Send(w)
  PROVE  Once'
<1> DEFINE task == workers[w].task.id
<1>1. /\ UNCHANGED <<db, undo, calls>> /\ sends' = [sends EXCEPT ![task] = @ + 1]
      /\ workers[w].pc = "send" /\ workers'[w].pc = "mark"
      /\ workers'[w].queue = workers[w].queue
      /\ workers'[w].batch = workers[w].batch /\ workers'[w].task = workers[w].task
      /\ \A v \in Workers : v # w => workers'[v] = workers[v]
  BY GoingLeaves DEF Going, Same, Send
<1>2. /\ task \in Enqueuers /\ workers[w].queue = "notification" /\ sends \in [Enqueuers -> Nat]
      /\ \A row \in workers[w].batch : row.id \in Enqueuers
  BY <1>1, NextStates DEF OfItsQueue, Busy, Rows, WorkerStates, TypeInv, CountType
<1>3. /\ \A v \in Workers : AtNotifications(v)' <=> AtNotifications(v)
      /\ \A v \in Workers : AtNotifications(v) => v = w
  BY <1>1, <1>2 DEF AtNotifications, Once, Alone
<1>4. ToSend(w) /\ Unsent(task)
  BY <1>1, <1>2 DEF Once, Batched, AtNotifications, ToSend
<1>5. sends'[task] = 1 /\ \A t \in Enqueuers : t # task => sends'[t] = sends[t]
  BY <1>1, <1>2, <1>4 DEF Unsent
<1>6. ToSend(w)'
  BY <1>1, <1>2, <1>4, <1>5 DEF ToSend, Unsent, Busy
<1>7. ASSUME NEW t \in Notifications PROVE Settled(t)' /\ Unmade(t)'
  <2>1. CASE t = task
    <3>1. (Carried(t, {"mark"}))' /\ (Carried(t, {"mark", "commit"}))'
      BY <1>1, <2>1 DEF Carried
    <3> QED BY <1>1, <1>4, <1>5, <2>1, <3>1 DEF Settled, Unmade, Unsent
  <2>2. CASE t # task
    <3>1. /\ Carried(t, {"mark"}) => (Carried(t, {"mark"}))'
          /\ Carried(t, {"mark", "commit"}) => (Carried(t, {"mark", "commit"}))'
      BY <1>1 DEF Carried
    <3> QED BY <1>1, <1>5, <1>7, <2>2, <3>1 DEF Once, Settled, Unmade, Notifications
  <2> QED BY <2>1, <2>2
<1> QED BY <1>3, <1>6, <1>7 DEF Once, Alone, Batched

LEMMA MarkOnce ==
  ASSUME TypeInv, Quiet, Once, NEW w \in Workers, Mark(w)
  PROVE  Once'
<1> DEFINE task == workers[w].task.id
           row == [status |-> "done", attempts |-> db.task[task].attempts]
<1>1. /\ UNCHANGED <<undo, calls, sends>> /\ db' = Updated(task, row)
      /\ workers[w].pc = "mark" /\ workers'[w].pc = "commit"
      /\ workers'[w].queue = workers[w].queue
      /\ workers'[w].batch = workers[w].batch /\ workers'[w].task = workers[w].task
      /\ \A v \in Workers : v # w => workers'[v] = workers[v]
  BY GoingLeaves DEF Going, Same, Mark, history
<1>2. task \in Enqueuers /\ QueueOf(task) = workers[w].queue
  BY <1>1, NextStates DEF OfItsQueue, Busy, Rows
<1>3. row \in Tasks
  BY <1>2 DEF Tasks, TaskStatus, TypeInv, ConnectionType, Tables
<1>4. \A t \in Enqueuers : db'.task[t] = IF t = task /\ db.task[t].status # "none" THEN row
                                         ELSE db.task[t]
  BY <1>1, <1>2, <1>3, UpdatedType
<1>5. \A v \in Workers : AtNotifications(v)' <=> AtNotifications(v)
  BY <1>1 DEF AtNotifications
<1>6. Batched'
  <2>1. \A v \in Workers : ToSend(v) => ToSend(v)'
    BY <1>1 DEF ToSend, Unsent, Busy
  <2> QED BY <1>5, <2>1 DEF Once, Batched
<1>7. ASSUME NEW t \in Notifications PROVE Settled(t)' /\ Unmade(t)'
  <2>1. Settled(t) /\ Unmade(t) /\ t \in Enqueuers /\ QueueOf(t) = "notification"
    BY DEF Once, Notifications
  <2>2. Carried(t, {"mark", "commit"}) => (Carried(t, {"mark", "commit"}))'
    BY <1>1 DEF Carried
  <2>3. CASE t = task
    <3>1. calls[t].at # 1
      BY <1>1, <1>2, <2>1, <2>3 DEF Once, Batched, AtNotifications, ToSend, Busy
    <3>2. db'.task[t].status \notin Open
      BY <1>4, <2>1, <2>3 DEF Open
    <3> QED BY <1>1, <2>1, <2>2, <3>1, <3>2 DEF Settled, Unmade
  <2>4. CASE t # task
    <3>1. Carried(t, {"mark"}) => (Carried(t, {"mark"}))'
      BY <1>1, <2>4 DEF Carried
    <3> QED BY <1>1, <1>4, <2>1, <2>2, <2>4, <3>1 DEF Settled, Unmade
  <2> QED BY <2>3, <2>4
<1> QED BY <1>5, <1>6, <1>7 DEF Once, Alone

LEMMA OtherOnce ==
  ASSUME TypeInv, Quiet, Once, NEW w \in Workers,
         Load(w) \/ Index(w) \/ CommitTask(w) \/ BatchRefused(w)
  PROVE  Once'
<1>1. /\ UNCHANGED <<calls, sends>> /\ db'.task = db.task
      /\ undo' = undo \/ undo' = EmptyTables
      /\ \A v \in Workers : v # w => workers'[v] = workers[v]
      /\ workers[w].pc # "mark"
      /\ workers[w].pc = "commit" => CommitTask(w) /\ undo' = EmptyTables
  <2>1. CASE Load(w)
    BY <2>1, LoadLeaves DEF Load, history
  <2>2. CASE Index(w)
    BY <2>2, GoingLeaves, WorkerTables DEF Index, Going, Same, history
  <2>3. CASE CommitTask(w) \/ BatchRefused(w)
    BY <2>3, LeavingLeaves DEF CommitTask, BatchRefused, Commits, Closes, Leaving, history
  <2> QED BY <2>1, <2>2, <2>3
<1>2. \/ ~AtNotifications(w)'
      \/ /\ AtNotifications(w) /\ workers'[w].pc = "begin" /\ workers'[w].batch = workers[w].batch
  <2>1. CASE Load(w)
    <3>1. workers'[w].queue = "fts"
      BY <2>1, LoadLeaves, NextStates DEF Load, OfItsQueue
    <3> QED BY <3>1 DEF AtNotifications
  <2>2. CASE Index(w)
    <3>1. workers'[w].queue = "fts"
      BY <2>2, GoingLeaves, NextStates DEF Index, OfItsQueue, Going, Same
    <3> QED BY <3>1 DEF AtNotifications
  <2>3. CASE CommitTask(w)
    BY <2>3, LeavingLeaves, NextStates DEF Leaving, CommitTask, AtNotifications
  <2>4. CASE BatchRefused(w)
    <3>1. workers'[w].pc = "select"
      BY <2>4, LeavingLeaves, NextStates DEF Leaving, BatchRefused, CommitTask, Record
    <3> QED BY <3>1 DEF AtNotifications
  <2> QED BY <2>1, <2>2, <2>3, <2>4
<1>3. \A v \in Workers : AtNotifications(v)' => AtNotifications(v)
  BY <1>1, <1>2 DEF AtNotifications
<1>4. Batched'
  <2>1. ASSUME NEW v \in Workers, v # w, AtNotifications(v)' PROVE ToSend(v)'
    BY <1>1, <1>3, <2>1 DEF Once, Batched, ToSend, Unsent
  <2>2. ASSUME AtNotifications(w)' PROVE ToSend(w)'
    <3>1. ToSend(w) /\ workers'[w].pc = "begin" /\ workers'[w].batch = workers[w].batch
      BY <1>2, <2>2 DEF Once, Batched
    <3> QED BY <1>1, <3>1 DEF ToSend, Unsent, Busy
  <2> QED BY <2>1, <2>2 DEF Batched
<1>5. ASSUME NEW t \in Notifications PROVE Settled(t)' /\ Unmade(t)'
  <2>1. Settled(t) /\ Unmade(t) /\ EmptyTables.task[t].status = "none"
    BY <1>5 DEF Once, Notifications, EmptyTables
  <2>2. Carried(t, {"mark"}) => (Carried(t, {"mark"}))'
    BY <1>1 DEF Carried
  <2>3. CASE undo' = EmptyTables
    BY <1>1, <2>1, <2>2, <2>3 DEF Settled, Unmade, Open
  <2>4. CASE undo' = undo /\ workers[w].pc # "commit"
    <3>1. Carried(t, {"mark", "commit"}) => (Carried(t, {"mark", "commit"}))'
      BY <1>1, <2>4 DEF Carried
    <3> QED BY <1>1, <2>1, <2>2, <2>4, <3>1 DEF Settled, Unmade
  <2> QED BY <1>1, <2>3, <2>4
<1> QED BY <1>3, <1>4, <1>5 DEF Once, Alone

LEMMA OnceStep ==
  ASSUME TypeInv, Owner, OnceInv, Next
  PROVE  OnceInv'
<1>1. /\ TypeInv' /\ fails \in Nat /\ crashes \in Nat /\ fails' \in Nat /\ crashes' \in Nat
      /\ fails' >= fails /\ crashes' >= crashes
  BY CountersGrow DEF TypeInv, CountType
<1>2. ~overlapped' => ~overlapped
  <2>1. CASE \E c \in Calls : CallStep(c)
    BY <2>1, CallStepType
  <2>2. CASE Crash
    BY <2>2, CrashType
  <2>3. ASSUME NEW w \in Workers, WorkerStep(w) PROVE ~overlapped' => ~overlapped
    <3>1. CASE \E late \in SUBSET Enqueuers : Select(w, late)
      BY <3>1 DEF Select
    <3>2. CASE ~\E late \in SUBSET Enqueuers : Select(w, late)
      BY <2>3, <3>2 DEF WorkerStep, SelectFails, BeginTask, BatchRefused, Load, Index, Send, Mark,
           CommitTask, TaskFails, RollbackTask, NothingToRollBack, Record, RecordFails, history
    <3> QED BY <3>1, <3>2
  <2> QED BY <2>1, <2>2, <2>3 DEF Next
<1>3. ASSUME fails' = 0, crashes' = 0
      PROVE  /\ Quiet /\ Quiet' /\ ~StatementFails /\ ~Crash
             /\ ~overlapped => Once
  <2>1. fails = 0 /\ crashes = 0
    BY <1>1, <1>3
  <2>2. Quiet
    BY <2>1 DEF OnceInv
  <2>3. ~StatementFails /\ ~Crash
    BY <1>1, <1>3, <2>1, CrashType DEF StatementFails
  <2> QED BY <1>3, <2>1, <2>2, <2>3, QuietStep DEF OnceInv, Once
<1>4. ASSUME fails' = 0, crashes' = 0, ~overlapped' PROVE Once'
  <2>1. Once /\ Quiet /\ ~StatementFails /\ ~Crash
    BY <1>2, <1>3, <1>4
  <2>2. ASSUME NEW w \in Workers, WorkerStep(w) PROVE Once'
    <3>1. workers[w].pc \notin {"rollback", "record"}
      BY <2>1 DEF Quiet
    <3>2. ~TaskFails(w)
      <4>1. TaskFails(w) => workers[w].pc = "commit" /\ tx = NoTx
        BY <2>1 DEF TaskFails
      <4> QED BY <2>1, <4>1, CommunityAssumptions DEF Owner, Quiet, Busy
    <3>3. \/ \E late \in SUBSET Enqueuers : Select(w, late)
          \/ BeginTask(w) \/ BatchRefused(w) \/ Load(w) \/ Index(w) \/ Send(w) \/ Mark(w)
          \/ CommitTask(w)
      BY <2>1, <2>2, <3>1, <3>2 DEF WorkerStep, SelectFails, RollbackTask, NothingToRollBack,
           Record, RecordFails
    <3> QED BY <1>4, <2>1, <3>3, SelectOnce, BeginOnce, SendOnce, MarkOnce, OtherOnce
  <2> QED BY <1>1, <2>1, <2>2, CallOnce DEF Next
<1>5. \A t \in Enqueuers \ Notifications : sends'[t] = 0
  <2>1. CASE UNCHANGED sends
    BY <2>1 DEF OnceInv
  <2>2. ASSUME NEW w \in Workers, Send(w)
        PROVE  \A t \in Enqueuers \ Notifications : sends'[t] = 0
    <3>1. workers[w].task.id \in Notifications
      BY <2>2, NextStates DEF Send, OfItsQueue, Busy, Rows, Notifications
    <3> QED BY <2>2, <3>1 DEF Send, OnceInv, TypeInv, CountType
  <2>3. UNCHANGED sends \/ \E w \in Workers : Send(w)
    <3>1. ASSUME NEW w \in Workers, WorkerStep(w), ~Send(w) PROVE UNCHANGED sends
      BY <3>1 DEF WorkerStep, Select, SelectFails, BeginTask, BatchRefused, Load, Index, Mark,
           CommitTask, TaskFails, RollbackTask, NothingToRollBack, Record, RecordFails, history
    <3> QED BY <3>1, CallStepType, CrashType DEF Next
  <2> QED BY <2>1, <2>2, <2>3
<1> QED BY <1>3, <1>4, <1>5 DEF OnceInv, Once

TaskInv == CountInv /\ OnceInv

LEMMA TasksInit == Init => TaskInv
<1> SUFFICES ASSUME Init PROVE TaskInv
  OBVIOUS
<1>1. PICK mix \in Mixes :
        /\ calls = [c \in Calls |->
             [at |-> IF c \in mix.calls THEN 1 ELSE Unused, old |-> "pending"]]
        /\ workers = [w \in Workers |->
             [IdleWorker EXCEPT !.pc = IF w \in mix.ticks THEN @ ELSE "unused"]]
  BY DEF Init
<1>2. /\ db = EmptyTables /\ undo = EmptyTables /\ stray = FALSE
      /\ sends = [t \in Enqueuers |-> 0] /\ failures = [t \in Enqueuers |-> 0]
  BY DEF Init
<1>3. /\ \A w \in Workers : /\ workers[w].pc \in {"select", "unused"}
                            /\ workers[w].batch = {} /\ workers[w].queue = "fts"
      /\ \A c \in Calls : calls[c].at # Undoing
  BY <1>1 DEF IdleWorker, Undoing, Unused
<1>4. \A t \in Enqueuers : EmptyTables.task[t] = [status |-> "none", attempts |-> 0]
  BY DEF EmptyTables
<1>5. CountInv
  <2>1. Counted(EmptyTables, failures, sends)
    BY <1>2, <1>4 DEF Counted
  <2>2. \A w \in Workers : WorkerCounts(workers[w], failures, sends)
    BY <1>3 DEF WorkerCounts, Busy
  <2> QED BY <1>2, <2>1, <2>2 DEF CountInv
<1>6. OnceInv
  <2>1. Quiet
    BY <1>2, <1>3 DEF Quiet
  <2>2. Alone /\ Batched
    BY <1>3 DEF Alone, Batched, AtNotifications
  <2>3. \A t \in Enqueuers : sends[t] = 0 /\ Settled(t) /\ Unmade(t)
    BY <1>2, <1>4 DEF Settled, Unmade
  <2> QED BY <2>1, <2>2, <2>3 DEF OnceInv, Notifications
<1> QED BY <1>5, <1>6 DEF TaskInv

LEMMA TasksStutter ==
  ASSUME TaskInv, UNCHANGED vars
  PROVE  TaskInv'
<1>1. UNCHANGED <<db, undo, tx, calls, workers, stray>>
      /\ UNCHANGED <<sends, failures, overlapped, fails, crashes>>
  BY DEF vars
<1>2. CountInv'
  BY <1>1 DEF TaskInv, CountInv
<1>3. \A w \in Workers : (AtNotifications(w)' <=> AtNotifications(w)) /\ (ToSend(w)' <=> ToSend(w))
  BY <1>1 DEF AtNotifications, ToSend, Unsent
<1>4. Alone' = Alone /\ Batched' = Batched /\ Quiet' = Quiet
  BY <1>1, <1>3 DEF Alone, Batched, Quiet
<1>5. \A t \in Enqueuers : (Settled(t)' <=> Settled(t)) /\ (Unmade(t)' <=> Unmade(t))
  BY <1>1 DEF Settled, Unmade, Carried
<1>6. OnceInv'
  BY <1>1, <1>4, <1>5 DEF TaskInv, OnceInv, Notifications
<1> QED BY <1>2, <1>6 DEF TaskInv

(* A task given up has failed as often as it may, a notification recorded  *)
(* as sent was sent, and unless something failed, the process died or two  *)
(* ticks were at the queue at once it was sent once: a tick finds a sent   *)
(* one open only while the worker that sent it is about to mark it.        *)
THEOREM TasksAreCountedAlways == Spec => []TasksAreCounted
<1>1. Inv /\ TaskInv => TasksAreCounted
  <2> SUFFICES ASSUME Inv, TaskInv PROVE TasksAreCounted
    OBVIOUS
  <2>1. Counted(Committed, failures, sends)
    BY DEF TaskInv, CountInv, Committed
  <2>2. /\ Committed \in Tables /\ failures \in [Enqueuers -> Nat] /\ sends \in [Enqueuers -> Nat]
        /\ fails \in Nat /\ crashes \in Nat
    BY DEF Inv, TypeInv, ConnectionType, CountType, Committed
  <2>3. DeadIsExhausted
    <3>1. \A t \in Enqueuers : Committed.task[t].attempts \in Nat /\ failures[t] \in Nat
      BY <2>2 DEF Tables, Tasks
    <3> QED BY <2>1, <3>1, CommunityAssumptions DEF Counted, DeadIsExhausted
  <2>4. ASSUME NEW t \in Enqueuers, sends[t] > 1, ~overlapped, fails = 0, crashes = 0 PROVE FALSE
    <3>1. t \in Notifications
      BY <2>4 DEF TaskInv, OnceInv
    <3>2. sends[t] \in Nat
      BY <2>2
    <3> QED BY <2>4, <3>1, <3>2 DEF TaskInv, OnceInv, Settled
  <2>5. SentOnce
    BY <2>1, <2>2, <2>4 DEF Counted, SentOnce
  <2> QED BY <2>3, <2>5 DEF TasksAreCounted
<1>2. ASSUME Inv, TaskInv, [Next]_vars PROVE TaskInv'
  BY <1>2, CountStep, OnceStep, TasksStutter DEF Inv, TaskInv
<1> QED BY <1>1, <1>2, InvInit, InvNext, TasksInit, PTL DEF Spec
=============================================================================
