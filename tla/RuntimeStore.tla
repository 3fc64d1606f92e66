----------------------------- MODULE RuntimeStore -----------------------------
(***************************************************************************)
(* The runtime store (runtime-store.ts, db-store.ts): one JSON document in *)
(* a row of SQLite, a cache that ages after 500 ms, a mutex around every   *)
(* update and none around reads, and a connection shared with the          *)
(* transactions of comments, reports, suggestions and the queues.          *)
(*                                                                         *)
(* The document is the set of updates it contains; an updater is one call  *)
(* of updateRuntimeDatabase and adds itself.  A statement runs on one of   *)
(* the driver's threads and its result reaches the event loop later.       *)
(* Between two steps of one caller any other may run.                      *)
(***************************************************************************)
EXTENDS Naturals, Sequences

CONSTANTS
  Updaters,       \* calls of updateRuntimeDatabase
  Readers,        \* calls of readRuntimeDatabase outside of it
  InPlace,        \* updaters that change arrays the cache shares with them
  Transactions,   \* other users of the connection, BEGIN to COMMIT or ROLLBACK
  Initial,        \* the stored document at first: {}, or NoDoc before first boot
  NoDoc,          \* no row, or no cache
  NoTx,
  Overtaking,     \* whether a result may arrive before that of an earlier
                  \* statement: it does if the driver has several threads
  MaxCrashes      \* bound on the crashes of a behaviour

Docs == SUBSET Updaters

ASSUME RuntimeStoreAssumptions ==
  /\ Updaters \cap Readers = {}
  /\ InPlace \subseteq Updaters
  /\ \A d \in Docs : d # NoDoc
  /\ Initial \in {NoDoc, {}}
  /\ NoTx \notin Transactions
  /\ Overtaking \in BOOLEAN
  /\ MaxCrashes \in Nat

Callers == Updaters \cup Readers

VARIABLES
  committed,   \* the row as it is on disk
  view,        \* the row as the connection sees it
  tx,          \* the transaction open on the connection
  cache,       \* SafeJsonStore.cache
  fresh,       \* Date.now() - cacheTime < cacheTtlMs
  results,     \* statements that ran, their results not delivered yet
  queue,       \* the mutex: its holder and those that wait for it, in order
  callers,     \* caller -> the local state of its call
  txs,         \* transaction -> idle, open, closed, refused, lost
  crashes

vars == <<committed, view, tx, cache, fresh, results, queue, callers, txs, crashes>>

(* pc: idle, waiting (for the mutex), reading, booting, writing (statement *)
(* issued), fetched, booted, written (it ran), mutating, done, failed,     *)
(* lost (with the process).  work is the document the call holds, shares   *)
(* whether a change of it shows in the cache; known, auxiliary, is what    *)
(* was acknowledged when the call began to read.                           *)
Caller ==
  [pc : {"idle", "waiting", "reading", "fetched", "booting", "booted",
         "mutating", "writing", "written", "done", "failed", "lost"},
   work : Docs, shares : BOOLEAN, known : Docs]

Result == [who : Callers, ok : BOOLEAN, doc : {NoDoc} \cup Docs]

Init ==
  /\ committed = Initial /\ view = Initial /\ tx = NoTx
  /\ cache = NoDoc /\ fresh = FALSE
  /\ results = <<>> /\ queue = <<>>
  /\ callers = [c \in Callers |->
       [pc |-> "idle", work |-> {}, shares |-> FALSE, known |-> {}]]
  /\ txs = [t \in Transactions |-> "idle"]
  /\ crashes = 0

At(c, pc) == callers[c].pc = pc

Acked == {u \in Updaters : At(u, "done")}

database == <<committed, view, tx>>

Moves(c, pc) == callers' = [callers EXCEPT ![c].pc = pc]

(* Mutant of Fails: the release is not in a finally.                       *)
FailsUnreleased(c) == Moves(c, "failed") /\ UNCHANGED queue

(* The call throws; the finally of updateRuntimeDatabase releases.         *)
Fails(c) ==
  /\ Moves(c, "failed")
  /\ queue' = IF c \in Updaters THEN Tail(queue) ELSE queue

(* c has its document: an updater changes it next, a reader is done.       *)
Holding(c, doc, shares) ==
  [callers[c] EXCEPT !.pc = IF c \in Updaters THEN "mutating" ELSE "done",
                     !.work = doc, !.shares = shares]

(* The cache becomes another object: no other call shares it any longer.   *)
Refill(c, doc, after) ==
  /\ cache' = doc /\ fresh' = TRUE
  /\ callers' = [d \in Callers |-> IF d = c THEN after
                                   ELSE [callers[d] EXCEPT !.shares = FALSE]]

-----------------------------------------------------------------------------
(* updateRuntimeDatabase takes its place in the mutex.                     *)
RequestUpdate(u) ==
  /\ At(u, "idle")
  /\ queue' = Append(queue, u)
  /\ Moves(u, "waiting")
  /\ UNCHANGED <<database, cache, fresh, results, txs, crashes>>

(* Mutant of MayRead: an update does not wait for its turn.                *)
MayReadAtOnce(c) == At(c, IF c \in Updaters THEN "waiting" ELSE "idle")

MayRead(c) ==
  IF c \in Updaters THEN At(c, "waiting") /\ Head(queue) = c ELSE At(c, "idle")

CacheHit == cache # NoDoc /\ fresh

(* normalizeRuntimeDatabase copies some arrays and shares the others.      *)
ReadCache(c) ==
  /\ MayRead(c) /\ CacheHit
  /\ callers' = [callers EXCEPT ![c] =
       [Holding(c, cache, c \in InPlace) EXCEPT !.known = Acked]]
  /\ UNCHANGED <<database, cache, fresh, results, queue, txs, crashes>>

ReadDatabase(c) ==
  /\ MayRead(c) /\ ~CacheHit
  /\ callers' = [callers EXCEPT ![c].pc = "reading", ![c].known = Acked]
  /\ UNCHANGED <<database, cache, fresh, results, queue, txs, crashes>>

Age == fresh /\ fresh' = FALSE
       /\ UNCHANGED <<database, cache, results, queue, callers, txs, crashes>>

(* The SELECT runs, or fails.                                              *)
RunGet(c, ok) ==
  /\ At(c, "reading")
  /\ results' = Append(results, [who |-> c, ok |-> ok, doc |-> view])
  /\ Moves(c, "fetched")
  /\ UNCHANGED <<database, cache, fresh, queue, txs, crashes>>

Pending == {results[i] : i \in DOMAIN results}

Without(s, i) == [k \in 1..Len(s) - 1 |-> IF k < i THEN s[k] ELSE s[k + 1]]

(* The result r of c arrives.                                              *)
Arrives(c, r) ==
  \E i \in DOMAIN results :
    /\ results[i] = r /\ r.who = c /\ (i = 1 \/ Overtaking)
    /\ results' = Without(results, i)
    /\ UNCHANGED <<database, txs, crashes>>

GetArrives(c) ==
  \E r \in Pending :
    /\ At(c, "fetched") /\ r.ok /\ r.doc # NoDoc
    /\ Arrives(c, r)
    /\ Refill(c, r.doc, Holding(c, r.doc, c \in InPlace))
    /\ UNCHANGED queue

(* There is no row: the caller, under the mutex or not, stores an empty    *)
(* document.                                                               *)
FirstBoot(c) ==
  \E r \in Pending :
    /\ At(c, "fetched") /\ r.ok /\ r.doc = NoDoc
    /\ Arrives(c, r)
    /\ callers' = [callers EXCEPT ![c].pc = "booting", ![c].work = {}]
    /\ UNCHANGED <<cache, fresh, queue>>

StatementFails(c) ==
  \E r \in Pending :
    /\ callers[c].pc \in {"fetched", "booted", "written"} /\ ~r.ok
    /\ Arrives(c, r)
    /\ Fails(c)
    /\ UNCHANGED <<cache, fresh>>

(* mutate changes the document; what it changes in place shows in the      *)
(* cache before it is stored.                                              *)
Shown(u) == IF callers[u].shares THEN cache \cup {u} ELSE cache

Mutate(u) ==
  /\ At(u, "mutating")
  /\ callers' = [callers EXCEPT ![u].pc = "writing", ![u].work = @ \cup {u}]
  /\ cache' = Shown(u)
  /\ UNCHANGED <<database, fresh, results, queue, txs, crashes>>

(* mutate throws, before its change or after it.                           *)
MutateThrows(u) ==
  /\ At(u, "mutating")
  /\ Fails(u)
  /\ cache' \in {cache, Shown(u)}
  /\ UNCHANGED <<database, fresh, results, txs, crashes>>

Issued(c) == callers[c].pc \in {"booting", "writing"}

AfterRun(c) == IF At(c, "booting") THEN "booted" ELSE "written"

(* INSERT OR REPLACE runs: within the open transaction if there is one.    *)
RunWrite(c) ==
  /\ Issued(c)
  /\ view' = callers[c].work
  /\ committed' = IF tx = NoTx THEN view' ELSE committed
  /\ results' = Append(results, [who |-> c, ok |-> TRUE, doc |-> callers[c].work])
  /\ Moves(c, AfterRun(c))
  /\ UNCHANGED <<tx, cache, fresh, queue, txs, crashes>>

RunWriteFails(c) ==
  /\ Issued(c)
  /\ results' = Append(results, [who |-> c, ok |-> FALSE, doc |-> callers[c].work])
  /\ Moves(c, AfterRun(c))
  /\ UNCHANGED <<database, cache, fresh, queue, txs, crashes>>

(* The written object is the cache from now on, and after a first boot the *)
(* one that mutate gets.                                                   *)
BootArrives(c) ==
  \E r \in Pending :
    /\ At(c, "booted") /\ r.ok
    /\ Arrives(c, r)
    /\ Refill(c, r.doc, Holding(c, r.doc, TRUE))
    /\ UNCHANGED queue

(* Mutant of UpdateArrives: the cache is left as it was.                   *)
UpdateArrivesUncached(u) ==
  \E r \in Pending :
    /\ At(u, "written") /\ r.ok
    /\ Arrives(u, r)
    /\ Moves(u, "done")
    /\ queue' = Tail(queue)
    /\ UNCHANGED <<cache, fresh>>

UpdateArrives(u) ==
  \E r \in Pending :
    /\ At(u, "written") /\ r.ok
    /\ Arrives(u, r)
    /\ Refill(u, r.doc, [callers[u] EXCEPT !.pc = "done"])
    /\ queue' = Tail(queue)

(* Outside production the legacy JSON file is written as well, and if that *)
(* fails the write throws although the row is stored and cached.           *)
LegacyFileFails(c) ==
  \E r \in Pending :
    /\ callers[c].pc \in {"booted", "written"} /\ r.ok
    /\ Arrives(c, r)
    /\ Refill(c, r.doc, [callers[c] EXCEPT !.pc = "failed"])
    /\ queue' = IF c \in Updaters THEN Tail(queue) ELSE queue

-----------------------------------------------------------------------------
(* Transactions of others on the same connection.  BEGIN within an open    *)
(* one throws, and it stands before the try.                               *)
Begin(t) ==
  /\ txs[t] = "idle"
  /\ IF tx = NoTx THEN tx' = t /\ txs' = [txs EXCEPT ![t] = "open"]
                  ELSE tx' = tx /\ txs' = [txs EXCEPT ![t] = "refused"]
  /\ UNCHANGED <<committed, view, cache, fresh, results, queue, callers, crashes>>

Ends(t) ==
  /\ txs[t] = "open"
  /\ txs' = [txs EXCEPT ![t] = "closed"] /\ tx' = NoTx
  /\ UNCHANGED <<cache, fresh, results, queue, callers, crashes>>

Commit(t) == Ends(t) /\ committed' = view /\ UNCHANGED view
Rollback(t) == Ends(t) /\ view' = committed /\ UNCHANGED committed

Over == {"idle", "done", "failed", "closed", "refused"}

(* The process dies and starts again; SQLite drops the open transaction.   *)
Crash ==
  /\ crashes < MaxCrashes /\ crashes' = crashes + 1
  /\ view' = committed /\ tx' = NoTx /\ UNCHANGED committed
  /\ cache' = NoDoc /\ fresh' = FALSE /\ results' = <<>> /\ queue' = <<>>
  /\ callers' = [c \in Callers |-> IF callers[c].pc \in Over THEN callers[c]
                                   ELSE [callers[c] EXCEPT !.pc = "lost"]]
  /\ txs' = [t \in Transactions |-> IF txs[t] \in Over THEN txs[t] ELSE "lost"]

-----------------------------------------------------------------------------
Progress(c) ==
  \/ ReadCache(c) \/ ReadDatabase(c)
  \/ \E ok \in BOOLEAN : RunGet(c, ok)
  \/ GetArrives(c) \/ FirstBoot(c) \/ StatementFails(c)
  \/ RunWrite(c) \/ RunWriteFails(c) \/ BootArrives(c) \/ LegacyFileFails(c)

UpdateProgress(u) == Mutate(u) \/ MutateThrows(u) \/ UpdateArrives(u)

Next ==
  \/ \E u \in Updaters : RequestUpdate(u) \/ UpdateProgress(u)
  \/ \E c \in Callers : Progress(c)
  \/ \E t \in Transactions : Begin(t) \/ Commit(t) \/ Rollback(t)
  \/ Age \/ Crash

Spec == Init /\ [][Next]_vars

(* The event loop runs what is ready and every statement ends.             *)
FairSpec ==
  /\ Spec
  /\ \A u \in Updaters : WF_vars(Progress(u) \/ UpdateProgress(u))
  /\ \A c \in Readers : WF_vars(~At(c, "idle") /\ Progress(c))

-----------------------------------------------------------------------------
(* Every variable has its type, and an update that is past the mutex holds *)
(* it alone.                                                               *)
PastMutex == {"reading", "fetched", "booting", "booted", "mutating", "writing", "written"}

TypeOK ==
  /\ committed \in {NoDoc} \cup Docs /\ view \in {NoDoc} \cup Docs
  /\ tx \in Transactions \cup {NoTx}
  /\ cache \in {NoDoc} \cup Docs /\ fresh \in BOOLEAN
  /\ results \in Seq(Result) /\ queue \in Seq(Updaters)
  /\ callers \in [Callers -> Caller]
  /\ txs \in [Transactions -> {"idle", "open", "closed", "refused", "lost"}]
  /\ crashes \in 0..MaxCrashes
  /\ \A u \in Updaters :
       callers[u].pc \in PastMutex => queue # <<>> /\ Head(queue) = u

(* What the next read answers with. *)
NextRead == IF CacheHit THEN cache ELSE view

(* No acknowledged update is lost: the next read finds it, whatever failed,*)
(* expired, overlapped or crashed (concurrency-mutex.test.ts: "All 5       *)
(* concurrent updates must succeed without any loss").                     *)
AckedStays ==
  Acked # {} => NextRead # NoDoc /\ Acked \subseteq NextRead

(* A read answers with every update acknowledged before it began, be it    *)
(* from the cache or from the row (db-store.ts read).                      *)
ReadsSeeAcked ==
  \A c \in Readers : At(c, "done") => callers[c].known \subseteq callers[c].work

(* What was acknowledged is seen, by a read under way and by the next one. *)
AckedIsSeen == AckedStays /\ ReadsSeeAcked

StaysOrUndone ==
  \A u \in Acked : view # NoDoc /\ u \in view =>
    \/ Crash \/ \E t \in Transactions : Rollback(t)
    \/ view' # NoDoc /\ u \in view'

(* With other transactions about, an acknowledged update leaves the row    *)
(* only by their ROLLBACK or by a crash while one is open; what the cache  *)
(* kept over a ROLLBACK, or a first boot under the mutex, undoes none.     *)
OnlyUndone == [][StaysOrUndone]_vars

(* Every update that waits for the mutex ends, whatever fails on the way:  *)
(* whoever holds it gives it back (finally of updateRuntimeDatabase).      *)
UpdatesEnd ==
  \A u \in Updaters : At(u, "waiting") ~> callers[u].pc \in {"done", "failed", "lost"}

(* Without other transactions, with a row, and with results that arrive in *)
(* order, the store keeps what AtomicDocument promises: this is what the   *)
(* plan store builds on.                                                   *)
Document == INSTANCE AtomicDocument WITH
  Updates <- Updaters, acked <- Acked,
  document <- IF committed = NoDoc THEN {} ELSE committed,
  started <- {u \in Updaters : ~At(u, "idle")}

IsAtomic == Document!Spec
===============================================================================
