------------------------- MODULE RuntimeStoreTheorems -------------------------
(***************************************************************************)
(* Theorems about RuntimeStore, for every set of updaters, readers and     *)
(* transactions and every bound on crashes.                                *)
(***************************************************************************)
EXTENDS RuntimeStore, TLAPS

-----------------------------------------------------------------------------
(* Sequences: what Append and Tail do to the entries.                      *)

LEMMA Appended ==
  ASSUME NEW S, NEW s \in Seq(S), NEW e \in S
  PROVE  /\ Append(s, e) \in Seq(S) /\ Append(s, e) # <<>>
         /\ DOMAIN s = 1..Len(s) /\ Len(s) \in Nat
         /\ DOMAIN Append(s, e) = 1..Len(s) + 1
         /\ \A i \in 1..Len(s) : Append(s, e)[i] = s[i]
         /\ Append(s, e)[Len(s) + 1] = e
         /\ s # <<>> => Head(Append(s, e)) = Head(s)
<1>1. Append(s, e) \in Seq(S) /\ Len(Append(s, e)) = Len(s) + 1 /\ Len(s) \in Nat
  OBVIOUS
<1>2. \A i \in 1..Len(s) + 1 : Append(s, e)[i] = IF i <= Len(s) THEN s[i] ELSE e
  OBVIOUS
<1>3. DOMAIN s = 1..Len(s) /\ DOMAIN Append(s, e) = 1..Len(s) + 1
  OBVIOUS
<1>4. Append(s, e) # <<>>
  BY <1>1
<1>5. ASSUME s # <<>> PROVE Head(Append(s, e)) = Head(s)
  <2>1. Len(s) >= 1 /\ Head(s) = s[1]
    BY <1>5
  <2>2. Head(Append(s, e)) = Append(s, e)[1]
    BY <1>1, <1>4
  <2> QED BY <2>1, <2>2, <1>1, <1>2
<1> QED BY <1>1, <1>2, <1>3, <1>4, <1>5

LEMMA Removed ==
  ASSUME NEW S, NEW s \in Seq(S), s # <<>>
  PROVE  /\ Tail(s) \in Seq(S)
         /\ DOMAIN s = 1..Len(s) /\ Len(s) \in Nat \ {0}
         /\ DOMAIN Tail(s) = 1..Len(s) - 1
         /\ \A i \in 1..Len(s) - 1 : Tail(s)[i] = s[i + 1]
         /\ Head(s) = s[1]
OBVIOUS

LEMMA LeftOut ==
  ASSUME NEW S, NEW s \in Seq(S), NEW i \in DOMAIN s
  PROVE  /\ Without(s, i) \in Seq(S)
         /\ DOMAIN s = 1..Len(s) /\ Len(s) \in Nat \ {0}
         /\ DOMAIN Without(s, i) = 1..Len(s) - 1
         /\ \A k \in 1..Len(s) - 1 :
              Without(s, i)[k] = IF k < i THEN s[k] ELSE s[k + 1]
<1>1. DOMAIN s = 1..Len(s) /\ Len(s) \in Nat \ {0}
  OBVIOUS
<1>2. PICK n \in Nat : n = Len(s) - 1
  <2>1. Len(s) - 1 \in Nat
    BY <1>1
  <2> QED BY <2>1
<1>3. \A k \in 1..n : k \in DOMAIN s /\ k + 1 \in DOMAIN s
  BY <1>1, <1>2
<1>4. \A k \in 1..n : (IF k < i THEN s[k] ELSE s[k + 1]) \in S
  BY <1>1, <1>3
<1>5. Without(s, i) = [k \in 1..n |-> IF k < i THEN s[k] ELSE s[k + 1]]
  BY <1>2 DEF Without
<1>6. [k \in 1..n |-> IF k < i THEN s[k] ELSE s[k + 1]] \in Seq(S)
  BY <1>4
<1> QED BY <1>1, <1>2, <1>5, <1>6

-----------------------------------------------------------------------------
(* The invariant behind the types: the places of the callers agree with    *)
(* the mutex and with the results under way.                               *)

ResultPcs == {"fetched", "booted", "written"}
WrittenPcs == {"booted", "written"}

QueueHasWaiting ==
  \A u \in Updaters : At(u, "waiting") => \E i \in DOMAIN queue : queue[i] = u

ResultsMatch ==
  /\ \A i \in DOMAIN results :
       /\ callers[results[i].who].pc \in ResultPcs
       /\ callers[results[i].who].pc \in WrittenPcs =>
            results[i].doc = callers[results[i].who].work
  /\ \A i, j \in DOMAIN results : results[i].who = results[j].who => i = j

ReadersOnlyRead ==
  \A c \in Readers : callers[c].pc \notin {"waiting", "mutating", "writing", "written"}

SharersHaveCache ==
  \A c \in Callers : callers[c].shares /\ At(c, "mutating") => cache # NoDoc

TInv == TypeOK /\ QueueHasWaiting /\ ResultsMatch /\ ReadersOnlyRead /\ SharersHaveCache

(* What a step of caller c does to the callers: it leaves a place in       *)
(* "from", is at "to" then, and the others at most stop to share.          *)
StepOf(c, from, to) ==
  /\ callers' \in [Callers -> Caller]
  /\ callers[c].pc \in from /\ callers'[c].pc = to
  /\ \A d \in Callers \ {c} :
       /\ callers'[d].pc = callers[d].pc /\ callers'[d].work = callers[d].work
       /\ callers'[d].known = callers[d].known
       /\ callers'[d].shares => callers[d].shares

LEMMA Replaced ==
  ASSUME callers \in [Callers -> Caller], NEW c \in Callers, NEW r \in Caller,
         NEW from, callers[c].pc \in from,
         \/ callers' = [callers EXCEPT ![c] = r]
         \/ callers' = [d \in Callers |-> IF d = c THEN r
                          ELSE [callers[d] EXCEPT !.shares = FALSE]]
  PROVE  StepOf(c, from, r.pc) /\ callers'[c] = r
<1>1. CASE callers' = [callers EXCEPT ![c] = r]
  BY <1>1 DEF StepOf
<1>2. CASE callers' = [d \in Callers |-> IF d = c THEN r
                          ELSE [callers[d] EXCEPT !.shares = FALSE]]
  <2>1. ASSUME NEW d \in Callers
        PROVE  LET e == [callers[d] EXCEPT !.shares = FALSE]
               IN  /\ e \in Caller /\ e.shares = FALSE
                   /\ e.pc = callers[d].pc /\ e.work = callers[d].work
                   /\ e.known = callers[d].known
    <3>1. callers[d] \in Caller
      OBVIOUS
    <3> QED BY <3>1 DEF Caller
  <2>2. callers' \in [Callers -> Caller] /\ callers'[c] = r
    BY <1>2, <2>1
  <2>3. \A d \in Callers \ {c} : callers'[d] = [callers[d] EXCEPT !.shares = FALSE]
    BY <1>2
  <2> QED BY <2>1, <2>2, <2>3 DEF StepOf
<1> QED BY <1>1, <1>2

LEMMA Moved ==
  ASSUME callers \in [Callers -> Caller], NEW c \in Callers, NEW from,
         NEW to \in {"idle", "waiting", "reading", "fetched", "booting", "booted",
                     "mutating", "writing", "written", "done", "failed", "lost"},
         callers[c].pc \in from, Moves(c, to)
  PROVE  /\ StepOf(c, from, to)
         /\ callers'[c].work = callers[c].work /\ callers'[c].known = callers[c].known
<1>1. [callers[c] EXCEPT !.pc = to] \in Caller
  BY DEF Caller
<1>2. callers' = [callers EXCEPT ![c] = [callers[c] EXCEPT !.pc = to]]
  BY DEF Moves
<1>3. /\ StepOf(c, from, [callers[c] EXCEPT !.pc = to].pc)
      /\ callers'[c] = [callers[c] EXCEPT !.pc = to]
  BY <1>1, <1>2, Replaced
<1>4. callers[c] \in Caller
  OBVIOUS
<1> QED BY <1>3, <1>4 DEF Caller

-----------------------------------------------------------------------------
(* The results: kept, joined by that of a statement that ran, or left by   *)
(* one that arrived.                                                       *)

LEMMA ResultsKept ==
  ASSUME TInv, NEW c \in Callers, NEW from, NEW to,
         StepOf(c, from, to), from \cap ResultPcs = {}, results' = results
  PROVE  ResultsMatch'
<1> USE DEF TInv, TypeOK
<1>1. \A i \in DOMAIN results : results[i] \in Result /\ results[i].who \in Callers \ {c}
  <2> TAKE i \in DOMAIN results
  <2>1. results[i] \in Result /\ callers[results[i].who].pc \in ResultPcs
    BY DEF ResultsMatch
  <2> QED BY <2>1 DEF StepOf, Result
<1> QED BY <1>1 DEF ResultsMatch, StepOf

LEMMA ResultsQueued ==
  ASSUME TInv, NEW c \in Callers, NEW from, NEW to, NEW r \in Result,
         StepOf(c, from, to), from \cap ResultPcs = {}, to \in ResultPcs,
         results' = Append(results, r), r.who = c,
         to \in WrittenPcs => r.doc = callers'[c].work
  PROVE  ResultsMatch' /\ results' \in Seq(Result)
<1> USE DEF TInv, TypeOK
<1> DEFINE n == Len(results) + 1
<1>1. /\ results' \in Seq(Result) /\ DOMAIN results = 1..Len(results)
      /\ Len(results) \in Nat /\ DOMAIN results' = 1..n
      /\ \A i \in 1..Len(results) : results'[i] = results[i]
      /\ results'[n] = r
  BY Appended
<1>2. \A i \in 1..Len(results) : results[i] \in Result /\ results[i].who \in Callers \ {c}
  <2> TAKE i \in 1..Len(results)
  <2>1. results[i] \in Result /\ callers[results[i].who].pc \in ResultPcs
    BY <1>1 DEF ResultsMatch
  <2> QED BY <2>1 DEF StepOf, Result
<1>3. ASSUME NEW i \in 1..n
      PROVE  /\ callers'[results'[i].who].pc \in ResultPcs
             /\ callers'[results'[i].who].pc \in WrittenPcs =>
                  results'[i].doc = callers'[results'[i].who].work
  <2>1. CASE i = n
    BY <2>1, <1>1 DEF StepOf
  <2>2. CASE i # n
    <3>1. i \in 1..Len(results)
      BY <2>2, <1>1
    <3> QED BY <3>1, <1>1, <1>2 DEF StepOf, ResultsMatch
  <2> QED BY <2>1, <2>2
<1>4. ASSUME NEW i \in 1..n, NEW j \in 1..n, results'[i].who = results'[j].who
      PROVE  i = j
  <2>1. i = n \/ i \in 1..Len(results)
    BY <1>1
  <2>2. j = n \/ j \in 1..Len(results)
    BY <1>1
  <2> QED BY <2>1, <2>2, <1>1, <1>2, <1>4 DEF ResultsMatch
<1> QED BY <1>1, <1>3, <1>4 DEF ResultsMatch

LEMMA ResultsTaken ==
  ASSUME TInv, NEW c \in Callers, NEW from, NEW to, NEW n \in DOMAIN results,
         StepOf(c, from, to), results[n].who = c, results' = Without(results, n)
  PROVE  ResultsMatch' /\ results' \in Seq(Result)
<1> USE DEF TInv, TypeOK
<1> DEFINE old(k) == IF k < n THEN k ELSE k + 1
<1>1. /\ results' \in Seq(Result) /\ DOMAIN results = 1..Len(results)
      /\ Len(results) \in Nat \ {0} /\ DOMAIN results' = 1..Len(results) - 1
      /\ \A k \in 1..Len(results) - 1 : results'[k] = results[old(k)]
  BY LeftOut
<1>2. \A k \in 1..Len(results) - 1 : old(k) \in DOMAIN results /\ old(k) # n
  BY <1>1
<1>3. \A k, l \in 1..Len(results) - 1 : old(k) = old(l) => k = l
  BY <1>1
<1> HIDE DEF old
<1>4. \A k \in 1..Len(results) - 1 :
         results[old(k)] \in Result /\ results[old(k)].who \in Callers \ {c}
  <2> TAKE k \in 1..Len(results) - 1
  <2>1. results[old(k)] \in Result /\ results[old(k)].who # c
    BY <1>2 DEF ResultsMatch
  <2> QED BY <2>1 DEF Result
<1>5. ASSUME NEW k \in 1..Len(results) - 1
      PROVE  /\ callers'[results'[k].who].pc \in ResultPcs
             /\ callers'[results'[k].who].pc \in WrittenPcs =>
                  results'[k].doc = callers'[results'[k].who].work
  <2>1. /\ old(k) \in DOMAIN results /\ results'[k] = results[old(k)]
        /\ results[old(k)].who \in Callers \ {c}
    BY <1>1, <1>2, <1>4
  <2> QED BY <2>1 DEF StepOf, ResultsMatch
<1>6. ASSUME NEW k \in 1..Len(results) - 1, NEW l \in 1..Len(results) - 1,
             results'[k].who = results'[l].who
      PROVE  k = l
  <2>1. old(k) = old(l)
    BY <1>1, <1>2, <1>6 DEF ResultsMatch
  <2> QED BY <2>1, <1>3
<1> QED BY <1>1, <1>5, <1>6 DEF ResultsMatch

-----------------------------------------------------------------------------
(* The mutex: kept, joined or released.                                    *)

Holds(q, f) ==
  /\ \A u \in Updaters : f[u].pc \in PastMutex => q # <<>> /\ Head(q) = u
  /\ \A u \in Updaters : f[u].pc = "waiting" => \E i \in DOMAIN q : q[i] = u

LEMMA MutexKept ==
  ASSUME TInv, NEW c \in Callers, NEW from, NEW to, StepOf(c, from, to),
         queue' = queue, to # "waiting",
         c \in Updaters /\ to \in PastMutex =>
           callers[c].pc \in PastMutex \/ (queue # <<>> /\ Head(queue) = c)
  PROVE  Holds(queue', callers')
<1> USE DEF TInv, TypeOK, Callers
<1>1. ASSUME NEW u \in Updaters, callers'[u].pc \in PastMutex
      PROVE  queue' # <<>> /\ Head(queue') = u
  BY <1>1 DEF StepOf
<1>2. ASSUME NEW u \in Updaters, callers'[u].pc = "waiting"
      PROVE  \E i \in DOMAIN queue' : queue'[i] = u
  BY <1>2 DEF StepOf, QueueHasWaiting, At
<1> QED BY <1>1, <1>2 DEF Holds

LEMMA MutexJoined ==
  ASSUME TInv, NEW c \in Updaters, NEW from, StepOf(c, from, "waiting"),
         queue' = Append(queue, c)
  PROVE  Holds(queue', callers') /\ queue' \in Seq(Updaters)
<1> USE DEF TInv, TypeOK, Callers
<1>1. /\ queue' \in Seq(Updaters) /\ queue' # <<>> /\ DOMAIN queue = 1..Len(queue)
      /\ Len(queue) \in Nat /\ DOMAIN queue' = 1..Len(queue) + 1
      /\ \A i \in 1..Len(queue) : queue'[i] = queue[i]
      /\ queue'[Len(queue) + 1] = c
      /\ queue # <<>> => Head(queue') = Head(queue)
  BY Appended
<1>2. ASSUME NEW u \in Updaters, callers'[u].pc \in PastMutex
      PROVE  queue' # <<>> /\ Head(queue') = u
  <2>1. u # c
    BY <1>2 DEF StepOf, PastMutex
  <2>2. callers[u].pc \in PastMutex
    BY <2>1, <1>2 DEF StepOf
  <2> QED BY <2>2, <1>1
<1>3. ASSUME NEW u \in Updaters, callers'[u].pc = "waiting"
      PROVE  \E i \in DOMAIN queue' : queue'[i] = u
  <2>1. CASE u = c
    <3>1. Len(queue) + 1 \in DOMAIN queue'
      BY <1>1
    <3> QED BY <3>1, <2>1, <1>1
  <2>2. CASE u # c
    <3>1. callers[u].pc = "waiting"
      BY <2>2, <1>3 DEF StepOf
    <3>2. PICK i \in DOMAIN queue : queue[i] = u
      BY <3>1 DEF QueueHasWaiting, At
    <3>3. i \in DOMAIN queue' /\ queue'[i] = u
      BY <3>2, <1>1
    <3> QED BY <3>3
  <2> QED BY <2>1, <2>2
<1> QED BY <1>1, <1>2, <1>3 DEF Holds

LEMMA MutexReleased ==
  ASSUME TInv, NEW c \in Updaters, NEW from, NEW to, StepOf(c, from, to),
         from \subseteq PastMutex, to \notin PastMutex, to # "waiting",
         queue' = Tail(queue)
  PROVE  Holds(queue', callers') /\ queue' \in Seq(Updaters)
<1> USE DEF TInv, TypeOK, Callers
<1>1. queue # <<>> /\ Head(queue) = c
  BY DEF StepOf
<1>2. /\ queue' \in Seq(Updaters) /\ DOMAIN queue = 1..Len(queue)
      /\ Len(queue) \in Nat \ {0} /\ DOMAIN queue' = 1..Len(queue) - 1
      /\ \A i \in 1..Len(queue) - 1 : queue'[i] = queue[i + 1]
      /\ queue[1] = c
  BY <1>1, Removed
<1>3. ASSUME NEW u \in Updaters, callers'[u].pc \in PastMutex
      PROVE  FALSE
  <2>1. u # c
    BY <1>3 DEF StepOf
  <2>2. callers[u].pc \in PastMutex
    BY <2>1, <1>3 DEF StepOf
  <2> QED BY <2>1, <2>2, <1>1
<1>4. ASSUME NEW u \in Updaters, callers'[u].pc = "waiting"
      PROVE  \E i \in DOMAIN queue' : queue'[i] = u
  <2>1. u # c
    BY <1>4 DEF StepOf
  <2>2. callers[u].pc = "waiting"
    BY <2>1, <1>4 DEF StepOf
  <2>3. PICK i \in DOMAIN queue : queue[i] = u
    BY <2>2 DEF QueueHasWaiting, At
  <2>4. i - 1 \in DOMAIN queue' /\ queue'[i - 1] = u
    BY <2>1, <2>3, <1>2
  <2> QED BY <2>4
<1> QED BY <1>2, <1>3, <1>4 DEF Holds

-----------------------------------------------------------------------------
(* The invariant holds after a step of one caller.                         *)

OthersTyped ==
  /\ committed \in {NoDoc} \cup Docs /\ view \in {NoDoc} \cup Docs
  /\ tx \in Transactions \cup {NoTx}
  /\ cache \in {NoDoc} \cup Docs /\ fresh \in BOOLEAN
  /\ txs \in [Transactions -> {"idle", "open", "closed", "refused", "lost"}]
  /\ crashes \in 0..MaxCrashes

UpdatersOnly == {"waiting", "mutating", "writing", "written"}

LEMMA Preserved ==
  ASSUME TInv, NEW c \in Callers, NEW from, NEW to, StepOf(c, from, to),
         ResultsMatch', results' \in Seq(Result),
         Holds(queue', callers'), queue' \in Seq(Updaters), OthersTyped',
         c \in Readers => to \notin UpdatersOnly,
         to = "mutating" /\ callers'[c].shares => cache' # NoDoc,
         cache # NoDoc => cache' # NoDoc
  PROVE  TInv'
<1>1. TypeOK'
  BY DEF StepOf, Holds, OthersTyped, TypeOK
<1>2. QueueHasWaiting'
  BY DEF Holds, QueueHasWaiting, At
<1>3. ReadersOnlyRead'
  BY DEF TInv, StepOf, ReadersOnlyRead, Callers, UpdatersOnly
<1>4. SharersHaveCache'
  BY DEF TInv, StepOf, SharersHaveCache, At
<1> QED BY <1>1, <1>2, <1>3, <1>4 DEF TInv

LEMMA Apart == Updaters \cap Readers = {} /\ Updaters \subseteq Callers
               /\ Readers \subseteq Callers /\ NoDoc \notin Docs
BY RuntimeStoreAssumptions DEF Callers

(* A result that arrives, and what it must be.                             *)
LEMMA Arrived ==
  ASSUME TInv, NEW c \in Callers, NEW r \in Pending, Arrives(c, r)
  PROVE  /\ r \in Result
         /\ \E n \in DOMAIN results :
              /\ r = results[n] /\ results[n].who = c /\ (n = 1 \/ Overtaking)
              /\ results' = Without(results, n)
         /\ callers[c].pc \in WrittenPcs => r.doc = callers[c].work /\ r.doc \in Docs
<1> USE DEF TInv, TypeOK
<1>1. PICK n \in DOMAIN results :
        /\ results[n] = r /\ r.who = c /\ (n = 1 \/ Overtaking)
        /\ results' = Without(results, n)
  BY DEF Arrives
<1>2. results[n] \in Result
  OBVIOUS
<1>3. callers[c].pc \in WrittenPcs => r.doc = callers[c].work
  BY <1>1 DEF ResultsMatch
<1>4. callers[c].work \in Docs
  BY DEF Caller
<1> QED BY <1>1, <1>2, <1>3, <1>4

(* The facts of each action, free of EXCEPT.                               *)
LEMMA HoldingFacts ==
  ASSUME TInv, NEW c \in Callers, NEW doc \in Docs, NEW r,
         r = Holding(c, doc, TRUE) \/ r = Holding(c, doc, FALSE)
  PROVE  /\ r \in Caller /\ r.work = doc /\ r.known = callers[c].known
         /\ r.pc = (IF c \in Updaters THEN "mutating" ELSE "done")
<1>1. callers[c] \in Caller
  BY DEF TInv, TypeOK
<1>2. ASSUME NEW shares \in BOOLEAN, r = Holding(c, doc, shares)
      PROVE  /\ r \in Caller /\ r.work = doc /\ r.known = callers[c].known
             /\ r.pc = (IF c \in Updaters THEN "mutating" ELSE "done")
  BY <1>1, <1>2 DEF Holding, Caller
<1> QED BY <1>2

LEMMA EitherShares ==
  ASSUME NEW c, NEW doc
  PROVE  \/ Holding(c, doc, c \in InPlace) = Holding(c, doc, TRUE)
         \/ Holding(c, doc, c \in InPlace) = Holding(c, doc, FALSE)
<1>1. (c \in InPlace) = TRUE \/ (c \in InPlace) = FALSE
  BY SMT
<1> QED BY <1>1

LEMMA ReadCacheFacts ==
  ASSUME TInv, NEW c \in Callers, ReadCache(c)
  PROVE  /\ StepOf(c, {"idle", "waiting"}, IF c \in Updaters THEN "mutating" ELSE "done")
         /\ callers'[c].work = cache /\ callers'[c].known = Acked
         /\ cache # NoDoc /\ fresh
<1>1. cache \in Docs /\ cache # NoDoc /\ fresh
  BY DEF TInv, TypeOK, ReadCache, CacheHit
<1>2. PICK doc \in Docs : doc = cache
  BY <1>1
<1>3. PICK e : e = Holding(c, doc, c \in InPlace)
  OBVIOUS
<1>4. e = Holding(c, doc, TRUE) \/ e = Holding(c, doc, FALSE)
  BY <1>3, EitherShares
<1>5. /\ e \in Caller /\ e.work = doc
      /\ e.pc = (IF c \in Updaters THEN "mutating" ELSE "done")
  <2> callers[c] \in Caller
    BY DEF TInv, TypeOK
  <2>1. CASE e = Holding(c, doc, TRUE)
    BY <2>1 DEF Holding, Caller
  <2>2. CASE e = Holding(c, doc, FALSE)
    BY <2>2 DEF Holding, Caller
  <2> QED BY <1>4, <2>1, <2>2
<1>6. Acked \in Docs
  BY DEF Acked, Docs
<1>7. PICK k : k = [e EXCEPT !.known = Acked]
  OBVIOUS
<1>8. k \in Caller /\ k.pc = e.pc /\ k.work = doc /\ k.known = Acked
  BY <1>5, <1>6, <1>7 DEF Caller
<1>9. callers' = [callers EXCEPT ![c] = k]
  BY <1>2, <1>3, <1>7 DEF ReadCache
<1>10. callers[c].pc \in {"idle", "waiting"}
  BY DEF ReadCache, MayRead, At
<1>11. StepOf(c, {"idle", "waiting"}, k.pc) /\ callers'[c] = k
  BY <1>8, <1>9, <1>10, Replaced DEF TInv, TypeOK
<1> QED BY <1>1, <1>2, <1>5, <1>8, <1>11

LEMMA ReadDatabaseFacts ==
  ASSUME TInv, NEW c \in Callers, ReadDatabase(c)
  PROVE  /\ StepOf(c, {"idle", "waiting"}, "reading")
         /\ callers'[c].work = callers[c].work /\ callers'[c].known = Acked
<1>1. callers[c] \in Caller /\ Acked \in Docs
  BY DEF TInv, TypeOK, Acked, Docs
<1>2. PICK e : e = [callers[c] EXCEPT !.pc = "reading", !.known = Acked]
  OBVIOUS
<1>3. e \in Caller /\ e.pc = "reading" /\ e.work = callers[c].work /\ e.known = Acked
  BY <1>1, <1>2 DEF Caller
<1>4. callers' = [callers EXCEPT ![c] = e]
  BY <1>2 DEF ReadDatabase
<1>5. callers[c].pc \in {"idle", "waiting"}
  BY DEF ReadDatabase, MayRead, At
<1>6. StepOf(c, {"idle", "waiting"}, e.pc) /\ callers'[c] = e
  BY <1>3, <1>4, <1>5, Replaced DEF TInv, TypeOK
<1> QED BY <1>3, <1>6

LEMMA FirstBootFacts ==
  ASSUME TInv, NEW c \in Callers, FirstBoot(c)
  PROVE  StepOf(c, {"fetched"}, "booting") /\ callers'[c].work = {}
<1>1. callers[c] \in Caller /\ {} \in Docs
  BY DEF TInv, TypeOK, Docs
<1>2. PICK e : e = [callers[c] EXCEPT !.pc = "booting", !.work = {}]
  OBVIOUS
<1>3. e \in Caller /\ e.pc = "booting" /\ e.work = {}
  BY <1>1, <1>2 DEF Caller
<1>4. callers' = [callers EXCEPT ![c] = e] /\ callers[c].pc \in {"fetched"}
  BY <1>2 DEF FirstBoot, At
<1>5. StepOf(c, {"fetched"}, e.pc) /\ callers'[c] = e
  BY <1>3, <1>4, Replaced DEF TInv, TypeOK
<1> QED BY <1>3, <1>5

LEMMA MutateFacts ==
  ASSUME TInv, NEW u \in Updaters, Mutate(u)
  PROVE  /\ StepOf(u, {"mutating"}, "writing")
         /\ callers'[u].work = callers[u].work \cup {u}
         /\ callers'[u].known = callers[u].known
<1>1. callers[u] \in Caller /\ u \in Callers
  BY DEF TInv, TypeOK, Callers
<1>2. PICK e : e = [callers[u] EXCEPT !.pc = "writing", !.work = callers[u].work \cup {u}]
  OBVIOUS
<1>3. /\ e \in Caller /\ e.pc = "writing" /\ e.work = callers[u].work \cup {u}
      /\ e.known = callers[u].known
  BY <1>1, <1>2 DEF Caller, Docs
<1>4. callers' = [callers EXCEPT ![u] = e] /\ callers[u].pc \in {"mutating"}
  BY <1>2 DEF Mutate, At
<1>5. StepOf(u, {"mutating"}, e.pc) /\ callers'[u] = e
  BY <1>1, <1>3, <1>4, Replaced DEF TInv, TypeOK
<1> QED BY <1>3, <1>5

LEMMA RefillFacts ==
  ASSUME TInv, NEW c \in Callers, NEW doc, NEW e \in Caller, NEW from,
         callers[c].pc \in from, Refill(c, doc, e)
  PROVE  /\ StepOf(c, from, e.pc) /\ callers'[c] = e
         /\ cache' = doc /\ fresh' = TRUE
BY Replaced DEF TInv, TypeOK, Refill

LEMMA GetArrivesFacts ==
  ASSUME TInv, NEW c \in Callers, NEW r \in Pending,
         At(c, "fetched"), r.ok, r.doc # NoDoc, Arrives(c, r),
         Refill(c, r.doc, Holding(c, r.doc, c \in InPlace))
  PROVE  /\ StepOf(c, {"fetched"}, IF c \in Updaters THEN "mutating" ELSE "done")
         /\ callers'[c].work = r.doc /\ r.doc \in Docs
         /\ callers'[c].known = callers[c].known
         /\ cache' = r.doc /\ fresh' = TRUE
<1>1. r.doc \in Docs
  BY Arrived DEF Result
<1>2. PICK doc \in Docs : doc = r.doc
  BY <1>1
<1>3. PICK e : e = Holding(c, doc, c \in InPlace)
  OBVIOUS
<1>4. e = Holding(c, doc, TRUE) \/ e = Holding(c, doc, FALSE)
  BY <1>3, EitherShares
<1>5. /\ e \in Caller /\ e.work = doc /\ e.known = callers[c].known
      /\ e.pc = (IF c \in Updaters THEN "mutating" ELSE "done")
  BY <1>4, HoldingFacts
<1>6. callers[c].pc \in {"fetched"} /\ Refill(c, doc, e)
  BY <1>2, <1>3 DEF At
<1>7. StepOf(c, {"fetched"}, e.pc) /\ callers'[c] = e /\ cache' = doc /\ fresh' = TRUE
  BY <1>5, <1>6, RefillFacts
<1> QED BY <1>2, <1>5, <1>7

LEMMA BootArrivesFacts ==
  ASSUME TInv, NEW c \in Callers, NEW r \in Pending,
         At(c, "booted"), r.ok, Arrives(c, r), Refill(c, r.doc, Holding(c, r.doc, TRUE))
  PROVE  /\ StepOf(c, {"booted"}, IF c \in Updaters THEN "mutating" ELSE "done")
         /\ callers'[c].work = r.doc /\ r.doc \in Docs
         /\ cache' = r.doc /\ fresh' = TRUE
<1>1. r.doc \in Docs
  BY Arrived DEF At, WrittenPcs
<1>2. PICK doc \in Docs : doc = r.doc
  BY <1>1
<1>3. PICK e : e = Holding(c, doc, TRUE)
  OBVIOUS
<1>4. /\ e \in Caller /\ e.work = doc
      /\ e.pc = (IF c \in Updaters THEN "mutating" ELSE "done")
  BY <1>3, HoldingFacts
<1>5. callers[c].pc \in {"booted"} /\ Refill(c, doc, e)
  BY <1>2, <1>3 DEF At
<1>6. StepOf(c, {"booted"}, e.pc) /\ callers'[c] = e /\ cache' = doc /\ fresh' = TRUE
  BY <1>4, <1>5, RefillFacts
<1> QED BY <1>2, <1>4, <1>6

(* A write arrived: its caller is done, or fails on the legacy file.       *)
LEMMA WriteArrivesFacts ==
  ASSUME TInv, NEW c \in Callers, NEW r \in Pending, NEW to \in {"done", "failed"},
         callers[c].pc \in WrittenPcs, Arrives(c, r),
         Refill(c, r.doc, [callers[c] EXCEPT !.pc = to])
  PROVE  /\ StepOf(c, WrittenPcs, to)
         /\ callers'[c].work = callers[c].work /\ r.doc \in Docs
         /\ callers'[c].known = callers[c].known
         /\ cache' = r.doc /\ fresh' = TRUE
<1>1. r.doc \in Docs /\ callers[c] \in Caller
  BY Arrived DEF TInv, TypeOK
<1>2. PICK e : e = [callers[c] EXCEPT !.pc = to]
  OBVIOUS
<1>3. /\ e \in Caller /\ e.work = callers[c].work /\ e.pc = to
      /\ e.known = callers[c].known
  BY <1>1, <1>2 DEF Caller
<1>4. StepOf(c, WrittenPcs, e.pc) /\ callers'[c] = e /\ cache' = r.doc /\ fresh' = TRUE
  BY <1>2, <1>3, RefillFacts
<1> QED BY <1>1, <1>3, <1>4

-----------------------------------------------------------------------------
(* Every action preserves the invariant.                                   *)

LEMMA MutexGivenBack ==
  ASSUME TInv, NEW c \in Callers, NEW from, NEW to \in {"done", "failed"},
         StepOf(c, from, to), from \subseteq PastMutex,
         queue' = IF c \in Updaters THEN Tail(queue) ELSE queue
  PROVE  Holds(queue', callers') /\ queue' \in Seq(Updaters)
<1>1. CASE c \in Updaters
  BY <1>1, MutexReleased DEF PastMutex
<1>2. CASE c \notin Updaters
  BY <1>2, MutexKept DEF TInv, TypeOK
<1> QED BY <1>1, <1>2

LEMMA RequestUpdateTyped ==
  ASSUME TInv, NEW u \in Updaters, RequestUpdate(u)
  PROVE  TInv'
<1>1. u \in Callers /\ u \notin Readers /\ callers[u].pc \in {"idle"}
  BY Apart DEF RequestUpdate, At
<1>2. StepOf(u, {"idle"}, "waiting")
  BY <1>1, Moved DEF RequestUpdate, TInv, TypeOK
<1>3. ResultsMatch' /\ results' \in Seq(Result)
  BY <1>1, <1>2, ResultsKept DEF RequestUpdate, ResultPcs, TInv, TypeOK
<1>4. Holds(queue', callers') /\ queue' \in Seq(Updaters)
  BY <1>2, MutexJoined DEF RequestUpdate
<1>5. OthersTyped' /\ cache' = cache
  BY DEF RequestUpdate, OthersTyped, TInv, TypeOK, database
<1> QED BY <1>1, <1>2, <1>3, <1>4, <1>5, Preserved

LEMMA ReadCacheTyped ==
  ASSUME TInv, NEW c \in Callers, ReadCache(c)
  PROVE  TInv'
<1> DEFINE to == IF c \in Updaters THEN "mutating" ELSE "done"
<1>1. StepOf(c, {"idle", "waiting"}, to) /\ cache # NoDoc
  BY ReadCacheFacts
<1>2. ResultsMatch' /\ results' \in Seq(Result)
  BY <1>1, ResultsKept DEF ReadCache, ResultPcs, TInv, TypeOK
<1>3. c \in Updaters => queue # <<>> /\ Head(queue) = c
  <2>1. ASSUME c \in Updaters PROVE queue # <<>> /\ Head(queue) = c
    <3>1. At(c, "waiting") /\ Head(queue) = c
      BY <2>1 DEF ReadCache, MayRead
    <3>2. \E i \in DOMAIN queue : queue[i] = c
      BY <3>1, <2>1 DEF TInv, QueueHasWaiting
    <3> QED BY <3>1, <3>2
  <2> QED BY <2>1
<1>4. queue' = queue /\ queue' \in Seq(Updaters) /\ OthersTyped' /\ cache' = cache
  BY DEF ReadCache, OthersTyped, TInv, TypeOK, database
<1>5. Holds(queue', callers')
  BY <1>1, <1>3, <1>4, MutexKept
<1>6. c \in Readers => to \notin UpdatersOnly
  BY Apart DEF UpdatersOnly
<1> HIDE DEF to
<1> QED BY <1>1, <1>2, <1>4, <1>5, <1>6, Preserved

LEMMA ReadDatabaseTyped ==
  ASSUME TInv, NEW c \in Callers, ReadDatabase(c)
  PROVE  TInv'
<1>1. StepOf(c, {"idle", "waiting"}, "reading")
  BY ReadDatabaseFacts
<1>2. ResultsMatch' /\ results' \in Seq(Result)
  BY <1>1, ResultsKept DEF ReadDatabase, ResultPcs, TInv, TypeOK
<1>3. c \in Updaters => queue # <<>> /\ Head(queue) = c
  <2>1. ASSUME c \in Updaters PROVE queue # <<>> /\ Head(queue) = c
    <3>1. At(c, "waiting") /\ Head(queue) = c
      BY <2>1 DEF ReadDatabase, MayRead
    <3>2. \E i \in DOMAIN queue : queue[i] = c
      BY <3>1, <2>1 DEF TInv, QueueHasWaiting
    <3> QED BY <3>1, <3>2
  <2> QED BY <2>1
<1>4. queue' = queue /\ queue' \in Seq(Updaters) /\ OthersTyped' /\ cache' = cache
  BY DEF ReadDatabase, OthersTyped, TInv, TypeOK, database
<1>5. Holds(queue', callers')
  BY <1>1, <1>3, <1>4, MutexKept
<1> QED BY <1>1, <1>2, <1>4, <1>5, Preserved DEF UpdatersOnly

(* A statement runs: its result is queued.                                 *)
LEMMA QueuedTyped ==
  ASSUME TInv, NEW c \in Callers, NEW from, NEW to \in ResultPcs, NEW r \in Result,
         StepOf(c, from, to), from \cap ResultPcs = {}, from \subseteq PastMutex,
         results' = Append(results, r), r.who = c,
         to \in WrittenPcs => r.doc = callers'[c].work,
         c \in Readers => to # "written",
         queue' = queue, cache' = cache, OthersTyped'
  PROVE  TInv'
<1>1. ResultsMatch' /\ results' \in Seq(Result)
  BY ResultsQueued
<1>2. to # "waiting" /\ to # "mutating" /\ callers[c].pc \in PastMutex
  BY DEF ResultPcs, StepOf
<1>3. Holds(queue', callers') /\ queue' \in Seq(Updaters)
  BY <1>2, MutexKept DEF TInv, TypeOK
<1>4. c \in Readers => to \notin UpdatersOnly
  BY DEF UpdatersOnly, ResultPcs
<1> QED BY <1>1, <1>2, <1>3, <1>4, Preserved

LEMMA RunGetTyped ==
  ASSUME TInv, NEW c \in Callers, NEW ok \in BOOLEAN, RunGet(c, ok)
  PROVE  TInv'
<1>1. callers[c].pc \in {"reading"}
  BY DEF RunGet, At
<1>2. StepOf(c, {"reading"}, "fetched")
  BY <1>1, Moved DEF RunGet, TInv, TypeOK
<1>3. PICK r : r = [who |-> c, ok |-> ok, doc |-> view]
  OBVIOUS
<1>4. r \in Result /\ r.who = c /\ results' = Append(results, r)
  BY <1>3 DEF Result, RunGet, TInv, TypeOK
<1>5. queue' = queue /\ cache' = cache /\ OthersTyped'
  BY DEF RunGet, OthersTyped, TInv, TypeOK, database
<1> QED BY <1>2, <1>4, <1>5, QueuedTyped DEF ResultPcs, WrittenPcs, PastMutex

LEMMA GetArrivesTyped ==
  ASSUME TInv, NEW c \in Callers, GetArrives(c)
  PROVE  TInv'
<1> DEFINE to == IF c \in Updaters THEN "mutating" ELSE "done"
<1>1. PICK r \in Pending :
        /\ At(c, "fetched") /\ r.ok /\ r.doc # NoDoc
        /\ Arrives(c, r) /\ Refill(c, r.doc, Holding(c, r.doc, c \in InPlace))
        /\ UNCHANGED queue
  BY DEF GetArrives
<1>2. StepOf(c, {"fetched"}, to) /\ r.doc \in Docs /\ cache' = r.doc /\ fresh' = TRUE
  BY <1>1, GetArrivesFacts
<1>3. ResultsMatch' /\ results' \in Seq(Result)
  BY <1>1, <1>2, Arrived, ResultsTaken
<1>4. callers[c].pc \in PastMutex
  BY <1>1 DEF At, PastMutex
<1>5. Holds(queue', callers') /\ queue' \in Seq(Updaters)
  BY <1>1, <1>2, <1>4, MutexKept DEF TInv, TypeOK
<1>6. OthersTyped' /\ cache' # NoDoc
  BY <1>1, <1>2, Apart DEF Arrives, OthersTyped, TInv, TypeOK, database
<1>7. c \in Readers => to \notin UpdatersOnly
  BY Apart DEF UpdatersOnly
<1> HIDE DEF to
<1> QED BY <1>2, <1>3, <1>5, <1>6, <1>7, Preserved

LEMMA BootArrivesTyped ==
  ASSUME TInv, NEW c \in Callers, BootArrives(c)
  PROVE  TInv'
<1> DEFINE to == IF c \in Updaters THEN "mutating" ELSE "done"
<1>1. PICK r \in Pending :
        /\ At(c, "booted") /\ r.ok
        /\ Arrives(c, r) /\ Refill(c, r.doc, Holding(c, r.doc, TRUE))
        /\ UNCHANGED queue
  BY DEF BootArrives
<1>2. StepOf(c, {"booted"}, to) /\ r.doc \in Docs /\ cache' = r.doc /\ fresh' = TRUE
  BY <1>1, BootArrivesFacts
<1>3. ResultsMatch' /\ results' \in Seq(Result)
  BY <1>1, <1>2, Arrived, ResultsTaken
<1>4. callers[c].pc \in PastMutex
  BY <1>1 DEF At, PastMutex
<1>5. Holds(queue', callers') /\ queue' \in Seq(Updaters)
  BY <1>1, <1>2, <1>4, MutexKept DEF TInv, TypeOK
<1>6. OthersTyped' /\ cache' # NoDoc
  BY <1>1, <1>2, Apart DEF Arrives, OthersTyped, TInv, TypeOK, database
<1>7. c \in Readers => to \notin UpdatersOnly
  BY Apart DEF UpdatersOnly
<1> HIDE DEF to
<1> QED BY <1>2, <1>3, <1>5, <1>6, <1>7, Preserved

LEMMA FirstBootTyped ==
  ASSUME TInv, NEW c \in Callers, FirstBoot(c)
  PROVE  TInv'
<1>1. PICK r \in Pending :
        At(c, "fetched") /\ Arrives(c, r) /\ UNCHANGED <<cache, fresh, queue>>
  BY DEF FirstBoot
<1>2. StepOf(c, {"fetched"}, "booting")
  BY FirstBootFacts
<1>3. ResultsMatch' /\ results' \in Seq(Result)
  BY <1>1, <1>2, Arrived, ResultsTaken
<1>4. callers[c].pc \in PastMutex
  BY <1>1 DEF At, PastMutex
<1>5. Holds(queue', callers') /\ queue' \in Seq(Updaters)
  BY <1>1, <1>2, <1>4, MutexKept DEF TInv, TypeOK
<1>6. OthersTyped' /\ cache' = cache
  BY <1>1 DEF Arrives, OthersTyped, TInv, TypeOK, database
<1> QED BY <1>2, <1>3, <1>5, <1>6, Preserved DEF UpdatersOnly

LEMMA StatementFailsTyped ==
  ASSUME TInv, NEW c \in Callers, StatementFails(c)
  PROVE  TInv'
<1>1. PICK r \in Pending :
        /\ callers[c].pc \in ResultPcs /\ Arrives(c, r)
        /\ Fails(c) /\ UNCHANGED <<cache, fresh>>
  BY DEF StatementFails, ResultPcs
<1>2. StepOf(c, ResultPcs, "failed")
  BY <1>1, Moved DEF Fails, TInv, TypeOK
<1>3. ResultsMatch' /\ results' \in Seq(Result)
  BY <1>1, <1>2, Arrived, ResultsTaken
<1>4. Holds(queue', callers') /\ queue' \in Seq(Updaters)
  BY <1>1, <1>2, MutexGivenBack DEF Fails, ResultPcs, PastMutex
<1>5. OthersTyped' /\ cache' = cache
  BY <1>1 DEF Arrives, OthersTyped, TInv, TypeOK, database
<1> QED BY <1>2, <1>3, <1>4, <1>5, Preserved DEF UpdatersOnly

LEMMA ShownTyped ==
  ASSUME TInv, NEW u \in Updaters, At(u, "mutating")
  PROVE  Shown(u) \in {NoDoc} \cup Docs /\ (cache # NoDoc => Shown(u) # NoDoc)
<1>1. callers[u].shares => cache \in Docs
  BY Apart DEF TInv, TypeOK, SharersHaveCache
<1>2. callers[u].shares => cache \cup {u} \in Docs
  BY <1>1 DEF Docs
<1> QED BY <1>2, Apart DEF Shown, TInv, TypeOK

LEMMA MutateTyped ==
  ASSUME TInv, NEW u \in Updaters, Mutate(u)
  PROVE  TInv'
<1>1. u \in Callers /\ u \notin Readers /\ At(u, "mutating")
  BY Apart DEF Mutate
<1>2. StepOf(u, {"mutating"}, "writing")
  BY MutateFacts
<1>3. ResultsMatch' /\ results' \in Seq(Result)
  BY <1>1, <1>2, ResultsKept DEF Mutate, ResultPcs, TInv, TypeOK
<1>4. callers[u].pc \in PastMutex
  BY <1>1 DEF At, PastMutex
<1>5. Holds(queue', callers') /\ queue' \in Seq(Updaters)
  BY <1>1, <1>2, <1>4, MutexKept DEF Mutate, TInv, TypeOK
<1>6. cache' = Shown(u)
  BY DEF Mutate
<1>7. OthersTyped' /\ (cache # NoDoc => cache' # NoDoc)
  BY <1>1, <1>6, ShownTyped DEF Mutate, OthersTyped, TInv, TypeOK, database
<1> QED BY <1>1, <1>2, <1>3, <1>5, <1>7, Preserved

LEMMA MutateThrowsTyped ==
  ASSUME TInv, NEW u \in Updaters, MutateThrows(u)
  PROVE  TInv'
<1>1. /\ u \in Callers /\ u \notin Readers /\ At(u, "mutating")
      /\ callers[u].pc \in {"mutating"}
  BY Apart DEF MutateThrows, At
<1>2. StepOf(u, {"mutating"}, "failed")
  BY <1>1, Moved DEF MutateThrows, Fails, TInv, TypeOK
<1>3. ResultsMatch' /\ results' \in Seq(Result)
  BY <1>1, <1>2, ResultsKept DEF MutateThrows, ResultPcs, TInv, TypeOK
<1>4. Holds(queue', callers') /\ queue' \in Seq(Updaters)
  BY <1>1, <1>2, MutexGivenBack DEF MutateThrows, Fails, PastMutex
<1>5. cache' = cache \/ cache' = Shown(u)
  BY DEF MutateThrows
<1>6. OthersTyped' /\ (cache # NoDoc => cache' # NoDoc)
  BY <1>1, <1>5, ShownTyped DEF MutateThrows, OthersTyped, TInv, TypeOK, database
<1> QED BY <1>1, <1>2, <1>3, <1>4, <1>6, Preserved

LEMMA RunWriteTyped ==
  ASSUME TInv, NEW c \in Callers, RunWrite(c) \/ RunWriteFails(c)
  PROVE  TInv'
<1> DEFINE from == {callers[c].pc}
<1>1. /\ callers[c].pc \in {"booting", "writing"} /\ Moves(c, AfterRun(c))
      /\ queue' = queue /\ cache' = cache
  BY DEF RunWrite, RunWriteFails, Issued
<1>2. /\ AfterRun(c) \in WrittenPcs /\ (c \in Readers => AfterRun(c) # "written")
      /\ AfterRun(c) \in ResultPcs
  BY <1>1 DEF AfterRun, WrittenPcs, ResultPcs, At, TInv, ReadersOnlyRead
<1>3. StepOf(c, from, AfterRun(c)) /\ callers'[c].work = callers[c].work
  BY <1>1, <1>2, Moved DEF WrittenPcs, TInv, TypeOK
<1>4. from \cap ResultPcs = {} /\ from \subseteq PastMutex
  BY <1>1 DEF ResultPcs, PastMutex
<1>5. callers[c].work \in Docs
  BY DEF TInv, TypeOK, Caller
<1>6. PICK to : to = AfterRun(c)
  OBVIOUS
<1>7. PICK r \in Result :
        r.who = c /\ r.doc = callers[c].work /\ results' = Append(results, r)
  <2>1. ASSUME NEW ok \in BOOLEAN
        PROVE  LET r == [who |-> c, ok |-> ok, doc |-> callers[c].work]
               IN  r \in Result /\ r.who = c /\ r.doc = callers[c].work
    BY <1>5 DEF Result
  <2> QED BY <2>1 DEF RunWrite, RunWriteFails
<1>8. OthersTyped'
  BY <1>5 DEF RunWrite, RunWriteFails, OthersTyped, TInv, TypeOK, database
<1> HIDE DEF from
<1> QED BY <1>1, <1>2, <1>3, <1>4, <1>6, <1>7, <1>8, QueuedTyped

LEMMA UpdateArrivesTyped ==
  ASSUME TInv, NEW u \in Updaters, UpdateArrives(u)
  PROVE  TInv'
<1>1. PICK r \in Pending :
        /\ At(u, "written") /\ Arrives(u, r)
        /\ Refill(u, r.doc, [callers[u] EXCEPT !.pc = "done"])
        /\ queue' = Tail(queue)
  BY DEF UpdateArrives
<1>2. u \in Callers /\ u \notin Readers /\ callers[u].pc \in WrittenPcs
  BY <1>1, Apart DEF At, WrittenPcs
<1>3. StepOf(u, WrittenPcs, "done") /\ r.doc \in Docs /\ cache' = r.doc /\ fresh' = TRUE
  BY <1>1, <1>2, WriteArrivesFacts
<1>4. ResultsMatch' /\ results' \in Seq(Result)
  BY <1>1, <1>2, <1>3, Arrived, ResultsTaken
<1>5. Holds(queue', callers') /\ queue' \in Seq(Updaters)
  BY <1>1, <1>2, <1>3, MutexGivenBack DEF WrittenPcs, PastMutex
<1>6. OthersTyped' /\ cache' # NoDoc
  BY <1>1, <1>3, Apart DEF Arrives, OthersTyped, TInv, TypeOK, database
<1> QED BY <1>2, <1>3, <1>4, <1>5, <1>6, Preserved

LEMMA LegacyFileFailsTyped ==
  ASSUME TInv, NEW c \in Callers, LegacyFileFails(c)
  PROVE  TInv'
<1>1. PICK r \in Pending :
        /\ callers[c].pc \in WrittenPcs /\ Arrives(c, r)
        /\ Refill(c, r.doc, [callers[c] EXCEPT !.pc = "failed"])
        /\ queue' = IF c \in Updaters THEN Tail(queue) ELSE queue
  BY DEF LegacyFileFails, WrittenPcs
<1>2. StepOf(c, WrittenPcs, "failed") /\ r.doc \in Docs /\ cache' = r.doc /\ fresh' = TRUE
  BY <1>1, WriteArrivesFacts
<1>3. ResultsMatch' /\ results' \in Seq(Result)
  BY <1>1, <1>2, Arrived, ResultsTaken
<1>4. Holds(queue', callers') /\ queue' \in Seq(Updaters)
  BY <1>1, <1>2, MutexGivenBack DEF WrittenPcs, PastMutex
<1>5. OthersTyped' /\ cache' # NoDoc
  BY <1>1, <1>2, Apart DEF Arrives, OthersTyped, TInv, TypeOK, database
<1> QED BY <1>2, <1>3, <1>4, <1>5, Preserved DEF UpdatersOnly

(* The steps that move no caller.                                          *)
LEMMA OthersStepTyped ==
  ASSUME TInv,
         \/ Age \/ UNCHANGED vars
         \/ \E t \in Transactions : Begin(t) \/ Commit(t) \/ Rollback(t)
  PROVE  TInv'
<1>1. UNCHANGED <<callers, results, queue, cache>>
  BY DEF Age, Begin, Commit, Rollback, Ends, vars
<1>2. TypeOK'
  BY <1>1 DEF TInv, TypeOK, Age, Begin, Commit, Rollback, Ends, vars, database
<1> QED BY <1>1, <1>2
  DEF TInv, QueueHasWaiting, ResultsMatch, ReadersOnlyRead, SharersHaveCache, At

LEMMA CrashTyped ==
  ASSUME TInv, Crash
  PROVE  TInv'
<1> USE DEF TInv, TypeOK
<1>1. ASSUME NEW c \in Callers
      PROVE  /\ callers'[c] \in Caller
             /\ callers'[c].pc \notin PastMutex \cup {"waiting"}
  <2>1. CASE callers[c].pc \in Over
    BY <2>1 DEF Crash, Over, PastMutex
  <2>2. CASE callers[c].pc \notin Over
    <3>1. callers'[c] = [callers[c] EXCEPT !.pc = "lost"]
      BY <2>2 DEF Crash
    <3>2. callers[c] \in Caller
      OBVIOUS
    <3> QED BY <3>1, <3>2 DEF Caller, PastMutex
  <2> QED BY <2>1, <2>2
<1>2. callers' \in [Callers -> Caller]
  BY <1>1 DEF Crash
<1>3. txs' \in [Transactions -> {"idle", "open", "closed", "refused", "lost"}]
  BY DEF Crash
<1>4. crashes' \in 0..MaxCrashes
  BY RuntimeStoreAssumptions DEF Crash
<1>5. results' = <<>> /\ queue' = <<>>
  BY DEF Crash
<1>6. TypeOK'
  <2>1. /\ committed' \in {NoDoc} \cup Docs /\ view' \in {NoDoc} \cup Docs
        /\ tx' \in Transactions \cup {NoTx}
        /\ cache' \in {NoDoc} \cup Docs /\ fresh' \in BOOLEAN
    BY DEF Crash
  <2>2. results' \in Seq(Result) /\ queue' \in Seq(Updaters)
    BY <1>5
  <2>3. \A u \in Updaters : callers'[u].pc \notin PastMutex
    BY <1>1 DEF Callers
  <2> QED BY <2>1, <2>2, <2>3, <1>2, <1>3, <1>4
<1>7. QueueHasWaiting' /\ ReadersOnlyRead' /\ SharersHaveCache'
  BY <1>1 DEF QueueHasWaiting, ReadersOnlyRead, SharersHaveCache, At, Callers, PastMutex
<1>8. ResultsMatch'
  BY <1>5 DEF ResultsMatch
<1> QED BY <1>6, <1>7, <1>8

LEMMA InitTyped == Init => TInv
<1> SUFFICES ASSUME Init PROVE TInv
  OBVIOUS
<1>1. ASSUME NEW c \in Callers
      PROVE  callers[c] \in Caller /\ callers[c].pc = "idle" /\ callers[c].shares = FALSE
  BY DEF Init, Caller, Docs
<1>2. callers \in [Callers -> Caller]
  BY <1>1 DEF Init
<1>3. results = <<>> /\ queue = <<>>
  BY DEF Init
<1>4. TypeOK
  <2>1. /\ committed \in {NoDoc} \cup Docs /\ view \in {NoDoc} \cup Docs
        /\ tx \in Transactions \cup {NoTx}
        /\ cache \in {NoDoc} \cup Docs /\ fresh \in BOOLEAN
    <3>1. Initial \in {NoDoc} \cup Docs
      BY RuntimeStoreAssumptions DEF Docs
    <3> QED BY <3>1 DEF Init
  <2>4. /\ txs \in [Transactions -> {"idle", "open", "closed", "refused", "lost"}]
        /\ crashes \in 0..MaxCrashes
    BY RuntimeStoreAssumptions DEF Init
  <2>2. results \in Seq(Result) /\ queue \in Seq(Updaters)
    BY <1>3
  <2>3. \A u \in Updaters : callers[u].pc \notin PastMutex
    BY <1>1 DEF Callers, PastMutex
  <2> QED BY <2>1, <2>2, <2>3, <2>4, <1>2 DEF TypeOK
<1>5. QueueHasWaiting /\ ReadersOnlyRead /\ SharersHaveCache
  BY <1>1 DEF QueueHasWaiting, ReadersOnlyRead, SharersHaveCache, At, Callers
<1>6. ResultsMatch
  BY <1>3 DEF ResultsMatch
<1> QED BY <1>4, <1>5, <1>6 DEF TInv

LEMMA StepTyped == TInv /\ [Next]_vars => TInv'
<1> SUFFICES ASSUME TInv, [Next]_vars PROVE TInv'
  OBVIOUS
<1>1. ASSUME NEW u \in Updaters, RequestUpdate(u) \/ UpdateProgress(u) PROVE TInv'
  BY <1>1, RequestUpdateTyped, MutateTyped, MutateThrowsTyped, UpdateArrivesTyped
  DEF UpdateProgress
<1>2. ASSUME NEW c \in Callers, Progress(c) PROVE TInv'
  BY <1>2, ReadCacheTyped, ReadDatabaseTyped, RunGetTyped, GetArrivesTyped,
     FirstBootTyped, StatementFailsTyped, RunWriteTyped, BootArrivesTyped,
     LegacyFileFailsTyped
  DEF Progress
<1>3. ASSUME NEW t \in Transactions, Begin(t) \/ Commit(t) \/ Rollback(t) PROVE TInv'
  BY <1>3, OthersStepTyped
<1> QED BY <1>1, <1>2, <1>3, OthersStepTyped, CrashTyped DEF Next

LEMMA Typed == Spec => []TInv
BY InitTyped, StepTyped, PTL DEF Spec

(* Every variable keeps its type, the results arrive for callers that wait *)
(* for them, and an update past the mutex holds it alone, however the      *)
(* statements, the transactions, the failures and the crashes interleave.  *)
THEOREM TypeCorrect == Spec => []TypeOK
<1>1. TInv => TypeOK
  BY DEF TInv
<1> QED BY <1>1, Typed, PTL
-----------------------------------------------------------------------------
(* With no other user of the connection, a row in the table, and results   *)
(* in order or no reader outside of the mutex: acknowledged updates stay,  *)
(* reads see them, and the store implements AtomicDocument.  The invariant *)
(* says how far a cache, a result under way or the document of a call may  *)
(* lag behind the row: only while the result of the write that put it      *)
(* ahead is still to arrive.                                               *)

Quiet ==
  /\ Transactions = {} /\ Initial = {}
  /\ Readers = {} \/ ~Overtaking

(* No first boot, no transaction: the connection sees the row.             *)
Settled ==
  /\ committed \in Docs /\ view = committed /\ tx = NoTx
  /\ \A i \in DOMAIN results : results[i].doc \in Docs
  /\ \A c \in Callers : callers[c].pc \notin {"booting", "booted"}

Fetched(i) == results[i].ok /\ At(results[i].who, "fetched")
Stored(i) == results[i].ok /\ At(results[i].who, "written")

(* What a read brings lags only behind a write whose result comes later.   *)
ResultsFresh ==
  \A j \in DOMAIN results : Fetched(j) =>
    \/ committed \subseteq results[j].doc
    \/ \E i \in DOMAIN results : j < i /\ Stored(i)

CacheFresh ==
  cache # NoDoc => \/ committed \subseteq cache
                   \/ \E i \in DOMAIN results : Stored(i)

StoredLast == \A i \in DOMAIN results : Stored(i) => committed = results[i].doc

HolderFresh ==
  \A u \in Updaters :
    callers[u].pc \in {"mutating", "writing"} => committed \subseteq callers[u].work

OwnUpdate ==
  \A u \in Updaters : callers[u].pc \in {"writing", "written"} => u \in callers[u].work

AckedIn == Acked \subseteq committed

Fresh == /\ Settled /\ ResultsFresh /\ CacheFresh /\ StoredLast
         /\ HolderFresh /\ OwnUpdate /\ AckedIn

(* What was acknowledged shows in every answer from then on.               *)
CacheSees == cache # NoDoc => Acked \subseteq cache
ResultsSee == \A i \in DOMAIN results : Fetched(i) => Acked \subseteq results[i].doc
KnownAcked == \A c \in Callers : callers[c].known \subseteq Acked

Seen == CacheSees /\ ResultsSee /\ KnownAcked /\ ReadsSeeAcked

(* Documents contain updates that were asked for.                          *)
Started == {u \in Updaters : ~At(u, "idle")}

AllStarted ==
  /\ committed \subseteq Started
  /\ cache # NoDoc => cache \subseteq Started
  /\ \A c \in Callers : callers[c].work \subseteq Started
  /\ \A i \in DOMAIN results : results[i].doc \subseteq Started

FInv == TInv /\ Fresh /\ Seen /\ AllStarted

-----------------------------------------------------------------------------
(* The mutex: two that are past it are one.                                *)

LEMMA OneHolder ==
  ASSUME TInv, NEW u \in Updaters, NEW v \in Updaters, callers[v].pc \in PastMutex,
         callers[u].pc \in PastMutex \/ Head(queue) = u
  PROVE  u = v
BY DEF TInv, TypeOK

LEMMA StoredByHolder ==
  ASSUME TInv, NEW i \in DOMAIN results, Stored(i)
  PROVE  results[i].who \in Updaters /\ callers[results[i].who].pc \in PastMutex
<1>1. results[i] \in Result
  BY DEF TInv, TypeOK
<1>2. results[i].who \in Callers /\ callers[results[i].who].pc = "written"
  BY <1>1 DEF Stored, At, Result
<1> QED BY <1>2 DEF TInv, ReadersOnlyRead, Callers, PastMutex

(* Whoever is past the mutex, or about to be, finds no write under way.    *)
LEMMA NoneStored ==
  ASSUME TInv, NEW u \in Updaters, callers[u].pc # "written",
         callers[u].pc \in PastMutex \/ Head(queue) = u, NEW i \in DOMAIN results
  PROVE  ~Stored(i)
<1>1. ASSUME Stored(i) PROVE FALSE
  <2>1. results[i].who = u
    BY <1>1, StoredByHolder, OneHolder
  <2> QED BY <1>1, <2>1 DEF Stored, At
<1> QED BY <1>1

LEMMA AckedAfter ==
  ASSUME NEW c \in Callers, NEW from, NEW to, StepOf(c, from, to), "done" \notin from
  PROVE  Acked' = IF c \in Updaters /\ to = "done" THEN Acked \cup {c} ELSE Acked
<1>1. ASSUME NEW u \in Updaters
      PROVE  u \in Acked' <=> u \in Acked \/ (u = c /\ to = "done")
  <2>1. CASE u = c
    BY <2>1 DEF StepOf, Acked, At
  <2>2. CASE u # c
    BY <2>2 DEF StepOf, Acked, At, Callers
  <2> QED BY <2>1, <2>2
<1>2. Acked' \subseteq Updaters /\ Acked \subseteq Updaters
  BY DEF Acked
<1> QED BY <1>1, <1>2

(* The first result arrives: there is no other, or it may not be overtaken. *)
LEMMA InTurn ==
  ASSUME Readers = {} \/ ~Overtaking, TInv,
         NEW c \in Callers, NEW r \in Pending, Arrives(c, r)
  PROVE  /\ r = results[1] /\ r.who = c /\ 1 \in DOMAIN results
         /\ results' = Without(results, 1)
<1>1. PICK n \in DOMAIN results :
        /\ r = results[n] /\ results[n].who = c /\ (n = 1 \/ Overtaking)
        /\ results' = Without(results, n)
  BY Arrived
<1>2. DOMAIN results = 1..Len(results) /\ Len(results) \in Nat \ {0}
  BY LeftOut DEF TInv, TypeOK
<1>3. 1 \in DOMAIN results
  BY <1>2
<1>4. CASE Readers = {}
  <2>1. ASSUME NEW i \in DOMAIN results
        PROVE  results[i].who \in Updaters /\ callers[results[i].who].pc \in PastMutex
    <3>1. results[i] \in Result /\ callers[results[i].who].pc \in ResultPcs
      BY DEF TInv, TypeOK, ResultsMatch
    <3> QED BY <3>1, <1>4 DEF Result, Callers, ResultPcs, PastMutex
  <2>2. results[n].who = results[1].who
    BY <2>1, <1>3, OneHolder
  <2>3. n = 1
    BY <2>2, <1>3 DEF TInv, ResultsMatch
  <2> QED BY <2>3, <1>1, <1>3
<1>5. CASE ~Overtaking
  BY <1>5, <1>1, <1>3
<1> QED BY <1>4, <1>5

LEMMA InOrder ==
  ASSUME Quiet, TInv, NEW c \in Callers, NEW r \in Pending, Arrives(c, r)
  PROVE  /\ r = results[1] /\ r.who = c /\ 1 \in DOMAIN results
         /\ results' = Without(results, 1)
BY InTurn DEF Quiet

-----------------------------------------------------------------------------
(* What the results say, after a step that leaves them, adds one or takes  *)
(* the first.                                                              *)

Order == /\ ResultsFresh /\ CacheFresh /\ StoredLast
         /\ CacheSees /\ ResultsSee

LEMMA OrderKept ==
  ASSUME FInv, NEW c \in Callers, NEW from, NEW to, StepOf(c, from, to),
         from \cap ResultPcs = {}, "done" \notin from, to \notin ResultPcs,
         to = "done" => c \notin Updaters,
         results' = results, committed' = committed,
         cache' = cache \/ (cache # NoDoc /\ cache \subseteq cache')
  PROVE  Order'
<1> USE DEF FInv
<1>1. Acked' = Acked
  BY AckedAfter
<1>2. ASSUME NEW i \in DOMAIN results
      PROVE  (Fetched(i)' <=> Fetched(i)) /\ (Stored(i)' <=> Stored(i))
  <2>1. results[i] \in Result /\ callers[results[i].who].pc \in ResultPcs
    BY DEF TInv, TypeOK, ResultsMatch
  <2>2. results[i].who \in Callers \ {c}
    BY <2>1 DEF StepOf, Result
  <2> QED BY <2>2 DEF StepOf, Fetched, Stored, At
<1>3. ResultsFresh' /\ StoredLast' /\ ResultsSee'
  BY <1>1, <1>2 DEF Fresh, Seen, ResultsFresh, StoredLast, ResultsSee
<1>4. CacheFresh' /\ CacheSees'
  BY <1>1, <1>2 DEF Fresh, Seen, CacheFresh, CacheSees
<1> QED BY <1>3, <1>4 DEF Order

LEMMA OrderQueued ==
  ASSUME FInv, NEW c \in Callers, NEW from, NEW to, NEW r \in Result, StepOf(c, from, to),
         from \cap ResultPcs = {}, "done" \notin from, to \in {"fetched", "written"},
         results' = Append(results, r), r.who = c, cache' = cache,
         \/ ~r.ok /\ committed' = committed
         \/ r.ok /\ to = "fetched" /\ committed' = committed /\ r.doc = committed
         \/ /\ r.ok /\ to = "written" /\ committed' = r.doc
            /\ \A i \in DOMAIN results : ~Stored(i)
  PROVE  Order'
<1> USE DEF FInv
<1>1. Acked' = Acked /\ Acked \subseteq committed
  BY AckedAfter DEF Fresh, AckedIn
<1>0. PICK n : n = Len(results) + 1
  OBVIOUS
<1>2. /\ DOMAIN results = 1..Len(results) /\ Len(results) \in Nat
      /\ DOMAIN results' = 1..n
      /\ \A i \in 1..Len(results) : results'[i] = results[i]
      /\ results'[n] = r
  BY <1>0, Appended DEF TInv, TypeOK
<1>3. ASSUME NEW i \in 1..Len(results)
      PROVE  /\ Fetched(i)' <=> Fetched(i)
             /\ Stored(i)' <=> Stored(i)
             /\ results'[i] = results[i]
  <2>1. results[i] \in Result /\ callers[results[i].who].pc \in ResultPcs
    BY <1>2 DEF TInv, TypeOK, ResultsMatch
  <2>2. results[i].who \in Callers \ {c}
    BY <2>1 DEF StepOf, Result
  <2> QED BY <1>2, <2>2 DEF StepOf, Fetched, Stored, At
<1>4. /\ Fetched(n)' <=> r.ok /\ to = "fetched"
      /\ Stored(n)' <=> r.ok /\ to = "written"
  BY <1>2 DEF StepOf, Fetched, Stored, At
<1>5. \A i \in 1..n : i = n \/ i \in 1..Len(results)
  BY <1>0, <1>2
<1>6. n \in 1..n /\ \A i \in 1..Len(results) : i < n /\ i \in 1..n
  BY <1>0, <1>2
<1>7. ResultsFresh'
  <2> SUFFICES ASSUME NEW j \in 1..n, Fetched(j)'
               PROVE  \/ committed' \subseteq results'[j].doc
                      \/ \E i \in 1..n : j < i /\ Stored(i)'
    BY <1>2 DEF ResultsFresh
  <2>1. CASE j = n
    BY <2>1, <1>2, <1>4
  <2>2. CASE j \in 1..Len(results)
    <3>1. Fetched(j) /\ results'[j] = results[j]
      BY <2>2, <1>3
    <3>2. CASE committed' = committed
      <4>1. CASE committed \subseteq results[j].doc
        BY <4>1, <3>1, <3>2
      <4>2. CASE \E i \in 1..Len(results) : j < i /\ Stored(i)
        BY <4>2, <1>3, <1>6
      <4> QED BY <2>2, <3>1, <4>1, <4>2, <1>2 DEF Fresh, ResultsFresh
    <3>3. CASE Stored(n)'
      BY <3>3, <2>2, <1>6
    <3> QED BY <3>2, <3>3, <1>4
  <2> QED BY <2>1, <2>2, <1>5
<1>8. CacheFresh'
  <2> SUFFICES ASSUME cache # NoDoc
               PROVE  committed' \subseteq cache \/ \E i \in 1..n : Stored(i)'
    BY <1>2 DEF CacheFresh
  <2>1. CASE committed' = committed
    <3>1. committed \subseteq cache \/ \E i \in 1..Len(results) : Stored(i)
      BY <1>2 DEF Fresh, CacheFresh
    <3> QED BY <2>1, <3>1, <1>3, <1>6
  <2>2. CASE Stored(n)'
    BY <2>2, <1>6
  <2> QED BY <2>1, <2>2, <1>4
<1>9. StoredLast'
  <2> SUFFICES ASSUME NEW i \in 1..n, Stored(i)'
               PROVE  committed' = results'[i].doc
    BY <1>2 DEF StoredLast
  <2>1. CASE i = n
    BY <2>1, <1>2, <1>4
  <2>2. CASE i \in 1..Len(results)
    <3>1. Stored(i) /\ results'[i] = results[i]
      BY <2>2, <1>3
    <3>2. committed = results[i].doc
      BY <2>2, <3>1, <1>2 DEF Fresh, StoredLast
    <3> QED BY <2>2, <3>1, <3>2, <1>2
  <2> QED BY <2>1, <2>2, <1>5
<1>10. CacheSees'
  BY <1>1 DEF Seen, CacheSees
<1>11. ResultsSee'
  <2> SUFFICES ASSUME NEW i \in 1..n, Fetched(i)'
               PROVE  Acked \subseteq results'[i].doc
    BY <1>1, <1>2 DEF ResultsSee
  <2>1. CASE i = n
    BY <2>1, <1>1, <1>2, <1>4
  <2>2. CASE i \in 1..Len(results)
    BY <2>2, <1>2, <1>3 DEF Seen, ResultsSee
  <2> QED BY <2>1, <2>2, <1>5
<1> QED BY <1>7, <1>8, <1>9, <1>10, <1>11 DEF Order

LEMMA OrderTaken ==
  ASSUME FInv, NEW c \in Callers, NEW from, NEW to, StepOf(c, from, to),
         "done" \notin from, to \notin ResultPcs,
         1 \in DOMAIN results, results[1].who = c, results' = Without(results, 1),
         committed' = committed,
         \/ cache' = cache /\ ~results[1].ok
         \/ cache' = results[1].doc /\ results[1].ok,
         from = {"fetched"} \/ ~results[1].ok \/ Stored(1),
         to = "done" /\ c \in Updaters => Stored(1) /\ c \in committed
  PROVE  Order'
<1> USE DEF FInv
<1> DEFINE m == Len(results) - 1
<1>1. /\ DOMAIN results = 1..Len(results) /\ Len(results) \in Nat \ {0}
      /\ DOMAIN results' = 1..m
      /\ \A i \in 1..m : results'[i] = results[i + 1]
  BY LeftOut DEF TInv, TypeOK
<1>2. ASSUME NEW i \in 1..m
      PROVE  /\ i + 1 \in 1..Len(results)
             /\ Fetched(i)' <=> Fetched(i + 1)
             /\ Stored(i)' <=> Stored(i + 1)
             /\ results'[i] = results[i + 1]
  <2>1. i + 1 \in DOMAIN results /\ 1 \in DOMAIN results /\ i + 1 # 1
    BY <1>1
  <2>2. results[i + 1] \in Result /\ results[i + 1].who # c
    BY <2>1 DEF TInv, TypeOK, ResultsMatch
  <2>3. results[i + 1].who \in Callers \ {c}
    BY <2>2 DEF Result
  <2> QED BY <1>1, <2>1, <2>3 DEF StepOf, Fetched, Stored, At
<1>3. ASSUME NEW i \in 1..Len(results), i # 1
      PROVE  i - 1 \in 1..m /\ (i - 1) + 1 = i
  BY <1>1, <1>3
<1>4. 1 \in 1..Len(results) /\ (results[1].ok /\ from = {"fetched"} => Fetched(1))
  BY <1>1 DEF Fetched, At, StepOf
<1>5. Acked' = Acked \/ (Stored(1) /\ Acked' = Acked \cup {c} /\ c \in committed)
  BY AckedAfter
<1>6. Acked \subseteq committed /\ Acked' \subseteq committed
  BY <1>5 DEF Fresh, AckedIn
<1> HIDE DEF m
<1>7. ASSUME NEW j \in 1..Len(results), NEW i \in 1..Len(results), j < i, Stored(i)
      PROVE  i - 1 \in 1..m /\ Stored(i - 1)' /\ (j # 1 => j - 1 < i - 1)
  <2>1. i # 1 /\ i \in Nat /\ j \in Nat
    BY <1>7, <1>1
  <2> QED BY <2>1, <1>7, <1>2, <1>3
<1>8. ResultsFresh'
  <2> SUFFICES ASSUME NEW j \in 1..m, Fetched(j)'
               PROVE  \/ committed \subseteq results'[j].doc
                      \/ \E i \in 1..m : j < i /\ Stored(i)'
    BY <1>1 DEF ResultsFresh
  <2>1. /\ j + 1 \in 1..Len(results) /\ Fetched(j + 1) /\ results'[j] = results[j + 1]
        /\ j \in Nat \ {0}
    BY <1>1, <1>2
  <2>2. \/ committed \subseteq results[j + 1].doc
        \/ \E i \in 1..Len(results) : j + 1 < i /\ Stored(i)
    BY <1>1, <2>1 DEF Fresh, ResultsFresh
  <2>3. ASSUME NEW i \in 1..Len(results), j + 1 < i, Stored(i)
        PROVE  i - 1 \in 1..m /\ j < i - 1 /\ Stored(i - 1)'
    BY <2>1, <2>3, <1>7
  <2> QED BY <2>1, <2>2, <2>3
<1>9. CacheFresh'
  <2> SUFFICES ASSUME cache' # NoDoc
               PROVE  committed \subseteq cache' \/ \E i \in 1..m : Stored(i)'
    BY <1>1 DEF CacheFresh
  <2>1. CASE cache' = cache /\ ~results[1].ok
    <3>1. committed \subseteq cache \/ \E i \in 1..Len(results) : Stored(i)
      BY <2>1, <1>1 DEF Fresh, CacheFresh
    <3>2. ASSUME NEW i \in 1..Len(results), Stored(i)
          PROVE  i - 1 \in 1..m /\ Stored(i - 1)'
      <4>1. i # 1
        BY <2>1, <3>2 DEF Stored
      <4> QED BY <4>1, <3>2, <1>2, <1>3
    <3> QED BY <2>1, <3>1, <3>2
  <2>2. CASE cache' = results[1].doc /\ results[1].ok
    <3>1. CASE Stored(1)
      BY <2>2, <3>1, <1>1, <1>4 DEF Fresh, StoredLast
    <3>2. CASE Fetched(1)
      <4>1. \/ committed \subseteq results[1].doc
            \/ \E i \in 1..Len(results) : 1 < i /\ Stored(i)
        BY <3>2, <1>1, <1>4 DEF Fresh, ResultsFresh
      <4> QED BY <4>1, <2>2, <1>4, <1>7
    <3> QED BY <2>2, <3>1, <3>2, <1>4
  <2> QED BY <2>1, <2>2
<1>10. StoredLast'
  <2> SUFFICES ASSUME NEW i \in 1..m, Stored(i)'
               PROVE  committed = results'[i].doc
    BY <1>1 DEF StoredLast
  <2> QED BY <1>1, <1>2 DEF Fresh, StoredLast
<1>11. CacheSees'
  <2> SUFFICES ASSUME cache' # NoDoc PROVE Acked' \subseteq cache'
    BY DEF CacheSees
  <2>1. CASE Stored(1)
    BY <2>1, <1>1, <1>4, <1>6 DEF Fresh, StoredLast, Stored
  <2>2. CASE ~Stored(1) /\ cache' = cache
    BY <2>2, <1>5 DEF Seen, CacheSees
  <2>3. CASE ~Stored(1) /\ cache' = results[1].doc /\ results[1].ok
    BY <2>3, <1>1, <1>4, <1>5 DEF Seen, ResultsSee
  <2> QED BY <2>1, <2>2, <2>3
<1>12. ResultsSee'
  <2> SUFFICES ASSUME NEW i \in 1..m, Fetched(i)'
               PROVE  Acked' \subseteq results'[i].doc
    BY <1>1 DEF ResultsSee
  <2>1. i + 1 \in 1..Len(results) /\ Fetched(i + 1) /\ results'[i] = results[i + 1]
    BY <1>2
  <2>2. Acked \subseteq results[i + 1].doc
    BY <2>1, <1>1 DEF Seen, ResultsSee
  <2>3. CASE Acked' = Acked
    BY <2>1, <2>2, <2>3
  <2>4. CASE Stored(1)
    <3>1. ASSUME NEW k \in 1..Len(results), i + 1 < k, Stored(k) PROVE FALSE
      <4>1. results[1].who \in Updaters /\ callers[results[1].who].pc \in PastMutex
        BY <2>4, <1>1, <1>4, StoredByHolder
      <4>2. results[k].who \in Updaters /\ callers[results[k].who].pc \in PastMutex
        BY <3>1, <1>1, StoredByHolder
      <4>3. results[k].who = results[1].who
        BY <4>1, <4>2, OneHolder
      <4>4. k = 1
        BY <4>3, <1>1, <1>4 DEF TInv, ResultsMatch
      <4>5. i \in Nat
        BY <1>1
      <4> QED BY <3>1, <4>4, <4>5
    <3>2. committed \subseteq results[i + 1].doc
      BY <2>1, <3>1, <1>1 DEF Fresh, ResultsFresh
    <3> QED BY <2>1, <3>2, <1>6
  <2> QED BY <2>3, <2>4, <1>5
<1> QED BY <1>8, <1>9, <1>10, <1>11, <1>12 DEF Order

-----------------------------------------------------------------------------
(* The invariant holds after a step of one caller that leaves the row, or  *)
(* writes its document to it under the mutex.                              *)

LEMMA StartedGrows ==
  ASSUME NEW c \in Callers, NEW from, NEW to, StepOf(c, from, to), to # "idle"
  PROVE  Started \subseteq Started' /\ (c \in Updaters => c \in Started')
<1>1. ASSUME NEW u \in Started PROVE u \in Started'
  <2>1. u \in Updaters /\ callers[u].pc # "idle" /\ u \in Callers
    BY <1>1 DEF Started, At, Callers
  <2>2. callers'[u].pc # "idle"
    BY <2>1 DEF StepOf
  <2> QED BY <2>1, <2>2 DEF Started, At
<1>2. c \in Updaters => c \in Started'
  BY DEF StepOf, Started, At
<1> QED BY <1>1, <1>2

LEMMA FreshPreserved ==
  ASSUME FInv, TInv', Order', NEW c \in Callers, NEW from, NEW to, StepOf(c, from, to),
         "done" \notin from, to \notin {"idle", "booting", "booted"},
         \/ committed' = committed
         \/ /\ c \in Updaters /\ callers[c].pc = "writing"
            /\ committed' = callers[c].work /\ callers'[c].work = callers[c].work,
         view' = committed', tx' = tx,
         \A i \in DOMAIN results' : results'[i].doc \in Docs /\ results'[i].doc \subseteq Started',
         c \in Updaters /\ to \in {"mutating", "writing"} => committed' \subseteq callers'[c].work,
         c \in Updaters /\ to \in {"writing", "written"} => c \in callers'[c].work,
         c \in Updaters /\ to = "done" => c \in committed,
         callers'[c].work \subseteq Started',
         cache' # NoDoc => cache' \subseteq Started',
         callers'[c].known \subseteq Acked,
         c \in Readers /\ to = "done" => callers'[c].known \subseteq callers'[c].work
  PROVE  FInv'
<1> USE DEF FInv
<1>1. committed' \in Docs /\ committed \subseteq committed' /\ committed' \subseteq Started'
  <2>1. committed \in Docs /\ committed \subseteq Started /\ callers[c].work \subseteq Started
    BY DEF Fresh, Settled, AllStarted
  <2>2. callers[c].work \in Docs
    BY DEF TInv, TypeOK, Caller
  <2>3. c \in Updaters /\ callers[c].pc = "writing" => committed \subseteq callers[c].work
    BY DEF Fresh, HolderFresh
  <2> QED BY <2>1, <2>2, <2>3, StartedGrows
<1>2. Settled'
  <2>1. \A d \in Callers : callers'[d].pc \notin {"booting", "booted"}
    BY DEF Fresh, Settled, StepOf
  <2> QED BY <1>1, <2>1 DEF Fresh, Settled
<1>3. HolderFresh'
  <2> SUFFICES ASSUME NEW u \in Updaters, callers'[u].pc \in {"mutating", "writing"}
               PROVE  committed' \subseteq callers'[u].work
    BY DEF HolderFresh
  <2>1. CASE u = c
    BY <2>1 DEF StepOf
  <2>2. CASE u # c
    <3>1. /\ callers[u].pc \in {"mutating", "writing"}
          /\ callers'[u].work = callers[u].work
      BY <2>2 DEF StepOf, Callers
    <3>2. committed \subseteq callers[u].work /\ callers[u].pc \in PastMutex
      BY <3>1 DEF Fresh, HolderFresh, PastMutex
    <3>3. ASSUME c \in Updaters, callers[c].pc = "writing" PROVE FALSE
      BY <3>2, <3>3, <2>2, OneHolder DEF PastMutex
    <3> QED BY <3>1, <3>2, <3>3
  <2> QED BY <2>1, <2>2
<1>4. OwnUpdate'
  <2> SUFFICES ASSUME NEW u \in Updaters, callers'[u].pc \in {"writing", "written"}
               PROVE  u \in callers'[u].work
    BY DEF OwnUpdate
  <2>1. CASE u = c
    BY <2>1 DEF StepOf
  <2>2. CASE u # c
    BY <2>2 DEF StepOf, Callers, Fresh, OwnUpdate
  <2> QED BY <2>1, <2>2
<1>5. Acked \subseteq Acked' /\ AckedIn'
  BY <1>1, AckedAfter DEF Fresh, AckedIn
<1>6. KnownAcked'
  <2> SUFFICES ASSUME NEW d \in Callers PROVE callers'[d].known \subseteq Acked
    BY <1>5 DEF KnownAcked
  <2> QED BY DEF StepOf, Seen, KnownAcked
<1>7. ReadsSeeAcked'
  <2> SUFFICES ASSUME NEW d \in Readers, callers'[d].pc = "done"
               PROVE  callers'[d].known \subseteq callers'[d].work
    BY DEF ReadsSeeAcked, At
  <2>1. CASE d = c
    BY <2>1 DEF StepOf
  <2>2. CASE d # c
    BY <2>2 DEF StepOf, Callers, Seen, ReadsSeeAcked, At
  <2> QED BY <2>1, <2>2
<1>8. AllStarted'
  <2>1. ASSUME NEW d \in Callers PROVE callers'[d].work \subseteq Started'
    BY StartedGrows DEF StepOf, AllStarted
  <2> QED BY <1>1, <2>1 DEF AllStarted
<1> QED BY <1>2, <1>3, <1>4, <1>5, <1>6, <1>7, <1>8 DEF Order, Fresh, Seen

(* The documents of the results stay documents of started updates.         *)
LEMMA DocsKept ==
  ASSUME FInv, Started \subseteq Started',
         \/ results' = results
         \/ 1 \in DOMAIN results /\ results' = Without(results, 1)
  PROVE  \A i \in DOMAIN results' :
           results'[i].doc \in Docs /\ results'[i].doc \subseteq Started'
<1>1. \A i \in DOMAIN results : results[i].doc \in Docs /\ results[i].doc \subseteq Started
  BY DEF FInv, Fresh, Settled, AllStarted
<1>2. CASE results' = results
  BY <1>1, <1>2
<1>3. CASE 1 \in DOMAIN results /\ results' = Without(results, 1)
  <2>1. /\ DOMAIN results = 1..Len(results) /\ Len(results) \in Nat \ {0}
        /\ DOMAIN results' = 1..Len(results) - 1
        /\ \A i \in 1..Len(results) - 1 : results'[i] = results[i + 1]
    BY <1>3, LeftOut DEF FInv, TInv, TypeOK
  <2>2. ASSUME NEW i \in 1..Len(results) - 1
        PROVE  i + 1 \in DOMAIN results /\ results'[i] = results[i + 1]
    BY <2>1
  <2> QED BY <1>1, <2>1, <2>2
<1> QED BY <1>2, <1>3

LEMMA DocsQueued ==
  ASSUME FInv, Started \subseteq Started', NEW r \in Result,
         r.doc \in Docs, r.doc \subseteq Started, results' = Append(results, r)
  PROVE  \A i \in DOMAIN results' :
           results'[i].doc \in Docs /\ results'[i].doc \subseteq Started'
<1>1. \A i \in DOMAIN results : results[i].doc \in Docs /\ results[i].doc \subseteq Started
  BY DEF FInv, Fresh, Settled, AllStarted
<1>2. /\ DOMAIN results = 1..Len(results) /\ Len(results) \in Nat
      /\ DOMAIN results' = 1..Len(results) + 1
      /\ \A i \in 1..Len(results) : results'[i] = results[i]
      /\ results'[Len(results) + 1] = r
  BY Appended DEF FInv, TInv, TypeOK
<1>3. \A i \in 1..Len(results) + 1 : i = Len(results) + 1 \/ i \in 1..Len(results)
  BY <1>2
<1> QED BY <1>1, <1>2, <1>3

-----------------------------------------------------------------------------
(* Every action preserves the invariant.                                   *)

LEMMA CallerFacts ==
  ASSUME FInv, NEW c \in Callers
  PROVE  /\ callers[c].work \in Docs /\ callers[c].work \subseteq Started
         /\ callers[c].known \subseteq Acked
         /\ callers[c].pc \notin {"booting", "booted"}
BY DEF FInv, TInv, TypeOK, Caller, AllStarted, Seen, KnownAcked, Fresh, Settled

LEMMA RowFacts ==
  ASSUME FInv
  PROVE  /\ committed \in Docs /\ view = committed /\ tx = NoTx
         /\ committed \subseteq Started /\ (cache # NoDoc => cache \subseteq Started)
BY DEF FInv, Fresh, Settled, AllStarted

LEMMA RequestUpdateFresh ==
  ASSUME FInv, NEW u \in Updaters, RequestUpdate(u)
  PROVE  FInv'
<1>1. TInv' /\ TInv
  BY RequestUpdateTyped DEF FInv
<1>2. u \in Callers /\ callers[u].pc \in {"idle"}
  BY Apart DEF RequestUpdate, At
<1>3. /\ StepOf(u, {"idle"}, "waiting") /\ callers'[u].work = callers[u].work
      /\ callers'[u].known = callers[u].known
  BY <1>1, <1>2, Moved DEF RequestUpdate, TInv, TypeOK
<1>4. /\ results' = results /\ committed' = committed /\ cache' = cache
      /\ view' = committed' /\ tx' = tx
  BY RowFacts DEF RequestUpdate, database
<1>5. Order'
  BY <1>2, <1>3, <1>4, OrderKept DEF ResultPcs
<1>6. Started \subseteq Started'
  BY <1>2, <1>3, StartedGrows
<1>7. \A i \in DOMAIN results' :
        results'[i].doc \in Docs /\ results'[i].doc \subseteq Started'
  BY <1>4, <1>6, DocsKept
<1>8. /\ callers'[u].work \subseteq Started' /\ callers'[u].known \subseteq Acked
      /\ cache' # NoDoc => cache' \subseteq Started'
  BY <1>2, <1>3, <1>4, <1>6, CallerFacts, RowFacts
<1> QED BY <1>1, <1>2, <1>3, <1>4, <1>5, <1>7, <1>8, FreshPreserved

LEMMA ReadCacheFresh ==
  ASSUME FInv, NEW c \in Callers, ReadCache(c)
  PROVE  FInv'
<1> DEFINE to == IF c \in Updaters THEN "mutating" ELSE "done"
<1>1. TInv' /\ TInv
  BY ReadCacheTyped DEF FInv
<1>2. /\ StepOf(c, {"idle", "waiting"}, to) /\ callers'[c].work = cache
      /\ callers'[c].known = Acked /\ cache # NoDoc
  BY <1>1, ReadCacheFacts
<1>3. /\ results' = results /\ committed' = committed /\ cache' = cache
      /\ view' = committed' /\ tx' = tx
  BY RowFacts DEF ReadCache, database
<1>4. /\ to \notin ResultPcs /\ to \notin {"idle", "booting", "booted", "writing", "written"}
      /\ (to = "done" => c \notin Updaters) /\ (to = "mutating" => c \in Updaters)
  BY DEF ResultPcs
<1> HIDE DEF to
<1>5. Order'
  BY <1>2, <1>3, <1>4, OrderKept DEF ResultPcs
<1>6. Started \subseteq Started'
  BY <1>2, <1>4, StartedGrows
<1>7. \A i \in DOMAIN results' :
        results'[i].doc \in Docs /\ results'[i].doc \subseteq Started'
  BY <1>3, <1>6, DocsKept
<1>8. c \in Updaters => committed \subseteq cache
  <2> SUFFICES ASSUME c \in Updaters PROVE committed \subseteq cache
    OBVIOUS
  <2>1. Head(queue) = c /\ callers[c].pc = "waiting"
    BY DEF ReadCache, MayRead, At
  <2>2. \A i \in DOMAIN results : ~Stored(i)
    BY <1>1, <2>1, NoneStored
  <2> QED BY <1>2, <2>2 DEF FInv, Fresh, CacheFresh
<1>9. /\ cache \subseteq Started' /\ Acked \subseteq cache
  BY <1>2, <1>6, RowFacts DEF FInv, Seen, CacheSees
<1> QED BY <1>1, <1>2, <1>3, <1>4, <1>5, <1>7, <1>8, <1>9, FreshPreserved

LEMMA ReadDatabaseFresh ==
  ASSUME FInv, NEW c \in Callers, ReadDatabase(c)
  PROVE  FInv'
<1>1. TInv' /\ TInv
  BY ReadDatabaseTyped DEF FInv
<1>2. /\ StepOf(c, {"idle", "waiting"}, "reading") /\ callers'[c].work = callers[c].work
      /\ callers'[c].known = Acked
  BY <1>1, ReadDatabaseFacts
<1>3. /\ results' = results /\ committed' = committed /\ cache' = cache
      /\ view' = committed' /\ tx' = tx
  BY RowFacts DEF ReadDatabase, database
<1>4. Order'
  BY <1>2, <1>3, OrderKept DEF ResultPcs
<1>5. Started \subseteq Started'
  BY <1>2, StartedGrows
<1>6. \A i \in DOMAIN results' :
        results'[i].doc \in Docs /\ results'[i].doc \subseteq Started'
  BY <1>3, <1>5, DocsKept
<1>7. /\ callers'[c].work \subseteq Started'
      /\ cache' # NoDoc => cache' \subseteq Started'
  BY <1>2, <1>3, <1>5, CallerFacts, RowFacts
<1> QED BY <1>1, <1>2, <1>3, <1>4, <1>6, <1>7, FreshPreserved

LEMMA RunGetFresh ==
  ASSUME FInv, NEW c \in Callers, NEW ok \in BOOLEAN, RunGet(c, ok)
  PROVE  FInv'
<1>1. TInv' /\ TInv
  BY RunGetTyped DEF FInv
<1>2. callers[c].pc \in {"reading"}
  BY DEF RunGet, At
<1>3. /\ StepOf(c, {"reading"}, "fetched") /\ callers'[c].work = callers[c].work
      /\ callers'[c].known = callers[c].known
  BY <1>1, <1>2, Moved DEF RunGet, TInv, TypeOK
<1>4. /\ committed' = committed /\ cache' = cache
      /\ view' = committed' /\ tx' = tx
  BY RowFacts DEF RunGet, database
<1>5. PICK r : r = [who |-> c, ok |-> ok, doc |-> committed]
  OBVIOUS
<1>6. /\ r \in Result /\ r.who = c /\ r.doc = committed /\ r.ok = ok
      /\ results' = Append(results, r)
  BY <1>5, RowFacts DEF Result, RunGet
<1>7. Order'
  BY <1>3, <1>4, <1>6, OrderQueued DEF ResultPcs
<1>8. Started \subseteq Started'
  BY <1>3, StartedGrows
<1>9. \A i \in DOMAIN results' :
        results'[i].doc \in Docs /\ results'[i].doc \subseteq Started'
  BY <1>6, <1>8, DocsQueued, RowFacts
<1>10. /\ callers'[c].work \subseteq Started' /\ callers'[c].known \subseteq Acked
       /\ cache' # NoDoc => cache' \subseteq Started'
  BY <1>3, <1>4, <1>8, CallerFacts, RowFacts
<1> QED BY <1>1, <1>3, <1>4, <1>7, <1>9, <1>10, FreshPreserved

LEMMA GetArrivesFresh ==
  ASSUME Quiet, FInv, NEW c \in Callers, GetArrives(c)
  PROVE  FInv'
<1> DEFINE to == IF c \in Updaters THEN "mutating" ELSE "done"
<1>1. TInv' /\ TInv
  BY GetArrivesTyped DEF FInv
<1>2. PICK r \in Pending :
        /\ At(c, "fetched") /\ r.ok /\ r.doc # NoDoc
        /\ Arrives(c, r) /\ Refill(c, r.doc, Holding(c, r.doc, c \in InPlace))
        /\ UNCHANGED queue
  BY DEF GetArrives
<1>3. /\ StepOf(c, {"fetched"}, to) /\ callers'[c].work = r.doc
      /\ callers'[c].known = callers[c].known /\ cache' = r.doc
  BY <1>1, <1>2, GetArrivesFacts
<1>4. /\ 1 \in DOMAIN results /\ results' = Without(results, 1)
      /\ r = results[1] /\ r.who = c
  BY <1>1, <1>2, InOrder
<1>5. committed' = committed /\ view' = committed' /\ tx' = tx
  BY <1>2, RowFacts DEF Arrives, database
<1>6. /\ to \notin ResultPcs /\ to \notin {"idle", "booting", "booted", "writing", "written"}
      /\ (to = "done" => c \notin Updaters) /\ (to = "mutating" => c \in Updaters)
  BY DEF ResultPcs
<1> HIDE DEF to
<1>7. Order'
  BY <1>2, <1>3, <1>4, <1>5, <1>6, OrderTaken
<1>8. Started \subseteq Started'
  BY <1>3, <1>6, StartedGrows
<1>9. \A i \in DOMAIN results' :
        results'[i].doc \in Docs /\ results'[i].doc \subseteq Started'
  BY <1>4, <1>8, DocsKept
<1>10. Fetched(1)
  BY <1>2, <1>4 DEF Fetched
<1>11. c \in Updaters => committed \subseteq r.doc
  <2> SUFFICES ASSUME c \in Updaters PROVE committed \subseteq r.doc
    OBVIOUS
  <2>1. callers[c].pc = "fetched" /\ callers[c].pc \in PastMutex
    BY <1>2 DEF At, PastMutex
  <2>2. \A i \in DOMAIN results : ~Stored(i)
    BY <1>1, <2>1, NoneStored
  <2> QED BY <1>4, <1>10, <2>2 DEF FInv, Fresh, ResultsFresh
<1>12. r.doc \subseteq Started' /\ callers[c].known \subseteq Acked /\ Acked \subseteq r.doc
  BY <1>4, <1>8, <1>10, CallerFacts DEF FInv, AllStarted, Seen, ResultsSee
<1> QED BY <1>1, <1>3, <1>5, <1>6, <1>7, <1>9, <1>11, <1>12, FreshPreserved

(* Nobody boots: there is a row.                                           *)
LEMMA NoBoot ==
  ASSUME FInv, NEW c \in Callers
  PROVE  ~FirstBoot(c) /\ ~BootArrives(c)
<1>1. ASSUME FirstBoot(c) PROVE FALSE
  <2>1. PICK r \in Pending : r.doc = NoDoc
    BY <1>1 DEF FirstBoot
  <2>2. r.doc \in Docs
    BY DEF Pending, FInv, Fresh, Settled
  <2> QED BY <2>1, <2>2, Apart
<1>2. ASSUME BootArrives(c) PROVE FALSE
  BY <1>2, CallerFacts DEF BootArrives, At
<1> QED BY <1>1, <1>2

LEMMA StatementFailsFresh ==
  ASSUME Quiet, FInv, NEW c \in Callers, StatementFails(c)
  PROVE  FInv'
<1>1. TInv' /\ TInv
  BY StatementFailsTyped DEF FInv
<1>2. PICK r \in Pending :
        /\ callers[c].pc \in ResultPcs /\ ~r.ok /\ Arrives(c, r)
        /\ Fails(c) /\ UNCHANGED <<cache, fresh>>
  BY DEF StatementFails, ResultPcs
<1>3. /\ StepOf(c, ResultPcs, "failed") /\ callers'[c].work = callers[c].work
      /\ callers'[c].known = callers[c].known
  BY <1>1, <1>2, Moved DEF Fails, TInv, TypeOK
<1>4. /\ 1 \in DOMAIN results /\ results' = Without(results, 1)
      /\ r = results[1] /\ r.who = c /\ cache' = cache
  BY <1>1, <1>2, InOrder
<1>5. committed' = committed /\ view' = committed' /\ tx' = tx
  BY <1>2, RowFacts DEF Arrives, database
<1>6. Order'
  BY <1>2, <1>3, <1>4, <1>5, OrderTaken DEF ResultPcs
<1>7. Started \subseteq Started'
  BY <1>3, StartedGrows
<1>8. \A i \in DOMAIN results' :
        results'[i].doc \in Docs /\ results'[i].doc \subseteq Started'
  BY <1>4, <1>7, DocsKept
<1>9. /\ callers'[c].work \subseteq Started' /\ callers'[c].known \subseteq Acked
      /\ cache' # NoDoc => cache' \subseteq Started'
  BY <1>3, <1>4, <1>7, CallerFacts, RowFacts
<1> QED BY <1>1, <1>3, <1>5, <1>6, <1>8, <1>9, FreshPreserved DEF ResultPcs

LEMMA ShownFacts ==
  ASSUME FInv, NEW u \in Updaters, At(u, "mutating"),
         cache' = cache \/ cache' = Shown(u)
  PROVE  /\ cache' = cache \/ (cache # NoDoc /\ cache \subseteq cache')
         /\ cache' # NoDoc => cache' \subseteq Started
<1>1. u \in Callers /\ u \in Started
  BY DEF At, Started, Callers
<1>2. callers[u].shares => cache # NoDoc
  BY <1>1 DEF FInv, TInv, SharersHaveCache
<1> QED BY <1>1, <1>2, RowFacts DEF Shown

LEMMA MutateFresh ==
  ASSUME FInv, NEW u \in Updaters, Mutate(u)
  PROVE  FInv'
<1>1. TInv' /\ TInv /\ u \in Callers
  BY MutateTyped, Apart DEF FInv
<1>2. /\ StepOf(u, {"mutating"}, "writing") /\ callers'[u].work = callers[u].work \cup {u}
      /\ callers'[u].known = callers[u].known
  BY <1>1, MutateFacts
<1>3. /\ results' = results /\ committed' = committed /\ view' = committed' /\ tx' = tx
      /\ cache' = Shown(u) /\ At(u, "mutating")
  BY RowFacts DEF Mutate, database
<1>4. /\ cache' = cache \/ (cache # NoDoc /\ cache \subseteq cache')
      /\ cache' # NoDoc => cache' \subseteq Started
  BY <1>3, ShownFacts
<1>5. Order'
  BY <1>1, <1>2, <1>3, <1>4, OrderKept DEF ResultPcs
<1>6. Started \subseteq Started' /\ u \in Started'
  BY <1>1, <1>2, StartedGrows
<1>7. \A i \in DOMAIN results' :
        results'[i].doc \in Docs /\ results'[i].doc \subseteq Started'
  BY <1>3, <1>6, DocsKept
<1>8. /\ callers'[u].work \subseteq Started' /\ callers'[u].known \subseteq Acked
      /\ cache' # NoDoc => cache' \subseteq Started'
  BY <1>1, <1>2, <1>4, <1>6, CallerFacts
<1>9. committed \subseteq callers[u].work
  BY <1>3 DEF At, FInv, Fresh, HolderFresh
<1> QED BY <1>1, <1>2, <1>3, <1>5, <1>7, <1>8, <1>9, FreshPreserved

LEMMA MutateThrowsFresh ==
  ASSUME FInv, NEW u \in Updaters, MutateThrows(u)
  PROVE  FInv'
<1>1. TInv' /\ TInv /\ u \in Callers /\ callers[u].pc \in {"mutating"}
  BY MutateThrowsTyped, Apart DEF FInv, MutateThrows, At
<1>2. /\ StepOf(u, {"mutating"}, "failed") /\ callers'[u].work = callers[u].work
      /\ callers'[u].known = callers[u].known
  BY <1>1, Moved DEF MutateThrows, Fails, TInv, TypeOK
<1>3. /\ results' = results /\ committed' = committed /\ view' = committed' /\ tx' = tx
      /\ At(u, "mutating") /\ (cache' = cache \/ cache' = Shown(u))
  BY RowFacts DEF MutateThrows, database
<1>4. /\ cache' = cache \/ (cache # NoDoc /\ cache \subseteq cache')
      /\ cache' # NoDoc => cache' \subseteq Started
  BY <1>3, ShownFacts
<1>5. Order'
  BY <1>1, <1>2, <1>3, <1>4, OrderKept DEF ResultPcs
<1>6. Started \subseteq Started'
  BY <1>1, <1>2, StartedGrows
<1>7. \A i \in DOMAIN results' :
        results'[i].doc \in Docs /\ results'[i].doc \subseteq Started'
  BY <1>3, <1>6, DocsKept
<1>8. /\ callers'[u].work \subseteq Started' /\ callers'[u].known \subseteq Acked
      /\ cache' # NoDoc => cache' \subseteq Started'
  BY <1>1, <1>2, <1>4, <1>6, CallerFacts
<1> QED BY <1>1, <1>2, <1>3, <1>5, <1>7, <1>8, FreshPreserved

(* Only an updater writes, and the row is its document at once.            *)
LEMMA WriteFacts ==
  ASSUME FInv, NEW c \in Callers, RunWrite(c) \/ RunWriteFails(c)
  PROVE  /\ c \in Updaters /\ callers[c].pc = "writing"
         /\ StepOf(c, {"writing"}, "written") /\ callers'[c].work = callers[c].work
         /\ callers'[c].known = callers[c].known
         /\ cache' = cache /\ view' = committed' /\ tx' = tx
         /\ RunWrite(c) => committed' = callers[c].work
         /\ RunWriteFails(c) => committed' = committed
<1>1. callers[c].pc = "writing"
  BY CallerFacts DEF RunWrite, RunWriteFails, Issued
<1>2. c \in Updaters
  BY <1>1 DEF FInv, TInv, ReadersOnlyRead, Callers
<1>3. Moves(c, "written")
  BY <1>1 DEF RunWrite, RunWriteFails, AfterRun, At
<1>4. /\ StepOf(c, {"writing"}, "written") /\ callers'[c].work = callers[c].work
      /\ callers'[c].known = callers[c].known
  BY <1>1, <1>3, Moved DEF FInv, TInv, TypeOK
<1>5. /\ cache' = cache /\ view' = committed' /\ tx' = tx
      /\ RunWrite(c) => committed' = callers[c].work
      /\ RunWriteFails(c) => committed' = committed
  BY RowFacts DEF RunWrite, RunWriteFails, database
<1> QED BY <1>1, <1>2, <1>4, <1>5

LEMMA RunWriteFresh ==
  ASSUME FInv, NEW c \in Callers, RunWrite(c) \/ RunWriteFails(c)
  PROVE  FInv'
<1>1. TInv' /\ TInv
  BY RunWriteTyped DEF FInv
<1>2. /\ c \in Updaters /\ callers[c].pc = "writing"
      /\ StepOf(c, {"writing"}, "written") /\ callers'[c].work = callers[c].work
      /\ callers'[c].known = callers[c].known
      /\ cache' = cache /\ view' = committed' /\ tx' = tx
  BY WriteFacts
<1>5. /\ callers[c].work \in Docs /\ callers[c].work \subseteq Started
      /\ callers[c].known \subseteq Acked
  BY CallerFacts
<1>6. PICK q \in Result :
        /\ q.who = c /\ q.doc = callers[c].work /\ results' = Append(results, q)
        /\ \/ ~q.ok /\ committed' = committed
           \/ q.ok /\ committed' = callers[c].work
  <2>1. ASSUME NEW b \in BOOLEAN
        PROVE  LET q == [who |-> c, ok |-> b, doc |-> callers[c].work]
               IN  q \in Result /\ q.who = c /\ q.doc = callers[c].work /\ q.ok = b
    BY <1>5 DEF Result
  <2>2. CASE RunWrite(c)
    <3>1. /\ results' = Append(results, [who |-> c, ok |-> TRUE, doc |-> callers[c].work])
          /\ committed' = callers[c].work
      BY <2>2, WriteFacts DEF RunWrite
    <3> QED BY <2>1, <3>1
  <2>3. CASE RunWriteFails(c)
    <3>1. /\ results' = Append(results, [who |-> c, ok |-> FALSE, doc |-> callers[c].work])
          /\ committed' = committed
      BY <2>3, WriteFacts DEF RunWriteFails
    <3> QED BY <2>1, <3>1
  <2> QED BY <2>2, <2>3
<1>7. \A i \in DOMAIN results : ~Stored(i)
  BY <1>1, <1>2, NoneStored DEF PastMutex
<1>8. Order'
  BY <1>2, <1>6, <1>7, OrderQueued DEF ResultPcs
<1>9. Started \subseteq Started'
  BY <1>2, StartedGrows
<1>10. \A i \in DOMAIN results' :
         results'[i].doc \in Docs /\ results'[i].doc \subseteq Started'
  BY <1>5, <1>6, <1>9, DocsQueued
<1>11. c \in callers[c].work
  BY <1>2 DEF FInv, Fresh, OwnUpdate
<1>12. callers'[c].work \subseteq Started' /\ (cache' # NoDoc => cache' \subseteq Started')
  BY <1>2, <1>5, <1>9, RowFacts
<1> QED BY <1>1, <1>2, <1>5, <1>6, <1>8, <1>10, <1>11, <1>12, Apart, FreshPreserved

(* A write that arrived is the row, whatever its caller is told.           *)
LEMMA StoredArrives ==
  ASSUME Quiet, FInv, NEW c \in Callers, NEW r \in Pending, NEW to \in {"done", "failed"},
         callers[c].pc \in WrittenPcs, r.ok, Arrives(c, r),
         Refill(c, r.doc, [callers[c] EXCEPT !.pc = to]), TInv'
  PROVE  /\ FInv' /\ StepOf(c, WrittenPcs, to) /\ committed' = committed
         /\ c \in Updaters /\ c \in committed
<1>1. TInv /\ callers[c].pc = "written"
  BY CallerFacts DEF FInv, WrittenPcs
<1>2. c \in Updaters
  BY <1>1 DEF TInv, ReadersOnlyRead, Callers
<1>3. /\ StepOf(c, WrittenPcs, to) /\ callers'[c].work = callers[c].work
      /\ callers'[c].known = callers[c].known /\ cache' = r.doc
  BY <1>1, WriteArrivesFacts
<1>4. /\ 1 \in DOMAIN results /\ results' = Without(results, 1)
      /\ r = results[1] /\ r.who = c /\ r.doc = callers[c].work
  BY <1>1, InOrder, Arrived
<1>5. Stored(1)
  BY <1>1, <1>4 DEF Stored, At
<1>6. committed = r.doc /\ c \in committed
  BY <1>1, <1>2, <1>4, <1>5 DEF FInv, Fresh, StoredLast, OwnUpdate
<1>7. committed' = committed /\ view' = committed' /\ tx' = tx
  BY RowFacts DEF Arrives, database
<1>8. Order'
  BY <1>3, <1>4, <1>5, <1>6, <1>7, OrderTaken DEF WrittenPcs, ResultPcs
<1>9. Started \subseteq Started'
  BY <1>3, StartedGrows
<1>10. \A i \in DOMAIN results' :
         results'[i].doc \in Docs /\ results'[i].doc \subseteq Started'
  BY <1>4, <1>9, DocsKept
<1>11. /\ callers'[c].work \subseteq Started' /\ callers'[c].known \subseteq Acked
       /\ cache' # NoDoc => cache' \subseteq Started'
  BY <1>3, <1>4, <1>9, CallerFacts
<1>12. FInv'
  BY <1>2, <1>3, <1>6, <1>7, <1>8, <1>10, <1>11, Apart, FreshPreserved DEF WrittenPcs
<1> QED BY <1>2, <1>3, <1>6, <1>7, <1>12

LEMMA CrashFresh ==
  ASSUME FInv, Crash
  PROVE  FInv' /\ committed' = committed /\ Started' = Started /\ Acked' = Acked
<1>1. TInv' /\ TInv
  BY CrashTyped DEF FInv
<1>2. ASSUME NEW c \in Callers
      PROVE  /\ callers'[c].work = callers[c].work /\ callers'[c].known = callers[c].known
             /\ callers'[c].pc = IF callers[c].pc \in Over THEN callers[c].pc ELSE "lost"
  <2>1. callers[c] \in Caller
    BY <1>1 DEF TInv, TypeOK
  <2> QED BY <2>1 DEF Crash, Caller
<1>3. /\ committed' = committed /\ view' = committed' /\ tx' = NoTx /\ cache' = NoDoc
      /\ results' = <<>>
  BY DEF Crash
<1>4. Started' = Started /\ Acked' = Acked
  BY <1>2 DEF Started, Acked, At, Over, Callers
<1>5. Settled'
  BY <1>2, <1>3, RowFacts DEF Settled, Over
<1>6. ResultsFresh' /\ CacheFresh' /\ StoredLast' /\ CacheSees' /\ ResultsSee'
  BY <1>3 DEF ResultsFresh, CacheFresh, StoredLast, CacheSees, ResultsSee
<1>7. HolderFresh' /\ OwnUpdate'
  BY <1>2 DEF HolderFresh, OwnUpdate, Over, Callers
<1>8. AckedIn' /\ KnownAcked'
  BY <1>2, <1>3, <1>4 DEF FInv, Fresh, Seen, AckedIn, KnownAcked
<1>9. ReadsSeeAcked'
  BY <1>2 DEF FInv, Seen, ReadsSeeAcked, Over, At, Callers
<1>10. AllStarted'
  BY <1>2, <1>3, <1>4 DEF FInv, AllStarted
<1> QED BY <1>1, <1>3, <1>4, <1>5, <1>6, <1>7, <1>8, <1>9, <1>10 DEF FInv, Fresh, Seen

LEMMA IdleFresh ==
  ASSUME FInv, Age \/ UNCHANGED vars
  PROVE  FInv' /\ committed' = committed /\ Started' = Started /\ Acked' = Acked
<1>1. TInv'
  BY OthersStepTyped DEF FInv
<1>2. UNCHANGED <<committed, view, tx, cache, results, callers>>
  BY DEF Age, vars, database
<1>3. Started' = Started /\ Acked' = Acked
  BY <1>2 DEF Started, Acked, At
<1>4. Settled' /\ HolderFresh' /\ OwnUpdate' /\ AllStarted'
  BY <1>2, <1>3
  DEF FInv, Fresh, Settled, HolderFresh, OwnUpdate, AllStarted
<1>5. AckedIn' /\ KnownAcked' /\ ReadsSeeAcked'
  BY <1>2, <1>3 DEF FInv, Fresh, Seen, AckedIn, KnownAcked, ReadsSeeAcked, At
<1>6. ASSUME NEW i \in DOMAIN results
      PROVE  (Fetched(i)' <=> Fetched(i)) /\ (Stored(i)' <=> Stored(i))
  BY <1>2 DEF Fetched, Stored, At
<1>7. ResultsFresh' /\ CacheFresh' /\ StoredLast'
  BY <1>2, <1>6 DEF FInv, Fresh, ResultsFresh, CacheFresh, StoredLast
<1>8. CacheSees' /\ ResultsSee'
  BY <1>2, <1>3, <1>6 DEF FInv, Seen, CacheSees, ResultsSee
<1> QED BY <1>1, <1>2, <1>3, <1>4, <1>5, <1>7, <1>8 DEF FInv, Fresh, Seen

LEMMA InitFresh ==
  ASSUME Quiet, Init
  PROVE  FInv
<1>1. TInv
  BY InitTyped
<1>2. ASSUME NEW c \in Callers
      PROVE  callers[c].pc = "idle" /\ callers[c].work = {} /\ callers[c].known = {}
  BY DEF Init
<1>3. committed = {} /\ view = {} /\ tx = NoTx /\ cache = NoDoc /\ results = <<>>
  BY DEF Init, Quiet
<1>4. Settled /\ HolderFresh /\ OwnUpdate /\ KnownAcked /\ ReadsSeeAcked /\ AllStarted
  BY <1>2, <1>3
  DEF Settled, HolderFresh, OwnUpdate, KnownAcked, ReadsSeeAcked, AllStarted,
      Docs, Callers, At
<1>5. AckedIn
  BY <1>2 DEF AckedIn, Acked, At, Callers
<1>6. ResultsFresh /\ CacheFresh /\ StoredLast /\ CacheSees /\ ResultsSee
  BY <1>3 DEF ResultsFresh, CacheFresh, StoredLast, CacheSees, ResultsSee
<1> QED BY <1>1, <1>4, <1>5, <1>6 DEF FInv, Fresh, Seen

LEMMA StepFresh ==
  ASSUME Quiet, FInv, [Next]_vars
  PROVE  FInv'
<1>1. ASSUME NEW u \in Updaters, RequestUpdate(u) \/ UpdateProgress(u) PROVE FInv'
  <2>1. CASE UpdateArrives(u)
    <3>1. PICK r \in Pending :
            /\ callers[u].pc \in WrittenPcs /\ r.ok /\ Arrives(u, r)
            /\ Refill(u, r.doc, [callers[u] EXCEPT !.pc = "done"])
      BY <2>1 DEF UpdateArrives, WrittenPcs, At
    <3>2. TInv' /\ u \in Callers
      BY <2>1, UpdateArrivesTyped, Apart DEF FInv
    <3> QED BY <3>1, <3>2, StoredArrives
  <2> QED BY <1>1, <2>1, RequestUpdateFresh, MutateFresh, MutateThrowsFresh
      DEF UpdateProgress
<1>2. ASSUME NEW c \in Callers, Progress(c) PROVE FInv'
  <2>1. CASE LegacyFileFails(c)
    <3>1. PICK r \in Pending :
            /\ callers[c].pc \in WrittenPcs /\ r.ok /\ Arrives(c, r)
            /\ Refill(c, r.doc, [callers[c] EXCEPT !.pc = "failed"])
      BY <2>1 DEF LegacyFileFails, WrittenPcs
    <3>2. TInv'
      BY <2>1, LegacyFileFailsTyped DEF FInv
    <3> QED BY <3>1, <3>2, StoredArrives
  <2> QED BY <1>2, <2>1, ReadCacheFresh, ReadDatabaseFresh, RunGetFresh,
             GetArrivesFresh, NoBoot, StatementFailsFresh, RunWriteFresh
      DEF Progress
<1>3. ASSUME NEW t \in Transactions PROVE FALSE
  BY DEF Quiet
<1> QED BY <1>1, <1>2, <1>3, CrashFresh, IdleFresh DEF Next

LEMMA FreshAlways ==
  ASSUME Quiet
  PROVE  Spec => []FInv
<1>1. Init => FInv
  BY InitFresh
<1>2. FInv /\ [Next]_vars => FInv'
  BY StepFresh
<1> QED BY <1>1, <1>2, PTL DEF Spec

(* AckedStays in a quiet store: no acknowledged update is lost, not to a   *)
(* read that refills the cache, an update that fails at any of its steps,  *)
(* an expired cache or a crash (SafeJsonStore, updateRuntimeDatabase).     *)
THEOREM AckedStaysAlways ==
  ASSUME Quiet
  PROVE  Spec => []AckedStays
<1>1. FInv => AckedStays
  BY RowFacts, Apart
  DEF FInv, Fresh, AckedIn, Seen, CacheSees, AckedStays, NextRead, CacheHit
<1> QED BY <1>1, FreshAlways, PTL

(* ReadsSeeAcked in a quiet store: a read never answers with less than was *)
(* acknowledged when it began (readRuntimeDatabase).                       *)
THEOREM ReadsSeeAckedAlways ==
  ASSUME Quiet
  PROVE  Spec => []ReadsSeeAcked
<1>1. FInv => ReadsSeeAcked
  BY DEF FInv, Seen
<1> QED BY <1>1, FreshAlways, PTL

(* The two together: whatever a client was told is there to be read.       *)
THEOREM AckedIsSeenAlways ==
  ASSUME Quiet
  PROVE  Spec => []AckedIsSeen
<1>1. AckedStays /\ ReadsSeeAcked => AckedIsSeen
  BY DEF AckedIsSeen
<1> QED BY <1>1, AckedStaysAlways, ReadsSeeAckedAlways, PTL

-----------------------------------------------------------------------------
(* Every step is one of AtomicDocument's or none.                          *)

Same == committed' = committed /\ Started' = Started /\ Acked' = Acked

LEMMA StartedAfter ==
  ASSUME NEW c \in Callers, NEW from, NEW to, StepOf(c, from, to), to # "idle",
         c \in Updaters => "idle" \notin from
  PROVE  Started' = Started
<1>1. ASSUME NEW u \in Updaters PROVE u \in Started' <=> u \in Started
  <2>1. CASE u = c
    BY <2>1 DEF StepOf, Started, At
  <2>2. CASE u # c
    BY <2>2 DEF StepOf, Started, At, Callers
  <2> QED BY <2>1, <2>2
<1>2. Started' \subseteq Updaters /\ Started \subseteq Updaters
  BY DEF Started
<1> QED BY <1>1, <1>2

LEMMA SameAfter ==
  ASSUME NEW c \in Callers, NEW from, NEW to, StepOf(c, from, to),
         to # "idle", "done" \notin from, c \in Updaters => "idle" \notin from,
         c \in Updaters => to # "done", committed' = committed
  PROVE  Same
BY StartedAfter, AckedAfter DEF Same

(* A caller that begins to read, from the cache or from the row.           *)
LEMMA ReadSame ==
  ASSUME FInv, NEW c \in Callers, ReadCache(c) \/ ReadDatabase(c)
  PROVE  Same
<1> DEFINE to == IF ReadDatabase(c) THEN "reading"
                 ELSE IF c \in Updaters THEN "mutating" ELSE "done"
           from == IF c \in Updaters THEN {"waiting"} ELSE {"idle", "waiting"}
<1>1. StepOf(c, {"idle", "waiting"}, to)
  BY ReadCacheFacts, ReadDatabaseFacts DEF FInv
<1>2. StepOf(c, from, to)
  BY <1>1 DEF StepOf, ReadCache, ReadDatabase, MayRead, At
<1>3. committed' = committed
  BY DEF ReadCache, ReadDatabase, database
<1>4. /\ to # "idle" /\ (c \in Updaters => to # "done")
      /\ "done" \notin from /\ (c \in Updaters => "idle" \notin from)
  OBVIOUS
<1> HIDE DEF to, from
<1> QED BY <1>2, <1>3, <1>4, SameAfter

LEMMA ResultSame ==
  ASSUME FInv, NEW c \in Callers,
         GetArrives(c) \/ StatementFails(c) \/ LegacyFileFails(c)
  PROVE  Same
<1>1. CASE GetArrives(c)
  <2> DEFINE to == IF c \in Updaters THEN "mutating" ELSE "done"
  <2>1. PICK r \in Pending :
          /\ At(c, "fetched") /\ r.ok /\ r.doc # NoDoc
          /\ Arrives(c, r) /\ Refill(c, r.doc, Holding(c, r.doc, c \in InPlace))
    BY <1>1 DEF GetArrives
  <2>2. StepOf(c, {"fetched"}, to)
    BY <2>1, GetArrivesFacts DEF FInv
  <2>3. committed' = committed
    BY <2>1 DEF Arrives, database
  <2>4. to # "idle" /\ (c \in Updaters => to # "done")
    OBVIOUS
  <2> HIDE DEF to
  <2> QED BY <2>2, <2>3, <2>4, SameAfter
<1>2. CASE StatementFails(c)
  <2>1. PICK r \in Pending : callers[c].pc \in ResultPcs /\ Arrives(c, r) /\ Fails(c)
    BY <1>2 DEF StatementFails, ResultPcs
  <2>2. StepOf(c, ResultPcs, "failed")
    BY <2>1, Moved DEF Fails, FInv, TInv, TypeOK
  <2>3. committed' = committed
    BY <2>1 DEF Arrives, database
  <2> QED BY <2>2, <2>3, SameAfter DEF ResultPcs
<1>3. CASE LegacyFileFails(c)
  <2>1. PICK r \in Pending :
          /\ callers[c].pc \in WrittenPcs /\ r.ok /\ Arrives(c, r)
          /\ Refill(c, r.doc, [callers[c] EXCEPT !.pc = "failed"])
    BY <1>3 DEF LegacyFileFails, WrittenPcs
  <2>2. StepOf(c, WrittenPcs, "failed")
    BY <2>1, WriteArrivesFacts DEF FInv
  <2>3. committed' = committed
    BY <2>1 DEF Arrives, database
  <2> QED BY <2>2, <2>3, SameAfter DEF WrittenPcs
<1> QED BY <1>1, <1>2, <1>3

LEMMA StatementSame ==
  ASSUME FInv, NEW c \in Callers,
         (\E ok \in BOOLEAN : RunGet(c, ok)) \/ RunWriteFails(c)
  PROVE  Same
<1>1. CASE \E ok \in BOOLEAN : RunGet(c, ok)
  <2>1. callers[c].pc \in {"reading"} /\ Moves(c, "fetched") /\ committed' = committed
    BY <1>1 DEF RunGet, At, database
  <2>2. StepOf(c, {"reading"}, "fetched")
    BY <2>1, Moved DEF FInv, TInv, TypeOK
  <2> QED BY <2>1, <2>2, SameAfter
<1>2. CASE RunWriteFails(c)
  BY <1>2, WriteFacts, SameAfter
<1> QED BY <1>1, <1>2

LEMMA MutateSame ==
  ASSUME FInv, NEW u \in Updaters, Mutate(u) \/ MutateThrows(u)
  PROVE  Same
<1>1. u \in Callers /\ callers[u].pc \in {"mutating"} /\ committed' = committed
  BY Apart DEF Mutate, MutateThrows, At, database
<1>2. CASE Mutate(u)
  BY <1>1, <1>2, MutateFacts, SameAfter DEF FInv
<1>3. CASE MutateThrows(u)
  <2>1. StepOf(u, {"mutating"}, "failed")
    BY <1>1, <1>3, Moved DEF MutateThrows, Fails, FInv, TInv, TypeOK
  <2> QED BY <1>1, <2>1, SameAfter
<1> QED BY <1>2, <1>3

AbstractStep ==
  \/ Same
  \/ \E u \in Updaters :
       \/ /\ Started' = Started \cup {u}
          /\ committed' = committed /\ Acked' = Acked
       \/ /\ u \in committed /\ Acked' = Acked \cup {u}
          /\ committed' = committed /\ Started' = Started
  \/ \E S \in SUBSET Updaters :
       /\ S \subseteq Started /\ committed' = committed \cup S
       /\ Started' = Started /\ Acked' = Acked

LEMMA StepSimulates ==
  ASSUME Quiet, FInv, [Next]_vars
  PROVE  AbstractStep
<1>1. ASSUME NEW u \in Updaters, RequestUpdate(u) PROVE AbstractStep
  <2>1. u \in Callers /\ callers[u].pc \in {"idle"} /\ committed' = committed
    BY <1>1, Apart DEF RequestUpdate, At, database
  <2>2. StepOf(u, {"idle"}, "waiting")
    BY <1>1, <2>1, Moved DEF RequestUpdate, FInv, TInv, TypeOK
  <2>3. Acked' = Acked
    BY <2>1, <2>2, AckedAfter
  <2>4. ASSUME NEW v \in Updaters PROVE v \in Started' <=> v \in Started \cup {u}
    <3>1. CASE v = u
      BY <3>1, <2>2 DEF StepOf, Started, At
    <3>2. CASE v # u
      BY <3>2, <2>2 DEF StepOf, Started, At, Callers
    <3> QED BY <3>1, <3>2
  <2>5. Started' = Started \cup {u}
    BY <2>4 DEF Started
  <2> QED BY <2>1, <2>3, <2>5 DEF AbstractStep
<1>2. ASSUME NEW u \in Updaters, UpdateArrives(u) PROVE AbstractStep
  <2>1. PICK r \in Pending :
          /\ callers[u].pc \in WrittenPcs /\ r.ok /\ Arrives(u, r)
          /\ Refill(u, r.doc, [callers[u] EXCEPT !.pc = "done"])
    BY <1>2 DEF UpdateArrives, WrittenPcs, At
  <2>2. TInv' /\ u \in Callers
    BY <1>2, UpdateArrivesTyped, Apart DEF FInv
  <2>3. StepOf(u, WrittenPcs, "done") /\ committed' = committed /\ u \in committed
    BY <2>1, <2>2, StoredArrives
  <2>4. Started' = Started /\ Acked' = Acked \cup {u}
    BY <2>2, <2>3, StartedAfter, AckedAfter DEF WrittenPcs
  <2> QED BY <2>3, <2>4 DEF AbstractStep
<1>3. ASSUME NEW c \in Callers, RunWrite(c) PROVE AbstractStep
  <2>1. /\ c \in Updaters /\ callers[c].pc = "writing"
        /\ StepOf(c, {"writing"}, "written") /\ committed' = callers[c].work
    BY <1>3, WriteFacts
  <2>2. Started' = Started /\ Acked' = Acked
    BY <2>1, StartedAfter, AckedAfter
  <2>3. PICK S \in SUBSET Updaters : S = callers[c].work
    BY CallerFacts DEF Docs
  <2>4. S \subseteq Started
    BY <2>3, CallerFacts
  <2>5. committed \subseteq S
    BY <2>1, <2>3 DEF FInv, Fresh, HolderFresh
  <2>6. committed' = committed \cup S
    BY <2>1, <2>3, <2>5
  <2> QED BY <2>2, <2>4, <2>6 DEF AbstractStep
<1>4. ASSUME NEW u \in Updaters, UpdateProgress(u), ~UpdateArrives(u) PROVE Same
  BY <1>4, MutateSame DEF UpdateProgress
<1>5. ASSUME NEW c \in Callers, Progress(c), ~RunWrite(c) PROVE Same
  BY <1>5, ReadSame, StatementSame, ResultSame, NoBoot DEF Progress
<1>6. ASSUME Age \/ Crash \/ UNCHANGED vars PROVE Same
  BY <1>6, CrashFresh, IdleFresh DEF Same
<1>7. ASSUME NEW t \in Transactions PROVE FALSE
  BY DEF Quiet
<1>8. Same => AbstractStep
  BY DEF AbstractStep
<1> QED BY <1>1, <1>2, <1>3, <1>4, <1>5, <1>6, <1>7, <1>8 DEF Next

(* A quiet store is an atomic document: updates enter it whole and stay,   *)
(* and one that was acknowledged is in it.  The models of the plan store   *)
(* take this of updateRuntimeDatabase for granted.                         *)
THEOREM Atomic ==
  ASSUME Quiet
  PROVE  Spec => IsAtomic
<1> DEFINE document == IF committed = NoDoc THEN {} ELSE committed
<1>1. Init => Document!Init
  <2> SUFFICES ASSUME Init PROVE Document!Init
    OBVIOUS
  <2>1. committed = {} /\ \A u \in Updaters : callers[u].pc = "idle"
    BY DEF Init, Quiet, Callers
  <2>2. document = {}
    BY <2>1
  <2>3. {u \in Updaters : ~At(u, "idle")} = {} /\ Acked = {}
    BY <2>1 DEF At, Acked
  <2> QED BY <2>2, <2>3 DEF Document!Init
<1>2. ASSUME FInv, FInv', [Next]_vars
      PROVE  [Document!Next]_<<document, {u \in Updaters : ~At(u, "idle")}, Acked>>
  <2>1. document = committed /\ document' = committed'
    BY <1>2, Apart DEF FInv, Fresh, Settled
  <2>2. {u \in Updaters : ~At(u, "idle")} = Started
    BY DEF Started
  <2>3. CASE Same
    BY <2>1, <2>2, <2>3 DEF Same, Started
  <2> HIDE DEF document
  <2>4. ASSUME NEW u \in Updaters, Started' = Started \cup {u},
               committed' = committed, Acked' = Acked
        PROVE  Document!Start(u)
    BY <2>1, <2>4 DEF Document!Start, Started, document
  <2>5. ASSUME NEW u \in Updaters, u \in committed, Acked' = Acked \cup {u},
               committed' = committed, Started' = Started
        PROVE  Document!Acknowledge(u)
    BY <2>1, <2>5 DEF Document!Acknowledge, Started, document
  <2>6. ASSUME NEW S \in SUBSET Updaters, S \subseteq Started,
               committed' = committed \cup S, Started' = Started, Acked' = Acked
        PROVE  Document!Store(S)
    BY <2>1, <2>6 DEF Document!Store, Started, document
  <2> QED BY <1>2, <2>3, <2>4, <2>5, <2>6, StepSimulates DEF AbstractStep, Document!Next
<1> QED BY <1>1, <1>2, FreshAlways, PTL DEF Spec, IsAtomic, Document!Spec
-----------------------------------------------------------------------------
(* Beside the transactions of others, with no reader outside of the mutex  *)
(* or with results in order and a row in the table: the row only grows but *)
(* for a ROLLBACK or a crash.  The invariant says that a document on its   *)
(* way to the row contains what the connection sees of it, and so does     *)
(* every copy that a write may be made from.                               *)

Ordered == Readers = {} \/ (Initial = {} /\ ~Overtaking)

Of(d) == IF d = NoDoc THEN {} ELSE d

Put(i) == results[i].ok /\ callers[results[i].who].pc \in WrittenPcs

RowThere ==
  Readers # {} => /\ committed # NoDoc /\ view # NoDoc
                  /\ \A i \in DOMAIN results : results[i].doc # NoDoc

NoReaderBoots == \A c \in Readers : callers[c].pc \notin {"booting", "booted"}

DiskBehind == Of(committed) \subseteq Of(view)

PutAhead == \A i \in DOMAIN results : Put(i) => Of(view) \subseteq results[i].doc

ReadAhead ==
  \A j \in DOMAIN results : Fetched(j) =>
    \/ Of(view) \subseteq Of(results[j].doc)
    \/ \E i \in DOMAIN results : j < i /\ Put(i)

CacheAhead ==
  cache # NoDoc => \/ Of(view) \subseteq cache
                   \/ \E i \in DOMAIN results : Put(i)

HolderAhead ==
  \A u \in Updaters :
    callers[u].pc \in {"booting", "mutating", "writing"} => Of(view) \subseteq callers[u].work

Ahead == /\ RowThere /\ NoReaderBoots /\ DiskBehind /\ PutAhead /\ ReadAhead
         /\ CacheAhead /\ HolderAhead

AInv == TInv /\ Ahead

(* Whoever is past the mutex, or about to be, finds no write of another.   *)
LEMMA PutByHolder ==
  ASSUME AInv, NEW i \in DOMAIN results, Put(i)
  PROVE  results[i].who \in Updaters /\ callers[results[i].who].pc \in PastMutex
<1>0. results[i] \in Result
  BY DEF AInv, TInv, TypeOK
<1>1. results[i].who \in Callers
  BY <1>0 DEF Result
<1>2. callers[results[i].who].pc \in WrittenPcs
  BY DEF Put
<1>3. results[i].who \notin Readers
  BY <1>2 DEF AInv, Ahead, NoReaderBoots, TInv, ReadersOnlyRead, WrittenPcs
<1> QED BY <1>1, <1>2, <1>3 DEF Callers, WrittenPcs, PastMutex

LEMMA NonePut ==
  ASSUME AInv, NEW u \in Updaters, callers[u].pc \notin WrittenPcs,
         callers[u].pc \in PastMutex \/ Head(queue) = u, NEW i \in DOMAIN results
  PROVE  ~Put(i)
<1>1. ASSUME Put(i) PROVE FALSE
  <2>1. results[i].who = u
    BY <1>1, PutByHolder, OneHolder DEF AInv
  <2> QED BY <1>1, <2>1 DEF Put
<1> QED BY <1>1

(* The holder after a step of c, whether it is c or another.               *)
LEMMA HolderStays ==
  ASSUME AInv, NEW c \in Callers, NEW from, NEW to, StepOf(c, from, to),
         \/ Of(view') \subseteq Of(view)
         \/ c \in Updaters /\ callers[c].pc \in PastMutex,
         c \in Updaters /\ to \in {"booting", "mutating", "writing"} =>
           Of(view') \subseteq callers'[c].work,
         c \in Readers => to \notin {"booting", "booted"}
  PROVE  HolderAhead' /\ NoReaderBoots'
<1>1. HolderAhead'
  <2> SUFFICES ASSUME NEW u \in Updaters,
                      callers'[u].pc \in {"booting", "mutating", "writing"}
               PROVE  Of(view') \subseteq callers'[u].work
    BY DEF HolderAhead, Of
  <2>1. CASE u = c
    BY <2>1 DEF StepOf
  <2>2. CASE u # c
    <3>1. /\ callers[u].pc \in {"booting", "mutating", "writing"}
          /\ callers'[u].work = callers[u].work
      BY <2>2 DEF StepOf, Callers
    <3>2. Of(view) \subseteq callers[u].work /\ callers[u].pc \in PastMutex
      BY <3>1 DEF AInv, Ahead, HolderAhead, PastMutex
    <3>3. ~(c \in Updaters /\ callers[c].pc \in PastMutex)
      BY <2>2, <3>2, OneHolder DEF AInv
    <3> QED BY <3>1, <3>2, <3>3
  <2> QED BY <2>1, <2>2
<1>2. NoReaderBoots'
  <2> SUFFICES ASSUME NEW d \in Readers PROVE callers'[d].pc \notin {"booting", "booted"}
    BY DEF NoReaderBoots
  <2>1. CASE d = c
    BY <2>1 DEF StepOf
  <2>2. CASE d # c
    BY <2>2 DEF StepOf, Callers, AInv, Ahead, NoReaderBoots
  <2> QED BY <2>1, <2>2
<1> QED BY <1>1, <1>2

-----------------------------------------------------------------------------
(* A step that leaves the results, adds one, or takes the first.           *)

LEMMA AheadKept ==
  ASSUME AInv, NEW c \in Callers, NEW from, NEW to, StepOf(c, from, to),
         from \cap ResultPcs = {}, to \notin ResultPcs,
         results' = results, committed' = committed, view' = view,
         cache' = cache \/ (cache # NoDoc /\ cache \subseteq cache'),
         c \in Updaters /\ to \in {"booting", "mutating", "writing"} =>
           Of(view) \subseteq callers'[c].work,
         c \in Readers => to \notin {"booting", "booted"}
  PROVE  Ahead'
<1> USE DEF AInv
<1>1. Of(view') = Of(view) /\ Of(committed') = Of(committed)
  BY DEF Of
<1>2. ASSUME NEW i \in DOMAIN results
      PROVE  (Fetched(i)' <=> Fetched(i)) /\ (Put(i)' <=> Put(i))
  <2>1. results[i] \in Result /\ callers[results[i].who].pc \in ResultPcs
    BY DEF TInv, TypeOK, ResultsMatch
  <2>2. results[i].who \in Callers \ {c}
    BY <2>1 DEF StepOf, Result
  <2> QED BY <2>2 DEF StepOf, Fetched, Put, At
<1>3. HolderAhead' /\ NoReaderBoots'
  BY <1>1, HolderStays
<1>4. RowThere' /\ DiskBehind'
  BY <1>1 DEF Ahead, RowThere, DiskBehind
<1>5. PutAhead' /\ ReadAhead'
  BY <1>1, <1>2 DEF Ahead, PutAhead, ReadAhead, Of
<1>6. CacheAhead'
  BY <1>1, <1>2 DEF Ahead, CacheAhead
<1> QED BY <1>3, <1>4, <1>5, <1>6 DEF Ahead

LEMMA AheadQueued ==
  ASSUME AInv, NEW c \in Callers, NEW from, NEW to, NEW r \in Result, StepOf(c, from, to),
         from \cap ResultPcs = {}, to \in ResultPcs,
         c \in Readers => to = "fetched",
         results' = Append(results, r), r.who = c, cache' = cache,
         \/ /\ ~r.ok /\ view' = view /\ committed' = committed
            /\ r.doc = NoDoc => Readers = {}
         \/ /\ r.ok /\ to = "fetched" /\ view' = view /\ committed' = committed
            /\ r.doc = view
         \/ /\ r.ok /\ to \in WrittenPcs /\ c \in Updaters /\ callers[c].pc \in PastMutex
            /\ r.doc \in Docs /\ view' = r.doc /\ Of(view) \subseteq r.doc
            /\ committed' \in {committed, view'}
            /\ \A i \in DOMAIN results : ~Put(i)
  PROVE  Ahead'
<1> USE DEF AInv
<1>0. PICK n : n = Len(results) + 1
  OBVIOUS
<1>2. /\ DOMAIN results = 1..Len(results) /\ Len(results) \in Nat
      /\ DOMAIN results' = 1..n
      /\ \A i \in 1..Len(results) : results'[i] = results[i]
      /\ results'[n] = r
  BY <1>0, Appended DEF TInv, TypeOK
<1>3. ASSUME NEW i \in 1..Len(results)
      PROVE  /\ Fetched(i)' <=> Fetched(i)
             /\ Put(i)' <=> Put(i)
             /\ results'[i] = results[i]
  <2>1. results[i] \in Result /\ callers[results[i].who].pc \in ResultPcs
    BY <1>2 DEF TInv, TypeOK, ResultsMatch
  <2>2. results[i].who \in Callers \ {c}
    BY <2>1 DEF StepOf, Result
  <2> QED BY <1>2, <2>2 DEF StepOf, Fetched, Put, At
<1>4. /\ Fetched(n)' <=> r.ok /\ to = "fetched"
      /\ Put(n)' <=> r.ok /\ to \in WrittenPcs
  BY <1>2 DEF StepOf, Fetched, Put, At
<1>5. \A i \in 1..n : i = n \/ i \in 1..Len(results)
  BY <1>0, <1>2
<1>6. n \in 1..n /\ \A i \in 1..Len(results) : i < n /\ i \in 1..n
  BY <1>0, <1>2
<1>7. \/ /\ ~Put(n)' /\ view' = view /\ Of(view') = Of(view)
         /\ committed' = committed /\ Of(committed') = Of(committed)
      \/ /\ Put(n)' /\ view' = r.doc /\ view' # NoDoc /\ Of(view') = r.doc
         /\ Of(view) \subseteq r.doc /\ committed' \in {committed, view'}
         /\ c \in Updaters /\ callers[c].pc \in PastMutex
         /\ \A i \in 1..Len(results) : ~Put(i)
  BY <1>2, <1>4, Apart DEF Of, WrittenPcs
<1>8. RowThere'
  <2> SUFFICES ASSUME Readers # {}
               PROVE  /\ committed' # NoDoc /\ view' # NoDoc
                      /\ \A i \in 1..n : results'[i].doc # NoDoc
    BY <1>2 DEF RowThere
  <2>1. /\ committed # NoDoc /\ view # NoDoc
        /\ \A i \in 1..Len(results) : results[i].doc # NoDoc
    BY <1>2 DEF Ahead, RowThere
  <2>2. r.doc # NoDoc
    BY <2>1, Apart
  <2>3. ASSUME NEW i \in 1..n PROVE results'[i].doc # NoDoc
    BY <1>2, <1>3, <1>5, <2>1, <2>2
  <2> QED BY <1>7, <2>1, <2>2, <2>3
<1>9. DiskBehind'
  <2>1. Of(committed) \subseteq Of(view)
    BY DEF Ahead, DiskBehind
  <2>2. committed' = committed => Of(committed') = Of(committed)
    BY DEF Of
  <2>3. committed' = view' => Of(committed') = Of(view')
    BY DEF Of
  <2> QED BY <1>7, <2>1, <2>2, <2>3 DEF DiskBehind
<1>10. PutAhead'
  <2> SUFFICES ASSUME NEW i \in 1..n, Put(i)' PROVE Of(view') \subseteq results'[i].doc
    BY <1>2 DEF PutAhead, Of
  <2>1. CASE i = n
    BY <2>1, <1>2, <1>4, <1>7
  <2>2. CASE i \in 1..Len(results)
    <3>1. Put(i) /\ results'[i] = results[i]
      BY <2>2, <1>3
    <3>2. Of(view) \subseteq results[i].doc
      BY <2>2, <3>1, <1>2 DEF Ahead, PutAhead
    <3> QED BY <2>2, <3>1, <3>2, <1>7
  <2> QED BY <2>1, <2>2, <1>5
<1>11. ReadAhead'
  <2> SUFFICES ASSUME NEW j \in 1..n, Fetched(j)'
               PROVE  \/ Of(view') \subseteq Of(results'[j].doc)
                      \/ \E i \in 1..n : j < i /\ Put(i)'
    BY <1>2 DEF ReadAhead, Of
  <2>1. CASE j = n
    <3>1. r.ok /\ to = "fetched"
      BY <2>1, <1>4
    <3>2. r.doc = view /\ Of(view') = Of(view)
      BY <3>1, <1>4, <1>7 DEF WrittenPcs
    <3> QED BY <2>1, <3>2, <1>2
  <2>2. CASE j \in 1..Len(results)
    <3>1. Fetched(j) /\ results'[j] = results[j]
      BY <2>2, <1>3
    <3>2. CASE Of(view') = Of(view)
      <4>1. \/ Of(view) \subseteq Of(results[j].doc)
            \/ \E i \in 1..Len(results) : j < i /\ Put(i)
        BY <2>2, <3>1, <1>2 DEF Ahead, ReadAhead
      <4>2. CASE \E i \in 1..Len(results) : j < i /\ Put(i)
        BY <4>2, <1>3, <1>6
      <4> QED BY <4>1, <4>2, <3>1, <3>2
    <3>3. CASE Put(n)'
      BY <3>3, <2>2, <1>6
    <3> QED BY <3>2, <3>3, <1>7
  <2> QED BY <2>1, <2>2, <1>5
<1>12. CacheAhead'
  <2> SUFFICES ASSUME cache # NoDoc
               PROVE  Of(view') \subseteq cache \/ \E i \in 1..n : Put(i)'
    BY <1>2 DEF CacheAhead, Of
  <2>1. CASE Of(view') = Of(view)
    <3>1. Of(view) \subseteq cache \/ \E i \in 1..Len(results) : Put(i)
      BY <1>2 DEF Ahead, CacheAhead
    <3> QED BY <2>1, <3>1, <1>3, <1>6
  <2>2. CASE Put(n)'
    BY <2>2, <1>6
  <2> QED BY <2>1, <2>2, <1>7
<1>13. HolderAhead' /\ NoReaderBoots'
  <2>1. to \notin {"booting", "mutating", "writing"} /\ (c \in Readers => to # "booted")
        /\ to # "booting"
    BY DEF ResultPcs
  <2>2. Of(view') \subseteq Of(view) \/ (c \in Updaters /\ callers[c].pc \in PastMutex)
    BY <1>7
  <2> QED BY <2>1, <2>2, HolderStays
<1> QED BY <1>8, <1>9, <1>10, <1>11, <1>12, <1>13 DEF Ahead

LEMMA AheadTaken ==
  ASSUME AInv, NEW c \in Callers, NEW from, NEW to, StepOf(c, from, to), to \notin ResultPcs,
         1 \in DOMAIN results, results[1].who = c, results' = Without(results, 1),
         committed' = committed, view' = view,
         \/ cache' = cache /\ ~Put(1)
         \/ /\ cache' = results[1].doc /\ cache' # NoDoc
            /\ \/ Of(view) \subseteq cache'
               \/ \E i \in DOMAIN results : i # 1 /\ Put(i),
         c \in Updaters /\ to \in {"booting", "mutating", "writing"} =>
           Of(view) \subseteq callers'[c].work,
         c \in Readers => to \notin {"booting", "booted"}
  PROVE  Ahead'
<1> USE DEF AInv
<1>1. /\ DOMAIN results = 1..Len(results) /\ Len(results) \in Nat \ {0}
      /\ DOMAIN results' = 1..Len(results) - 1
      /\ \A i \in 1..Len(results) - 1 : results'[i] = results[i + 1]
  BY LeftOut DEF TInv, TypeOK
<1>2. Of(view') = Of(view) /\ Of(committed') = Of(committed)
  BY DEF Of
<1>3. ASSUME NEW i \in 1..Len(results) - 1
      PROVE  /\ i + 1 \in DOMAIN results /\ results'[i] = results[i + 1]
             /\ Fetched(i)' <=> Fetched(i + 1)
             /\ Put(i)' <=> Put(i + 1)
  <2>1. i + 1 \in DOMAIN results /\ i + 1 # 1 /\ results'[i] = results[i + 1]
    BY <1>1
  <2>2. results[i + 1] \in Result
    BY <2>1 DEF TInv, TypeOK
  <2>3. results[i + 1].who \in Callers \ {c}
    BY <2>1, <2>2 DEF TInv, ResultsMatch, Result
  <2> QED BY <2>1, <2>3 DEF StepOf, Fetched, Put, At
<1>4. ASSUME NEW i \in DOMAIN results, i # 1
      PROVE  i - 1 \in 1..Len(results) - 1 /\ (i - 1) + 1 = i
  BY <1>1, <1>4
<1>5. HolderAhead' /\ NoReaderBoots'
  BY <1>2, HolderStays
<1>6. RowThere' /\ DiskBehind'
  BY <1>1, <1>2, <1>3 DEF Ahead, RowThere, DiskBehind
<1>7. PutAhead'
  <2> SUFFICES ASSUME NEW i \in 1..Len(results) - 1, Put(i)'
               PROVE  Of(view) \subseteq results'[i].doc
    BY <1>1, <1>2 DEF PutAhead, Of
  <2>1. i + 1 \in DOMAIN results /\ Put(i + 1) /\ results'[i] = results[i + 1]
    BY <1>3
  <2> QED BY <2>1 DEF Ahead, PutAhead
<1>8. ReadAhead'
  <2> SUFFICES ASSUME NEW j \in 1..Len(results) - 1, Fetched(j)'
               PROVE  \/ Of(view) \subseteq Of(results'[j].doc)
                      \/ \E i \in 1..Len(results) - 1 : j < i /\ Put(i)'
    BY <1>1, <1>2 DEF ReadAhead, Of
  <2>1. j + 1 \in DOMAIN results /\ Fetched(j + 1) /\ results'[j] = results[j + 1]
    BY <1>3
  <2>2. CASE \E i \in DOMAIN results : j + 1 < i /\ Put(i)
    <3>1. PICK i \in DOMAIN results : j + 1 < i /\ Put(i)
      BY <2>2
    <3>2. i # 1 /\ j < i - 1
      BY <3>1, <1>1
    <3>3. i - 1 \in 1..Len(results) - 1 /\ (i - 1) + 1 = i
      BY <3>2, <1>4
    <3>4. Put(i - 1)' <=> Put((i - 1) + 1)
      BY <3>3, <1>3
    <3> QED BY <3>1, <3>2, <3>3, <3>4
  <2>3. CASE Of(view) \subseteq Of(results[j + 1].doc)
    BY <2>1, <2>3
  <2> QED BY <2>1, <2>2, <2>3 DEF Ahead, ReadAhead
<1>9. CacheAhead'
  <2> SUFFICES ASSUME cache' # NoDoc, ~(Of(view) \subseteq cache')
               PROVE  \E i \in 1..Len(results) - 1 : Put(i)'
    BY <1>1, <1>2 DEF CacheAhead, Of
  <2>1. \E i \in DOMAIN results : i # 1 /\ Put(i)
    <3>1. CASE cache' = cache /\ ~Put(1)
      BY <3>1 DEF Ahead, CacheAhead
    <3> QED BY <3>1
  <2>2. PICK i \in DOMAIN results : i # 1 /\ Put(i)
    BY <2>1
  <2>3. i - 1 \in 1..Len(results) - 1 /\ (i - 1) + 1 = i
    BY <2>2, <1>4
  <2>4. Put(i - 1)' <=> Put((i - 1) + 1)
    BY <2>3, <1>3
  <2> QED BY <2>2, <2>3, <2>4
<1> QED BY <1>5, <1>6, <1>7, <1>8, <1>9 DEF Ahead

-----------------------------------------------------------------------------
(* Every action preserves the invariant, and all but a ROLLBACK and a      *)
(* crash leave the connection at least what it saw.                        *)

Grows == Of(view) \subseteq Of(view')

LEMMA SameViewGrows ==
  ASSUME view' = view
  PROVE  Grows
BY DEF Grows, Of

LEMMA RequestUpdateAhead ==
  ASSUME AInv, NEW u \in Updaters, RequestUpdate(u)
  PROVE  AInv' /\ Grows
<1>1. TInv' /\ TInv /\ u \in Callers /\ u \notin Readers /\ callers[u].pc \in {"idle"}
  BY RequestUpdateTyped, Apart DEF AInv, RequestUpdate, At
<1>2. StepOf(u, {"idle"}, "waiting")
  BY <1>1, Moved DEF RequestUpdate, TInv, TypeOK
<1>3. /\ results' = results /\ committed' = committed /\ cache' = cache /\ view' = view
  BY DEF RequestUpdate, database
<1>4. Ahead'
  BY <1>1, <1>2, <1>3, AheadKept DEF ResultPcs
<1> QED BY <1>1, <1>3, <1>4, SameViewGrows DEF AInv

(* What the cache has when the mutex is taken is ahead of the row.         *)
LEMMA ReadCacheAhead ==
  ASSUME AInv, NEW c \in Callers, ReadCache(c)
  PROVE  AInv' /\ Grows
<1> DEFINE to == IF c \in Updaters THEN "mutating" ELSE "done"
<1>1. TInv' /\ TInv
  BY ReadCacheTyped DEF AInv
<1>2. /\ StepOf(c, {"idle", "waiting"}, to) /\ callers'[c].work = cache /\ cache # NoDoc
  BY <1>1, ReadCacheFacts
<1>3. /\ results' = results /\ committed' = committed /\ cache' = cache /\ view' = view
  BY DEF ReadCache, database
<1>4. to \notin ResultPcs /\ to \notin {"booting", "booted", "writing"}
  BY DEF ResultPcs
<1>5. c \in Updaters => Of(view) \subseteq cache
  <2> SUFFICES ASSUME c \in Updaters PROVE Of(view) \subseteq cache
    OBVIOUS
  <2>1. Head(queue) = c /\ callers[c].pc = "waiting"
    BY DEF ReadCache, MayRead, At
  <2>2. \A i \in DOMAIN results : ~Put(i)
    BY <2>1, NonePut DEF WrittenPcs
  <2> QED BY <1>2, <2>2 DEF AInv, Ahead, CacheAhead
<1> HIDE DEF to
<1>6. Ahead'
  BY <1>2, <1>3, <1>4, <1>5, AheadKept DEF ResultPcs
<1> QED BY <1>1, <1>3, <1>6, SameViewGrows DEF AInv

LEMMA ReadDatabaseAhead ==
  ASSUME AInv, NEW c \in Callers, ReadDatabase(c)
  PROVE  AInv' /\ Grows
<1>1. TInv' /\ TInv
  BY ReadDatabaseTyped DEF AInv
<1>2. StepOf(c, {"idle", "waiting"}, "reading")
  BY <1>1, ReadDatabaseFacts
<1>3. /\ results' = results /\ committed' = committed /\ cache' = cache /\ view' = view
  BY DEF ReadDatabase, database
<1>4. Ahead'
  BY <1>2, <1>3, AheadKept DEF ResultPcs
<1> QED BY <1>1, <1>3, <1>4, SameViewGrows DEF AInv

LEMMA RunGetAhead ==
  ASSUME AInv, NEW c \in Callers, NEW ok \in BOOLEAN, RunGet(c, ok)
  PROVE  AInv' /\ Grows
<1>1. TInv' /\ TInv /\ callers[c].pc \in {"reading"}
  BY RunGetTyped DEF AInv, RunGet, At
<1>2. StepOf(c, {"reading"}, "fetched")
  BY <1>1, Moved DEF RunGet, TInv, TypeOK
<1>3. PICK r : r = [who |-> c, ok |-> ok, doc |-> view]
  OBVIOUS
<1>4. /\ r \in Result /\ r.who = c /\ r.doc = view /\ results' = Append(results, r)
  BY <1>1, <1>3 DEF Result, RunGet, TInv, TypeOK
<1>5. /\ committed' = committed /\ cache' = cache /\ view' = view
  BY DEF RunGet, database
<1>6. r.doc = NoDoc => Readers = {}
  BY <1>4 DEF AInv, Ahead, RowThere
<1>7. Ahead'
  BY <1>2, <1>4, <1>5, <1>6, AheadQueued DEF ResultPcs
<1> QED BY <1>1, <1>5, <1>7, SameViewGrows DEF AInv

(* The result of the holder's read is ahead of the row: nobody wrote since.*)
LEMMA HolderFetched ==
  ASSUME AInv, NEW c \in Updaters, callers[c].pc = "fetched",
         NEW j \in DOMAIN results, results[j].who = c, results[j].ok
  PROVE  Of(view) \subseteq Of(results[j].doc)
<1>1. \A i \in DOMAIN results : ~Put(i)
  BY NonePut DEF PastMutex, WrittenPcs
<1>2. Fetched(j)
  BY DEF Fetched, At
<1> QED BY <1>1, <1>2 DEF AInv, Ahead, ReadAhead

LEMMA GetArrivesAhead ==
  ASSUME Ordered, AInv, NEW c \in Callers, GetArrives(c)
  PROVE  AInv' /\ Grows
<1> DEFINE to == IF c \in Updaters THEN "mutating" ELSE "done"
<1>1. TInv' /\ TInv
  BY GetArrivesTyped DEF AInv
<1>2. PICK r \in Pending :
        /\ At(c, "fetched") /\ r.ok /\ r.doc # NoDoc
        /\ Arrives(c, r) /\ Refill(c, r.doc, Holding(c, r.doc, c \in InPlace))
  BY DEF GetArrives
<1>3. /\ StepOf(c, {"fetched"}, to) /\ callers'[c].work = r.doc /\ cache' = r.doc
  BY <1>1, <1>2, GetArrivesFacts
<1>4. /\ 1 \in DOMAIN results /\ results' = Without(results, 1)
      /\ r = results[1] /\ r.who = c
  BY <1>1, <1>2, InTurn DEF Ordered
<1>5. committed' = committed /\ view' = view
  BY <1>2 DEF Arrives, database
<1>6. to \notin ResultPcs /\ to \notin {"booting", "booted", "writing"}
  BY DEF ResultPcs
<1>7. Of(r.doc) = r.doc
  BY <1>2 DEF Of
<1>8. c \in Updaters => Of(view) \subseteq r.doc
  BY <1>2, <1>4, <1>7, HolderFetched DEF At
<1>9. Of(view) \subseteq r.doc \/ \E i \in DOMAIN results : i # 1 /\ Put(i)
  <2>1. Fetched(1)
    BY <1>2, <1>4 DEF Fetched
  <2> QED BY <2>1, <1>4, <1>7 DEF AInv, Ahead, ReadAhead
<1> HIDE DEF to
<1>10. Ahead'
  BY <1>2, <1>3, <1>4, <1>5, <1>6, <1>8, <1>9, AheadTaken
<1> QED BY <1>1, <1>5, <1>10, SameViewGrows DEF AInv

(* No row: then the connection sees nothing that a first boot could undo.  *)
LEMMA FirstBootAhead ==
  ASSUME Ordered, AInv, NEW c \in Callers, FirstBoot(c)
  PROVE  AInv' /\ Grows
<1>1. TInv' /\ TInv
  BY FirstBootTyped DEF AInv
<1>2. PICK r \in Pending :
        /\ At(c, "fetched") /\ r.ok /\ r.doc = NoDoc
        /\ Arrives(c, r) /\ UNCHANGED <<cache, fresh, queue>>
  BY DEF FirstBoot
<1>3. StepOf(c, {"fetched"}, "booting") /\ callers'[c].work = {}
  BY <1>1, FirstBootFacts
<1>4. /\ 1 \in DOMAIN results /\ results' = Without(results, 1)
      /\ r = results[1] /\ r.who = c
  BY <1>1, <1>2, InTurn DEF Ordered
<1>5. committed' = committed /\ view' = view /\ cache' = cache
  BY <1>2 DEF Arrives, database
<1>6. c \in Updaters /\ c \notin Readers
  <2>1. Readers = {}
    BY <1>2, <1>4 DEF AInv, Ahead, RowThere
  <2> QED BY <2>1 DEF Callers
<1>7. Of(view) \subseteq {}
  <2>1. Of(r.doc) = {}
    BY <1>2 DEF Of
  <2> QED BY <1>2, <1>4, <1>6, <2>1, HolderFetched DEF At
<1>8. ~Put(1)
  BY <1>2, <1>4 DEF Put, At, WrittenPcs
<1>9. Ahead'
  BY <1>3, <1>4, <1>5, <1>6, <1>7, <1>8, AheadTaken DEF ResultPcs
<1> QED BY <1>1, <1>5, <1>9, SameViewGrows DEF AInv

LEMMA StatementFailsAhead ==
  ASSUME Ordered, AInv, NEW c \in Callers, StatementFails(c)
  PROVE  AInv' /\ Grows
<1>1. TInv' /\ TInv
  BY StatementFailsTyped DEF AInv
<1>2. PICK r \in Pending :
        /\ callers[c].pc \in ResultPcs /\ ~r.ok /\ Arrives(c, r)
        /\ Fails(c) /\ UNCHANGED <<cache, fresh>>
  BY DEF StatementFails, ResultPcs
<1>3. StepOf(c, ResultPcs, "failed")
  BY <1>1, <1>2, Moved DEF Fails, TInv, TypeOK
<1>4. /\ 1 \in DOMAIN results /\ results' = Without(results, 1)
      /\ r = results[1] /\ r.who = c
  BY <1>1, <1>2, InTurn DEF Ordered
<1>5. committed' = committed /\ view' = view /\ cache' = cache
  BY <1>2 DEF Arrives, database
<1>6. ~Put(1)
  BY <1>2, <1>4 DEF Put
<1>7. Ahead'
  BY <1>3, <1>4, <1>5, <1>6, AheadTaken DEF ResultPcs
<1> QED BY <1>1, <1>5, <1>7, SameViewGrows DEF AInv

(* In place or not, a change shows in the cache on top of what is there.   *)
LEMMA ShownGrows ==
  ASSUME AInv, NEW u \in Updaters, At(u, "mutating"),
         cache' = cache \/ cache' = Shown(u)
  PROVE  cache' = cache \/ (cache # NoDoc /\ cache \subseteq cache')
<1>1. callers[u].shares => cache # NoDoc
  BY Apart DEF AInv, TInv, SharersHaveCache
<1> QED BY <1>1 DEF Shown

LEMMA MutateAhead ==
  ASSUME AInv, NEW u \in Updaters, Mutate(u)
  PROVE  AInv' /\ Grows
<1>1. TInv' /\ TInv /\ u \in Callers /\ u \notin Readers
  BY MutateTyped, Apart DEF AInv
<1>2. /\ StepOf(u, {"mutating"}, "writing") /\ callers'[u].work = callers[u].work \cup {u}
  BY <1>1, MutateFacts
<1>3. /\ results' = results /\ committed' = committed /\ view' = view
      /\ cache' = Shown(u) /\ At(u, "mutating")
  BY DEF Mutate, database
<1>4. cache' = cache \/ (cache # NoDoc /\ cache \subseteq cache')
  BY <1>3, ShownGrows
<1>5. Of(view) \subseteq callers[u].work
  BY <1>3 DEF AInv, Ahead, HolderAhead, At
<1>6. Of(view) \subseteq callers'[u].work
  BY <1>2, <1>5
<1>7. Ahead'
  BY <1>1, <1>2, <1>3, <1>4, <1>6, AheadKept DEF ResultPcs
<1> QED BY <1>1, <1>3, <1>7, SameViewGrows DEF AInv

LEMMA MutateThrowsAhead ==
  ASSUME AInv, NEW u \in Updaters, MutateThrows(u)
  PROVE  AInv' /\ Grows
<1>1. TInv' /\ TInv /\ u \in Callers /\ u \notin Readers /\ callers[u].pc \in {"mutating"}
  BY MutateThrowsTyped, Apart DEF AInv, MutateThrows, At
<1>2. StepOf(u, {"mutating"}, "failed")
  BY <1>1, Moved DEF MutateThrows, Fails, TInv, TypeOK
<1>3. /\ results' = results /\ committed' = committed /\ view' = view
      /\ At(u, "mutating") /\ (cache' = cache \/ cache' = Shown(u))
  BY DEF MutateThrows, database
<1>4. cache' = cache \/ (cache # NoDoc /\ cache \subseteq cache')
  BY <1>3, ShownGrows
<1>5. Ahead'
  BY <1>1, <1>2, <1>3, <1>4, AheadKept DEF ResultPcs
<1> QED BY <1>1, <1>3, <1>5, SameViewGrows DEF AInv

(* What is written is the holder's document, which is ahead of the row.    *)
LEMMA RunWriteAhead ==
  ASSUME AInv, NEW c \in Callers, RunWrite(c) \/ RunWriteFails(c)
  PROVE  AInv' /\ Grows
<1>1. TInv' /\ TInv
  BY RunWriteTyped DEF AInv
<1>2. /\ callers[c].pc \in {"booting", "writing"} /\ Moves(c, AfterRun(c))
      /\ cache' = cache
  BY DEF RunWrite, RunWriteFails, Issued
<1>3. AfterRun(c) \in WrittenPcs /\ AfterRun(c) \in ResultPcs
  BY DEF AfterRun, WrittenPcs, ResultPcs
<1>4. c \in Updaters /\ c \notin Readers
  <2>1. c \notin Readers
    BY <1>1, <1>2 DEF AInv, Ahead, NoReaderBoots, TInv, ReadersOnlyRead
  <2> QED BY <2>1 DEF Callers
<1>5. StepOf(c, {"booting", "writing"}, AfterRun(c))
  BY <1>1, <1>2, <1>3, Moved DEF WrittenPcs, TInv, TypeOK
<1>6. callers[c].work \in Docs /\ callers[c].pc \in PastMutex
  BY <1>1, <1>2 DEF TInv, TypeOK, Caller, PastMutex
<1>7. Of(view) \subseteq callers[c].work
  BY <1>2, <1>4 DEF AInv, Ahead, HolderAhead
<1>8. \A i \in DOMAIN results : ~Put(i)
  BY <1>2, <1>4, <1>6, NonePut DEF WrittenPcs
<1>9. PICK to : to = AfterRun(c)
  OBVIOUS
<1>10. PICK r \in Result :
         /\ r.who = c /\ r.doc = callers[c].work /\ results' = Append(results, r)
         /\ \/ ~r.ok /\ committed' = committed /\ view' = view
            \/ r.ok /\ view' = callers[c].work /\ committed' \in {committed, view'}
  <2>1. ASSUME NEW b \in BOOLEAN
        PROVE  LET q == [who |-> c, ok |-> b, doc |-> callers[c].work]
               IN  q \in Result /\ q.who = c /\ q.doc = callers[c].work /\ q.ok = b
    BY <1>6 DEF Result
  <2>2. CASE RunWrite(c)
    <3>1. /\ results' = Append(results, [who |-> c, ok |-> TRUE, doc |-> callers[c].work])
          /\ view' = callers[c].work /\ committed' \in {committed, view'}
      BY <2>2 DEF RunWrite
    <3> QED BY <2>1, <3>1
  <2>3. CASE RunWriteFails(c)
    <3>1. /\ results' = Append(results, [who |-> c, ok |-> FALSE, doc |-> callers[c].work])
          /\ committed' = committed /\ view' = view
      BY <2>3 DEF RunWriteFails, database
    <3> QED BY <2>1, <3>1
  <2> QED BY <2>2, <2>3
<1>11. r.doc # NoDoc
  BY <1>6, <1>10, Apart
<1>12. Ahead'
  <2>1. StepOf(c, {"booting", "writing"}, to) /\ to \in WrittenPcs /\ to \in ResultPcs
    BY <1>3, <1>5, <1>9
  <2>2. {"booting", "writing"} \cap ResultPcs = {}
    BY DEF ResultPcs
  <2>3. CASE ~r.ok /\ committed' = committed /\ view' = view
    BY <1>2, <1>4, <1>10, <1>11, <2>1, <2>2, <2>3, AheadQueued
  <2>4. CASE r.ok /\ view' = callers[c].work /\ committed' \in {committed, view'}
    BY <1>2, <1>4, <1>6, <1>7, <1>8, <1>10, <2>1, <2>2, <2>4, AheadQueued
  <2> QED BY <1>10, <2>3, <2>4
<1>13. Grows
  <2>1. CASE view' = view
    BY <2>1, SameViewGrows
  <2>2. CASE view' = callers[c].work
    BY <2>2, <1>6, <1>7, Apart DEF Grows, Of
  <2> QED BY <1>10, <2>1, <2>2
<1> QED BY <1>1, <1>12, <1>13 DEF AInv

(* A write that arrived is in the cache, whatever its caller is told.      *)
LEMMA PutArrives ==
  ASSUME Ordered, AInv, TInv', NEW c \in Callers, NEW r \in Pending, NEW to,
         StepOf(c, WrittenPcs, to), to \notin ResultPcs, to \notin {"booting", "writing"},
         r.ok, Arrives(c, r), cache' = r.doc, r.doc \in Docs,
         to = "mutating" => callers'[c].work = r.doc
  PROVE  AInv' /\ Grows
<1>1. TInv /\ callers[c].pc \in WrittenPcs
  BY DEF AInv, StepOf
<1>2. /\ 1 \in DOMAIN results /\ results' = Without(results, 1)
      /\ r = results[1] /\ r.who = c
  BY <1>1, InTurn DEF Ordered
<1>3. Put(1)
  BY <1>1, <1>2 DEF Put
<1>4. Of(view) \subseteq r.doc
  BY <1>2, <1>3 DEF AInv, Ahead, PutAhead
<1>5. committed' = committed /\ view' = view /\ cache' # NoDoc
  BY Apart DEF Arrives, database
<1>6. c \notin Readers
  BY <1>2, <1>3, PutByHolder, Apart
<1>7. Ahead'
  BY <1>2, <1>4, <1>5, <1>6, AheadTaken
<1> QED BY <1>5, <1>7, SameViewGrows DEF AInv

LEMMA BootArrivesAhead ==
  ASSUME Ordered, AInv, NEW c \in Callers, BootArrives(c)
  PROVE  AInv' /\ Grows
<1> DEFINE to == IF c \in Updaters THEN "mutating" ELSE "done"
<1>1. TInv' /\ TInv
  BY BootArrivesTyped DEF AInv
<1>2. PICK r \in Pending :
        /\ At(c, "booted") /\ r.ok
        /\ Arrives(c, r) /\ Refill(c, r.doc, Holding(c, r.doc, TRUE))
  BY DEF BootArrives
<1>3. /\ StepOf(c, {"booted"}, to) /\ callers'[c].work = r.doc /\ r.doc \in Docs
      /\ cache' = r.doc
  BY <1>1, <1>2, BootArrivesFacts
<1>4. to \notin ResultPcs /\ to \notin {"booting", "writing"}
  BY DEF ResultPcs
<1> HIDE DEF to
<1>5. StepOf(c, WrittenPcs, to)
  BY <1>3 DEF StepOf, WrittenPcs
<1> QED BY <1>1, <1>2, <1>3, <1>4, <1>5, PutArrives

LEMMA UpdateArrivesAhead ==
  ASSUME Ordered, AInv, NEW u \in Updaters, UpdateArrives(u)
  PROVE  AInv' /\ Grows
<1>1. TInv' /\ TInv /\ u \in Callers
  BY UpdateArrivesTyped, Apart DEF AInv
<1>2. PICK r \in Pending :
        /\ callers[u].pc \in WrittenPcs /\ r.ok /\ Arrives(u, r)
        /\ Refill(u, r.doc, [callers[u] EXCEPT !.pc = "done"])
  BY DEF UpdateArrives, WrittenPcs, At
<1>3. StepOf(u, WrittenPcs, "done") /\ r.doc \in Docs /\ cache' = r.doc
  BY <1>1, <1>2, WriteArrivesFacts
<1> QED BY <1>1, <1>2, <1>3, PutArrives DEF ResultPcs

LEMMA LegacyFileFailsAhead ==
  ASSUME Ordered, AInv, NEW c \in Callers, LegacyFileFails(c)
  PROVE  AInv' /\ Grows
<1>1. TInv' /\ TInv
  BY LegacyFileFailsTyped DEF AInv
<1>2. PICK r \in Pending :
        /\ callers[c].pc \in WrittenPcs /\ r.ok /\ Arrives(c, r)
        /\ Refill(c, r.doc, [callers[c] EXCEPT !.pc = "failed"])
  BY DEF LegacyFileFails, WrittenPcs
<1>3. StepOf(c, WrittenPcs, "failed") /\ r.doc \in Docs /\ cache' = r.doc
  BY <1>1, <1>2, WriteArrivesFacts
<1> QED BY <1>1, <1>2, <1>3, PutArrives DEF ResultPcs

(* A transaction begins or ends, or time passes: the connection sees the   *)
(* same row, or that of the disk, which is behind.                         *)
LEMMA OthersAhead ==
  ASSUME AInv,
         \/ Age \/ UNCHANGED vars
         \/ \E t \in Transactions : Begin(t) \/ Commit(t) \/ Rollback(t)
  PROVE  AInv' /\ (Grows \/ \E t \in Transactions : Rollback(t))
<1>1. TInv' /\ TInv
  BY OthersStepTyped DEF AInv
<1>2. UNCHANGED <<callers, results, cache>>
  BY DEF Age, Begin, Commit, Rollback, Ends, vars
<1>3. /\ view' \in {view, committed} /\ committed' \in {committed, view}
      /\ view' = committed \/ committed' = committed \/ view' = view
      /\ view' = view \/ (view' = committed /\ committed' = committed)
      /\ view' = view \/ \E t \in Transactions : Rollback(t)
  BY DEF Age, Begin, Commit, Rollback, Ends, vars, database
<1>4. Of(committed) \subseteq Of(view)
  BY DEF AInv, Ahead, DiskBehind
<1>5. Of(view') \subseteq Of(view) /\ Of(committed') \subseteq Of(view')
  <2>1. /\ view' = view => Of(view') = Of(view)
        /\ view' = committed => Of(view') = Of(committed)
        /\ committed' = committed => Of(committed') = Of(committed)
        /\ committed' = view => Of(committed') = Of(view)
    BY DEF Of
  <2> QED BY <1>3, <1>4, <2>1
<1>6. \A i \in DOMAIN results : (Fetched(i)' <=> Fetched(i)) /\ (Put(i)' <=> Put(i))
  BY <1>2 DEF Fetched, Put, At
<1>7. RowThere' /\ NoReaderBoots' /\ DiskBehind'
  <2>1. RowThere'
    BY <1>2, <1>3 DEF AInv, Ahead, RowThere
  <2>2. NoReaderBoots'
    BY <1>2 DEF AInv, Ahead, NoReaderBoots
  <2>3. DiskBehind'
    BY <1>5 DEF DiskBehind, Of
  <2> QED BY <2>1, <2>2, <2>3
<1>8. PutAhead'
  <2> SUFFICES ASSUME NEW i \in DOMAIN results, Put(i)
               PROVE  Of(view') \subseteq results[i].doc
    BY <1>2, <1>6 DEF PutAhead, Of
  <2> QED BY <1>5 DEF AInv, Ahead, PutAhead
<1>9. ReadAhead'
  <2> SUFFICES ASSUME NEW j \in DOMAIN results, Fetched(j)
               PROVE  \/ Of(view') \subseteq Of(results[j].doc)
                      \/ \E i \in DOMAIN results : j < i /\ Put(i)
    BY <1>2, <1>6 DEF ReadAhead, Of
  <2> QED BY <1>5 DEF AInv, Ahead, ReadAhead
<1>10. CacheAhead'
  <2> SUFFICES ASSUME cache # NoDoc
               PROVE  Of(view') \subseteq cache \/ \E i \in DOMAIN results : Put(i)
    BY <1>2, <1>6 DEF CacheAhead, Of
  <2> QED BY <1>5 DEF AInv, Ahead, CacheAhead
<1>11. HolderAhead'
  <2> SUFFICES ASSUME NEW u \in Updaters,
                      callers[u].pc \in {"booting", "mutating", "writing"}
               PROVE  Of(view') \subseteq callers[u].work
    BY <1>2 DEF HolderAhead, Of
  <2> QED BY <1>5 DEF AInv, Ahead, HolderAhead
<1> QED BY <1>1, <1>3, <1>7, <1>8, <1>9, <1>10, <1>11, SameViewGrows DEF AInv, Ahead

LEMMA CrashAhead ==
  ASSUME AInv, Crash
  PROVE  AInv'
<1>1. TInv' /\ TInv
  BY CrashTyped DEF AInv
<1>2. ASSUME NEW c \in Callers
      PROVE  callers'[c].pc \in Over \cup {"lost"}
  <2>1. callers[c] \in Caller
    BY <1>1 DEF TInv, TypeOK
  <2> QED BY <2>1 DEF Crash, Caller
<1>3. /\ committed' = committed /\ view' = committed /\ cache' = NoDoc /\ results' = <<>>
  BY DEF Crash
<1>4. NoReaderBoots' /\ HolderAhead'
  BY <1>2 DEF NoReaderBoots, HolderAhead, Over, Callers
<1>5. RowThere'
  BY <1>3 DEF AInv, Ahead, RowThere
<1>6. DiskBehind' /\ PutAhead' /\ ReadAhead' /\ CacheAhead'
  BY <1>3 DEF DiskBehind, PutAhead, ReadAhead, CacheAhead, Of
<1> QED BY <1>1, <1>4, <1>5, <1>6 DEF AInv, Ahead

LEMMA InitAhead ==
  ASSUME Ordered, Init
  PROVE  AInv
<1>1. TInv
  BY InitTyped
<1>2. \A c \in Callers : callers[c].pc = "idle"
  BY DEF Init
<1>3. committed = Initial /\ view = Initial /\ cache = NoDoc /\ results = <<>>
  BY DEF Init
<1>4. NoReaderBoots /\ HolderAhead
  BY <1>2 DEF NoReaderBoots, HolderAhead, Callers
<1>5. RowThere
  <2>1. {} # NoDoc
    BY Apart DEF Docs
  <2> QED BY <1>3, <2>1 DEF RowThere, Ordered
<1>6. DiskBehind /\ PutAhead /\ ReadAhead /\ CacheAhead
  BY <1>3 DEF DiskBehind, PutAhead, ReadAhead, CacheAhead, Of
<1> QED BY <1>1, <1>4, <1>5, <1>6 DEF AInv, Ahead

LEMMA StepAhead ==
  ASSUME Ordered, AInv, [Next]_vars
  PROVE  AInv' /\ (Grows \/ Crash \/ \E t \in Transactions : Rollback(t))
<1>1. ASSUME NEW u \in Updaters, RequestUpdate(u) \/ UpdateProgress(u)
      PROVE  AInv' /\ Grows
  BY <1>1, RequestUpdateAhead, MutateAhead, MutateThrowsAhead, UpdateArrivesAhead
  DEF UpdateProgress
<1>2. ASSUME NEW c \in Callers, Progress(c)
      PROVE  AInv' /\ Grows
  BY <1>2, ReadCacheAhead, ReadDatabaseAhead, RunGetAhead, GetArrivesAhead,
     FirstBootAhead, StatementFailsAhead, RunWriteAhead, BootArrivesAhead,
     LegacyFileFailsAhead
  DEF Progress
<1>3. ASSUME NEW t \in Transactions, Begin(t) \/ Commit(t) \/ Rollback(t)
      PROVE  AInv' /\ (Grows \/ \E s \in Transactions : Rollback(s))
  BY <1>3, OthersAhead
<1>4. ASSUME Age \/ UNCHANGED vars
      PROVE  AInv' /\ (Grows \/ \E s \in Transactions : Rollback(s))
  BY <1>4, OthersAhead
<1> QED BY <1>1, <1>2, <1>3, <1>4, CrashAhead DEF Next

LEMMA AheadAlways ==
  ASSUME Ordered
  PROVE  Spec => []AInv
<1>1. Init => AInv
  BY InitAhead
<1>2. AInv /\ [Next]_vars => AInv'
  BY StepAhead
<1> QED BY <1>1, <1>2, PTL DEF Spec

(* OnlyUndone: whatever transactions of others are open around the reads   *)
(* and the writes of the store, and whatever fails, an acknowledged update *)
(* leaves the row by a ROLLBACK or a crash and not by another update that  *)
(* worked on a cache or a read older than the row (SafeJsonStore).  With   *)
(* readers outside of the mutex it takes results in order: one that        *)
(* arrives late puts an older document into the cache.                     *)
THEOREM OnlyUndoneAlways ==
  ASSUME Ordered
  PROVE  Spec => OnlyUndone
<1>1. ASSUME AInv, [Next]_vars PROVE [StaysOrUndone]_vars
  <2>1. CASE Grows
    <3> SUFFICES ASSUME NEW u \in Acked, view # NoDoc, u \in view
                 PROVE  view' # NoDoc /\ u \in view'
      BY DEF StaysOrUndone
    <3>1. u \in Of(view')
      BY <2>1 DEF Grows, Of
    <3> QED BY <3>1 DEF Of
  <2>2. CASE Crash \/ \E t \in Transactions : Rollback(t)
    BY <2>2 DEF StaysOrUndone
  <2> QED BY <1>1, <2>1, <2>2, StepAhead
<1> QED BY <1>1, AheadAlways, PTL DEF Spec, OnlyUndone
==============================================================================
