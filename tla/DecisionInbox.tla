---------------------------- MODULE DecisionInbox ----------------------------
(***************************************************************************)
(* The decisions a migration asks of its user (decision-engine/, and the   *)
(* session routes that feed it): an analysis evaluates every candidate of  *)
(* a snapshot against what the user has decided so far, records the        *)
(* outcome, and keeps an inbox of what needs a person.  One user and one   *)
(* source connection.                                                      *)
(*                                                                         *)
(* A request reads the store once and evaluates candidate by candidate,    *)
(* each in an update of its own.  The rows it has read are the store's own *)
(* objects, so it sees them change, until the store is read from disk      *)
(* again.  Left out: scores beyond the thresholds they are held against,   *)
(* confidences given by the user, profiles for a part of the machine, the  *)
(* audit log, and whether a person accepts, rejects, defers or resolves.   *)
(***************************************************************************)
EXTENDS Integers, Sequences, FiniteSets, FiniteSetsExt

CONSTANTS
  Candidates, Bundles, Sessions, Profiles,
  Targets, NoTarget,
  Snapshots, \* the probes of the connection, by their number; none is 0
  Sees,      \* snapshot -> candidate -> the facts it shows of it
  Patterns,  \* what a preference may be for: a set of [covers, rank]
  Wishes,    \* the outcomes a preference may ask for
  Scenes,    \* sets of requests that meet: [n, session, decides], {} to analyse
  ListLimit, \* open items a decision looks at: 500
  MaxHistory, \* records the history keeps: 5000
  MaxTurns   \* bound on what the user and the probes do between requests

ASSUME InboxAssumptions ==
  /\ NoTarget \notin Targets
  /\ 0 \notin Snapshots /\ Snapshots \subseteq Nat /\ DOMAIN Sees = Snapshots
  /\ \A n \in Snapshots : DOMAIN Sees[n] \subseteq Candidates
  /\ ListLimit \in Nat \ {0} /\ MaxHistory \in Nat \ {0} /\ MaxTurns \in Nat

VARIABLES
  current,  \* the snapshot the connection has
  arrived,  \* the probes that have ended
  rows,     \* session -> what it has decided: data, config, and its target
  prefs,    \* pattern -> what is remembered for it
  profile,
  history,  \* the evaluations, oldest first
  inbox,    \* key -> its item
  asks,     \* request -> how far it is and what it has read
  made

inboxVars == <<current, arrived, rows, prefs, profile, history, inbox, asks, made>>

ItemKeys == [candidate : Candidates, snapshot : Snapshots, target : Targets \cup {NoTarget}]

NoPref == [id |-> 0, wish |-> "none", seen |-> 0, at |-> 0]
NoRecord == [outcome |-> "none"]
NoItem == [status |-> "none", on |-> NoRecord]
NoRows == [data |-> [c \in Candidates |-> "none"], config |-> [b \in Bundles |-> "none"],
           target |-> NoTarget]
NewAsk == [pc |-> "new", snapshot |-> 0, rows |-> NoRows, attached |-> FALSE,
           todo |-> {}, since |-> {}, cut |-> FALSE]

InboxInit ==
  /\ current \in Snapshots /\ arrived = {current}
  /\ rows = [s \in Sessions |-> NoRows]
  /\ prefs = [p \in Patterns |-> NoPref] /\ profile \in Profiles
  /\ history = <<>> /\ inbox = [k \in ItemKeys |-> NoItem]
  /\ asks \in {[a \in scene |-> NewAsk] : scene \in Scenes} /\ made = 0

-----------------------------------------------------------------------------
(* One evaluation.                                                         *)

(* Mutant of classifyDecision: what is remembered comes first.             *)
classifyDecisionAsRemembered(facts, strategy, policy, wish, under) ==
  IF wish = "record-only" /\ facts.minor THEN "record-only"
  ELSE IF facts.database /\ ~strategy THEN "required-decision" ELSE "suggested-decision"

(* The first of the rules that applies. *)
classifyDecision(facts, strategy, policy, wish, under) ==
  LET Rule(applies, outcome) == [applies |-> applies, outcome |-> outcome]
      rules ==
        <<Rule(facts.database /\ ~strategy, "required-decision"),
          Rule(facts.secrets # {} /\ ~policy, "required-decision"),
          Rule(facts.blocked, "blocker"),
          Rule(under \in facts.thin, "blocker"),
          Rule(wish = "required-decision", "required-decision"),
          Rule(wish = "record-only" /\ facts.minor, "record-only"),
          Rule(wish = "hidden-noise" /\ facts.faint, "hidden-noise"),
          Rule(facts.ignored, "hidden-noise"),
          Rule(under \in facts.sure, "auto-staged"),
          Rule(facts.faint, "record-only"),
          Rule(facts.costly, "required-decision"),
          Rule(TRUE, "suggested-decision")>>
  IN rules[Min({i \in DOMAIN rules : rules[i].applies})].outcome

requiresReviewInbox(outcome) ==
  outcome \in {"required-decision", "suggested-decision", "blocker"}

(* The narrowest preference for the candidate, or of those the most        *)
(* confident (one made twice is more so), or of those the latest.          *)
Covering(c) == {p \in Patterns : prefs[p] # NoPref /\ c \in p.covers}
Better(p, q) ==
  \/ p.rank > q.rank
  \/ /\ p.rank = q.rank
     /\ \/ prefs[p].seen > prefs[q].seen
        \/ prefs[p].seen = prefs[q].seen /\ prefs[p].at >= prefs[q].at
findBestDecisionPreference(c) ==
  IF Covering(c) = {} THEN NoPref
  ELSE prefs[CHOOSE p \in Covering(c) : \A q \in Covering(c) : Better(p, q)]

(* What an evaluation records. *)
Evaluation(key, read) ==
  LET facts == Sees[key.snapshot][key.candidate]
      strategy == facts.database => read.data[key.candidate] = "confirmed"
      policy == \A b \in facts.secrets : read.config[b] = "keptOut"
      pref == findBestDecisionPreference(key.candidate)
  IN [key |-> key, strategy |-> strategy, policy |-> policy, profile |-> profile,
      pref |-> [id |-> pref.id, seen |-> pref.seen],
      outcome |-> classifyDecision(facts, strategy, policy, pref.wish, profile)]

RecordsOf(key) == {i \in DOMAIN history : history[i].key = key}
Latest(key) == IF RecordsOf(key) = {} THEN NoRecord ELSE history[Max(RecordsOf(key))]

Trimmed(records) ==
  SubSeq(records, IF Len(records) > MaxHistory THEN Len(records) - MaxHistory + 1 ELSE 1,
         Len(records))

(* Mutant of Upserted: an item a person has judged stays as it is. *)
UpsertedOnce(item) == IF item.status = "judged" THEN item ELSE [item EXCEPT !.status = "open"]

Upserted(item) == [status |-> "open", on |-> NoRecord]

Withdrawn(item) ==
  IF item.status = "open" THEN [status |-> "withdrawn", on |-> item.on] ELSE item

(* An evaluation like the last one of its key changes nothing.             *)
Record(record) ==
  LET key == record.key
  IN IF record = Latest(key) THEN UNCHANGED <<history, inbox>>
     ELSE /\ history' = Trimmed(Append(history, record))
          /\ inbox' = [inbox EXCEPT ![key] =
               IF requiresReviewInbox(record.outcome) THEN Upserted(inbox[key])
               ELSE Withdrawn(inbox[key])]

(* A person's word on an item, of whatever status. *)
Judged(key) == [status |-> "judged", on |-> Latest(key)]

-----------------------------------------------------------------------------
(* The requests.                                                           *)
At(a, pc) == asks[a].pc = pc
Shown(n) == IF n = 0 THEN {} ELSE DOMAIN Sees[n]

(* A request ends with the last of what it has to do. *)
Ended(ask) == IF ask.todo = {} THEN [ask EXCEPT !.pc = "done", !.attached = FALSE] ELSE ask
Advanced(ask, what) == Ended([ask EXCEPT !.todo = @ \ {what}])

(* loadMigrationSessionContext. *)
Load(a) ==
  /\ At(a, "new")
  /\ LET read == [asks[a] EXCEPT !.snapshot = current, !.rows = rows[a.session],
                                  !.attached = TRUE]
     IN asks' = [asks EXCEPT ![a] =
          IF a.decides = {} THEN Ended([read EXCEPT !.pc = "evaluating", !.todo = Shown(current)])
          ELSE [read EXCEPT !.pc = "listing"]]
  /\ UNCHANGED <<current, arrived, rows, prefs, profile, history, inbox, made>>

(* materializeMigrationDecisionProducts, a candidate at a time; a decision *)
(* under way keeps in mind what was evaluated since it listed the inbox.   *)
Evaluate(a, c) ==
  LET key == [candidate |-> c, snapshot |-> asks[a].snapshot, target |-> asks[a].rows.target]
  IN /\ At(a, "evaluating") /\ c \in asks[a].todo
     /\ Record(Evaluation(key, asks[a].rows))
     /\ asks' = [b \in DOMAIN asks |->
          IF b = a THEN Advanced(asks[a], c)
          ELSE IF b.decides # {} /\ (At(b, "resolving") \/ At(b, "done"))
               THEN [asks[b] EXCEPT !.since = @ \cup {key}] ELSE asks[b]]
     /\ UNCHANGED <<current, arrived, rows, prefs, profile, made>>

OpenItems == {k \in ItemKeys : inbox[k].status = "open"}

(* Mutant of Concerns: only the items for the target the session has. *)
ConcernsTarget(a, k) ==
  /\ k.snapshot = asks[a].snapshot /\ k.candidate \in a.decides
  /\ k.target = asks[a].rows.target

Concerns(a, k) == k.snapshot = asks[a].snapshot /\ k.candidate \in a.decides

(* resolveMigrationDecisionProducts: the newest open items are listed (any *)
(* of them, here), and those about the candidates are closed one by one.   *)
ListItems(a) ==
  /\ At(a, "listing")
  /\ \E listed \in SUBSET OpenItems :
       /\ Cardinality(listed) = Min({ListLimit, Cardinality(OpenItems)})
       /\ asks' = [asks EXCEPT ![a] =
            Ended([@ EXCEPT !.pc = "resolving", !.todo = {k \in listed : Concerns(a, k)},
                            !.cut = listed # OpenItems])]
  /\ UNCHANGED <<current, arrived, rows, prefs, profile, history, inbox, made>>

Resolve(a, k) ==
  /\ At(a, "resolving") /\ k \in asks[a].todo
  /\ inbox' = [inbox EXCEPT ![k] = Judged(k)]
  /\ asks' = [asks EXCEPT ![a] = Advanced(@, k)]
  /\ UNCHANGED <<current, arrived, rows, prefs, profile, history, made>>

(* The store is read from disk again: nobody has its objects any more.     *)
Reread ==
  /\ \E a \in DOMAIN asks : asks[a].attached
  /\ asks' = [a \in DOMAIN asks |-> [asks[a] EXCEPT !.attached = FALSE]]
  /\ UNCHANGED <<current, arrived, rows, prefs, profile, history, inbox, made>>

-----------------------------------------------------------------------------
(* What the user and the probes do.                                        *)
Turn == made < MaxTurns /\ made' = made + 1

(* A probe ends, perhaps after a later one has. *)
ProbeEnds(n) ==
  /\ Turn /\ n \notin arrived
  /\ arrived' = arrived \cup {n} /\ current' = n
  /\ UNCHANGED <<rows, prefs, profile, history, inbox, asks>>

(* Requests that share the session's objects see them change, not the rows *)
(* that were added since.                                                  *)
Sharing(s) == {a \in DOMAIN asks : asks[a].attached /\ a.session = s}

DecideData(s, c, status) ==
  /\ Turn /\ c \in Shown(current)
  /\ rows' = [rows EXCEPT ![s].data[c] = status]
  /\ asks' = [a \in DOMAIN asks |->
       IF a \in Sharing(s) /\ asks[a].rows.data[c] # "none"
       THEN [asks[a] EXCEPT !.rows.data[c] = status] ELSE asks[a]]
  /\ UNCHANGED <<current, arrived, prefs, profile, history, inbox>>

DecideConfig(s, b, status) ==
  /\ Turn /\ \E c \in Shown(current) : b \in Sees[current][c].secrets
  /\ rows' = [rows EXCEPT ![s].config[b] = status]
  /\ asks' = [a \in DOMAIN asks |->
       IF a \in Sharing(s) /\ asks[a].rows.config[b] # "none"
       THEN [asks[a] EXCEPT !.rows.config[b] = status] ELSE asks[a]]
  /\ UNCHANGED <<current, arrived, prefs, profile, history, inbox>>

Retarget(s, t) ==
  /\ Turn
  /\ rows' = [rows EXCEPT ![s].target = t]
  /\ asks' = [a \in DOMAIN asks |->
       IF a \in Sharing(s) THEN [asks[a] EXCEPT !.rows.target = t] ELSE asks[a]]
  /\ UNCHANGED <<current, arrived, prefs, profile, history, inbox>>

(* A preference made before is reinforced. *)
Remembers(p, wish) ==
  prefs' = [prefs EXCEPT ![p] =
    [id |-> IF @ = NoPref THEN made + 1 ELSE @.id, wish |-> wish, seen |-> @.seen + 1,
     at |-> made + 1]]

Remember(p, wish) ==
  /\ Turn /\ Remembers(p, wish)
  /\ UNCHANGED <<current, arrived, rows, profile, history, inbox, asks>>

Forget(p) ==
  /\ Turn /\ prefs[p] # NoPref /\ prefs' = [prefs EXCEPT ![p] = NoPref]
  /\ UNCHANGED <<current, arrived, rows, profile, history, inbox, asks>>

AssignProfile(name) ==
  /\ Turn /\ name # profile /\ profile' = name
  /\ UNCHANGED <<current, arrived, rows, prefs, history, inbox, asks>>

(* resolveDecisionReview, with or without a preference to remember.        *)
Review(k) ==
  /\ Turn /\ inbox[k].status # "none"
  /\ inbox' = [inbox EXCEPT ![k] = Judged(k)]
  /\ \/ UNCHANGED prefs
     \/ \E p \in Patterns, wish \in Wishes : Remembers(p, wish)
  /\ UNCHANGED <<current, arrived, rows, profile, history, asks>>

UserStep ==
  \/ \E n \in Snapshots : ProbeEnds(n)
  \/ \E s \in {a.session : a \in DOMAIN asks} :
       \/ \E c \in Candidates, status \in {"confirmed", "blocked"} : DecideData(s, c, status)
       \/ \E b \in Bundles, status \in {"keptOut", "otherwise"} : DecideConfig(s, b, status)
       \/ \E t \in Targets : Retarget(s, t)
  \/ \E p \in Patterns : Forget(p) \/ \E wish \in Wishes : Remember(p, wish)
  \/ \E name \in Profiles : AssignProfile(name)
  \/ \E k \in ItemKeys : Review(k)

InboxNext ==
  \/ \E a \in DOMAIN asks :
       \/ Load(a) \/ ListItems(a)
       \/ \E c \in Candidates : Evaluate(a, c)
       \/ \E k \in ItemKeys : Resolve(a, k)
  \/ Reread \/ UserStep

-----------------------------------------------------------------------------
(* What no preference may answer for a person. *)
Unsafe(record) ==
  LET facts == Sees[record.key.snapshot][record.key.candidate]
  IN ~record.strategy \/ ~record.policy \/ facts.blocked \/ record.profile \in facts.thin

(* The inbox says what the last evaluation of each key says: what needs a  *)
(* person is open, or was judged by one on that very evaluation and not on *)
(* an earlier one; what does not is not open; and what is unsafe needs one *)
(* whatever is remembered (evaluateAndRecordDecision).                     *)
InboxFollowsHistory ==
  \A k \in ItemKeys :
    LET last == Latest(k) IN
    last # NoRecord =>
      /\ Unsafe(last) => requiresReviewInbox(last.outcome)
      /\ requiresReviewInbox(last.outcome) =>
           inbox[k].status = "open" \/ (inbox[k].status = "judged" /\ inbox[k].on = last)
      /\ ~requiresReviewInbox(last.outcome) => inbox[k].status # "open"

(* Once a decision about candidates was answered, none of their items is   *)
(* open for the snapshot it was made on, whatever target they are for,     *)
(* unless they were evaluated again since or the inbox was longer than the *)
(* list (resolveMigrationDecisionProducts).                                *)
DecidedIsResolved ==
  \A a \in DOMAIN asks : a.decides # {} /\ At(a, "done") /\ ~asks[a].cut =>
    \A k \in ItemKeys : Concerns(a, k) /\ inbox[k].status = "open" => k \in asks[a].since
===============================================================================
