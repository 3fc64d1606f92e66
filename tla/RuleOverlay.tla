------------------------------ MODULE RuleOverlay ------------------------------
(***************************************************************************)
(* Detection rules that admins add at run time, the overlay in memory they *)
(* are loaded into, and the way of a rule into the code (its promotion):   *)
(* catalog-rule-store.ts, routes.ts 5933-6062.  A release of the server    *)
(* brings the rules that were merged; they are certified when it loads.    *)
(***************************************************************************)
EXTENDS Naturals, FiniteSets

CONSTANTS
  Rules, Contents,
  Requests,       \* requests of a behaviour, each made once
  Boot,           \* the start-up of the server, which loads the overlay too
  NoRule,
  MaxRestarts     \* bound on the restarts

ASSUME RuleAssumptions ==
  Boot \notin Requests /\ NoRule \notin Rules /\ MaxRestarts \in Nat

(* How far a rule has come, in order; "none" is one nobody promoted. *)
Stages == <<"none", "detection-only", "promotion-requested", "bundle-generated",
            "in-review", "certified">>
Rank(status) == CHOOSE i \in DOMAIN Stages : Stages[i] = status

(* What a request may set. *)
Settable == {"detection-only", "promotion-requested", "bundle-generated", "in-review"}

VARIABLES
  stored,    \* rule -> [content, status], for the rules stored
  static,    \* rules in the code of the running release
  overlay,   \* the rules detection goes by, beside those in the code
  calls,     \* request -> where it is, and what it has read
  restarts

ruleVars == <<stored, static, overlay, calls, restarts>>

Unmade == [op |-> "none", pc |-> "unmade", rule |-> NoRule, raced |-> FALSE]
Done == [Unmade EXCEPT !.pc = "done"]

RulesInit ==
  /\ stored = <<>> /\ static = {} /\ overlay = {}
  /\ calls = [q \in Requests \cup {Boot} |->
       IF q = Boot THEN [Unmade EXCEPT !.pc = "reconcile"] ELSE Unmade]
  /\ restarts = 0

-----------------------------------------------------------------------------
Begin(q, op, r, next) ==
  /\ calls[q].pc = "unmade" /\ q # Boot
  /\ calls' = [calls EXCEPT ![q] = [op |-> op, pc |-> next, rule |-> r, raced |-> FALSE]]
  /\ UNCHANGED <<stored, static, overlay, restarts>>

(* q goes on after an update of rule r; "raced" tells the others under way *)
(* on r that what they have read of it is old.                             *)
Moves(q, next, r) ==
  calls' = [d \in DOMAIN calls |->
    IF d = q THEN (IF next = "done" THEN Done ELSE [calls[d] EXCEPT !.pc = next])
    ELSE IF calls[d].rule = r THEN [calls[d] EXCEPT !.raced = TRUE] ELSE calls[d]]

(* A rule of the code is refused; a new one must not be stored yet. *)
RequestCreate(q, r) ==
  r \notin static /\ r \notin DOMAIN stored /\ Begin(q, "create", r, "save")
RequestEdit(q, r) ==
  r \notin static /\ Begin(q, "edit", r, "save")
RequestDelete(q, r) == Begin(q, "delete", r, "remove")

(* saveRuleOverride: what is stored by now is replaced, its promotion kept. *)
Save(q, content) ==
  LET r == calls[q].rule
      kept == IF r \in DOMAIN stored THEN stored[r].status ELSE "none"
  IN /\ calls[q].pc = "save"
     /\ stored' = [s \in DOMAIN stored \cup {r} |->
          IF s = r THEN [content |-> content, status |-> kept] ELSE stored[s]]
     /\ Moves(q, "reconcile", r)
     /\ UNCHANGED <<static, overlay, restarts>>

RemoveRule(q) ==
  LET r == calls[q].rule
  IN /\ calls[q].pc = "remove"
     /\ stored' = [s \in DOMAIN stored \ {r} |-> stored[s]]
     /\ Moves(q, "reconcile", r)
     /\ UNCHANGED <<static, overlay, restarts>>

(* loadRuntimeDetectionRules: first the rules that landed are certified, ...*)
Reconcile(q) ==
  /\ calls[q].pc = "reconcile"
  /\ stored' = [r \in DOMAIN stored |->
       IF r \in static THEN [stored[r] EXCEPT !.status = "certified"] ELSE stored[r]]
  /\ calls' = [d \in DOMAIN calls |->
       IF d = q THEN [calls[d] EXCEPT !.pc = "reload"]
       ELSE IF calls[d].rule \in static THEN [calls[d] EXCEPT !.raced = TRUE] ELSE calls[d]]
  /\ UNCHANGED <<static, overlay, restarts>>

(* Mutant of Reload: rules are added to the overlay and never taken out. *)
ReloadAdds(q) ==
  /\ calls[q].pc = "reload"
  /\ overlay' = overlay \cup {<<r, stored[r].content>> :
       r \in {s \in DOMAIN stored : stored[s].status # "certified"}}
  /\ calls' = [calls EXCEPT ![q] = Done]
  /\ UNCHANGED <<stored, static, restarts>>

(* ... then the others become the overlay. *)
Reload(q) ==
  /\ calls[q].pc = "reload"
  /\ overlay' = {<<r, stored[r].content>> :
       r \in {s \in DOMAIN stored : stored[s].status # "certified"}}
  /\ calls' = [calls EXCEPT ![q] = Done]
  /\ UNCHANGED <<stored, static, restarts>>

(* Mutant of RequestBundle: the stage is not looked at. *)
BundleAnyStage(q, r) ==
  /\ r \in DOMAIN stored
  /\ Begin(q, "bundle", r, "advance")

(* A bundle is made of a rule as it is read; only of a rule in an early    *)
(* stage the request goes on to note it.                                   *)
RequestBundle(q, r) ==
  /\ r \in DOMAIN stored
  /\ stored[r].status \in {"none", "detection-only", "promotion-requested"}
  /\ Begin(q, "bundle", r, "advance")

RequestPromotion(q, r) ==
  r \in DOMAIN stored /\ Begin(q, "promote", r, "advance")

(* What a promotion request may make of a status: one it names, or with a  *)
(* link or a note only, the one there is.                                  *)
Promoted(status) ==
  Settable \cup {IF status = "none" THEN "detection-only" ELSE status}

(* setPromotionState, for what is stored by now: a rule gone is left alone.*)
Advance(q) ==
  LET r == calls[q].rule
  IN /\ calls[q].pc = "advance"
     /\ \/ /\ r \in DOMAIN stored
           /\ \E status \in IF calls[q].op = "bundle" THEN {"bundle-generated"}
                            ELSE Promoted(stored[r].status) :
                stored' = [stored EXCEPT ![r].status = status]
        \/ r \notin DOMAIN stored /\ UNCHANGED stored
     /\ Moves(q, "done", r)
     /\ UNCHANGED <<static, overlay, restarts>>

(* The server is started anew, with the code of a release that may have    *)
(* more rules.  It answers requests before it has loaded the overlay.      *)
Restart ==
  /\ restarts < MaxRestarts
  /\ restarts' = restarts + 1
  /\ \E landed \in SUBSET Rules : static' = static \cup landed
  /\ overlay' = {}
  /\ calls' = [q \in DOMAIN calls |->
       IF q = Boot THEN [Unmade EXCEPT !.pc = "reconcile"]
       ELSE IF calls[q].pc = "unmade" THEN Unmade ELSE Done]
  /\ UNCHANGED stored

RulesNext ==
  \/ \E q \in Requests, r \in Rules :
       \/ RequestCreate(q, r) \/ RequestEdit(q, r) \/ RequestDelete(q, r)
       \/ RequestBundle(q, r) \/ RequestPromotion(q, r)
  \/ \E q \in Requests, content \in Contents : Save(q, content)
  \/ \E q \in Requests : RemoveRule(q) \/ Advance(q)
  \/ \E q \in Requests \cup {Boot} : Reconcile(q) \/ Reload(q)
  \/ Restart

RulesSpec == RulesInit /\ [][RulesNext]_ruleVars

-----------------------------------------------------------------------------
RulesTypeOK ==
  /\ DOMAIN stored \subseteq Rules
  /\ \A r \in DOMAIN stored :
       stored[r].content \in Contents /\ \E i \in DOMAIN Stages : stored[r].status = Stages[i]
  /\ static \subseteq Rules /\ overlay \subseteq Rules \X Contents
  /\ restarts \in 0..MaxRestarts

(* Once every load under way is over, detection goes by the rules that are *)
(* stored, each as it was saved last, and by no rule that is gone, however *)
(* saves, deletions, loads and a restart interleave; and only what is in   *)
(* the code of the release is certified ("runtime never self-certifies").  *)
(* A rule of the code may be in the overlay as well: a request may set it  *)
(* back between the two steps of a load.                                   *)
OverlayIsCurrent ==
  /\ (\A q \in DOMAIN calls : calls[q].pc \notin {"reconcile", "reload"}) =>
       {x \in overlay : x[1] \notin static} =
         {<<r, stored[r].content>> : r \in DOMAIN stored \ static}
  /\ \A r \in DOMAIN stored : stored[r].status = "certified" => r \in static

(* Making a bundle does not set a rule back ("never downgrades"), unless   *)
(* another request changed the rule after this one had read it.            *)
NeverDowngrades ==
  [][\A q \in Requests :
       /\ calls[q].op = "bundle" /\ calls'[q].pc = "done"
       /\ calls[q].rule \in DOMAIN stored \cap DOMAIN stored'
       => \/ calls[q].raced
          \/ Rank(stored'[calls[q].rule].status) >= Rank(stored[calls[q].rule].status)]_ruleVars
================================================================================
