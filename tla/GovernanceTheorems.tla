-------------------------- MODULE GovernanceTheorems --------------------------
(***************************************************************************)
(* What admins govern.  The overlay is current, and a bundle sets no rule  *)
(* back that nobody else changed; the profile that requests go by is one   *)
(* that is listed, and the newest version of a requirement the one         *)
(* published; the items of the catalogue are whole: for any sets of rules, *)
(* contents, requests, profiles, capabilities and items, any number of     *)
(* restarts and any releases.                                              *)
(***************************************************************************)
EXTENDS RuleOverlay, CapabilityStandards, CatalogOverrides, TLAPS,
        FiniteSetTheorems, SequenceTheorems, WellFoundedInduction

(* The rules of detection. *)

AllStages == {"none", "detection-only", "promotion-requested", "bundle-generated",
              "in-review", "certified"}
Early == {"none", "detection-only", "promotion-requested"}

Entry == [content : Contents, status : AllStages]

Call == [op : {"none", "create", "edit", "delete", "bundle", "promote"},
         pc : {"unmade", "save", "remove", "reconcile", "reload", "advance", "done"},
         rule : Rules \cup {NoRule}, raced : BOOLEAN]

TInv ==
  /\ stored \in [DOMAIN stored -> Entry] /\ DOMAIN stored \subseteq Rules
  /\ static \subseteq Rules /\ overlay \subseteq Rules \X Contents
  /\ calls \in [Requests \cup {Boot} -> Call]
  /\ restarts \in 0..MaxRestarts

(* A request that has come past its look-up is about a rule, and one that  *)
(* makes a bundle has nothing else to do than to note it.                  *)
CallsSane ==
  \A q \in DOMAIN calls :
    /\ calls[q].pc \in {"save", "remove", "advance"} => calls[q].rule \in Rules
    /\ calls[q].op = "bundle" => calls[q].pc = "advance"

NoLoad == \A q \in DOMAIN calls : calls[q].pc \notin {"reconcile", "reload"}

Current ==
  NoLoad => {x \in overlay : x[1] \notin static} =
              {<<r, stored[r].content>> : r \in DOMAIN stored \ static}

CertifiedLanded ==
  \A r \in DOMAIN stored : stored[r].status = "certified" => r \in static

(* A rule that a bundle is made of is in the early stage it was read in,   *)
(* unless it was changed since.                                            *)
BundlesAreEarly ==
  \A q \in DOMAIN calls :
    /\ calls[q].op = "bundle" /\ ~calls[q].raced
    /\ calls[q].rule \in DOMAIN stored
    => stored[calls[q].rule].status \in Early

RInv == TInv /\ CallsSane /\ Current /\ CertifiedLanded /\ BundlesAreEarly

-----------------------------------------------------------------------------
LEMMA RankOf ==
  ASSUME NEW i \in DOMAIN Stages
  PROVE  Rank(Stages[i]) = i
<1>1. \A j \in DOMAIN Stages : Stages[j] = Stages[i] => j = i
  BY DEF Stages
<1> QED BY <1>1 DEF Rank

LEMMA Ranks ==
  /\ Rank("none") = 1 /\ Rank("detection-only") = 2 /\ Rank("promotion-requested") = 3
  /\ Rank("bundle-generated") = 4 /\ Rank("in-review") = 5 /\ Rank("certified") = 6
<1>1. 1 \in DOMAIN Stages /\ 2 \in DOMAIN Stages /\ 3 \in DOMAIN Stages
  BY DEF Stages
<1>2. 4 \in DOMAIN Stages /\ 5 \in DOMAIN Stages /\ 6 \in DOMAIN Stages
  BY DEF Stages
<1>3. Stages[1] = "none" /\ Stages[2] = "detection-only" /\ Stages[3] = "promotion-requested"
  BY DEF Stages
<1>4. Stages[4] = "bundle-generated" /\ Stages[5] = "in-review" /\ Stages[6] = "certified"
  BY DEF Stages
<1> QED BY <1>1, <1>2, <1>3, <1>4, RankOf

LEMMA InitRules == RulesInit => RInv
<1> SUFFICES ASSUME RulesInit PROVE RInv
  OBVIOUS
<1> USE RuleAssumptions
<1>1. TInv
  <2>1. DOMAIN stored = {} /\ stored \in [DOMAIN stored -> Entry]
    BY DEF RulesInit
  <2>2. Unmade \in Call /\ [Unmade EXCEPT !.pc = "reconcile"] \in Call
    BY DEF Unmade, Call
  <2>3. calls \in [Requests \cup {Boot} -> Call]
    BY <2>2 DEF RulesInit
  <2>4. static = {} /\ overlay = {} /\ restarts = 0
    BY DEF RulesInit
  <2> QED BY <2>1, <2>3, <2>4 DEF TInv
<1>2. CallsSane
  BY DEF CallsSane, RulesInit, Unmade
<1>3. Current
  BY DEF Current, NoLoad, RulesInit, Unmade
<1>4. CertifiedLanded /\ BundlesAreEarly
  BY DEF CertifiedLanded, BundlesAreEarly, RulesInit, Unmade
<1> QED BY <1>1, <1>2, <1>3, <1>4 DEF RInv

-----------------------------------------------------------------------------
(* The beginning of a request changes nothing but where it is.             *)
LEMMA BeginKeeps ==
  ASSUME RInv,
         NEW q \in Requests, NEW r \in Rules,
         NEW op \in {"create", "edit", "delete", "bundle", "promote"},
         NEW next \in {"save", "remove", "advance"},
         op = "bundle" => next = "advance" /\ stored[r].status \in Early,
         Begin(q, op, r, next)
  PROVE  RInv'
<1> USE DEF RInv
<1> DEFINE new == [op |-> op, pc |-> next, rule |-> r, raced |-> FALSE]
<1>1. /\ calls' = [calls EXCEPT ![q] = new]
      /\ UNCHANGED <<stored, static, overlay, restarts>>
  BY DEF Begin
<1>2. calls \in [Requests \cup {Boot} -> Call] /\ new \in Call
  BY DEF TInv, Call
<1>3. DOMAIN calls' = DOMAIN calls /\ DOMAIN calls = Requests \cup {Boot}
  BY <1>1, <1>2
<1>4. \A d \in DOMAIN calls : calls'[d] = IF d = q THEN new ELSE calls[d]
  BY <1>1, <1>2
<1>5. calls[q].pc = "unmade"
  BY DEF Begin
<1>6. TInv'
  <2>1. calls' \in [Requests \cup {Boot} -> Call]
    BY <1>1, <1>2
  <2> QED BY <1>1, <2>1 DEF TInv
<1>7. CallsSane'
  BY <1>3, <1>4 DEF CallsSane
<1>8. Current'
  <2>1. NoLoad' => NoLoad
    BY <1>3, <1>4, <1>5 DEF NoLoad
  <2> QED BY <2>1, <1>1 DEF Current
<1>9. CertifiedLanded' /\ BundlesAreEarly'
  BY <1>1, <1>3, <1>4 DEF CertifiedLanded, BundlesAreEarly
<1> QED BY <1>6, <1>7, <1>8, <1>9

(* What Moves makes of the requests.                                       *)
LEMMA MovesCalls ==
  ASSUME RInv, NEW q \in Requests \cup {Boot}, NEW r \in Rules,
         NEW next \in {"reconcile", "done"},
         calls[q].rule = r, calls[q].pc \in {"save", "remove", "advance"},
         next = "reconcile" => calls[q].op # "bundle",
         Moves(q, next, r)
  PROVE  /\ calls' \in [Requests \cup {Boot} -> Call]
         /\ CallsSane'
         /\ calls'[q].pc = next
         /\ calls'[q].op # "bundle"
         /\ \A d \in DOMAIN calls : d # q =>
              /\ calls'[d].pc = calls[d].pc /\ calls'[d].op = calls[d].op
              /\ calls'[d].rule = calls[d].rule
              /\ calls[d].rule = r => calls'[d].raced
              /\ calls[d].rule # r => calls'[d] = calls[d]
<1> USE DEF RInv
<1>1. calls \in [Requests \cup {Boot} -> Call] /\ DOMAIN calls = Requests \cup {Boot}
  BY DEF TInv
<1>2. DOMAIN calls' = DOMAIN calls
  BY DEF Moves
<1>3. \A d \in DOMAIN calls : d # q =>
        calls'[d] = IF calls[d].rule = r THEN [calls[d] EXCEPT !.raced = TRUE] ELSE calls[d]
  BY DEF Moves
<1>4. calls'[q] = IF next = "done" THEN Done ELSE [calls[q] EXCEPT !.pc = next]
  BY <1>1 DEF Moves
<1>5. Done \in Call /\ Done.pc = "done" /\ Done.op = "none"
  BY DEF Done, Unmade, Call
<1>6. \A d \in DOMAIN calls : calls[d] \in Call
  BY <1>1
<1>7. calls'[q] \in Call /\ calls'[q].pc = next /\ calls'[q].op # "bundle"
  BY <1>1, <1>4, <1>5, <1>6 DEF Call
<1>8. \A d \in DOMAIN calls : d # q =>
        /\ calls'[d] \in Call
        /\ calls'[d].pc = calls[d].pc /\ calls'[d].op = calls[d].op
        /\ calls'[d].rule = calls[d].rule
        /\ calls[d].rule = r => calls'[d].raced
        /\ calls[d].rule # r => calls'[d] = calls[d]
  BY <1>3, <1>6 DEF Call
<1>9. calls' \in [Requests \cup {Boot} -> Call]
  <2>1. calls' = [d \in DOMAIN calls' |-> calls'[d]]
    BY DEF Moves
  <2> QED BY <2>1, <1>1, <1>2, <1>7, <1>8
<1>10. CallsSane'
  BY <1>1, <1>2, <1>7, <1>8 DEF CallsSane
<1> QED BY <1>7, <1>8, <1>9, <1>10

-----------------------------------------------------------------------------
(* What a save makes of the stored rules, and of every request's rule.     *)
LEMMA SaveKeeps ==
  ASSUME RInv, NEW q \in Requests, NEW content \in Contents, Save(q, content)
  PROVE  RInv'
<1> USE DEF RInv
<1> DEFINE r == calls[q].rule
           kept == IF r \in DOMAIN stored THEN stored[r].status ELSE "none"
           new == [content |-> content, status |-> kept]
<1>1. calls[q].pc = "save" /\ calls \in [Requests \cup {Boot} -> Call] /\ r \in Rules
  BY DEF Save, TInv, CallsSane
<1>2. calls[q].op # "bundle"
  BY <1>1 DEF CallsSane
<1>3. PICK s \in Rules : s = r
  BY <1>1
<1>4. /\ stored' = [x \in DOMAIN stored \cup {s} |->
                     IF x = s THEN [content |-> content, status |-> kept] ELSE stored[x]]
      /\ Moves(q, "reconcile", s)
      /\ UNCHANGED <<static, overlay, restarts>>
  BY <1>3 DEF Save
<1>5. /\ calls' \in [Requests \cup {Boot} -> Call] /\ CallsSane'
      /\ calls'[q].pc = "reconcile" /\ calls'[q].op # "bundle"
      /\ \A d \in DOMAIN calls : d # q =>
           /\ calls'[d].op = calls[d].op /\ calls'[d].rule = calls[d].rule
           /\ calls[d].rule = s => calls'[d].raced
           /\ calls[d].rule # s => calls'[d] = calls[d]
  BY <1>1, <1>2, <1>3, <1>4, MovesCalls
<1>6. DOMAIN stored' = DOMAIN stored \cup {s} /\ stored'[s] = new
  BY <1>4
<1>7. \A x \in DOMAIN stored : x # s => stored'[x] = stored[x]
  BY <1>4
<1>8. stored \in [DOMAIN stored -> Entry] /\ DOMAIN stored \subseteq Rules
  BY DEF TInv
<1>9. new \in Entry
  <2>1. s \in DOMAIN stored => stored[s] \in Entry
    BY <1>8
  <2>2. kept \in AllStages
    BY <2>1, <1>3 DEF Entry, AllStages
  <2> QED BY <2>2 DEF Entry
<1>10. TInv'
  <2>1. \A x \in DOMAIN stored' : stored'[x] \in Entry
    BY <1>6, <1>7, <1>8, <1>9
  <2>2. stored' \in [DOMAIN stored' -> Entry] /\ DOMAIN stored' \subseteq Rules
    BY <2>1, <1>4, <1>6, <1>8
  <2> QED BY <2>2, <1>4, <1>5 DEF TInv
<1>11. Current'
  <2>1. q \in DOMAIN calls'
    BY <1>5
  <2> QED BY <2>1, <1>5 DEF Current, NoLoad
<1>12. CertifiedLanded'
  <2>1. ASSUME NEW x \in DOMAIN stored', stored'[x].status = "certified"
        PROVE  x \in static
    <3>1. CASE x = s
      BY <2>1, <3>1, <1>3, <1>6 DEF CertifiedLanded
    <3>2. CASE x # s
      BY <2>1, <3>2, <1>6, <1>7 DEF CertifiedLanded
    <3> QED BY <3>1, <3>2
  <2> QED BY <2>1, <1>4 DEF CertifiedLanded
<1>13. BundlesAreEarly'
  <2> SUFFICES ASSUME NEW d \in DOMAIN calls', calls'[d].op = "bundle", ~calls'[d].raced,
                      calls'[d].rule \in DOMAIN stored'
               PROVE  stored'[calls'[d].rule].status \in Early
    BY DEF BundlesAreEarly
  <2>1. d # q /\ d \in DOMAIN calls
    BY <1>1, <1>5
  <2>2. calls'[d] = calls[d] /\ calls[d].rule # s
    BY <2>1, <1>5
  <2> QED BY <2>1, <2>2, <1>6, <1>7 DEF BundlesAreEarly
<1> QED BY <1>5, <1>10, <1>11, <1>12, <1>13

LEMMA RemoveKeeps ==
  ASSUME RInv, NEW q \in Requests, RemoveRule(q)
  PROVE  RInv'
<1> USE DEF RInv
<1>1. calls[q].pc = "remove" /\ calls \in [Requests \cup {Boot} -> Call] /\ calls[q].rule \in Rules
  BY DEF RemoveRule, TInv, CallsSane
<1>2. calls[q].op # "bundle"
  BY <1>1 DEF CallsSane
<1>3. PICK s \in Rules : s = calls[q].rule
  BY <1>1
<1>4. /\ stored' = [x \in DOMAIN stored \ {s} |-> stored[x]]
      /\ Moves(q, "reconcile", s)
      /\ UNCHANGED <<static, overlay, restarts>>
  BY <1>3 DEF RemoveRule
<1>5. /\ calls' \in [Requests \cup {Boot} -> Call] /\ CallsSane'
      /\ calls'[q].pc = "reconcile" /\ calls'[q].op # "bundle"
      /\ \A d \in DOMAIN calls : d # q =>
           /\ calls'[d].op = calls[d].op /\ calls'[d].rule = calls[d].rule
           /\ calls[d].rule = s => calls'[d].raced
           /\ calls[d].rule # s => calls'[d] = calls[d]
  BY <1>1, <1>2, <1>3, <1>4, MovesCalls
<1>6. /\ DOMAIN stored' = DOMAIN stored \ {s}
      /\ \A x \in DOMAIN stored' : stored'[x] = stored[x]
  BY <1>4
<1>7. TInv'
  BY <1>4, <1>5, <1>6 DEF TInv
<1>8. Current'
  <2>1. q \in DOMAIN calls'
    BY <1>5
  <2> QED BY <2>1, <1>5 DEF Current, NoLoad
<1>9. CertifiedLanded'
  BY <1>4, <1>6 DEF CertifiedLanded
<1>10. BundlesAreEarly'
  <2> SUFFICES ASSUME NEW d \in DOMAIN calls', calls'[d].op = "bundle", ~calls'[d].raced,
                      calls'[d].rule \in DOMAIN stored'
               PROVE  stored'[calls'[d].rule].status \in Early
    BY DEF BundlesAreEarly
  <2>1. d # q /\ d \in DOMAIN calls
    BY <1>1, <1>5
  <2>2. calls'[d] = calls[d]
    BY <2>1, <1>5
  <2> QED BY <2>1, <2>2, <1>6 DEF BundlesAreEarly
<1> QED BY <1>5, <1>7, <1>8, <1>9, <1>10

LEMMA ReconcileKeeps ==
  ASSUME RInv, NEW q \in Requests \cup {Boot}, Reconcile(q)
  PROVE  RInv'
<1> USE DEF RInv
<1>1. /\ calls[q].pc = "reconcile"
      /\ UNCHANGED <<static, overlay, restarts>>
      /\ calls \in [Requests \cup {Boot} -> Call] /\ DOMAIN calls = Requests \cup {Boot}
  BY DEF Reconcile, TInv
<1>2. /\ DOMAIN stored' = DOMAIN stored
      /\ stored' = [x \in DOMAIN stored' |-> stored'[x]]
      /\ \A x \in DOMAIN stored : stored'[x] =
           IF x \in static THEN [stored[x] EXCEPT !.status = "certified"] ELSE stored[x]
  BY DEF Reconcile
<1>3. /\ DOMAIN calls' = DOMAIN calls
      /\ calls' = [d \in DOMAIN calls' |-> calls'[d]]
      /\ calls'[q] = [calls[q] EXCEPT !.pc = "reload"]
      /\ \A d \in DOMAIN calls : d # q => calls'[d] =
           IF calls[d].rule \in static THEN [calls[d] EXCEPT !.raced = TRUE] ELSE calls[d]
  BY <1>1 DEF Reconcile
<1>4. \A x \in DOMAIN stored : stored[x] \in Entry
  BY DEF TInv
<1>5. \A x \in DOMAIN stored : stored'[x] \in Entry
  BY <1>2, <1>4 DEF Entry, AllStages
<1>6. \A d \in DOMAIN calls : calls[d] \in Call
  BY <1>1
<1>7. calls'[q] \in Call /\ calls'[q].pc = "reload" /\ calls'[q].op = calls[q].op
  BY <1>1, <1>3, <1>6 DEF Call
<1>8. \A d \in DOMAIN calls : d # q =>
        /\ calls'[d] \in Call
        /\ calls'[d].pc = calls[d].pc /\ calls'[d].op = calls[d].op
        /\ calls'[d].rule = calls[d].rule
        /\ calls[d].rule \in static => calls'[d].raced
        /\ calls[d].rule \notin static => calls'[d] = calls[d]
  <2> SUFFICES ASSUME NEW d \in DOMAIN calls, d # q
               PROVE  /\ calls'[d] \in Call
                      /\ calls'[d].pc = calls[d].pc /\ calls'[d].op = calls[d].op
                      /\ calls'[d].rule = calls[d].rule
                      /\ calls[d].rule \in static => calls'[d].raced
                      /\ calls[d].rule \notin static => calls'[d] = calls[d]
    OBVIOUS
  <2>1. CASE calls[d].rule \in static
    <3>1. calls'[d] = [calls[d] EXCEPT !.raced = TRUE] /\ calls[d] \in Call
      BY <2>1, <1>3, <1>6
    <3> QED BY <3>1, <2>1 DEF Call
  <2>2. CASE calls[d].rule \notin static
    <3>1. calls'[d] = calls[d] /\ calls[d] \in Call
      BY <2>2, <1>3, <1>6
    <3> QED BY <3>1, <2>2
  <2> QED BY <2>1, <2>2
<1>9. TInv'
  <2>1. stored' \in [DOMAIN stored' -> Entry] /\ DOMAIN stored' \subseteq Rules
    BY <1>2, <1>5 DEF TInv
  <2>2. calls' \in [Requests \cup {Boot} -> Call]
    BY <1>1, <1>3, <1>7, <1>8
  <2> QED BY <2>1, <2>2, <1>1 DEF TInv
<1>10. CallsSane'
  <2> SUFFICES ASSUME NEW d \in DOMAIN calls'
               PROVE  /\ calls'[d].pc \in {"save", "remove", "advance"} => calls'[d].rule \in Rules
                      /\ calls'[d].op = "bundle" => calls'[d].pc = "advance"
    BY DEF CallsSane
  <2>1. CASE d = q
    BY <2>1, <1>1, <1>7 DEF CallsSane
  <2>2. CASE d # q
    <3>1. /\ calls'[d].pc = calls[d].pc /\ calls'[d].op = calls[d].op
          /\ calls'[d].rule = calls[d].rule
      BY <2>2, <1>3, <1>8
    <3> QED BY <3>1, <1>3 DEF CallsSane
  <2> QED BY <2>1, <2>2
<1>11. Current'
  BY <1>1, <1>3, <1>7 DEF Current, NoLoad
<1>12. CertifiedLanded'
  BY <1>1, <1>2 DEF CertifiedLanded
<1>13. BundlesAreEarly'
  <2> SUFFICES ASSUME NEW d \in DOMAIN calls', calls'[d].op = "bundle", ~calls'[d].raced,
                      calls'[d].rule \in DOMAIN stored'
               PROVE  stored'[calls'[d].rule].status \in Early
    BY DEF BundlesAreEarly
  <2>1. d # q
    BY <1>1, <1>7 DEF CallsSane
  <2>2. calls'[d] = calls[d] /\ calls[d].rule \notin static
    BY <2>1, <1>3, <1>8
  <2> QED BY <2>2, <1>2, <1>3 DEF BundlesAreEarly
<1> QED BY <1>9, <1>10, <1>11, <1>12, <1>13

(* The end of a load: what is stored and not certified is what is stored   *)
(* and not in the code.                                                    *)
LEMMA ReloadKeeps ==
  ASSUME RInv, NEW q \in Requests \cup {Boot}, Reload(q)
  PROVE  RInv'
<1> USE DEF RInv
<1> DEFINE live == {x \in DOMAIN stored : stored[x].status # "certified"}
<1>1. /\ calls[q].pc = "reload"
      /\ overlay' = {<<r, stored[r].content>> : r \in live}
      /\ calls' = [calls EXCEPT ![q] = Done]
      /\ UNCHANGED <<stored, static, restarts>>
  BY DEF Reload
<1>2. /\ calls \in [Requests \cup {Boot} -> Call]
      /\ stored \in [DOMAIN stored -> Entry] /\ DOMAIN stored \subseteq Rules
  BY DEF TInv
<1>3. Done \in Call /\ Done.pc = "done" /\ Done.op = "none"
  BY DEF Done, Unmade, Call
<1>4. TInv'
  <2>1. calls' \in [Requests \cup {Boot} -> Call]
    BY <1>1, <1>2, <1>3
  <2>2. overlay' \subseteq Rules \X Contents
    <3>1. \A x \in live : x \in Rules /\ stored[x].content \in Contents
      BY <1>2 DEF Entry
    <3> QED BY <3>1, <1>1
  <2> QED BY <2>1, <2>2, <1>1 DEF TInv
<1>5. DOMAIN calls' = DOMAIN calls /\ \A d \in DOMAIN calls : calls'[d] = IF d = q THEN Done ELSE calls[d]
  BY <1>1, <1>2
<1>6. CallsSane'
  BY <1>3, <1>5 DEF CallsSane
<1>7. Current'
  <2>1. DOMAIN stored \ static \subseteq live
    BY DEF CertifiedLanded
  <2>2. {x \in overlay' : x[1] \notin static} =
          {<<r, stored[r].content>> : r \in DOMAIN stored \ static}
    <3>1. ASSUME NEW x \in overlay', x[1] \notin static
          PROVE  x \in {<<r, stored[r].content>> : r \in DOMAIN stored \ static}
      BY <3>1, <1>1
    <3>2. ASSUME NEW r \in DOMAIN stored \ static
          PROVE  /\ <<r, stored[r].content>> \in overlay'
                 /\ <<r, stored[r].content>>[1] \notin static
      BY <2>1, <1>1
    <3> QED BY <3>1, <3>2
  <2> QED BY <2>2, <1>1 DEF Current
<1>8. CertifiedLanded'
  BY <1>1 DEF CertifiedLanded
<1>9. BundlesAreEarly'
  BY <1>1, <1>3, <1>5 DEF BundlesAreEarly
<1> QED BY <1>4, <1>6, <1>7, <1>8, <1>9

LEMMA AdvanceKeeps ==
  ASSUME RInv, NEW q \in Requests, Advance(q)
  PROVE  RInv'
<1> USE DEF RInv
<1>1. /\ calls[q].pc = "advance" /\ calls \in [Requests \cup {Boot} -> Call]
      /\ calls[q].rule \in Rules
      /\ UNCHANGED <<static, overlay, restarts>>
  BY DEF Advance, TInv, CallsSane
<1>2. PICK s \in Rules : s = calls[q].rule
  BY <1>1
<1>3. Moves(q, "done", s)
  BY <1>2 DEF Advance
<1>4. /\ calls' \in [Requests \cup {Boot} -> Call] /\ CallsSane'
      /\ calls'[q].pc = "done" /\ calls'[q].op # "bundle"
      /\ \A d \in DOMAIN calls : d # q =>
           /\ calls'[d].pc = calls[d].pc /\ calls'[d].op = calls[d].op
           /\ calls'[d].rule = calls[d].rule
           /\ calls[d].rule = s => calls'[d].raced
           /\ calls[d].rule # s => calls'[d] = calls[d]
  BY <1>1, <1>2, <1>3, MovesCalls
<1>5. stored \in [DOMAIN stored -> Entry] /\ DOMAIN stored \subseteq Rules
  BY DEF TInv
<1>6. /\ DOMAIN stored' = DOMAIN stored
      /\ stored' \in [DOMAIN stored -> Entry]
      /\ \A x \in DOMAIN stored :
           /\ stored'[x].content = stored[x].content
           /\ x # s => stored'[x] = stored[x]
           /\ stored'[x].status = "certified" => stored[x].status = "certified"
  <2>1. CASE s \in DOMAIN stored
    <3>1. stored[s] \in Entry
      BY <2>1, <1>5
    <3>2. Promoted(stored[s].status) \subseteq AllStages
      BY <3>1 DEF Promoted, Settable, Entry, AllStages
    <3>3. "certified" \in Promoted(stored[s].status) => stored[s].status = "certified"
      BY DEF Promoted, Settable
    <3>4. PICK status \in AllStages :
            /\ stored' = [stored EXCEPT ![s].status = status]
            /\ status = "certified" => stored[s].status = "certified"
      BY <2>1, <1>2, <3>2, <3>3 DEF Advance, AllStages
    <3>5. [stored[s] EXCEPT !.status = status] \in Entry
      BY <3>1 DEF Entry
    <3>6. stored' = [stored EXCEPT ![s] = [stored[s] EXCEPT !.status = status]]
      BY <3>4
    <3>7. stored'[s] = [stored[s] EXCEPT !.status = status]
      BY <3>6, <2>1, <1>5
    <3>8. stored'[s].content = stored[s].content /\ stored'[s].status = status
      BY <3>1, <3>7 DEF Entry
    <3> QED BY <3>4, <3>5, <3>6, <3>8, <1>5
  <2>2. CASE s \notin DOMAIN stored
    BY <2>2, <1>2, <1>5 DEF Advance
  <2> QED BY <2>1, <2>2
<1>7. TInv'
  BY <1>1, <1>4, <1>5, <1>6 DEF TInv
<1>8. Current'
  <2>1. NoLoad' => NoLoad
    BY <1>1, <1>4 DEF NoLoad
  <2>2. {<<r, stored'[r].content>> : r \in DOMAIN stored \ static}
          = {<<r, stored[r].content>> : r \in DOMAIN stored \ static}
    BY <1>6
  <2> QED BY <2>1, <2>2, <1>1, <1>6 DEF Current
<1>9. CertifiedLanded'
  BY <1>1, <1>6 DEF CertifiedLanded
<1>10. BundlesAreEarly'
  <2> SUFFICES ASSUME NEW d \in DOMAIN calls', calls'[d].op = "bundle", ~calls'[d].raced,
                      calls'[d].rule \in DOMAIN stored'
               PROVE  stored'[calls'[d].rule].status \in Early
    BY DEF BundlesAreEarly
  <2>1. d # q /\ d \in DOMAIN calls
    BY <1>1, <1>4
  <2>2. calls'[d] = calls[d] /\ calls[d].rule # s
    BY <2>1, <1>4
  <2> QED BY <2>1, <2>2, <1>6 DEF BundlesAreEarly
<1> QED BY <1>4, <1>7, <1>8, <1>9, <1>10

LEMMA RestartKeeps ==
  ASSUME RInv, Restart
  PROVE  RInv'
<1> USE DEF RInv
<1> USE RuleAssumptions
<1>1. /\ restarts < MaxRestarts /\ restarts' = restarts + 1 /\ overlay' = {}
      /\ UNCHANGED stored
  BY DEF Restart
<1>2. PICK landed \in SUBSET Rules : static' = static \cup landed
  BY DEF Restart
<1>3. calls \in [Requests \cup {Boot} -> Call]
  BY DEF TInv
<1>4. /\ DOMAIN calls' = DOMAIN calls
      /\ calls' = [q \in DOMAIN calls' |-> calls'[q]]
      /\ calls'[Boot] = [Unmade EXCEPT !.pc = "reconcile"]
      /\ \A q \in DOMAIN calls : calls'[q] \in
           {[Unmade EXCEPT !.pc = "reconcile"], Unmade, Done}
  BY <1>3 DEF Restart
<1>5. \A c \in {[Unmade EXCEPT !.pc = "reconcile"], Unmade, Done} :
        /\ c \in Call /\ c.op = "none"
        /\ c.pc \in {"reconcile", "unmade", "done"}
  <2> DEFINE loading == [Unmade EXCEPT !.pc = "reconcile"]
  <2>1. loading \in Call /\ loading.op = "none" /\ loading.pc = "reconcile"
    BY DEF Unmade, Call
  <2>2. Unmade \in Call /\ Unmade.op = "none" /\ Unmade.pc = "unmade"
    BY DEF Unmade, Call
  <2>3. Done \in Call /\ Done.op = "none" /\ Done.pc = "done"
    BY DEF Done, Unmade, Call
  <2> HIDE DEF loading
  <2>4. \A c \in {loading, Unmade, Done} :
          c \in Call /\ c.op = "none" /\ c.pc \in {"reconcile", "unmade", "done"}
    BY <2>1, <2>2, <2>3
  <2> QED BY <2>4 DEF loading
<1>6. TInv'
  <2>1. calls' \in [Requests \cup {Boot} -> Call]
    BY <1>3, <1>4, <1>5
  <2>2. restarts' \in 0..MaxRestarts
    BY <1>1 DEF TInv
  <2> QED BY <2>1, <2>2, <1>1, <1>2 DEF TInv
<1>7. CallsSane' /\ BundlesAreEarly'
  BY <1>4, <1>5 DEF CallsSane, BundlesAreEarly
<1>8. Current'
  <2>1. calls'[Boot].pc = "reconcile" /\ Boot \in DOMAIN calls'
    BY <1>3, <1>4 DEF Unmade
  <2> QED BY <2>1 DEF Current, NoLoad
<1>9. CertifiedLanded'
  BY <1>1, <1>2 DEF CertifiedLanded
<1> QED BY <1>6, <1>7, <1>8, <1>9

LEMMA StutterKeeps ==
  ASSUME RInv, UNCHANGED ruleVars
  PROVE  RInv'
BY DEF RInv, ruleVars, TInv, CallsSane, Current, NoLoad, CertifiedLanded, BundlesAreEarly

LEMMA NextKeeps ==
  ASSUME RInv, [RulesNext]_ruleVars
  PROVE  RInv'
<1>1. CASE UNCHANGED ruleVars
  BY <1>1, StutterKeeps
<1>2. ASSUME NEW q \in Requests, NEW r \in Rules, RequestCreate(q, r) \/ RequestEdit(q, r)
      PROVE  RInv'
  <2>1. PICK op \in {"create", "edit"} : Begin(q, op, r, "save")
    BY <1>2 DEF RequestCreate, RequestEdit
  <2> QED BY <2>1, BeginKeeps
<1>3. ASSUME NEW q \in Requests, NEW r \in Rules, RequestDelete(q, r)
      PROVE  RInv'
  BY <1>3, BeginKeeps DEF RequestDelete
<1>4. ASSUME NEW q \in Requests, NEW r \in Rules, RequestBundle(q, r)
      PROVE  RInv'
  BY <1>4, BeginKeeps DEF RequestBundle, Early
<1>5. ASSUME NEW q \in Requests, NEW r \in Rules, RequestPromotion(q, r)
      PROVE  RInv'
  BY <1>5, BeginKeeps DEF RequestPromotion
<1>6. ASSUME NEW q \in Requests \cup {Boot}, Reconcile(q) \/ Reload(q)
      PROVE  RInv'
  BY <1>6, ReconcileKeeps, ReloadKeeps
<1>7. ASSUME NEW q \in Requests, RemoveRule(q) \/ Advance(q)
      PROVE  RInv'
  BY <1>7, RemoveKeeps, AdvanceKeeps
<1>8. ASSUME NEW q \in Requests, NEW content \in Contents, Save(q, content)
      PROVE  RInv'
  BY <1>8, SaveKeeps
<1>9. CASE Restart
  BY <1>9, RestartKeeps
<1> QED BY <1>1, <1>2, <1>3, <1>4, <1>5, <1>6, <1>7, <1>8, <1>9 DEF RulesNext

-----------------------------------------------------------------------------
(* What the overlay holds once no load is under way, and who is certified, *)
(* rest on the invariant that a request knows its rule, that certified     *)
(* rules are in the code, and that a rule's bundle found it early.         *)
THEOREM Invariant == RulesSpec => []RInv
<1>1. RulesInit => RInv
  BY InitRules
<1>2. RInv /\ [RulesNext]_ruleVars => RInv'
  BY NextKeeps
<1> QED BY <1>1, <1>2, PTL DEF RulesSpec

(* loadRuntimeDetectionRules leaves the overlay as it is stored.           *)
THEOREM OverlayIsCurrentAlways == RulesSpec => []OverlayIsCurrent
<1>1. RInv => OverlayIsCurrent
  BY DEF RInv, Current, NoLoad, CertifiedLanded, OverlayIsCurrent
<1> QED BY <1>1, Invariant, PTL

(* A request for a bundle ends by noting it, or by a restart.              *)
LEMMA BundleStep ==
  ASSUME RInv, [RulesNext]_ruleVars,
         NEW q \in Requests, calls[q].op = "bundle", calls'[q].pc = "done",
         calls[q].rule \in DOMAIN stored \cap DOMAIN stored', ~calls[q].raced
  PROVE  Rank(stored'[calls[q].rule].status) >= Rank(stored[calls[q].rule].status)
<1> USE DEF RInv
<1>1. calls[q].pc = "advance" /\ calls \in [Requests \cup {Boot} -> Call]
  BY DEF TInv, CallsSane
<1>2. PICK s \in Rules : s = calls[q].rule /\ s \in DOMAIN stored
  BY <1>1 DEF CallsSane
<1>3. stored[s].status \in Early
  BY <1>2 DEF BundlesAreEarly, TInv
<1>4. Rank(stored[s].status) \in 1..3
  BY <1>3, Ranks DEF Early
<1>5. CASE UNCHANGED stored
  <2>1. stored'[s].status = stored[s].status
    BY <1>5
  <2> QED BY <2>1, <1>2, <1>4
<1>6. CASE Advance(q)
  <2>1. stored' = [stored EXCEPT ![s].status = "bundle-generated"]
    BY <1>2, <1>6 DEF Advance
  <2>2. stored[s] \in Entry /\ stored \in [DOMAIN stored -> Entry]
    BY <1>2 DEF TInv
  <2>3. stored'[s].status = "bundle-generated"
    BY <2>1, <2>2, <1>2 DEF Entry
  <2>4. Rank(stored'[s].status) = 4
    BY <2>3, Ranks
  <2> QED BY <2>4, <1>2, <1>4
<1>7. ASSUME NEW d \in Requests, Advance(d) \/ RemoveRule(d), d # q
      PROVE  FALSE
  <2>1. PICK next \in {"reconcile", "done"} : Moves(d, next, calls[d].rule)
    BY <1>7 DEF Advance, RemoveRule
  <2>2. calls'[q].pc = calls[q].pc
    BY <2>1, <1>1, <1>7 DEF Moves, Call
  <2> QED BY <2>2, <1>1
<1>8. ASSUME NEW d \in Requests, NEW content \in Contents, Save(d, content)
      PROVE  FALSE
  <2>1. Moves(d, "reconcile", calls[d].rule) /\ d # q
    BY <1>8, <1>1 DEF Save
  <2>2. calls'[q].pc = calls[q].pc
    BY <2>1, <1>1 DEF Moves, Call
  <2> QED BY <2>2, <1>1
<1>9. ~RemoveRule(q)
  BY <1>1 DEF RemoveRule
<1>10. ASSUME NEW d \in Requests \cup {Boot}, Reconcile(d)
       PROVE  FALSE
  <2>1. d # q
    BY <1>10, <1>1 DEF Reconcile
  <2>2. calls'[q].pc = calls[q].pc
    BY <2>1, <1>1, <1>10 DEF Reconcile, Call
  <2> QED BY <2>2, <1>1
<1>11. ASSUME NEW d \in Requests, NEW r \in Rules,
              RequestCreate(d, r) \/ RequestEdit(d, r) \/ RequestDelete(d, r)
              \/ RequestBundle(d, r) \/ RequestPromotion(d, r)
       PROVE  UNCHANGED stored
  BY <1>11 DEF RequestCreate, RequestEdit, RequestDelete, RequestBundle, RequestPromotion, Begin
<1>12. ASSUME NEW d \in Requests \cup {Boot}, Reload(d)
       PROVE  UNCHANGED stored
  BY <1>12 DEF Reload
<1>13. Restart => UNCHANGED stored
  BY DEF Restart
<1>14. UNCHANGED ruleVars => UNCHANGED stored
  BY DEF ruleVars
<1> QED BY <1>5, <1>6, <1>7, <1>8, <1>9, <1>10, <1>11, <1>12, <1>13, <1>14 DEF RulesNext

(* Making a bundle sets no rule back that nobody else changed.             *)
THEOREM NeverDowngradesAlways == RulesSpec => NeverDowngrades
<1>1. ASSUME RInv, [RulesNext]_ruleVars
      PROVE  [\A q \in Requests :
               /\ calls[q].op = "bundle" /\ calls'[q].pc = "done"
               /\ calls[q].rule \in DOMAIN stored \cap DOMAIN stored'
               => \/ calls[q].raced
                  \/ Rank(stored'[calls[q].rule].status)
                       >= Rank(stored[calls[q].rule].status)]_ruleVars
  BY <1>1, BundleStep
<1> QED BY <1>1, Invariant, PTL DEF RulesSpec, NeverDowngrades
-----------------------------------------------------------------------------
(* Numbers: the naturals are well-founded, so that a set of them has a     *)
(* least member, and a greatest if it is bounded.                          *)
NatLess == {p \in Nat \X Nat : p[1] < p[2]}

LEMMA MinIsLeast ==
  ASSUME NEW S, S # {}, \A n \in S : n \in Nat
  PROVE  Min(S) \in S /\ \A n \in S : Min(S) <= n
<1>1. OpToRel(<, Nat) = NatLess
  BY DEF OpToRel, NatLess
<1>2. S \in SUBSET Nat
  OBVIOUS
<1>3. PICK n \in S : \A m \in S : ~(<<m, n>> \in NatLess)
  BY <1>1, <1>2, NatLessThanWellFounded, WFMin
<1>4. \A m \in S : ~(m < n)
  <2>1. \A m \in S : <<m, n>> \in Nat \X Nat
    OBVIOUS
  <2> QED BY <1>3, <2>1 DEF NatLess
<1> QED BY <1>4 DEF Min

LEMMA MaxIsGreatest ==
  ASSUME NEW S, S # {}, NEW b \in Nat, \A n \in S : n \in Nat /\ n <= b
  PROVE  Max(S) \in S /\ \A n \in S : Max(S) >= n
<1> DEFINE T == {i \in Nat : b - i \in S}
<1>1. T # {} /\ \A t \in T : t \in Nat
  <2>1. PICK n \in S : n \in Nat /\ n <= b
    OBVIOUS
  <2>2. b - n \in Nat /\ b - (b - n) = n
    BY <2>1
  <2> QED BY <2>1, <2>2
<1>2. Min(T) \in T /\ \A t \in T : Min(T) <= t
  BY <1>1, MinIsLeast
<1>3. PICK least \in T : \A t \in T : least <= t
  BY <1>2
<1>4. ASSUME NEW n \in S PROVE b - least >= n
  <2>1. n \in Nat /\ n <= b /\ b - n \in Nat /\ b - (b - n) = n
    OBVIOUS
  <2>2. least <= b - n /\ least \in Nat
    BY <1>3, <2>1
  <2> QED BY <2>1, <2>2
<1> QED BY <1>3, <1>4 DEF Max

-----------------------------------------------------------------------------
(* The profiles.                                                           *)
IsList(s) == s \in Seq({s[i] : i \in DOMAIN s})

ProfileFields == {"id", "key", "version", "status"}
IsProfiles(s) == IsList(s) /\ \A i \in DOMAIN s : DOMAIN s[i] = ProfileFields

Active(s, i) == s[i].status = "active"

(* No other profile of its key is active beside an active one.             *)
Alone(s) ==
  \A i, j \in DOMAIN s : s[i].key = s[j].key /\ Active(s, i) /\ Active(s, j) => i = j

(* Once the profile in the code is stored, one of its key is active.       *)
DefaultKept(s, u) ==
  (\E i \in DOMAIN s : s[i].id = DefaultId) /\ ~u =>
    \E i \in DOMAIN s : s[i].key = DefaultKey /\ Active(s, i)

ProfilesInv == IsProfiles(profiles) /\ Alone(profiles) /\ DefaultKept(profiles, undone)

LEMMA Longer ==
  ASSUME NEW s, IsList(s), NEW x
  PROVE  LET t == Append(s, x) IN
         /\ IsList(t) /\ Len(s) \in Nat /\ DOMAIN s = 1..Len(s)
         /\ Len(t) = Len(s) + 1 /\ DOMAIN t = 1..(Len(s) + 1)
         /\ t[Len(s) + 1] = x
         /\ \A i \in DOMAIN s : t[i] = s[i]
<1> DEFINE All == {s[i] : i \in DOMAIN s} \cup {x}
           t == Append(s, x)
<1>1. s \in Seq(All) /\ Len(s) \in Nat /\ DOMAIN s = 1..Len(s)
  BY DEF IsList
<1>2. /\ t \in Seq(All) /\ Len(t) = Len(s) + 1 /\ DOMAIN t = 1..(Len(s) + 1)
      /\ t[Len(s) + 1] = x
      /\ \A i \in 1..Len(s) : t[i] = s[i]
  BY <1>1
<1> HIDE DEF t
<1>3. IsList(t)
  BY <1>2 DEF IsList
<1> QED BY <1>1, <1>2, <1>3 DEF t

(* A list whose entries are changed in place is a list.                    *)
LEMMA Replaced ==
  ASSUME NEW s, IsList(s), NEW t, DOMAIN t = DOMAIN s, t = [i \in DOMAIN t |-> t[i]]
  PROVE  IsList(t)
<1>1. Len(s) \in Nat /\ DOMAIN s = 1..Len(s)
  BY DEF IsList
<1>2. t \in [1..Len(s) -> {t[i] : i \in DOMAIN t}]
  BY <1>1
<1>3. Seq({t[i] : i \in DOMAIN t}) = UNION {[1..n -> {t[i] : i \in DOMAIN t}] : n \in Nat}
  BY SeqDef
<1> QED BY <1>1, <1>2, <1>3 DEF IsList

LEMMA RetiredProfiles ==
  ASSUME NEW s, IsProfiles(s), NEW key, NEW kept
  PROVE  LET t == Retired(s, key, kept) IN
         /\ IsProfiles(t) /\ DOMAIN t = DOMAIN s
         /\ \A i \in DOMAIN s :
              /\ t[i].id = s[i].id /\ t[i].key = s[i].key
              /\ Active(t, i) <=> Active(s, i) /\ (i = kept \/ s[i].key # key)
<1> DEFINE t == Retired(s, key, kept)
<1>1. DOMAIN t = DOMAIN s /\ t = [i \in DOMAIN t |-> t[i]]
  BY DEF Retired
<1>2. ASSUME NEW i \in DOMAIN s
      PROVE  /\ DOMAIN t[i] = ProfileFields
             /\ t[i].id = s[i].id /\ t[i].key = s[i].key
             /\ Active(t, i) <=> Active(s, i) /\ (i = kept \/ s[i].key # key)
  <2>1. DOMAIN s[i] = ProfileFields
    BY DEF IsProfiles
  <2>2. CASE i # kept /\ s[i].key = key /\ s[i].status = "active"
    <3>1. t[i] = [s[i] EXCEPT !.status = "retired"]
      BY <2>2 DEF Retired
    <3> QED BY <2>1, <2>2, <3>1 DEF ProfileFields, Active
  <2>3. CASE ~(i # kept /\ s[i].key = key /\ s[i].status = "active")
    <3>1. t[i] = s[i]
      BY <2>3 DEF Retired
    <3> QED BY <2>1, <2>3, <3>1 DEF Active
  <2> QED BY <2>2, <2>3
<1> HIDE DEF t
<1>3. IsList(t)
  BY <1>1, Replaced DEF IsProfiles
<1> QED BY <1>1, <1>2, <1>3 DEF IsProfiles, t

LEMMA AddedProfile ==
  ASSUME NEW s, NEW u, IsProfiles(s), Alone(s), DefaultKept(s, u), NEW p,
         DOMAIN p = ProfileFields,
         p.status = "active" => \A i \in DOMAIN s : Active(s, i) => s[i].key # p.key,
         p.id = DefaultId =>
           \/ p.status = "active" /\ p.key = DefaultKey
           \/ \E i \in DOMAIN s : s[i].key = DefaultKey /\ Active(s, i)
  PROVE  LET t == Append(s, p) IN IsProfiles(t) /\ Alone(t) /\ DefaultKept(t, u)
<1> DEFINE t == Append(s, p)
<1>1. /\ IsList(t) /\ Len(s) \in Nat /\ DOMAIN s = 1..Len(s)
      /\ DOMAIN t = 1..(Len(s) + 1)
      /\ t[Len(s) + 1] = p
      /\ \A i \in DOMAIN s : t[i] = s[i]
  BY Longer DEF IsProfiles
<1> HIDE DEF t
<1>2. \A i \in DOMAIN t : i = Len(s) + 1 \/ i \in DOMAIN s
  BY <1>1
<1>3. IsProfiles(t)
  BY <1>1, <1>2 DEF IsProfiles
<1>4. Alone(t)
  BY <1>1, <1>2 DEF Alone, Active
<1>5. DefaultKept(t, u)
  <2>1. Len(s) + 1 \in DOMAIN t /\ DOMAIN s \subseteq DOMAIN t
    BY <1>1
  <2> QED BY <1>1, <1>2, <2>1 DEF DefaultKept, Active
<1> QED BY <1>3, <1>4, <1>5 DEF t

(* A patch changes what is active by these rules. *)
Patched(s, t, i, status) ==
  /\ DOMAIN t = DOMAIN s
  /\ \A j \in DOMAIN s :
       /\ t[j].id = s[j].id /\ t[j].key = s[j].key
       /\ j = i => (Active(t, j) <=> IF status = "kept" THEN Active(s, j)
                                     ELSE status = "active")
       /\ j # i => (Active(t, j) <=>
                      Active(s, j) /\ (status # "active" \/ s[j].key # s[i].key))

LEMMA PatchedProfiles ==
  ASSUME NEW s, IsProfiles(s), NEW i \in DOMAIN s, NEW status, NEW edited,
         NEW t,
         t = [(IF status = "active" THEN Retired(s, s[i].key, i) ELSE s)
                EXCEPT ![i].status = IF status = "kept" THEN @ ELSE status,
                       ![i].version = IF edited THEN @ + 1 ELSE @]
  PROVE  IsProfiles(t) /\ Patched(s, t, i, status)
<1> DEFINE r == IF status = "active" THEN Retired(s, s[i].key, i) ELSE s
<1>1. /\ IsProfiles(r) /\ DOMAIN r = DOMAIN s
      /\ \A j \in DOMAIN s :
           /\ r[j].id = s[j].id /\ r[j].key = s[j].key
           /\ j = i => (Active(r, j) <=> Active(s, j))
           /\ j # i => (Active(r, j) <=>
                          Active(s, j) /\ (status # "active" \/ s[j].key # s[i].key))
  BY RetiredProfiles
<1> HIDE DEF r
<1> DEFINE given == IF status = "kept" THEN r[i].status ELSE status
<1>2. PICK v : t = [r EXCEPT ![i] = [[r[i] EXCEPT !.status = given] EXCEPT !.version = v]]
  BY DEF r
<1> HIDE DEF given
<1>3. DOMAIN t = DOMAIN s /\ t = [j \in DOMAIN t |-> t[j]]
  BY <1>1, <1>2
<1>4. \A j \in DOMAIN s : j # i => t[j] = r[j]
  BY <1>1, <1>2
<1>5. /\ DOMAIN t[i] = ProfileFields /\ t[i].id = r[i].id /\ t[i].key = r[i].key
      /\ t[i].status = given
  <2> DEFINE old == r[i]
             marked == [old EXCEPT !.status = given]
             new == [marked EXCEPT !.version = v]
  <2>1. t[i] = new
    BY <1>1, <1>2
  <2>2. DOMAIN old = ProfileFields
    BY <1>1 DEF IsProfiles
  <2> HIDE DEF old
  <2>3. /\ DOMAIN marked = ProfileFields /\ marked.id = old.id /\ marked.key = old.key
        /\ marked.status = given
    BY <2>2 DEF ProfileFields
  <2> HIDE DEF marked
  <2>4. /\ DOMAIN new = ProfileFields /\ new.id = old.id /\ new.key = old.key
        /\ new.status = given
    BY <2>3 DEF ProfileFields
  <2> HIDE DEF new
  <2> QED BY <2>1, <2>4 DEF old
<1>6. IsList(t)
  BY <1>1, <1>3, Replaced DEF IsProfiles
<1>7. IsProfiles(t)
  BY <1>1, <1>3, <1>4, <1>5, <1>6 DEF IsProfiles
<1>8. Active(t, i) <=> IF status = "kept" THEN Active(s, i) ELSE status = "active"
  <2>1. CASE status = "kept"
    BY <1>1, <1>5, <2>1 DEF Active, given
  <2>2. CASE status # "kept"
    BY <1>5, <2>2 DEF Active, given
  <2> QED BY <2>1, <2>2
<1>9. \A j \in DOMAIN s : t[j].id = s[j].id /\ t[j].key = s[j].key
  BY <1>1, <1>3, <1>4, <1>5
<1>10. ASSUME NEW j \in DOMAIN s, j # i
       PROVE  Active(t, j) <=>
                Active(s, j) /\ (status # "active" \/ s[j].key # s[i].key)
  BY <1>1, <1>4, <1>10 DEF Active
<1> HIDE DEF given
<1> QED BY <1>3, <1>7, <1>8, <1>9, <1>10 DEF Patched

LEMMA PatchKeeps ==
  ASSUME NEW s, Alone(s), NEW u, DefaultKept(s, u), NEW i \in DOMAIN s,
         NEW status \in {"draft", "active", "retired", "kept"},
         NEW t, Patched(s, t, i, status), NEW w,
         status = "retired" /\ Active(s, i) => Replaceable(s, i),
         ~w => ~u /\ ~(status = "draft" /\ Active(s, i) /\ ~Replaceable(s, i))
  PROVE  Alone(t) /\ DefaultKept(t, w)
<1>1. CASE status = "kept"
  <2>1. DOMAIN t = DOMAIN s /\ \A j \in DOMAIN s :
          t[j].id = s[j].id /\ t[j].key = s[j].key /\ (Active(t, j) <=> Active(s, j))
    BY <1>1 DEF Patched
  <2> QED BY <2>1 DEF Alone, DefaultKept
<1>2. CASE status = "active"
  <2>1. DOMAIN t = DOMAIN s /\ \A j \in DOMAIN s :
          /\ t[j].id = s[j].id /\ t[j].key = s[j].key
          /\ Active(t, j) <=> j = i \/ (Active(s, j) /\ s[j].key # s[i].key)
    BY <1>2 DEF Patched
  <2>2. Alone(t)
    BY <2>1 DEF Alone
  <2>3. DefaultKept(t, w)
    <3>1. CASE s[i].key = DefaultKey
      BY <2>1, <3>1 DEF DefaultKept
    <3>2. CASE s[i].key # DefaultKey
      BY <2>1, <3>2 DEF DefaultKept
    <3> QED BY <3>1, <3>2
  <2> QED BY <2>2, <2>3
<1>3. CASE status \in {"draft", "retired"}
  <2>1. DOMAIN t = DOMAIN s /\ \A j \in DOMAIN s :
          /\ t[j].id = s[j].id /\ t[j].key = s[j].key
          /\ Active(t, j) <=> j # i /\ Active(s, j)
    BY <1>3 DEF Patched
  <2>2. Alone(t)
    BY <2>1 DEF Alone
  <2>3. DefaultKept(t, w)
    <3> SUFFICES ASSUME \E j \in DOMAIN t : t[j].id = DefaultId, ~w
                 PROVE  \E j \in DOMAIN t : t[j].key = DefaultKey /\ Active(t, j)
      BY DEF DefaultKept
    <3>1. PICK j \in DOMAIN s : s[j].key = DefaultKey /\ Active(s, j)
      BY <2>1 DEF DefaultKept
    <3>2. CASE j # i
      BY <2>1, <3>1, <3>2
    <3>3. CASE j = i
      <4>1. Replaceable(s, i)
        BY <1>3, <3>1, <3>3
      <4> QED BY <2>1, <3>1, <3>3, <4>1 DEF Replaceable, Active
    <3> QED BY <3>2, <3>3
  <2> QED BY <2>2, <2>3
<1> QED BY <1>1, <1>2, <1>3

(* The copy of the profile in the code that is made before it is edited.   *)
LEMMA MutableProfiles ==
  ASSUME ProfilesInv, NEW id, \E p \in Range(Listed) : p.id = id
  PROVE  LET s == WithMutable(id) IN
         /\ IsProfiles(s) /\ Alone(s) /\ DefaultKept(s, undone)
         /\ \E j \in DOMAIN s : s[j].id = id
<1>1. CASE Stored(id)
  BY <1>1 DEF WithMutable, ProfilesInv, Stored, Range
<1>2. CASE ~Stored(id)
  <2> DEFINE status == IF \E p \in Range(profiles) : p.key = DefaultKey /\ p.status = "active"
                       THEN "retired" ELSE DefaultProfile.status
             copy == [DefaultProfile EXCEPT !.status = status]
             t == Append(profiles, copy)
  <2>1. WithMutable(id) = t
    BY <1>2 DEF WithMutable
  <2>2. id = DefaultId
    <3>1. PICK p \in Range(Listed) : p.id = id
      OBVIOUS
    <3>2. CASE Stored(DefaultId)
      BY <1>2, <3>1, <3>2 DEF Listed, Stored
    <3>3. CASE ~Stored(DefaultId)
      <4>1. p \in Range(<<DefaultProfile>> \o profiles)
        BY <3>1, <3>3 DEF Listed
      <4>2. \A n \in DOMAIN (<<DefaultProfile>> \o profiles) :
              \/ (<<DefaultProfile>> \o profiles)[n] = DefaultProfile
              \/ (<<DefaultProfile>> \o profiles)[n] \in Range(profiles)
        <5> DEFINE All == {profiles[i] : i \in DOMAIN profiles} \cup {DefaultProfile}
        <5>1. profiles \in Seq(All) /\ <<DefaultProfile>> \in Seq(All)
          BY DEF ProfilesInv, IsProfiles, IsList
        <5> QED BY <5>1 DEF Range
      <4>3. p = DefaultProfile
        BY <1>2, <3>1, <4>1, <4>2 DEF Stored, Range
      <4> QED BY <3>1, <4>3 DEF DefaultProfile
    <3> QED BY <3>2, <3>3
  <2>3. /\ DOMAIN copy = ProfileFields /\ copy.id = DefaultId /\ copy.key = DefaultKey
        /\ copy.status = status
    BY DEF DefaultProfile, ProfileFields
  <2>4. \/ status = "active" /\ \A i \in DOMAIN profiles :
                                   Active(profiles, i) => profiles[i].key # DefaultKey
        \/ status = "retired" /\ \E i \in DOMAIN profiles :
                                    profiles[i].key = DefaultKey /\ Active(profiles, i)
    BY DEF DefaultProfile, Range, Active
  <2> HIDE DEF copy, status
  <2>5. IsProfiles(t) /\ Alone(t) /\ DefaultKept(t, undone)
    BY <2>3, <2>4, AddedProfile DEF ProfilesInv
  <2>6. /\ Len(profiles) + 1 \in DOMAIN t /\ t[Len(profiles) + 1] = copy
    BY Longer DEF ProfilesInv, IsProfiles
  <2> QED BY <2>1, <2>2, <2>3, <2>5, <2>6
<1> QED BY <1>1, <1>2

LEMMA PatchStep ==
  ASSUME ProfilesInv, undone \in BOOLEAN, NEW id,
         NEW status \in {"draft", "active", "retired", "kept"},
         NEW edited \in BOOLEAN, PatchProfile(id, status, edited)
  PROVE  ProfilesInv'
<1> DEFINE s == WithMutable(id)
           i == CHOOSE j \in DOMAIN s : s[j].id = id
           t == [(IF status = "active" THEN Retired(s, s[i].key, i) ELSE s)
                   EXCEPT ![i].status = IF status = "kept" THEN @ ELSE status,
                          ![i].version = IF edited THEN @ + 1 ELSE @]
<1>1. /\ IsProfiles(s) /\ Alone(s) /\ DefaultKept(s, undone)
      /\ \E j \in DOMAIN s : s[j].id = id
  BY MutableProfiles DEF PatchProfile
<1>2. i \in DOMAIN s
  BY <1>1
<1>3. \/ profiles' = s /\ UNCHANGED undone
      \/ /\ status = "retired" /\ s[i].status = "active" => Replaceable(s, i)
         /\ profiles' = t
         /\ undone' = (undone \/ (status = "draft" /\ s[i].status = "active" /\ ~Replaceable(s, i)))
  BY DEF PatchProfile
<1>4. IsProfiles(t) /\ Patched(s, t, i, status)
  BY <1>1, <1>2, PatchedProfiles
<1> HIDE DEF s, i, t
<1>5. CASE profiles' = s /\ UNCHANGED undone
  BY <1>1, <1>5 DEF ProfilesInv
<1>6. CASE /\ status = "retired" /\ s[i].status = "active" => Replaceable(s, i)
           /\ profiles' = t
           /\ undone' = (undone \/ (status = "draft" /\ s[i].status = "active" /\ ~Replaceable(s, i)))
  <2>1. ~undone' => ~undone /\ ~(status = "draft" /\ Active(s, i) /\ ~Replaceable(s, i))
    BY <1>6 DEF Active
  <2>2. Alone(t) /\ DefaultKept(t, undone')
    BY <1>1, <1>2, <1>4, <1>6, <2>1, PatchKeeps DEF Active
  <2> QED BY <1>4, <1>6, <2>2 DEF ProfilesInv
<1> QED BY <1>3, <1>5, <1>6

LEMMA CreateProfileStep ==
  ASSUME ProfilesInv, NEW id \in Ids, NEW key, CreateProfile(id, key)
  PROVE  ProfilesInv'
<1> DEFINE p == [id |-> id, key |-> key, version |-> NextProfileVersion(key), status |-> "draft"]
<1>1. profiles' = Append(profiles, p) /\ UNCHANGED undone
  BY DEF CreateProfile
<1>2. DOMAIN p = ProfileFields /\ p.id = id /\ p.status = "draft" /\ id # DefaultId
  BY StandardsAssumptions DEF ProfileFields
<1> HIDE DEF p
<1>3. LET t == Append(profiles, p) IN IsProfiles(t) /\ Alone(t) /\ DefaultKept(t, undone)
  BY <1>2, AddedProfile DEF ProfilesInv
<1> QED BY <1>1, <1>3 DEF ProfilesInv

(* What is active of a key is retired before a new one of it is active.    *)
LEMMA CloneStep ==
  ASSUME ProfilesInv, NEW source, NEW id \in Ids, NEW named,
         NEW status \in {"draft", "active"}, CloneProfile(source, id, named, status)
  PROVE  ProfilesInv'
<1>1. PICK key, version :
        /\ profiles' = Append(IF status = "active" THEN Retired(profiles, key, 0) ELSE profiles,
             [id |-> id, key |-> key, version |-> version, status |-> status])
        /\ UNCHANGED undone
  BY DEF CloneProfile
<1> DEFINE p == [id |-> id, key |-> key, version |-> version, status |-> status]
           s == IF status = "active" THEN Retired(profiles, key, 0) ELSE profiles
           t == Append(s, p)
<1>2. /\ DOMAIN p = ProfileFields /\ p.id = id /\ p.key = key /\ p.status = status
      /\ id # DefaultId
  BY StandardsAssumptions DEF ProfileFields
<1>3. CASE status = "draft"
  <2>1. s = profiles
    BY <1>3
  <2> HIDE DEF p, s
  <2>2. IsProfiles(t) /\ Alone(t) /\ DefaultKept(t, undone)
    BY <1>2, <1>3, <2>1, AddedProfile DEF ProfilesInv
  <2> QED BY <1>1, <2>2 DEF ProfilesInv, p, s
<1>4. CASE status = "active"
  <2>1. /\ IsProfiles(s) /\ DOMAIN s = DOMAIN profiles /\ 0 \notin DOMAIN profiles
        /\ \A i \in DOMAIN profiles :
             /\ s[i].id = profiles[i].id /\ s[i].key = profiles[i].key
             /\ Active(s, i) <=> Active(profiles, i) /\ profiles[i].key # key
    <3>1. 0 \notin DOMAIN profiles
      BY DEF ProfilesInv, IsProfiles, IsList
    <3> QED BY <1>4, <3>1, RetiredProfiles DEF ProfilesInv
  <2> HIDE DEF p, s
  <2>2. /\ IsList(t) /\ Len(s) \in Nat /\ DOMAIN s = 1..Len(s)
        /\ DOMAIN t = 1..(Len(s) + 1) /\ t[Len(s) + 1] = p
        /\ \A i \in DOMAIN s : t[i] = s[i]
    BY <2>1, Longer DEF IsProfiles
  <2> HIDE DEF t
  <2>3. \A i \in DOMAIN t : i = Len(s) + 1 \/ i \in DOMAIN s
    BY <2>2
  <2>4. IsProfiles(t)
    BY <1>2, <2>1, <2>2, <2>3 DEF IsProfiles
  <2>5. Alone(t)
    BY <1>2, <2>1, <2>2, <2>3 DEF Alone, Active, ProfilesInv
  <2>6. DefaultKept(t, undone)
    <3> SUFFICES ASSUME NEW j \in DOMAIN t, t[j].id = DefaultId, ~undone
                 PROVE  \E i \in DOMAIN t : t[i].key = DefaultKey /\ Active(t, i)
      BY DEF DefaultKept
    <3>1. j \in DOMAIN profiles /\ profiles[j].id = DefaultId
      BY <1>2, <2>1, <2>2, <2>3
    <3>2. PICK i \in DOMAIN profiles : profiles[i].key = DefaultKey /\ Active(profiles, i)
      BY <3>1 DEF ProfilesInv, DefaultKept
    <3>3. CASE key = DefaultKey
      <4>1. Len(s) + 1 \in DOMAIN t
        BY <2>2
      <4> QED BY <1>2, <1>4, <2>2, <3>3, <4>1 DEF Active
    <3>4. CASE key # DefaultKey
      <4>1. i \in DOMAIN t /\ t[i] = s[i]
        BY <2>1, <2>2, <3>2
      <4> QED BY <2>1, <3>2, <3>4, <4>1 DEF Active
    <3> QED BY <3>3, <3>4
  <2> QED BY <1>1, <2>4, <2>5, <2>6 DEF ProfilesInv, p, s, t
<1> QED BY <1>3, <1>4

LEMMA ProfilesStep ==
  ASSUME ProfilesInv, undone \in BOOLEAN, [StandardsNext]_standardsVars
  PROVE  ProfilesInv' /\ undone' \in BOOLEAN
<1>1. CASE \E id \in Ids, key \in Keys : CreateProfile(id, key)
  BY <1>1, CreateProfileStep DEF CreateProfile
<1>2. ASSUME NEW id, NEW status \in {"draft", "active", "retired", "kept"},
             NEW edited \in BOOLEAN, PatchProfile(id, status, edited)
      PROVE  ProfilesInv' /\ undone' \in BOOLEAN
  <2>1. ProfilesInv'
    BY <1>2, PatchStep
  <2>2. \E b \in BOOLEAN : undone' = undone \/ undone' = (undone \/ b)
    <3> DEFINE s == WithMutable(id)
               i == CHOOSE j \in DOMAIN s : s[j].id = id
               b == status = "draft" /\ s[i].status = "active" /\ ~Replaceable(s, i)
    <3>1. undone' = undone \/ undone' = (undone \/ b)
      BY <1>2, Zenon DEF PatchProfile
    <3>2. b \in BOOLEAN
      OBVIOUS
    <3> HIDE DEF b
    <3> QED BY <3>1, <3>2
  <2> QED BY <2>1, <2>2
<1>3. CASE \E source \in Ids \cup {DefaultId}, id \in Ids, key \in Keys \cup {Anyone},
              status \in {"draft", "active"} : CloneProfile(source, id, key, status)
  <2>1. PICK source \in Ids \cup {DefaultId}, id \in Ids, key \in Keys \cup {Anyone},
             status \in {"draft", "active"} : CloneProfile(source, id, key, status)
    BY <1>3
  <2>2. ProfilesInv'
    BY <2>1, CloneStep
  <2> QED BY <2>1, <2>2 DEF CloneProfile
<1>4. ASSUME NEW c, NEW named, NEW d,
             SaveDraft(c, named) \/ Publish(c, named, d) \/ RollBackVersion(c, named, d)
      PROVE  ProfilesInv' /\ undone' \in BOOLEAN
  BY <1>4 DEF SaveDraft, Publish, RollBackVersion, ProfilesInv
<1>5. CASE UNCHANGED standardsVars
  BY <1>5 DEF standardsVars, ProfilesInv
<1> QED BY <1>1, <1>2, <1>3, <1>4, <1>5 DEF StandardsNext

LEMMA ListedProfiles ==
  ASSUME ProfilesInv
  PROVE  /\ IsList(Listed)
         /\ \A i \in DOMAIN profiles : profiles[i] \in Range(Listed)
         /\ ~Stored(DefaultId) => 1 \in DOMAIN Listed /\ Listed[1] = DefaultProfile
<1>1. CASE Stored(DefaultId)
  BY <1>1 DEF Listed, Range, ProfilesInv, IsProfiles
<1>2. CASE ~Stored(DefaultId)
  <2> DEFINE All == {profiles[i] : i \in DOMAIN profiles} \cup {DefaultProfile}
             longer == <<DefaultProfile>> \o profiles
  <2>0. Listed = longer
    BY <1>2 DEF Listed
  <2>1. profiles \in Seq(All) /\ <<DefaultProfile>> \in Seq(All)
        /\ Len(profiles) \in Nat /\ DOMAIN profiles = 1..Len(profiles)
    BY DEF ProfilesInv, IsProfiles, IsList
  <2>2. /\ longer \in Seq(All) /\ Len(longer) = Len(profiles) + 1
        /\ DOMAIN longer = 1..(Len(profiles) + 1)
        /\ longer[1] = DefaultProfile
        /\ \A i \in 1..Len(profiles) : longer[i + 1] = profiles[i]
    BY <2>1
  <2> HIDE DEF longer
  <2>3. IsList(longer)
    BY <2>2 DEF IsList
  <2>4. ASSUME NEW i \in DOMAIN profiles PROVE profiles[i] \in Range(longer)
    <3>1. i + 1 \in DOMAIN longer /\ longer[i + 1] = profiles[i]
      BY <2>1, <2>2
    <3> QED BY <3>1 DEF Range
  <2> QED BY <2>0, <2>1, <2>2, <2>3, <2>4
<1> QED BY <1>1, <1>2

(* The profile requests go by is listed and active, and alone so for its   *)
(* key, for any profiles, keys and edits, as long as no last active        *)
(* profile was made a draft again (getActiveStandardProfile, the profile   *)
(* routes).                                                                *)
THEOREM ActiveIsListedAlways == StandardsSpec => []ActiveIsListed
<1>1. StandardsInit => ProfilesInv /\ undone \in BOOLEAN
  <2> SUFFICES ASSUME StandardsInit PROVE ProfilesInv /\ undone \in BOOLEAN
    OBVIOUS
  <2>1. profiles = <<>> /\ undone = FALSE
    BY DEF StandardsInit
  <2>2. DOMAIN profiles = {} /\ Len(profiles) = 0
    BY <2>1
  <2>3. profiles = [i \in 1..Len(profiles) |-> profiles[i]] /\ DOMAIN profiles = 1..Len(profiles)
    BY <2>1
  <2>4. IsList(profiles)
    BY <2>2, <2>3 DEF IsList
  <2> QED BY <2>1, <2>2, <2>4 DEF ProfilesInv, IsProfiles, Alone, DefaultKept
<1>2. ProfilesInv /\ undone \in BOOLEAN /\ [StandardsNext]_standardsVars
        => (ProfilesInv /\ undone \in BOOLEAN)'
  BY ProfilesStep
<1>3. ProfilesInv => ActiveIsListed
  <2> SUFFICES ASSUME ProfilesInv, ~undone PROVE ActiveIsListed
    BY DEF ActiveIsListed
  <2> DEFINE p == ProfileFor(Anyone)
  <2>1. p \in Range(Listed) /\ p.status = "active"
    <3>1. CASE ActiveIn(profiles) # {}
      <4> DEFINE i == Min(ActiveIn(profiles))
      <4>1. p = profiles[i]
        BY <3>1 DEF ProfileFor, FirstAt
      <4>2. \A n \in ActiveIn(profiles) : n \in Nat
        BY DEF ActiveIn, ProfilesInv, IsProfiles, IsList
      <4>3. i \in ActiveIn(profiles)
        BY <3>1, <4>2, MinIsLeast
      <4> QED BY <4>1, <4>3, ListedProfiles DEF ActiveIn
    <3>2. CASE ActiveIn(profiles) = {}
      <4> DEFINE i == Min(ActiveIn(Listed))
      <4>1. ~Stored(DefaultId)
        BY <3>2 DEF ProfilesInv, DefaultKept, ActiveIn, Active, Stored, Range
      <4>2. 1 \in ActiveIn(Listed)
        BY <4>1, ListedProfiles DEF ActiveIn, DefaultProfile
      <4>3. p = Listed[i]
        BY <3>2, <4>2 DEF ProfileFor, FirstAt
      <4>4. \A n \in ActiveIn(Listed) : n \in Nat
        BY ListedProfiles DEF ActiveIn, IsList
      <4>5. i \in ActiveIn(Listed)
        BY <4>2, <4>4, MinIsLeast
      <4> QED BY <4>3, <4>5 DEF ActiveIn, Range
    <3> QED BY <3>1, <3>2
  <2> QED BY <2>1 DEF ActiveIsListed, ProfilesInv, Alone, Active
<1> QED BY <1>1, <1>2, <1>3, PTL DEF StandardsSpec

-----------------------------------------------------------------------------
(* The requirements.                                                       *)
DraftFields == {"capability", "profile", "status"}
Open(s, i, c, p) == s[i].capability = c /\ s[i].profile = p /\ s[i].status = "draft"

(* One draft of a capability is open under a profile.                      *)
IsDrafts(s) ==
  /\ IsList(s) /\ \A i \in DOMAIN s : DOMAIN s[i] = DraftFields
  /\ \A c, p : \A i, j \in DOMAIN s : Open(s, i, c, p) /\ Open(s, j, c, p) => i = j

VersionFields == {"capability", "profile", "status", "number"}
Akin(s, v, w) == s[w].capability = s[v].capability /\ s[w].profile = s[v].profile

(* The number of a version is at most the count of versions made by then,  *)
(* and the newest is the one published.                                    *)
IsVersions(s) ==
  /\ IsList(s) /\ \A v \in DOMAIN s : DOMAIN s[v] = VersionFields
  /\ \A v \in DOMAIN s : s[v].number \in Nat /\ 1 <= s[v].number /\ s[v].number <= v
  /\ \A v \in DOMAIN s :
       s[v].status = "published" <=>
         \A w \in DOMAIN s : Akin(s, v, w) /\ w # v => s[w].number < s[v].number

RequirementsInv == IsDrafts(drafts) /\ IsVersions(versions)

LEMMA SaveDraftStep ==
  ASSUME RequirementsInv, NEW c, NEW named, SaveDraft(c, named)
  PROVE  RequirementsInv'
<1> DEFINE p == ProfileFor(named).id
           d == [capability |-> c, profile |-> p, status |-> "draft"]
<1>1. /\ OpenDrafts(c, p) = {} /\ drafts' = Append(drafts, d) /\ UNCHANGED versions
  BY DEF SaveDraft
<1>2. /\ DOMAIN d = DraftFields /\ d.capability = c /\ d.profile = p /\ d.status = "draft"
  BY DEF DraftFields
<1> HIDE DEF d, p
<1>3. /\ IsList(drafts') /\ Len(drafts) \in Nat /\ DOMAIN drafts = 1..Len(drafts)
      /\ DOMAIN drafts' = 1..(Len(drafts) + 1) /\ drafts'[Len(drafts) + 1] = d
      /\ \A i \in DOMAIN drafts : drafts'[i] = drafts[i]
  BY <1>1, Longer DEF RequirementsInv, IsDrafts
<1>4. \A i \in DOMAIN drafts' : i = Len(drafts) + 1 \/ i \in DOMAIN drafts
  BY <1>3
<1>5. \A i \in DOMAIN drafts : ~Open(drafts', i, c, p)
  BY <1>1, <1>3 DEF OpenDrafts, Open
<1>6. ASSUME NEW b, NEW q, NEW i \in DOMAIN drafts', NEW j \in DOMAIN drafts',
             Open(drafts', i, b, q), Open(drafts', j, b, q)
      PROVE  i = j
  <2>1. CASE i = Len(drafts) + 1 \/ j = Len(drafts) + 1
    <3>1. b = c /\ q = p
      BY <1>2, <1>3, <1>6, <2>1 DEF Open
    <3> QED BY <1>4, <1>5, <1>6, <2>1, <3>1
  <2>2. CASE i \in DOMAIN drafts /\ j \in DOMAIN drafts
    <3>1. Open(drafts, i, b, q) /\ Open(drafts, j, b, q)
      BY <1>3, <1>6, <2>2 DEF Open
    <3> QED BY <2>2, <3>1 DEF RequirementsInv, IsDrafts
  <2> QED BY <1>4, <2>1, <2>2
<1>7. \A i \in DOMAIN drafts' : DOMAIN drafts'[i] = DraftFields
  BY <1>2, <1>3, <1>4 DEF RequirementsInv, IsDrafts
<1>8. IsDrafts(drafts')
  BY <1>3, <1>6, <1>7 DEF IsDrafts
<1> QED BY <1>1, <1>8 DEF RequirementsInv

LEMMA PublishedDraft ==
  ASSUME IsDrafts(drafts), NEW d, drafts' = [drafts EXCEPT ![d].status = "published"]
  PROVE  IsDrafts(drafts')
<1>1. DOMAIN drafts' = DOMAIN drafts /\ drafts' = [i \in DOMAIN drafts' |-> drafts'[i]]
  OBVIOUS
<1>2. ASSUME NEW i \in DOMAIN drafts
      PROVE  /\ DOMAIN drafts'[i] = DraftFields
             /\ \A c, p : Open(drafts', i, c, p) => Open(drafts, i, c, p)
  <2>1. DOMAIN drafts[i] = DraftFields
    BY DEF IsDrafts
  <2>2. CASE i = d
    <3>1. drafts'[i] = [drafts[i] EXCEPT !.status = "published"]
      BY <2>2
    <3> QED BY <2>1, <3>1 DEF DraftFields, Open
  <2>3. CASE i # d
    <3>1. drafts'[i] = drafts[i]
      BY <2>3
    <3> QED BY <2>1, <3>1 DEF Open
  <2> QED BY <2>2, <2>3
<1>3. IsList(drafts')
  BY <1>1, Replaced DEF IsDrafts
<1> QED BY <1>1, <1>2, <1>3 DEF IsDrafts

(* A new version is newer than all there were for the capability and the   *)
(* profile, and none of them is published any more.                        *)
LEMMA NewVersionStep ==
  ASSUME IsVersions(versions), NEW c, NEW p, versions' = NewVersion(c, p)
  PROVE  IsVersions(versions')
<1> DEFINE old == [i \in DOMAIN versions |->
                     IF i \in VersionsOf(c, p) /\ versions[i].status = "published"
                     THEN [versions[i] EXCEPT !.status = "superseded"] ELSE versions[i]]
           numbers == {0} \cup {versions[i].number : i \in VersionsOf(c, p)}
           top == Max(numbers)
           new == [capability |-> c, profile |-> p, status |-> "published", number |-> top + 1]
           n == Len(versions) + 1
<1>1. versions' = Append(old, new)
  BY DEF NewVersion
<1>2. Len(versions) \in Nat /\ DOMAIN versions = 1..Len(versions)
  BY DEF IsVersions, IsList
<1>3. top \in Nat /\ top <= Len(versions) /\ \A v \in VersionsOf(c, p) : versions[v].number <= top
  <2>1. \A m \in numbers : m \in Nat /\ m <= Len(versions)
    BY <1>2 DEF VersionsOf, IsVersions
  <2>2. top \in numbers /\ \A m \in numbers : top >= m
    BY <1>2, <2>1, MaxIsGreatest
  <2> HIDE DEF top
  <2>3. top \in Nat /\ top <= Len(versions)
    BY <2>1, <2>2
  <2>4. ASSUME NEW v \in VersionsOf(c, p) PROVE versions[v].number <= top
    <3>1. versions[v].number \in numbers
      OBVIOUS
    <3> HIDE DEF numbers
    <3> QED BY <2>1, <2>2, <2>3, <3>1
  <2> QED BY <2>3, <2>4
<1>4. /\ DOMAIN new = VersionFields /\ new.capability = c /\ new.profile = p
      /\ new.status = "published" /\ new.number = top + 1
  BY DEF VersionFields
<1> HIDE DEF new, numbers, top
<1>5. ASSUME NEW v \in DOMAIN versions
      PROVE  /\ DOMAIN old[v] = VersionFields
             /\ old[v].capability = versions[v].capability
             /\ old[v].profile = versions[v].profile /\ old[v].number = versions[v].number
             /\ old[v].status = "published" <=>
                  versions[v].status = "published" /\ v \notin VersionsOf(c, p)
  <2>1. DOMAIN versions[v] = VersionFields
    BY DEF IsVersions
  <2>2. CASE v \in VersionsOf(c, p) /\ versions[v].status = "published"
    <3>1. old[v] = [versions[v] EXCEPT !.status = "superseded"]
      BY <2>2
    <3> QED BY <2>1, <2>2, <3>1 DEF VersionFields
  <2>3. CASE ~(v \in VersionsOf(c, p) /\ versions[v].status = "published")
    <3>1. old[v] = versions[v]
      BY <2>3
    <3> QED BY <2>1, <2>3, <3>1
  <2> QED BY <2>2, <2>3
<1>6. DOMAIN old = DOMAIN versions /\ old = [v \in DOMAIN old |-> old[v]]
  OBVIOUS
<1> HIDE DEF old
<1>7. IsList(old) /\ Len(old) = Len(versions)
  <2>1. IsList(old)
    BY <1>6, Replaced DEF IsVersions
  <2> QED BY <1>2, <1>6, <2>1 DEF IsList
<1>8. /\ IsList(versions') /\ DOMAIN versions' = 1..n /\ versions'[n] = new
      /\ \A v \in DOMAIN versions : versions'[v] = old[v]
  BY <1>1, <1>6, <1>7, Longer
<1>9. n \in Nat /\ n \in DOMAIN versions' /\ n \notin DOMAIN versions
      /\ \A v \in DOMAIN versions' : v = n \/ v \in DOMAIN versions
  BY <1>2, <1>8
<1> HIDE DEF n
<1>10. \A v \in DOMAIN versions' : DOMAIN versions'[v] = VersionFields
  BY <1>4, <1>5, <1>8, <1>9
<1>11. \A v \in DOMAIN versions' :
         versions'[v].number \in Nat /\ 1 <= versions'[v].number /\ versions'[v].number <= v
  <2>1. new.number \in Nat /\ 1 <= new.number /\ new.number <= n
    BY <1>2, <1>3, <1>4 DEF n
  <2> QED BY <1>5, <1>8, <1>9, <2>1 DEF IsVersions
<1>12. ASSUME NEW v \in DOMAIN versions'
       PROVE  versions'[v].status = "published" <=>
                \A w \in DOMAIN versions' :
                  Akin(versions', v, w) /\ w # v => versions'[w].number < versions'[v].number
  <2>1. CASE v = n
    <3>1. ASSUME NEW w \in DOMAIN versions', Akin(versions', v, w), w # v
          PROVE  versions'[w].number < versions'[v].number
      <4>1. w \in DOMAIN versions /\ versions'[w].number = versions[w].number
        BY <1>5, <1>8, <1>9, <2>1, <3>1
      <4>2. w \in VersionsOf(c, p)
        BY <1>4, <1>5, <1>8, <2>1, <3>1, <4>1 DEF Akin, VersionsOf
      <4>3. versions[w].number <= top /\ versions[w].number \in Nat
        BY <1>3, <4>1, <4>2 DEF IsVersions
      <4> QED BY <1>3, <1>4, <1>8, <2>1, <4>1, <4>3
    <3> QED BY <1>4, <1>8, <2>1, <3>1
  <2>2. CASE v \in VersionsOf(c, p)
    <3>1. v \in DOMAIN versions /\ v # n
      BY <1>9, <2>2 DEF VersionsOf
    <3>2. versions'[v].status # "published"
      BY <1>5, <1>8, <2>2, <3>1
    <3>3. Akin(versions', v, n)
      BY <1>4, <1>5, <1>8, <2>2, <3>1 DEF Akin, VersionsOf
    <3>4. ~(versions'[n].number < versions'[v].number)
      <4>1. versions[v].number <= top /\ versions[v].number \in Nat
        BY <1>3, <2>2, <3>1 DEF IsVersions
      <4> QED BY <1>3, <1>4, <1>5, <1>8, <3>1, <4>1
    <3> QED BY <1>9, <3>1, <3>2, <3>3, <3>4
  <2>3. CASE v # n /\ v \notin VersionsOf(c, p)
    <3>1. v \in DOMAIN versions
      BY <1>9, <2>3
    <3>2. versions'[v].status = "published" <=> versions[v].status = "published"
      BY <1>5, <1>8, <2>3, <3>1
    <3>3. ~Akin(versions', v, n)
      BY <1>4, <1>5, <1>8, <2>3, <3>1 DEF Akin, VersionsOf
    <3>4. \A w \in DOMAIN versions :
            /\ Akin(versions', v, w) <=> Akin(versions, v, w)
            /\ versions'[w].number = versions[w].number
            /\ versions'[v].number = versions[v].number
      BY <1>5, <1>8, <3>1 DEF Akin
    <3>5. versions[v].status = "published" <=>
            \A w \in DOMAIN versions :
              Akin(versions, v, w) /\ w # v => versions[w].number < versions[v].number
      BY <3>1 DEF IsVersions
    <3>6. DOMAIN versions \subseteq DOMAIN versions'
      BY <1>2, <1>8 DEF n
    <3> QED BY <1>9, <3>2, <3>3, <3>4, <3>5, <3>6
  <2> QED BY <2>1, <2>2, <2>3
<1> QED BY <1>8, <1>10, <1>11, <1>12 DEF IsVersions

(* Under a profile a capability has one open draft at most, and of its     *)
(* versions exactly the newest is published, for any profiles,             *)
(* capabilities and order of saves, publications and restorations (the     *)
(* requirement routes).                                                    *)
THEOREM OneCurrentRequirementAlways == StandardsSpec => []OneCurrentRequirement
<1>1. StandardsInit => RequirementsInv
  BY DEF StandardsInit, RequirementsInv, IsDrafts, IsVersions, IsList
<1>2. RequirementsInv /\ [StandardsNext]_standardsVars => RequirementsInv'
  <2> SUFFICES ASSUME RequirementsInv, [StandardsNext]_standardsVars PROVE RequirementsInv'
    OBVIOUS
  <2>1. ASSUME NEW c, NEW named, SaveDraft(c, named) PROVE RequirementsInv'
    BY <2>1, SaveDraftStep
  <2>2. ASSUME NEW c, NEW named, NEW d, Publish(c, named, d) PROVE RequirementsInv'
    BY <2>2, NewVersionStep, PublishedDraft DEF Publish, RequirementsInv
  <2>3. ASSUME NEW c, NEW named, NEW v, RollBackVersion(c, named, v) PROVE RequirementsInv'
    BY <2>3, NewVersionStep DEF RollBackVersion, RequirementsInv
  <2>4. ASSUME NEW id, NEW key, NEW source, NEW status, NEW edited,
               \/ CreateProfile(id, key) \/ PatchProfile(id, status, edited)
               \/ CloneProfile(source, id, key, status)
        PROVE  RequirementsInv'
    BY <2>4 DEF CreateProfile, PatchProfile, CloneProfile, RequirementsInv
  <2>5. CASE UNCHANGED standardsVars
    BY <2>5 DEF standardsVars, RequirementsInv
  <2> QED BY <2>1, <2>2, <2>3, <2>4, <2>5 DEF StandardsNext
<1>3. RequirementsInv => OneCurrentRequirement
  <2> SUFFICES ASSUME RequirementsInv, NEW c \in Capabilities, NEW p \in Ids \cup {DefaultId}
               PROVE  /\ Cardinality(OpenDrafts(c, p)) <= 1
                      /\ \A v \in VersionsOf(c, p) :
                           versions[v].status = "published" <=>
                             \A w \in VersionsOf(c, p) :
                               w # v => versions[w].number < versions[v].number
    BY DEF OneCurrentRequirement
  <2>1. Cardinality(OpenDrafts(c, p)) <= 1
    <3>1. CASE OpenDrafts(c, p) = {}
      BY <3>1, FS_EmptySet
    <3>2. CASE OpenDrafts(c, p) # {}
      <4>1. PICK i : OpenDrafts(c, p) = {i}
        BY <3>2 DEF OpenDrafts, RequirementsInv, IsDrafts, Open
      <4>2. Cardinality({i}) = 1
        BY FS_Singleton
      <4> QED BY <4>1, <4>2
    <3> QED BY <3>1, <3>2
  <2>2. \A v \in VersionsOf(c, p) : \A w \in DOMAIN versions :
          Akin(versions, v, w) <=> w \in VersionsOf(c, p)
    BY DEF Akin, VersionsOf
  <2>3. VersionsOf(c, p) \subseteq DOMAIN versions
    BY DEF VersionsOf
  <2> QED BY <2>1, <2>2, <2>3 DEF RequirementsInv, IsVersions
<1> QED BY <1>1, <1>2, <1>3, PTL DEF StandardsSpec

-----------------------------------------------------------------------------
(* The catalogue's overrides: what is known of the stored list, of the     *)
(* requests under way, and of an added item between their steps.           *)
OverrideFields == {"item", "base", "hidden"}

IsOverrides(s) ==
  /\ IsList(s)
  /\ \A k \in DOMAIN s : /\ DOMAIN s[k] = OverrideFields /\ s[k].base \in BOOLEAN
                         /\ s[k].base => s[k].item \in Baseline

NoneAdded(s, i) == \A k \in DOMAIN s : ~IsAdded(s[k], i)

OneAdded(s, i) ==
  \E k \in DOMAIN s : IsAdded(s[k], i) /\ \A l \in DOMAIN s : IsAdded(s[l], i) => l = k

(* The files of an added item that a new item of its name would inherit.   *)
Playbook(f, i) == <<"playbook", i>> \in f
Bare(f, i) == <<"playbook", i>> \notin f /\ <<"guide", i>> \notin f

WholeItem(s, f, i) ==
  \/ OneAdded(s, i) /\ Playbook(f, i)
  \/ NoneAdded(s, i) /\ Bare(f, i)

(* Steps that take nothing an added item needs. *)
Harmless == {Write("playbook"), Write("guide"), Write("form"), Drop("form")}
Steps == Harmless \cup {Push, Drop("playbook"), Drop("guide")}

IsEdit(x) ==
  /\ DOMAIN x = {"op", "item", "todo"} /\ x.todo \in Seq(Steps)
  /\ (x.item \in Items) <=> (x.todo # <<>>)
  /\ x.item \in Items \cup {NoItem}
  /\ x.op = "unstarted" => x.item = NoItem

(* Where a request stands that has an added item to itself.                *)
Creating(x, s, f, i) ==
  \/ /\ x.todo \in {<<Push, Write("playbook")>>, <<Push, Write("playbook"), Write("guide")>>}
     /\ NoneAdded(s, i) /\ Bare(f, i)
  \/ x.todo \in {<<Write("playbook")>>, <<Write("playbook"), Write("guide")>>} /\ OneAdded(s, i)
  \/ x.todo = <<Write("guide")>> /\ OneAdded(s, i) /\ Playbook(f, i)

Patching(x, s, f, i) ==
  /\ \A n \in DOMAIN x.todo : n # 1 => x.todo[n] \in Harmless
  /\ \/ x.todo[1] = Push /\ WholeItem(s, f, i)
     \/ x.todo[1] \in Harmless /\ OneAdded(s, i) /\ Playbook(f, i)

Removing(x, s, f, i) ==
  \/ x.todo = <<Push, Drop("playbook"), Drop("guide")>>
  \/ x.todo = <<Drop("playbook"), Drop("guide")>> /\ NoneAdded(s, i)
  \/ x.todo = <<Drop("guide")>> /\ NoneAdded(s, i) /\ ~Playbook(f, i)

Forming(x, s, f, i) ==
  x.todo \in {<<Write("form")>>, <<Drop("form")>>} /\ WholeItem(s, f, i)

Amidst(x, s, f, i) ==
  \/ x.op = "create" /\ Creating(x, s, f, i)
  \/ x.op = "patch" /\ Patching(x, s, f, i)
  \/ x.op = "delete" /\ Removing(x, s, f, i)
  \/ x.op = "form" /\ Forming(x, s, f, i)

(* An item that was not disturbed has one request at most; one the code    *)
(* comes with has no added override, and another is whole, or as its       *)
(* request left it.                                                        *)
Undisturbed(w, s, f, i) ==
  /\ \A e, g \in Editors : w[e].item = i /\ w[g].item = i => e = g
  /\ i \in Baseline => NoneAdded(s, i)
  /\ i \notin Baseline /\ (\A e \in Editors : w[e].item # i) => WholeItem(s, f, i)
  /\ i \notin Baseline => \A e \in Editors : w[e].item = i => Amidst(w[e], s, f, i)

ItemsInv ==
  /\ IsOverrides(overrides)
  /\ edits = [e \in Editors |-> edits[e]] /\ \A e \in Editors : IsEdit(edits[e])
  /\ \A i \in Items \ disturbed : Undisturbed(edits, overrides, files, i)

LEMMA OverridesOfAList ==
  ASSUME NEW s, IsList(s)
  PROVE  /\ Len(s) \in Nat /\ DOMAIN s = 1..Len(s) /\ IsFiniteSet(DOMAIN s)
<1>1. Len(s) \in Nat /\ DOMAIN s = 1..Len(s)
  BY DEF IsList
<1> QED BY <1>1, FS_Interval

(* list.filter: the places that are kept, each once.                       *)
LEMMA FilteredPlaces ==
  ASSUME NEW s, IsList(s), NEW kept \in SUBSET DOMAIN s
  PROVE  LET t == Filtered(s, kept) IN
         /\ IsList(t)
         /\ \E place :
              /\ \A n \in DOMAIN t : place[n] \in kept /\ t[n] = s[place[n]]
              /\ \A n, m \in DOMAIN t : place[n] = place[m] => n = m
              /\ \A k \in kept : \E n \in DOMAIN t : place[n] = k
<1> DEFINE Before(k) == {l \in kept : l < k}
           size == Cardinality(kept)
           rank == [k \in kept |-> Cardinality(Before(k))]
           place == [n \in 1..size |-> CHOOSE k \in kept : Cardinality(Before(k)) = n - 1]
           t == Filtered(s, kept)
<1>1. /\ IsFiniteSet(kept) /\ size \in Nat /\ kept \subseteq Nat
      /\ \A k \in kept : Before(k) \subseteq kept /\ k \notin Before(k)
  <2>1. Len(s) \in Nat /\ DOMAIN s = 1..Len(s) /\ IsFiniteSet(DOMAIN s)
    BY OverridesOfAList
  <2>2. IsFiniteSet(kept)
    BY <2>1, FS_Subset
  <2> QED BY <2>1, <2>2, FS_CardinalityType
<1>2. ASSUME NEW k \in kept PROVE Cardinality(Before(k)) \in 0..(size - 1)
  <2>1. IsFiniteSet(Before(k)) /\ Cardinality(Before(k)) <= size
        /\ (size = Cardinality(Before(k)) => kept = Before(k))
    BY <1>1, FS_Subset
  <2>2. Cardinality(Before(k)) \in Nat
    BY <2>1, FS_CardinalityType
  <2> QED BY <1>1, <2>1, <2>2
<1>3. ASSUME NEW k \in kept, NEW l \in kept, k < l
      PROVE  Cardinality(Before(k)) < Cardinality(Before(l))
  <2>1. Before(k) \subseteq Before(l) /\ k \in Before(l) /\ k \notin Before(k)
    BY <1>1, <1>3
  <2>2. IsFiniteSet(Before(l))
    BY <1>1, FS_Subset
  <2>3. /\ Cardinality(Before(k)) <= Cardinality(Before(l))
        /\ Cardinality(Before(l)) = Cardinality(Before(k)) => Before(l) = Before(k)
    BY <2>1, <2>2, FS_Subset
  <2> QED BY <1>2, <2>1, <2>3
<1> HIDE DEF Before
<1>4. \A k, l \in kept : Cardinality(Before(k)) = Cardinality(Before(l)) => k = l
  BY <1>1, <1>2, <1>3
<1>5. rank \in Injection(kept, 0..(size - 1))
  <2>1. rank \in [kept -> 0..(size - 1)]
    BY <1>2
  <2>2. \A k, l \in kept : rank[k] = rank[l] => k = l
    BY <1>4
  <2> HIDE DEF rank
  <2> QED BY <2>1, <2>2 DEF Injection, IsInjective
<1>6. IsFiniteSet(0..(size - 1)) /\ Cardinality(0..(size - 1)) = size
  <2> HIDE DEF size
  <2> QED BY <1>1, FS_Interval
<1>7. rank \in Surjection(kept, 0..(size - 1))
  <2> HIDE DEF rank
  <2> QED BY <1>5, <1>6, FS_Injection
<1>8. \A n \in 0..(size - 1) : \E k \in kept : Cardinality(Before(k)) = n
  BY <1>7 DEF Surjection
<1>9. \A n \in 1..size : place[n] \in kept /\ Cardinality(Before(place[n])) = n - 1
  <2> SUFFICES ASSUME NEW n \in 1..size
               PROVE  place[n] \in kept /\ Cardinality(Before(place[n])) = n - 1
    OBVIOUS
  <2>1. n - 1 \in 0..(size - 1)
    BY <1>1
  <2> QED BY <1>8, <2>1
<1>10. t = [n \in 1..size |-> s[place[n]]]
  BY DEF Filtered, Before
<1> HIDE DEF t, place, rank
<1>11. DOMAIN t = 1..size /\ \A n \in 1..size : t[n] = s[place[n]]
  BY <1>10
<1>12. IsList(t)
  <2> DEFINE All == {t[i] : i \in DOMAIN t}
  <2>1. t \in [1..size -> All]
    BY <1>10, <1>11
  <2> HIDE DEF All, size
  <2>2. t \in Seq(All)
    BY <1>1, <2>1, SeqDef
  <2> QED BY <2>2, SeqDef DEF IsList
<1>13. \A n, m \in DOMAIN t : place[n] = place[m] => n = m
  BY <1>1, <1>9, <1>11
<1>14. ASSUME NEW k \in kept PROVE \E n \in DOMAIN t : place[n] = k
  <2>1. Cardinality(Before(k)) + 1 \in 1..size
    BY <1>1, <1>2
  <2> DEFINE n == Cardinality(Before(k)) + 1
  <2>2. Cardinality(Before(place[n])) = Cardinality(Before(k))
    BY <1>2, <1>9, <2>1
  <2>3. place[n] = k
    BY <1>4, <1>9, <2>1, <2>2
  <2> QED BY <1>11, <2>1, <2>3
<1> QED BY <1>9, <1>11, <1>12, <1>13, <1>14 DEF t

SameAdded(s, t, i) ==
  /\ NoneAdded(s, i) <=> NoneAdded(t, i)
  /\ OneAdded(s, i) <=> OneAdded(t, i)

LEMMA FilteredAdded ==
  ASSUME NEW s, IsOverrides(s), NEW kept \in SUBSET DOMAIN s, NEW i
  PROVE  LET t == Filtered(s, kept) IN
         /\ IsOverrides(t)
         /\ (\A k \in DOMAIN s : IsAdded(s[k], i) => k \in kept) => SameAdded(s, t, i)
         /\ (\A k \in kept : ~IsAdded(s[k], i)) => NoneAdded(t, i)
<1> DEFINE t == Filtered(s, kept)
<1>1. IsList(t)
  BY FilteredPlaces DEF IsOverrides
<1>2. PICK place :
        /\ \A n \in DOMAIN t : place[n] \in kept /\ t[n] = s[place[n]]
        /\ \A n, m \in DOMAIN t : place[n] = place[m] => n = m
        /\ \A k \in kept : \E n \in DOMAIN t : place[n] = k
  BY FilteredPlaces DEF IsOverrides
<1> HIDE DEF t
<1>3. IsOverrides(t)
  BY <1>1, <1>2 DEF IsOverrides
<1>4. (\A k \in kept : ~IsAdded(s[k], i)) => NoneAdded(t, i)
  BY <1>2 DEF NoneAdded
<1>5. ASSUME \A k \in DOMAIN s : IsAdded(s[k], i) => k \in kept PROVE SameAdded(s, t, i)
  <2>1. NoneAdded(s, i) <=> NoneAdded(t, i)
    BY <1>2, <1>5 DEF NoneAdded
  <2>2. ASSUME OneAdded(s, i) PROVE OneAdded(t, i)
    <3>1. PICK k \in DOMAIN s :
            IsAdded(s[k], i) /\ \A l \in DOMAIN s : IsAdded(s[l], i) => l = k
      BY <2>2 DEF OneAdded
    <3>2. PICK n \in DOMAIN t : place[n] = k
      BY <1>2, <1>5, <3>1
    <3>3. IsAdded(t[n], i) /\ \A m \in DOMAIN t : IsAdded(t[m], i) => m = n
      BY <1>2, <3>1, <3>2
    <3> QED BY <3>3 DEF OneAdded
  <2>3. ASSUME OneAdded(t, i) PROVE OneAdded(s, i)
    <3>1. PICK n \in DOMAIN t :
            IsAdded(t[n], i) /\ \A m \in DOMAIN t : IsAdded(t[m], i) => m = n
      BY <2>3 DEF OneAdded
    <3>2. place[n] \in DOMAIN s /\ IsAdded(s[place[n]], i)
      BY <1>2, <3>1
    <3>3. ASSUME NEW l \in DOMAIN s, IsAdded(s[l], i) PROVE l = place[n]
      <4>1. PICK m \in DOMAIN t : place[m] = l
        BY <1>2, <1>5, <3>3
      <4> QED BY <1>2, <3>1, <3>3, <4>1
    <3> QED BY <3>2, <3>3 DEF OneAdded
  <2> QED BY <2>1, <2>2, <2>3 DEF SameAdded
<1> QED BY <1>3, <1>4, <1>5 DEF t

LEMMA AppendAdded ==
  ASSUME NEW s, IsOverrides(s), NEW i, NEW j, NEW base \in BOOLEAN, NEW hidden,
         base => j \in Baseline
  PROVE  LET t == Append(s, Override(j, base, hidden)) IN
         /\ IsOverrides(t)
         /\ base \/ i # j => SameAdded(s, t, i)
         /\ ~base /\ i = j /\ NoneAdded(s, i) => OneAdded(t, i)
<1> DEFINE o == Override(j, base, hidden)
           t == Append(s, o)
<1>1. DOMAIN o = OverrideFields /\ o.item = j /\ o.base = base
  BY DEF Override, OverrideFields
<1> HIDE DEF o
<1>2. /\ IsList(t) /\ Len(s) \in Nat /\ DOMAIN s = 1..Len(s)
      /\ DOMAIN t = 1..(Len(s) + 1) /\ t[Len(s) + 1] = o
      /\ \A k \in DOMAIN s : t[k] = s[k]
  BY Longer DEF IsOverrides
<1> HIDE DEF t
<1>3. \A k \in DOMAIN t : k = Len(s) + 1 \/ k \in DOMAIN s
  BY <1>2
<1>4. DOMAIN s \subseteq DOMAIN t /\ Len(s) + 1 \in DOMAIN t /\ Len(s) + 1 \notin DOMAIN s
  BY <1>2
<1>5. IsOverrides(t)
  BY <1>1, <1>2, <1>3 DEF IsOverrides
<1>6. ASSUME base \/ i # j PROVE SameAdded(s, t, i)
  <2>1. ~IsAdded(o, i)
    BY <1>1, <1>6 DEF IsAdded
  <2> QED BY <1>2, <1>3, <1>4, <2>1 DEF SameAdded, NoneAdded, OneAdded
<1>7. ASSUME ~base, i = j, NoneAdded(s, i) PROVE OneAdded(t, i)
  <2>1. IsAdded(o, i)
    BY <1>1, <1>7 DEF IsAdded
  <2> QED BY <1>2, <1>3, <1>4, <1>7, <2>1 DEF NoneAdded, OneAdded
<1> QED BY <1>5, <1>6, <1>7 DEF t, o

(* Hiding and showing overrides.                                           *)
LEMMA HiddenAdded ==
  ASSUME NEW s, IsOverrides(s), NEW t, DOMAIN t = DOMAIN s,
         t = [k \in DOMAIN s |-> t[k]], NEW i,
         \A k \in DOMAIN s : DOMAIN t[k] = DOMAIN s[k]
                             /\ t[k].item = s[k].item /\ t[k].base = s[k].base
  PROVE  IsOverrides(t) /\ SameAdded(s, t, i)
<1>1. Len(s) \in Nat /\ DOMAIN s = 1..Len(s)
  BY OverridesOfAList DEF IsOverrides
<1>2. t \in [1..Len(s) -> {t[k] : k \in DOMAIN t}]
  BY <1>1
<1>3. IsList(t)
  BY <1>1, <1>2, SeqDef DEF IsList
<1>4. IsOverrides(t)
  BY <1>3 DEF IsOverrides
<1>5. \A k \in DOMAIN s : IsAdded(s[k], i) <=> IsAdded(t[k], i)
  BY DEF IsAdded
<1> QED BY <1>4, <1>5 DEF SameAdded, NoneAdded, OneAdded

LEMMA CountedListings ==
  ASSUME IsOverrides(overrides), NEW i
  PROVE  /\ NoneAdded(overrides, i) =>
              Listings(i) = IF i \in Baseline /\ ~Hidden(i) THEN 1 ELSE 0
         /\ i \notin Baseline /\ OneAdded(overrides, i) => Listings(i) = 1
         /\ Listings(i) = 0 => NoneAdded(overrides, i)
<1> DEFINE added == {k \in DOMAIN overrides : IsAdded(overrides[k], i)}
           own == IF i \in Baseline /\ ~Hidden(i) THEN 1 ELSE 0
<1>1. Listings(i) = own + Cardinality(added) /\ own \in {0, 1}
  BY DEF Listings
<1>2. IsFiniteSet(DOMAIN overrides)
  BY OverridesOfAList DEF IsOverrides
<1>3. IsFiniteSet(added) /\ Cardinality(added) \in Nat
  <2>1. IsFiniteSet(added)
    BY <1>2, FS_Subset
  <2> QED BY <2>1, FS_CardinalityType
<1>4. NoneAdded(overrides, i) <=> added = {}
  BY DEF NoneAdded
<1>5. added = {} <=> Cardinality(added) = 0
  BY <1>3, FS_EmptySet
<1>6. OneAdded(overrides, i) => Cardinality(added) = 1
  <2> SUFFICES ASSUME OneAdded(overrides, i) PROVE Cardinality(added) = 1
    OBVIOUS
  <2>1. PICK k : added = {k}
    BY DEF OneAdded
  <2>2. Cardinality({k}) = 1
    BY FS_Singleton
  <2> QED BY <2>1, <2>2
<1>7. i \notin Baseline => own = 0
  OBVIOUS
<1> HIDE DEF added
<1>8. NoneAdded(overrides, i) => Listings(i) = own
  <2> HIDE DEF own
  <2> QED BY <1>1, <1>4, <1>5
<1> QED BY <1>1, <1>3, <1>4, <1>5, <1>6, <1>7, <1>8

(* What the requests of other items do is nothing to i.                    *)
LEMMA Elsewhere ==
  ASSUME NEW w, NEW v, NEW s, NEW t, NEW f, NEW h, NEW i, Undisturbed(w, s, f, i),
         \A g \in Editors : w[g].item = i \/ v[g].item = i => w[g] = v[g],
         SameAdded(s, t, i),
         <<"playbook", i>> \in f <=> <<"playbook", i>> \in h,
         <<"guide", i>> \in f <=> <<"guide", i>> \in h
  PROVE  Undisturbed(v, t, h, i)
<1>1. /\ Playbook(f, i) <=> Playbook(h, i)
      /\ Bare(f, i) <=> Bare(h, i)
  BY DEF Playbook, Bare
<1>2. WholeItem(s, f, i) <=> WholeItem(t, h, i)
  BY <1>1 DEF WholeItem, SameAdded
<1>3. \A x : Amidst(x, s, f, i) <=> Amidst(x, t, h, i)
  <2> SUFFICES ASSUME NEW x PROVE Amidst(x, s, f, i) <=> Amidst(x, t, h, i)
    OBVIOUS
  <2>1. Creating(x, s, f, i) <=> Creating(x, t, h, i)
    BY <1>1, Zenon DEF Creating, SameAdded
  <2>2. Patching(x, s, f, i) <=> Patching(x, t, h, i)
    BY <1>1, <1>2, Zenon DEF Patching, SameAdded
  <2>3. Removing(x, s, f, i) <=> Removing(x, t, h, i)
    BY <1>1, Zenon DEF Removing, SameAdded
  <2>4. Forming(x, s, f, i) <=> Forming(x, t, h, i)
    BY <1>2, Zenon DEF Forming
  <2> QED BY <2>1, <2>2, <2>3, <2>4 DEF Amidst
<1>4. \A g \in Editors : w[g].item = i <=> v[g].item = i
  OBVIOUS
<1>5. \A e, g \in Editors : v[e].item = i /\ v[g].item = i => e = g
  BY <1>4 DEF Undisturbed
<1>6. i \in Baseline => NoneAdded(t, i)
  BY DEF Undisturbed, SameAdded
<1>7. i \notin Baseline /\ (\A e \in Editors : v[e].item # i) => WholeItem(t, h, i)
  BY <1>2, <1>4 DEF Undisturbed
<1>8. ASSUME i \notin Baseline, NEW e \in Editors, v[e].item = i PROVE Amidst(v[e], t, h, i)
  <2>1. w[e].item = i /\ w[e] = v[e]
    BY <1>4, <1>8
  <2> QED BY <1>3, <1>8, <2>1 DEF Undisturbed
<1> QED BY <1>5, <1>6, <1>7, <1>8 DEF Undisturbed

Later(x) == [x EXCEPT !.todo = Tail(x.todo)]

(* The request of i took a step.                                           *)
LEMMA TookAStep ==
  ASSUME NEW w, NEW v, NEW s, NEW t, NEW f, NEW h, NEW i \in Items, Undisturbed(w, s, f, i),
         NEW e \in Editors, w[e].item = i, IsEdit(w[e]),
         \A g \in Editors : g # e => v[g] = w[g],
         v[e] = Finished \/ v[e] = Later(w[e]),
         i \in Baseline => NoneAdded(t, i),
         i \notin Baseline /\ v[e] = Finished => WholeItem(t, h, i),
         i \notin Baseline /\ v[e] = Later(w[e]) => Amidst(Later(w[e]), t, h, i)
  PROVE  Undisturbed(v, t, h, i)
<1>1. Finished.item = NoItem /\ NoItem # i
  BY CatalogAssumptions DEF Finished
<1>2. \A g \in Editors : g # e => v[g].item # i
  BY DEF Undisturbed
<1>3. i \notin Baseline /\ (\A g \in Editors : v[g].item # i) => WholeItem(t, h, i)
  <2> SUFFICES ASSUME i \notin Baseline, v[e].item # i PROVE WholeItem(t, h, i)
    OBVIOUS
  <2>1. CASE v[e] = Finished
    BY <2>1
  <2>2. CASE v[e] = Later(w[e])
    <3>1. "item" \in DOMAIN w[e]
      BY DEF IsEdit
    <3>2. Later(w[e]).item = w[e].item
      BY <3>1 DEF Later
    <3> QED BY <2>2, <3>2
  <2> QED BY <2>1, <2>2
<1> QED BY <1>1, <1>2, <1>3 DEF Undisturbed

LEMMA KindsOfSteps ==
  /\ Push \notin Harmless /\ Push # Drop("playbook") /\ Push # Drop("guide")
  /\ Drop("playbook") \notin Harmless /\ Drop("guide") \notin Harmless
  /\ Drop("playbook") # Drop("guide")
BY DEF Push, Harmless, Drop, Write

LEMMA TailOfAList ==
  ASSUME NEW T, NEW q \in Seq(T), q # <<>>
  PROVE  /\ Tail(q) \in Seq(T) /\ Len(q) \in Nat \ {0} /\ DOMAIN q = 1..Len(q)
         /\ Len(Tail(q)) = Len(q) - 1 /\ Tail(q) # <<>> <=> Len(q) # 1
         /\ \A n \in DOMAIN Tail(q) : n + 1 \in DOMAIN q /\ n + 1 # 1 /\ Tail(q)[n] = q[n + 1]
         /\ Head(q) = q[1]
<1>1. Len(q) \in Nat \ {0} /\ DOMAIN q = 1..Len(q)
  OBVIOUS
<1>2. Tail(q) \in Seq(T) /\ Len(Tail(q)) = Len(q) - 1 /\ DOMAIN Tail(q) = 1..(Len(q) - 1)
  BY <1>1
<1>3. Tail(q) # <<>> <=> Len(q) # 1
  <2>1. Len(<<>>) = 0 /\ (Tail(q) # <<>> => Len(Tail(q)) \in Nat \ {0})
    BY <1>2, EmptySeq
  <2>2. CASE Tail(q) = <<>>
    <3>1. Len(Tail(q)) = 0
      BY <2>1, <2>2
    <3>2. Len(q) = 1
      <4> DEFINE n == Len(q)
                 m == Len(Tail(q))
      <4>1. n \in Nat /\ m = n - 1 /\ m = 0
        BY <1>1, <1>2, <3>1
      <4> HIDE DEF n, m
      <4>2. n = 1
        BY <4>1
      <4> QED BY <4>2 DEF n
    <3> QED BY <2>2, <3>2
  <2>3. CASE Tail(q) # <<>>
    BY <1>1, <1>2, <2>1, <2>3
  <2> QED BY <2>2, <2>3
<1>4. Head(q) = q[1]
  BY <1>1
<1>5. \A n \in 1..(Len(q) - 1) : Tail(q)[n] = q[n + 1]
  BY <1>1
<1> QED BY <1>1, <1>2, <1>3, <1>4, <1>5

LEMMA ShortTails ==
  ASSUME NEW a, NEW b, NEW c
  PROVE  /\ Tail(<<a, b>>) = <<b>> /\ Tail(<<a, b, c>>) = <<b, c>>
         /\ Len(<<a>>) = 1 /\ Len(<<a, b>>) = 2 /\ Len(<<a, b, c>>) = 3
         /\ Head(<<a>>) = a /\ Head(<<a, b>>) = a /\ Head(<<a, b, c>>) = a
OBVIOUS

LEMMA ShortSteps ==
  /\ <<>> \in Seq(Steps) /\ Harmless \subseteq Steps
  /\ Push \in Steps /\ Drop("playbook") \in Steps /\ Drop("guide") \in Steps
  /\ Drop("form") \in Steps /\ Write("playbook") \in Steps /\ Write("guide") \in Steps
  /\ \A a, b, c, d \in Steps :
       /\ <<a>> \in Seq(Steps) /\ <<a, b>> \in Seq(Steps)
       /\ <<a, b, c>> \in Seq(Steps) /\ <<a, b, c, d>> \in Seq(Steps)
       /\ <<a>> # <<>> /\ <<a, b>> # <<>> /\ <<a, b, c>> # <<>> /\ <<a, b, c, d>> # <<>>
<1>1. Harmless \subseteq Steps
  BY DEF Steps
<1>2. /\ Push \in Steps /\ Drop("playbook") \in Steps /\ Drop("guide") \in Steps
      /\ Drop("form") \in Steps /\ Write("playbook") \in Steps /\ Write("guide") \in Steps
  BY DEF Steps, Harmless
<1> QED BY <1>1, <1>2

(* A request goes from one of its steps to the next, or is through.        *)
LEMMA GoesOn ==
  ASSUME ItemsInv, NEW e \in Editors, edits[e].todo # <<>>, GoOn(e)
  PROVE  /\ edits' = [g \in Editors |-> edits'[g]] /\ \A g \in Editors : IsEdit(edits'[g])
         /\ \A g \in Editors : g # e => edits'[g] = edits[g]
         /\ Len(edits[e].todo) = 1 => edits'[e] = Finished
         /\ Len(edits[e].todo) # 1 => edits'[e] = Later(edits[e])
         /\ edits[e].item \in Items
<1>1. IsEdit(edits[e]) /\ edits = [g \in Editors |-> edits[g]]
  BY DEF ItemsInv
<1>2. DOMAIN edits = Editors
  BY <1>1
<1>3. edits' = [edits EXCEPT ![e] =
        IF Len(edits[e].todo) = 1 THEN Finished ELSE [edits[e] EXCEPT !.todo = Tail(edits[e].todo)]]
  BY <1>2 DEF GoOn
<1>4. /\ edits'[e] = IF Len(edits[e].todo) = 1 THEN Finished ELSE Later(edits[e])
      /\ \A g \in Editors : g # e => edits'[g] = edits[g]
      /\ edits' = [g \in Editors |-> edits'[g]]
  BY <1>2, <1>3 DEF Later
<1>5. IsEdit(Finished)
  BY CatalogAssumptions DEF IsEdit, Finished
<1>6. Len(edits[e].todo) # 1 => IsEdit(Later(edits[e]))
  <2> SUFFICES ASSUME Len(edits[e].todo) # 1 PROVE IsEdit(Later(edits[e]))
    OBVIOUS
  <2> DEFINE x == edits[e]
             y == Later(x)
             rest == Tail(x.todo)
  <2>0. rest \in Seq(Steps) /\ rest # <<>>
    BY <1>1, TailOfAList DEF IsEdit
  <2> HIDE DEF rest
  <2>1. y = [x EXCEPT !.todo = rest]
    BY DEF Later, rest
  <2>2. DOMAIN x = {"op", "item", "todo"}
    BY <1>1 DEF IsEdit
  <2> HIDE DEF x, y
  <2>3. DOMAIN y = {"op", "item", "todo"} /\ y.todo = rest /\ y.op = x.op /\ y.item = x.item
    BY <2>1, <2>2
  <2> QED BY <1>1, <2>0, <2>3 DEF IsEdit, x, y
<1>7. \A g \in Editors : IsEdit(edits'[g])
  BY <1>4, <1>5, <1>6 DEF ItemsInv
<1> QED BY <1>1, <1>4, <1>7 DEF IsEdit

(* A request is let in.                                                    *)
LEMMA StartStep ==
  ASSUME ItemsInv, NEW e \in Editors, NEW op \in {"create", "patch", "delete", "reset", "form"},
         NEW i \in Items, NEW todo \in Seq(Steps), todo # <<>>, Start(e, op, i, todo),
         i \notin Baseline /\ (op = "delete" \/ WholeItem(overrides, files, i)) =>
           Amidst([op |-> op, item |-> i, todo |-> todo], overrides, files, i)
  PROVE  ItemsInv'
<1> DEFINE x == [op |-> op, item |-> i, todo |-> todo]
<1>1. x.op = op /\ x.item = i /\ x.todo = todo /\ IsEdit(x)
  BY DEF IsEdit
<1>2. /\ edits[e].op = "unstarted" /\ edits' = [edits EXCEPT ![e] = x]
      /\ UNCHANGED <<overrides, files>>
      /\ disturbed' = IF UnderWay(i) THEN disturbed \cup {i}
                      ELSE IF op = "delete" /\ i \notin Baseline THEN disturbed \ {i}
                      ELSE disturbed
  BY DEF Start
<1> HIDE DEF x
<1>3. /\ edits = [g \in Editors |-> edits[g]] /\ DOMAIN edits = Editors
      /\ \A g \in Editors : IsEdit(edits[g])
  <2>1. edits = [g \in Editors |-> edits[g]]
    BY DEF ItemsInv
  <2> QED BY <2>1 DEF ItemsInv
<1>4. /\ edits'[e] = x /\ \A g \in Editors : g # e => edits'[g] = edits[g]
      /\ edits' = [g \in Editors |-> edits'[g]]
  BY <1>2, <1>3
<1>5. edits[e].item = NoItem
  BY <1>2, <1>3 DEF IsEdit
<1>6. ASSUME NEW j \in Items \ disturbed', j # i
      PROVE  Undisturbed(edits', overrides', files', j)
  <2>1. Undisturbed(edits, overrides, files, j)
    BY <1>2, <1>6 DEF ItemsInv
  <2>2. \A g \in Editors : edits[g].item = j \/ edits'[g].item = j => edits[g] = edits'[g]
    BY <1>1, <1>4, <1>5, <1>6, CatalogAssumptions
  <2>3. SameAdded(overrides, overrides', j)
    BY <1>2 DEF SameAdded
  <2> QED BY <1>2, <2>1, <2>2, <2>3, Elsewhere
<1>7. ASSUME i \notin disturbed' PROVE Undisturbed(edits', overrides', files', i)
  <2>1. ~UnderWay(i)
    BY <1>2, <1>7
  <2>2. \A g \in Editors : edits[g].item # i
    BY <2>1 DEF UnderWay
  <2>3. i \notin disturbed \/ (op = "delete" /\ i \notin Baseline)
    <3>1. disturbed' = disturbed \/ (op = "delete" /\ i \notin Baseline)
      BY <1>2, <2>1, Zenon
    <3> QED BY <1>7, <3>1
  <2>4. i \notin disturbed => Undisturbed(edits, overrides, files, i)
    BY DEF ItemsInv
  <2>5. i \in Baseline => NoneAdded(overrides, i)
    BY <2>3, <2>4 DEF Undisturbed
  <2>6. i \notin Baseline => op = "delete" \/ WholeItem(overrides, files, i)
    BY <2>2, <2>3, <2>4 DEF Undisturbed
  <2>7. i \notin Baseline => Amidst(x, overrides, files, i)
    BY <2>6 DEF x
  <2>8. \A g \in Editors : edits'[g].item = i <=> g = e
    BY <1>1, <1>4, <2>2
  <2> QED BY <1>2, <1>4, <2>5, <2>7, <2>8 DEF Undisturbed
<1>8. \A g \in Editors : IsEdit(edits'[g])
  BY <1>1, <1>3, <1>4
<1>9. IsOverrides(overrides')
  BY <1>2 DEF ItemsInv
<1> QED BY <1>4, <1>6, <1>7, <1>8, <1>9 DEF ItemsInv

(* The update of the request of i: its overrides, of i and of the others.  *)
LEMMA UpdateStep ==
  ASSUME ItemsInv, NEW e \in Editors, edits[e].todo # <<>>, UNCHANGED files,
         NEW i, i = edits[e].item, disturbed \subseteq disturbed',
         IsOverrides(overrides'),
         \A j \in Items \ {i} : SameAdded(overrides, overrides', j),
         \/ GoOn(e)
         \/ edits' = [edits EXCEPT ![e] = Finished],
         i \in Baseline /\ i \notin disturbed' => NoneAdded(overrides', i),
         ASSUME i \notin Baseline, Amidst(edits[e], overrides, files, i)
         PROVE  /\ edits'[e] = Finished => WholeItem(overrides', files, i)
                /\ edits'[e] = Later(edits[e]) =>
                     Amidst(Later(edits[e]), overrides', files, i)
  PROVE  ItemsInv'
<1>1. /\ edits' = [g \in Editors |-> edits'[g]] /\ \A g \in Editors : IsEdit(edits'[g])
      /\ \A g \in Editors : g # e => edits'[g] = edits[g]
      /\ edits'[e] = Finished \/ edits'[e] = Later(edits[e])
      /\ i \in Items
  <2>1. CASE GoOn(e)
    BY <2>1, GoesOn
  <2>2. CASE edits' = [edits EXCEPT ![e] = Finished]
    <3>1. edits = [g \in Editors |-> edits[g]] /\ \A g \in Editors : IsEdit(edits[g])
      BY DEF ItemsInv
    <3>2. DOMAIN edits = Editors
      BY <3>1
    <3>3. IsEdit(Finished)
      BY CatalogAssumptions DEF IsEdit, Finished
    <3>4. i \in Items
      BY <3>1 DEF IsEdit
    <3> QED BY <2>2, <3>1, <3>2, <3>3, <3>4
  <2> QED BY <2>1, <2>2
<1>2. ASSUME NEW j \in Items \ disturbed', j # i
      PROVE  Undisturbed(edits', overrides', files', j)
  <2>1. Undisturbed(edits, overrides, files, j)
    BY <1>2 DEF ItemsInv
  <2>2. \A g \in Editors : edits[g].item = j \/ edits'[g].item = j => edits[g] = edits'[g]
    <3>1. Finished.item # j
      BY <1>2, CatalogAssumptions DEF Finished
    <3>2. Later(edits[e]).item = i
      <4>1. "item" \in DOMAIN edits[e]
        BY DEF ItemsInv, IsEdit
      <4> QED BY <4>1 DEF Later
    <3> QED BY <1>1, <1>2, <3>1, <3>2
  <2> QED BY <1>2, <2>1, <2>2, Elsewhere
<1>3. ASSUME i \notin disturbed' PROVE Undisturbed(edits', overrides', files', i)
  <2>1. Undisturbed(edits, overrides, files, i)
    BY <1>1, <1>3 DEF ItemsInv
  <2>2. i \notin Baseline => Amidst(edits[e], overrides, files, i)
    BY <2>1 DEF Undisturbed
  <2>3. IsEdit(edits[e])
    BY DEF ItemsInv
  <2>4. /\ i \notin Baseline /\ edits'[e] = Finished => WholeItem(overrides', files', i)
        /\ i \notin Baseline /\ edits'[e] = Later(edits[e]) =>
             Amidst(Later(edits[e]), overrides', files', i)
    BY <2>2
  <2>5. i \in Baseline => NoneAdded(overrides', i)
    BY <1>3
  <2> QED BY <1>1, <2>1, <2>3, <2>4, <2>5, TookAStep
<1> QED BY <1>1, <1>2, <1>3 DEF ItemsInv

(* What Later leaves.                                                      *)
LEMMA LaterSteps ==
  ASSUME NEW x, IsEdit(x), x.todo # <<>>
  PROVE  /\ Later(x).op = x.op /\ Later(x).todo = Tail(x.todo) /\ Head(x.todo) = x.todo[1]
         /\ \A n \in DOMAIN Tail(x.todo) : n + 1 \in DOMAIN x.todo /\ n + 1 # 1
                                           /\ Tail(x.todo)[n] = x.todo[n + 1]
         /\ Tail(x.todo) # <<>> => 1 \in DOMAIN Tail(x.todo)
<1>1. DOMAIN x = {"op", "item", "todo"} /\ x.todo \in Seq(Steps)
  BY DEF IsEdit
<1>2. Later(x).op = x.op /\ Later(x).todo = Tail(x.todo)
  BY <1>1 DEF Later
<1>3. /\ Head(x.todo) = x.todo[1] /\ Tail(x.todo) \in Seq(Steps)
      /\ \A n \in DOMAIN Tail(x.todo) : n + 1 \in DOMAIN x.todo /\ n + 1 # 1
                                        /\ Tail(x.todo)[n] = x.todo[n + 1]
  BY <1>1, TailOfAList
<1>4. Tail(x.todo) # <<>> => 1 \in DOMAIN Tail(x.todo)
  <2> DEFINE q == Tail(x.todo)
  <2> HIDE DEF q
  <2>1. q \in Seq(Steps)
    BY <1>3 DEF q
  <2>2. q # <<>> => 1 \in DOMAIN q
    BY <2>1, TailOfAList
  <2> QED BY <2>2 DEF q
<1> QED BY <1>2, <1>3, <1>4

LEMMA CreateStep ==
  ASSUME ItemsInv, NEW e \in Editors, Create(e)
  PROVE  ItemsInv'
<1> DEFINE i == edits[e].item
<1>1. /\ edits[e].op = "create" /\ edits[e].todo # <<>> /\ Head(edits[e].todo) = Push
      /\ GoOn(e) /\ overrides' = Append(overrides, Override(i, FALSE, FALSE))
      /\ disturbed' = (IF i \in Baseline THEN disturbed \cup {i} ELSE disturbed)
      /\ UNCHANGED files
  BY DEF Create, Updates
<1>2. IsEdit(edits[e]) /\ IsOverrides(overrides)
  BY DEF ItemsInv
<1> HIDE DEF i
<1>3. /\ IsOverrides(overrides')
      /\ \A j \in Items \ {i} : SameAdded(overrides, overrides', j)
      /\ NoneAdded(overrides, i) => OneAdded(overrides', i)
  <2>1. ASSUME NEW j
        PROVE  /\ IsOverrides(overrides')
               /\ j # i => SameAdded(overrides, overrides', j)
               /\ j = i /\ NoneAdded(overrides, i) => OneAdded(overrides', i)
    BY <1>1, <1>2, AppendAdded
  <2> QED BY <2>1
<1>4. disturbed \subseteq disturbed' /\ (i \in Baseline => i \in disturbed')
  BY <1>1
<1>5. ASSUME i \notin Baseline, Amidst(edits[e], overrides, files, i)
      PROVE  /\ edits'[e] = Finished => WholeItem(overrides', files, i)
             /\ edits'[e] = Later(edits[e]) => Amidst(Later(edits[e]), overrides', files, i)
  <2> DEFINE todo == edits[e].todo
  <2>1. /\ todo \in {<<Push, Write("playbook")>>, <<Push, Write("playbook"), Write("guide")>>}
        /\ NoneAdded(overrides, i)
    <3>1. Creating(edits[e], overrides, files, i)
      BY <1>1, <1>5 DEF Amidst
    <3>2. Head(<<Write("playbook")>>) = Write("playbook")
          /\ Head(<<Write("playbook"), Write("guide")>>) = Write("playbook")
          /\ Head(<<Write("guide")>>) = Write("guide")
      OBVIOUS
    <3>3. Write("playbook") # Push /\ Write("guide") # Push
      BY DEF Write, Push
    <3> QED BY <1>1, <3>1, <3>2, <3>3 DEF Creating
  <2>2. /\ Len(todo) # 1
        /\ Tail(todo) \in {<<Write("playbook")>>, <<Write("playbook"), Write("guide")>>}
    <3> DEFINE p == Write("playbook")
               g == Write("guide")
    <3>1. /\ Tail(<<Push, p>>) = <<p>> /\ Tail(<<Push, p, g>>) = <<p, g>>
          /\ Len(<<Push, p>>) = 2 /\ Len(<<Push, p, g>>) = 3
      BY ShortTails
    <3>2. todo = <<Push, p>> \/ todo = <<Push, p, g>>
      BY <2>1
    <3> HIDE DEF todo, p, g
    <3>3. (Len(todo) = 2 \/ Len(todo) = 3) /\ (Tail(todo) = <<p>> \/ Tail(todo) = <<p, g>>)
      <4>1. CASE todo = <<Push, p>>
        BY <3>1, <4>1, Zenon
      <4>2. CASE todo = <<Push, p, g>>
        BY <3>1, <4>2, Zenon
      <4> QED BY <3>2, <4>1, <4>2
    <3> QED BY <3>3 DEF p, g
  <2>3. Later(edits[e]).op = "create" /\ Later(edits[e]).todo = Tail(todo)
    BY <1>1, <1>2, LaterSteps
  <2>4. edits'[e] = Later(edits[e]) /\ Later(edits[e]) # Finished
    BY <1>1, <2>2, <2>3, GoesOn DEF Finished
  <2> HIDE DEF todo
  <2>5. Creating(Later(edits[e]), overrides', files, i)
    BY <1>3, <2>1, <2>2, <2>3 DEF Creating
  <2> QED BY <2>3, <2>4, <2>5 DEF Amidst
<1> QED BY <1>1, <1>3, <1>4, <1>5, UpdateStep DEF i

LEMMA PatchItemStep ==
  ASSUME ItemsInv, NEW e \in Editors, Patch(e)
  PROVE  ItemsInv'
<1> DEFINE i == edits[e].item
           found == {k \in DOMAIN overrides : overrides[k].item = i}
           first == CHOOSE k \in found : \A l \in found : k <= l
<1>1. /\ edits[e].op = "patch" /\ edits[e].todo # <<>> /\ Head(edits[e].todo) = Push
      /\ UNCHANGED <<files, disturbed>>
  BY DEF Patch, Updates
<1>2. \/ /\ found # {} /\ GoOn(e)
         /\ \E hidden \in BOOLEAN : overrides' = [overrides EXCEPT ![first].hidden = hidden]
      \/ /\ found = {} /\ i \in Baseline /\ GoOn(e)
         /\ \E hidden \in BOOLEAN : overrides' = Append(overrides, Override(i, TRUE, hidden))
      \/ /\ found = {} /\ i \notin Baseline
         /\ edits' = [edits EXCEPT ![e] = Finished]
         /\ UNCHANGED overrides
  BY DEF Patch
<1>3. IsEdit(edits[e]) /\ IsOverrides(overrides)
  BY DEF ItemsInv
<1>4. ASSUME NEW j
      PROVE  IsOverrides(overrides') /\ SameAdded(overrides, overrides', j)
  <2>1. CASE \E hidden \in BOOLEAN : overrides' = [overrides EXCEPT ![first].hidden = hidden]
    <3> HIDE DEF first
    <3>1. PICK hidden : overrides' = [overrides EXCEPT ![first].hidden = hidden]
      BY <2>1
    <3>2. overrides = [k \in DOMAIN overrides |-> overrides[k]]
          /\ \A k \in DOMAIN overrides : DOMAIN overrides[k] = OverrideFields
      BY <1>3 DEF IsOverrides, IsList
    <3>3. /\ DOMAIN overrides' = DOMAIN overrides
          /\ overrides' = [k \in DOMAIN overrides |-> overrides'[k]]
      BY <3>1, <3>2
    <3>4. ASSUME NEW k \in DOMAIN overrides
          PROVE  /\ DOMAIN overrides'[k] = DOMAIN overrides[k]
                 /\ overrides'[k].item = overrides[k].item
                 /\ overrides'[k].base = overrides[k].base
      BY <3>1, <3>2 DEF OverrideFields
    <3> QED BY <1>3, <3>3, <3>4, HiddenAdded
  <2>2. CASE \E hidden \in BOOLEAN :
               i \in Baseline /\ overrides' = Append(overrides, Override(i, TRUE, hidden))
    <3>1. PICK hidden \in BOOLEAN :
            i \in Baseline /\ overrides' = Append(overrides, Override(i, TRUE, hidden))
      BY <2>2
    <3> HIDE DEF i
    <3> QED BY <1>3, <3>1, AppendAdded
  <2>3. CASE UNCHANGED overrides
    BY <1>3, <2>3 DEF SameAdded
  <2> HIDE DEF first, found
  <2> QED BY <1>2, <2>1, <2>2, <2>3
<1>5. ASSUME i \notin Baseline, Amidst(edits[e], overrides, files, i)
      PROVE  /\ edits'[e] = Finished => WholeItem(overrides', files, i)
             /\ edits'[e] = Later(edits[e]) => Amidst(Later(edits[e]), overrides', files, i)
  <2>1. /\ WholeItem(overrides, files, i)
        /\ \A n \in DOMAIN edits[e].todo : n # 1 => edits[e].todo[n] \in Harmless
    <3>1. edits[e].todo[1] = Push
      BY <1>1, <1>3, LaterSteps
    <3> QED BY <1>1, <1>5, <3>1, KindsOfSteps DEF Amidst, Patching
  <2>2. SameAdded(overrides, overrides', i)
    BY <1>4
  <2>3. WholeItem(overrides', files, i)
    BY <2>1, <2>2 DEF WholeItem, SameAdded
  <2>4. CASE edits'[e] = Later(edits[e]) /\ edits'[e] # Finished
    <3>1. GoOn(e) /\ found # {}
      <4>1. edits = [g \in Editors |-> edits[g]]
        BY DEF ItemsInv
      <4>2. e \in DOMAIN edits
        BY <4>1
      <4> HIDE DEF found, first
      <4> QED BY <1>2, <1>5, <2>4, <4>2
    <3>2. PICK k \in DOMAIN overrides : overrides[k].item = i
      BY <3>1
    <3>3. IsAdded(overrides[k], i)
      BY <1>3, <1>5, <3>2 DEF IsOverrides, IsAdded
    <3>4. ~NoneAdded(overrides, i)
      BY <3>3 DEF NoneAdded
    <3>5. OneAdded(overrides', i) /\ Playbook(files, i)
      BY <2>1, <2>2, <3>4 DEF WholeItem, SameAdded
    <3>6. /\ Later(edits[e]).op = "patch" /\ Later(edits[e]).todo = Tail(edits[e].todo)
          /\ \A n \in DOMAIN Tail(edits[e].todo) :
               n + 1 \in DOMAIN edits[e].todo /\ n + 1 # 1
               /\ Tail(edits[e].todo)[n] = edits[e].todo[n + 1]
          /\ Tail(edits[e].todo) # <<>> => 1 \in DOMAIN Tail(edits[e].todo)
      BY <1>1, <1>3, LaterSteps
    <3>7. Tail(edits[e].todo) # <<>>
      <4>1. edits[e].todo \in Seq(Steps)
        BY <1>3 DEF IsEdit
      <4>2. Len(edits[e].todo) # 1
        BY <1>1, <2>4, <3>1, GoesOn
      <4> QED BY <1>1, <4>1, <4>2, TailOfAList
    <3>8. \A n \in DOMAIN Tail(edits[e].todo) : Tail(edits[e].todo)[n] \in Harmless
      BY <2>1, <3>6
    <3>9. Patching(Later(edits[e]), overrides', files, i)
      BY <3>5, <3>6, <3>7, <3>8 DEF Patching
    <3> QED BY <2>3, <3>6, <3>9 DEF Amidst
  <2>5. CASE edits'[e] = Later(edits[e]) /\ edits'[e] = Finished
    <3>1. Later(edits[e]).op = "patch" /\ Finished.op = "finished"
      BY <1>1, <1>3, LaterSteps DEF Finished
    <3> QED BY <2>5, <3>1
  <2> QED BY <2>3, <2>4, <2>5
<1>6. i \in Baseline /\ i \notin disturbed' => NoneAdded(overrides', i)
  <2>1. i \in Items
    BY <1>1, <1>3 DEF IsEdit
  <2>2. i \in Baseline /\ i \notin disturbed => NoneAdded(overrides, i)
    BY <2>1 DEF ItemsInv, Undisturbed
  <2> HIDE DEF i
  <2> QED BY <1>1, <1>4, <2>2 DEF SameAdded
<1>7. GoOn(e) \/ edits' = [edits EXCEPT ![e] = Finished]
  BY <1>2
<1> HIDE DEF found, first
<1> QED BY <1>1, <1>4, <1>5, <1>6, <1>7, UpdateStep

LEMMA RemoveItemStep ==
  ASSUME ItemsInv, NEW e \in Editors, RemoveItem(e)
  PROVE  ItemsInv'
<1> DEFINE i == edits[e].item
           kept == {k \in DOMAIN overrides : overrides[k].item # i}
<1>1. /\ edits[e].op = "delete" /\ edits[e].todo # <<>> /\ Head(edits[e].todo) = Push
      /\ GoOn(e) /\ UNCHANGED <<files, disturbed>>
  BY DEF RemoveItem, Updates
<1>2. /\ i \notin Baseline => overrides' = Filtered(overrides, kept)
      /\ i \in Baseline /\ (\E k \in DOMAIN overrides : IsOf(overrides[k], i)) =>
           overrides' = [k \in DOMAIN overrides |->
             IF IsOf(overrides[k], i) THEN [overrides[k] EXCEPT !.hidden = TRUE] ELSE overrides[k]]
      /\ i \in Baseline /\ ~(\E k \in DOMAIN overrides : IsOf(overrides[k], i)) =>
           overrides' = Append(overrides, Override(i, TRUE, TRUE))
  BY DEF RemoveItem
<1>3. IsEdit(edits[e]) /\ IsOverrides(overrides)
  BY DEF ItemsInv
<1> HIDE DEF i
<1>4. ASSUME NEW j
      PROVE  /\ IsOverrides(overrides')
             /\ j # i \/ i \in Baseline => SameAdded(overrides, overrides', j)
             /\ j = i /\ i \notin Baseline => NoneAdded(overrides', j)
  <2>1. CASE i \notin Baseline
    <3>1. \A k \in DOMAIN overrides : j # i /\ IsAdded(overrides[k], j) => k \in kept
      BY DEF IsAdded
    <3>2. \A k \in kept : j = i => ~IsAdded(overrides[k], j)
      BY DEF IsAdded
    <3>3. kept \subseteq DOMAIN overrides
      OBVIOUS
    <3> HIDE DEF kept
    <3> QED BY <1>2, <1>3, <2>1, <3>1, <3>2, <3>3, FilteredAdded
  <2>2. CASE i \in Baseline /\ \E k \in DOMAIN overrides : IsOf(overrides[k], i)
    <3>1. overrides' = [k \in DOMAIN overrides |->
             IF IsOf(overrides[k], i) THEN [overrides[k] EXCEPT !.hidden = TRUE] ELSE overrides[k]]
      BY <1>2, <2>2
    <3>2. /\ DOMAIN overrides' = DOMAIN overrides
          /\ overrides' = [k \in DOMAIN overrides |-> overrides'[k]]
      BY <3>1
    <3>3. ASSUME NEW k \in DOMAIN overrides
          PROVE  /\ DOMAIN overrides'[k] = DOMAIN overrides[k]
                 /\ overrides'[k].item = overrides[k].item
                 /\ overrides'[k].base = overrides[k].base
      <4>1. DOMAIN overrides[k] = {"item", "base", "hidden"}
        BY <1>3 DEF IsOverrides, OverrideFields
      <4>2. overrides'[k] = [overrides[k] EXCEPT !.hidden = TRUE] \/ overrides'[k] = overrides[k]
        BY <3>1
      <4> QED BY <4>1, <4>2
    <3>4. IsOverrides(overrides') /\ SameAdded(overrides, overrides', j)
      BY <1>3, <3>2, <3>3, HiddenAdded
    <3> QED BY <2>2, <3>4
  <2>3. CASE i \in Baseline /\ ~ \E k \in DOMAIN overrides : IsOf(overrides[k], i)
    <3>1. overrides' = Append(overrides, Override(i, TRUE, TRUE))
      BY <1>2, <2>3
    <3>2. IsOverrides(overrides') /\ SameAdded(overrides, overrides', j)
      BY <1>3, <2>3, <3>1, AppendAdded
    <3> QED BY <2>3, <3>2
  <2> QED BY <2>1, <2>2, <2>3
<1>5. ASSUME i \notin Baseline, Amidst(edits[e], overrides, files, i)
      PROVE  /\ edits'[e] = Finished => WholeItem(overrides', files, i)
             /\ edits'[e] = Later(edits[e]) => Amidst(Later(edits[e]), overrides', files, i)
  <2> DEFINE todo == edits[e].todo
             p == Drop("playbook")
             g == Drop("guide")
  <2>1. todo = <<Push, p, g>>
    <3>1. Removing(edits[e], overrides, files, i)
      BY <1>1, <1>5 DEF Amidst
    <3>2. Head(<<p, g>>) = p /\ Head(<<g>>) = g
      BY ShortTails
    <3> QED BY <1>1, <3>1, <3>2, KindsOfSteps DEF Removing
  <2>2. Len(todo) = 3 /\ Tail(todo) = <<p, g>>
    <3> HIDE DEF p, g, todo
    <3>1. Len(<<Push, p, g>>) = 3 /\ Tail(<<Push, p, g>>) = <<p, g>>
      BY ShortTails
    <3> QED BY <2>1, <3>1, Zenon
  <2>3. Later(edits[e]).op = "delete" /\ Later(edits[e]).todo = Tail(todo)
    BY <1>1, <1>3, LaterSteps
  <2>4. edits'[e] = Later(edits[e]) /\ Later(edits[e]) # Finished
    <3>1. Len(edits[e].todo) # 1
      BY <2>2
    <3>2. edits'[e] = Later(edits[e])
      BY <1>1, <3>1, GoesOn
    <3>3. Finished.op # Later(edits[e]).op
      BY <2>3 DEF Finished
    <3> QED BY <3>2, <3>3
  <2>5. NoneAdded(overrides', i)
    BY <1>4, <1>5
  <2>6. Removing(Later(edits[e]), overrides', files, i)
    BY <2>2, <2>3, <2>5 DEF Removing
  <2> QED BY <2>3, <2>4, <2>6 DEF Amidst
<1>6. i \in Baseline /\ i \notin disturbed' => NoneAdded(overrides', i)
  <2>1. i \in Items
    BY <1>1, <1>3 DEF IsEdit, i
  <2>2. i \in Baseline /\ i \notin disturbed => NoneAdded(overrides, i)
    BY <2>1 DEF ItemsInv, Undisturbed
  <2> QED BY <1>1, <1>4, <2>2 DEF SameAdded
<1> HIDE DEF kept
<1> QED BY <1>1, <1>4, <1>5, <1>6, UpdateStep DEF i

LEMMA ResetStep ==
  ASSUME ItemsInv, NEW e \in Editors, Reset(e)
  PROVE  ItemsInv'
<1> DEFINE i == edits[e].item
           kept == {k \in DOMAIN overrides : ~IsOf(overrides[k], i)}
<1>1. /\ edits[e].op = "reset" /\ edits[e].todo # <<>>
      /\ GoOn(e) /\ overrides' = Filtered(overrides, kept) /\ UNCHANGED <<files, disturbed>>
  BY DEF Reset, Updates
<1>2. IsEdit(edits[e]) /\ IsOverrides(overrides)
  BY DEF ItemsInv
<1> HIDE DEF i
<1>3. kept \subseteq DOMAIN overrides
      /\ \A k \in DOMAIN overrides : \A j : IsAdded(overrides[k], j) => k \in kept
  BY DEF IsAdded, IsOf
<1> HIDE DEF kept
<1>4. ASSUME NEW j PROVE IsOverrides(overrides') /\ SameAdded(overrides, overrides', j)
  BY <1>1, <1>2, <1>3, FilteredAdded
<1>5. ~Amidst(edits[e], overrides, files, i)
  BY <1>1 DEF Amidst
<1>6. i \in Baseline /\ i \notin disturbed' => NoneAdded(overrides', i)
  <2>1. i \in Items
    BY <1>1, <1>2 DEF IsEdit, i
  <2>2. i \in Baseline /\ i \notin disturbed => NoneAdded(overrides, i)
    BY <2>1 DEF ItemsInv, Undisturbed
  <2> QED BY <1>1, <1>4, <2>2 DEF SameAdded
<1> QED BY <1>1, <1>4, <1>5, <1>6, UpdateStep DEF i

Touched(step, f, i) ==
  IF step[1] = "write" THEN f \cup {<<step[2], i>>} ELSE f \ {<<step[2], i>>}

LEMMA StepsTouch ==
  ASSUME NEW f, NEW i, NEW step
  PROVE  LET h == Touched(step, f, i) IN
         /\ step \in Harmless /\ Playbook(f, i) => Playbook(h, i)
         /\ step = Write("playbook") => Playbook(h, i)
         /\ step \in {Write("form"), Drop("form")} =>
              (Playbook(f, i) <=> Playbook(h, i)) /\ (Bare(f, i) <=> Bare(h, i))
         /\ step = Drop("playbook") => ~Playbook(h, i)
         /\ step = Drop("guide") /\ ~Playbook(f, i) => Bare(h, i)
<1> DEFINE h == Touched(step, f, i)
<1>1. CASE step = Write("playbook")
  <2>1. step[1] = "write" /\ step[2] = "playbook"
    BY <1>1 DEF Write
  <2>2. h = f \cup {<<"playbook", i>>}
    BY <2>1 DEF Touched
  <2>3. Playbook(h, i)
    BY <2>2 DEF Playbook
  <2> QED BY <1>1, <2>3 DEF Write, Drop
<1>2. CASE step = Write("guide")
  <2>1. step[1] = "write" /\ step[2] = "guide"
    BY <1>2 DEF Write
  <2>2. h = f \cup {<<"guide", i>>}
    BY <2>1 DEF Touched
  <2>3. Playbook(f, i) => Playbook(h, i)
    BY <2>2 DEF Playbook
  <2> QED BY <1>2, <2>3 DEF Write, Drop
<1>3. CASE step \in {Write("form"), Drop("form")}
  <2>1. step[2] = "form"
    BY <1>3 DEF Write, Drop
  <2>2. h = f \cup {<<"form", i>>} \/ h = f \ {<<"form", i>>}
    BY <2>1 DEF Touched
  <2>3. (Playbook(f, i) <=> Playbook(h, i)) /\ (Bare(f, i) <=> Bare(h, i))
    BY <2>2 DEF Playbook, Bare
  <2> QED BY <1>3, <2>3 DEF Write, Drop
<1>4. CASE step = Drop("playbook")
  <2>1. step[1] = "drop" /\ step[2] = "playbook"
    BY <1>4 DEF Drop
  <2>2. h = f \ {<<"playbook", i>>}
    BY <2>1 DEF Touched
  <2>3. ~Playbook(h, i)
    BY <2>2 DEF Playbook
  <2>4. step \notin Harmless
    BY <1>4, KindsOfSteps
  <2> QED BY <1>4, <2>3, <2>4 DEF Write, Drop
<1>5. CASE step = Drop("guide")
  <2>1. step[1] = "drop" /\ step[2] = "guide"
    BY <1>5 DEF Drop
  <2>2. h = f \ {<<"guide", i>>}
    BY <2>1 DEF Touched
  <2>3. ~Playbook(f, i) => Bare(h, i)
    BY <2>2 DEF Playbook, Bare
  <2>4. step \notin Harmless
    BY <1>5, KindsOfSteps
  <2> QED BY <1>5, <2>3, <2>4 DEF Write, Drop
<1> QED BY <1>1, <1>2, <1>3, <1>4, <1>5 DEF Harmless

(* The request has fewer steps to go, or its item is whole.                *)
LEMMA TouchedFile ==
  ASSUME NEW x, IsEdit(x), x.todo # <<>>, Head(x.todo) # Push,
         NEW s, NEW f, NEW i, Amidst(x, s, f, i)
  PROVE  LET h == Touched(Head(x.todo), f, i) IN
         /\ Len(x.todo) = 1 => WholeItem(s, h, i)
         /\ Len(x.todo) # 1 => Amidst(Later(x), s, h, i)
<1> DEFINE todo == x.todo
           step == Head(todo)
           h == Touched(step, f, i)
           p == Write("playbook")
           g == Write("guide")
<1>1. /\ step \in Harmless /\ Playbook(f, i) => Playbook(h, i)
      /\ step = p => Playbook(h, i)
      /\ step \in {Write("form"), Drop("form")} =>
           (Playbook(f, i) <=> Playbook(h, i)) /\ (Bare(f, i) <=> Bare(h, i))
      /\ step = Drop("playbook") => ~Playbook(h, i)
      /\ step = Drop("guide") /\ ~Playbook(f, i) => Bare(h, i)
  BY StepsTouch
<1>2. /\ Later(x).op = x.op /\ Later(x).todo = Tail(todo) /\ step = todo[1]
      /\ \A n \in DOMAIN Tail(todo) : n + 1 \in DOMAIN todo /\ n + 1 # 1
                                      /\ Tail(todo)[n] = todo[n + 1]
      /\ Tail(todo) # <<>> => 1 \in DOMAIN Tail(todo)
  BY LaterSteps
<1> HIDE DEF h
<1>3. CASE x.op = "create"
  <2>1. Creating(x, s, f, i)
    BY <1>3 DEF Amidst
  <2>2. /\ Head(<<Push, p>>) = Push /\ Head(<<Push, p, g>>) = Push
        /\ Head(<<p>>) = p /\ Head(<<g>>) = g /\ Head(<<p, g>>) = p /\ Tail(<<p, g>>) = <<g>>
        /\ Len(<<p>>) = 1 /\ Len(<<g>>) = 1 /\ Len(<<p, g>>) = 2
    BY ShortTails
  <2>3. \/ todo = <<p>> /\ OneAdded(s, i)
        \/ todo = <<p, g>> /\ OneAdded(s, i)
        \/ todo = <<g>> /\ OneAdded(s, i) /\ Playbook(f, i)
    <3>1. todo # <<Push, p>> /\ todo # <<Push, p, g>>
      BY <2>2
    <3> HIDE DEF p, g
    <3> QED BY <2>1, <3>1 DEF Creating, p, g
  <2>4. g \in Harmless
    BY DEF Harmless
  <2>5. CASE todo = <<p, g>> /\ OneAdded(s, i)
    <3>1. step = p /\ Tail(todo) = <<g>> /\ Len(todo) = 2
      BY <2>2, <2>5, Zenon
    <3>2. Creating(Later(x), s, h, i)
      BY <1>1, <1>2, <2>5, <3>1 DEF Creating
    <3> QED BY <1>2, <1>3, <3>1, <3>2 DEF Amidst, h
  <2>6. CASE todo = <<p>> /\ OneAdded(s, i)
    <3>1. step = p /\ Len(todo) = 1
      BY <2>2, <2>6, Zenon
    <3> QED BY <1>1, <2>6, <3>1 DEF WholeItem, h
  <2>7. CASE todo = <<g>> /\ OneAdded(s, i) /\ Playbook(f, i)
    <3>1. step = g /\ Len(todo) = 1
      BY <2>2, <2>7, Zenon
    <3> QED BY <1>1, <2>4, <2>7, <3>1 DEF WholeItem, h
  <2> QED BY <2>3, <2>5, <2>6, <2>7
<1>4. CASE x.op = "patch"
  <2>1. /\ \A n \in DOMAIN todo : n # 1 => todo[n] \in Harmless
        /\ step \in Harmless /\ OneAdded(s, i) /\ Playbook(f, i)
    BY <1>2, <1>4 DEF Amidst, Patching
  <2>2. Playbook(h, i) /\ WholeItem(s, h, i)
    BY <1>1, <2>1 DEF WholeItem
  <2>3. CASE Len(todo) # 1
    <3>1. Tail(todo) # <<>>
      BY <2>3, TailOfAList DEF IsEdit
    <3>2. \A n \in DOMAIN Tail(todo) : Tail(todo)[n] \in Harmless
      BY <1>2, <2>1
    <3>3. Patching(Later(x), s, h, i)
      BY <1>2, <2>1, <2>2, <3>1, <3>2 DEF Patching
    <3> QED BY <1>2, <1>4, <2>3, <3>3 DEF Amidst, h
  <2> QED BY <2>2, <2>3 DEF h
<1>5. CASE x.op = "delete"
  <2> DEFINE dp == Drop("playbook")
             dg == Drop("guide")
  <2>1. Removing(x, s, f, i)
    BY <1>5 DEF Amidst
  <2>2. /\ Head(<<Push, dp, dg>>) = Push
        /\ Head(<<dg>>) = dg /\ Head(<<dp, dg>>) = dp /\ Tail(<<dp, dg>>) = <<dg>>
        /\ Len(<<dg>>) = 1 /\ Len(<<dp, dg>>) = 2
    BY ShortTails
  <2>3. \/ todo = <<dp, dg>> /\ NoneAdded(s, i)
        \/ todo = <<dg>> /\ NoneAdded(s, i) /\ ~Playbook(f, i)
    <3>1. todo # <<Push, dp, dg>>
      BY <2>2
    <3> QED BY <2>1, <3>1 DEF Removing
  <2>4. CASE todo = <<dp, dg>> /\ NoneAdded(s, i)
    <3>1. step = dp /\ Tail(todo) = <<dg>> /\ Len(todo) = 2
      BY <2>2, <2>4, Zenon
    <3>2. Removing(Later(x), s, h, i)
      BY <1>1, <1>2, <2>4, <3>1 DEF Removing
    <3> QED BY <1>2, <1>5, <3>1, <3>2 DEF Amidst, h
  <2>5. CASE todo = <<dg>> /\ NoneAdded(s, i) /\ ~Playbook(f, i)
    <3>1. step = dg /\ Len(todo) = 1
      BY <2>2, <2>5, Zenon
    <3> QED BY <1>1, <2>5, <3>1 DEF WholeItem, h
  <2> QED BY <2>3, <2>4, <2>5
<1>6. CASE x.op = "form"
  <2> DEFINE w == Write("form")
             d == Drop("form")
  <2>1. (todo = <<w>> \/ todo = <<d>>) /\ WholeItem(s, f, i)
    BY <1>6 DEF Amidst, Forming
  <2>2. Head(<<w>>) = w /\ Head(<<d>>) = d /\ Len(<<w>>) = 1 /\ Len(<<d>>) = 1
    BY ShortTails
  <2>3. (step = w \/ step = d) /\ Len(todo) = 1
    BY <2>1, <2>2, Zenon
  <2> QED BY <1>1, <2>1, <2>3 DEF WholeItem, h
<1> QED BY <1>3, <1>4, <1>5, <1>6 DEF Amidst

(* Files named with a patch: its update, then what harms no added item.    *)
LEMMA PushedFirst ==
  ASSUME NEW a \in Seq(Harmless), NEW b \in Seq(Harmless), NEW c \in Seq(Harmless)
  PROVE  LET q == <<Push>> \o a \o b \o c IN
         /\ q \in Seq(Steps) /\ q # <<>> /\ q[1] = Push
         /\ \A n \in DOMAIN q : n # 1 => q[n] \in Harmless
<1> DEFINE T == Steps
           OK(q) == /\ q \in Seq(T) /\ Len(q) # 0 /\ q[1] = Push
                    /\ \A n \in DOMAIN q : n # 1 => q[n] \in Harmless
<1>1. Harmless \subseteq T /\ Push \in T
  BY DEF Steps
<1> HIDE DEF T
<1>2. ASSUME NEW q, OK(q), NEW r \in Seq(Harmless) PROVE OK(q \o r)
  <2>1. q \in Seq(T) /\ r \in Seq(T)
    BY <1>1, <1>2
  <2>2. /\ q \o r \in Seq(T) /\ Len(q \o r) = Len(q) + Len(r)
        /\ \A n \in 1..(Len(q) + Len(r)) :
             (q \o r)[n] = IF n <= Len(q) THEN q[n] ELSE r[n - Len(q)]
    BY <2>1, ConcatProperties
  <2>3. Len(q) \in Nat /\ Len(r) \in Nat /\ DOMAIN q = 1..Len(q) /\ DOMAIN r = 1..Len(r)
    BY <2>1
  <2> QED BY <1>2, <2>2, <2>3
<1>3. OK(<<Push>>)
  BY <1>1
<1>4. OK(<<Push>> \o a)
  BY <1>2, <1>3
<1>5. OK(<<Push>> \o a \o b)
  BY <1>2, <1>4
<1>6. OK(<<Push>> \o a \o b \o c)
  BY <1>2, <1>5
<1> QED BY <1>6 DEF T

(* A file of the request's item is written or deleted.                     *)
LEMMA TouchFileStep ==
  ASSUME ItemsInv, NEW e \in Editors, TouchFile(e)
  PROVE  ItemsInv'
<1> DEFINE i == edits[e].item
           todo == edits[e].todo
           step == Head(todo)
           file == <<step[2], i>>
<1>1. /\ todo # <<>> /\ step # Push /\ GoOn(e) /\ UNCHANGED <<overrides, disturbed>>
      /\ files' = IF step[1] = "write" THEN files \cup {file} ELSE files \ {file}
  BY DEF TouchFile
<1>2. IsEdit(edits[e]) /\ i \in Items /\ IsOverrides(overrides)
  BY <1>1 DEF ItemsInv, IsEdit
<1>3. /\ edits' = [g \in Editors |-> edits'[g]] /\ \A g \in Editors : IsEdit(edits'[g])
      /\ \A g \in Editors : g # e => edits'[g] = edits[g]
      /\ Len(todo) = 1 => edits'[e] = Finished
      /\ Len(todo) # 1 => edits'[e] = Later(edits[e])
  BY <1>1, GoesOn
<1>4. Later(edits[e]).item = i /\ Later(edits[e]).op = edits[e].op
  <2>1. "item" \in DOMAIN edits[e]
    BY <1>2 DEF IsEdit
  <2>2. Later(edits[e]).op = edits[e].op
    BY <1>1, <1>2, LaterSteps
  <2> QED BY <2>1, <2>2 DEF Later
<1>5. ASSUME NEW j \in Items \ disturbed', j # i
      PROVE  Undisturbed(edits', overrides', files', j)
  <2>1. Undisturbed(edits, overrides, files, j)
    BY <1>1, <1>5 DEF ItemsInv
  <2>2. \A g \in Editors : edits[g].item = j \/ edits'[g].item = j => edits[g] = edits'[g]
    <3>1. Finished.item # j
      BY <1>5, CatalogAssumptions DEF Finished
    <3> HIDE DEF todo
    <3> QED BY <1>3, <1>4, <1>5, <3>1
  <2>3. SameAdded(overrides, overrides', j)
    BY <1>1 DEF SameAdded
  <2>4. /\ <<"playbook", j>> \in files <=> <<"playbook", j>> \in files'
        /\ <<"guide", j>> \in files <=> <<"guide", j>> \in files'
    <3> HIDE DEF i, step
    <3>1. <<"playbook", j>> # file /\ <<"guide", j>> # file
      BY <1>5
    <3> HIDE DEF file
    <3>2. files' = files \cup {file} \/ files' = files \ {file}
      BY <1>1
    <3> QED BY <3>1, <3>2
  <2> QED BY <2>1, <2>2, <2>3, <2>4, Elsewhere
<1>6. ASSUME i \notin disturbed' PROVE Undisturbed(edits', overrides', files', i)
  <2>1. Undisturbed(edits, overrides, files, i)
    BY <1>1, <1>2, <1>6 DEF ItemsInv
  <2>2. i \in Baseline => NoneAdded(overrides', i)
    BY <1>1, <2>1 DEF Undisturbed
  <2>3. i \notin Baseline => Amidst(edits[e], overrides, files, i)
    BY <2>1 DEF Undisturbed
  <2>4. i \notin Baseline =>
          /\ Len(todo) = 1 => WholeItem(overrides', files', i)
          /\ Len(todo) # 1 => Amidst(Later(edits[e]), overrides', files', i)
    <3> SUFFICES ASSUME i \notin Baseline
                 PROVE  /\ Len(todo) = 1 => WholeItem(overrides', files', i)
                        /\ Len(todo) # 1 => Amidst(Later(edits[e]), overrides', files', i)
      OBVIOUS
    <3>1. files' = Touched(step, files, i)
      BY <1>1 DEF Touched
    <3>2. Amidst(edits[e], overrides, files, i)
      BY <2>3
    <3>3. LET h == Touched(step, files, i)
          IN /\ Len(todo) = 1 => WholeItem(overrides, h, i)
             /\ Len(todo) # 1 => Amidst(Later(edits[e]), overrides, h, i)
      BY <1>1, <1>2, <3>2, TouchedFile
    <3> HIDE DEF i, step, todo
    <3> QED BY <1>1, <3>1, <3>3
  <2>5. /\ i \notin Baseline /\ edits'[e] = Finished => WholeItem(overrides', files', i)
        /\ i \notin Baseline /\ edits'[e] = Later(edits[e]) =>
             Amidst(Later(edits[e]), overrides', files', i)
    <3>1. i \notin Baseline => Later(edits[e]) # Finished
      <4>1. Amidst(edits[e], overrides, files, i) => edits[e].op # "finished"
        BY DEF Amidst
      <4> QED BY <1>4, <2>3, <4>1 DEF Finished
    <3> HIDE DEF todo
    <3> QED BY <1>3, <2>4, <3>1
  <2>6. edits'[e] = Finished \/ edits'[e] = Later(edits[e])
    BY <1>3
  <2> QED BY <1>2, <1>3, <2>1, <2>2, <2>5, <2>6, TookAStep
<1> QED BY <1>1, <1>3, <1>5, <1>6 DEF ItemsInv

(* A request that a crash cut short leaves its item disturbed.             *)
LEMMA StopStep ==
  ASSUME ItemsInv, Stop
  PROVE  ItemsInv'
<1>1. /\ disturbed' = disturbed \cup {i \in Items : UnderWay(i)}
      /\ edits' = [e \in Editors |-> IF edits[e] = Unstarted THEN Unstarted ELSE Finished]
      /\ UNCHANGED <<overrides, files>>
  BY DEF Stop
<1>2. \A e \in Editors : IsEdit(edits'[e]) /\ edits'[e].item = NoItem
  BY <1>1, CatalogAssumptions DEF IsEdit, Unstarted, Finished
<1>3. ASSUME NEW i \in Items \ disturbed'
      PROVE  Undisturbed(edits', overrides', files', i)
  <2>1. i \notin disturbed /\ \A e \in Editors : edits[e].item # i
    BY <1>1, <1>3 DEF UnderWay
  <2>2. Undisturbed(edits, overrides, files, i)
    BY <1>3, <2>1 DEF ItemsInv
  <2>3. \A e \in Editors : edits'[e].item # i
    BY <1>2, CatalogAssumptions
  <2> QED BY <1>1, <2>1, <2>2, <2>3 DEF Undisturbed
<1>4. IsOverrides(overrides') /\ edits' = [e \in Editors |-> edits'[e]]
  BY <1>1 DEF ItemsInv
<1> QED BY <1>2, <1>3, <1>4 DEF ItemsInv

(* The requests: what each has to do, and where it starts from.            *)
LEMMA RequestsStep ==
  ASSUME ItemsInv, NEW e \in Editors, NEW i \in Items,
         \/ RequestItem(e, i) \/ RequestPatch(e, i) \/ RequestRemoval(e, i)
         \/ RequestReset(e, i) \/ RequestForm(e, i)
  PROVE  ItemsInv'
<1> DEFINE p == Write("playbook")
           g == Write("guide")
           dp == Drop("playbook")
           dg == Drop("guide")
           df == Drop("form")
<1>0. IsOverrides(overrides)
  BY DEF ItemsInv
<1>1. CASE RequestItem(e, i)
  <2>1. PICK guide \in {<<>>, <<g>>} : Start(e, "create", i, <<Push, p>> \o guide)
    BY <1>1 DEF RequestItem
  <2> DEFINE todo == <<Push, p>> \o guide
  <2>2. todo = <<Push, p>> \/ todo = <<Push, p, g>>
    <3> HIDE DEF p, g
    <3>1. <<Push, p>> \o <<>> = <<Push, p>> 
      <4> DEFINE T == {Push, p}
      <4>1. <<Push, p>> \in Seq(T)
        OBVIOUS
      <4> QED BY <4>1, ConcatEmptySeq
    <3>2. <<Push, p>> \o <<g>> = <<Push, p, g>>
      <4> DEFINE T == {Push, p, g}
                 q == <<Push, p>> \o <<g>>
                 r == <<Push, p, g>>
      <4>1. <<Push, p>> \in Seq(T) /\ <<g>> \in Seq(T) /\ Len(<<Push, p>>) = 2 /\ Len(<<g>>) = 1
        OBVIOUS
      <4>2. /\ q \in Seq(T) /\ Len(q) = 2 + 1
            /\ \A n \in 1..(2 + 1) : q[n] = IF n <= 2 THEN <<Push, p>>[n] ELSE <<g>>[n - 2]
        BY <4>1, ConcatProperties
      <4>3. r \in Seq(T) /\ Len(r) = 3 /\ r[1] = Push /\ r[2] = p /\ r[3] = g
        OBVIOUS
      <4> HIDE DEF q, r
      <4>4. q[1] = Push /\ q[2] = p /\ q[3] = g
        BY <4>2
      <4>5. \A n \in 1..3 : n = 1 \/ n = 2 \/ n = 3
        OBVIOUS
      <4>6. Len(q) = Len(r) /\ \A n \in 1..Len(q) : q[n] = r[n]
        BY <4>2, <4>3, <4>4, <4>5
      <4> QED BY <4>2, <4>3, <4>6, SeqEqual DEF q, r
    <3> QED BY <2>1, <3>1, <3>2
  <2>3. todo \in Seq(Steps) /\ todo # <<>>
    <3>1. p \in Steps /\ g \in Steps /\ Push \in Steps
      BY ShortSteps
    <3> HIDE DEF p, g, todo
    <3> QED BY <2>2, <3>1, ShortSteps
  <2>4. NoneAdded(overrides, i)
    BY <1>0, <1>1, CountedListings DEF RequestItem
  <2>5. WholeItem(overrides, files, i) => Bare(files, i)
    BY <2>4 DEF WholeItem, OneAdded, NoneAdded
  <2> DEFINE x == [op |-> "create", item |-> i, todo |-> todo]
  <2>6. WholeItem(overrides, files, i) => Amidst(x, overrides, files, i)
    BY <2>2, <2>4, <2>5 DEF Amidst, Creating
  <2> HIDE DEF todo
  <2> QED BY <2>1, <2>3, <2>6, StartStep DEF todo
<1>2. CASE RequestPatch(e, i)
  <2>1. PICK playbook \in {<<>>, <<p>>}, guide \in {<<>>, <<g>>},
             form \in {<<>>, <<Write("form")>>, <<df>>} :
          Start(e, "patch", i, <<Push>> \o playbook \o guide \o form)
    BY <1>2 DEF RequestPatch
  <2> DEFINE todo == <<Push>> \o playbook \o guide \o form
  <2>2. /\ playbook \in Seq(Harmless) /\ guide \in Seq(Harmless) /\ form \in Seq(Harmless)
        /\ Harmless \subseteq Steps /\ Push \in Steps
    <3>1. /\ p \in Harmless /\ g \in Harmless /\ df \in Harmless
          /\ Write("form") \in Harmless
      BY DEF Harmless
    <3>2. <<>> \in Seq(Harmless) /\ \A x \in Harmless : <<x>> \in Seq(Harmless)
      OBVIOUS
    <3> HIDE DEF p, g, df
    <3> QED BY <2>1, <3>1, <3>2, ShortSteps
  <2>3. /\ todo \in Seq(Steps) /\ todo # <<>> /\ todo[1] = Push
        /\ \A n \in DOMAIN todo : n # 1 => todo[n] \in Harmless
    BY <2>2, PushedFirst
  <2> HIDE DEF todo
  <2> DEFINE x == [op |-> "patch", item |-> i, todo |-> todo]
  <2>4. WholeItem(overrides, files, i) => Amidst(x, overrides, files, i)
    BY <2>3 DEF Amidst, Patching
  <2> QED BY <2>1, <2>3, <2>4, StartStep DEF todo
<1>3. CASE RequestRemoval(e, i)
  <2> DEFINE todo == IF i \in Baseline THEN <<Push>> ELSE <<Push, dp, dg>>
             x == [op |-> "delete", item |-> i, todo |-> todo]
  <2>1. Start(e, "delete", i, todo)
    BY <1>3 DEF RequestRemoval
  <2>2. todo \in Seq(Steps) /\ todo # <<>>
    <3>1. dp \in Steps /\ dg \in Steps /\ Push \in Steps
      BY ShortSteps
    <3> HIDE DEF dp, dg
    <3> QED BY <3>1, ShortSteps
  <2>3. i \notin Baseline => Amidst(x, overrides, files, i)
    BY DEF Amidst, Removing
  <2> HIDE DEF todo
  <2> QED BY <2>1, <2>2, <2>3, StartStep
<1>4. CASE RequestReset(e, i)
  <2> DEFINE todo == <<Push, dp, dg, df>>
  <2>1. Start(e, "reset", i, todo) /\ i \in Baseline
    BY <1>4 DEF RequestReset
  <2>2. todo \in Seq(Steps) /\ todo # <<>>
    BY DEF Steps, Harmless
  <2> HIDE DEF todo
  <2> QED BY <2>1, <2>2, StartStep
<1>5. CASE RequestForm(e, i)
  <2>1. PICK step \in {Write("form"), df} : Start(e, "form", i, <<step>>)
    BY <1>5 DEF RequestForm
  <2> DEFINE todo == <<step>>
             x == [op |-> "form", item |-> i, todo |-> todo]
  <2>2. todo \in Seq(Steps) /\ todo # <<>>
    BY DEF Steps, Harmless
  <2>3. WholeItem(overrides, files, i) => Amidst(x, overrides, files, i)
    BY DEF Amidst, Forming
  <2> HIDE DEF todo
  <2> QED BY <2>1, <2>2, <2>3, StartStep DEF todo
<1> QED BY <1>1, <1>2, <1>3, <1>4, <1>5

(* An item whose requests did not overlap and were not cut short is listed *)
(* once at most, and its files are those of its override, whatever the     *)
(* items, the requests and their order (routes.ts, catalog-overrides.ts).  *)
THEOREM ItemsAreWholeAlways == ItemsSpec => []ItemsAreWhole
<1>1. ItemsInit => ItemsInv
  <2> SUFFICES ASSUME ItemsInit PROVE ItemsInv
    OBVIOUS
  <2>1. /\ overrides = <<>> /\ files = {} /\ edits = [e \in Editors |-> Unstarted]
    BY DEF ItemsInit
  <2>2. DOMAIN overrides = {} /\ IsList(overrides)
    BY <2>1 DEF IsList
  <2>3. \A e \in Editors : IsEdit(edits[e]) /\ edits[e].item = NoItem
    BY <2>1, CatalogAssumptions, ShortSteps DEF IsEdit, Unstarted
  <2>4. \A i \in Items : Undisturbed(edits, overrides, files, i)
    BY <2>1, <2>2, <2>3, CatalogAssumptions DEF Undisturbed, NoneAdded, WholeItem, Bare
  <2> QED BY <2>1, <2>2, <2>3, <2>4 DEF ItemsInv, IsOverrides
<1>2. ItemsInv /\ [ItemsNext]_itemVars => ItemsInv'
  <2> SUFFICES ASSUME ItemsInv, [ItemsNext]_itemVars PROVE ItemsInv'
    OBVIOUS
  <2>1. ASSUME NEW e \in Editors, NEW i \in Items,
               \/ RequestItem(e, i) \/ RequestPatch(e, i) \/ RequestRemoval(e, i)
               \/ RequestReset(e, i) \/ RequestForm(e, i)
        PROVE  ItemsInv'
    BY <2>1, RequestsStep
  <2>2. ASSUME NEW e \in Editors,
               Create(e) \/ Patch(e) \/ RemoveItem(e) \/ Reset(e) \/ TouchFile(e)
        PROVE  ItemsInv'
    BY <2>2, CreateStep, PatchItemStep, RemoveItemStep, ResetStep, TouchFileStep
  <2>3. CASE Stop
    BY <2>3, StopStep
  <2>4. CASE UNCHANGED itemVars
    BY <2>4 DEF itemVars, ItemsInv
  <2> QED BY <2>1, <2>2, <2>3, <2>4 DEF ItemsNext
<1>3. ItemsInv => ItemsAreWhole
  <2> SUFFICES ASSUME ItemsInv, NEW i \in Items \ disturbed, ~UnderWay(i)
               PROVE  /\ Listings(i) <= 1
                      /\ i \notin Baseline =>
                           IF Listings(i) = 1 THEN <<"playbook", i>> \in files
                           ELSE <<"playbook", i>> \notin files /\ <<"guide", i>> \notin files
    BY DEF ItemsAreWhole
  <2>1. Undisturbed(edits, overrides, files, i) /\ IsOverrides(overrides)
    BY DEF ItemsInv
  <2>2. /\ i \in Baseline => NoneAdded(overrides, i)
        /\ i \notin Baseline => WholeItem(overrides, files, i)
    BY <2>1 DEF Undisturbed, UnderWay
  <2>3. /\ i \in Baseline => Listings(i) = 0 \/ Listings(i) = 1
        /\ i \notin Baseline /\ NoneAdded(overrides, i) => Listings(i) = 0
        /\ i \notin Baseline /\ OneAdded(overrides, i) => Listings(i) = 1
    BY <2>1, <2>2, CountedListings
  <2>4. CASE i \in Baseline
    BY <2>3, <2>4
  <2>5. CASE i \notin Baseline
    BY <2>2, <2>3, <2>5 DEF WholeItem, Playbook, Bare
  <2> QED BY <2>4, <2>5
<1> QED BY <1>1, <1>2, <1>3, PTL DEF ItemsSpec
===============================================================================
