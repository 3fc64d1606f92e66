---------------------------- MODULE CatalogOverrides ----------------------------
(***************************************************************************)
(* What admins change of the catalogue (catalog-overrides.ts, routes.ts    *)
(* 5671-5931): items hidden, edited and added, in the runtime store, and   *)
(* files with their playbook, guide and form in a directory beside it.  A  *)
(* request updates the store and writes or deletes its files after that,   *)
(* one at a time.                                                          *)
(*                                                                         *)
(* Left out: the fields an override changes, and what the files say.       *)
(***************************************************************************)
EXTENDS Naturals, Sequences, FiniteSets, Functions

CONSTANTS
  Items,        \* catalogue ids
  Baseline,     \* those the code comes with
  Editors,      \* requests of a behaviour, each made once
  NoItem,
  MaxStops      \* bound on the crashes

ASSUME CatalogAssumptions ==
  Baseline \subseteq Items /\ NoItem \notin Items /\ MaxStops \in Nat

VARIABLES
  overrides,   \* the stored overrides, oldest first
  files,       \* what is written: pairs <<kind, item>>
  edits,       \* request -> its item, and what it has still to do
  disturbed,   \* auxiliary: items with two requests at once, a request that
               \* a crash cut short, or a hidden item of the code made anew,
               \* since an added item was last removed
  stops

itemVars == <<overrides, files, edits, disturbed, stops>>

Kinds == {"playbook", "guide", "form"}
Unstarted == [op |-> "unstarted", item |-> NoItem, todo |-> <<>>]
Finished == [op |-> "finished", item |-> NoItem, todo |-> <<>>]

ItemsInit ==
  /\ overrides = <<>> /\ files = {}
  /\ edits = [e \in Editors |-> Unstarted]
  /\ disturbed = {} /\ stops = 0

-----------------------------------------------------------------------------
(* An override is of an item of the code (baseId), or it is an added item. *)
Override(i, base, hidden) == [item |-> i, base |-> base, hidden |-> hidden]

(* list.filter: what stands at the places kept, in the order it stood.     *)
Filtered(list, kept) ==
  [n \in 1..Cardinality(kept) |->
     list[CHOOSE k \in kept : Cardinality({l \in kept : l < k}) = n - 1]]

IsOf(o, i) == o.item = i /\ o.base
IsAdded(o, i) == o.item = i /\ ~o.base

Hidden(i) == \E k \in DOMAIN overrides : IsOf(overrides[k], i) /\ overrides[k].hidden

(* How often mergeCatalog lists i: an added item shows even if hidden. *)
Listings(i) ==
  (IF i \in Baseline /\ ~Hidden(i) THEN 1 ELSE 0)
  + Cardinality({k \in DOMAIN overrides : IsAdded(overrides[k], i)})

UnderWay(i) == \E e \in Editors : edits[e].item = i

Start(e, op, i, todo) ==
  /\ edits[e].op = "unstarted"
  /\ edits' = [edits EXCEPT ![e] = [op |-> op, item |-> i, todo |-> todo]]
  /\ disturbed' = IF UnderWay(i) THEN disturbed \cup {i}
                  ELSE IF op = "delete" /\ i \notin Baseline THEN disturbed \ {i}
                  ELSE disturbed
  /\ UNCHANGED <<overrides, files, stops>>

Write(kind) == <<"write", kind>>
Drop(kind) == <<"drop", kind>>
Push == <<"push", "">>

(* Mutant of RequestItem: only the code's own items are looked at. *)
RequestAnyItem(e, i) ==
  /\ i \notin Baseline
  /\ \E guide \in {<<>>, <<Write("guide")>>} :
       Start(e, "create", i, <<Push, Write("playbook")>> \o guide)

(* The id is looked up before the update, in the catalogue as it is listed.*)
RequestItem(e, i) ==
  /\ Listings(i) = 0
  /\ \E guide \in {<<>>, <<Write("guide")>>} :
       Start(e, "create", i, <<Push, Write("playbook")>> \o guide)

(* A patch may come with any of the files; a form it may drop as well. *)
RequestPatch(e, i) ==
  \E playbook \in {<<>>, <<Write("playbook")>>}, guide \in {<<>>, <<Write("guide")>>},
     form \in {<<>>, <<Write("form")>>, <<Drop("form")>>} :
    Start(e, "patch", i, <<Push>> \o playbook \o guide \o form)

RequestRemoval(e, i) ==
  Start(e, "delete", i,
    IF i \in Baseline THEN <<Push>> ELSE <<Push, Drop("playbook"), Drop("guide")>>)

RequestReset(e, i) ==
  /\ i \in Baseline
  /\ Start(e, "reset", i, <<Push, Drop("playbook"), Drop("guide"), Drop("form")>>)

(* The routes of the form alone ask for no item. *)
RequestForm(e, i) ==
  \E step \in {Write("form"), Drop("form")} : Start(e, "form", i, <<step>>)

Updates(e, op) ==
  edits[e].op = op /\ edits[e].todo # <<>> /\ Head(edits[e].todo) = Push

GoOn(e) ==
  edits' = [edits EXCEPT ![e] =
    IF Len(@.todo) = 1 THEN Finished ELSE [@ EXCEPT !.todo = Tail(edits[e].todo)]]

Create(e) ==
  LET i == edits[e].item
  IN /\ Updates(e, "create") /\ GoOn(e)
     /\ overrides' = Append(overrides, Override(i, FALSE, FALSE))
     /\ disturbed' = IF i \in Baseline THEN disturbed \cup {i} ELSE disturbed
     /\ UNCHANGED <<files, stops>>

(* The first override of the id is edited; an item of the code gets one;   *)
(* any other id is unknown, and no file is written for it.                 *)
Patch(e) ==
  LET i == edits[e].item
      found == {k \in DOMAIN overrides : overrides[k].item = i}
  IN /\ Updates(e, "patch")
     /\ \/ /\ found # {} /\ GoOn(e)
           /\ \E hidden \in BOOLEAN :
                overrides' = [overrides EXCEPT
                  ![CHOOSE k \in found : \A l \in found : k <= l].hidden = hidden]
        \/ /\ found = {} /\ i \in Baseline /\ GoOn(e)
           /\ \E hidden \in BOOLEAN :
                overrides' = Append(overrides, Override(i, TRUE, hidden))
        \/ /\ found = {} /\ i \notin Baseline
           /\ edits' = [edits EXCEPT ![e] = Finished]
           /\ UNCHANGED overrides
     /\ UNCHANGED <<files, disturbed, stops>>

(* An item of the code is hidden, an added one goes. *)
RemoveItem(e) ==
  LET i == edits[e].item
  IN /\ Updates(e, "delete") /\ GoOn(e)
     /\ overrides' =
          IF i \notin Baseline THEN Filtered(overrides, {k \in DOMAIN overrides : overrides[k].item # i})
          ELSE IF \E k \in DOMAIN overrides : IsOf(overrides[k], i)
          THEN [k \in DOMAIN overrides |->
                  IF IsOf(overrides[k], i) THEN [overrides[k] EXCEPT !.hidden = TRUE]
                  ELSE overrides[k]]
          ELSE Append(overrides, Override(i, TRUE, TRUE))
     /\ UNCHANGED <<files, disturbed, stops>>

Reset(e) ==
  LET i == edits[e].item
  IN /\ Updates(e, "reset") /\ GoOn(e)
     /\ overrides' = Filtered(overrides, {k \in DOMAIN overrides : ~IsOf(overrides[k], i)})
     /\ UNCHANGED <<files, disturbed, stops>>

TouchFile(e) ==
  /\ edits[e].todo # <<>> /\ Head(edits[e].todo) # Push /\ GoOn(e)
  /\ LET step == Head(edits[e].todo)
         file == <<step[2], edits[e].item>>
     IN files' = IF step[1] = "write" THEN files \cup {file} ELSE files \ {file}
  /\ UNCHANGED <<overrides, disturbed, stops>>

(* The process dies, or the disk refuses a file: what is left of a request *)
(* is not done.                                                            *)
Stop ==
  /\ stops < MaxStops /\ stops' = stops + 1
  /\ disturbed' = disturbed \cup {i \in Items : UnderWay(i)}
  /\ edits' = [e \in Editors |-> IF edits[e] = Unstarted THEN Unstarted ELSE Finished]
  /\ UNCHANGED <<overrides, files>>

ItemsNext ==
  \/ \E e \in Editors, i \in Items :
       \/ RequestItem(e, i) \/ RequestPatch(e, i) \/ RequestRemoval(e, i)
       \/ RequestReset(e, i) \/ RequestForm(e, i)
  \/ \E e \in Editors :
       Create(e) \/ Patch(e) \/ RemoveItem(e) \/ Reset(e) \/ TouchFile(e)
  \/ Stop

ItemsSpec == ItemsInit /\ [][ItemsNext]_itemVars

-----------------------------------------------------------------------------
ItemsTypeOK ==
  /\ \A o \in Range(overrides) : o.item \in Items /\ o.base \in BOOLEAN /\ o.hidden \in BOOLEAN
  /\ files \subseteq Kinds \X Items
  /\ disturbed \subseteq Items
  /\ stops \in 0..MaxStops

(* Through any sequence of creations, edits, removals and resets an id is  *)
(* listed once at most, an added item can be run, and what is removed      *)
(* leaves no playbook and no guide that an item of its name would inherit; *)
(* unless its requests overlapped or were cut short: then a removal that   *)
(* runs alone and to its end puts it right.  A hidden item of the code     *)
(* made anew is not spoken of (the look-up does not see it, and a reset    *)
(* lists it beside the new one).                                           *)
ItemsAreWhole ==
  \A i \in Items \ disturbed :
    ~UnderWay(i) =>
      /\ Listings(i) <= 1
      /\ i \notin Baseline =>
           IF Listings(i) = 1 THEN <<"playbook", i>> \in files
           ELSE <<"playbook", i>> \notin files /\ <<"guide", i>> \notin files
================================================================================
