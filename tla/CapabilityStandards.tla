-------------------------- MODULE CapabilityStandards --------------------------
(***************************************************************************)
(* Standard profiles, and the requirements a capability has under a        *)
(* profile (capability-standards.ts, routes.ts 627-1124).  Every route is  *)
(* one update of the runtime store, so one action.  One profile comes with *)
(* the code and is stored only once an admin edits it.                     *)
(*                                                                         *)
(* Left out: what sections and drafts say, certification runs (a log that  *)
(* nothing is decided by) and the audit log.                               *)
(***************************************************************************)
EXTENDS Naturals, Sequences, FiniteSetsExt, Functions

CONSTANTS
  Keys, DefaultKey,
  Ids, DefaultId,     \* ids createId returns, and that of the profile in the code
  Anyone,             \* a request that names no profile, or no key
  Capabilities,
  MaxEdits,           \* bound on the version a profile reaches
  MaxDrafts, MaxVersions

ASSUME StandardsAssumptions ==
  /\ DefaultKey \in Keys /\ DefaultId \notin Ids
  /\ Anyone \notin Ids \cup Keys \cup {DefaultId}
  /\ MaxEdits \in Nat /\ MaxDrafts \in Nat /\ MaxVersions \in Nat

VARIABLES
  profiles,   \* the stored profiles, oldest first
  drafts,     \* requirement drafts, oldest first
  versions,   \* requirement versions, oldest first
  undone      \* auxiliary: a key's last active profile was made a draft again

standardsVars == <<profiles, drafts, versions, undone>>

StandardsInit ==
  profiles = <<>> /\ drafts = <<>> /\ versions = <<>> /\ undone = FALSE

-----------------------------------------------------------------------------
DefaultProfile == [id |-> DefaultId, key |-> DefaultKey, version |-> 1, status |-> "active"]

Stored(id) == \E p \in Range(profiles) : p.id = id

Listed == IF Stored(DefaultId) THEN profiles ELSE <<DefaultProfile>> \o profiles

(* The first of the places of s, or the profile in the code if there is    *)
(* none.                                                                   *)
FirstAt(s, places) == IF places = {} THEN DefaultProfile ELSE s[Min(places)]

ActiveIn(s) == {i \in DOMAIN s : s[i].status = "active"}

(* What getActiveStandardProfile answers: by id, or else the first stored  *)
(* profile that is active, of whatever key.                                *)
ProfileFor(id) ==
  IF id # Anyone THEN FirstAt(Listed, {i \in DOMAIN Listed : Listed[i].id = id})
  ELSE IF ActiveIn(profiles) # {} THEN FirstAt(profiles, ActiveIn(profiles))
  ELSE FirstAt(Listed, ActiveIn(Listed))

NextProfileVersion(key) ==
  Max({0} \cup {p.version : p \in {q \in Range(Listed) : q.key = key}}) + 1

Retired(s, key, kept) ==
  [i \in DOMAIN s |->
     IF i # kept /\ s[i].key = key /\ s[i].status = "active"
     THEN [s[i] EXCEPT !.status = "retired"] ELSE s[i]]

(* The profiles with a copy of the one in the code, to be edited. *)
WithMutable(id) ==
  IF Stored(id) THEN profiles
  ELSE Append(profiles,
         [DefaultProfile EXCEPT !.status =
            IF \E p \in Range(profiles) : p.key = DefaultKey /\ p.status = "active"
            THEN "retired" ELSE @])

Replaceable(s, i) ==
  \E j \in DOMAIN s : j # i /\ s[j].key = s[i].key /\ s[j].status = "active"

CreateProfile(id, key) ==
  /\ \A p \in Range(profiles) : p.id # id
  /\ NextProfileVersion(key) <= MaxEdits
  /\ profiles' = Append(profiles,
       [id |-> id, key |-> key, version |-> NextProfileVersion(key), status |-> "draft"])
  /\ UNCHANGED <<drafts, versions, undone>>

(* Mutant of PatchProfile: the last active profile of a key may be retired. *)
PatchUnguarded(id, status, edited) ==
  /\ \E p \in Range(Listed) : p.id = id
  /\ LET s == WithMutable(id)
         i == CHOOSE j \in DOMAIN s : s[j].id = id
     IN /\ edited => s[i].version < MaxEdits
        /\ profiles' = [(IF status = "active" THEN Retired(s, s[i].key, i) ELSE s)
             EXCEPT ![i].status = IF status = "kept" THEN @ ELSE status,
                    ![i].version = IF edited THEN @ + 1 ELSE @]
        /\ undone' = (undone \/ (status = "draft" /\ s[i].status = "active" /\ ~Replaceable(s, i)))
  /\ UNCHANGED <<drafts, versions>>

(* A refused patch stores the copy it was to be made to nevertheless. *)
PatchProfile(id, status, edited) ==
  /\ \E p \in Range(Listed) : p.id = id
  /\ LET s == WithMutable(id)
         i == CHOOSE j \in DOMAIN s : s[j].id = id
     IN \/ /\ status = "retired" /\ s[i].status = "active" /\ ~Replaceable(s, i)
           /\ profiles' = s
           /\ UNCHANGED undone
        \/ /\ status = "retired" /\ s[i].status = "active" => Replaceable(s, i)
           /\ edited => s[i].version < MaxEdits
           /\ profiles' = [(IF status = "active" THEN Retired(s, s[i].key, i) ELSE s)
                EXCEPT ![i].status = IF status = "kept" THEN @ ELSE status,
                       ![i].version = IF edited THEN @ + 1 ELSE @]
           /\ undone' = (undone \/ (status = "draft" /\ s[i].status = "active" /\ ~Replaceable(s, i)))
  /\ UNCHANGED <<drafts, versions>>

CloneProfile(source, id, named, status) ==
  /\ \A p \in Range(profiles) : p.id # id
  /\ \E p \in Range(Listed) :
       LET key == IF named = Anyone THEN p.key ELSE named
       IN /\ p.id = source
          /\ NextProfileVersion(key) <= MaxEdits
          /\ profiles' = Append(IF status = "active" THEN Retired(profiles, key, 0) ELSE profiles,
               [id |-> id, key |-> key, version |-> NextProfileVersion(key), status |-> status])
  /\ UNCHANGED <<drafts, versions, undone>>

-----------------------------------------------------------------------------
OpenDrafts(c, p) ==
  {i \in DOMAIN drafts : drafts[i].capability = c /\ drafts[i].profile = p
                         /\ drafts[i].status = "draft"}

(* A draft that is open is edited in place. *)
SaveDraft(c, named) ==
  LET p == ProfileFor(named).id
  IN /\ OpenDrafts(c, p) = {} /\ Len(drafts) < MaxDrafts
     /\ drafts' = Append(drafts, [capability |-> c, profile |-> p, status |-> "draft"])
     /\ UNCHANGED <<profiles, versions, undone>>

VersionsOf(c, p) ==
  {i \in DOMAIN versions : versions[i].capability = c /\ versions[i].profile = p}

(* Mutant of NewVersion: whatever the capability, what is published under  *)
(* the profile is superseded.                                              *)
NewVersionForAll(c, p) ==
  Append([i \in DOMAIN versions |->
            IF versions[i].profile = p THEN [versions[i] EXCEPT !.status = "superseded"]
            ELSE versions[i]],
         [capability |-> c, profile |-> p, status |-> "published",
          number |-> Max({0} \cup {versions[i].number : i \in VersionsOf(c, p)}) + 1])

(* The versions with a new one that supersedes what was published. *)
NewVersion(c, p) ==
  Append([i \in DOMAIN versions |->
            IF i \in VersionsOf(c, p) /\ versions[i].status = "published"
            THEN [versions[i] EXCEPT !.status = "superseded"] ELSE versions[i]],
         [capability |-> c, profile |-> p, status |-> "published",
          number |-> Max({0} \cup {versions[i].number : i \in VersionsOf(c, p)}) + 1])

(* The request may name a draft of the capability: of any profile, and     *)
(* published before.  Whether it certifies is recorded and not asked for.  *)
Publish(c, named, d) ==
  LET p == ProfileFor(named).id
  IN /\ d \in OpenDrafts(c, p) \cup {i \in DOMAIN drafts : drafts[i].capability = c}
     /\ Len(versions) < MaxVersions
     /\ versions' = NewVersion(c, p)
     /\ drafts' = [drafts EXCEPT ![d].status = "published"]
     /\ UNCHANGED <<profiles, undone>>

RollBackVersion(c, named, v) ==
  /\ versions[v].capability = c
  /\ Len(versions) < MaxVersions
  /\ versions' = NewVersion(c, ProfileFor(named).id)
  /\ UNCHANGED <<profiles, drafts, undone>>

StandardsNext ==
  \/ \E id \in Ids, key \in Keys : CreateProfile(id, key)
  \/ \E id \in Ids \cup {DefaultId}, status \in {"draft", "active", "retired", "kept"},
        edited \in BOOLEAN : PatchProfile(id, status, edited)
  \/ \E source \in Ids \cup {DefaultId}, id \in Ids, key \in Keys \cup {Anyone},
        status \in {"draft", "active"} : CloneProfile(source, id, key, status)
  \/ \E c \in Capabilities, named \in Ids \cup {DefaultId, Anyone} :
       \/ SaveDraft(c, named)
       \/ \E d \in DOMAIN drafts : Publish(c, named, d)
       \/ \E v \in DOMAIN versions : RollBackVersion(c, named, v)

StandardsSpec == StandardsInit /\ [][StandardsNext]_standardsVars

-----------------------------------------------------------------------------
StandardsTypeOK ==
  /\ \A p \in Range(profiles) :
       p \in [id : Ids \cup {DefaultId}, key : Keys, version : 1..MaxEdits,
              status : {"draft", "active", "retired"}]
  /\ \A d \in Range(drafts) : d.capability \in Capabilities /\ d.status \in {"draft", "published"}
  /\ \A v \in Range(versions) : v.number \in 1..MaxVersions /\ v.status \in {"published", "superseded"}
  /\ undone \in BOOLEAN

(* The profile that requests go by is one the admins see, as it is stored: *)
(* never the copy in the code of one that was edited.  And of the stored   *)
(* profiles of a key no two are active, whatever was cloned, activated and *)
(* retired.  The copy in the code, as long as it was never edited, is      *)
(* listed as active beside a stored one of its key: no clone that is made  *)
(* active retires it, and requests then go by the stored one.  Making the  *)
(* last active profile a draft again gets round the guard ("cannot retire  *)
(* the last active profile for this key").                                 *)
ActiveIsListed ==
  ~undone =>
    /\ ProfileFor(Anyone) \in Range(Listed)
    /\ ProfileFor(Anyone).status = "active"
    /\ \A i, j \in DOMAIN profiles :
         /\ profiles[i].key = profiles[j].key
         /\ profiles[i].status = "active" /\ profiles[j].status = "active"
         => i = j

(* Under a profile a capability has one open draft at most, and of its     *)
(* versions exactly the newest is published, also when versions and drafts *)
(* of one profile are published and restored under another.                *)
OneCurrentRequirement ==
  \A c \in Capabilities, p \in Ids \cup {DefaultId} :
    /\ Cardinality(OpenDrafts(c, p)) <= 1
    /\ \A v \in VersionsOf(c, p) :
         versions[v].status = "published" <=>
           \A w \in VersionsOf(c, p) : w # v => versions[w].number < versions[v].number
================================================================================
