-------------------------------- MODULE Accounts --------------------------------
(***************************************************************************)
(* Accounts, the ways into them and their sessions (auth/local.ts,         *)
(* email-codes.ts, account.ts, identity.ts, password-reset.ts and the admin*)
(* routes over users).                                                     *)
(*                                                                         *)
(* A read of the store and an update of it are atomic (RuntimeStore); a    *)
(* request is a few of them, with awaits between.  What it read may be old *)
(* by the time its update acts on it.                                      *)
(*                                                                         *)
(* SecondFactor adds the second factor, and composes the two.              *)
(*                                                                         *)
(* Left out: API tokens, the expiry of sessions, log-out and what the mails*)
(* say.  Codes issued within one millisecond count as issued in turn.      *)
(***************************************************************************)
EXTENDS Naturals, Sequences, FiniteSetsExt

CONSTANTS
  Requests,     \* one-shot requests: records [op, email, ident, user]
  Mixes,        \* [users, idents, sessions, requests] a behaviour starts from
  Emails, NoEmail,
  Idents,       \* accounts at a provider
  ProviderOf,   \* the provider of an ident
  AdminEmails,  \* the configured allow-list
  MaxAttempts   \* wrong digits before a code is used up: 5

(* Requests that come with a session; those of an admin are about q.user.  *)
Admin == {"promote", "demote", "lock"}
Enrols == {"enroll", "confirmFactor"}
Private == {"askChange", "confirmChange", "delete", "password", "link", "unlink",
            "disable", "regenerate"} \cup Admin \cup Enrols

Ops == Private \cup {"register", "verify", "login", "oauth", "forgot", "reset", "second"}

ASSUME AccountsAssumptions ==
  /\ \A q \in Requests : /\ q.op \in Ops /\ q.email \in Emails \cup {NoEmail}
                         /\ q.ident \in Idents /\ q.user \in Nat
  /\ \A mix \in Mixes : mix.requests \subseteq Requests
  /\ NoEmail \notin Emails /\ AdminEmails \subseteq Emails
  /\ MaxAttempts \in Nat \ {0}

(* What is stored of an account, of an identity and of a session.          *)
Account ==
  [email : Emails \cup {NoEmail}, password : BOOLEAN, live : BOOLEAN, admin : BOOLEAN,
   toggled : BOOLEAN, factor : [on : BOOLEAN, codes : SUBSET (Requests \X Nat)]]
Identity == [id : Nat, ident : Idents, user : Nat]
Session == [user : Nat, request : Requests, kind : {"full", "second", "enrol"}]

(* A behaviour starts from what requests before it may have left, one      *)
(* after the other.                                                        *)
ASSUME MixAssumptions ==
  \A mix \in Mixes :
    /\ mix.users \in Seq(Account)
    /\ IsFiniteSet(mix.idents)
    /\ mix.idents \subseteq Identity /\ mix.sessions \subseteq Session
    /\ \A row \in mix.idents : row.user \in DOMAIN mix.users /\ row.id <= Cardinality(mix.idents)
    /\ \A one, two \in mix.idents : one.id = two.id \/ one.ident = two.ident => one = two
    /\ \A s \in mix.sessions : /\ s.user \in DOMAIN mix.users /\ s.request \notin mix.requests
                               /\ mix.users[s.user].live \/ mix.users[s.user].toggled
    /\ \A u, v \in {w \in DOMAIN mix.users : mix.users[w].live /\ ~mix.users[w].toggled} :
         /\ mix.users[u].password \/ \E row \in mix.idents : row.user = u
         /\ u = v \/ mix.users[u].email # mix.users[v].email \/ mix.users[u].email = NoEmail
    /\ \A u, v \in DOMAIN mix.users : \A code \in mix.users[u].factor.codes :
         code[1] \notin mix.requests /\ (code \in mix.users[v].factor.codes => u = v)
    /\ (\E u \in DOMAIN mix.users : mix.users[u].admin) =>
         \E u \in DOMAIN mix.users :
           mix.users[u].toggled \/ (mix.users[u].live /\ mix.users[u].admin)

VARIABLES
  users,        \* accounts in the order they were made
  idents,       \* rows [id, ident, user]
  made,         \* rows made so far, the next one's id
  codes,        \* verification codes in the order they were issued
  pendReg,      \* pending registrations [request, email]
  pendChange,   \* pending e-mail changes [request, user, email]
  resets,       \* reset requests [request, user, used, times]
  enrolling,    \* accounts with a second factor offered and not yet confirmed
  sessions,     \* [user, request, kind]
  local,        \* request -> where it is and what it has read
  passed,       \* auxiliary: requests under way when another one wrote
  overlapped    \* auxiliary: one of those went on to write

vars == <<users, idents, made, codes, pendReg, pendChange, resets, enrolling, sessions, local,
          passed, overlapped>>

NoFactor == [on |-> FALSE, codes |-> {}]

(* An account that was locked has its deletedAt set and nothing else.      *)
(* "toggled" is auxiliary: an admin has locked or unlocked it.             *)
NewUser(email, password) ==
  [email |-> email, password |-> password, live |-> TRUE, admin |-> email \in AdminEmails,
   toggled |-> FALSE, factor |-> NoFactor]

NoRow == [id |-> 0, ident |-> "none", user |-> 0]
NoPending == [email |-> NoEmail]
NoSession == [user |-> 0]

Init ==
  /\ \E mix \in Mixes :
       /\ users = mix.users /\ idents = mix.idents
       /\ made = Cardinality(mix.idents) /\ sessions = mix.sessions
       /\ local = [q \in mix.requests |->
            [pc |-> "ready", user |-> 0, admin |-> FALSE, pending |-> NoPending, row |-> NoRow,
             kind |-> "full", token |-> NoSession, code |-> <<>>]]
  /\ codes = <<>> /\ pendReg = {} /\ pendChange = {} /\ resets = {} /\ enrolling = {}
  /\ passed = {} /\ overlapped = FALSE

At(q, op, pc) == q.op = op /\ local[q].pc = pc

(* q goes on at pc; with what it has just read.                            *)
Goes(q, pc) == local' = [local EXCEPT ![q].pc = pc]
ReadsUser(q, pc, user) == local' = [local EXCEPT ![q].pc = pc, ![q].user = user]
ReadsPending(q, pc, p) == local' = [local EXCEPT ![q].pc = pc, ![q].pending = p]
ReadsRow(q, pc, row) == local' = [local EXCEPT ![q].pc = pc, ![q].row = row]

LiveUsers == {u \in DOMAIN users : users[u].live}
Taken(email) == \E u \in LiveUsers : users[u].email = email
TakenByOther(email, user) == \E u \in LiveUsers \ {user} : users[u].email = email
OtherAdmins(user) == {u \in LiveUsers \ {user} : users[u].admin}

(* The update of a request; one that others under way may have read past.  *)
Acts(q) == overlapped' = (overlapped \/ q \in passed) /\ UNCHANGED passed

UnderWay == {q \in DOMAIN local : local[q].pc \notin {"ready", "done", "in"}}
Writes(q) ==
  /\ overlapped' = (overlapped \/ q \in passed)
  /\ passed' = IF overlapped' THEN {} ELSE passed \cup (UnderWay \ {q})

accounts == <<users, idents, made>>
overlaps == <<passed, overlapped>>
pendings == <<codes, pendReg, pendChange, resets, enrolling>>

-----------------------------------------------------------------------------
(* Requests with a session: the account is read, deleted or not.           *)
On(user) == users[user].factor.on

NextStep(op, admin) ==
  CASE op \in {"askChange", "confirmChange", "password"} -> "check"
    [] op = "delete" -> IF admin THEN "others" ELSE "delete"
    [] op = "link" -> "find"
    [] op \in Admin -> "others"
    [] OTHER -> op

(* Some requests call for the password, or for a code of the second factor *)
(* when there is none; to turn the factor off either will do.              *)
Asked(op, user) ==
  LET next == NextStep(op, users[user].admin) IN
  IF op \notin {"delete", "password", "disable"} THEN {next}
  ELSE {step \in {next, "prove"} :
          IF step = "prove" THEN On(user) /\ (op = "disable" \/ ~users[user].password)
          ELSE users[user].password}

(* An intermediate session is good for one thing only: "enrol" for setting *)
(* up a factor, "second" for giving a code.                                *)
Authenticate(q) ==
  \E s \in sessions : \E pc \in Asked(q.op, s.user) :
    /\ q.op \in Private /\ local[q].pc = "ready"
    /\ s.kind = "full" \/ (s.kind = "enrol" /\ q.op \in Enrols)
    /\ q.op \in Admin => users[s.user].admin
    /\ q.op = "enroll" => ~On(s.user)
    /\ q.op \in {"disable", "regenerate"} => On(s.user)
    /\ local' = [local EXCEPT ![q].pc = pc, ![q].user = s.user, ![q].admin = users[s.user].admin,
                              ![q].token = s]
    /\ UNCHANGED <<accounts, pendings, sessions, overlaps>>

(* The code is held against the factor of now.                             *)
Prove(q) ==
  /\ local[q].pc = "prove" /\ On(local[q].user)
  /\ Goes(q, NextStep(q.op, local[q].admin))
  /\ UNCHANGED <<accounts, pendings, sessions, overlaps>>

-----------------------------------------------------------------------------
(* Registration.                                                           *)
StartRegistration(q) ==
  /\ At(q, "register", "ready") /\ ~Taken(q.email)
  /\ Goes(q, "issue")
  /\ UNCHANGED <<accounts, pendings, sessions, overlaps>>

IssueCode(q) ==
  /\ local[q].pc = "issue"
  /\ codes' = Append(codes,
       [email |-> q.email, purpose |-> q.op, attempts |-> 0, open |-> TRUE, passes |-> 0])
  /\ Goes(q, "pend")
  /\ UNCHANGED <<accounts, pendReg, pendChange, resets, enrolling, sessions, overlaps>>

PendRegistration(q) ==
  /\ At(q, "register", "pend")
  /\ pendReg' = {p \in pendReg : p.email # q.email} \cup {[request |-> q, email |-> q.email]}
  /\ Goes(q, "done")
  /\ UNCHANGED <<accounts, codes, pendChange, resets, enrolling, sessions, overlaps>>

(* Mutant of VerifyRegistration: the address is not looked up again.       *)
VerifyUnchecked(q) ==
  \E p \in pendReg :
    /\ At(q, "verify", "ready")
    /\ ReadsPending(q, "spend", p)
    /\ UNCHANGED <<accounts, pendings, sessions, overlaps>>

VerifyRegistration(q) ==
  \E p \in pendReg :
    /\ At(q, "verify", "ready") /\ ~Taken(p.email)
    /\ ReadsPending(q, "spend", p)
    /\ UNCHANGED <<accounts, pendings, sessions, overlaps>>

Purpose(q) == IF q.op = "verify" THEN "register" ELSE "askChange"

Usable(email, purpose) ==
  {c \in DOMAIN codes : codes[c].email = email /\ codes[c].purpose = purpose /\ codes[c].open}

Matched(code) == [code EXCEPT !.open = FALSE, !.passes = @ + 1]

Mismatched(code) ==
  [code EXCEPT !.attempts = @ + 1, !.open = code.attempts + 1 < MaxAttempts]

(* The digits are compared with the newest usable code, whichever of them  *)
(* the pending request is for.                                             *)
VerifyCode(q) ==
  \E right \in BOOLEAN :
    /\ local[q].pc = "spend"
    /\ LET usable == Usable(local[q].pending.email, Purpose(q)) IN
       IF usable = {} THEN Goes(q, "done") /\ UNCHANGED codes
       ELSE /\ codes' = [codes EXCEPT ![Max(usable)] =
                 IF right THEN Matched(@) ELSE Mismatched(@)]
            /\ Goes(q, IF right THEN "write" ELSE "done")
    /\ UNCHANGED <<accounts, pendReg, pendChange, resets, enrolling, sessions, overlaps>>

CreateUser(q) ==
  /\ At(q, "verify", "write")
  /\ Writes(q)
  /\ users' = Append(users, NewUser(local[q].pending.email, TRUE))
  /\ sessions' = sessions \cup {[user |-> Len(users) + 1, request |-> q, kind |-> "full"]}
  /\ pendReg' = pendReg \ {local[q].pending}
  /\ Goes(q, "done")
  /\ UNCHANGED <<idents, made, codes, pendChange, resets, enrolling>>

(* A code that has expired unused is dropped before any code is looked at. *)
Expire(c) ==
  /\ c \in DOMAIN codes /\ codes[c].open
  /\ codes' = [codes EXCEPT ![c].open = FALSE]
  /\ UNCHANGED <<accounts, pendReg, pendChange, resets, enrolling, sessions, local, overlaps>>

-----------------------------------------------------------------------------
(* The signed-in user changes the account.                                 *)
AskEmailChange(q) ==
  /\ At(q, "askChange", "check")
  /\ users[local[q].user].email # q.email /\ ~TakenByOther(q.email, local[q].user)
  /\ Goes(q, "issue")
  /\ UNCHANGED <<accounts, pendings, sessions, overlaps>>

PendEmailChange(q) ==
  /\ At(q, "askChange", "pend")
  /\ pendChange' = {p \in pendChange : p.user # local[q].user}
                      \cup {[request |-> q, user |-> local[q].user, email |-> q.email]}
  /\ Goes(q, "done")
  /\ UNCHANGED <<accounts, codes, pendReg, resets, enrolling, sessions, overlaps>>

ConfirmEmailChange(q) ==
  \E p \in pendChange :
    /\ At(q, "confirmChange", "check")
    /\ p.user = local[q].user /\ ~TakenByOther(p.email, p.user)
    /\ ReadsPending(q, "spend", p)
    /\ UNCHANGED <<accounts, pendings, sessions, overlaps>>

ChangeEmail(q) ==
  LET p == local[q].pending IN
  /\ At(q, "confirmChange", "write")
  /\ Writes(q)
  /\ users' = [users EXCEPT ![p.user].email = p.email]
  /\ pendChange' = pendChange \ {p}
  /\ Goes(q, "done")
  /\ UNCHANGED <<idents, made, codes, pendReg, resets, enrolling, sessions>>

ChangePassword(q) ==
  /\ At(q, "password", "check")
  /\ users' = [users EXCEPT ![local[q].user].password = TRUE]
  /\ Writes(q)
  /\ Goes(q, "done")
  /\ UNCHANGED <<idents, made, pendings, sessions>>

SoftDelete(q) ==
  LET u == local[q].user IN
  /\ At(q, "delete", "delete")
  /\ Writes(q)
  /\ users' = [users EXCEPT ![u].live = FALSE, ![u].factor = NoFactor]
  /\ sessions' = {s \in sessions : s.user # u}
  /\ pendChange' = {p \in pendChange : p.user # u}
  /\ enrolling' = enrolling \ {u}
  /\ Goes(q, "done")
  /\ UNCHANGED <<idents, made, codes, pendReg, resets>>

-----------------------------------------------------------------------------
(* The admin routes.                                                       *)
(* Mutant of Others: an admin that demotes itself is not looked at.        *)
OthersOfDelete(q) ==
  LET me == local[q].user IN
  /\ local[q].pc = "others"
  /\ q.op = "delete" => OtherAdmins(me) # {}
  /\ Goes(q, q.op)
  /\ UNCHANGED <<accounts, pendings, sessions, overlaps>>

(* Only what an admin does to itself is looked at for the last admin, in a *)
(* read of its own.                                                        *)
Others(q) ==
  LET me == local[q].user IN
  /\ local[q].pc = "others"
  /\ q.op = "delete" \/ (q.op \in {"demote", "lock"} /\ q.user = me) => OtherAdmins(me) # {}
  /\ Goes(q, q.op)
  /\ UNCHANGED <<accounts, pendings, sessions, overlaps>>

SetRole(q) ==
  /\ q.op \in {"promote", "demote"} /\ local[q].pc = q.op
  /\ q.user \in DOMAIN users
  /\ Writes(q)
  /\ users' = [users EXCEPT ![q.user].admin = q.op = "promote"]
  /\ Goes(q, "done")
  /\ UNCHANGED <<idents, made, pendings, sessions>>

(* A lock sets deletedAt and leaves the sessions; an unlock clears it,     *)
(* whoever had set it.                                                     *)
ToggleLock(q) ==
  /\ At(q, "lock", "lock") /\ q.user \in DOMAIN users
  /\ Writes(q)
  /\ users' = [users EXCEPT ![q.user].live = ~@, ![q.user].toggled = TRUE]
  /\ Goes(q, "done")
  /\ UNCHANGED <<idents, made, pendings, sessions>>

-----------------------------------------------------------------------------
(* Log-in with a password: the first account with the address, deleted or  *)
(* not, is the one that counts.  An admin of the allow-list without a      *)
(* factor gets to set one up.                                              *)
Login(q) ==
  LET named == {u \in DOMAIN users : users[u].email = q.email}
      u == Min(named)
      kind == CASE On(u) -> "second"
                [] ~On(u) /\ q.email \in AdminEmails -> "enrol"
                [] OTHER -> "full"
  IN /\ At(q, "login", "ready") /\ named # {}
     /\ users[u].live /\ users[u].password
     /\ local' = [local EXCEPT ![q].pc = "session", ![q].user = u, ![q].kind = kind,
                               ![q].admin = users[u].admin]
     /\ UNCHANGED <<accounts, pendings, sessions, overlaps>>

(* Mutant of LookForFactor: a log-in with a provider is as good as two.    *)
TrustsProvider(q) ==
  /\ At(q, "oauth", "look")
  /\ local' = [local EXCEPT ![q].pc = "session", ![q].kind = "full"]
  /\ UNCHANGED <<accounts, pendings, sessions, overlaps>>

(* Log-in with a provider reads the account once more.                     *)
LookForFactor(q) ==
  /\ At(q, "oauth", "look")
  /\ local' = [local EXCEPT ![q].pc = "session",
                            ![q].kind = IF On(local[q].user) THEN "second" ELSE "full"]
  /\ UNCHANGED <<accounts, pendings, sessions, overlaps>>

(* The role is raised by the allow-list at a log-in with a password.       *)
OpenSession(q) ==
  LET u == local[q].user
      raised == q.op = "login" /\ q.email \in AdminEmails /\ ~local[q].admin
  IN /\ local[q].pc = "session"
     /\ IF raised THEN Writes(q) ELSE Acts(q)
     /\ sessions' = sessions \cup {[user |-> u, request |-> q, kind |-> local[q].kind]}
     /\ users' = [users EXCEPT ![u].admin = @ \/ raised]
     /\ Goes(q, "done")
     /\ UNCHANGED <<idents, made, pendings>>

(* Log-in with a provider, and linking one: the row of the identity, then  *)
(* its owner.  A log-in links once it has found an account with its        *)
(* address, and then reads both again.                                     *)
Linking(q) == local[q].user # 0

FindIdentity(q) ==
  LET rows == {row \in idents : row.ident = q.ident}
      next == IF Linking(q) THEN "push" ELSE "email"
  IN /\ At(q, "oauth", "ready") \/ local[q].pc = "find"
     /\ IF rows = {} THEN Goes(q, next)
        ELSE \E row \in rows : /\ \A other \in rows : row.id <= other.id
                              /\ ReadsRow(q, "owner", row)
     /\ UNCHANGED <<accounts, pendings, sessions, overlaps>>

FindOwner(q) ==
  LET row == local[q].row IN
  /\ local[q].pc = "owner"
  /\ IF row.user \notin LiveUsers THEN Goes(q, "stale")
     ELSE IF Linking(q)
     THEN Goes(q, IF q.op = "oauth" /\ row.user = local[q].user THEN "look" ELSE "done")
     ELSE ReadsUser(q, "look", row.user)
  /\ UNCHANGED <<accounts, pendings, sessions, overlaps>>

(* The row of an account that was deleted goes.                            *)
DropIdentity(q) ==
  /\ local[q].pc = "stale"
  /\ idents' = {row \in idents : row.id # local[q].row.id}
  /\ Writes(q)
  /\ Goes(q, IF Linking(q) THEN "push" ELSE "email")
  /\ UNCHANGED <<users, made, pendings, sessions>>

FindEmail(q) ==
  LET named == {u \in LiveUsers : q.email # NoEmail /\ users[u].email = q.email} IN
  /\ At(q, "oauth", "email")
  /\ IF named = {} THEN Goes(q, "create") ELSE ReadsUser(q, "find", Min(named))
  /\ UNCHANGED <<accounts, pendings, sessions, overlaps>>

AddsRow(ident, user) ==
  /\ made' = made + 1
  /\ idents' = idents \cup {[id |-> made + 1, ident |-> ident, user |-> user]}

PushIdentity(q) ==
  /\ local[q].pc = "push"
  /\ Writes(q)
  /\ AddsRow(q.ident, local[q].user)
  /\ Goes(q, IF q.op = "oauth" THEN "look" ELSE "done")
  /\ UNCHANGED <<users, pendings, sessions>>

CreateFromOAuth(q) ==
  LET u == Len(users) + 1 IN
  /\ At(q, "oauth", "create")
  /\ Writes(q)
  /\ users' = Append(users, NewUser(q.email, FALSE))
  /\ AddsRow(q.ident, u)
  /\ ReadsUser(q, "look", u)
  /\ UNCHANGED <<pendings, sessions>>

(* Mutant of UnlinkIdentity: the row that goes is counted too.             *)
UnlinkCountsAll(q) ==
  LET u == local[q].user
      mine == {row \in idents : row.user = u}
  IN \E row \in mine :
    /\ At(q, "unlink", "unlink")
    /\ ProviderOf[row.ident] = ProviderOf[q.ident]
    /\ mine # {} \/ users[u].password
    /\ idents' = idents \ {row}
    /\ Writes(q)
    /\ Goes(q, "done")
    /\ UNCHANGED <<users, made, pendings, sessions>>

(* One update: the user's first row of the provider goes, unless it is the *)
(* last way in.                                                            *)
UnlinkIdentity(q) ==
  LET u == local[q].user
      mine == {row \in idents : row.user = u}
      named == {row \in mine : ProviderOf[row.ident] = ProviderOf[q.ident]}
  IN \E row \in named :
    /\ At(q, "unlink", "unlink")
    /\ \A other \in named : row.id <= other.id
    /\ mine # {row} \/ users[u].password
    /\ idents' = idents \ {row}
    /\ Writes(q)
    /\ Goes(q, "done")
    /\ UNCHANGED <<users, made, pendings, sessions>>

-----------------------------------------------------------------------------
(* A forgotten password.                                                   *)
RequestReset(q) ==
  LET named == {u \in LiveUsers : users[u].email = q.email} IN
  /\ At(q, "forgot", "ready") /\ named # {} /\ users[Min(named)].password
  /\ ReadsUser(q, "replace", Min(named))
  /\ UNCHANGED <<accounts, pendings, sessions, overlaps>>

ReplaceReset(q) ==
  /\ local[q].pc = "replace"
  /\ resets' = {r \in resets : r.user # local[q].user}
                 \cup {[request |-> q, user |-> local[q].user, used |-> FALSE, times |-> 0]}
  /\ Writes(q)
  /\ Goes(q, "done")
  /\ UNCHANGED <<accounts, codes, pendReg, pendChange, enrolling, sessions>>

ConfirmReset(q) ==
  \E r \in resets :
    /\ At(q, "reset", "ready") /\ ~r.used /\ r.user \in LiveUsers
    /\ local' = [local EXCEPT ![q].pc = "write", ![q].pending = r, ![q].user = r.user]
    /\ UNCHANGED <<accounts, pendings, sessions, overlaps>>

WriteReset(q) ==
  LET link == local[q].pending.request
      u == local[q].user
  IN /\ At(q, "reset", "write")
     /\ Writes(q)
     /\ users' = [users EXCEPT ![u].password = TRUE]
     /\ resets' = {IF r.request = link THEN [r EXCEPT !.used = TRUE, !.times = @ + 1] ELSE r :
                     r \in resets}
     /\ sessions' = {s \in sessions : s.user # u}
     /\ Goes(q, "done")
     /\ UNCHANGED <<idents, made, codes, pendReg, pendChange, enrolling>>

-----------------------------------------------------------------------------
(* The request is refused, its store fails or the process dies.            *)
Ends(q) ==
  /\ local[q].pc \notin {"done", "in"} /\ Goes(q, "done")
  /\ UNCHANGED <<accounts, pendings, sessions, overlaps>>

AccountStep(q) ==
  \/ Authenticate(q) \/ Prove(q) \/ Ends(q)
  \/ StartRegistration(q) \/ IssueCode(q) \/ PendRegistration(q)
  \/ VerifyRegistration(q) \/ VerifyCode(q) \/ CreateUser(q)
  \/ AskEmailChange(q) \/ PendEmailChange(q) \/ ConfirmEmailChange(q) \/ ChangeEmail(q)
  \/ ChangePassword(q) \/ SoftDelete(q)
  \/ Others(q) \/ SetRole(q) \/ ToggleLock(q)
  \/ Login(q) \/ LookForFactor(q) \/ OpenSession(q)
  \/ FindIdentity(q) \/ FindOwner(q) \/ DropIdentity(q) \/ FindEmail(q)
  \/ PushIdentity(q) \/ CreateFromOAuth(q) \/ UnlinkIdentity(q)
  \/ RequestReset(q) \/ ReplaceReset(q) \/ ConfirmReset(q) \/ WriteReset(q)

-----------------------------------------------------------------------------
(* The accounts no admin has locked or unlocked. *)
Untouched == {u \in LiveUsers : ~users[u].toggled}

(* Where a log-in comes to: with a password to the first account that has  *)
(* the address (NoEmail is one of the account's own), with a provider to   *)
(* the owner of the identity's first row.                                  *)
ByPassword(u) ==
  /\ users[u].password
  /\ \A v \in DOMAIN users :
       users[v].email = users[u].email => u <= v \/ users[u].email = NoEmail

ByProvider(u) ==
  \E row \in idents :
    /\ row.user = u
    /\ \A other \in idents : other.ident = row.ident => row.id <= other.id

(* A log-in with its address comes to an earlier account, which was deleted*)
(* or has been locked.                                                     *)
Overshadowed(u) ==
  /\ users[u].password
  /\ \E v \in DOMAIN users \ Untouched : v < u /\ users[v].email = users[u].email

(* An account keeps a password or an identity, whatever is linked, unlinked*)
(* and cleaned up at once: the unlink counts in its update, and the        *)
(* clean-up takes only the rows of a deleted account.  And a log-in with   *)
(* one of them comes to it, unless a request went by what it had read      *)
(* before another one's update, or only the password is left and the       *)
(* address was an earlier account's: a registration and a change of address*)
(* look at the live accounts only, loginUser at all of them.               *)
AlwaysALogin ==
  \A u \in Untouched :
    /\ users[u].password \/ \E row \in idents : row.user = u
    /\ ~overlapped => ByPassword(u) \/ ByProvider(u) \/ Overshadowed(u)

(* Two accounts share no address and no identity, a reset link works once, *)
(* a deleted account has no session, and no second factor is on offer where*)
(* one is on ("user must disable first", POST /api/me/2fa/enroll), unless a*)
(* request went by what it had read before another one's update.           *)
SerialIsConsistent ==
  ~overlapped =>
    /\ \A u, v \in Untouched :
         u # v => users[u].email # users[v].email \/ users[u].email = NoEmail
    /\ \A one, two \in idents :
         /\ one.ident = two.ident /\ one.user \in Untouched /\ two.user \in Untouched
         => one = two
    /\ \A r \in resets : r.times <= 1
    /\ \A s \in sessions : users[s.user].live \/ users[s.user].toggled
    /\ \A u \in enrolling : ~On(u)

(* "Cannot delete the only remaining admin account": someone is left to    *)
(* administer, unless requests overlap or an account was locked (it keeps  *)
(* its sessions and so may lock its admin in turn).                        *)
AnAdminStays ==
  ~overlapped /\ (\E u \in DOMAIN users : users[u].admin)
    => \E u \in DOMAIN users : users[u].toggled \/ (users[u].live /\ users[u].admin)
===============================================================================
